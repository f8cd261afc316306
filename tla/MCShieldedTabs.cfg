SPECIFICATION Spec
CONSTANTS
    kSimpleQueryStringTrackers <- MCSimple
    kScopedQueryStringTrackers <- MCScoped
    kConditionalQueryStringTrackers <- MCConditional
    DomainOf <- MCDomainOf
    RegisteredDefault = "DEFAULT"
    Tab <- MCTab
    URL <- MCURL
    Item <- MCItem
    SettingsType <- MCSettingsType
    MaxPages = 3
INVARIANT
    TypeOK
    RecordIsTheStreak
PROPERTIES
    SwitchIsExact
    ChangesAreAnnounced
CHECK_DEADLOCK FALSE
