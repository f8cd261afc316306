SPECIFICATION Spec
CONSTANTS
    kSimpleQueryStringTrackers <- MCSimple
    kScopedQueryStringTrackers <- MCScoped
    kConditionalQueryStringTrackers <- MCConditional
    DomainOf <- MCDomainOf
    RegisteredDefault = "ASK"
    URL <- MCPages
    MaxHops = 2
INVARIANT
    TypeOK
PROPERTY
    CappedForMaxLevel
CHECK_DEADLOCK FALSE
