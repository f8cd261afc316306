SPECIFICATION RemovalSpec
CONSTANTS
    kSimpleQueryStringTrackers <- MCSimple
    kScopedQueryStringTrackers <- MCScoped
    kConditionalQueryStringTrackers <- MCConditional
    DomainOf <- MCDomainOf
    Start <- MCStart
    RegisteredDefault = "ASK"
    MaxQueryLength = 3
INVARIANTS
    ReportIsTheDifference
PROPERTIES
    FilterCommutesWithRemoval
CHECK_DEADLOCK FALSE
