SPECIFICATION Spec
CONSTANTS
    kSimpleQueryStringTrackers <- MCSimple
    kScopedQueryStringTrackers <- MCScoped
    kConditionalQueryStringTrackers <- MCConditional
    DomainOf <- MCDomainOf
    Request <- OneRequest
    URL <- MCFewUrls
    Method <- MCGet
    Initiator <- MCNoInitiator
    Key <- MCKeys
    NetworkMayDie = FALSE
    HasController = FALSE
    MaxReceivers = 1
    MaxFollows = 1
INVARIANTS
    LoaderIsRecreated
