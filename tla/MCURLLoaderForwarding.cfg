\* One request, up to two redirects followed, one header.
SPECIFICATION ForwardSpec
CONSTANTS
    kSimpleQueryStringTrackers <- MCSimple
    kScopedQueryStringTrackers <- MCScoped
    kConditionalQueryStringTrackers <- MCConditional
    DomainOf <- MCDomainOf
    RegisteredDefault = "ASK"
    Request <- OneRequest
    URL <- MCUrls
    Method <- MCGet
    Initiator <- MCNoInitiator
    Key <- MCKeys
    NetworkMayDie = TRUE
    HasController = FALSE
    MaxReceivers = 1
    MaxFollows = 2
    Header = {"h1"}
    Referrer <- MCReferrer
    ResourceType <- MCResourceType
INVARIANTS
    LoaderHasClientHeaders
    ResumeIsNeverLost
    PriorityIsLostWithTheLoader
PROPERTY
    NewLoaderIsCapped
