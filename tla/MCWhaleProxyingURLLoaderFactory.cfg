SPECIFICATION FairSpec
CONSTANTS
    kSimpleQueryStringTrackers <- MCSimple
    kScopedQueryStringTrackers <- MCScoped
    kConditionalQueryStringTrackers <- MCConditional
    DomainOf <- MCDomainOf
    Request <- OneRequest
    URL <- MCMixedUrls
    Method <- MCMethods
    Initiator <- MCInitiators
    Key <- MCKeys
    NetworkMayDie = TRUE
    HasController = TRUE
    MaxReceivers = 2
    MaxFollows = 2
INVARIANTS
    TypeOK
    ClientContract
    LoaderContract
    URLAgreement
    NoLoaderMeansParked
    FactoryLifetime
PROPERTIES
    SilentEndOnlyAtRedirect
    NoTrackerOnTheWire
    RemovalIsReported
    LifetimeSpec
    RequestsEnd
