\* Two contexts of one site and several devices.
SPECIFICATION Spec
CONSTANTS
    c1 = c1
    c2 = c2
    Context <- MCContext
    ContextKind <- AllKinds
    Domain <- MCDomain
    Garbage <- MCGarbage
    Random <- MCRandom
    Letters <- MCLetters
    GLValue <- MCGLValue
    WindowRange <- MCWindowRange
    ScreenOffset = 100
    Processors <- MCProcessors
    Memory <- MCMemory
    WindowKey <- MCWindowKey
SYMMETRY MCSymmetry
INVARIANTS
    KeyIsFilled
    Plausible
    OneStoryPerSite
PROPERTY
    ToldTheSame
