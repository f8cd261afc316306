SPECIFICATION Spec
CONSTANT
    kThresholdCount = 5
INVARIANTS
    TypeOK
    StreakDecides
    OncePerLaunch
PROPERTY
    InfobarReturns
