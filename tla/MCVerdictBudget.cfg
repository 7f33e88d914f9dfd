SPECIFICATION MCSpec
CONSTANTS
    Configs <- MCConfigs
    Topics <- MCTopics
    NoTopic = NoTopic
    Names <- MCNames
    Bodies <- MCBodies
    Payments <- MCPayments
    Calls = 1
    BodyOf <- MCBodyOf
    Price = 1000000
    FloorFee = 1000000
    FeeCap = 10000000
    Validity = 2
    Grace = 1
    Lag = 1
CHECK_DEADLOCK FALSE
INVARIANT
    EveryVerdictFits
