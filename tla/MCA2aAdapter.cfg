SPECIFICATION A2aFairSpec
CONSTANTS
    k1 = k1  k2 = k2  k3 = k3
    Tasks <- MCTasks
    MaxTasks = 2
CHECK_DEADLOCK FALSE
INVARIANTS
    OnePaymentPerTask
    ReceiptsAreTrue
PROPERTIES
    ReceiptsAreKept
    PaidTaskIsKept
    TerminalIsFinal
    WorkEnds
