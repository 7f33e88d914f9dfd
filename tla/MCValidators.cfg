SPECIFICATION MCSpec
CONSTANTS
    treasury = treasury  guard = guard  recipient = recipient
    agent = agent  stranger = stranger
    hbar = hbar  tk = tk  tk2 = tk2
    Treasury = treasury
    GuardAccount = guard
    Agent = agent
    Hbar = hbar
    Others <- MCOthers
    Tokens <- MCTokens
    Mandates <- MCMandates
    Submissions <- MCSubmissions
    Schedules <- MCSchedules
    NoSchedule = NoSchedule
    ProtocolFee = 1
    Floor = 0
    TicksPerSecond = 2
    MaxTime = 6
CHECK_DEADLOCK FALSE
INVARIANTS
    TransferWithinMandate
    ScheduleWithinMandate
PROPERTIES
    TransferInsideMandate
    ScheduleInsideMandate
