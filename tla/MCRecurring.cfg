SPECIFICATION RecurringFairSpec
CONSTANTS
    c1 = c1  c2 = c2  v = v
    a = a
    Requests <- MCRequests
    Addresses <- MCAddresses
    AddressOf <- MCAddressOf
    Envelopes = 2
    QueueLimit = 1
    Posts <- MCPosts
    Known <- MCKnown
    Looks = 1
CHECK_DEADLOCK FALSE
INVARIANTS
    EnvelopeOnce
    AdmittedIsDurable
    QueueExact
    ShownIsKept
    EvidenceIsTrue
    InTurn
    JournalIsTrue
PROPERTIES
    RequestsAreAnswered
    RunsEnd
    ControllerEnds
