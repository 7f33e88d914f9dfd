SPECIFICATION TxSpec
CONSTANTS
    x1 = x1  y1 = y1  x2 = x2
    s = s  u = u
    q1 = q1  q2 = q2
    c1 = c1  c2 = c2  c3 = c3  c4 = c4
    Mandates <- MCMandates
    Targets <- MCTargets
    Requests <- MCRequests
    TenantOf <- MCTenantOf
    NonceOf <- MCNonceOf
    Callers <- MCCallers
    Calls <- MCCalls
    NoRow = NoRow
    None = None
    NoCall = NoCall
    NoCaller = NoCaller
SYMMETRY Symmetry
CHECK_DEADLOCK FALSE
INVARIANT
    AnswersStayTrue
PROPERTY
    ImplementsStore
