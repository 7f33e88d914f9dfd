SPECIFICATION Spec
CONSTANTS
    m1 = m1  m1x = m1x  m2 = m2  n1 = n1  f = f
    s1 = s1  t1 = t1  t2 = t2  t3 = t3
    a = a  b = b
    r1 = r1  r2 = r2  r3 = r3
    Mandates <- MCMandates
    Targets <- MCTargets
    Requests <- MCRequests
    TenantOf <- MCTenantOf
    NonceOf <- MCNonceOf
    Schedules <- MCSchedules
    Transfers <- MCTransfers
    Offers <- OffersAll
    Authentic <- MCAuthentic
    HtsMandates <- MCHts
    Clean <- MCClean
    ValidFrom <- MCValidFrom
    ExpiresAt <- MCExpiresAt
    OpensAt <- MCOpensAt
    ClosesAt <- MCClosesAt
    ValidityFloor = 0
    MaxTime = 2
    NoOffer = NoOffer
    NoRow = NoRow
    None = None
SYMMETRY Symmetry
CHECK_DEADLOCK FALSE
INVARIANTS
    OneSignaturePerNonce
    EveryMoveSpendsANonce
    SignedIsReserved
    SealedIsAttested
    ApprovalIsSealed
PROPERTIES
    BindingIsPermanent
    MovesInsideMandate
