SPECIFICATION RecurringSpec
CONSTANTS
    c1 = c1  c2 = c2  v = v
    a = a
    Requests <- MCRequests
    Addresses <- MCAddresses
    AddressOf <- MCAddressOf
    Envelopes = 3
    QueueLimit = 1
    Posts <- MCPosts
    Known <- MCKnown
    Looks = 1
CHECK_DEADLOCK FALSE
INVARIANT
    NeverHappenedIsTrue
