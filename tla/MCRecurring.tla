---------------------------- MODULE MCRecurring ----------------------------
(* Two occurrences and one visitor from one address, an envelope too few.  *)
EXTENDS Recurring

CONSTANTS c1, c2, v, a

MCRequests == {c1, c2, v}
MCAddresses == {a}
MCAddressOf == [r \in MCRequests |-> a]
MCPosts == <<c1, c2>>
MCKnown == {1, 2}
============================================================================
