-------------------------- MODULE MCReplayStoreTx --------------------------
(***************************************************************************)
(* Nonces 1 and 2 of one tenant; x1 and y1 are two mandates on nonce 1,     *)
(* x1 may be carried by two targets.  Four callers meet on the file.       *)
(***************************************************************************)
EXTENDS ReplayStoreTx, TLC

CONSTANTS x1, y1, x2, s, u, q1, q2, c1, c2, c3, c4

MCMandates == {x1, y1, x2}
MCTargets == {s, u}
MCRequests == {q1, q2}
MCTenantOf == [mandate \in MCMandates |-> "a"]
MCNonceOf == [mandate \in MCMandates |-> IF mandate = x2 THEN 2 ELSE 1]
MCCallers == {c1, c2, c3, c4}
A(op, mandate, target, settlement) ==
    [op |-> op, mandate |-> mandate, target |-> target, settlement |-> settlement]
MCCalls ==
    {A("reserve", x1, s, None), A("reserve", y1, s, None), A("reserve", x1, u, None),
     A("reserve", x2, u, None),
     A("complete", x1, s, q1), A("complete", x1, u, q2),
     A("look", x1, s, None)}
Symmetry == Permutations(MCCallers)
============================================================================
