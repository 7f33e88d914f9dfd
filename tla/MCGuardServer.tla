--------------------------- MODULE MCGuardServer ---------------------------
(***************************************************************************)
(* Tenant a with nonces 1 and 2, tenant b with nonce 1, both routes.  m1   *)
(* and m1x share nonce 1; the schedule s1 and the transfer t1 carry m1,    *)
(* the transfer t2 carries m1x, a mandate over a token.  t2 also satisfies *)
(* m2, whose nonce is 2.  Tenant b's mandate n1 is carried by t3.  The     *)
(* mandate f is forged.                                                    *)
(***************************************************************************)
EXTENDS GuardImplements, TLC

CONSTANTS m1, m1x, m2, n1, f, s1, t1, t2, t3, a, b, r1, r2, r3

MCMandates == {m1, m1x, m2, n1, f}
MCSchedules == {s1}
MCTransfers == {t1, t2, t3}
MCTargets == MCSchedules \cup MCTransfers
MCRequests == {r1, r2, r3}
MCTenantOf == [m \in MCMandates |-> IF m = n1 THEN b ELSE a]
MCNonceOf == [m \in MCMandates |-> IF m = m2 THEN 2 ELSE 1]
MCAuthentic == MCMandates \ {f}
MCClean == {<<m1, s1>>, <<m1, t1>>, <<m1x, t2>>, <<m2, t2>>, <<n1, t3>>}
Offer(m, t) == [mandate |-> m, target |-> t]
(* Both routes for one nonce, a schedule under the other mandate of that   *)
(* nonce, and one transfer for two nonces.                                 *)
OffersAll == {Offer(m1, s1), Offer(m1x, s1), Offer(m1x, t2), Offer(m2, t2)}
OffersReview == {Offer(m1, s1)}
OffersToken == {Offer(m1x, t2)}
(* Both routes, the second with and without a token, another tenant with   *)
(* the same nonce, a forged mandate, and one transfer for two nonces.      *)
OffersBothRoutes ==
    {Offer(m1, s1), Offer(m1, t1), Offer(m1x, t2), Offer(m2, t2), Offer(n1, t3), Offer(f, s1)}
TwoRequests == {r1, r2}
MCHts == {m1x, m2}
(* m1 is active at time 1 only, the others from 0 to 1.                    *)
MCValidFrom == [m \in MCMandates |-> IF m = m1 THEN 1 ELSE 0]
MCExpiresAt == [m \in MCMandates |-> 2]
MCOpensAt == [t \in MCTargets |-> 0]
MCClosesAt == [t \in MCTargets |-> 2]
Symmetry == Permutations(MCRequests)
============================================================================
