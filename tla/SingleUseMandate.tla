-------------------------- MODULE SingleUseMandate --------------------------
(***************************************************************************)
(* What the guard promises about a mandate, with no server, ledger or      *)
(* network in sight.  A tenant nonce is bound, once and for ever, to one   *)
(* mandate and one target; the guard then authorises that target, once;    *)
(* the treasury moves on it, at most once; and the approval is attested in *)
(* public and sealed, in that order.  A bound nonce may stop anywhere on   *)
(* the way, but nothing can turn it to another target.                     *)
(*                                                                         *)
(* README.md, "Mandates", of the repository: a mandate permits a single    *)
(* approval.                                                               *)
(***************************************************************************)
EXTENDS Naturals

CONSTANTS
    Mandates, Targets,
    TenantOf, NonceOf,
    Free              \* a nonce not bound yet

Key(m) == <<TenantOf[m], NonceOf[m]>>
Keys == {Key(m) : m \in Mandates}

VARIABLES
    bound,            \* the mandate and target each nonce is bound to
    authorized,       \* nonces the guard's key was used for
    moved,            \* targets on which the treasury moved
    attested,         \* nonces whose approval is public
    sealed            \* nonces whose approval is durable

vars == <<bound, authorized, moved, attested, sealed>>

Init ==
    /\ bound = [k \in Keys |-> Free]
    /\ authorized = {} /\ moved = {} /\ attested = {} /\ sealed = {}

(* Nonces of a tenant are bound in increasing order. *)
Bind(m, t) ==
    /\ bound[Key(m)] = Free
    /\ \A k \in Keys : bound[k] # Free /\ k[1] = TenantOf[m] => k[2] < NonceOf[m]
    /\ bound' = [bound EXCEPT ![Key(m)] = [mandate |-> m, target |-> t]]
    /\ UNCHANGED <<authorized, moved, attested, sealed>>

Authorize(k) ==
    /\ bound[k] # Free /\ k \notin authorized
    /\ authorized' = authorized \cup {k}
    /\ UNCHANGED <<bound, moved, attested, sealed>>

Move(k) ==
    /\ k \in authorized /\ bound[k].target \notin moved
    /\ moved' = moved \cup {bound[k].target}
    /\ UNCHANGED <<bound, authorized, attested, sealed>>

Attest(k) ==
    /\ k \in authorized /\ k \notin attested
    /\ attested' = attested \cup {k}
    /\ UNCHANGED <<bound, authorized, moved, sealed>>

Seal(k) ==
    /\ k \in attested /\ k \notin sealed
    /\ sealed' = sealed \cup {k}
    /\ UNCHANGED <<bound, authorized, moved, attested>>

Next ==
    \/ \E m \in Mandates, t \in Targets : Bind(m, t)
    \/ \E k \in Keys : Authorize(k) \/ Move(k) \/ Attest(k) \/ Seal(k)

Spec == Init /\ [][Next]_vars
=============================================================================
