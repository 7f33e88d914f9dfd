-------------------------- MODULE GuardImplements --------------------------
(***************************************************************************)
(* The guard server implements the single-use mandate.  The binding is the *)
(* tuple of the ledger row; a nonce is authorised when the guard's key was *)
(* used for a request that carries it, attested when an approval of such a *)
(* request is on the verdict topic, sealed when its row is completed.      *)
(***************************************************************************)
EXTENDS GuardServer

(* No row is no binding either. *)
ASSUME NoRowIsFree == NoRow \notin [mandate : Mandates, target : Targets]

Binding(k) ==
    IF rows[k] = NoRow THEN NoRow
    ELSE [mandate |-> rows[k].mandate, target |-> rows[k].target]

KeyOfRequest(r) == Key(M(r))

AuthorizedKeys == {KeyOfRequest(r) : r \in signed}
AttestedKeys ==
    {KeyOfRequest(r) : r \in
        {q \in Requests : [request |-> q, outcome |-> "approved"] \in verdicts}}
SealedKeys == {k \in Keys : rows[k] # NoRow /\ rows[k].settlement # None}

Promise == INSTANCE SingleUseMandate WITH
    Free <- NoRow,
    bound <- [k \in Keys |-> Binding(k)],
    authorized <- AuthorizedKeys,
    moved <- executed,
    attested <- AttestedKeys,
    sealed <- SealedKeys

(* Every behaviour of the two handlers, with retries, lost answers and     *)
(* crashes, is a behaviour of the single-use mandate.                      *)
ImplementsSingleUse == Promise!Spec
============================================================================
