---------------------------- MODULE ReplayStore ----------------------------
(***************************************************************************)
(* The durable replay ledger of the guard: the SQLite table                *)
(* mandate_reviews of src/src/replay-store.ts, at the granularity of one   *)
(* transaction.  Every exported function of that file runs one transaction *)
(* (BEGIN ... COMMIT), so here each is one step; module ReplayStoreTx      *)
(* opens the transactions and shows that they implement this module.       *)
(*                                                                         *)
(* A row is keyed by (tenant_id, nonce).  It names the mandate (the code   *)
(* stores its SHA-256 digest, taken to be injective) and the target (the   *)
(* ScheduleID, or "transfer:" and the digest of the submitted bytes).  The *)
(* completion columns are written together by one UPDATE and are           *)
(* represented by the settlement they carry: the paid request that         *)
(* completed the row.  A row whose settlement is None has outcome NULL.    *)
(***************************************************************************)
EXTENDS Naturals

CONSTANTS
    Mandates,    \* owner-signed mandates, told apart by their digest
    Targets,     \* what a mandate can be bound to: schedules and transfers
    Requests,    \* paid requests; a request is named by its settlement ID
    TenantOf,    \* the mandate's tenantId
    NonceOf,     \* the mandate's nonce, a minimal unsigned decimal
    NoRow,       \* no row under that primary key
    None         \* the NULL completion columns

Key(m) == <<TenantOf[m], NonceOf[m]>>
Keys == {Key(m) : m \in Mandates}

Row == [mandate : Mandates, target : Targets, settlement : Requests \cup {None}]

ASSUME StoreConstants ==
    /\ \A m \in Mandates : NonceOf[m] \in Nat
    /\ None \notin Requests
    /\ NoRow \notin Row

VARIABLE rows

StoreTypeOK == rows \in [Keys -> Row \cup {NoRow}]

StoreInit == rows = [k \in Keys |-> NoRow]

Bound(m) == rows[Key(m)] # NoRow

(* The exact stored tuple: same digest and same target. *)
SameTuple(m, t) ==
    /\ Bound(m)
    /\ rows[Key(m)].mandate = m
    /\ rows[Key(m)].target = t

Sealed(m, t) == SameTuple(m, t) /\ rows[Key(m)].settlement # None

(* The nonce is above the tenant's high-water mark.  The code compares     *)
(* length first and then characters, which for minimal decimals is the     *)
(* numeric order.                                                          *)
FreshNonce(m) ==
    \A k \in Keys : rows[k] # NoRow /\ k[1] = TenantOf[m] => k[2] < NonceOf[m]

----------------------------------------------------------------------------
(* The three answers of reserveMandateReview.                              *)
IsRetry(m, t) == SameTuple(m, t)
(* Faults, for the mutants: keyed by the whole tuple; no high-water mark.  *)
CanReserveByTuple(m, t) == ~ SameTuple(m, t)
CanReserveUnordered(m, t) == ~ Bound(m)

CanReserve(m, t) == ~ Bound(m) /\ FreshNonce(m)
IsRefused(m, t) == ~ IsRetry(m, t) /\ ~ CanReserve(m, t)

(* The three answers of getMandateReviewState.                             *)
ReviewState(m, t) ==
    IF ~ SameTuple(m, t) THEN "absent"
    ELSE IF Sealed(m, t) THEN "completed" ELSE "pending"

(* INSERT of a pending row.                                                *)
Inserted(m, t) ==
    [rows EXCEPT ![Key(m)] = [mandate |-> m, target |-> t, settlement |-> None]]
InsertPending(m, t) == rows' = Inserted(m, t)

(* UPDATE by the full tuple; it throws, and changes nothing, when no row   *)
(* matches.  It does not look at the outcome column.                       *)
Completed(m, s) == [rows EXCEPT ![Key(m)].settlement = s]
WriteCompletion(m, t, s) == SameTuple(m, t) /\ rows' = Completed(m, s)

----------------------------------------------------------------------------
(* The store by itself, used by any sequence of callers.                   *)
Reserve(m, t) == CanReserve(m, t) /\ InsertPending(m, t)
Complete(m, t, s) == WriteCompletion(m, t, s)

StoreNext ==
    \E m \in Mandates, t \in Targets :
        \/ Reserve(m, t)
        \/ \E s \in Requests : Complete(m, t, s)

StoreSpec == StoreInit /\ [][StoreNext]_rows
============================================================================
