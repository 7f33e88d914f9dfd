---------------------------- MODULE GuardServer ----------------------------
(***************************************************************************)
(* The guard service of src/src/server.ts: the handlers of POST /review    *)
(* and POST /countersign, run concurrently for any number of requests,     *)
(* over the replay ledger, the Hedera network, the x402 payment gate and   *)
(* the HCS verdict log.                                                    *)
(*                                                                         *)
(* A handler is a sequence of awaited calls; each step below runs from one *)
(* answer to the next await, so that every other request, the clock, the   *)
(* agent, the network and a crash may come between two awaits.  What a     *)
(* handler keeps across an await (the schedule it read, the clock it read) *)
(* is kept in snap, not read again.                                        *)
(*                                                                         *)
(* What the two validators decide from the bytes alone is the constant     *)
(* Clean; what they decide from the clock, the signers and the network is  *)
(* decided here, at the step where the code reads it.                      *)
(***************************************************************************)
EXTENDS ReplayStore, FiniteSets

CONSTANTS
    Schedules,    \* targets of /review: ScheduleIDs
    Transfers,    \* targets of /countersign: digests of the submitted bytes
    Offers,       \* the bodies clients may post: [mandate, target] records
    Authentic,    \* mandates of a configured tenant with a valid owner signature
    HtsMandates,  \* mandates over a fungible token (others are over HBAR)
    Clean,        \* <<mandate, target>>: every check on the bytes alone passes
    ValidFrom,    \* of a mandate, seconds
    ExpiresAt,    \* of a mandate, seconds
    OpensAt,      \* of a target: a transaction's valid start
    ClosesAt,     \* of a target: schedule expiration, or end of validity
    ValidityFloor,\* remaining validity a transfer must exceed (30 s in the code)
    MaxTime,      \* bound of the clock
    NoOffer       \* the body of a request not yet sent

ASSUME GuardConstants ==
    /\ Targets = Schedules \cup Transfers
    /\ Schedules \cap Transfers = {}
    /\ Offers \subseteq [mandate : Mandates, target : Targets]
    /\ NoOffer \notin Offers
    /\ Authentic \subseteq Mandates
    /\ Clean \subseteq Mandates \X Targets
    /\ MaxTime \in Nat /\ ValidityFloor \in Nat
    /\ \A m \in Mandates : ValidFrom[m] \in Nat /\ ExpiresAt[m] \in Nat
    /\ \A t \in Targets : OpensAt[t] \in Nat /\ ClosesAt[t] \in Nat

(* What a pair that passes the checks on the bytes satisfies: the target   *)
(* closes no later than the mandate expires, and /review refuses every HTS *)
(* schedule.  The memo ties a schedule to one mandate; nothing ties the    *)
(* bytes of a transfer, which may be clean for several.                    *)
ASSUME CleanPairs ==
    \A m \in Mandates, t \in Targets : <<m, t>> \in Clean =>
        /\ ClosesAt[t] <= ExpiresAt[m]
        /\ t \in Schedules => m \notin HtsMandates

VARIABLES
    now,          \* the clock, shared by the guard and consensus
    agentSigned,  \* schedules that carry the agent's signature
    executed,     \* targets that consensus executed: the treasury moved
    inflight,     \* ScheduleSign submissions consensus has not applied
    paid,         \* requests whose x402 payment settled
    signed,       \* requests for which the guard's key produced a signature
    verdicts,     \* HCS messages
    pc,           \* where each handler stands
    req,          \* the body of each request
    snap,         \* what the handler remembers of the signers it read
    reply         \* the HTTP answer

world == <<now, agentSigned, executed, inflight>>
evidence == <<paid, signed, verdicts>>
handler == <<pc, req, snap, reply>>
vars == <<rows, world, evidence, handler>>

Signers == {"agent", "guard"}
Waiting == {"paying", "settled", "resolving", "resolved", "validating", "querying",
            "reserving", "rechecking", "relooking", "signing", "awaiting",
            "approving", "completing", "refusing"}
PCs == Waiting \cup {"idle", "done", "lost"}
Statuses == {"ok", "unpaid", "rejected", "retry", "error"}

Verdict == [request : Requests, outcome : {"approved", "refused"}]
Reply == [status : Statuses, outcome : {"none", "approved", "refused"},
          settlement : Requests \cup {None}]
NoReply == [status |-> "error", outcome |-> "none", settlement |-> None]

M(r) == req[r].mandate
T(r) == req[r].target

TypeOK ==
    /\ StoreTypeOK
    /\ now \in 0..MaxTime
    /\ agentSigned \subseteq Schedules
    /\ executed \subseteq Targets
    /\ inflight \subseteq Requests
    /\ paid \subseteq Requests
    /\ signed \subseteq Requests
    /\ verdicts \subseteq Verdict
    /\ pc \in [Requests -> PCs]
    /\ req \in [Requests -> Offers \cup {NoOffer}]
    /\ snap \in [Requests -> SUBSET Signers]
    /\ reply \in [Requests -> Reply]
    /\ \A r \in Requests : pc[r] # "idle" => req[r] \in Offers

Init ==
    /\ StoreInit
    /\ now = 0
    /\ agentSigned = {} /\ executed = {} /\ inflight = {}
    /\ paid = {} /\ signed = {} /\ verdicts = {}
    /\ pc = [r \in Requests |-> "idle"]
    /\ req = [r \in Requests |-> NoOffer]
    /\ snap = [r \in Requests |-> {}]
    /\ reply = [r \in Requests |-> NoReply]

----------------------------------------------------------------------------
(* Control: a handler moves on, or answers and ends.                       *)
Goto(r, next) == pc' = [pc EXCEPT ![r] = next] /\ UNCHANGED <<req, snap, reply>>

Respond(r, status, outcome, settlement) ==
    /\ pc' = [pc EXCEPT ![r] = "done"]
    /\ reply' = [reply EXCEPT ![r] =
                    [status |-> status, outcome |-> outcome, settlement |-> settlement]]
    /\ UNCHANGED <<req, snap>>

(* Fault: the settlement of the retry.                                     *)
RespondStoredOwn(r) == Respond(r, "ok", "approved", r)

(* A stored completion is served again with the settlement that earned it. *)
RespondStored(r) == Respond(r, "ok", "approved", rows[Key(M(r))].settlement)
RespondRetry(r) == Respond(r, "retry", "none", None)

IsReview(r) == T(r) \in Schedules

(* Parsing, tenant lookup and the mandate signature: no state is touched   *)
(* and no payment is asked of a request that fails here.                   *)
Arrive(r) ==
    /\ pc[r] = "idle"
    /\ \E o \in Offers :
        /\ req' = [req EXCEPT ![r] = o]
        /\ IF o.mandate \in Authentic
           THEN pc' = [pc EXCEPT ![r] = "paying"] /\ UNCHANGED reply
           ELSE /\ pc' = [pc EXCEPT ![r] = "done"]
                /\ reply' = [reply EXCEPT ![r] =
                     [status |-> "rejected", outcome |-> "none", settlement |-> None]]
    /\ UNCHANGED <<rows, world, evidence, snap>>

Unpaid(r) ==
    /\ pc[r] = "paying"
    /\ Respond(r, "unpaid", "none", None)
    /\ UNCHANGED <<rows, world, evidence>>

Settle(r) ==
    /\ pc[r] = "paying"
    /\ paid' = paid \cup {r}
    /\ Goto(r, "settled")
    /\ UNCHANGED <<rows, world, signed, verdicts>>

(* Fault: /countersign goes on over a pending row.                         *)
LookUpOverPending(r) ==
    /\ pc[r] = "settled"
    /\ IF Sealed(M(r), T(r)) THEN RespondStored(r)
       ELSE Goto(r, IF IsReview(r) THEN "resolving" ELSE "validating")
    /\ UNCHANGED <<rows, world, evidence>>

(* First look at the ledger.  /review continues on a pending row, because  *)
(* it asks consensus about the signature; /countersign does not.           *)
LookUp(r) ==
    /\ pc[r] = "settled"
    /\ LET state == ReviewState(M(r), T(r)) IN
        \/ state = "completed" /\ RespondStored(r)
        \/ state = "pending" /\ ~ IsReview(r) /\ RespondRetry(r)
        \/ state = "pending" /\ IsReview(r) /\ Goto(r, "resolving")
        \/ state = "absent" /\ Goto(r, IF IsReview(r) THEN "resolving" ELSE "validating")
    /\ UNCHANGED <<rows, world, evidence>>

----------------------------------------------------------------------------
(* /review: resolve the schedule.                                          *)

(* Consensus forgets a schedule when it expires, executed or not.          *)
Resolvable(t) == now < ClosesAt[t]

ReadSchedule(r) ==
    /\ pc[r] = "resolving"
    /\ \/ /\ Resolvable(T(r))
          /\ pc' = [pc EXCEPT ![r] = "resolved"]
          /\ snap' = [snap EXCEPT ![r] =
                {x \in Signers : \/ x = "agent" /\ T(r) \in agentSigned
                                 \/ x = "guard" /\ T(r) \in executed}]
          /\ UNCHANGED <<req, reply>>
       \/ ~ Resolvable(T(r)) /\ Goto(r, "refusing")
    /\ UNCHANGED <<rows, world, evidence>>

(* Fault: the start of the mandate is not looked at.                       *)
MandateNotExpired(m) == now < ExpiresAt[m]

MandateActive(m) == ValidFrom[m] <= now /\ now < ExpiresAt[m]

(* Fault: the bytes are not reviewed.                                      *)
ReviewApprovesUnread(r) == "agent" \in snap[r] /\ MandateActive(M(r))

ReviewApproves(r) ==
    /\ <<M(r), T(r)>> \in Clean
    /\ "agent" \in snap[r]
    /\ MandateActive(M(r))

(* The second version query is answered and the clock is read: a signature *)
(* of the guard is reported first, then a version outside the allowlist    *)
(* refuses (it may at any time), then the schedule is reviewed.            *)
DecideReview(r) ==
    /\ pc[r] = "resolved"
    /\ \/ "guard" \in snap[r] /\ RespondRetry(r)
       \/ "guard" \notin snap[r] /\ Goto(r, "refusing")
       \/ "guard" \notin snap[r] /\ ReviewApproves(r) /\ Goto(r, "reserving")
    /\ UNCHANGED <<rows, world, evidence>>

----------------------------------------------------------------------------
(* /countersign: validate the bytes, reading the clock once; an HTS        *)
(* mandate then waits for the token's state, which may refuse it.          *)
TransferInWindow(t) == OpensAt[t] <= now /\ ClosesAt[t] > now + ValidityFloor

Validate(r) ==
    /\ pc[r] = "validating"
    /\ Goto(r, IF /\ <<M(r), T(r)>> \in Clean
                  /\ MandateActive(M(r))
                  /\ TransferInWindow(T(r))
               THEN "querying" ELSE "refusing")
    /\ UNCHANGED <<rows, world, evidence>>

TokenInfo(r) ==
    /\ pc[r] = "querying"
    /\ \/ Goto(r, "reserving")
       \/ M(r) \in HtsMandates /\ Goto(r, "refusing")
    /\ UNCHANGED <<rows, world, evidence>>

----------------------------------------------------------------------------
(* Both routes: reserve the nonce, sign, publish, complete, answer.        *)
(* Fault: a retry of a pending row resumes the approval.                   *)
ReserveNonceResumes(r) ==
    /\ pc[r] = "reserving"
    /\ \/ CanReserve(M(r), T(r)) /\ InsertPending(M(r), T(r)) /\ Goto(r, "signing")
       \/ IsRefused(M(r), T(r)) /\ Goto(r, "refusing") /\ UNCHANGED rows
       \/ IsRetry(M(r), T(r)) /\ Goto(r, "signing") /\ UNCHANGED rows
    /\ UNCHANGED <<world, evidence>>

ReserveNonce(r) ==
    /\ pc[r] = "reserving"
    /\ \/ CanReserve(M(r), T(r)) /\ InsertPending(M(r), T(r)) /\ Goto(r, "signing")
       \/ IsRefused(M(r), T(r)) /\ Goto(r, "refusing") /\ UNCHANGED rows
       \/ /\ IsRetry(M(r), T(r))
          /\ Goto(r, IF IsReview(r) /\ ~ Sealed(M(r), T(r)) THEN "rechecking" ELSE "relooking")
          /\ UNCHANGED rows
    /\ UNCHANGED <<world, evidence>>

(* Fault: the losing review starts over instead of answering.              *)
RecheckPolls(r) ==
    /\ pc[r] = "rechecking"
    /\ Goto(r, "resolving")
    /\ UNCHANGED <<rows, world, evidence>>

(* A review that lost the race resolves again, only to word its answer.    *)
Recheck(r) ==
    /\ pc[r] = "rechecking"
    /\ RespondRetry(r)
    /\ UNCHANGED <<rows, world, evidence>>

(* A row that is no longer pending is answered from the ledger; a review   *)
(* only gets here when it is not.                                          *)
LookUpAgain(r) ==
    /\ pc[r] = "relooking"
    /\ IF Sealed(M(r), T(r)) THEN RespondStored(r) ELSE RespondRetry(r)
    /\ UNCHANGED <<rows, world, evidence>>

(* /review hands a ScheduleSign to the network, /countersign signs the     *)
(* bytes it validated.                                                     *)
Sign(r) ==
    /\ pc[r] = "signing"
    /\ signed' = signed \cup {r}
    /\ IF IsReview(r)
       THEN inflight' = inflight \cup {r} /\ Goto(r, "awaiting")
       ELSE UNCHANGED inflight /\ Goto(r, "approving")
    /\ UNCHANGED <<rows, now, agentSigned, executed, paid, verdicts>>

(* Fault: the approval is completed without being published.               *)
ReceiptUnpublished(r) ==
    /\ pc[r] = "awaiting"
    /\ r \notin inflight
    /\ Goto(r, "completing")
    /\ UNCHANGED <<rows, world, evidence>>

Receipt(r) ==
    /\ pc[r] = "awaiting"
    /\ r \notin inflight
    /\ Goto(r, "approving")
    /\ UNCHANGED <<rows, world, evidence>>

Publish(r, outcome) ==
    verdicts' = verdicts \cup {[request |-> r, outcome |-> outcome]}

PublishApproval(r) ==
    /\ pc[r] = "approving"
    /\ Publish(r, "approved")
    /\ Goto(r, "completing")
    /\ UNCHANGED <<rows, world, paid, signed>>

CompleteNonce(r) ==
    /\ pc[r] = "completing"
    /\ WriteCompletion(M(r), T(r), r)
    /\ Respond(r, "ok", "approved", r)
    /\ UNCHANGED <<world, evidence>>

PublishRefusal(r) ==
    /\ pc[r] = "refusing"
    /\ Publish(r, "refused")
    /\ Respond(r, "ok", "refused", r)
    /\ UNCHANGED <<rows, world, paid, signed>>

----------------------------------------------------------------------------
(* Failures.  Any awaited call may throw, which the dispatcher answers     *)
(* with 500; a failed settlement or publication may have taken effect all  *)
(* the same.  A busy ledger is answered with 503.                          *)
CallFails(r) ==
    /\ pc[r] \in Waiting \ {"validating", "querying"}
    /\ Respond(r, "error", "none", None)
    /\ \/ UNCHANGED <<paid, verdicts>>
       \/ pc[r] = "paying" /\ paid' = paid \cup {r} /\ UNCHANGED verdicts
       \/ pc[r] = "approving" /\ Publish(r, "approved") /\ UNCHANGED paid
       \/ pc[r] = "refusing" /\ Publish(r, "refused") /\ UNCHANGED paid
    /\ UNCHANGED <<rows, world, signed>>

(* Fault: a busy ledger gives the reservation back.                        *)
StoreBusyReleases(r) ==
    /\ pc[r] \in {"settled", "reserving", "relooking", "completing"}
    /\ RespondRetry(r)
    /\ rows' = IF pc[r] = "completing" THEN [rows EXCEPT ![Key(M(r))] = NoRow] ELSE rows
    /\ UNCHANGED <<world, evidence>>

StoreBusy(r) ==
    /\ pc[r] \in {"settled", "reserving", "relooking", "completing"}
    /\ RespondRetry(r)
    /\ UNCHANGED <<rows, world, evidence>>

(* The process dies and is started again: the handlers are gone, the       *)
(* ledger, the network and the verdict topic are not.                      *)
Crash ==
    /\ \E r \in Requests : pc[r] \in Waiting
    /\ pc' = [r \in Requests |-> IF pc[r] \in Waiting THEN "lost" ELSE pc[r]]
    /\ UNCHANGED <<rows, world, evidence, req, snap, reply>>

----------------------------------------------------------------------------
(* The network and the agent.                                              *)
Tick ==
    /\ now < MaxTime
    /\ now' = now + 1
    /\ UNCHANGED <<rows, agentSigned, executed, inflight, evidence, handler>>

AgentSigns(s) ==
    /\ s \notin agentSigned
    /\ agentSigned' = agentSigned \cup {s}
    /\ UNCHANGED <<rows, now, executed, inflight, evidence, handler>>

(* The guard's signature reaches a live schedule that the agent signed,    *)
(* which executes at once.  Until then it may still arrive, whatever the   *)
(* handler that sent it came to.                                           *)
SignatureLands(r) ==
    /\ r \in inflight
    /\ T(r) \in agentSigned
    /\ T(r) \notin executed
    /\ now < ClosesAt[T(r)]
    /\ executed' = executed \cup {T(r)}
    /\ inflight' = inflight \ {r}
    /\ UNCHANGED <<rows, now, agentSigned, evidence, handler>>

(* Countersigned bytes are out when an approval carries them.              *)
Released(t) ==
    \E r \in Requests : pc[r] = "done" /\ reply[r].outcome = "approved" /\ T(r) = t

TransferExecutes(t) ==
    /\ Released(t)
    /\ t \notin executed
    /\ OpensAt[t] <= now /\ now < ClosesAt[t]
    /\ executed' = executed \cup {t}
    /\ UNCHANGED <<rows, now, agentSigned, inflight, evidence, handler>>

----------------------------------------------------------------------------
Handle(r) ==
    \/ Unpaid(r) \/ Settle(r) \/ LookUp(r)
    \/ ReadSchedule(r) \/ DecideReview(r) \/ Validate(r) \/ TokenInfo(r)
    \/ ReserveNonce(r) \/ Recheck(r) \/ LookUpAgain(r)
    \/ Sign(r) \/ Receipt(r) \/ PublishApproval(r) \/ CompleteNonce(r)
    \/ PublishRefusal(r) \/ CallFails(r) \/ StoreBusy(r)

Network ==
    \/ Tick
    \/ \E s \in Schedules : AgentSigns(s)
    \/ \E r \in Requests : SignatureLands(r)
    \/ \E t \in Transfers : TransferExecutes(t)

Next ==
    \/ \E r \in Requests : Arrive(r) \/ Handle(r)
    \/ Crash
    \/ Network

Spec == Init /\ [][Next]_vars

(* Every awaited call is answered or fails, so a handler that waits goes   *)
(* on.  Clients, the agent, the clock, the network's application of a      *)
(* signature and crashes promise nothing.                                  *)
FairSpec == Spec /\ \A r \in Requests : WF_vars(Handle(r))

----------------------------------------------------------------------------
(* Properties.                                                             *)

Sat(r) == <<M(r), T(r)>>
SameNonce(r, q) == Key(M(r)) = Key(M(q))

(* The guard's key signs for at most one request of each tenant nonce,     *)
(* across both routes, retries and restarts.                               *)
OneSignaturePerNonce ==
    \A r, q \in signed : SameNonce(r, q) => r = q

(* A target the treasury moved on is bound, for good, by a nonce of the    *)
(* ledger.  A nonce binds one target, so it moves the treasury once; the   *)
(* same transfer may spend several nonces and still moves once.            *)
EveryMoveSpendsANonce ==
    \A t \in executed : \E k \in Keys :
        /\ rows[k] # NoRow /\ rows[k].target = t
        /\ <<rows[k].mandate, t>> \in Clean

(* A signature of the guard exists only for a paid request whose mandate   *)
(* and target passed every check and are the tuple the ledger holds.       *)
SignedIsReserved ==
    \A r \in signed :
        /\ r \in paid
        /\ M(r) \in Authentic
        /\ Sat(r) \in Clean
        /\ SameTuple(M(r), T(r))

(* A sealed row is backed by the signature and the published approval of   *)
(* the very request whose settlement it stores, and a sealed schedule was  *)
(* executed by consensus.                                                  *)
SealedIsAttested ==
    \A k \in Keys : rows[k] # NoRow /\ rows[k].settlement # None =>
        LET q == rows[k].settlement IN
        /\ q \in signed
        /\ [request |-> q, outcome |-> "approved"] \in verdicts
        /\ M(q) = rows[k].mandate /\ T(q) = rows[k].target
        /\ rows[k].target \in Schedules => rows[k].target \in executed

(* Every approval answered, replays included, quotes a sealed row: the     *)
(* countersigned bytes leave the guard only after the approval is public   *)
(* and durable.                                                            *)
ApprovalIsSealed ==
    \A r \in Requests : pc[r] = "done" /\ reply[r].outcome = "approved" =>
        /\ SameTuple(M(r), T(r))
        /\ rows[Key(M(r))].settlement = reply[r].settlement

(* A binding is permanent: a row keeps its tuple for ever and is completed *)
(* at most once, although the UPDATE itself would overwrite a completion.  *)
BindingIsPermanent ==
    [][\A k \in Keys : rows[k] # NoRow =>
          /\ rows'[k] # NoRow
          /\ rows'[k].mandate = rows[k].mandate
          /\ rows'[k].target = rows[k].target
          /\ rows[k].settlement # None => rows'[k].settlement = rows[k].settlement]_vars

(* The treasury only moves while a mandate bound to the move is active,    *)
(* although signatures and bytes arrive at consensus long after the review *)
(* read its clock.                                                         *)
MovesInsideMandate ==
    [][\A t \in executed' \ executed : \E k \in Keys :
          /\ rows[k] # NoRow /\ rows[k].target = t
          /\ ValidFrom[rows[k].mandate] <= now /\ now < ExpiresAt[rows[k].mandate]]_vars

(* Once the guard has signed a tuple, a request for it that has not looked *)
(* the ledger up yet is never told, and never publishes, that the tuple is *)
(* refused.  On /review the signature must have reached consensus, and the *)
(* promise ends when the schedule expires and consensus forgets it.        *)
SignedTupleNotRefusedAgain ==
    \A r, q \in Requests :
        []( /\ q \in signed
            /\ req[r] = req[q]
            /\ pc[r] \in {"paying", "settled"}
            /\ IsReview(r) => T(r) \in executed
            => []( [request |-> r, outcome |-> "refused"] \in verdicts
                    => IsReview(r) /\ ~ Resolvable(T(r)) ) )

(* What test/server.test.ts promises without that exception: after the     *)
(* handler that had the schedule signed failed, no later request for the   *)
(* tuple publishes a refusal.                                              *)
ReviewRetryCannotRefuse ==
    \A r, q \in Requests :
        []( /\ q \in signed /\ T(q) \in Schedules /\ T(q) \in executed
            /\ pc[q] = "done" /\ reply[q].status = "error"
            /\ pc[r] = "idle"
            => []( req[r] = req[q]
                    => [request |-> r, outcome |-> "refused"] \notin verdicts ) )

(* What it promises of /countersign while an approval is being recorded:   *)
(* another request for the tuple publishes nothing.                        *)
InFlightCountersignNotRefused ==
    [][\A v \in verdicts' \ verdicts :
          v.outcome = "refused" =>
            ~ \E q \in Requests :
                /\ pc[q] = "approving" /\ T(q) \in Transfers
                /\ req[q] = req[v.request]]_vars

(* A request that paid is answered, unless the process dies under it.      *)
EveryRequestAnswered ==
    \A r \in Requests : pc[r] = "paying" ~> pc[r] \in {"done", "lost"}

----------------------------------------------------------------------------
(* The inductive invariant behind the safety properties.                   *)

(* What a handler has already been through.                                *)
Gates ==
    \A r \in Requests :
        /\ pc[r] \in Waiting => M(r) \in Authentic
        /\ pc[r] \in Waiting \ {"paying"} => r \in paid
        /\ pc[r] \in {"querying", "reserving"} =>
             Sat(r) \in Clean /\ ValidFrom[M(r)] <= now

(* Requests that reserved a row and are at work on it.                     *)
Holds(r) == pc[r] \in {"signing", "awaiting", "approving", "completing"}

(* A request claims its nonce from the moment it reserved it, and for ever *)
(* once the guard signed for it.                                           *)
Claims(r) == r \in signed \/ Holds(r)

ClaimIsBound(r) ==
    /\ pc[r] # "idle"
    /\ r \in paid
    /\ M(r) \in Authentic
    /\ Sat(r) \in Clean
    /\ ValidFrom[M(r)] <= now
    /\ SameTuple(M(r), T(r))

ClaimsBound == \A r \in Requests : Claims(r) => ClaimIsBound(r)

ClaimsUnique ==
    \A r, q \in Requests : Claims(r) /\ Claims(q) /\ SameNonce(r, q) => r = q

(* Signature, effect, publication and completion come in this order.       *)
Approval(r) == [request |-> r, outcome |-> "approved"]

InOrder ==
    \A r \in Requests :
        /\ Holds(r) => rows[Key(M(r))].settlement = None
        /\ pc[r] \in {"awaiting", "approving", "completing"} => r \in signed
        /\ pc[r] = "awaiting" /\ r \notin inflight => T(r) \in executed
        /\ pc[r] \in {"approving", "completing"} /\ IsReview(r) => T(r) \in executed
        /\ pc[r] = "completing" => Approval(r) \in verdicts

Effects ==
    /\ inflight \subseteq signed
    /\ \A t \in executed : \E r \in signed : T(r) = t
    /\ \A r \in Requests : Approval(r) \in verdicts => r \in signed

ApprovalNamesPayer ==
    \A r \in Requests : pc[r] = "done" /\ reply[r].outcome = "approved" =>
        reply[r].settlement # None

Inductive ==
    /\ TypeOK
    /\ Gates
    /\ ClaimsBound /\ ClaimsUnique
    /\ InOrder
    /\ Effects
    /\ SealedIsAttested
    /\ ApprovalIsSealed /\ ApprovalNamesPayer
============================================================================
