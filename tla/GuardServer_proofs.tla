------------------------- MODULE GuardServer_proofs -------------------------
(***************************************************************************)
(* Proofs about the guard server, for any set of requests, mandates and    *)
(* targets and any clock: its invariants, and that it implements the       *)
(* single-use mandate, because a step of the server is a step of the       *)
(* mandate or none.                                                        *)
(***************************************************************************)
EXTENDS GuardImplements, TLAPS

(* A bound nonce has a row.                                                *)
LEMMA RowTyped ==
  ASSUME StoreTypeOK, NEW m \in Mandates, Bound(m)
  PROVE  /\ rows[Key(m)] \in Row
         /\ rows[Key(m)].settlement \in Requests \cup {None}
<1>1. Key(m) \in Keys
  BY DEF Keys
<1>2. rows[Key(m)] \in Row
  BY <1>1 DEF StoreTypeOK, Bound
<1>3. QED
  BY <1>2 DEF Row

(* The two writes of the ledger.                                           *)
LEMMA WritesTyped ==
  ASSUME StoreTypeOK, NEW m \in Mandates, NEW t \in Targets, NEW s \in Requests,
         InsertPending(m, t) \/ WriteCompletion(m, t, s)
  PROVE  StoreTypeOK'
<1>1. Key(m) \in Keys
  BY DEF Keys
<1>2. CASE InsertPending(m, t)
  <2>1. [mandate |-> m, target |-> t, settlement |-> None] \in Row
    BY DEF Row
  <2>2. QED
    BY <1>1, <1>2, <2>1 DEF InsertPending, Inserted, StoreTypeOK
<1>3. CASE WriteCompletion(m, t, s)
  <2>1. Bound(m)
    BY <1>3 DEF WriteCompletion, Completed, SameTuple
  <2>2. rows[Key(m)] \in Row
    BY <2>1, RowTyped
  <2>3. [rows[Key(m)] EXCEPT !.settlement = s] \in Row
    BY <2>2 DEF Row
  <2>4. QED
    BY <1>1, <1>3, <2>3 DEF WriteCompletion, Completed, StoreTypeOK
<1>4. QED
  BY <1>2, <1>3

(* The body of a request that arrived.                                     *)
LEMMA BodyTyped ==
  ASSUME TypeOK, NEW r \in Requests, pc[r] # "idle"
  PROVE  /\ M(r) \in Mandates
         /\ T(r) \in Targets
         /\ Key(M(r)) \in Keys
<1>1. req[r] \in [mandate : Mandates, target : Targets]
  BY GuardConstants DEF TypeOK
<1>2. QED
  BY <1>1 DEF M, T, Keys

(* What the handlers and the network keep well typed, step by step.        *)
LEMMA TypeStep == TypeOK /\ [Next]_vars => TypeOK'
<1> USE GuardConstants, StoreConstants
<1> SUFFICES ASSUME TypeOK, [Next]_vars PROVE TypeOK'
  OBVIOUS
<1> USE DEF TypeOK, world, evidence, handler, Goto, Respond, PCs,
            Waiting, Reply, Statuses, RespondRetry
<1>1. ASSUME NEW r \in Requests, Arrive(r) PROVE TypeOK'
  BY <1>1 DEF Arrive, StoreTypeOK
<1>2. ASSUME NEW r \in Requests, Unpaid(r) PROVE TypeOK'
  BY <1>2 DEF Unpaid, StoreTypeOK
<1>3. ASSUME NEW r \in Requests, Settle(r) PROVE TypeOK'
  BY <1>3 DEF Settle, StoreTypeOK
<1>4. ASSUME NEW r \in Requests, LookUp(r) PROVE TypeOK'
  <2>1. M(r) \in Mandates
    BY <1>4, BodyTyped DEF LookUp
  <2>2. CASE ReviewState(M(r), T(r)) = "completed" /\ RespondStored(r)
    <3>1. rows[Key(M(r))].settlement \in Requests \cup {None}
      BY <2>1, <2>2, RowTyped DEF ReviewState, Sealed, SameTuple
    <3>2. QED
      BY <1>4, <2>2, <3>1 DEF LookUp, RespondStored, StoreTypeOK
  <2>3. CASE RespondRetry(r)
    BY <1>4, <2>3 DEF LookUp, StoreTypeOK
  <2>4. CASE \E next \in {"resolving", "validating"} : Goto(r, next)
    BY <1>4, <2>4 DEF LookUp, StoreTypeOK
  <2>5. QED
    BY <1>4, <2>2, <2>3, <2>4 DEF LookUp
<1>5. ASSUME NEW r \in Requests, ReadSchedule(r) PROVE TypeOK'
  BY <1>5 DEF ReadSchedule, StoreTypeOK
<1>6. ASSUME NEW r \in Requests, DecideReview(r) PROVE TypeOK'
  BY <1>6 DEF DecideReview, StoreTypeOK
<1>7. ASSUME NEW r \in Requests, Validate(r) PROVE TypeOK'
  BY <1>7 DEF Validate, StoreTypeOK
<1>8. ASSUME NEW r \in Requests, TokenInfo(r) PROVE TypeOK'
  BY <1>8 DEF TokenInfo, StoreTypeOK
<1>9. ASSUME NEW r \in Requests, ReserveNonce(r) PROVE TypeOK'
  <2>1. M(r) \in Mandates /\ T(r) \in Targets
    BY <1>9, BodyTyped DEF ReserveNonce
  <2>2. StoreTypeOK'
    BY <1>9, <2>1, WritesTyped DEF ReserveNonce, StoreTypeOK
  <2>3. QED
    BY <1>9, <2>2 DEF ReserveNonce
<1>10. ASSUME NEW r \in Requests, Recheck(r) PROVE TypeOK'
  BY <1>10 DEF Recheck, StoreTypeOK
<1>11. ASSUME NEW r \in Requests, LookUpAgain(r) PROVE TypeOK'
  <2>1. M(r) \in Mandates
    BY <1>11, BodyTyped DEF LookUpAgain
  <2>2. Sealed(M(r), T(r)) => rows[Key(M(r))].settlement \in Requests \cup {None}
    BY <2>1, RowTyped DEF Sealed, SameTuple
  <2>3. QED
    BY <1>11, <2>2 DEF LookUpAgain, RespondStored, StoreTypeOK
<1>12. ASSUME NEW r \in Requests, Sign(r) PROVE TypeOK'
  BY <1>12 DEF Sign, StoreTypeOK
<1>13. ASSUME NEW r \in Requests, Receipt(r) PROVE TypeOK'
  BY <1>13 DEF Receipt, StoreTypeOK
<1>14. ASSUME NEW r \in Requests, PublishApproval(r) PROVE TypeOK'
  BY <1>14 DEF PublishApproval, Publish, Verdict, StoreTypeOK
<1>15. ASSUME NEW r \in Requests, CompleteNonce(r) PROVE TypeOK'
  <2>1. M(r) \in Mandates /\ T(r) \in Targets
    BY <1>15, BodyTyped DEF CompleteNonce
  <2>2. StoreTypeOK'
    BY <1>15, <2>1, WritesTyped DEF CompleteNonce
  <2>3. QED
    BY <1>15, <2>2 DEF CompleteNonce
<1>16. ASSUME NEW r \in Requests, PublishRefusal(r) PROVE TypeOK'
  BY <1>16 DEF PublishRefusal, Publish, Verdict, StoreTypeOK
<1>17. ASSUME NEW r \in Requests, CallFails(r) PROVE TypeOK'
  BY <1>17 DEF CallFails, Publish, Verdict, StoreTypeOK
<1>18. ASSUME NEW r \in Requests, StoreBusy(r) PROVE TypeOK'
  BY <1>18 DEF StoreBusy, StoreTypeOK
<1>19. CASE Crash
  BY <1>19 DEF Crash, StoreTypeOK
<1>20. CASE Network
  BY <1>20 DEF Network, Tick, AgentSigns, SignatureLands, TransferExecutes, T, StoreTypeOK
<1>21. CASE UNCHANGED vars
  BY <1>21 DEF vars, StoreTypeOK
<1>22. QED
  BY <1>1, <1>2, <1>3, <1>4, <1>5, <1>6, <1>7, <1>8, <1>9, <1>10, <1>11, <1>12,
     <1>13, <1>14, <1>15, <1>16, <1>17, <1>18, <1>19, <1>20, <1>21 DEF Next, Handle

(* Every variable keeps its type: the ledger holds rows, the handlers stand *)
(* at the places of their code and answer what they may answer.            *)
THEOREM TypeCorrect == Spec => []TypeOK
<1>1. Init => TypeOK
  BY GuardConstants, StoreConstants
     DEF Init, TypeOK, StoreInit, StoreTypeOK, PCs, Reply, NoReply, Statuses
<1>2. QED
  BY <1>1, TypeStep, PTL DEF Spec

----------------------------------------------------------------------------
(* What one step can do, said once for the invariants that follow.         *)

(* A handler moves only by a step of its own, or by the crash.             *)
LEMMA ProgramCounterStep ==
  ASSUME TypeOK, [Next]_vars, NEW q \in Requests, pc'[q] # pc[q]
  PROVE  \/ Arrive(q)
         \/ Handle(q)
         \/ Crash /\ pc'[q] = "lost"
<1> USE DEF TypeOK, handler, Goto, Respond, RespondRetry, RespondStored
<1>1. ASSUME NEW r \in Requests, Arrive(r), r # q PROVE FALSE
  BY <1>1 DEF Arrive
<1>2. ASSUME NEW r \in Requests, Handle(r), r # q PROVE FALSE
  <2>1. \/ pc' = [pc EXCEPT ![r] = "done"]
        \/ \E next \in PCs : pc' = [pc EXCEPT ![r] = next]
    BY <1>2 DEF Handle, Unpaid, Settle, LookUp, ReadSchedule, DecideReview, Validate,
         TokenInfo, ReserveNonce, Recheck, LookUpAgain, Sign, Receipt, PublishApproval,
         CompleteNonce, PublishRefusal, CallFails, StoreBusy, PCs, Waiting
  <2>2. QED
    BY <1>2, <2>1
<1>3. ASSUME Network PROVE FALSE
  BY <1>3 DEF Network, Tick, AgentSigns, SignatureLands, TransferExecutes
<1>4. ASSUME Crash PROVE pc'[q] = "lost"
  BY <1>4 DEF Crash
<1>5. ASSUME UNCHANGED vars PROVE FALSE
  BY <1>5 DEF vars
<1>6. QED
  BY <1>1, <1>2, <1>3, <1>4, <1>5 DEF Next

(* The body of a request is fixed once it arrived.                         *)
LEMMA BodyFixed ==
  ASSUME TypeOK, [Next]_vars, NEW q \in Requests, pc[q] # "idle"
  PROVE  /\ req'[q] = req[q]
         /\ M(q)' = M(q) /\ T(q)' = T(q)
         /\ pc'[q] # "idle"
<1> USE DEF TypeOK, handler, Goto, Respond, RespondRetry, RespondStored
<1>1. req'[q] = req[q]
  <2>1. ASSUME NEW r \in Requests, Arrive(r) PROVE req'[q] = req[q]
    BY <2>1 DEF Arrive
  <2>2. ASSUME NEW r \in Requests, Handle(r) PROVE req' = req
    BY <2>2 DEF Handle, Unpaid, Settle, LookUp, ReadSchedule, DecideReview, Validate,
         TokenInfo, ReserveNonce, Recheck, LookUpAgain, Sign, Receipt, PublishApproval,
         CompleteNonce, PublishRefusal, CallFails, StoreBusy
  <2>3. ASSUME Network \/ Crash \/ UNCHANGED vars PROVE req' = req
    BY <2>3 DEF Network, Tick, AgentSigns, SignatureLands, TransferExecutes, Crash, vars
  <2>4. QED
    BY <2>1, <2>2, <2>3 DEF Next
<1>2. pc'[q] # "idle"
  <2>1. CASE pc'[q] = pc[q]
    BY <2>1
  <2>2. CASE pc'[q] # pc[q]
    <3>1. ~ Arrive(q)
      BY DEF Arrive
    <3>2. Handle(q) => pc'[q] # "idle"
      BY DEF Handle, Unpaid, Settle, LookUp, ReadSchedule, DecideReview, Validate,
         TokenInfo, ReserveNonce, Recheck, LookUpAgain, Sign, Receipt, PublishApproval,
         CompleteNonce, PublishRefusal, CallFails, StoreBusy
    <3>3. QED
      BY <2>2, <3>1, <3>2, ProgramCounterStep
  <2>3. QED
    BY <2>1, <2>2
<1>3. QED
  BY <1>1, <1>2 DEF M, T

(* Nothing that happened is undone: time, payments, signatures, executions *)
(* and publications only grow.                                             *)
LEMMA OnlyGrows ==
  ASSUME TypeOK, [Next]_vars
  PROVE  /\ now \in Nat /\ now' \in Nat /\ now <= now'
         /\ paid \subseteq paid'
         /\ signed \subseteq signed'
         /\ executed \subseteq executed'
         /\ verdicts \subseteq verdicts'
<1> USE GuardConstants DEF TypeOK, world, evidence, Publish
<1>1. ASSUME NEW r \in Requests, Arrive(r) PROVE UNCHANGED <<world, evidence>>
  BY <1>1 DEF Arrive
<1>2. ASSUME NEW r \in Requests, Handle(r)
      PROVE  /\ now' = now /\ executed' = executed
             /\ paid \subseteq paid' /\ signed \subseteq signed' /\ verdicts \subseteq verdicts'
  BY <1>2 DEF Handle, Unpaid, Settle, LookUp, ReadSchedule, DecideReview, Validate,
       TokenInfo, ReserveNonce, Recheck, LookUpAgain, Sign, Receipt, PublishApproval,
       CompleteNonce, PublishRefusal, CallFails, StoreBusy
<1>3. ASSUME Network
      PROVE /\ now' \in Nat /\ now <= now' /\ executed \subseteq executed'
            /\ UNCHANGED evidence
  BY <1>3 DEF Network, Tick, AgentSigns, SignatureLands, TransferExecutes
<1>4. ASSUME Crash \/ UNCHANGED vars PROVE UNCHANGED <<world, evidence>>
  BY <1>4 DEF Crash, vars
<1>5. now \in Nat
  OBVIOUS
<1>6. QED
  BY <1>1, <1>2, <1>3, <1>4, <1>5 DEF Next

(* The ledger changes in two ways.                                         *)
LEMMA LedgerStep ==
  ASSUME TypeOK, [Next]_vars
  PROVE  \/ rows' = rows
         \/ \E r \in Requests : /\ pc[r] = "reserving" /\ pc'[r] = "signing"
                                /\ CanReserve(M(r), T(r)) /\ InsertPending(M(r), T(r))
                                /\ signed' = signed /\ executed' = executed
                                /\ verdicts' = verdicts /\ inflight' = inflight
                                /\ reply' = reply
                                /\ pc' = [pc EXCEPT ![r] = "signing"]
         \/ \E r \in Requests : CompleteNonce(r)
<1> USE DEF TypeOK, world, evidence, handler
<1>1. ASSUME NEW r \in Requests, Arrive(r) PROVE rows' = rows
  BY <1>1 DEF Arrive
<1>2. ASSUME NEW r \in Requests, ReserveNonce(r)
      PROVE  \/ rows' = rows
             \/ /\ pc[r] = "reserving" /\ pc'[r] = "signing"
                /\ CanReserve(M(r), T(r)) /\ InsertPending(M(r), T(r))
                /\ signed' = signed /\ executed' = executed
                /\ verdicts' = verdicts /\ inflight' = inflight
                /\ reply' = reply
                /\ pc' = [pc EXCEPT ![r] = "signing"]
  BY <1>2 DEF ReserveNonce, Goto
<1>3. ASSUME NEW r \in Requests, Handle(r), ~ ReserveNonce(r), ~ CompleteNonce(r)
      PROVE  rows' = rows
  BY <1>3 DEF Handle, Unpaid, Settle, LookUp, ReadSchedule, DecideReview, Validate,
       TokenInfo, Recheck, LookUpAgain, Sign, Receipt, PublishApproval,
       PublishRefusal, CallFails, StoreBusy
<1>4. ASSUME Network \/ Crash \/ UNCHANGED vars PROVE rows' = rows
  BY <1>4 DEF Network, Tick, AgentSigns, SignatureLands, TransferExecutes, Crash, vars
<1>5. QED
  BY <1>1, <1>2, <1>3, <1>4 DEF Next

(* A handler takes hold of a row by reserving it and in no other way.      *)
LEMMA NewHold ==
  ASSUME TypeOK, [Next]_vars, NEW q \in Requests, ~ Holds(q), Holds(q)'
  PROVE  /\ pc[q] = "reserving" /\ pc'[q] = "signing"
         /\ CanReserve(M(q), T(q))
         /\ InsertPending(M(q), T(q))
         /\ pc' = [pc EXCEPT ![q] = "signing"]
         /\ signed' = signed
<1> USE DEF TypeOK, world, evidence, handler, Holds
<1>1. pc'[q] # pc[q] /\ pc'[q] \in {"signing", "awaiting", "approving", "completing"}
  OBVIOUS
<1>2. Handle(q)
  BY <1>1, ProgramCounterStep DEF Arrive
<1>3. ReserveNonce(q)
  BY <1>1, <1>2 DEF Goto, Respond, RespondRetry, RespondStored, Handle, Unpaid, Settle,
     LookUp, ReadSchedule, DecideReview, Validate, TokenInfo, Recheck, LookUpAgain, Sign,
     Receipt, PublishApproval, CompleteNonce, PublishRefusal, CallFails, StoreBusy
<1>4. QED
  BY <1>1, <1>3 DEF ReserveNonce, Goto

(* A request claims a nonce by taking hold of its row, and then only.      *)
LEMMA NewClaim ==
  ASSUME TypeOK, [Next]_vars, NEW q \in Requests, ~ Claims(q), Claims(q)'
  PROVE  ~ Holds(q) /\ Holds(q)'
<1> USE DEF TypeOK, world, evidence, handler, Claims, Holds
<1>1. ASSUME q \in signed' PROVE FALSE
  <2>1. ASSUME NEW r \in Requests, Sign(r) PROVE FALSE
    BY <1>1, <2>1 DEF Sign
  <2>2. ASSUME NEW r \in Requests, Arrive(r) \/ Handle(r), ~ Sign(r) PROVE FALSE
    BY <1>1, <2>2 DEF Arrive, Handle, Unpaid, Settle, LookUp, ReadSchedule, DecideReview,
       Validate, TokenInfo, ReserveNonce, Recheck, LookUpAgain, Receipt, PublishApproval,
       CompleteNonce, PublishRefusal, CallFails, StoreBusy
  <2>3. ASSUME Network \/ Crash \/ UNCHANGED vars PROVE FALSE
    BY <1>1, <2>3 DEF Network, Tick, AgentSigns, SignatureLands, TransferExecutes, Crash, vars
  <2>4. QED
    BY <2>1, <2>2, <2>3 DEF Next
<1>2. QED
  BY <1>1

(* A row keeps its mandate and its target.                                 *)
LEMMA TupleKept ==
  ASSUME TypeOK, [Next]_vars, NEW k \in Keys, rows[k] # NoRow
  PROVE  /\ rows'[k] # NoRow
         /\ rows'[k].mandate = rows[k].mandate
         /\ rows'[k].target = rows[k].target
<1>1. rows \in [Keys -> Row \cup {NoRow}] /\ rows[k] \in Row
  BY DEF TypeOK, StoreTypeOK
<1>2. ASSUME NEW r \in Requests, CanReserve(M(r), T(r)), InsertPending(M(r), T(r))
      PROVE  rows'[k] = rows[k]
  BY <1>1, <1>2 DEF CanReserve, Bound, InsertPending, Inserted
<1>3. ASSUME NEW r \in Requests, CompleteNonce(r)
      PROVE  /\ rows'[k] \in Row
             /\ rows'[k].mandate = rows[k].mandate
             /\ rows'[k].target = rows[k].target
  <2>1. \/ rows'[k] = rows[k]
        \/ rows'[k] = [rows[k] EXCEPT !.settlement = r]
    BY <1>1, <1>3 DEF CompleteNonce, WriteCompletion, Completed
  <2>2. QED
    BY <1>1, <2>1 DEF Row
<1>4. QED
  BY <1>1, <1>2, <1>3, LedgerStep, StoreConstants

(* So does what a request that arrived sees of it.                         *)
LEMMA SameTupleKept ==
  ASSUME TypeOK, [Next]_vars, NEW q \in Requests, pc[q] # "idle", SameTuple(M(q), T(q))
  PROVE  SameTuple(M(q), T(q))'
<1>1. M(q) \in Mandates /\ Key(M(q)) \in Keys
  BY BodyTyped
<1>2. M(q)' = M(q) /\ T(q)' = T(q) /\ Key(M(q))' = Key(M(q))
  BY BodyFixed DEF Key
<1>3. rows[Key(M(q))] # NoRow /\ rows[Key(M(q))].mandate = M(q)
       /\ rows[Key(M(q))].target = T(q)
  BY DEF SameTuple, Bound
<1>4. rows'[Key(M(q))] # NoRow /\ rows'[Key(M(q))].mandate = M(q)
       /\ rows'[Key(M(q))].target = T(q)
  BY <1>1, <1>3, TupleKept
<1>5. QED
  BY <1>2, <1>4 DEF SameTuple, Bound

(* How a signature of a review leaves the guard, and how it lands.         *)
LEMMA InFlightStep ==
  ASSUME TypeOK, [Next]_vars
  PROVE  /\ \A r \in inflight' \ inflight : r \in Requests /\ Sign(r)
         /\ \A r \in inflight \ inflight' : r \in Requests /\ SignatureLands(r)
<1> USE DEF world
<1>1. ASSUME NEW r \in Requests, Sign(r)
      PROVE  inflight' = inflight \/ inflight' = inflight \cup {r}
  BY <1>1 DEF Sign
<1>2. ASSUME NEW r \in Requests, Arrive(r) \/ Handle(r), ~ Sign(r)
      PROVE  inflight' = inflight
  BY <1>2 DEF Arrive, Handle, Unpaid, Settle, LookUp, ReadSchedule, DecideReview,
     Validate, TokenInfo, ReserveNonce, Recheck, LookUpAgain, Receipt, PublishApproval,
     CompleteNonce, PublishRefusal, CallFails, StoreBusy
<1>3. ASSUME NEW r \in Requests, SignatureLands(r)
      PROVE  inflight' = inflight \ {r}
  BY <1>3 DEF SignatureLands
<1>4. ASSUME NEW s \in Schedules, AgentSigns(s) PROVE inflight' = inflight
  BY <1>4 DEF AgentSigns
<1>5. ASSUME NEW t \in Transfers, TransferExecutes(t) PROVE inflight' = inflight
  BY <1>5 DEF TransferExecutes
<1>6. ASSUME Tick \/ Crash \/ UNCHANGED vars PROVE inflight' = inflight
  BY <1>6 DEF Tick, Crash, vars
<1>7. QED
  BY <1>1, <1>2, <1>3, <1>4, <1>5, <1>6 DEF Next, Network

(* How the treasury moves.                                                 *)
LEMMA ExecutedStep ==
  ASSUME TypeOK, [Next]_vars, NEW t \in executed', t \notin executed
  PROVE  \/ \E r \in Requests : SignatureLands(r) /\ T(r) = t
         \/ t \in Transfers /\ TransferExecutes(t)
<1> USE DEF world
<1>1. ASSUME NEW r \in Requests, Arrive(r) \/ Handle(r) PROVE executed' = executed
  BY <1>1 DEF Arrive, Handle, Unpaid, Settle, LookUp, ReadSchedule, DecideReview,
     Validate, TokenInfo, ReserveNonce, Recheck, LookUpAgain, Sign, Receipt,
     PublishApproval, CompleteNonce, PublishRefusal, CallFails, StoreBusy
<1>2. ASSUME NEW s \in Schedules, AgentSigns(s) PROVE executed' = executed
  BY <1>2 DEF AgentSigns
<1>3. ASSUME Tick \/ Crash \/ UNCHANGED vars PROVE executed' = executed
  BY <1>3 DEF Tick, Crash, vars
<1>4. ASSUME NEW r \in Requests, SignatureLands(r) PROVE t = T(r)
  BY <1>4 DEF SignatureLands
<1>5. ASSUME NEW u \in Transfers, TransferExecutes(u) PROVE t = u
  BY <1>5 DEF TransferExecutes
<1>6. QED
  BY <1>1, <1>2, <1>3, <1>4, <1>5 DEF Next, Network

(* An approval is published by the handler that holds the signature.       *)
LEMMA NewVerdict ==
  ASSUME TypeOK, [Next]_vars, NEW q \in Requests,
         Approval(q) \in verdicts', Approval(q) \notin verdicts
  PROVE  pc[q] = "approving"
<1> USE DEF evidence, Publish, Approval
<1>1. ASSUME NEW r \in Requests, PublishApproval(r) \/ CallFails(r)
      PROVE  pc[q] = "approving"
  BY <1>1 DEF PublishApproval, CallFails
<1>2. ASSUME NEW r \in Requests, PublishRefusal(r)
      PROVE  FALSE
  BY <1>2 DEF PublishRefusal
<1>3. ASSUME NEW r \in Requests, Arrive(r) \/ Handle(r), ~ PublishApproval(r),
             ~ CallFails(r), ~ PublishRefusal(r)
      PROVE  FALSE
  BY <1>3 DEF Arrive, Handle, Unpaid, Settle, LookUp, ReadSchedule, DecideReview,
     Validate, TokenInfo, ReserveNonce, Recheck, LookUpAgain, Sign, Receipt,
     CompleteNonce, StoreBusy
<1>4. ASSUME Network \/ Crash \/ UNCHANGED vars PROVE FALSE
  BY <1>4 DEF Network, Tick, AgentSigns, SignatureLands, TransferExecutes, Crash, vars
<1>5. QED
  BY <1>1, <1>2, <1>3, <1>4 DEF Next

(* An answer is final.                                                     *)
LEMMA AnswerKept ==
  ASSUME TypeOK, [Next]_vars, NEW q \in Requests, pc[q] = "done"
  PROVE  pc'[q] = "done" /\ reply'[q] = reply[q]
<1> USE DEF TypeOK, handler, Goto, Respond, RespondRetry, RespondStored
<1>1. ASSUME NEW r \in Requests, Arrive(r) \/ Handle(r)
      PROVE  /\ r # q
             /\ r # q => pc'[q] = "done" /\ reply'[q] = reply[q]
  BY <1>1 DEF Arrive, Handle, Unpaid, Settle, LookUp, ReadSchedule, DecideReview,
     Validate, TokenInfo, ReserveNonce, Recheck, LookUpAgain, Sign, Receipt,
     PublishApproval, CompleteNonce, PublishRefusal, CallFails, StoreBusy, Waiting
<1>2. ASSUME Network \/ Crash \/ UNCHANGED vars
      PROVE  pc'[q] = "done" /\ reply'[q] = reply[q]
  BY <1>2 DEF Network, Tick, AgentSigns, SignatureLands, TransferExecutes, Crash, vars,
     Waiting
<1>3. QED
  BY <1>1, <1>2 DEF Next

(* Where an approval that is answered comes from.                          *)
LEMMA NewApproval ==
  ASSUME TypeOK, [Next]_vars, NEW q \in Requests, pc[q] # "done",
         pc'[q] = "done", reply'[q].outcome = "approved"
  PROVE  /\ pc[q] # "idle"
         /\ \/ CompleteNonce(q)
            \/ /\ Sealed(M(q), T(q))
               /\ rows' = rows
               /\ reply'[q].settlement = rows[Key(M(q))].settlement
<1> USE DEF TypeOK, handler, Goto, Respond, RespondRetry, RespondStored
<1>1. Handle(q)
  BY ProgramCounterStep DEF Arrive
<1>2. CASE CompleteNonce(q) \/ LookUp(q) \/ LookUpAgain(q)
  BY <1>2 DEF LookUp, LookUpAgain, CompleteNonce, ReviewState
<1>3. CASE ~ (CompleteNonce(q) \/ LookUp(q) \/ LookUpAgain(q))
  BY <1>1, <1>3 DEF Handle, Unpaid, Settle, ReadSchedule, DecideReview, Validate,
     TokenInfo, ReserveNonce, Recheck, Sign, Receipt, PublishApproval, PublishRefusal,
     CallFails, StoreBusy, Waiting
<1>4. QED
  BY <1>2, <1>3

----------------------------------------------------------------------------
(* The inductive invariant, part by part.                                  *)

(* No handler gets past the payment, the mandate's signature or the review *)
(* of the bytes without having been through them, whatever happens between *)
(* two awaits (server.ts, the early returns of both handlers).             *)
LEMMA GatesHold == TypeOK /\ Gates /\ [Next]_vars => Gates'
<1> SUFFICES ASSUME TypeOK, Gates, [Next]_vars, NEW q \in Requests
             PROVE  /\ pc'[q] \in Waiting => M(q)' \in Authentic
                    /\ pc'[q] \in Waiting \ {"paying"} => q \in paid'
                    /\ pc'[q] \in {"querying", "reserving"} =>
                         /\ Sat(q)' \in Clean
                         /\ ValidFrom[M(q)'] <= now'
  BY DEF Gates
<1>1. CASE pc'[q] = pc[q]
  <2>1. CASE pc[q] = "idle"
    BY <1>1, <2>1 DEF Waiting
  <2>2. CASE pc[q] # "idle" /\ pc[q] \in Waiting
    <3>1. M(q)' = M(q) /\ T(q)' = T(q)
      BY <2>2, BodyFixed
    <3>2. Sat(q)' = Sat(q)
      BY <3>1 DEF Sat
    <3>3. paid \subseteq paid' /\ now \in Nat /\ now' \in Nat /\ now <= now'
      BY OnlyGrows
    <3>4. M(q) \in Mandates
      BY <2>2, BodyTyped
    <3>5. ValidFrom[M(q)] \in Nat
      BY <3>4, GuardConstants
    <3>6. QED
      BY <1>1, <2>2, <3>1, <3>2, <3>3, <3>5 DEF Gates
  <2>3. QED
    BY <1>1, <2>1, <2>2 DEF Waiting
<1>2. CASE pc'[q] # pc[q] /\ pc'[q] \notin Waiting
  BY <1>2 DEF Waiting
<1>3. CASE Arrive(q) /\ pc'[q] # pc[q] /\ pc'[q] \in Waiting
  <2>1. pc'[q] = "paying" /\ M(q)' \in Authentic
    BY <1>3 DEF Arrive, TypeOK, M, Waiting
  <2>2. QED
    BY <2>1
<1>4. CASE Handle(q) /\ pc'[q] # pc[q] /\ pc'[q] \in Waiting
  <2>1. pc[q] \in Waiting /\ pc[q] # "idle"
    BY <1>4 DEF Handle, Unpaid, Settle, LookUp, ReadSchedule, DecideReview, Validate,
         TokenInfo, ReserveNonce, Recheck, LookUpAgain, Sign, Receipt, PublishApproval,
         CompleteNonce, PublishRefusal, CallFails, StoreBusy, Waiting
  <2>2. M(q)' = M(q) /\ T(q)' = T(q) /\ Sat(q)' = Sat(q)
    BY <2>1, BodyFixed DEF Sat
  <2>3. q \in paid'
    <3>1. CASE pc[q] = "paying"
      BY <1>4, <3>1 DEF TypeOK, Goto, Respond, RespondRetry, RespondStored, Handle, Unpaid, Settle, LookUp, ReadSchedule, DecideReview, Validate,
         TokenInfo, ReserveNonce, Recheck, LookUpAgain, Sign, Receipt, PublishApproval,
         CompleteNonce, PublishRefusal, CallFails, StoreBusy, Waiting
    <3>2. CASE pc[q] # "paying"
      BY <2>1, <3>2, OnlyGrows DEF Gates
    <3>3. QED
      BY <3>1, <3>2
  <2>4. ASSUME pc'[q] \in {"querying", "reserving"}
        PROVE  Sat(q) \in Clean /\ ValidFrom[M(q)] <= now
    <3>1. DecideReview(q) \/ Validate(q) \/ TokenInfo(q)
      BY <1>4, <2>4 DEF TypeOK, Goto, Respond, RespondRetry, RespondStored, Handle, Unpaid, Settle, LookUp, ReadSchedule, DecideReview, Validate,
         TokenInfo, ReserveNonce, Recheck, LookUpAgain, Sign, Receipt, PublishApproval,
         CompleteNonce, PublishRefusal, CallFails, StoreBusy, Waiting
    <3>2. CASE TokenInfo(q)
      BY <3>2 DEF TokenInfo, Gates
    <3>3. CASE DecideReview(q)
      BY <2>4, <3>3 DEF DecideReview, ReviewApproves, MandateActive, Goto, RespondRetry,
         Respond, TypeOK, Sat
    <3>4. CASE Validate(q)
      BY <2>4, <3>4 DEF Validate, MandateActive, Goto, TypeOK, Sat
    <3>5. QED
      BY <3>1, <3>2, <3>3, <3>4
  <2>5. now' = now
    BY <1>4 DEF world, Handle, Unpaid, Settle, LookUp, ReadSchedule, DecideReview, Validate,
         TokenInfo, ReserveNonce, Recheck, LookUpAgain, Sign, Receipt, PublishApproval,
         CompleteNonce, PublishRefusal, CallFails, StoreBusy
  <2>6. M(q) \in Authentic
    BY <2>1 DEF Gates
  <2>7. QED
    BY <2>2, <2>3, <2>4, <2>5, <2>6
<1>5. QED
  BY <1>1, <1>2, <1>3, <1>4, ProgramCounterStep DEF Waiting

(* A request that reserved or signed is paid, authentic, reviewed, and the *)
(* ledger holds exactly its tuple: what the signing step relies on after   *)
(* the await of the reservation.                                           *)
LEMMA ClaimsBoundHold ==
  TypeOK /\ Gates /\ ClaimsBound /\ [Next]_vars => ClaimsBound'
<1> SUFFICES ASSUME TypeOK, Gates, ClaimsBound, [Next]_vars, NEW q \in Requests, Claims(q)'
             PROVE  ClaimIsBound(q)'
  BY DEF ClaimsBound
<1>1. CASE Claims(q)
  <2>1. ClaimIsBound(q)
    BY <1>1 DEF ClaimsBound
  <2>2. pc[q] # "idle" /\ SameTuple(M(q), T(q))
    BY <2>1 DEF ClaimIsBound
  <2>3. pc'[q] # "idle" /\ M(q)' = M(q) /\ T(q)' = T(q) /\ Sat(q)' = Sat(q)
    BY <2>2, BodyFixed DEF Sat
  <2>4. SameTuple(M(q), T(q))'
    BY <2>2, SameTupleKept
  <2>5. paid \subseteq paid' /\ now \in Nat /\ now' \in Nat /\ now <= now'
    BY OnlyGrows
  <2>6. ValidFrom[M(q)] \in Nat
    BY <2>2, BodyTyped, GuardConstants
  <2>7. QED
    BY <2>1, <2>3, <2>4, <2>5, <2>6 DEF ClaimIsBound
<1>2. CASE ~ Claims(q)
  <2>1. /\ pc[q] = "reserving" /\ pc'[q] = "signing"
        /\ InsertPending(M(q), T(q))
    BY <1>2, NewClaim, NewHold
  <2>2. pc[q] # "idle" /\ pc[q] \in Waiting \ {"paying"}
    BY <2>1 DEF Waiting
  <2>3. M(q) \in Mandates /\ T(q) \in Targets /\ Key(M(q)) \in Keys
    BY <2>2, BodyTyped
  <2>4. M(q)' = M(q) /\ T(q)' = T(q) /\ Sat(q)' = Sat(q) /\ Key(M(q))' = Key(M(q))
    BY <2>2, BodyFixed DEF Sat, Key
  <2>5. SameTuple(M(q), T(q))'
    <3>1. rows'[Key(M(q))] = [mandate |-> M(q), target |-> T(q), settlement |-> None]
      BY <2>1, <2>3 DEF InsertPending, Inserted, TypeOK, StoreTypeOK
    <3>2. rows'[Key(M(q))] \in Row
      BY <3>1, <2>3 DEF Row
    <3>3. QED
      BY <2>4, <3>1, <3>2, StoreConstants DEF SameTuple, Bound
  <2>6. paid \subseteq paid' /\ now \in Nat /\ now' \in Nat /\ now <= now'
    BY OnlyGrows
  <2>7. ValidFrom[M(q)] \in Nat
    BY <2>3, GuardConstants
  <2>8. M(q) \in Authentic /\ q \in paid /\ Sat(q) \in Clean /\ ValidFrom[M(q)] <= now
    BY <2>1, <2>2 DEF Gates
  <2>9. QED
    BY <2>1, <2>4, <2>5, <2>6, <2>7, <2>8 DEF ClaimIsBound
<1>3. QED
  BY <1>1, <1>2

(* Two requests never claim one nonce: the primary key of the ledger and   *)
(* the answer "retry" keep the second one out (reserveMandateReview).      *)
LEMMA ClaimsUniqueHold ==
  TypeOK /\ ClaimsBound /\ ClaimsUnique /\ [Next]_vars => ClaimsUnique'
<1> SUFFICES ASSUME TypeOK, ClaimsBound, ClaimsUnique, [Next]_vars,
                    NEW r \in Requests, NEW q \in Requests,
                    Claims(r)', Claims(q)', SameNonce(r, q)'
             PROVE  r = q
  BY DEF ClaimsUnique
<1>1. ASSUME NEW x \in Requests, Claims(x)'
      PROVE  /\ Key(M(x))' = Key(M(x))
             /\ Claims(x) => Bound(M(x))
             /\ ~ Claims(x) => /\ ~ Bound(M(x))
                               /\ pc[x] = "reserving"
                               /\ pc' = [pc EXCEPT ![x] = "signing"]
  <2>1. Claims(x) => pc[x] # "idle" /\ Bound(M(x))
    BY DEF ClaimsBound, ClaimIsBound, SameTuple
  <2>2. ~ Claims(x) => /\ pc[x] # "idle" /\ ~ Bound(M(x))
                       /\ pc[x] = "reserving" /\ pc' = [pc EXCEPT ![x] = "signing"]
    BY <1>1, NewClaim, NewHold DEF CanReserve
  <2>3. M(x)' = M(x)
    BY <2>1, <2>2, BodyFixed
  <2>4. QED
    BY <2>1, <2>2, <2>3 DEF Key
<1>2. Key(M(r)) = Key(M(q))
  BY <1>1 DEF SameNonce
<1>3. CASE Claims(r) /\ Claims(q)
  BY <1>2, <1>3 DEF ClaimsUnique, SameNonce
<1>4. CASE ~ Claims(r) /\ ~ Claims(q)
  BY <1>1, <1>4 DEF TypeOK
<1>5. ASSUME NEW x \in Requests, NEW y \in Requests, Claims(x)', Claims(y)',
             Key(M(x)) = Key(M(y)), Claims(x), ~ Claims(y)
      PROVE FALSE
  BY <1>1, <1>5 DEF Bound
<1>6. QED
  BY <1>2, <1>3, <1>4, <1>5

(* Only the request that holds a row completes it.                         *)
LEMMA CompletesOwnRow ==
  ASSUME TypeOK, ClaimsBound, ClaimsUnique, [Next]_vars,
         NEW r \in Requests, CompleteNonce(r),
         NEW q \in Requests, Claims(q), Key(M(q)) = Key(M(r))
  PROVE  q = r
<1>1. Claims(r)
  BY DEF CompleteNonce, Claims, Holds
<1>2. QED
  BY <1>1 DEF ClaimsUnique, SameNonce

(* The row of a request at work stays open.                                *)
LEMMA OpenRowHolds ==
  ASSUME TypeOK, ClaimsBound, ClaimsUnique, InOrder, [Next]_vars,
         NEW q \in Requests, Holds(q)'
  PROVE  (rows[Key(M(q))].settlement)' = None
<1>1. CASE Holds(q)
  <2>1. Claims(q) /\ ClaimIsBound(q)
    BY <1>1 DEF Claims, ClaimsBound
  <2>2. pc[q] # "idle" /\ Bound(M(q))
    BY <2>1 DEF ClaimIsBound, SameTuple
  <2>3. Key(M(q))' = Key(M(q)) /\ Key(M(q)) \in Keys
    BY <2>2, BodyFixed, BodyTyped DEF Key
  <2>4. rows[Key(M(q))].settlement = None
    BY <1>1 DEF InOrder
  <2>5. rows'[Key(M(q))] = rows[Key(M(q))]
    <3>1. ASSUME NEW r \in Requests, CanReserve(M(r), T(r)), InsertPending(M(r), T(r))
          PROVE  rows'[Key(M(q))] = rows[Key(M(q))]
      BY <2>2, <2>3, <3>1 DEF CanReserve, Bound, InsertPending, Inserted, TypeOK, StoreTypeOK
    <3>2. ASSUME NEW r \in Requests, CompleteNonce(r)
          PROVE  rows'[Key(M(q))] = rows[Key(M(q))]
      <4>1. CASE Key(M(r)) = Key(M(q))
        <5>1. q = r
          BY <2>1, <3>2, <4>1, CompletesOwnRow
        <5>2. QED
          BY <3>2, <5>1 DEF CompleteNonce, Respond, TypeOK, Holds
      <4>2. CASE Key(M(r)) # Key(M(q))
        BY <2>3, <3>2, <4>2 DEF CompleteNonce, WriteCompletion, Completed, TypeOK, StoreTypeOK
      <4>3. QED
        BY <4>1, <4>2
    <3>3. QED
      BY <3>1, <3>2, LedgerStep
  <2>6. QED
    BY <2>3, <2>4, <2>5
<1>2. CASE ~ Holds(q)
  <2>1. pc[q] = "reserving" /\ InsertPending(M(q), T(q))
    BY <1>2, NewHold
  <2>2. Key(M(q))' = Key(M(q)) /\ Key(M(q)) \in Keys
    BY <2>1, BodyFixed, BodyTyped DEF Key
  <2>3. rows'[Key(M(q))] = [mandate |-> M(q), target |-> T(q), settlement |-> None]
    BY <2>1, <2>2 DEF InsertPending, Inserted, TypeOK, StoreTypeOK
  <2>4. QED
    BY <2>2, <2>3
<1>3. QED
  BY <1>1, <1>2

(* A handler at work on a row signs, sees the effect, publishes and        *)
(* completes in this order, and its row stays open until it completes it.  *)
LEMMA InOrderHold ==
  TypeOK /\ ClaimsBound /\ ClaimsUnique /\ InOrder /\ [Next]_vars => InOrder'
<1> SUFFICES ASSUME TypeOK, ClaimsBound, ClaimsUnique, InOrder, [Next]_vars,
                    NEW q \in Requests
             PROVE  /\ Holds(q)' => (rows[Key(M(q))].settlement)' = None
                    /\ pc'[q] \in {"awaiting", "approving", "completing"} => q \in signed'
                    /\ pc'[q] = "awaiting" /\ q \notin inflight' => T(q)' \in executed'
                    /\ pc'[q] \in {"approving", "completing"} /\ IsReview(q)' =>
                          T(q)' \in executed'
                    /\ pc'[q] = "completing" => Approval(q) \in verdicts'
  BY DEF InOrder, Approval
<1>1. Holds(q)' => (rows[Key(M(q))].settlement)' = None
  BY OpenRowHolds
<1>2. ASSUME pc'[q] = pc[q], pc[q] \in {"awaiting", "approving", "completing"}
      PROVE  /\ q \in signed'
             /\ pc[q] = "awaiting" /\ q \notin inflight' => T(q)' \in executed'
             /\ pc[q] \in {"approving", "completing"} /\ IsReview(q)' => T(q)' \in executed'
             /\ pc[q] = "completing" => Approval(q) \in verdicts'
  <2>1. /\ signed \subseteq signed' /\ executed \subseteq executed'
        /\ verdicts \subseteq verdicts'
    BY OnlyGrows
  <2>2. T(q)' = T(q) /\ IsReview(q)' = IsReview(q)
    BY <1>2, BodyFixed DEF IsReview
  <2>3. q \in inflight /\ q \notin inflight' => T(q) \in executed'
    BY InFlightStep DEF SignatureLands
  <2>4. QED
    BY <1>2, <2>1, <2>2, <2>3 DEF InOrder
<1>3. ASSUME pc'[q] # pc[q], pc'[q] \in {"awaiting", "approving", "completing"}
      PROVE  /\ q \in signed'
             /\ pc'[q] = "awaiting" /\ q \notin inflight' => T(q)' \in executed'
             /\ pc'[q] \in {"approving", "completing"} /\ IsReview(q)' => T(q)' \in executed'
             /\ pc'[q] = "completing" => Approval(q) \in verdicts'
  <2>1. Handle(q)
    BY <1>3, ProgramCounterStep DEF Arrive, TypeOK
  <2>2. Sign(q) \/ Receipt(q) \/ PublishApproval(q)
    BY <1>3, <2>1 DEF TypeOK, Goto, Respond, RespondRetry, RespondStored, Handle, Unpaid,
       Settle, LookUp, ReadSchedule, DecideReview, Validate, TokenInfo, ReserveNonce,
       Recheck, LookUpAgain, CompleteNonce, PublishRefusal, CallFails, StoreBusy
  <2>3. pc[q] # "idle"
    BY <2>2 DEF Sign, Receipt, PublishApproval
  <2>4. T(q)' = T(q) /\ IsReview(q)' = IsReview(q)
    BY <2>3, BodyFixed DEF IsReview
  <2>5. CASE Sign(q)
    BY <1>3, <2>4, <2>5 DEF Sign, Goto, TypeOK
  <2>6. CASE Receipt(q)
    BY <1>3, <2>4, <2>6 DEF Receipt, Goto, TypeOK, InOrder, world, evidence
  <2>7. CASE PublishApproval(q)
    BY <1>3, <2>4, <2>7 DEF PublishApproval, Publish, Approval, Goto, TypeOK, InOrder, world
  <2>8. QED
    BY <2>2, <2>5, <2>6, <2>7
<1>4. QED
  BY <1>1, <1>2, <1>3

(* A completion, once written, is the one answered for ever.               *)
LEMMA CompletionKept ==
  ASSUME TypeOK, ClaimsBound, InOrder, [Next]_vars,
         NEW k \in Keys, rows[k] # NoRow, rows[k].settlement # None
  PROVE  rows'[k].settlement = rows[k].settlement
<1>1. rows \in [Keys -> Row \cup {NoRow}]
  BY DEF TypeOK, StoreTypeOK
<1>2. ASSUME NEW r \in Requests, CanReserve(M(r), T(r)), InsertPending(M(r), T(r))
      PROVE  rows'[k] = rows[k]
  BY <1>1, <1>2 DEF CanReserve, Bound, InsertPending, Inserted
<1>3. ASSUME NEW r \in Requests, CompleteNonce(r)
      PROVE  rows'[k] = rows[k]
  <2>1. rows[Key(M(r))].settlement = None
    BY <1>3 DEF CompleteNonce, Holds, InOrder
  <2>2. QED
    BY <1>1, <1>3, <2>1 DEF CompleteNonce, WriteCompletion, Completed
<1>4. QED
  BY <1>2, <1>3, LedgerStep

(* What is in flight, executed or published goes back to a signature of    *)
(* the guard (countersignTransfer, submitScheduleApproval).                *)
LEMMA EffectsHold ==
  /\ TypeOK /\ ClaimsBound /\ InOrder /\ Effects
  /\ SealedIsAttested /\ ApprovalIsSealed /\ ApprovalNamesPayer
  /\ [Next]_vars
  => Effects'
<1> SUFFICES ASSUME TypeOK, ClaimsBound, InOrder, Effects,
                    SealedIsAttested, ApprovalIsSealed, ApprovalNamesPayer,
                    [Next]_vars
             PROVE  Effects'
  OBVIOUS
<1>1. inflight' \subseteq signed'
  <2>1. ASSUME NEW r \in inflight', r \notin inflight PROVE r \in signed'
    BY <2>1, InFlightStep DEF Sign
  <2>2. QED
    BY <2>1, OnlyGrows DEF Effects
<1>2. ASSUME NEW r \in signed PROVE r \in Requests /\ r \in signed' /\ T(r)' = T(r)
  <2>1. r \in Requests /\ Claims(r)
    BY <1>2 DEF TypeOK, Claims
  <2>2. pc[r] # "idle"
    BY <2>1 DEF ClaimsBound, ClaimIsBound
  <2>3. QED
    BY <2>1, <2>2, BodyFixed, OnlyGrows
<1>3. ASSUME NEW t \in executed' PROVE \E r \in signed : T(r) = t
  <2>1. CASE t \in executed
    BY <2>1 DEF Effects
  <2>2. ASSUME NEW r \in Requests, SignatureLands(r), T(r) = t
        PROVE \E q \in signed : T(q) = t
    BY <2>2 DEF SignatureLands, Effects
  <2>3. ASSUME TransferExecutes(t) PROVE \E r \in signed : T(r) = t
    <3>1. PICK r \in Requests : pc[r] = "done" /\ reply[r].outcome = "approved" /\ T(r) = t
      BY <2>3 DEF TransferExecutes, Released
    <3>2. M(r) \in Mandates /\ Key(M(r)) \in Keys
      BY <3>1, BodyTyped
    <3>3. /\ SameTuple(M(r), T(r))
          /\ rows[Key(M(r))].settlement = reply[r].settlement
          /\ reply[r].settlement # None
      BY <3>1 DEF ApprovalIsSealed, ApprovalNamesPayer
    <3>4. rows[Key(M(r))] # NoRow /\ rows[Key(M(r))].target = t
      BY <3>1, <3>3 DEF SameTuple, Bound
    <3>5. rows[Key(M(r))].settlement \in signed /\ T(rows[Key(M(r))].settlement) = t
      BY <3>2, <3>3, <3>4 DEF SealedIsAttested
    <3>6. QED
      BY <3>5
  <2>4. QED
    BY <2>1, <2>2, <2>3, ExecutedStep
<1>4. \A t \in executed' : \E r \in signed' : T(r)' = t
  BY <1>2, <1>3
<1>5. ASSUME NEW r \in Requests, Approval(r) \in verdicts' PROVE r \in signed'
  <2>1. CASE Approval(r) \in verdicts
    BY <2>1, OnlyGrows DEF Effects
  <2>2. CASE Approval(r) \notin verdicts
    BY <1>5, <2>2, NewVerdict, OnlyGrows DEF InOrder
  <2>3. QED
    BY <2>1, <2>2
<1>6. QED
  BY <1>1, <1>4, <1>5 DEF Effects, Approval

(* A completed row stays backed by the signature, the publication and the  *)
(* execution of the request it names (completeMandateReview is called      *)
(* after recordOutcome).                                                   *)
LEMMA SealedIsAttestedHold ==
  /\ TypeOK /\ ClaimsBound /\ InOrder /\ SealedIsAttested /\ [Next]_vars
  => SealedIsAttested'
<1> SUFFICES ASSUME TypeOK, ClaimsBound, InOrder, SealedIsAttested, [Next]_vars,
                    NEW k \in Keys, rows'[k] # NoRow, rows'[k].settlement # None
             PROVE  /\ rows'[k].settlement \in signed'
                    /\ [request |-> rows'[k].settlement, outcome |-> "approved"] \in verdicts'
                    /\ req'[rows'[k].settlement].mandate = rows'[k].mandate
                    /\ req'[rows'[k].settlement].target = rows'[k].target
                    /\ rows'[k].target \in Schedules => rows'[k].target \in executed'
  BY DEF SealedIsAttested, M, T
<1>1. /\ signed \subseteq signed' /\ executed \subseteq executed'
      /\ verdicts \subseteq verdicts'
  BY OnlyGrows
<1>2. rows \in [Keys -> Row \cup {NoRow}]
  BY DEF TypeOK, StoreTypeOK
<1>3. ASSUME NEW q \in signed PROVE req'[q] = req[q]
  <2>1. q \in Requests /\ Claims(q)
    BY <1>3 DEF TypeOK, Claims
  <2>2. pc[q] # "idle"
    BY <2>1 DEF ClaimsBound, ClaimIsBound
  <2>3. QED
    BY <2>1, <2>2, BodyFixed
<1>4. CASE rows'[k] = rows[k]
  BY <1>1, <1>3, <1>4 DEF SealedIsAttested, M, T
<1>5. ASSUME NEW r \in Requests, InsertPending(M(r), T(r))
      PROVE  rows'[k] = rows[k]
  <2>1. \/ rows'[k] = rows[k]
        \/ rows'[k] = [mandate |-> M(r), target |-> T(r), settlement |-> None]
    BY <1>2, <1>5 DEF InsertPending, Inserted
  <2>2. QED
    BY <2>1
<1>6. ASSUME NEW r \in Requests, CompleteNonce(r), rows'[k] # rows[k]
      PROVE  /\ rows'[k].settlement = r
             /\ M(r) = rows'[k].mandate /\ T(r) = rows'[k].target
             /\ r \in signed /\ Approval(r) \in verdicts
             /\ T(r) \in Schedules => T(r) \in executed
  <2>1. Key(M(r)) = k /\ rows'[k] = [rows[k] EXCEPT !.settlement = r]
    BY <1>2, <1>6 DEF CompleteNonce, WriteCompletion, Completed
  <2>2. rows[k] # NoRow /\ rows[k].mandate = M(r) /\ rows[k].target = T(r)
    BY <1>6, <2>1 DEF CompleteNonce, WriteCompletion, Completed, SameTuple, Bound
  <2>3. rows[k] \in Row
    BY <1>2, <2>2
  <2>4. /\ rows'[k].settlement = r
        /\ M(r) = rows'[k].mandate /\ T(r) = rows'[k].target
    BY <2>1, <2>2, <2>3 DEF Row
  <2>5. /\ r \in signed /\ Approval(r) \in verdicts
        /\ T(r) \in Schedules => T(r) \in executed
    BY <1>6 DEF CompleteNonce, InOrder, IsReview
  <2>6. QED
    BY <2>4, <2>5
<1>7. ASSUME NEW r \in Requests, CompleteNonce(r), rows'[k] # rows[k]
      PROVE  /\ rows'[k].settlement \in signed'
             /\ [request |-> rows'[k].settlement, outcome |-> "approved"] \in verdicts'
             /\ req'[rows'[k].settlement].mandate = rows'[k].mandate
             /\ req'[rows'[k].settlement].target = rows'[k].target
             /\ rows'[k].target \in Schedules => rows'[k].target \in executed'
  <2>1. r \in signed /\ r \in signed' /\ rows'[k].settlement = r
    BY <1>1, <1>6, <1>7
  <2>2. req'[r].mandate = rows'[k].mandate /\ req'[r].target = rows'[k].target
    BY <1>3, <1>6, <1>7, <2>1 DEF M, T
  <2>3. [request |-> r, outcome |-> "approved"] \in verdicts'
    BY <1>1, <1>6, <1>7 DEF Approval
  <2>4. rows'[k].target \in Schedules => rows'[k].target \in executed'
    BY <1>1, <1>6, <1>7
  <2>5. QED
    BY <2>1, <2>2, <2>3, <2>4
<1>8. QED
  BY <1>4, <1>5, <1>7, LedgerStep

(* An approval that was answered goes on quoting the completed row,        *)
(* served from the ledger to retries or fresh from the handler.            *)
LEMMA ApprovalHold ==
  /\ TypeOK /\ ClaimsBound /\ InOrder /\ ApprovalIsSealed /\ ApprovalNamesPayer
  /\ [Next]_vars
  => ApprovalIsSealed' /\ ApprovalNamesPayer'
<1> SUFFICES ASSUME TypeOK, ClaimsBound, InOrder, ApprovalIsSealed, ApprovalNamesPayer,
                    [Next]_vars,
                    NEW r \in Requests, pc'[r] = "done", reply'[r].outcome = "approved"
             PROVE  /\ SameTuple(M(r), T(r))'
                    /\ (rows[Key(M(r))].settlement)' = reply'[r].settlement
                    /\ reply'[r].settlement # None
  BY DEF ApprovalIsSealed, ApprovalNamesPayer
<1>1. pc[r] # "idle" /\ SameTuple(M(r), T(r))
  <2>1. CASE pc[r] = "done"
    BY <2>1, AnswerKept DEF ApprovalIsSealed
  <2>2. CASE pc[r] # "done"
    BY <2>2, NewApproval DEF CompleteNonce, WriteCompletion, Completed, Sealed
  <2>3. QED
    BY <2>1, <2>2
<1>2. SameTuple(M(r), T(r))'
  BY <1>1, SameTupleKept
<1>3. Key(M(r))' = Key(M(r)) /\ Key(M(r)) \in Keys /\ rows[Key(M(r))] # NoRow
  BY <1>1, BodyFixed, BodyTyped DEF Key, SameTuple, Bound
<1>4. CASE pc[r] = "done"
  <2>1. reply'[r] = reply[r]
    BY <1>4, AnswerKept
  <2>2. reply[r].settlement # None /\ rows[Key(M(r))].settlement = reply[r].settlement
    BY <1>4, <2>1 DEF ApprovalIsSealed, ApprovalNamesPayer
  <2>3. rows'[Key(M(r))].settlement = rows[Key(M(r))].settlement
    BY <1>3, <2>2, CompletionKept
  <2>4. QED
    BY <1>2, <1>3, <2>1, <2>2, <2>3
<1>5. CASE pc[r] # "done" /\ CompleteNonce(r)
  <2>1. reply'[r].settlement = r
    BY <1>5 DEF CompleteNonce, Respond, TypeOK
  <2>2. rows'[Key(M(r))].settlement = r
    <3>1. rows[Key(M(r))] \in Row
      BY <1>3 DEF TypeOK, StoreTypeOK
    <3>2. rows'[Key(M(r))] = [rows[Key(M(r))] EXCEPT !.settlement = r]
      BY <1>3, <1>5 DEF CompleteNonce, WriteCompletion, Completed, TypeOK, StoreTypeOK
    <3>3. QED
      BY <3>1, <3>2 DEF Row
  <2>3. r # None
    BY StoreConstants
  <2>4. QED
    BY <1>2, <1>3, <2>1, <2>2, <2>3
<1>6. CASE pc[r] # "done" /\ ~ CompleteNonce(r)
  <2>1. /\ Sealed(M(r), T(r)) /\ rows' = rows
        /\ reply'[r].settlement = rows[Key(M(r))].settlement
    BY <1>6, NewApproval
  <2>2. QED
    BY <1>2, <1>3, <2>1 DEF Sealed
<1>7. QED
  BY <1>4, <1>5, <1>6

----------------------------------------------------------------------------
(* The inductive invariant holds in every reachable state: see the comment *)
(* over its parts in GuardServer for why each is needed.                   *)
THEOREM InductiveInvariant == Spec => []Inductive
<1>1. Init => Inductive
  <2> SUFFICES ASSUME Init PROVE Inductive
    OBVIOUS
  <2>1. TypeOK
    BY GuardConstants, StoreConstants
       DEF Init, TypeOK, StoreInit, StoreTypeOK, PCs, Reply, NoReply, Statuses
  <2>2. \A r \in Requests : pc[r] = "idle" /\ reply[r] = NoReply
    BY DEF Init
  <2>3. signed = {} /\ inflight = {} /\ executed = {} /\ verdicts = {}
    BY DEF Init
  <2>4. \A k \in Keys : rows[k] = NoRow
    BY DEF Init, StoreInit
  <2>5. QED
    BY <2>1, <2>2, <2>3, <2>4 DEF Inductive, Gates, ClaimsBound, ClaimsUnique, Claims, Holds,
       InOrder, Effects, SealedIsAttested, ApprovalIsSealed, ApprovalNamesPayer, NoReply,
       Waiting
<1>2. Inductive /\ [Next]_vars => Inductive'
  BY TypeStep, GatesHold, ClaimsBoundHold, ClaimsUniqueHold, InOrderHold, EffectsHold,
     SealedIsAttestedHold, ApprovalHold DEF Inductive
<1>3. QED
  BY <1>1, <1>2, PTL DEF Spec

(* The guard's key signs for at most one request of a tenant nonce, over   *)
(* both routes, whatever requests come, fail, retry or are cut off by a    *)
(* restart (server.ts, reserve then sign).                                 *)
THEOREM SignsOncePerNonce == Spec => []OneSignaturePerNonce
<1>1. Inductive => OneSignaturePerNonce
  BY DEF Inductive, TypeOK, ClaimsUnique, Claims, OneSignaturePerNonce
<1>2. QED
  BY <1>1, InductiveInvariant, PTL

(* Every signature answers to a payment, an authentic mandate, a passed    *)
(* review and the ledger row of exactly its mandate and target.            *)
THEOREM SignsOnlyReserved == Spec => []SignedIsReserved
<1>1. Inductive => SignedIsReserved
  BY DEF Inductive, TypeOK, ClaimsBound, ClaimIsBound, Claims, SignedIsReserved
<1>2. QED
  BY <1>1, InductiveInvariant, PTL

(* A completed row is backed by the signature, the public approval and,    *)
(* for a schedule, the execution of the request it names.                  *)
THEOREM SealsOnlyAttested == Spec => []SealedIsAttested
<1>1. Inductive => SealedIsAttested
  BY DEF Inductive
<1>2. QED
  BY <1>1, InductiveInvariant, PTL

(* Every approval the guard ever answers, first or replayed, quotes the    *)
(* completed row, which never changes afterwards.                          *)
THEOREM ApprovesOnlySealed == Spec => []ApprovalIsSealed
<1>1. Inductive => ApprovalIsSealed
  BY DEF Inductive
<1>2. QED
  BY <1>1, InductiveInvariant, PTL

(* What the guard signed for is what the ledger binds: the row of the      *)
(* request's nonce holds its mandate and target.                           *)
LEMMA SignedRow ==
  ASSUME Inductive, NEW r \in signed
  PROVE  /\ r \in Requests /\ M(r) \in Mandates /\ Key(M(r)) \in Keys /\ T(r) \in Targets
         /\ rows[Key(M(r))] # NoRow
         /\ rows[Key(M(r))].mandate = M(r) /\ rows[Key(M(r))].target = T(r)
         /\ <<M(r), T(r)>> \in Clean
         /\ ValidFrom[M(r)] <= now
<1>1. r \in Requests /\ Claims(r)
  BY DEF Inductive, TypeOK, Claims
<1>2. /\ pc[r] # "idle" /\ Sat(r) \in Clean
      /\ ValidFrom[M(r)] <= now /\ SameTuple(M(r), T(r))
  BY <1>1 DEF Inductive, ClaimsBound, ClaimIsBound
<1>3. QED
  BY <1>1, <1>2, BodyTyped DEF Inductive, Sat, SameTuple, Bound

(* Every target the treasury moved on is bound by a nonce of the ledger,   *)
(* and a nonce binds one target.                                           *)
THEOREM MovesSpendNonces == Spec => []EveryMoveSpendsANonce
<1>1. Inductive => EveryMoveSpendsANonce
  <2> SUFFICES ASSUME Inductive, NEW t \in executed
               PROVE  \E k \in Keys : /\ rows[k] # NoRow /\ rows[k].target = t
                                      /\ <<rows[k].mandate, t>> \in Clean
    BY DEF EveryMoveSpendsANonce
  <2>1. PICK r \in signed : T(r) = t
    BY DEF Inductive, Effects
  <2>2. QED
    BY <2>1, SignedRow
<1>2. QED
  BY <1>1, InductiveInvariant, PTL

(* A ledger row keeps its tuple for ever and is completed at most once.    *)
THEOREM BindsForEver == Spec => BindingIsPermanent
<1>1. Inductive /\ [Next]_vars =>
        [\A k \in Keys : rows[k] # NoRow =>
          /\ rows'[k] # NoRow
          /\ rows'[k].mandate = rows[k].mandate
          /\ rows'[k].target = rows[k].target
          /\ rows[k].settlement # None => rows'[k].settlement = rows[k].settlement]_vars
  BY TupleKept, CompletionKept DEF Inductive
<1>2. QED
  BY <1>1, InductiveInvariant, PTL DEF Spec, BindingIsPermanent

(* The treasury moves only while a mandate bound to the move is active.    *)
THEOREM MovesOnlyInsideMandate == Spec => MovesInsideMandate
<1>1. Inductive /\ Inductive' /\ [Next]_vars =>
        [\A t \in executed' \ executed : \E k \in Keys :
          /\ rows[k] # NoRow /\ rows[k].target = t
          /\ ValidFrom[rows[k].mandate] <= now /\ now < ExpiresAt[rows[k].mandate]]_vars
  <2> SUFFICES ASSUME Inductive, Inductive', [Next]_vars,
                      NEW t \in executed' \ executed
               PROVE  \E k \in Keys :
                        /\ rows[k] # NoRow /\ rows[k].target = t
                        /\ ValidFrom[rows[k].mandate] <= now
                        /\ now < ExpiresAt[rows[k].mandate]
    OBVIOUS
  <2>1. now < ClosesAt[t] /\ now' = now /\ signed' = signed /\ req' = req
    BY ExecutedStep DEF Inductive, SignatureLands, TransferExecutes, evidence, handler
  <2>2. PICK r \in signed' : T(r)' = t
    BY DEF Inductive, Effects
  <2>3. r \in signed /\ T(r) = t
    BY <2>1, <2>2 DEF T
  <2>4. ClosesAt[t] <= ExpiresAt[M(r)]
    BY <2>3, SignedRow, CleanPairs
  <2>5. now < ExpiresAt[M(r)]
    <3>1. now \in Nat
      BY GuardConstants DEF Inductive, TypeOK
    <3>2. ClosesAt[t] \in Nat /\ ExpiresAt[M(r)] \in Nat
      BY <2>3, SignedRow, GuardConstants
    <3>3. QED
      BY ONLY <2>1, <2>4, <3>1, <3>2
  <2>6. QED
    BY <2>3, <2>5, SignedRow
<1>2. QED
  BY <1>1, InductiveInvariant, PTL DEF Spec, MovesInsideMandate

----------------------------------------------------------------------------
(* A request for a tuple that was signed.                                  *)
Refusal(r) == [request |-> r, outcome |-> "refused"]

(* A refusal is the last thing a handler publishes.                        *)
RefusalEnds == \A r \in Requests : Refusal(r) \in verdicts => pc[r] = "done"

(* Consensus forgot the schedule the request is about.                     *)
Forgotten(r) == IsReview(r) /\ ~ Resolvable(T(r))

(* Where a request for a tuple that was signed, and that consensus has     *)
(* executed if it is a schedule, can get to: never to a fresh review or a  *)
(* reservation, and to a refusal only when the schedule is forgotten.      *)
FollowsSigned(r, q) ==
    /\ q \in signed /\ req[r] = req[q]
    /\ IsReview(r) => T(r) \in executed
    /\ pc[r] \in {"paying", "settled", "resolving", "resolved", "refusing", "done", "lost"}
    /\ pc[r] \in {"resolving", "resolved"} => IsReview(r)
    /\ pc[r] = "resolved" => "guard" \in snap[r]
    /\ pc[r] = "refusing" \/ Refusal(r) \in verdicts => Forgotten(r)

(* A refusal is published by the handler that came to one, as it ends.     *)
LEMMA NewRefusal ==
  ASSUME TypeOK, [Next]_vars, NEW q \in Requests,
         Refusal(q) \in verdicts', Refusal(q) \notin verdicts
  PROVE  pc[q] = "refusing" /\ pc'[q] = "done"
<1> USE DEF evidence, Publish, Refusal
<1>1. ASSUME NEW r \in Requests, PublishRefusal(r) \/ CallFails(r)
      PROVE  pc[q] = "refusing" /\ pc'[q] = "done"
  BY <1>1 DEF PublishRefusal, CallFails, Respond, TypeOK
<1>2. ASSUME NEW r \in Requests, PublishApproval(r)
      PROVE  FALSE
  BY <1>2 DEF PublishApproval
<1>3. ASSUME NEW r \in Requests, Arrive(r) \/ Handle(r), ~ PublishApproval(r),
             ~ CallFails(r), ~ PublishRefusal(r)
      PROVE  FALSE
  BY <1>3 DEF Arrive, Handle, Unpaid, Settle, LookUp, ReadSchedule, DecideReview,
     Validate, TokenInfo, ReserveNonce, Recheck, LookUpAgain, Sign, Receipt,
     CompleteNonce, StoreBusy
<1>4. ASSUME Network \/ Crash \/ UNCHANGED vars PROVE FALSE
  BY <1>4 DEF Network, Tick, AgentSigns, SignatureLands, TransferExecutes, Crash, vars
<1>5. QED
  BY <1>1, <1>2, <1>3, <1>4 DEF Next

LEMMA RefusalEndsHold == TypeOK /\ RefusalEnds /\ [Next]_vars => RefusalEnds'
<1> SUFFICES ASSUME TypeOK, RefusalEnds, [Next]_vars, NEW q \in Requests,
                    Refusal(q) \in verdicts'
             PROVE  pc'[q] = "done"
  BY DEF RefusalEnds, Refusal
<1>1. CASE Refusal(q) \in verdicts
  BY <1>1, AnswerKept DEF RefusalEnds
<1>2. CASE Refusal(q) \notin verdicts
  BY <1>2, NewRefusal
<1>3. QED
  BY <1>1, <1>2

(* A handler reads its schedule itself.                                    *)
LEMMA SnapStep ==
  ASSUME TypeOK, [Next]_vars, NEW q \in Requests, snap'[q] # snap[q]
  PROVE  ReadSchedule(q)
<1> USE DEF TypeOK, handler, Goto, Respond, RespondRetry, RespondStored
<1>1. ASSUME NEW r \in Requests, ReadSchedule(r) PROVE r = q
  BY <1>1 DEF ReadSchedule
<1>2. ASSUME NEW r \in Requests, Arrive(r) \/ Handle(r), ~ ReadSchedule(r) PROVE FALSE
  BY <1>2 DEF Arrive, Handle, Unpaid, Settle, LookUp, DecideReview, Validate,
       TokenInfo, ReserveNonce, Recheck, LookUpAgain, Sign, Receipt, PublishApproval,
       CompleteNonce, PublishRefusal, CallFails, StoreBusy
<1>3. ASSUME Network \/ Crash \/ UNCHANGED vars PROVE FALSE
  BY <1>3 DEF Network, Tick, AgentSigns, SignatureLands, TransferExecutes, Crash, vars
<1>4. QED
  BY <1>1, <1>2, <1>3 DEF Next, Handle

(* A step of the handler's own.                                            *)
LEMMA FollowerHandles ==
  ASSUME TypeOK, NEW r \in Requests, NEW q \in Requests, FollowsSigned(r, q),
         SameTuple(M(r), T(r)), Handle(r)
  PROVE  /\ pc'[r] \in {"settled", "resolving", "resolved", "refusing", "done"}
         /\ pc'[r] \in {"resolving", "resolved"} => IsReview(r)
         /\ pc'[r] = "resolved" => "guard" \in snap'[r]
         /\ pc'[r] = "refusing" => Forgotten(r)
<1> USE DEF TypeOK, Goto, Respond, RespondRetry, RespondStored
<1>1. pc[r] \in {"paying", "settled", "resolving", "resolved", "refusing"}
  BY DEF FollowsSigned, Handle, Unpaid, Settle, LookUp, ReadSchedule, DecideReview, Validate,
         TokenInfo, ReserveNonce, Recheck, LookUpAgain, Sign, Receipt, PublishApproval,
         CompleteNonce, PublishRefusal, CallFails, StoreBusy, Waiting
<1>2. CallFails(r) \/ StoreBusy(r) \/ Unpaid(r) \/ PublishRefusal(r) => pc'[r] = "done"
  BY DEF CallFails, StoreBusy, Unpaid, PublishRefusal
<1>3. Settle(r) => pc'[r] = "settled"
  BY DEF Settle
<1>4. LookUp(r) => pc'[r] = "done" \/ (pc'[r] = "resolving" /\ IsReview(r))
  BY DEF LookUp, ReviewState
<1>5. ReadSchedule(r) => /\ IsReview(r)
                         /\ \/ pc'[r] = "resolved" /\ "guard" \in snap'[r]
                            \/ pc'[r] = "refusing" /\ Forgotten(r)
  BY DEF ReadSchedule, FollowsSigned, Forgotten, Signers
<1>6. DecideReview(r) => pc'[r] = "done"
  BY DEF DecideReview, FollowsSigned
<1>7. \/ Unpaid(r) \/ Settle(r) \/ LookUp(r) \/ ReadSchedule(r) \/ DecideReview(r)
      \/ PublishRefusal(r) \/ CallFails(r) \/ StoreBusy(r)
  BY <1>1 DEF Handle, Validate, TokenInfo, ReserveNonce, Recheck, LookUpAgain, Sign, Receipt,
         PublishApproval, CompleteNonce
<1>8. QED
  BY <1>2, <1>3, <1>4, <1>5, <1>6, <1>7

LEMMA FollowsSignedHold ==
  ASSUME Inductive, [Next]_vars, NEW r \in Requests, NEW q \in Requests, FollowsSigned(r, q)
  PROVE  FollowsSigned(r, q)'
<1>1. TypeOK /\ pc[r] # "idle" /\ q \in signed /\ req[r] = req[q]
  BY DEF Inductive, FollowsSigned
<1>2. pc[q] # "idle" /\ SameTuple(M(r), T(r))
  <2>1. ClaimIsBound(q)
    BY <1>1 DEF Inductive, ClaimsBound, Claims
  <2>2. QED
    BY <1>1, <2>1 DEF ClaimIsBound, M, T
<1>3. /\ req'[r] = req'[q] /\ T(r)' = T(r)
      /\ q \in signed' /\ executed \subseteq executed'
  BY <1>1, <1>2, BodyFixed, OnlyGrows
<1>4. (IsReview(r) <=> IsReview(r)') /\ (Forgotten(r) => Forgotten(r)')
  <2>1. IsReview(r) <=> IsReview(r)'
    BY <1>3 DEF IsReview
  <2>2. now \in Nat /\ now' \in Nat /\ now <= now' /\ ClosesAt[T(r)] \in Nat
    BY <1>1, OnlyGrows, BodyTyped, GuardConstants
  <2>3. ~ (now < ClosesAt[T(r)]) => ~ (now' < ClosesAt[T(r)])
    BY ONLY <2>2
  <2>4. QED
    BY <1>3, <2>1, <2>3 DEF Forgotten, Resolvable
<1>5. \/ pc'[r] = pc[r] /\ snap'[r] = snap[r]
      \/ Handle(r)
      \/ pc'[r] = "lost"
  <2>1. ~ Arrive(r)
    BY <1>1 DEF Arrive
  <2>2. ReadSchedule(r) => Handle(r)
    BY DEF Handle
  <2>3. QED
    BY <1>1, <2>1, <2>2, ProgramCounterStep, SnapStep
<1>6. /\ pc'[r] \in {"paying", "settled", "resolving", "resolved", "refusing", "done", "lost"}
      /\ pc'[r] \in {"resolving", "resolved"} => IsReview(r)
      /\ pc'[r] = "resolved" => "guard" \in snap'[r]
      /\ pc'[r] = "refusing" => Forgotten(r)
  BY <1>1, <1>2, <1>5, FollowerHandles DEF FollowsSigned
<1>7. Refusal(r) \in verdicts' => Forgotten(r)
  <2>1. CASE Refusal(r) \in verdicts
    BY <2>1 DEF FollowsSigned
  <2>2. CASE Refusal(r) \notin verdicts
    BY <1>1, <2>2, NewRefusal DEF FollowsSigned
  <2>3. QED
    BY <2>1, <2>2
<1>8. IsReview(r) => T(r) \in executed
  BY DEF FollowsSigned
<1>9. Refusal(r)' = Refusal(r)
  BY DEF Refusal
<1>10. QED
  BY <1>3, <1>4, <1>6, <1>7, <1>8, <1>9 DEF FollowsSigned

(* Once the guard has signed a tuple, and consensus executed it if it is a *)
(* schedule, a request for it that has not looked the ledger up yet is     *)
(* never refused, until consensus forgets the schedule, whatever crashes,  *)
(* fails or comes in between (the retry paths of server.ts).               *)
THEOREM SignedTuplesStay == Spec => SignedTupleNotRefusedAgain
<1>1. Spec => []RefusalEnds
  <2>1. Init => RefusalEnds
    BY DEF Init, RefusalEnds
  <2>2. Inductive /\ RefusalEnds /\ [Next]_vars => RefusalEnds'
    BY RefusalEndsHold DEF Inductive
  <2>3. QED
    BY <2>1, <2>2, InductiveInvariant, PTL DEF Spec
<1>2. ASSUME NEW r \in Requests, NEW q \in Requests
      PROVE  Spec => []( /\ q \in signed
                         /\ req[r] = req[q]
                         /\ pc[r] \in {"paying", "settled"}
                         /\ IsReview(r) => T(r) \in executed
                         => []( [request |-> r, outcome |-> "refused"] \in verdicts
                                 => IsReview(r) /\ ~ Resolvable(T(r)) ) )
  <2> DEFINE Starts == /\ q \in signed
                       /\ req[r] = req[q]
                       /\ pc[r] \in {"paying", "settled"}
                       /\ IsReview(r) => T(r) \in executed
             Kept == [request |-> r, outcome |-> "refused"] \in verdicts
                       => IsReview(r) /\ ~ Resolvable(T(r))
  <2>1. RefusalEnds /\ Starts => FollowsSigned(r, q)
    BY DEF RefusalEnds, FollowsSigned
  <2>2. Inductive /\ FollowsSigned(r, q) /\ [Next]_vars => FollowsSigned(r, q)'
    BY FollowsSignedHold
  <2>3. FollowsSigned(r, q) => Kept
    BY DEF FollowsSigned, Refusal, Forgotten
  <2> HIDE DEF Starts, Kept
  <2>4. Spec => [](Starts => []Kept)
    BY <1>1, <2>1, <2>2, <2>3, InductiveInvariant, PTL DEF Spec
  <2>5. QED
    BY <2>4 DEF Starts, Kept
<1>3. QED
  BY <1>2 DEF SignedTupleNotRefusedAgain

----------------------------------------------------------------------------
(* How many of its own steps a request has left at most.                   *)
StepsLeft ==
    [p \in PCs |->
        CASE p = "idle" -> 10 [] p = "paying" -> 9 [] p = "settled" -> 8
          [] p \in {"resolving", "validating"} -> 7
          [] p \in {"resolved", "querying"} -> 6
          [] p = "reserving" -> 5 [] p = "signing" -> 4
          [] p = "awaiting" -> 3 [] p = "approving" -> 2
          [] p \in {"completing", "refusing", "rechecking", "relooking"} -> 1
          [] p \in {"done", "lost"} -> 0]

(* Nothing a handler meets sends it back: a lost race, a busy ledger, a    *)
(* call that fails, another request or a crash.                            *)
HandlersAdvance ==
    [][\A r \in Requests :
          /\ StepsLeft[pc'[r]] <= StepsLeft[pc[r]]
          /\ Handle(r) => StepsLeft[pc'[r]] < StepsLeft[pc[r]]]_vars

LEMMA HandleAdvances ==
  ASSUME TypeOK, NEW r \in Requests, Handle(r)
  PROVE  StepsLeft[pc'[r]] < StepsLeft[pc[r]]
<1> USE DEF TypeOK, Goto, Respond, RespondRetry, RespondStored, StepsLeft, PCs, Waiting
<1>1. CASE Unpaid(r) \/ Settle(r)
  BY <1>1 DEF Unpaid, Settle
<1>2. CASE LookUp(r)
  BY <1>2 DEF LookUp
<1>3. CASE ReadSchedule(r) \/ DecideReview(r)
  BY <1>3 DEF ReadSchedule, DecideReview
<1>4. CASE Validate(r) \/ TokenInfo(r)
  BY <1>4 DEF Validate, TokenInfo
<1>5. CASE ReserveNonce(r)
  BY <1>5 DEF ReserveNonce
<1>6. CASE Recheck(r) \/ LookUpAgain(r)
  BY <1>6 DEF Recheck, LookUpAgain
<1>7. CASE Sign(r) \/ Receipt(r)
  BY <1>7 DEF Sign, Receipt
<1>8. CASE PublishApproval(r) \/ CompleteNonce(r) \/ PublishRefusal(r)
  BY <1>8 DEF PublishApproval, CompleteNonce, PublishRefusal
<1>9. CASE CallFails(r)
  BY <1>9 DEF CallFails
<1>10. CASE StoreBusy(r)
  BY <1>10 DEF StoreBusy
<1> HIDE DEF TypeOK, Goto, Respond, RespondRetry, RespondStored, StepsLeft, PCs, Waiting
<1>11. QED
  BY <1>1, <1>2, <1>3, <1>4, <1>5, <1>6, <1>7, <1>8, <1>9, <1>10 DEF Handle

(* A request ends within ten steps of its own, whatever the others do: the *)
(* safety half of EveryRequestAnswered, whose other half is that a handler *)
(* that waits goes on.                                                     *)
THEOREM HandlersEndWithinBound == Spec => HandlersAdvance
<1>1. TypeOK /\ [Next]_vars =>
        [\A r \in Requests :
            /\ StepsLeft[pc'[r]] <= StepsLeft[pc[r]]
            /\ Handle(r) => StepsLeft[pc'[r]] < StepsLeft[pc[r]]]_vars
  <2> SUFFICES ASSUME TypeOK, [Next]_vars, NEW r \in Requests
               PROVE  /\ StepsLeft[pc'[r]] <= StepsLeft[pc[r]]
                      /\ Handle(r) => StepsLeft[pc'[r]] < StepsLeft[pc[r]]
    OBVIOUS
  <2>1. \A p \in PCs : StepsLeft[p] \in 0..10
    BY DEF StepsLeft, PCs, Waiting
  <2>2. pc[r] \in PCs /\ pc'[r] \in PCs
    BY TypeStep DEF TypeOK
  <2>3. Handle(r) => StepsLeft[pc'[r]] < StepsLeft[pc[r]]
    BY HandleAdvances
  <2>4. CASE pc'[r] = pc[r]
    BY <2>1, <2>2, <2>3, <2>4
  <2>5. CASE Arrive(r)
    BY <2>2, <2>3, <2>5 DEF Arrive, StepsLeft, PCs, Waiting, TypeOK
  <2>6. CASE Crash /\ pc'[r] = "lost"
    <3>1. StepsLeft["lost"] = 0
      BY DEF StepsLeft, PCs
    <3>2. QED
      BY <2>1, <2>2, <2>3, <2>6, <3>1
  <2>7. CASE Handle(r)
    BY <2>1, <2>2, <2>3, <2>7
  <2>8. QED
    BY <2>4, <2>5, <2>6, <2>7, ProgramCounterStep
<1>2. QED
  BY <1>1, TypeCorrect, PTL DEF Spec, HandlersAdvance

(* The guard uses the ledger through its two writes alone, the ones that   *)
(* ReplayStoreTx implements by transactions.                               *)
THEOREM GuardUsesLedger == Spec => StoreSpec
<1>1. Init => StoreInit
  BY DEF Init
<1>2. TypeOK /\ [Next]_vars => [StoreNext]_rows
  <2> SUFFICES ASSUME TypeOK, [Next]_vars, rows' # rows PROVE StoreNext
    OBVIOUS
  <2>1. CASE \E r \in Requests : /\ pc[r] = "reserving"
                                 /\ CanReserve(M(r), T(r)) /\ InsertPending(M(r), T(r))
    <3>1. PICK r \in Requests : /\ pc[r] = "reserving"
                                /\ CanReserve(M(r), T(r)) /\ InsertPending(M(r), T(r))
      BY <2>1
    <3>2. M(r) \in Mandates /\ T(r) \in Targets
      BY <3>1, BodyTyped
    <3>3. Reserve(M(r), T(r))
      BY <3>1 DEF Reserve
    <3>4. QED
      BY <3>2, <3>3 DEF StoreNext
  <2>2. CASE \E r \in Requests : CompleteNonce(r)
    <3>1. PICK r \in Requests : CompleteNonce(r)
      BY <2>2
    <3>2. M(r) \in Mandates /\ T(r) \in Targets
      BY <3>1, BodyTyped DEF CompleteNonce
    <3>3. Complete(M(r), T(r), r)
      BY <3>1 DEF CompleteNonce, Complete
    <3>4. QED
      BY <3>2, <3>3 DEF StoreNext
  <2>3. QED
    BY <2>1, <2>2, LedgerStep
<1>3. QED
  BY <1>1, <1>2, TypeCorrect, PTL DEF Spec, StoreSpec

----------------------------------------------------------------------------
(* What one step of the server changes of what the mandate is made of.     *)
LEMMA StepKinds ==
  ASSUME TypeOK, [Next]_vars
  PROVE  \/ \E r \in Requests :
              /\ pc[r] = "reserving"
              /\ CanReserve(M(r), T(r)) /\ InsertPending(M(r), T(r))
              /\ UNCHANGED <<req, signed, executed, verdicts>>
         \/ \E r \in Requests :
              CompleteNonce(r) /\ UNCHANGED <<req, signed, executed, verdicts>>
         \/ \E r \in Requests : Sign(r) /\ UNCHANGED <<rows, req, executed, verdicts>>
         \/ \E r \in Requests :
              SignatureLands(r) /\ UNCHANGED <<rows, req, signed, verdicts>>
         \/ \E t \in Transfers :
              TransferExecutes(t) /\ UNCHANGED <<rows, req, signed, verdicts>>
         \/ \E r \in Requests :
              /\ pc[r] = "approving" /\ Publish(r, "approved")
              /\ UNCHANGED <<rows, req, signed, executed>>
         \/ /\ UNCHANGED <<rows, signed, executed>>
            /\ \A q \in Requests : Approval(q) \in verdicts' => Approval(q) \in verdicts
<1> USE DEF world, evidence, handler, Goto, Respond, RespondRetry, RespondStored, Approval
<1>1. ASSUME NEW r \in Requests, ReserveNonce(r)
      PROVE  \/ /\ pc[r] = "reserving"
                /\ CanReserve(M(r), T(r)) /\ InsertPending(M(r), T(r))
                /\ UNCHANGED <<req, signed, executed, verdicts>>
             \/ UNCHANGED <<rows, signed, executed, verdicts>>
  BY <1>1 DEF ReserveNonce
<1>2. ASSUME NEW r \in Requests, CompleteNonce(r)
      PROVE  UNCHANGED <<req, signed, executed, verdicts>>
  BY <1>2 DEF CompleteNonce
<1>3. ASSUME NEW r \in Requests, Sign(r)
      PROVE  UNCHANGED <<rows, req, executed, verdicts>>
  BY <1>3 DEF Sign
<1>4. ASSUME NEW r \in Requests, PublishApproval(r) \/ CallFails(r)
      PROVE  \/ /\ pc[r] = "approving" /\ Publish(r, "approved")
                /\ UNCHANGED <<rows, req, signed, executed>>
             \/ /\ UNCHANGED <<rows, signed, executed>>
                /\ \A q \in Requests : Approval(q) \in verdicts' => Approval(q) \in verdicts
  BY <1>4 DEF PublishApproval, CallFails, Publish
<1>5. ASSUME NEW r \in Requests, PublishRefusal(r)
      PROVE  /\ UNCHANGED <<rows, signed, executed>>
             /\ \A q \in Requests : Approval(q) \in verdicts' => Approval(q) \in verdicts
  BY <1>5 DEF PublishRefusal, Publish
<1>6. ASSUME NEW r \in Requests, Arrive(r) \/ Handle(r), ~ ReserveNonce(r),
             ~ CompleteNonce(r), ~ Sign(r), ~ PublishApproval(r), ~ CallFails(r),
             ~ PublishRefusal(r)
      PROVE  UNCHANGED <<rows, signed, executed, verdicts>>
  BY <1>6 DEF Arrive, Handle, Unpaid, Settle, LookUp, ReadSchedule, DecideReview,
     Validate, TokenInfo, Recheck, LookUpAgain, Receipt, StoreBusy
<1>7. ASSUME NEW r \in Requests, SignatureLands(r)
      PROVE  UNCHANGED <<rows, req, signed, verdicts>>
  BY <1>7 DEF SignatureLands
<1>8. ASSUME NEW t \in Transfers, TransferExecutes(t)
      PROVE  UNCHANGED <<rows, req, signed, verdicts>>
  BY <1>8 DEF TransferExecutes
<1>9. ASSUME \/ Tick \/ Crash \/ UNCHANGED vars
             \/ \E s \in Schedules : AgentSigns(s)
      PROVE  UNCHANGED <<rows, signed, executed, verdicts>>
  BY <1>9 DEF Tick, Crash, vars, AgentSigns
<1>10. QED
  BY <1>1, <1>2, <1>3, <1>4, <1>5, <1>6, <1>7, <1>8, <1>9 DEF Next, Network

(* What the mandate's variables are made of, and how a step moves them.    *)
LEMMA MappedKeys ==
  ASSUME Inductive, [Next]_vars
  PROVE  /\ signed' = signed => AuthorizedKeys' = AuthorizedKeys
         /\ (\A q \in Requests : Approval(q) \in verdicts' <=> Approval(q) \in verdicts)
              => AttestedKeys' = AttestedKeys
         /\ rows' = rows => /\ SealedKeys' = SealedKeys
                            /\ [k \in Keys |-> Binding(k)]' = [k \in Keys |-> Binding(k)]
<1>1. ASSUME NEW q \in signed PROVE q \in Requests /\ M(q)' = M(q)
  <2>1. q \in Requests /\ Claims(q)
    BY <1>1 DEF Inductive, TypeOK, Claims
  <2>2. pc[q] # "idle"
    BY <2>1 DEF Inductive, ClaimsBound, ClaimIsBound
  <2>3. QED
    BY <2>1, <2>2, BodyFixed DEF Inductive
<1>2. ASSUME signed' = signed PROVE AuthorizedKeys' = AuthorizedKeys
  BY <1>1, <1>2 DEF AuthorizedKeys, KeyOfRequest, Key
<1>3. ASSUME \A q \in Requests : Approval(q) \in verdicts' <=> Approval(q) \in verdicts
      PROVE  AttestedKeys' = AttestedKeys
  <2>1. \A q \in Requests : Approval(q) \in verdicts => M(q)' = M(q)
    BY <1>1 DEF Inductive, Effects
  <2>2. QED
    BY <1>3, <2>1 DEF AttestedKeys, KeyOfRequest, Key, Approval
<1>4. ASSUME rows' = rows
      PROVE  /\ SealedKeys' = SealedKeys
             /\ [k \in Keys |-> Binding(k)]' = [k \in Keys |-> Binding(k)]
  BY <1>4 DEF SealedKeys, Binding
<1>5. QED
  BY <1>2, <1>3, <1>4

(* A reservation of the ledger is the mandate's Bind (InsertPending under  *)
(* the primary key and the high-water mark).                               *)
LEMMA ReservationBinds ==
  ASSUME Inductive, [Next]_vars, NEW r \in Requests, pc[r] = "reserving",
         CanReserve(M(r), T(r)), InsertPending(M(r), T(r)),
         UNCHANGED <<req, signed, executed, verdicts>>
  PROVE  Promise!Bind(M(r), T(r))
<1>1. M(r) \in Mandates /\ T(r) \in Targets /\ Key(M(r)) \in Keys
  BY BodyTyped DEF Inductive
<1>2. rows \in [Keys -> Row \cup {NoRow}]
  BY DEF Inductive, TypeOK, StoreTypeOK
<1>3. rows[Key(M(r))] = NoRow
  BY DEF CanReserve, Bound
<1>4. /\ rows'[Key(M(r))] = [mandate |-> M(r), target |-> T(r), settlement |-> None]
      /\ \A k \in Keys \ {Key(M(r))} : rows'[k] = rows[k]
  BY <1>1, <1>2 DEF InsertPending, Inserted
<1>5. rows'[Key(M(r))] # NoRow
  <2>1. rows'[Key(M(r))] \in Row
    BY <1>1, <1>4 DEF Row
  <2>2. QED
    BY <2>1, StoreConstants
<1>6. AuthorizedKeys' = AuthorizedKeys /\ AttestedKeys' = AttestedKeys
  BY MappedKeys
<1>7. SealedKeys' = SealedKeys
  BY <1>3, <1>4 DEF SealedKeys
<1>8. \A k \in Keys : Binding(k) = NoRow <=> rows[k] = NoRow
  <2>1. ASSUME NEW k \in Keys, rows[k] # NoRow PROVE Binding(k) # NoRow
    <3>1. rows[k] \in Row
      BY <1>2, <2>1
    <3>2. Binding(k) \in [mandate : Mandates, target : Targets]
      BY <2>1, <3>1 DEF Row, Binding
    <3>3. QED
      BY <3>2, NoRowIsFree
  <2>2. QED
    BY <2>1 DEF Binding
<1>9. [k \in Keys |-> Binding(k)]' =
        [[k \in Keys |-> Binding(k)] EXCEPT
            ![Key(M(r))] = [mandate |-> M(r), target |-> T(r)]]
  <2>1. ASSUME NEW k \in Keys
        PROVE  Binding(k)' = IF k = Key(M(r)) THEN [mandate |-> M(r), target |-> T(r)]
                             ELSE Binding(k)
    BY <1>4, <1>5 DEF Binding
  <2>2. [k \in Keys |-> Binding(k)]' = [k \in Keys |-> Binding(k)']
    OBVIOUS
  <2>3. QED
    BY <1>1, <2>1, <2>2
<1>10. \A k \in Keys :
         Binding(k) # NoRow /\ k[1] = TenantOf[M(r)] => k[2] < NonceOf[M(r)]
  BY <1>8 DEF CanReserve, FreshNonce
<1>11. Binding(Key(M(r))) = NoRow
  BY <1>3 DEF Binding
<1>12. QED
  BY <1>1, <1>6, <1>7, <1>9, <1>10, <1>11
     DEF Promise!Bind, Promise!Key, Promise!Keys, Key, Keys

(* A completion of the ledger is the mandate's Seal.                       *)
LEMMA CompletionSeals ==
  ASSUME Inductive, [Next]_vars, NEW r \in Requests, CompleteNonce(r),
         UNCHANGED <<req, signed, executed, verdicts>>
  PROVE  Promise!Seal(Key(M(r)))
<1>1. M(r) \in Mandates /\ T(r) \in Targets /\ Key(M(r)) \in Keys
  BY BodyTyped DEF Inductive, CompleteNonce
<1>2. rows \in [Keys -> Row \cup {NoRow}]
  BY DEF Inductive, TypeOK, StoreTypeOK
<1>3. rows[Key(M(r))] # NoRow /\ rows[Key(M(r))] \in Row
  BY <1>1, <1>2 DEF CompleteNonce, WriteCompletion, Completed, SameTuple, Bound
<1>4. rows[Key(M(r))].settlement = None /\ Approval(r) \in verdicts
  BY DEF CompleteNonce, Inductive, InOrder, Holds
<1>5. /\ rows'[Key(M(r))] = [rows[Key(M(r))] EXCEPT !.settlement = r]
      /\ \A k \in Keys \ {Key(M(r))} : rows'[k] = rows[k]
  BY <1>1, <1>2 DEF CompleteNonce, WriteCompletion, Completed
<1>6. /\ rows'[Key(M(r))] \in Row
      /\ rows'[Key(M(r))].mandate = rows[Key(M(r))].mandate
      /\ rows'[Key(M(r))].target = rows[Key(M(r))].target
      /\ rows'[Key(M(r))].settlement = r
  BY <1>3, <1>5 DEF Row
<1>7. AuthorizedKeys' = AuthorizedKeys /\ AttestedKeys' = AttestedKeys
  BY MappedKeys
<1>8. Key(M(r)) \in AttestedKeys
  BY <1>4 DEF AttestedKeys, KeyOfRequest, Approval
<1>9. Key(M(r)) \notin SealedKeys
  BY <1>4 DEF SealedKeys
<1>10. SealedKeys' = SealedKeys \cup {Key(M(r))}
  BY <1>1, <1>5, <1>6, StoreConstants DEF SealedKeys
<1>11. [k \in Keys |-> Binding(k)]' = [k \in Keys |-> Binding(k)]
  <2>1. ASSUME NEW k \in Keys PROVE Binding(k)' = Binding(k)
    BY <1>3, <1>5, <1>6, StoreConstants DEF Binding
  <2>2. QED
    BY <2>1
<1>12. QED
  BY <1>7, <1>8, <1>9, <1>10, <1>11 DEF Promise!Seal

(* The signing step of either handler is the mandate's Authorize, because  *)
(* no earlier request of the nonce has signed.                             *)
LEMMA SigningAuthorizes ==
  ASSUME Inductive, [Next]_vars, NEW r \in Requests, Sign(r),
         UNCHANGED <<rows, req, executed, verdicts>>
  PROVE  Promise!Authorize(Key(M(r))) \/ UNCHANGED Promise!vars
<1>1. Claims(r) /\ ClaimIsBound(r)
  BY DEF Sign, Claims, Holds, Inductive, ClaimsBound
<1>2. Key(M(r)) \in Keys /\ Bound(M(r))
  BY <1>1, BodyTyped DEF ClaimIsBound, Inductive, SameTuple
<1>3. /\ SealedKeys' = SealedKeys /\ AttestedKeys' = AttestedKeys
      /\ [k \in Keys |-> Binding(k)]' = [k \in Keys |-> Binding(k)]
  BY MappedKeys
<1>4. CASE r \in signed
  <2>1. signed' = signed
    BY <1>4 DEF Sign
  <2>2. QED
    BY <1>3, <2>1, MappedKeys DEF Promise!vars
<1>5. CASE r \notin signed
  <2>1. Key(M(r)) \notin AuthorizedKeys
    <3>1. ASSUME NEW q \in signed, Key(M(q)) = Key(M(r)) PROVE FALSE
      <4>1. q \in Requests /\ Claims(q)
        BY <3>1 DEF Inductive, TypeOK, Claims
      <4>2. q = r
        BY <1>1, <3>1, <4>1 DEF Inductive, ClaimsUnique, SameNonce
      <4>3. QED
        BY <1>5, <4>2
    <3>2. QED
      BY <3>1 DEF AuthorizedKeys, KeyOfRequest
  <2>2. AuthorizedKeys' = AuthorizedKeys \cup {Key(M(r))}
    BY DEF AuthorizedKeys, KeyOfRequest, Key, M, Sign
  <2>3. [k \in Keys |-> Binding(k)][Key(M(r))] # NoRow
    <3>1. rows[Key(M(r))] \in Row
      BY <1>2 DEF Bound, Inductive, TypeOK, StoreTypeOK
    <3>2. Binding(Key(M(r))) \in [mandate : Mandates, target : Targets]
      BY <1>2, <3>1 DEF Row, Bound, Binding
    <3>3. QED
      BY <1>2, <3>2, NoRowIsFree
  <2>4. QED
    BY <1>3, <2>1, <2>2, <2>3 DEF Promise!Authorize
<1>6. QED
  BY <1>4, <1>5

(* Publishing an approval, also by a submission that then fails, is the    *)
(* mandate's Attest; publishing again what is attested changes nothing.    *)
LEMMA PublicationAttests ==
  ASSUME Inductive, [Next]_vars, NEW r \in Requests, pc[r] = "approving",
         Publish(r, "approved"), UNCHANGED <<rows, req, signed, executed>>
  PROVE  Promise!Attest(Key(M(r))) \/ UNCHANGED Promise!vars
<1>1. r \in signed
  BY DEF Inductive, InOrder
<1>2. Key(M(r)) \in AuthorizedKeys
  BY <1>1 DEF AuthorizedKeys, KeyOfRequest
<1>3. /\ SealedKeys' = SealedKeys /\ AuthorizedKeys' = AuthorizedKeys
      /\ [k \in Keys |-> Binding(k)]' = [k \in Keys |-> Binding(k)]
  BY MappedKeys
<1>4. AttestedKeys' = AttestedKeys \cup {Key(M(r))}
  BY DEF AttestedKeys, KeyOfRequest, Key, M, Publish
<1>5. CASE Key(M(r)) \in AttestedKeys
  <2>1. AttestedKeys' = AttestedKeys
    BY <1>4, <1>5
  <2>2. QED
    BY <1>3, <2>1 DEF Promise!vars
<1>6. CASE Key(M(r)) \notin AttestedKeys
  BY <1>2, <1>3, <1>4, <1>6 DEF Promise!Attest
<1>7. QED
  BY <1>5, <1>6

(* A signed request that carries a target is what lets the target move.    *)
LEMMA ExecutionMoves ==
  ASSUME Inductive, [Next]_vars, NEW r \in signed, T(r) \notin executed,
         executed' = executed \cup {T(r)}, UNCHANGED <<rows, req, signed, verdicts>>
  PROVE  Promise!Move(Key(M(r)))
<1>1. r \in Requests /\ Claims(r) /\ ClaimIsBound(r)
  BY DEF Claims, Inductive, TypeOK, ClaimsBound
<1>2. Key(M(r)) \in Keys
  BY <1>1, BodyTyped DEF ClaimIsBound, Inductive
<1>3. Key(M(r)) \in AuthorizedKeys
  BY DEF AuthorizedKeys, KeyOfRequest
<1>4. [k \in Keys |-> Binding(k)][Key(M(r))].target = T(r)
  BY <1>1, <1>2 DEF ClaimIsBound, SameTuple, Bound, Binding
<1>5. /\ SealedKeys' = SealedKeys /\ AuthorizedKeys' = AuthorizedKeys
      /\ AttestedKeys' = AttestedKeys
      /\ [k \in Keys |-> Binding(k)]' = [k \in Keys |-> Binding(k)]
  BY MappedKeys
<1>6. QED
  BY <1>3, <1>4, <1>5 DEF Promise!Move

(* Every step of the guard, its clients, the network and the clock is a    *)
(* step of the single-use mandate or leaves all it speaks of unchanged.    *)
LEMMA StepImplements ==
  Inductive /\ Inductive' /\ [Next]_vars => [Promise!Next]_(Promise!vars)
<1> SUFFICES ASSUME Inductive, Inductive', [Next]_vars
             PROVE  Promise!Next \/ UNCHANGED Promise!vars
  OBVIOUS
<1>1. TypeOK
  BY DEF Inductive
<1>2. ASSUME NEW r \in Requests, pc[r] = "reserving",
             CanReserve(M(r), T(r)), InsertPending(M(r), T(r)),
             UNCHANGED <<req, signed, executed, verdicts>>
      PROVE  Promise!Next
  <2>1. M(r) \in Mandates /\ T(r) \in Targets
    BY <1>1, <1>2, BodyTyped
  <2>2. QED
    BY <1>2, <2>1, ReservationBinds DEF Promise!Next
<1>3. ASSUME NEW r \in Requests, pc[r] # "idle" PROVE Key(M(r)) \in Promise!Keys
  BY <1>1, <1>3, BodyTyped DEF Promise!Keys, Promise!Key, Key
<1>4. ASSUME NEW r \in Requests, CompleteNonce(r),
             UNCHANGED <<req, signed, executed, verdicts>>
      PROVE  Promise!Next
  BY <1>3, <1>4, CompletionSeals DEF Promise!Next, CompleteNonce
<1>5. ASSUME NEW r \in Requests, Sign(r), UNCHANGED <<rows, req, executed, verdicts>>
      PROVE  Promise!Next \/ UNCHANGED Promise!vars
  BY <1>3, <1>5, SigningAuthorizes DEF Promise!Next, Sign
<1>6. ASSUME NEW r \in Requests, pc[r] = "approving",
             Publish(r, "approved"), UNCHANGED <<rows, req, signed, executed>>
      PROVE  Promise!Next \/ UNCHANGED Promise!vars
  BY <1>3, <1>6, PublicationAttests DEF Promise!Next
<1>7. ASSUME NEW t \in executed', t \notin executed, executed' = executed \cup {t},
             UNCHANGED <<rows, req, signed, verdicts>>
      PROVE  Promise!Next
  <2>1. PICK r \in signed' : T(r)' = t
    BY <1>7 DEF Inductive, Effects
  <2>2. r \in signed /\ r \in Requests /\ T(r) = t
    BY <1>1, <1>7, <2>1 DEF T, TypeOK
  <2>3. pc[r] # "idle"
    BY <2>2 DEF Inductive, ClaimsBound, ClaimIsBound, Claims
  <2>4. Promise!Move(Key(M(r)))
    BY <1>7, <2>2, ExecutionMoves
  <2>5. QED
    BY <1>3, <2>2, <2>3, <2>4 DEF Promise!Next
<1>8. ASSUME NEW r \in Requests, SignatureLands(r), UNCHANGED <<rows, req, signed, verdicts>>
      PROVE  Promise!Next
  BY <1>7, <1>8 DEF SignatureLands
<1>9. ASSUME NEW t \in Transfers, TransferExecutes(t),
             UNCHANGED <<rows, req, signed, verdicts>>
      PROVE  Promise!Next
  BY <1>7, <1>9 DEF TransferExecutes
<1>10. ASSUME UNCHANGED <<rows, signed, executed>>,
              \A q \in Requests : Approval(q) \in verdicts' => Approval(q) \in verdicts
       PROVE  UNCHANGED Promise!vars
  <2>1. \A q \in Requests : Approval(q) \in verdicts' <=> Approval(q) \in verdicts
    BY <1>1, <1>10, OnlyGrows
  <2>2. QED
    BY <1>10, <2>1, MappedKeys DEF Promise!vars
<1>11. QED
  BY <1>1, <1>2, <1>4, <1>5, <1>6, <1>8, <1>9, <1>10, StepKinds

(* Every behaviour of the guard server, with its retries, lost answers and *)
(* crashes, is a behaviour of the single-use mandate.                      *)
THEOREM GuardIsSingleUse == Spec => ImplementsSingleUse
<1>1. Init => Promise!Init
  <2> SUFFICES ASSUME Init PROVE Promise!Init
    OBVIOUS
  <2>1. signed = {} /\ executed = {} /\ verdicts = {}
    BY DEF Init
  <2>2. AuthorizedKeys = {} /\ AttestedKeys = {}
    BY <2>1 DEF AuthorizedKeys, AttestedKeys
  <2>3. \A k \in Keys : rows[k] = NoRow
    BY DEF Init, StoreInit
  <2>4. SealedKeys = {} /\ [k \in Keys |-> Binding(k)] = [k \in Promise!Keys |-> NoRow]
    BY <2>3 DEF SealedKeys, Binding, Keys, Key, Promise!Keys, Promise!Key
  <2>5. QED
    BY <2>1, <2>2, <2>4 DEF Promise!Init
<1>2. QED
  BY <1>1, StepImplements, InductiveInvariant, PTL
     DEF Spec, ImplementsSingleUse, Promise!Spec
============================================================================
