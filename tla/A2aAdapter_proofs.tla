------------------------- MODULE A2aAdapter_proofs -------------------------
(***************************************************************************)
(* Safety of the A2A adapter for every number of tasks.  Every action but  *)
(* Restart is an action of one task, so the argument is made for one task: *)
(* TaskStep for the task that acts, TaskFrame for the others.              *)
(***************************************************************************)
EXTENDS A2aAdapter, TLAPS

TaskInv(t) == CallInv(t) /\ SettleInv(t)

(* Nothing about task u changes.                                           *)
Same(u) ==
    /\ state'[u] = state[u] /\ note'[u] = note[u] /\ receipt'[u] = receipt[u]
    /\ awaiting'[u] = awaiting[u]
    /\ job'[u] = job[u] /\ answer'[u] = answer[u] /\ settled'[u] = settled[u]

TaskAction(t) ==
    \/ NewTask(t) \/ SubmitPayment(t) \/ Decline(t) \/ Cancel(t)
    \/ Handler(t)
    \/ GuardChallenges(t) \/ GuardRefusesPayment(t) \/ GuardSettles(t) \/ GuardReviews(t)

(* A task that nothing happens to keeps its invariant.                     *)
LEMMA TaskFrame ==
    ASSUME NEW u \in Tasks, TaskInv(u), Same(u)
    PROVE  TaskInv(u)'
  BY DEF TaskInv, CallInv, SettleInv, Same

(* A message, a cancellation or an answer writes one task's status.        *)
LEMMA StatusWrites ==
    ASSUME A2aTypeOK, NEW t \in Tasks,
           NEW s \in States, NEW n \in Notes, NEW r \in Receipts, Status(t, s, n, r)
    PROVE  /\ state' \in [Tasks -> States] /\ note' \in [Tasks -> Notes]
           /\ receipt' \in [Tasks -> Receipts]
           /\ state'[t] = s /\ note'[t] = n /\ receipt'[t] = r
           /\ \A u \in Tasks \ {t} :
                state'[u] = state[u] /\ note'[u] = note[u] /\ receipt'[u] = receipt[u]
  BY DEF Status, A2aTypeOK

(* The call to the guard: the task is at work and awaits the answer.       *)
LEMMA CallKeeps ==
    ASSUME A2aTypeOK, NEW t \in Tasks,
           NEW with \in {"unpaid", "paid"}, NEW work \in {"challenging", "paying"},
           CallGuard(t, with, work), with = "unpaid" <=> work = "challenging",
           settled[t] = 0
    PROVE  A2aTypeOK' /\ TaskInv(t)' /\ \A u \in Tasks \ {t} : Same(u)
<1>1. "working" \in States /\ "none" \in Notes /\ "none" \in Receipts
  BY DEF States, Notes, Receipts
<1>2. Status(t, "working", "none", "none") /\ UNCHANGED <<answer, settled>>
  BY DEF CallGuard
<1>3. /\ state' \in [Tasks -> States] /\ note' \in [Tasks -> Notes]
      /\ receipt' \in [Tasks -> Receipts]
      /\ state'[t] = "working" /\ receipt'[t] = "none"
      /\ \A u \in Tasks \ {t} :
           state'[u] = state[u] /\ note'[u] = note[u] /\ receipt'[u] = receipt[u]
  BY <1>1, <1>2, StatusWrites
<1>4. /\ awaiting' \in [Tasks -> {"none", "unpaid", "paid"}]
      /\ job' \in [Tasks -> {"none", "challenging", "paying", "reviewing", "answered"}]
      /\ awaiting'[t] = with /\ job'[t] = work
      /\ \A u \in Tasks \ {t} : awaiting'[u] = awaiting[u] /\ job'[u] = job[u]
  BY DEF CallGuard, A2aTypeOK
<1>5. A2aTypeOK'
  BY <1>2, <1>3, <1>4 DEF A2aTypeOK
<1>6. settled'[t] = 0
  BY <1>2
<1>7. CallInv(t)'
  BY <1>3, <1>4, <1>6 DEF CallInv
<1>8. SettleInv(t)'
  BY <1>3, <1>4, <1>6 DEF SettleInv
<1> QED
  BY <1>2, <1>3, <1>4, <1>5, <1>7, <1>8 DEF Same, TaskInv

(* A handler that goes on writes a state that is not "working"; it may     *)
(* show a receipt of success only for a settled payment, ask for money     *)
(* only when none was settled, and complete only on this payment's verdict.*)
LEMMA HandledKeeps ==
    ASSUME A2aTypeOK, NEW t \in Tasks, TaskInv(t),
           awaiting[t] # "none",
           awaiting' = [awaiting EXCEPT ![t] = "none"], UNCHANGED guardVars,
           NEW s \in {"gone", "failed", "completed", "input-required"},
           NEW n \in Notes, NEW r \in Receipts, Status(t, s, n, r),
           r = "success" => settled[t] = 1,
           s = "input-required" => settled[t] = 0 /\ job[t] = "answered",
           s = "completed" =>
             r = "success" /\ answer[t].kind = "verdict" /\ job[t] = "answered"
    PROVE  A2aTypeOK' /\ TaskInv(t)' /\ \A u \in Tasks \ {t} : Same(u)
<1>1. s \in States
  BY DEF States, Terminal
<1>2. /\ state' \in [Tasks -> States] /\ note' \in [Tasks -> Notes]
      /\ receipt' \in [Tasks -> Receipts]
      /\ state'[t] = s /\ receipt'[t] = r
      /\ \A u \in Tasks \ {t} :
           state'[u] = state[u] /\ note'[u] = note[u] /\ receipt'[u] = receipt[u]
  BY <1>1, StatusWrites
<1>3. /\ awaiting' \in [Tasks -> {"none", "unpaid", "paid"}] /\ awaiting'[t] = "none"
      /\ \A u \in Tasks \ {t} : awaiting'[u] = awaiting[u]
  BY DEF A2aTypeOK
<1>4. job' = job /\ answer' = answer /\ settled' = settled
  BY DEF guardVars
<1>5. A2aTypeOK'
  BY <1>2, <1>3, <1>4 DEF A2aTypeOK
<1>6. TaskInv(t)'
  BY <1>2, <1>3, <1>4 DEF TaskInv, CallInv, SettleInv
<1> QED
  BY <1>2, <1>3, <1>4, <1>5, <1>6 DEF Same

(* A client ends a task that awaits its payment.                           *)
LEMMA EndedKeeps ==
    ASSUME A2aTypeOK, NEW t \in Tasks, TaskInv(t), state[t] = "input-required",
           NEW r \in Receipts, r = "success" => receipt[t] = "success",
           Status(t, "canceled", "payment-rejected", r), UNCHANGED <<awaiting, guardVars>>
    PROVE  A2aTypeOK' /\ TaskInv(t)' /\ \A u \in Tasks \ {t} : Same(u)
<1>1. "canceled" \in States /\ "payment-rejected" \in Notes
  BY DEF States, Terminal, Notes
<1>2. /\ state' \in [Tasks -> States] /\ note' \in [Tasks -> Notes]
      /\ receipt' \in [Tasks -> Receipts]
      /\ state'[t] = "canceled" /\ receipt'[t] = r
      /\ \A u \in Tasks \ {t} :
           state'[u] = state[u] /\ note'[u] = note[u] /\ receipt'[u] = receipt[u]
  BY <1>1, StatusWrites
<1>3. awaiting' = awaiting /\ job' = job /\ answer' = answer /\ settled' = settled
  BY DEF guardVars
<1>4. A2aTypeOK'
  BY <1>2, <1>3 DEF A2aTypeOK
<1>5. TaskInv(t)'
  BY <1>2, <1>3 DEF TaskInv, CallInv, SettleInv
<1> QED
  BY <1>2, <1>3, <1>4, <1>5 DEF Same

(* An answer of the guard leaves the task as it is.                        *)
LEMMA ReplyKeeps ==
    ASSUME A2aTypeOK, NEW t \in Tasks, TaskInv(t),
           NEW kinds \in SUBSET Kinds, NEW receipts \in SUBSET Receipts,
           Reply(t, kinds, receipts),
           job[t] \in {"challenging", "paying", "reviewing"},
           "success" \in receipts => settled[t] = 1,
           settled[t] = 1 => "terms" \notin kinds /\ "no terms" \notin kinds
    PROVE  A2aTypeOK' /\ TaskInv(t)' /\ \A u \in Tasks \ {t} : Same(u)
<1>1. PICK k \in kinds, r \in receipts :
        answer' = [answer EXCEPT ![t] = [kind |-> k, receipt |-> r]]
  BY DEF Reply
<1>2. [kind |-> k, receipt |-> r] \in Answer
  BY DEF Answer
<1>3. /\ answer' \in [Tasks -> Answer] /\ answer'[t] = [kind |-> k, receipt |-> r]
      /\ \A u \in Tasks \ {t} : answer'[u] = answer[u]
  BY <1>1, <1>2 DEF A2aTypeOK
<1>4. /\ job' \in [Tasks -> {"none", "challenging", "paying", "reviewing", "answered"}]
      /\ job'[t] = "answered" /\ \A u \in Tasks \ {t} : job'[u] = job[u]
  BY DEF Reply, A2aTypeOK
<1>5. /\ state' = state /\ note' = note /\ receipt' = receipt
      /\ awaiting' = awaiting /\ settled' = settled
  BY DEF Reply, taskVars
<1>6. A2aTypeOK'
  BY <1>3, <1>4, <1>5 DEF A2aTypeOK
<1>7. settled[t] \in {0, 1}
  BY DEF A2aTypeOK, TaskInv, SettleInv
<1>8. k \in {"terms", "no terms"} => settled[t] = 0
  BY <1>7
<1>9. r = "success" => settled[t] = 1
  OBVIOUS
<1>10. CallInv(t)'
  BY <1>4, <1>5 DEF TaskInv, CallInv
<1>11. SettleInv(t)'
  <2>1. answer'[t].kind = k /\ answer'[t].receipt = r
    <3>1. answer'[t] = [kind |-> k, receipt |-> r]
      BY <1>3
    <3> QED BY ONLY <3>1
  <2>2. receipt[t] = "success" => settled[t] = 1
    BY DEF TaskInv, SettleInv
  <2>3. state[t] # "completed" /\ (awaiting[t] = "unpaid" => settled[t] = 0)
    BY DEF TaskInv, SettleInv
  <2>4. settled'[t] <= 1 /\ (k \in {"terms", "no terms"} => settled'[t] = 0)
        /\ (r = "success" => settled'[t] = 1)
    <3>1. settled'[t] = settled[t]
      BY <1>5
    <3>2. settled'[t] \in {0, 1}
      BY ONLY <1>7, <3>1
    <3>3. settled'[t] <= 1
      BY ONLY <3>2
    <3>4. k \in {"terms", "no terms"} => settled'[t] = 0
      BY ONLY <1>8, <3>1
    <3>5. r = "success" => settled'[t] = 1
      BY ONLY <1>9, <3>1
    <3> QED BY ONLY <3>3, <3>4, <3>5
  <2>5. job'[t] = "answered"
        /\ (receipt'[t] = "success" => settled'[t] = 1)
        /\ state'[t] # "completed" /\ (awaiting'[t] = "unpaid" => settled'[t] = 0)
    BY <1>4, <1>5, <2>2, <2>3
  <2> QED BY ONLY <2>1, <2>4, <2>5 DEF SettleInv
<1> QED
  BY <1>3, <1>4, <1>5, <1>6, <1>10, <1>11 DEF Same, TaskInv

(* Every action of a task keeps the types and that task's invariant.       *)
LEMMA TaskStep ==
    ASSUME A2aTypeOK, NEW t \in Tasks, TaskInv(t), TaskAction(t)
    PROVE  A2aTypeOK' /\ TaskInv(t)' /\ \A u \in Tasks \ {t} : Same(u)
<1> DEFINE Goal == A2aTypeOK' /\ TaskInv(t)' /\ \A u \in Tasks \ {t} : Same(u)
<1>1. CASE NewTask(t)
  BY <1>1, CallKeeps DEF NewTask, TaskInv, CallInv
<1>2. CASE SubmitPayment(t)
  BY <1>2, CallKeeps DEF SubmitPayment, TaskInv, CallInv
<1>3. CASE Decline(t)
  BY <1>3, EndedKeeps DEF Decline, Receipts
<1>4. CASE Cancel(t)
  <2>1. receipt[t] \in Receipts
    BY DEF A2aTypeOK
  <2> QED BY <1>4, <2>1, EndedKeeps DEF Cancel
<1>5. CASE Handler(t)
  <2>1. /\ answer[t].kind \in Kinds /\ answer[t].receipt \in Receipts
    BY DEF A2aTypeOK, Answer
  <2>2. /\ {"none", "payment-required", "payment-failed", "payment-completed"} \subseteq Notes
        /\ "none" \in Receipts
        /\ \A r : PaymentNote(r) \in Notes
    BY DEF Notes, Receipts, PaymentNote
  <2>3. /\ awaiting[t] # "none" /\ UNCHANGED guardVars
        /\ awaiting' = [awaiting EXCEPT ![t] = "none"]
    BY <1>5 DEF Handler, OnTerms, OnPaymentRefused, OnError, OnVerdict, OnUnusable, GiveUp, Answered
  <2>4. CASE GiveUp(t)
    BY <2>2, <2>3, <2>4, HandledKeeps DEF GiveUp
  <2>5. CASE Answered(t) /\ ~ GiveUp(t)
    <3>1. job[t] = "answered" /\ (answer[t].receipt = "success" => settled[t] = 1)
      BY <2>5 DEF Answered, TaskInv, SettleInv
    <3>2. CASE OnTerms(t)
      <4>1. settled[t] = 0
        BY <3>1, <3>2 DEF OnTerms, TaskInv, SettleInv
      <4> DEFINE n == IF awaiting[t] = "paid" THEN "payment-failed" ELSE "payment-required"
      <4>2. n \in Notes /\ Status(t, "input-required", n, answer[t].receipt)
        BY <2>2, <3>2 DEF OnTerms
      <4> HIDE DEF n
      <4> QED BY <2>1, <2>3, <3>1, <4>1, <4>2, HandledKeeps
    <3>3. CASE OnPaymentRefused(t)
      BY <2>1, <2>2, <2>3, <3>1, <3>3, HandledKeeps DEF OnPaymentRefused
    <3>4. CASE OnError(t)
      <4>1. CASE awaiting[t] = "unpaid"
        BY <2>2, <2>3, <3>4, <4>1, HandledKeeps DEF OnError
      <4>2. CASE awaiting[t] # "unpaid"
        BY <2>1, <2>2, <2>3, <3>1, <3>4, <4>2, HandledKeeps DEF OnError
      <4> QED BY <4>1, <4>2
    <3>5. CASE OnVerdict(t)
      BY <2>1, <2>2, <2>3, <3>1, <3>5, HandledKeeps DEF OnVerdict, PaidVerdict
    <3>6. CASE OnUnusable(t)
      BY <2>1, <2>2, <2>3, <3>1, <3>6, HandledKeeps DEF OnUnusable
    <3> QED BY <1>5, <2>5, <3>2, <3>3, <3>4, <3>5, <3>6 DEF Handler
  <2> QED
    BY <1>5, <2>4, <2>5 DEF Handler, OnTerms, OnPaymentRefused, OnError, OnVerdict, OnUnusable
<1>6. CASE GuardChallenges(t)
  <2>1. job[t] = "challenging" /\ settled[t] = 0
    BY <1>6 DEF GuardChallenges, TaskInv, SettleInv
  <2>2. /\ {"terms", "error", "garbled"} \in SUBSET Kinds /\ {"none"} \in SUBSET Receipts
        /\ Reply(t, {"terms", "error", "garbled"}, {"none"})
    BY <1>6 DEF GuardChallenges, Kinds, Receipts
  <2>3. "success" \notin {"none"} /\ settled[t] # 1
    BY <2>1
  <2> QED BY <2>1, <2>2, <2>3, ReplyKeeps
<1>7. CASE GuardRefusesPayment(t)
  <2>1. job[t] = "paying" /\ settled[t] = 0
    BY <1>7 DEF GuardRefusesPayment, TaskInv, SettleInv
  <2>2. /\ {"terms", "no terms", "error", "garbled"} \in SUBSET Kinds
        /\ {"none", "failed"} \in SUBSET Receipts
        /\ Reply(t, {"terms", "no terms", "error", "garbled"}, {"none", "failed"})
    BY <1>7 DEF GuardRefusesPayment, Kinds, Receipts
  <2>3. "success" \notin {"none", "failed"} /\ settled[t] # 1
    BY <2>1
  <2> QED BY <2>1, <2>2, <2>3, ReplyKeeps
<1>8. CASE GuardSettles(t)
  <2>1. job[t] = "paying" /\ settled[t] = 0
    BY <1>8 DEF GuardSettles, TaskInv, SettleInv
  <2>2. /\ settled' \in [Tasks -> Nat] /\ settled'[t] = 1
        /\ \A u \in Tasks \ {t} : settled'[u] = settled[u]
    BY <1>8, <2>1 DEF GuardSettles, A2aTypeOK
  <2>3. /\ job' \in [Tasks -> {"none", "challenging", "paying", "reviewing", "answered"}]
        /\ job'[t] = "reviewing" /\ \A u \in Tasks \ {t} : job'[u] = job[u]
    BY <1>8 DEF GuardSettles, A2aTypeOK
  <2>4. /\ state' = state /\ note' = note /\ receipt' = receipt
        /\ awaiting' = awaiting /\ answer' = answer
    BY <1>8 DEF GuardSettles, taskVars
  <2>5. A2aTypeOK'
    BY <2>2, <2>3, <2>4 DEF A2aTypeOK
  <2>6. TaskInv(t)'
    BY <2>1, <2>2, <2>3, <2>4 DEF TaskInv, CallInv, SettleInv
  <2> QED BY <2>2, <2>3, <2>4, <2>5, <2>6 DEF Same
<1>9. CASE GuardReviews(t)
  <2>1. job[t] = "reviewing" /\ settled[t] = 1
    BY <1>9 DEF GuardReviews, TaskInv, SettleInv
  <2>2. /\ {"verdict", "stored verdict", "error", "garbled"} \in SUBSET Kinds
        /\ {"error", "garbled"} \in SUBSET Kinds
        /\ {"success"} \in SUBSET Receipts /\ {"none"} \in SUBSET Receipts
    BY DEF Kinds, Receipts
  <2>3. CASE Reply(t, {"verdict", "stored verdict", "error", "garbled"}, {"success"})
    BY <2>1, <2>2, <2>3, ReplyKeeps
  <2>4. CASE Reply(t, {"error", "garbled"}, {"none"})
    BY <2>1, <2>2, <2>4, ReplyKeeps
  <2> QED BY <1>9, <2>3, <2>4 DEF GuardReviews
<1> QED
  BY <1>1, <1>2, <1>3, <1>4, <1>5, <1>6, <1>7, <1>8, <1>9 DEF TaskAction

(* A restart empties the map and forgets who waits, not what was settled.  *)
LEMMA RestartKeeps ==
    ASSUME A2aInductive, Restart
    PROVE  A2aInductive'
<1>1. /\ awaiting' \in [Tasks -> {"none", "unpaid", "paid"}]
      /\ job' = job /\ answer' = answer /\ settled' = settled
      /\ note' \in [Tasks -> Notes] /\ receipt' \in [Tasks -> Receipts]
      /\ \A t \in Tasks : awaiting'[t] = "none" /\ receipt'[t] = "none"
  BY DEF Restart, guardVars, Notes, Receipts
<1>2. /\ state' \in [Tasks -> States]
      /\ \A t \in Tasks :
           state'[t] = "gone" \/ (state'[t] = "none" /\ state[t] = "none")
  BY DEF Restart, InMap, A2aInductive, A2aTypeOK, States
<1>3. A2aTypeOK'
  BY <1>1, <1>2 DEF A2aInductive, A2aTypeOK
<1>4. ASSUME NEW t \in Tasks PROVE CallInv(t)' /\ SettleInv(t)'
  BY <1>1, <1>2 DEF A2aInductive, CallInv, SettleInv
<1> QED
  BY <1>3, <1>4 DEF A2aInductive

(* Who waits, who pays and who is settled: A2aInductive holds throughout.  *)
THEOREM A2aInvariant == A2aSpec => []A2aInductive
<1>1. A2aInit => A2aInductive
  BY DEF A2aInit, A2aInductive, A2aTypeOK, CallInv, SettleInv, States, Notes, Receipts,
         NoAnswer, Answer, Kinds, Terminal
<1>2. A2aInductive /\ [A2aNext]_a2aVars => A2aInductive'
  <2> SUFFICES ASSUME A2aInductive, [A2aNext]_a2aVars PROVE A2aInductive'
    OBVIOUS
  <2>1. ASSUME NEW t \in Tasks, TaskAction(t) PROVE A2aInductive'
    <3>1. A2aTypeOK /\ \A u \in Tasks : TaskInv(u)
      BY DEF A2aInductive, TaskInv
    <3>2. A2aTypeOK' /\ TaskInv(t)' /\ \A u \in Tasks \ {t} : Same(u)
      BY <2>1, <3>1, TaskStep
    <3>3. ASSUME NEW u \in Tasks PROVE TaskInv(u)'
      <4>1. CASE u = t
        BY <3>2, <4>1
      <4>2. CASE u # t
        BY <3>1, <3>2, <4>2, TaskFrame
      <4> QED BY <4>1, <4>2
    <3> QED BY <3>2, <3>3 DEF A2aInductive, TaskInv
  <2>2. CASE Restart
    BY <2>2, RestartKeeps
  <2>3. CASE UNCHANGED a2aVars
    BY <2>3 DEF a2aVars, taskVars, guardVars, A2aInductive, A2aTypeOK, CallInv, SettleInv
  <2> QED
    BY <2>1, <2>2, <2>3 DEF A2aNext, TaskAction
<1> QED
  BY <1>1, <1>2, PTL DEF A2aSpec

(* However often its client submits, a task is settled at most once.       *)
THEOREM PaysOnce == A2aSpec => []OnePaymentPerTask
<1>1. A2aInductive => OnePaymentPerTask
  BY DEF A2aInductive, SettleInv, OnePaymentPerTask
<1> QED
  BY <1>1, A2aInvariant, PTL

(* Only unpaid tasks are ever canceled.                                    *)
THEOREM CancelsOnlyUnpaid == A2aSpec => []CanceledIsUnpaid
<1>1. A2aInductive => CanceledIsUnpaid
  BY DEF A2aInductive, CallInv, CanceledIsUnpaid
<1> QED
  BY <1>1, A2aInvariant, PTL

(* A completed task was settled and its verdict quotes that settlement.    *)
THEOREM ShowsOnlyTrueReceipts == A2aSpec => []ReceiptsAreTrue
<1>1. A2aInductive => ReceiptsAreTrue
  BY DEF A2aInductive, SettleInv, ReceiptsAreTrue
<1> QED
  BY <1>1, A2aInvariant, PTL

(* What a client was told at the end of its task is never taken back.      *)
THEOREM EndsForGood == A2aSpec => TerminalIsFinal
<1>1. A2aInductive /\ [A2aNext]_a2aVars =>
        \A t \in Tasks : state[t] \in Terminal =>
          Restart \/ (state'[t] = state[t] /\ note'[t] = note[t] /\ receipt'[t] = receipt[t])
  <2> SUFFICES ASSUME A2aInductive, [A2aNext]_a2aVars,
                      NEW t \in Tasks, state[t] \in Terminal, ~ Restart
               PROVE  state'[t] = state[t] /\ note'[t] = note[t] /\ receipt'[t] = receipt[t]
    OBVIOUS
  <2>1. awaiting[t] = "none" /\ state[t] \notin {"none", "input-required"}
    BY DEF A2aInductive, CallInv, Terminal
  <2>2. ASSUME NEW u \in Tasks, TaskAction(u)
        PROVE  state'[t] = state[t] /\ note'[t] = note[t] /\ receipt'[t] = receipt[t]
    <3>1. CASE u # t
      <4>1. A2aTypeOK /\ TaskInv(u)
        BY DEF A2aInductive, TaskInv
      <4> QED BY <2>2, <3>1, <4>1, TaskStep DEF Same
    <3>2. CASE u = t
      <4>1. GuardChallenges(t) \/ GuardRefusesPayment(t) \/ GuardSettles(t) \/ GuardReviews(t)
        BY <2>1, <2>2, <3>2 DEF TaskAction, NewTask, SubmitPayment, Decline, Cancel, Handler,
           OnTerms, OnPaymentRefused, OnError, OnVerdict, OnUnusable, GiveUp, Answered
      <4> QED
        BY <4>1 DEF GuardChallenges, GuardRefusesPayment, GuardSettles, GuardReviews, Reply, taskVars
    <3> QED BY <3>1, <3>2
  <2>3. CASE UNCHANGED a2aVars
    BY <2>3 DEF a2aVars, taskVars
  <2> QED
    BY <2>2, <2>3 DEF A2aNext, TaskAction
<1> QED
  BY <1>1, A2aInvariant, PTL DEF A2aSpec, TerminalIsFinal
(* A task that acts writes only itself; a step of A2aNext is such a task's *)
(* action, a restart, or nothing.                                          *)
LEMMA OneTaskActs ==
    ASSUME A2aInductive, [A2aNext]_a2aVars, ~ Restart, NEW t \in Tasks
    PROVE  TaskAction(t) \/ Same(t)
<1>1. ASSUME NEW u \in Tasks, TaskAction(u), u # t PROVE Same(t)
  <2>1. A2aTypeOK /\ TaskInv(u)
    BY DEF A2aInductive, TaskInv
  <2> QED BY <1>1, <2>1, TaskStep
<1>2. CASE UNCHANGED a2aVars
  BY <1>2 DEF a2aVars, taskVars, guardVars, Same
<1> QED
  BY <1>1, <1>2 DEF A2aNext, TaskAction

(* The handler that learns of a settlement passes the receipt on, whatever *)
(* else the answer says: a guard that settled asks for no money, and only  *)
(* a call that carried a payment is ever settled.                          *)
THEOREM KeepsReceipts == A2aSpec => ReceiptsAreKept
<1> DEFINE Kept(t) == awaiting[t] # "none" /\ job[t] = "answered"
                      /\ answer[t].receipt = "success" /\ awaiting'[t] = "none"
                      => Restart \/ (receipt'[t] = "success" /\ note'[t] = "payment-completed")
<1>1. A2aInductive /\ [A2aNext]_a2aVars => \A t \in Tasks : Kept(t)
  <2> SUFFICES ASSUME A2aInductive, [A2aNext]_a2aVars, ~ Restart, NEW t \in Tasks,
                      awaiting[t] # "none", job[t] = "answered",
                      answer[t].receipt = "success", awaiting'[t] = "none"
               PROVE  receipt'[t] = "success" /\ note'[t] = "payment-completed"
    OBVIOUS
  <2> HIDE DEF Kept
  <2>0. A2aTypeOK /\ CallInv(t) /\ SettleInv(t)
    BY DEF A2aInductive
  <2>1. settled[t] # 0
    <3>1. settled[t] = 1
      BY <2>0 DEF SettleInv
    <3> QED BY ONLY <3>1
  <2>2. answer[t].kind \notin {"terms", "no terms"} /\ awaiting[t] = "paid"
    <3>1. /\ answer[t].kind \in {"terms", "no terms"} => settled[t] = 0
          /\ awaiting[t] = "unpaid" => settled[t] = 0
      BY <2>0 DEF SettleInv
    <3>2. awaiting[t] \in {"none", "unpaid", "paid"}
      BY <2>0 DEF A2aTypeOK
    <3> QED BY <2>1, <3>1, <3>2, Zenon
  <2>3. TaskAction(t)
    BY OneTaskActs DEF Same
  <2>4. state[t] = "working" /\ A2aTypeOK
    BY <2>0 DEF CallInv
  <2>5. OnError(t) \/ OnVerdict(t) \/ OnUnusable(t)
    BY <2>2, <2>3, <2>4 DEF TaskAction, NewTask, SubmitPayment, Decline, Cancel, Handler,
       OnTerms, OnPaymentRefused, GiveUp, GuardChallenges, GuardRefusesPayment, GuardSettles,
       GuardReviews
  <2>6. PICK s \in {"failed", "completed"} : Status(t, s, "payment-completed", "success")
    BY <2>2, <2>5 DEF OnError, OnVerdict, OnUnusable, PaymentNote
  <2> QED
    BY <2>4, <2>6 DEF Status, A2aTypeOK
<1> QED
  BY <1>1, A2aInvariant, PTL DEF A2aSpec, ReceiptsAreKept

(* A task whose payment was settled, or is still with the guard, stays in  *)
(* the map until the adapter is restarted.                                 *)
THEOREM KeepsPaidTasks == A2aSpec => PaidTaskIsKept
<1> DEFINE Paid(t) == settled[t] > 0 \/ job[t] \in {"paying", "reviewing"}
<1>1. A2aInductive /\ [A2aNext]_a2aVars =>
        \A t \in Tasks : InMap(t) /\ Paid(t) => InMap(t)' \/ Restart
  <2> SUFFICES ASSUME A2aInductive, [A2aNext]_a2aVars, ~ Restart, NEW t \in Tasks,
                      InMap(t), Paid(t)
               PROVE  InMap(t)'
    OBVIOUS
  <2>0. A2aTypeOK /\ CallInv(t) /\ SettleInv(t)
    BY DEF A2aInductive
  <2>1. awaiting[t] # "unpaid"
    <3>1. CASE job[t] \in {"paying", "reviewing"}
      BY <2>0, <3>1 DEF CallInv
    <3>2. CASE settled[t] > 0
      <4>1. settled[t] # 0
        BY ONLY <3>2
      <4> QED BY <2>0, <4>1, Zenon DEF SettleInv
    <3> QED BY <3>1, <3>2
  <2>2. CASE state'[t] = state[t]
    BY <2>2 DEF InMap
  <2>3. CASE TaskAction(t) /\ state'[t] # state[t]
    <3>1. NewTask(t) \/ SubmitPayment(t) \/ Decline(t) \/ Cancel(t) \/ Handler(t)
      BY <2>3 DEF TaskAction, GuardChallenges, GuardRefusesPayment, GuardSettles, GuardReviews,
         Reply, taskVars
    <3>2. PICK s, n, r : s \in States \ {"none", "gone"} /\ Status(t, s, n, r)
      <4>1. {"working", "input-required", "canceled", "failed", "completed"}
              \subseteq States \ {"none", "gone"}
        BY DEF States, Terminal
      <4> QED
        BY <2>1, <3>1, <4>1 DEF NewTask, SubmitPayment, CallGuard, Decline, Cancel, Handler,
           OnTerms, OnPaymentRefused, OnError, OnVerdict, OnUnusable, GiveUp
    <3> QED
      BY <2>0, <3>2 DEF Status, A2aTypeOK, InMap
  <2> QED
    BY <2>2, <2>3, OneTaskActs DEF Same
<1> QED
  BY <1>1, A2aInvariant, PTL DEF A2aSpec, PaidTaskIsKept
=============================================================================
