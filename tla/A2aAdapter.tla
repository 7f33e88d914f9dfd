---------------------------- MODULE A2aAdapter ----------------------------
(***************************************************************************)
(* The A2A adapter of src/src/a2a.ts: a map of review tasks, each settled  *)
(* by calls to the guard's POST /review.  A message that reaches the guard *)
(* awaits its answer for at most two minutes; in the meantime other        *)
(* messages, cancellations and a restart arrive, and a guard that was      *)
(* given up on goes on and may settle the payment later.                   *)
(*                                                                         *)
(* Messages that are refused without touching the map (unknown task, other *)
(* context, changed request, missing extension, full map, terminal task,   *)
(* task at work) leave the state as it is and are not actions.             *)
(***************************************************************************)
EXTENDS Naturals, FiniteSets

CONSTANTS
    Tasks,       \* task IDs: random, never used twice
    MaxTasks     \* capacity of the map (MAX_TASKS, 256)

ASSUME A2aConstants == MaxTasks \in Nat \ {0}

VARIABLES
    state,       \* status.state of a task; "none" before, "gone" after its time in the map
    note,        \* metadata x402.payment.status
    receipt,     \* the settlement receipt in metadata x402.payment.receipts
    awaiting,    \* the handler's call to the guard: none, without or with a payment
    job,         \* what the guard does with the latest call
    answer,      \* the guard's answer on its way
    settled      \* how many payments of the task were settled

taskVars == <<state, note, receipt>>
guardVars == <<job, answer, settled>>
a2aVars == <<taskVars, awaiting, guardVars>>

Terminal == {"completed", "failed", "canceled"}
States == {"none", "working", "input-required", "gone"} \cup Terminal
Notes == {"none", "payment-required", "payment-failed", "payment-completed", "payment-rejected"}
Receipts == {"none", "failed", "success"}

(* 402 with and without terms, another error status, a verdict for the     *)
(* payment just made or for an earlier one, an unreadable answer.          *)
Kinds == {"terms", "no terms", "error", "verdict", "stored verdict", "garbled"}
Answer == [kind : Kinds, receipt : Receipts]
NoAnswer == [kind |-> "garbled", receipt |-> "none"]

InMap(t) == state[t] \notin {"none", "gone"}

A2aTypeOK ==
    /\ state \in [Tasks -> States]
    /\ note \in [Tasks -> Notes]
    /\ receipt \in [Tasks -> Receipts]
    /\ awaiting \in [Tasks -> {"none", "unpaid", "paid"}]
    /\ job \in [Tasks -> {"none", "challenging", "paying", "reviewing", "answered"}]
    /\ answer \in [Tasks -> Answer]
    /\ settled \in [Tasks -> Nat]

A2aInit ==
    /\ state = [t \in Tasks |-> "none"]
    /\ note = [t \in Tasks |-> "none"]
    /\ receipt = [t \in Tasks |-> "none"]
    /\ awaiting = [t \in Tasks |-> "none"]
    /\ job = [t \in Tasks |-> "none"]
    /\ answer = [t \in Tasks |-> NoAnswer]
    /\ settled = [t \in Tasks |-> 0]

----------------------------------------------------------------------------
Status(t, s, n, r) ==
    /\ state' = [state EXCEPT ![t] = s]
    /\ note' = [note EXCEPT ![t] = n]
    /\ receipt' = [receipt EXCEPT ![t] = r]

(* status(task, "working") and the fetch of /review, in one go.            *)
CallGuard(t, with, work) ==
    /\ Status(t, "working", "none", "none")
    /\ awaiting' = [awaiting EXCEPT ![t] = with]
    /\ job' = [job EXCEPT ![t] = work]
    /\ UNCHANGED <<answer, settled>>

(* message/send without a task.                                            *)
NewTask(t) ==
    /\ state[t] = "none"
    /\ Cardinality({u \in Tasks : InMap(u)}) < MaxTasks
    /\ CallGuard(t, "unpaid", "challenging")

(* message/send with a task and payment-submitted.                         *)
(* Fault: a failed task may be paid again.                                 *)
SubmitAgain(t) ==
    /\ state[t] \in {"input-required", "failed"}
    /\ awaiting[t] = "none"
    /\ CallGuard(t, "paid", "paying")

SubmitPayment(t) ==
    /\ state[t] = "input-required"
    /\ CallGuard(t, "paid", "paying")

(* message/send with payment-rejected.                                     *)
Decline(t) ==
    /\ state[t] = "input-required"
    /\ Status(t, "canceled", "payment-rejected", "none")
    /\ UNCHANGED <<awaiting, guardVars>>

(* tasks/cancel.                                                           *)
Cancel(t) ==
    /\ state[t] = "input-required"
    /\ Status(t, "canceled", "payment-rejected", receipt[t])
    /\ UNCHANGED <<awaiting, guardVars>>

----------------------------------------------------------------------------
(* The adapter's handler gets an answer, or none within two minutes.       *)
Answered(t) ==
    /\ awaiting[t] # "none" /\ job[t] = "answered"
    /\ awaiting' = [awaiting EXCEPT ![t] = "none"]
    /\ UNCHANGED guardVars

PaymentNote(r) == IF r = "success" THEN "payment-completed" ELSE "payment-failed"

OnTerms(t) ==
    /\ Answered(t)
    /\ answer[t].kind = "terms"
    /\ Status(t, "input-required",
              IF awaiting[t] = "paid" THEN "payment-failed" ELSE "payment-required",
              answer[t].receipt)

OnPaymentRefused(t) ==
    /\ Answered(t)
    /\ answer[t].kind = "no terms" /\ awaiting[t] = "paid"
    /\ Status(t, "failed", "payment-failed", answer[t].receipt)

(* Fault: whatever the guard rejects is forgotten.                         *)
OnErrorForgets(t) ==
    /\ Answered(t)
    /\ answer[t].kind = "error"
    /\ Status(t, "gone", "none", "none")

(* A request that the guard rejects before asking for money is forgotten.  *)
OnError(t) ==
    /\ Answered(t)
    /\ answer[t].kind = "error"
    /\ IF awaiting[t] = "unpaid" THEN Status(t, "gone", "none", "none")
       ELSE Status(t, "failed", PaymentNote(answer[t].receipt), answer[t].receipt)

(* The verdict must quote the settlement of this very payment.             *)
PaidVerdict(t) ==
    awaiting[t] = "paid" /\ answer[t].kind = "verdict" /\ answer[t].receipt = "success"

(* Fault: any verdict will do.                                             *)
OnAnyVerdict(t) ==
    /\ Answered(t)
    /\ answer[t].kind \in {"verdict", "stored verdict"}
    /\ Status(t, "completed", "payment-completed", answer[t].receipt)

OnVerdict(t) ==
    /\ Answered(t)
    /\ PaidVerdict(t)
    /\ Status(t, "completed", "payment-completed", answer[t].receipt)

(* Fault: the receipt that came with an unusable answer is dropped.        *)
OnUnusableDrops(t) ==
    /\ Answered(t)
    /\ \/ answer[t].kind \in {"garbled", "stored verdict"}
       \/ answer[t].kind = "no terms" /\ awaiting[t] = "unpaid"
       \/ answer[t].kind = "verdict" /\ ~ PaidVerdict(t)
    /\ Status(t, "failed", "payment-failed", "none")

(* Everything else ends in the catch clause, with the receipt if it came.  *)
OnUnusable(t) ==
    /\ Answered(t)
    /\ \/ answer[t].kind \in {"garbled", "stored verdict"}
       \/ answer[t].kind = "no terms" /\ awaiting[t] = "unpaid"
       \/ answer[t].kind = "verdict" /\ ~ PaidVerdict(t)
    /\ Status(t, "failed", PaymentNote(answer[t].receipt), answer[t].receipt)

(* Fault: the fetch has no timeout.                                        *)
GiveUpOnAnswer(t) ==
    /\ awaiting[t] # "none" /\ job[t] = "answered"
    /\ awaiting' = [awaiting EXCEPT ![t] = "none"]
    /\ Status(t, "failed", "payment-failed", "none")
    /\ UNCHANGED guardVars

(* The fetch is aborted before the guard answers; the guard does not       *)
(* notice.  An answer that gets lost on its way is a "garbled" one.        *)
GiveUp(t) ==
    /\ awaiting[t] # "none" /\ job[t] # "answered"
    /\ awaiting' = [awaiting EXCEPT ![t] = "none"]
    /\ Status(t, "failed", "payment-failed", "none")
    /\ UNCHANGED guardVars

(* Tasks live in memory only.                                              *)
Restart ==
    /\ \E t \in Tasks : InMap(t)
    /\ state' = [t \in Tasks |-> IF InMap(t) THEN "gone" ELSE state[t]]
    /\ note' = [t \in Tasks |-> "none"]
    /\ receipt' = [t \in Tasks |-> "none"]
    /\ awaiting' = [t \in Tasks |-> "none"]
    /\ UNCHANGED guardVars

----------------------------------------------------------------------------
(* The guard, as far as the adapter can tell: it settles before it works,  *)
(* answers 402 only when it did not settle, and puts the receipt on every  *)
(* answer it gives after settling, unless it failed on the way there.      *)
Reply(t, kinds, receipts) ==
    /\ \E k \in kinds, r \in receipts : answer' = [answer EXCEPT ![t] = [kind |-> k, receipt |-> r]]
    /\ job' = [job EXCEPT ![t] = "answered"]
    /\ UNCHANGED <<taskVars, awaiting, settled>>

GuardChallenges(t) ==
    job[t] = "challenging" /\ Reply(t, {"terms", "error", "garbled"}, {"none"})

GuardRefusesPayment(t) ==
    /\ job[t] = "paying"
    /\ Reply(t, {"terms", "no terms", "error", "garbled"}, {"none", "failed"})

GuardSettles(t) ==
    /\ job[t] = "paying"
    /\ settled' = [settled EXCEPT ![t] = @ + 1]
    /\ job' = [job EXCEPT ![t] = "reviewing"]
    /\ UNCHANGED <<taskVars, awaiting, answer>>

GuardReviews(t) ==
    /\ job[t] = "reviewing"
    /\ \/ Reply(t, {"verdict", "stored verdict", "error", "garbled"}, {"success"})
       \/ Reply(t, {"error", "garbled"}, {"none"})

Handler(t) ==
    OnTerms(t) \/ OnPaymentRefused(t) \/ OnError(t) \/ OnVerdict(t) \/ OnUnusable(t) \/ GiveUp(t)

A2aNext ==
    \/ \E t \in Tasks :
        \/ NewTask(t) \/ SubmitPayment(t) \/ Decline(t) \/ Cancel(t)
        \/ Handler(t)
        \/ GuardChallenges(t) \/ GuardRefusesPayment(t) \/ GuardSettles(t) \/ GuardReviews(t)
    \/ Restart

A2aSpec == A2aInit /\ [][A2aNext]_a2aVars

(* The fetch has a timeout, so a handler that waits goes on.  Clients and  *)
(* the guard promise nothing.                                              *)
A2aFairSpec == A2aSpec /\ \A t \in Tasks : WF_a2aVars(Handler(t))

----------------------------------------------------------------------------
(* A task is settled at most once, however often its client submits, and   *)
(* although the guard may settle after the adapter gave up on it.          *)
OnePaymentPerTask == \A t \in Tasks : settled[t] <= 1

(* docs/A2A.md: "Only unpaid tasks can be canceled".  Neither paid nor     *)
(* being paid.                                                             *)
CanceledIsUnpaid ==
    \A t \in Tasks : state[t] = "canceled" => settled[t] = 0 /\ job[t] # "paying"

(* A completed task was settled, carries the receipt and a verdict that    *)
(* quotes it, not one stored for an earlier payment; a receipt of success  *)
(* is never made up.                                                       *)
ReceiptsAreTrue ==
    \A t \in Tasks :
        /\ state[t] = "completed" => receipt[t] = "success" /\ answer[t].kind = "verdict"
        /\ receipt[t] = "success" => settled[t] = 1

(* docs/A2A.md: "Failures retain available receipts".  A handler that got  *)
(* a receipt of success leaves a task that shows it.                       *)
ReceiptsAreKept ==
    [][\A t \in Tasks :
          awaiting[t] # "none" /\ job[t] = "answered" /\ answer[t].receipt = "success"
          /\ awaiting'[t] = "none"
          => Restart \/ (receipt'[t] = "success" /\ note'[t] = "payment-completed")]_a2aVars

(* A task whose payment was settled, or is still with the guard, stays in  *)
(* the map until the adapter is restarted, so that its client can find out *)
(* what became of the money.                                               *)
PaidTaskIsKept ==
    [][\A t \in Tasks :
          InMap(t) /\ (settled[t] > 0 \/ job[t] \in {"paying", "reviewing"}) =>
            InMap(t)' \/ Restart]_a2aVars

(* A terminal task never changes again (until the adapter is restarted).   *)
TerminalIsFinal ==
    [][\A t \in Tasks : state[t] \in Terminal =>
          Restart \/ (state'[t] = state[t] /\ note'[t] = note[t] /\ receipt'[t] = receipt[t])]_a2aVars

(* No task stays at work for ever.                                         *)
WorkEnds == \A t \in Tasks : state[t] = "working" ~> state[t] # "working"

(* The inductive invariant: who waits, who pays and who is settled.        *)
CallInv(t) ==
    /\ state[t] = "working" <=> awaiting[t] # "none"
    /\ awaiting[t] = "unpaid" => job[t] \in {"challenging", "answered"}
    /\ state[t] = "none" => job[t] = "none" /\ settled[t] = 0
    /\ state[t] \in {"input-required", "canceled"} =>
         settled[t] = 0 /\ job[t] \in {"answered"}
SettleInv(t) ==
    /\ job[t] \in {"none", "challenging", "paying"} => settled[t] = 0
    /\ job[t] = "reviewing" => settled[t] = 1
    /\ settled[t] <= 1
    /\ job[t] = "answered" /\ answer[t].kind \in {"terms", "no terms"} => settled[t] = 0
    /\ job[t] = "answered" /\ answer[t].receipt = "success" => settled[t] = 1
    /\ receipt[t] = "success" => settled[t] = 1
    /\ state[t] = "completed" =>
         receipt[t] = "success" /\ answer[t].kind = "verdict" /\ job[t] = "answered"
    /\ awaiting[t] = "unpaid" => settled[t] = 0

A2aInductive ==
    /\ A2aTypeOK
    /\ \A t \in Tasks : CallInv(t) /\ SettleInv(t)
============================================================================
