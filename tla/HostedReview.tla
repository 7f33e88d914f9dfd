---------------------------- MODULE HostedReview ----------------------------
(***************************************************************************)
(* The client that has a scheduled transfer reviewed by the guard of its   *)
(* origin (src/scripts/hosted-review.ts), once for a transfer in policy    *)
(* ("approved") or once for one that is not ("refused"), reads what became *)
(* of the schedule from the mirror node (src/src/evidence-links.ts) and    *)
(* writes an event for the evidence manifest.  Together with the clients   *)
(* of Purchases and with the stranger of PaymentGate it makes up the       *)
(* paid service; one of them runs.                                         *)
(***************************************************************************)
EXTENDS Purchases

VARIABLES
    schedule,  \* as consensus holds it and as the mirror shows it
    event      \* the evidence event written, if any

hostedVars == <<schedule, event>>
vars == <<purchaseVars, hostedVars>>

Reviewer == script \in {"approved", "refused"}
ReviewedBody == IF script = "approved" THEN BodyOf[1] ELSE BodyOf[2]

Init ==
    /\ PurchaseInit
    /\ script \in {"stranger", "guarded", "hts", "approved", "refused"}
    /\ phase = IF Buyer THEN "propose" ELSE "create"
    /\ schedule = [made |-> FALSE, executed |-> FALSE, shown |-> "none"]
    /\ event = [outcome |-> "none", amount |-> 0, fee |-> 0]

Fails == Reviewer /\ phase' = "failed"
Goes(from, to) == Reviewer /\ phase = from /\ phase' = to

(* The agent, by its signature on it, publishes the schedule.              *)
CreateSchedule ==
    /\ Goes("create", "evidence")
    /\ schedule' = [schedule EXCEPT !.made = TRUE]
    /\ UNCHANGED <<gateVars, script, turn, transfers, observed, claims, event>>

(* assertPendingScheduleEvidence, of a schedule the agent signed.          *)
PendingShown == schedule.shown = "pending"

AwaitPending ==
    /\ Goes("evidence", "ask") /\ PendingShown
    /\ UNCHANGED <<gateVars, script, turn, transfers, observed, claims, hostedVars>>

AskReview ==
    /\ Goes("ask", "challenged")
    /\ call' = Call("/review", ReviewedBody, 0)
    /\ UNCHANGED <<startVars, fees, worked, script, turn, transfers, observed, claims, hostedVars>>

(* Fault: the amount of the quote is only held against a cap.              *)
QuoteWithinCap == Terms("/review", call.body).amount <= FeeCap

QuoteIsThePrice == Terms("/review", call.body).amount = Price

OnReviewChallenge ==
    /\ Reviewer /\ AtAnswer("challenged")
    /\ IF call.status = 402 /\ QuoteIsThePrice
       THEN Pay("/review") /\ phase' = "paid"
       ELSE phase' = "failed" /\ call' = NoCall /\ UNCHANGED fees
    /\ UNCHANGED <<startVars, worked, script, turn, transfers, observed, claims, hostedVars>>

Said(o) == CASE o = "approved" -> "approved" [] o = "none" -> "none" [] OTHER -> "refused"

(* The settlement, the schedule and the mandate are those of the call, and *)
(* the outcome is the one asked for.                                       *)
OnReviewAnswer ==
    /\ Reviewer /\ AtAnswer("paid")
    /\ Observe([Receipted EXCEPT !.review = Said(call.outcome)])
    /\ phase' = IF Said(call.outcome) = script THEN "outcome" ELSE "failed"
    /\ call' = NoCall
    /\ UNCHANGED <<startVars, fees, worked, script, turn, transfers, claims, hostedVars>>

(* assertExecutedScheduleEvidence, or assertPendingScheduleEvidence again. *)
OutcomeShown ==
    schedule.shown = IF script = "approved" THEN "executed" ELSE "pending"

WriteEvent ==
    /\ Goes("outcome", "passed") /\ OutcomeShown
    /\ event' = [outcome |-> Seen.review, amount |-> Price, fee |-> Seen.fee]
    /\ UNCHANGED <<gateVars, script, turn, transfers, observed, claims, schedule>>

(* The creation fails, the mirror does or shows too little in twenty       *)
(* looks, or it shows what it must not.                                    *)
EvidenceMissing ==
    /\ Fails /\ phase \in {"create", "evidence", "ask", "outcome"}
    /\ UNCHANGED <<gateVars, script, turn, transfers, observed, claims, hostedVars>>

Review ==
    \/ CreateSchedule \/ AwaitPending \/ AskReview \/ OnReviewChallenge
    \/ OnReviewAnswer \/ WriteEvent \/ EvidenceMissing

----------------------------------------------------------------------------
(* The guard decides; its signature executes the schedule of a review.     *)
DecideOnCall(outcome) ==
    /\ Decide(outcome)
    /\ schedule' = [schedule EXCEPT !.executed =
                        @ \/ (Reviewer /\ schedule.made /\ outcome = "approved")]
    /\ UNCHANGED <<clientVars, event>>

IndexSchedule ==
    /\ schedule.made
    /\ schedule' = [schedule EXCEPT !.shown = IF schedule.executed THEN "executed" ELSE "pending"]
    /\ UNCHANGED <<gateVars, clientVars, event>>

Guard == (Handle /\ UNCHANGED <<clientVars, hostedVars>>) \/ \E o \in Outcomes : DecideOnCall(o)

Next ==
    \/ ServiceNext /\ UNCHANGED <<clientVars, hostedVars>>
    \/ \E o \in Outcomes : DecideOnCall(o)
    \/ script = "stranger" /\ StrangerCalls /\ UNCHANGED <<clientVars, hostedVars>>
    \/ (Script \/ Network) /\ UNCHANGED hostedVars
    \/ Review
    \/ IndexSchedule

(* A client runs on as long as it has something to do; a call ends, by the *)
(* client's own timeouts at the latest; time passes and the mirror catches *)
(* up.                                                                     *)
Fairness ==
    /\ WF_vars(Script /\ UNCHANGED hostedVars)
    /\ WF_vars(Review)
    /\ WF_vars(Guard)
    /\ WF_vars(Tick /\ UNCHANGED hostedVars)
    /\ WF_vars((\E k \in 1..2 : IndexTransfer(k)) /\ UNCHANGED hostedVars)

Spec == Init /\ [][Next]_vars /\ Fairness

----------------------------------------------------------------------------
(* A client that loses an answer, even the one it paid for, signs no       *)
(* second fee for the same proposal, which could settle as well; what it   *)
(* signs never exceeds its cap, whatever the guard is configured to ask.   *)
SpendIsBounded ==
    script # "stranger" =>
        \A i \in DOMAIN fees :
            /\ fees[i].payment.amount <= FeeCap
            /\ \A j \in DOMAIN fees : fees[i].purchase = fees[j].purchase => i = j

(* What the scripts report is so and stays so, although the mirror lags,   *)
(* settlements come late and answers are lost: a fee or a purchase they    *)
(* show was executed, a transfer they call absent never will be, and a     *)
(* pass means one purchase, no other, and two fees.                        *)
ReportIsTrue ==
    /\ \A k \in 1..2 :
        /\ <<"fee", k>> \in claims => \E i \in DOMAIN fees : fees[i].purchase = k /\ Paid(i)
        /\ <<"bought", k>> \in claims => Executed(k)
        /\ <<"absent", k>> \in claims => ~ Executed(k)
    /\ Buyer /\ phase = "passed" =>
        /\ Executed(1) /\ ~ Executed(2)
        /\ Len(fees) = 2 /\ Paid(1) /\ Paid(2)

(* An evidence event is written for a fee of exactly the amount it states, *)
(* and its outcome is what consensus has made and will make of the         *)
(* schedule.                                                               *)
EventIsTrue ==
    event.outcome # "none" =>
        /\ event.fee # 0 /\ Paid(event.fee)
        /\ fees[event.fee].payment.amount = event.amount
        /\ schedule.executed <=> event.outcome = "approved"

(* A client comes to an end, whatever is lost.                             *)
ScriptEnds == script # "stranger" ~> phase \in Ended

(* The guarded purchase accepts the fee it paid as it was quoted, within   *)
(* the bounds it checked: "/countersign is metered on decoded bytes and    *)
(* transfer adjustments, so the fee is not a constant"                     *)
(* (src/scripts/guarded-purchase.ts:284).                                  *)
MeteredFeeAccepted ==
    phase = "inexact" =>
        ~ (/\ Paid(Seen.fee)
           /\ fees[Seen.fee].payment.amount = Terms("/countersign", BodyOf[turn]).amount)
=============================================================================
