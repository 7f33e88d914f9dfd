---------------------------- MODULE PaymentGate ----------------------------
(***************************************************************************)
(* The payment gate (src/src/payment-gate.ts, src/src/payment-meter.ts) in *)
(* front of both paths of the guard, what a request goes through around it *)
(* (src/src/server.ts), the facilitator that settles a payment before any  *)
(* work is done, and the ledger that executes a settlement at most once.   *)
(* The caller is anybody, with any payment.                                *)
(*                                                                         *)
(* A payment is [form, payer, debit, signer, to, amount, terms].  The      *)
(* header of an unreadable one is no payment for x402 either; the bytes of *)
(* an opaque one are more than the gate can decode.  A body is [bytes,     *)
(* adjustments, decodes, inPolicy], what the meter and the rules see of a  *)
(* submitted transaction.                                                  *)
(***************************************************************************)
EXTENDS StartUp

CONSTANTS
    Bodies,
    Payments,   \* what a stranger may sign, but for its terms
    Calls       \* bound of the calls a stranger makes

ASSUME PaymentTypes ==
    /\ Bodies \subseteq [bytes : Nat, adjustments : Nat, decodes : BOOLEAN, inPolicy : BOOLEAN]
    /\ Payments \subseteq [form : {"plain", "opaque", "unreadable"}, payer : Names,
                          debit : Names, signer : Names, to : Names, short : Int]

VARIABLES
    call,   \* the request at the guard and its answer
    fees,   \* the payments signed so far and their fate
    worked  \* what was worked on, for which payment

gateVars == <<startVars, call, fees, worked>>

NoCall == [stage |-> "none"]
Kilobyte == 1024
NoMeter == [bytes |-> 0, adjustments |-> 0]

----------------------------------------------------------------------------
(* The quote.                                                              *)
Clamp(n, low, high) == IF n < low THEN low ELSE IF n > high THEN high ELSE n

Adjustments(b) == IF b.decodes THEN b.adjustments ELSE 0

ByteCharge(b, m) == (b.bytes * m.perKilobyte + (Kilobyte - 1)) \div Kilobyte

Quote(b, m) ==
    Clamp(m.base + ByteCharge(b, m) + Adjustments(b) * m.perAdjustment, m.min, m.max)

(* The requirements of a path, recomputed for the body of every request.   *)
Terms(path, b) ==
    IF path = "/review" THEN [amount |-> config.price, meter |-> NoMeter]
    ELSE [amount |-> Quote(b, config.meter),
          meter |-> [bytes |-> b.bytes, adjustments |-> Adjustments(b)]]

----------------------------------------------------------------------------
(* Fault: a payment that cannot be decoded is passed on.                   *)
UsesReadableIdentity(p, t) ==
    /\ p.form = "plain"
    /\ \/ p.payer = t.treasury \/ p.debit = t.treasury
       \/ p.signer \in {t.owner, t.agent, config.guard}

UsesTreasuryAuthorizationIdentity(p, t) ==
    \/ p.form = "opaque"
    \/ /\ p.form = "plain"
       /\ \/ p.payer = t.treasury \/ p.debit = t.treasury
          \/ p.signer \in {t.owner, t.agent, config.guard}

HasPayment == call.fee # 0
Payment == fees[call.fee].payment

(* A payment that is not accepted is as good as none.                      *)
AcceptedPayment ==
    /\ HasPayment
    /\ ~ \E t \in Tenants : UsesTreasuryAuthorizationIdentity(Payment, t)

(* Fault: the payment is held against the terms it names.                  *)
TermsAreItsOwn == TRUE

TermsMatch == Payment.terms = Terms(call.path, call.body)

(* The facilitator holds what the payment does against its terms.          *)
FacilitatorVerifies ==
    Payment.to = config.feeAccount /\ Payment.amount = Payment.terms.amount

PaymentVerified ==
    /\ AcceptedPayment
    /\ Payment.form # "unreadable"
    /\ TermsMatch
    /\ FacilitatorVerifies

----------------------------------------------------------------------------
GateInit ==
    /\ StartInit
    /\ call = NoCall
    /\ fees = <<>>
    /\ worked = <<>>

(* A request, with the i-th payment or, for 0, none.                       *)
Call(path, b, i) ==
    [stage |-> "received", path |-> path, body |-> b, fee |-> i,
     status |-> 0, receipt |-> FALSE, outcome |-> "none"]

Sign(p, k) == Append(fees, [payment |-> p, purchase |-> k, fate |-> "signed"])

Fate(i, f) == fees' = [fees EXCEPT ![i].fate = f]

Reply(s, r, o) ==
    call' = [call EXCEPT !.stage = "answered", !.status = s, !.receipt = r, !.outcome = o]

AtStage(s) == call.stage = s /\ boot = "serving"

(* The body, the tenant or the mandate's signature is no good.             *)
RejectRequest ==
    /\ AtStage("received")
    /\ Reply(400, FALSE, "none")
    /\ UNCHANGED <<startVars, fees, worked>>

(* 402, with the terms of this request; before the facilitator settles.    *)
Challenge ==
    /\ AtStage("received") /\ ~ PaymentVerified
    /\ Reply(402, FALSE, "none")
    /\ UNCHANGED <<startVars, fees, worked>>

Verify ==
    /\ AtStage("received") /\ PaymentVerified
    /\ call' = [call EXCEPT !.stage = "settling"]
    /\ UNCHANGED <<startVars, fees, worked>>

(* The facilitator has the payment executed and says so.  The headers of   *)
(* the answer carry the receipt from here on.                              *)
Settle ==
    /\ AtStage("settling")
    /\ fees[call.fee].fate \in {"signed", "submitted"}
    /\ Fate(call.fee, "executed")
    /\ call' = [call EXCEPT !.stage = "working", !.receipt = TRUE]
    /\ worked' = Append(worked, [fee |-> call.fee, path |-> call.path, body |-> call.body])
    /\ UNCHANGED startVars

SettleFails ==
    /\ AtStage("settling")
    /\ Reply(402, FALSE, "none")
    /\ UNCHANGED <<startVars, fees, worked>>

(* Its answer is lost: 500, whatever becomes of the payment.               *)
SettleAnswerLost ==
    /\ AtStage("settling")
    /\ IF fees[call.fee].fate = "signed" THEN Fate(call.fee, "submitted")
       ELSE UNCHANGED fees
    /\ Reply(500, FALSE, "none")
    /\ UNCHANGED <<startVars, worked>>

(* The review behind the gate: only what is in policy is approved.  Of a   *)
(* refusal it matters whether the allowlist decided it.                    *)
Decide(outcome) ==
    /\ AtStage("working")
    /\ outcome = "approved" => call.body.inPolicy
    /\ call' = [call EXCEPT !.stage = "decided", !.outcome = outcome]
    /\ UNCHANGED <<startVars, fees, worked>>

(* What is published of the decision, for every tenant the call may be of. *)
ReasonBytes == IF call.outcome = "refused" THEN 37 ELSE 66
PublishedBytes(t) ==
    IF call.path = "/review" THEN ScheduleRecord(12, 30, t.nameBytes, t.idBytes)
    ELSE TransferRecord(call.outcome, ReasonBytes, 30, 30, t.nameBytes, t.idBytes)

(* The answer, or its headers when the connection breaks in its body.      *)
Publish(t) ==
    /\ AtStage("decided")
    /\ PublishedBytes(t) <= MaxMessage
    /\ \E o \in {call.outcome, "none"} : Reply(200, TRUE, o)
    /\ UNCHANGED <<startVars, fees, worked>>

(* Any error after the payment, a record too long for the topic included.  *)
WorkFails ==
    /\ call.stage \in {"working", "decided"} /\ boot = "serving"
    /\ Reply(500, TRUE, "none")
    /\ UNCHANGED <<startVars, fees, worked>>

(* A payment that somebody may still have settled although the call ended. *)
Dropped ==
    IF boot = "serving" /\ HasPayment /\ PaymentVerified /\ fees[call.fee].fate = "signed"
    THEN Fate(call.fee, "submitted") ELSE UNCHANGED fees

(* The server is down, or the connection breaks, or nobody waits longer.   *)
(* What a guard makes of a request it has worked on is in GuardServer.     *)
AnswerLost ==
    /\ call.stage \notin {"none", "answered"}
    /\ Reply(0, FALSE, "none")
    /\ Dropped
    /\ UNCHANGED <<startVars, worked>>

(* A crash between two calls is one before the next call is looked at.     *)
CrashAtWork ==
    /\ Crash
    /\ call.stage \notin {"none", "answered"}
    /\ Reply(0, FALSE, "none")
    /\ Dropped
    /\ UNCHANGED worked

Handle ==
    \/ Challenge \/ Verify \/ Settle \/ SettleFails \/ SettleAnswerLost
    \/ \E t \in Tenants : Publish(t)
    \/ WorkFails \/ AnswerLost

----------------------------------------------------------------------------
(* The ledger executes a submitted payment late, and the mirror shows it.  *)
ExecuteLate(i) ==
    /\ fees[i].fate = "submitted"
    /\ Fate(i, "executed")
    /\ UNCHANGED <<startVars, call, worked>>

IndexFee(i) ==
    /\ fees[i].fate = "executed"
    /\ Fate(i, "seen")
    /\ UNCHANGED <<startVars, call, worked>>

Paid(i) == fees[i].fate \in {"executed", "seen"}

(* Anybody: with no payment, a new one, or one sent before.                *)
StrangerCalls ==
    /\ call.stage \in {"none", "answered"}
    /\ \E path \in {"/review", "/countersign"}, b \in Bodies :
        \/ call' = Call(path, b, 0) /\ UNCHANGED fees
        \/ /\ Len(fees) < Calls
           /\ \E p \in Payments, quoted \in Bodies, of \in {"/review", "/countersign"} :
                LET terms == Terms(of, quoted) IN
                fees' = Sign([form |-> p.form, payer |-> p.payer, debit |-> p.debit,
                              signer |-> p.signer, to |-> p.to,
                              amount |-> terms.amount - p.short, terms |-> terms], 1)
           /\ call' = Call(path, b, Len(fees) + 1)
        \/ \E i \in DOMAIN fees : call' = Call(path, b, i) /\ UNCHANGED fees
    /\ UNCHANGED <<startVars, worked>>

Outcomes == {"approved", "refused", "declined"}

(* The server and what is around it.                                       *)
ServiceNext ==
    \/ RejectRequest \/ Handle
    \/ CrashAtWork
    \/ (StartNext \/ AdminChangesTopic \/ FeesChange) /\ UNCHANGED <<call, fees, worked>>
    \/ \E i \in DOMAIN fees : ExecuteLate(i) \/ IndexFee(i)

----------------------------------------------------------------------------
(* The amount a body costs, said without the arithmetic of the code: the   *)
(* least that pays for its bytes, within the bounds.                       *)
FairFee(a, b, m) ==
    LET forBytes == a - m.base - Adjustments(b) * m.perAdjustment IN
    /\ m.min <= a /\ a <= m.max
    /\ a = m.max \/ forBytes * Kilobyte >= b.bytes * m.perKilobyte
    /\ a = m.min \/ (forBytes - 1) * Kilobyte < b.bytes * m.perKilobyte

(* Whatever is worked on was paid for before, by a payment of its own, of  *)
(* exactly the fee of the body worked on: neither a retry of an old header *)
(* nor terms asked for another body buy anything.                          *)
WorkIsPaidInFull ==
    /\ \A i \in DOMAIN worked :
        LET w == worked[i] p == fees[w.fee].payment IN
        /\ Paid(w.fee)
        /\ p.to = config.feeAccount
        /\ IF w.path = "/review" THEN p.amount = config.price
           ELSE FairFee(p.amount, w.body, config.meter)
    /\ \A i, j \in DOMAIN worked : worked[i].fee = worked[j].fee => i = j

(* No treasury pays, signs for or receives a fee that settles, whatever a  *)
(* payment looks like to the gate; the keys that move a treasury are of no *)
(* use to spend its money on reviews.                                      *)
TreasuryUntouchedByFees ==
    \A i \in DOMAIN fees : Paid(i) =>
        LET p == fees[i].payment IN
        \A t \in Tenants :
            /\ t.treasury \notin {p.payer, p.debit, p.to}
            /\ p.signer \notin {t.owner, t.agent, config.guard}

(* Every decision that was paid for can be published: start-up leaves room *)
(* for it ("startup validation accepts participant identifiers that leave  *)
(* verdict capacity", src/test/verdict-log.test.ts).                       *)
EveryVerdictFits ==
    call.stage = "decided" => \A t \in Tenants : PublishedBytes(t) <= MaxMessage
=============================================================================
