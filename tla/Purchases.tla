----------------------------- MODULE Purchases -----------------------------
(***************************************************************************)
(* The clients that have a transfer of the treasury countersigned: the     *)
(* signer (src/src/cosigned-client-signer.ts) inside the two scripts that  *)
(* buy twice with it, once in policy and once not, and then report what    *)
(* the mirror node shows.  "guarded" (src/scripts/guarded-purchase.ts)     *)
(* hands the signed transfer to a seller and checks everything at the end; *)
(* "hts" (src/scripts/hts-purchase.ts) submits it itself and checks after  *)
(* each purchase.  The mirror shows a transaction some time after it was   *)
(* executed; every answer may be lost; a transfer that somebody holds may  *)
(* be executed until its validity ends.                                    *)
(***************************************************************************)
EXTENDS PaymentGate

CONSTANTS
    BodyOf,     \* the body of the first and of the second purchase
    Price,      \* PRICE, what a purchase costs
    FloorFee,   \* DEFAULT_COUNTERSIGN_METER, the bounds the scripts
    FeeCap,     \*   hold a quote to
    Validity,   \* of a transfer, in ticks (180 seconds)
    Grace,      \* what a script waits on top (30 seconds)
    Lag         \* in how many ticks the mirror shows what was executed

ASSUME PurchaseConstants ==
    /\ {Price, FloorFee, FeeCap, Validity, Grace, Lag} \subseteq Nat
    /\ Lag <= Grace /\ Price <= FeeCap
    /\ {"facilitator", "caller"} \subseteq Names
    /\ \A k \in 1..2 : BodyOf[k] \in
        [bytes : Nat, adjustments : Nat, decodes : BOOLEAN, inPolicy : BOOLEAN]

VARIABLES
    script,    \* which client runs
    phase,     \* where it stands
    turn,      \* the purchase it is at
    transfers, \* the transfer of each purchase on the ledger
    observed,  \* PurchaseObservation of each purchase
    claims     \* what it reported so far

clientVars == <<script, phase, turn, transfers, observed, claims>>
purchaseVars == <<gateVars, clientVars>>

Ended == {"passed", "failed", "inexact"}
Unmade == [fate |-> "none", age |-> 0, lag |-> 0]
Unobserved == [asked |-> FALSE, review |-> "none", fee |-> 0, bought |-> FALSE]

PurchaseInit ==
    /\ GateInit
    /\ turn = 1
    /\ transfers = [k \in 1..2 |-> Unmade]
    /\ observed = [k \in 1..2 |-> Unobserved]
    /\ claims = {}

Buyer == script \in {"guarded", "hts"}
Observe(o) == observed' = [observed EXCEPT ![turn] = o]
Seen == observed[turn]
TransferFate(k, f) == transfers' = [transfers EXCEPT ![k].fate = f]

(* A purchase that failed: "guarded" notes it and goes on, "hts" ends.     *)
Over ==
    IF script = "hts" THEN phase' = "failed" /\ UNCHANGED turn
    ELSE IF turn = 1 THEN phase' = "propose" /\ turn' = 2
    ELSE phase' = "verify_fee" /\ turn' = 1

Continue(p) == phase' = p /\ UNCHANGED turn

----------------------------------------------------------------------------
(* The agent signs a transfer that is valid from now on.                   *)
Propose ==
    /\ Buyer /\ phase = "propose"
    /\ TransferFate(turn, "signed")
    /\ Continue("ask")
    /\ UNCHANGED <<gateVars, script, observed, claims>>

(* The seller does not quote, or the guard's card is not what it should be.*)
NothingAsked ==
    /\ Buyer /\ phase \in {"propose", "ask"}
    /\ Over
    /\ UNCHANGED <<gateVars, script, transfers, observed, claims>>

Ask ==
    /\ Buyer /\ phase = "ask"
    /\ call' = Call("/countersign", BodyOf[turn], 0)
    /\ Observe([Seen EXCEPT !.asked = TRUE])
    /\ Continue("challenged")
    /\ UNCHANGED <<startVars, fees, worked, script, transfers, claims>>

AtAnswer(p) == phase = p /\ call.stage = "answered"

(* onBeforePaymentCreation of the client, and its spend control.           *)
QuoteIsAcceptable(amount) == FloorFee <= amount /\ amount <= FeeCap

FeePayment(path) ==
    LET terms == Terms(path, call.body) IN
    [form |-> "plain", payer |-> "facilitator", debit |-> "caller", signer |-> "caller",
     to |-> config.feeAccount, amount |-> terms.amount, terms |-> terms]

Pay(path) ==
    /\ fees' = Sign(FeePayment(path), turn)
    /\ call' = Call(path, call.body, Len(fees) + 1)

(* 402: the fee is signed and the same request sent again with it.         *)
OnChallenge ==
    /\ Buyer /\ AtAnswer("challenged")
    /\ IF call.status = 402 /\ QuoteIsAcceptable(Terms("/countersign", call.body).amount)
       THEN Pay("/countersign") /\ Continue("paid")
       ELSE Over /\ call' = NoCall /\ UNCHANGED fees
    /\ UNCHANGED <<startVars, worked, script, transfers, observed, claims>>

(* The settlement an answer carries, whether or not the rest is of use.    *)
Receipted == [Seen EXCEPT !.fee = IF call.receipt THEN call.fee ELSE 0]

(* Approved, and the returned bytes are the proposal with the guard's      *)
(* signature.                                                              *)
OnApproval ==
    /\ Buyer /\ AtAnswer("paid")
    /\ call.status = 200 /\ call.outcome = "approved"
    /\ Observe([Receipted EXCEPT !.review = "approved"])
    /\ IF script = "hts" /\ turn = 2 THEN Continue("failed") ELSE Continue("submit")
    /\ call' = NoCall
    /\ UNCHANGED <<startVars, fees, worked, script, transfers, claims>>

(* CountersignRefusal.                                                     *)
OnRefusal ==
    /\ Buyer /\ AtAnswer("paid")
    /\ call.status = 200 /\ call.outcome \in {"refused", "declined"}
    /\ Observe([Receipted EXCEPT !.review = call.outcome])
    /\ IF script = "hts" /\ turn = 2 /\ call.outcome = "refused"
       THEN Continue("verify_absence") ELSE Over
    /\ call' = NoCall
    /\ UNCHANGED <<startVars, fees, worked, script, transfers, claims>>

(* Fault: a client whose paid answer is lost asks and pays again.          *)
AsksAgain ==
    /\ Buyer /\ AtAnswer("paid")
    /\ call.outcome = "none"
    /\ IF Len(fees) < 3 THEN Continue("ask") ELSE Over
    /\ call' = NoCall
    /\ UNCHANGED <<startVars, fees, worked, script, transfers, observed, claims>>

(* Anything else: the purchase is over, paid for or not.                   *)
OnNoVerdict ==
    /\ Buyer /\ AtAnswer("paid")
    /\ call.outcome = "none"
    /\ Observe(Receipted)
    /\ Over
    /\ call' = NoCall
    /\ UNCHANGED <<startVars, fees, worked, script, transfers, claims>>

----------------------------------------------------------------------------
(* The countersigned transfer leaves the process: to the seller's          *)
(* facilitator, or to consensus.                                           *)
Submit ==
    /\ Buyer /\ phase = "submit"
    /\ TransferFate(turn, "submitted")
    /\ Continue("submitted")
    /\ UNCHANGED <<gateVars, script, observed, claims>>

Executed(k) == transfers[k].fate \in {"executed", "seen"}

(* The seller's settlement, or the receipt.                                *)
OnBought ==
    /\ Buyer /\ phase = "submitted" /\ Executed(turn)
    /\ Observe([Seen EXCEPT !.bought = TRUE])
    /\ IF script = "hts" THEN Continue("verify_purchase") ELSE Over
    /\ UNCHANGED <<gateVars, script, transfers, claims>>

NotBought ==
    /\ Buyer /\ phase = "submitted"
    /\ Over
    /\ UNCHANGED <<gateVars, script, transfers, observed, claims>>

----------------------------------------------------------------------------
(* The reports.  A transaction that the mirror does not show is looked up  *)
(* twenty times.                                                           *)
Claim(c) == claims' = claims \cup {c}

(* Fault: a lookup is repeated for ever.                                   *)
LooksForEver ==
    /\ Buyer /\ phase \in {"verify_fee", "verify_purchase", "verify_absence"}
    /\ UNCHANGED purchaseVars

(* It is never shown, or the mirror fails.                                 *)
LookupFails ==
    /\ Buyer
    /\ \/ phase = "verify_fee" /\ Seen.fee # 0
       \/ phase = "verify_purchase" /\ Seen.bought
       \/ phase = "verify_absence" /\ transfers[turn].age >= Validity
    /\ Continue("failed")
    /\ UNCHANGED <<gateVars, script, transfers, observed, claims>>

(* The last look at a purchase is done.                                    *)
Verified ==
    IF turn = 1
    THEN turn' = 2 /\ phase' = IF script = "hts" THEN "propose" ELSE "verify_fee"
    ELSE phase' = "report" /\ UNCHANGED turn

(* "guarded" looks for the flat price, "hts" for the fee it was quoted.    *)
ExpectedFee == IF script = "guarded" THEN Price ELSE Terms("/countersign", BodyOf[turn]).amount

SettlementIsExact(i) == fees[i].payment.amount = ExpectedFee

VerifyFee ==
    /\ Buyer /\ phase = "verify_fee" /\ Seen.fee # 0
    /\ fees[Seen.fee].fate = "seen"
    /\ IF SettlementIsExact(Seen.fee)
       THEN /\ Claim(<<"fee", turn>>)
            /\ IF script = "hts" THEN Verified ELSE Continue("verify_purchase")
       ELSE Continue("inexact") /\ UNCHANGED claims
    /\ UNCHANGED <<gateVars, script, transfers, observed>>

NoFeeToVerify ==
    /\ Buyer /\ phase = "verify_fee" /\ Seen.fee = 0
    /\ Continue("verify_purchase")
    /\ UNCHANGED <<gateVars, script, transfers, observed, claims>>

VerifyPurchase ==
    /\ Buyer /\ phase = "verify_purchase" /\ Seen.bought
    /\ transfers[turn].fate = "seen"
    /\ Claim(<<"bought", turn>>)
    /\ IF script = "hts" THEN Continue("verify_fee") ELSE Verified
    /\ UNCHANGED <<gateVars, script, transfers, observed>>

NoPurchaseToVerify ==
    /\ Buyer /\ phase = "verify_purchase" /\ ~ Seen.bought
    /\ IF Seen.asked THEN Continue("verify_absence") ELSE Verified
    /\ UNCHANGED <<gateVars, script, transfers, observed, claims>>

(* Fault: the mirror is asked as soon as the transfer is no longer valid.  *)
AbsenceMayBeAskedAtOnce == transfers[turn].age >= Validity

AbsenceMayBeAsked == transfers[turn].age >= Validity + Grace

(* The last of the three looks: what an earlier one finds this one finds.  *)
VerifyAbsence ==
    /\ Buyer /\ phase = "verify_absence" /\ AbsenceMayBeAsked
    /\ IF transfers[turn].fate = "seen" THEN Continue("failed") /\ UNCHANGED claims
       ELSE /\ Claim(<<"absent", turn>>)
            /\ IF script = "hts" THEN Continue("verify_fee") ELSE Verified
    /\ UNCHANGED <<gateVars, script, transfers, observed>>

(* The assertions after the last look.                                     *)
BothCasesShown ==
    /\ observed[1].review = "approved" /\ observed[1].bought
    /\ observed[2].review = "refused" /\ observed[2].fee # 0

Report ==
    /\ Buyer /\ phase = "report"
    /\ Continue(IF script = "hts" \/ BothCasesShown THEN "passed" ELSE "failed")
    /\ UNCHANGED <<gateVars, script, transfers, observed, claims>>

Script ==
    \/ Propose \/ NothingAsked \/ Ask \/ OnChallenge
    \/ OnApproval \/ OnRefusal \/ OnNoVerdict
    \/ Submit \/ OnBought \/ NotBought
    \/ LookupFails \/ VerifyFee \/ NoFeeToVerify \/ VerifyPurchase \/ NoPurchaseToVerify
    \/ VerifyAbsence \/ Report

----------------------------------------------------------------------------
(* Consensus, its mirror and time.                                         *)
ExecuteTransfer(k) ==
    /\ transfers[k].fate = "submitted" /\ transfers[k].age < Validity
    /\ TransferFate(k, "executed")
    /\ UNCHANGED <<gateVars, script, phase, turn, observed, claims>>

IndexTransfer(k) ==
    /\ transfers[k].fate = "executed"
    /\ transfers' = [transfers EXCEPT ![k].fate = "seen", ![k].lag = 0]
    /\ UNCHANGED <<gateVars, script, phase, turn, observed, claims>>

Older(t) ==
    IF t.fate = "none" THEN t
    ELSE [t EXCEPT !.age = Clamp(@ + 1, 0, Validity + Grace),
                   !.lag = IF t.fate = "executed" THEN @ + 1 ELSE @]

Tick ==
    /\ \A k \in 1..2 : transfers[k].fate = "executed" => transfers[k].lag < Lag
    /\ \E k \in 1..2 : transfers[k].fate # "none" /\ transfers[k].age < Validity + Grace
    /\ transfers' = [k \in 1..2 |-> Older(transfers[k])]
    /\ UNCHANGED <<gateVars, script, phase, turn, observed, claims>>

Network ==
    \/ \E k \in 1..2 : ExecuteTransfer(k) \/ IndexTransfer(k)
    \/ Tick
=============================================================================
