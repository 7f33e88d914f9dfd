--------------------------- MODULE TransferRules ---------------------------
(***************************************************************************)
(* The rules of /countersign (src/src/countersign-transfer.ts): what       *)
(* validateCountersignTransfer accepts, the signature that                 *)
(* countersignTransfer adds, and what consensus can then make of the       *)
(* signed bytes until they expire.                                         *)
(*                                                                         *)
(* The submitted bytes are a list of one transaction per node.  Bytes that *)
(* do not decode, or not to themselves, are no list of Submissions.  The   *)
(* flag plain says that a transaction is an unscheduled transfer with      *)
(* reviewed fields only; one that is not may do more to the treasury than  *)
(* its transfer says.  A valid start is in ticks, a duration in seconds.     *)
(***************************************************************************)
EXTENDS Validation

CONSTANTS
    Submissions,    \* the lists a client may submit
    Floor           \* minRemainingValiditySeconds (30 in the code)

(* One transaction of a list.  A signature is the prefix of a key, and     *)
(* whether it verifies over the body.                                      *)
Signature == [prefix : {"agent", "guard", "empty", "other"}, valid : BOOLEAN]
Transaction ==
    [payer : Accounts, plain : BOOLEAN, fee : Nat, start : Nat, seconds : Nat,
     transfer : Transfer, node : Nat, sigs : Seq(Signature)]

ASSUME TransferConstants == Floor \in Nat /\ Submissions \subseteq Seq(Transaction)

VARIABLES
    list,      \* transactionBase64 of the request
    customFee, \* what a transfer of the mandate's token costs its sender
    feeKey,    \* whether somebody may still change that
    executed   \* transaction IDs that consensus executed

vars == <<now, mandate, list, pc, customFee, feeKey, executed, balance>>

Ends(t) == t.start + t.seconds * TicksPerSecond
TransactionId(t) == <<t.payer, t.start>>
Intent(t) == [t EXCEPT !.node = 0, !.sigs = <<>>]

Init ==
    /\ now = 0
    /\ mandate \in Mandates
    /\ list \in Submissions
    /\ pc = "submitted"
    /\ customFee \in IF mandate.asset = Hbar THEN {0} ELSE {0, 1}
    /\ feeKey \in IF mandate.asset = Hbar THEN {FALSE} ELSE BOOLEAN
    /\ executed = {}
    /\ balance = NoBalance

----------------------------------------------------------------------------
(* The checks, by what they look at.                                       *)
(* Fault: the end is compared in whole seconds.                            *)
EndsInSecond(t) == Ends(t) \div TicksPerSecond <= mandate.expires

EndsInMandate(t) == Ends(t) <= mandate.expires * TicksPerSecond

InWindow(t) ==
    /\ t.seconds > 0
    /\ EndsInMandate(t)
    /\ t.start <= Clock * TicksPerSecond
    /\ Ends(t) - Clock * TicksPerSecond > Floor * TicksPerSecond

PaidByOthers(t) ==
    /\ t.payer \notin {Treasury, GuardAccount}
    /\ t.fee = ProtocolFee

(* The asset of the mandate and no other, in the one list that may be      *)
(* there.                                                                  *)
AssetMatches(tr) ==
    IF mandate.asset = Hbar
    THEN tr.tokens = <<>>
    ELSE /\ Len(tr.tokens) = 1
         /\ tr.tokens[1].token = mandate.asset
         /\ ~ tr.tokens[1].nfts
         /\ tr.hbar = <<>>

MandatedAdjustments(tr) ==
    IF mandate.asset = Hbar THEN tr.hbar ELSE tr.tokens[1].list

(* A prefix shorter than the guard's key, the empty one included, counts   *)
(* as the guard's.                                                         *)
SignedByAgentAlone(t) ==
    /\ \A i \in DOMAIN t.sigs : t.sigs[i].prefix \notin {"guard", "empty"}
    /\ Len(t.sigs) = 1
    /\ t.sigs[1].prefix = "agent" /\ t.sigs[1].valid

TransactionPasses(t) ==
    /\ t.plain
    /\ PaidByOthers(t)
    /\ InWindow(t)
    /\ AssetMatches(t.transfer)
    /\ AdjustmentsPass(MandatedAdjustments(t.transfer), mandate)
    /\ SignedByAgentAlone(t)

(* Fault: variants for several nodes need only move the same value.        *)
SameTransfer(t, u) == t.transfer = u.transfer

SameIntent(t, u) == Intent(t) = Intent(u)

ListPasses ==
    /\ Len(list) > 0
    /\ \A i, j \in DOMAIN list :
        /\ SameIntent(list[i], list[j])
        /\ i # j => list[i].node # list[j].node
    /\ \A i \in DOMAIN list : TransactionPasses(list[i])

----------------------------------------------------------------------------
(* The checks on the bytes, and on the clock read once before them, run    *)
(* without an await.                                                       *)
Validate ==
    /\ pc = "submitted"
    /\ pc' = IF ~ (MandateActive /\ ListPasses) THEN "refused"
             ELSE IF mandate.asset = Hbar THEN "approved" ELSE "querying"
    /\ UNCHANGED <<now, mandate, list, customFee, feeKey, executed, balance>>

(* Fault: a fee that can still be changed is not refused.                  *)
FreeOfFees == customFee = 0
FreeOfFeesForGood == customFee = 0 /\ ~ feeKey

(* The token is looked up; the query may fail, which refuses.              *)
TokenInfo ==
    /\ pc = "querying"
    /\ pc' \in {"refused"} \cup IF FreeOfFeesForGood THEN {"approved"} ELSE {}
    /\ UNCHANGED <<now, mandate, list, customFee, feeKey, executed, balance>>

(* The guard signs every transaction of the bytes it validated.            *)
Countersign ==
    /\ pc = "approved"
    /\ pc' = "released"
    /\ UNCHANGED <<now, mandate, list, customFee, feeKey, executed, balance>>

----------------------------------------------------------------------------
(* Consensus: any holder of the bytes submits any of the transactions, as  *)
(* often as it likes.  The treasury's threshold key is satisfied by the    *)
(* two signatures, and so is the guard's own key.                          *)
Charge(t) ==
    [p \in Accounts \X Assets |->
        (IF p = <<t.payer, Hbar>> THEN t.fee ELSE 0)
        + (IF p = <<Treasury, Hbar>> /\ ~ t.plain THEN 1 ELSE 0)
        + IF p = <<Treasury, mandate.asset>> THEN customFee ELSE 0]

Execute(i) ==
    LET t == list[i] IN
    /\ pc = "released"
    /\ t.start <= now /\ now < Ends(t)
    /\ TransactionId(t) \notin executed
    /\ Balanced(t.transfer)
    /\ executed' = executed \cup {TransactionId(t)}
    /\ balance' = Applied(balance, t.transfer, Charge(t))
    /\ UNCHANGED <<now, mandate, list, pc, customFee, feeKey>>

ChangeFee ==
    /\ feeKey
    /\ \/ customFee' = 1 - customFee /\ UNCHANGED feeKey
       \/ feeKey' = FALSE /\ UNCHANGED customFee
    /\ UNCHANGED <<now, mandate, list, pc, executed, balance>>

Tick ==
    /\ now < MaxTime
    /\ now' = now + 1
    /\ UNCHANGED <<mandate, list, pc, customFee, feeKey, executed, balance>>

Next ==
    \/ Validate \/ TokenInfo \/ Countersign
    \/ \E i \in DOMAIN list : Execute(i)
    \/ ChangeFee \/ Tick

Spec == Init /\ [][Next]_vars

----------------------------------------------------------------------------
(* Whatever is done with the bytes the guard signed, over every node they  *)
(* are addressed to and every later change of the token's fees, the value  *)
(* that moves is what the mandate allows, once.                            *)
TransferWithinMandate == WithinMandate(balance, mandate)

(* It moves only while the mandate is active, to the tick, although the    *)
(* guard read a clock of whole seconds long before.                        *)
TransferInsideMandate ==
    [][executed' # executed =>
         /\ mandate.validFrom * TicksPerSecond <= now
         /\ now < mandate.expires * TicksPerSecond]_vars
============================================================================
