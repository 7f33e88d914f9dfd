------------------------ MODULE TransferRules_proofs ------------------------
(***************************************************************************)
(* Proofs about the rules of /countersign, for any mandate, any submitted  *)
(* list, any clock and any number of ticks in a second.                    *)
(***************************************************************************)
EXTENDS TransferRules, Transfers_proofs

(* What the guard looked at before it signed is what consensus executes.   *)
Passed == pc \in {"querying", "approved", "released"}

(* Whatever becomes of the signed bytes, consensus executes at most one    *)
(* transaction of the list, because all of them carry one transaction ID.  *)
MovesOnce == \A e, f \in executed : e = f

(* Every transaction the guard signs pays as the mandate says and has      *)
(* somebody else pay its fee.                                              *)
SignedShape ==
    Passed => \A i \in DOMAIN list :
        /\ list[i].plain
        /\ list[i].payer \notin {Treasury, GuardAccount}
        /\ PaysAsMandated(list[i].transfer, mandate)

Timely ==
    Passed =>
        /\ mandate.validFrom * TicksPerSecond <= now
        /\ \A i \in DOMAIN list : Ends(list[i]) <= mandate.expires * TicksPerSecond

TransferInductive ==
    /\ now \in Nat /\ mandate \in Mandates /\ list \in Submissions
    /\ Timely
    /\ SignedShape
    /\ Passed => \A i, j \in DOMAIN list : TransactionId(list[i]) = TransactionId(list[j])
    /\ pc \in {"approved", "released"} \/ mandate.asset = Hbar => FreeOfFeesForGood
    /\ executed # {} => pc = "released"
    /\ executed = {} => balance = NoBalance
    /\ TransferWithinMandate
    /\ \A e \in executed : \E i \in DOMAIN list : e = TransactionId(list[i])

----------------------------------------------------------------------------
(* What the submitted lists are made of.                                   *)
LEMMA ListTyped ==
  ASSUME list \in Submissions, NEW i \in DOMAIN list
  PROVE  /\ list[i].start \in Nat /\ list[i].seconds \in Nat /\ list[i].fee \in Nat
         /\ list[i].transfer \in Transfer
         /\ list[i].transfer.hbar \in Adjustments
         /\ list[i].transfer.tokens \in Seq(TokenList)
         /\ Len(list) \in Nat /\ DOMAIN list = 1..Len(list)
<1>1. list \in Seq(Transaction)
  BY TransferConstants, ValidationConstants
<1>2. list[i] \in Transaction /\ Len(list) \in Nat /\ DOMAIN list = 1..Len(list)
  BY <1>1
<1>3. /\ list[i].start \in Nat /\ list[i].seconds \in Nat /\ list[i].fee \in Nat
      /\ list[i].transfer \in Transfer
  BY <1>2 DEF Transaction
<1>4. ASSUME NEW tr \in Transfer PROVE tr.hbar \in Adjustments /\ tr.tokens \in Seq(TokenList)
  BY DEF Transfer
<1>5. QED
  BY <1>2, <1>3, <1>4

(* All transactions of an accepted list have one ID.                       *)
LEMMA OneId ==
  ASSUME ListPasses, list \in Submissions, NEW i \in DOMAIN list, NEW j \in DOMAIN list
  PROVE  TransactionId(list[i]) = TransactionId(list[j])
<1>1. list[i] \in Transaction /\ list[j] \in Transaction
  <2>1. list \in Seq(Transaction)
    BY TransferConstants, ValidationConstants
  <2>2. QED
    BY <2>1
<1>2. Intent(list[i]) = Intent(list[j])
  BY DEF ListPasses, SameIntent
<1>3. \A t \in Transaction : Intent(t).payer = t.payer /\ Intent(t).start = t.start
  BY DEF Transaction, Intent
<1>4. QED
  BY <1>1, <1>2, <1>3 DEF TransactionId

(* The validation reads the clock once; what it concluded stays true.      *)
LEMMA ValidationTimely ==
  ASSUME now \in Nat, mandate \in Mandates, list \in Submissions, MandateActive, ListPasses
  PROVE  /\ mandate.validFrom * TicksPerSecond <= now
         /\ \A i \in DOMAIN list : Ends(list[i]) <= mandate.expires * TicksPerSecond
<1>1. mandate.validFrom \in Nat /\ TicksPerSecond \in Nat \ {0}
  BY TransferConstants, ValidationConstants DEF MandateConstants
<1>2. mandate.validFrom * TicksPerSecond <= now
  BY <1>1, SecondsReached DEF MandateActive, Clock
<1>3. \A i \in DOMAIN list : Ends(list[i]) <= mandate.expires * TicksPerSecond
  BY DEF ListPasses, TransactionPasses, InWindow, EndsInMandate
<1>4. QED
  BY <1>2, <1>3

(* An accepted transaction pays as the mandate says.                       *)
LEMMA ValidationShape ==
  ASSUME list \in Submissions, ListPasses, NEW i \in DOMAIN list
  PROVE  /\ list[i].plain
         /\ list[i].payer \notin {Treasury, GuardAccount}
         /\ PaysAsMandated(list[i].transfer, mandate)
<1> DEFINE tr == list[i].transfer
<1>1. /\ list[i].plain /\ PaidByOthers(list[i]) /\ AssetMatches(tr)
      /\ AdjustmentsPass(MandatedAdjustments(tr), mandate)
  BY DEF ListPasses, TransactionPasses
<1>2. CASE mandate.asset = Hbar
  <2>1. tr.hbar \in Adjustments /\ AdjustmentsPass(tr.hbar, mandate)
    BY <1>1, <1>2, ListTyped DEF MandatedAdjustments
  <2>2. Shape(tr.hbar, mandate)
    BY <2>1, AdjustmentsTyped, TwoKinds DEF AdjustmentsPass, ExactlyTwo
  <2>3. QED
    BY <1>1, <1>2, <2>2 DEF PaysAsMandated, AssetMatches, PaidByOthers
<1>3. CASE mandate.asset # Hbar
  <2>1. tr.tokens \in Seq(TokenList) /\ Len(tr.tokens) = 1
    BY <1>1, <1>3, ListTyped DEF AssetMatches
  <2>2. tr.tokens[1] \in TokenList
    BY <2>1
  <2>3. tr.tokens[1].list \in Adjustments /\ AdjustmentsPass(tr.tokens[1].list, mandate)
    BY <1>1, <1>3, <2>2 DEF MandatedAdjustments, TokenList
  <2>4. Shape(tr.tokens[1].list, mandate)
    BY <2>3, AdjustmentsTyped, TwoKinds DEF AdjustmentsPass, ExactlyTwo
  <2>5. QED
    BY <1>1, <1>3, <2>4 DEF PaysAsMandated, AssetMatches, PaidByOthers
<1>4. QED
  BY <1>2, <1>3

(* The request is fixed; the clock runs on; after the checks on the bytes  *)
(* only a refusal leaves the way to the signature.                         *)
LEMMA Kept ==
  ASSUME TransferInductive, [Next]_vars
  PROVE  /\ mandate' = mandate /\ list' = list
         /\ now' \in Nat /\ now <= now'
         /\ ~ Validate => (Passed' => Passed)
         /\ pc = "released" => pc' = "released"
<1> USE DEF Passed
<1>1. now \in Nat
  BY DEF TransferInductive
<1>2. CASE Validate
  BY <1>1, <1>2 DEF Validate
<1>3. CASE TokenInfo
  BY <1>1, <1>3 DEF TokenInfo
<1>4. CASE Countersign
  BY <1>1, <1>4 DEF Countersign
<1>5. ASSUME NEW i \in DOMAIN list, Execute(i)
      PROVE  UNCHANGED <<now, mandate, list, pc>>
  BY <1>5 DEF Execute
<1>6. CASE ChangeFee
  BY <1>1, <1>6 DEF ChangeFee
<1>7. CASE Tick
  BY <1>1, <1>7 DEF Tick
<1>8. CASE UNCHANGED vars
  BY <1>1, <1>8 DEF vars
<1>9. QED
  BY <1>1, <1>2, <1>3, <1>4, <1>5, <1>6, <1>7, <1>8 DEF Next

(* What has been executed, step by step.                                   *)
LEMMA ExecutedStep ==
  ASSUME TransferInductive, [Next]_vars
  PROVE  \/ executed' = executed
         \/ \E i \in DOMAIN list :
              /\ executed' = executed \cup {TransactionId(list[i])}
              /\ pc = "released" /\ list[i].start <= now /\ now < Ends(list[i])
<1>1. ASSUME NEW i \in DOMAIN list, Execute(i)
      PROVE  /\ executed' = executed \cup {TransactionId(list[i])}
             /\ pc = "released" /\ list[i].start <= now /\ now < Ends(list[i])
  BY <1>1 DEF Execute
<1>2. CASE Validate \/ TokenInfo \/ Countersign
  BY <1>2 DEF Validate, TokenInfo, Countersign
<1>3. CASE ChangeFee \/ Tick \/ UNCHANGED vars
  BY <1>3 DEF ChangeFee, Tick, vars
<1>4. QED
  BY <1>1, <1>2, <1>3 DEF Next

(* The fees of the token, once nobody can change them, stay as they are;   *)
(* they are so when the guard signs.                                       *)
LEMMA FeesStep ==
  ASSUME TransferInductive, [Next]_vars
  PROVE  pc' \in {"approved", "released"} \/ mandate.asset = Hbar => FreeOfFeesForGood'
<1>1. FreeOfFeesForGood => FreeOfFeesForGood'
  <2> SUFFICES ASSUME FreeOfFeesForGood PROVE UNCHANGED <<customFee, feeKey>>
    BY DEF FreeOfFeesForGood
  <2>1. ASSUME NEW i \in DOMAIN list, Execute(i) PROVE UNCHANGED <<customFee, feeKey>>
    BY <2>1 DEF Execute
  <2>2. CASE Validate \/ TokenInfo \/ Countersign
    BY <2>2 DEF Validate, TokenInfo, Countersign
  <2>3. CASE ChangeFee
    BY <2>3 DEF ChangeFee, FreeOfFeesForGood
  <2>4. CASE Tick \/ UNCHANGED vars
    BY <2>4 DEF Tick, vars
  <2>5. QED
    BY <2>1, <2>2, <2>3, <2>4 DEF Next
<1>2. \/ pc' \in {"approved", "released"} => pc \in {"approved", "released"}
      \/ pc' = "approved" /\ mandate.asset = Hbar
      \/ pc' = "approved" /\ FreeOfFeesForGood
  <2>1. ASSUME NEW i \in DOMAIN list, Execute(i) PROVE pc' = pc
    BY <2>1 DEF Execute
  <2>2. CASE Validate
    BY <2>2 DEF Validate
  <2>3. CASE TokenInfo
    BY <2>3 DEF TokenInfo
  <2>4. CASE Countersign
    BY <2>4 DEF Countersign
  <2>5. CASE ChangeFee \/ Tick \/ UNCHANGED vars
    BY <2>5 DEF ChangeFee, Tick, vars
  <2>6. QED
    BY <2>1, <2>2, <2>3, <2>4, <2>5 DEF Next
<1>3. QED
  BY <1>1, <1>2 DEF TransferInductive

(* The one execution moves what the mandate allows.                        *)
LEMMA ExecuteWithin ==
  ASSUME TransferInductive, NEW i \in DOMAIN list, Execute(i)
  PROVE  TransferWithinMandate'
<1> DEFINE t == list[i]
<1>1. /\ pc = "released" /\ TransactionId(t) \notin executed
      /\ balance' = Applied(balance, t.transfer, Charge(t)) /\ mandate' = mandate
  BY DEF Execute
<1>2. mandate \in Mandates /\ list \in Submissions
  BY DEF TransferInductive
<1>3. balance = NoBalance
  <2>1. \A j \in DOMAIN list : TransactionId(list[j]) = TransactionId(t)
    BY <1>1 DEF TransferInductive, Passed
  <2>2. executed = {}
    BY <1>1, <2>1 DEF TransferInductive
  <2>3. QED
    BY <2>2 DEF TransferInductive
<1>4. t.plain /\ t.payer \notin {Treasury, GuardAccount} /\ PaysAsMandated(t.transfer, mandate)
  BY <1>1 DEF TransferInductive, SignedShape, Passed
<1>5. customFee = 0
  BY <1>1 DEF TransferInductive, FreeOfFeesForGood
<1>6. t.fee \in Nat /\ t.transfer \in Transfer
  BY <1>2, ListTyped
<1>7. /\ Charge(t) \in [Accounts \X Assets -> Nat]
      /\ \A a \in Assets : Charge(t)[<<Treasury, a>>] = 0 /\ Charge(t)[<<GuardAccount, a>>] = 0
  <2>1. Charge(t) = [p \in Accounts \X Assets |-> IF p = <<t.payer, Hbar>> THEN t.fee ELSE 0]
    <3>1. ASSUME NEW p \in Accounts \X Assets
          PROVE  Charge(t)[p] = IF p = <<t.payer, Hbar>> THEN t.fee ELSE 0
      BY <1>4, <1>5, <1>6 DEF Charge
    <3>2. QED
      BY <3>1 DEF Charge
  <2>2. Treasury \in Accounts /\ GuardAccount \in Accounts
    BY DEF Accounts
  <2>3. QED
    BY <1>4, <1>6, <2>1, <2>2
<1>8. WithinMandate(Applied(NoBalance, t.transfer, Charge(t)), mandate)
  <2>1. mandate.cap \in Nat /\ AccountConstants
    BY <1>2, TransferConstants, ValidationConstants DEF MandateConstants
  <2> HIDE DEF t
  <2>2. QED
    BY <1>4, <1>6, <1>7, <2>1, PaymentWithinMandate
<1>9. QED
  BY <1>1, <1>3, <1>8 DEF TransferWithinMandate

LEMMA BalanceStep ==
  ASSUME TransferInductive, [Next]_vars
  PROVE  TransferWithinMandate' /\ (executed' = {} => balance' = NoBalance)
<1>1. ASSUME NEW i \in DOMAIN list, Execute(i)
      PROVE  TransferWithinMandate' /\ executed' # {}
  BY <1>1, ExecuteWithin DEF Execute
<1>2. UNCHANGED <<mandate, executed, balance>> =>
        TransferWithinMandate' /\ (executed' = {} => balance' = NoBalance)
  BY DEF TransferInductive, TransferWithinMandate
<1>3. CASE Validate \/ TokenInfo \/ Countersign
  BY <1>2, <1>3 DEF Validate, TokenInfo, Countersign
<1>4. CASE ChangeFee \/ Tick \/ UNCHANGED vars
  BY <1>2, <1>4 DEF ChangeFee, Tick, vars
<1>5. QED
  BY <1>1, <1>3, <1>4 DEF Next

----------------------------------------------------------------------------
LEMMA TransferStart == Init => TransferInductive
<1> SUFFICES ASSUME Init PROVE TransferInductive
  OBVIOUS
<1>1. ~ Passed /\ executed = {} /\ now \in Nat /\ mandate \in Mandates /\ list \in Submissions
  BY DEF Init, Passed
<1>2. balance = NoBalance /\ TransferWithinMandate
  BY <1>1, NothingWithinMandate, TransferConstants, ValidationConstants
     DEF Init, TransferWithinMandate, MandateConstants
<1>3. pc = "submitted" /\ (mandate.asset = Hbar => FreeOfFeesForGood)
  BY DEF Init, FreeOfFeesForGood
<1>4. QED
  BY <1>1, <1>2, <1>3 DEF TransferInductive, Timely, SignedShape

LEMMA TransferStep == TransferInductive /\ [Next]_vars => TransferInductive'
<1> SUFFICES ASSUME TransferInductive, [Next]_vars PROVE TransferInductive'
  OBVIOUS
<1>1. /\ mandate' = mandate /\ list' = list
      /\ now' \in Nat /\ now <= now'
      /\ ~ Validate => (Passed' => Passed)
      /\ pc = "released" => pc' = "released"
  BY Kept
<1>2. now \in Nat /\ mandate \in Mandates /\ list \in Submissions
  BY DEF TransferInductive
<1>3. Validate /\ Passed' => MandateActive /\ ListPasses
  BY DEF Validate, Passed
<1>4. Timely'
  <2> SUFFICES ASSUME Passed'
               PROVE  /\ mandate.validFrom * TicksPerSecond <= now'
                      /\ \A i \in DOMAIN list : Ends(list[i]) <= mandate.expires * TicksPerSecond
    BY <1>1 DEF Timely, Ends
  <2>1. /\ mandate.validFrom * TicksPerSecond <= now
        /\ \A i \in DOMAIN list : Ends(list[i]) <= mandate.expires * TicksPerSecond
    BY <1>1, <1>2, <1>3, ValidationTimely DEF TransferInductive, Timely
  <2>2. mandate.validFrom * TicksPerSecond \in Int
    BY <1>2, TransferConstants, ValidationConstants DEF MandateConstants
  <2>3. mandate.validFrom * TicksPerSecond <= now'
    BY ONLY <1>1, <1>2, <2>1, <2>2
  <2>4. QED
    BY <2>1, <2>3
<1>5. SignedShape'
  <2> SUFFICES ASSUME Passed', NEW i \in DOMAIN list
               PROVE  /\ list[i].plain
                      /\ list[i].payer \notin {Treasury, GuardAccount}
                      /\ PaysAsMandated(list[i].transfer, mandate)
    BY <1>1 DEF SignedShape
  <2>1. QED
    BY <1>1, <1>2, <1>3, ValidationShape DEF TransferInductive, SignedShape
<1>6. Passed' => \A i, j \in DOMAIN list : TransactionId(list[i]) = TransactionId(list[j])
  BY <1>1, <1>2, <1>3, OneId DEF TransferInductive
<1>7. executed' # {} => pc' = "released"
  BY <1>1, ExecutedStep DEF TransferInductive
<1>8. \A e \in executed' : \E i \in DOMAIN list : e = TransactionId(list[i])
  BY ExecutedStep DEF TransferInductive
<1>9. pc' \in {"approved", "released"} \/ mandate.asset = Hbar => FreeOfFeesForGood'
  BY FeesStep
<1>10. TransferWithinMandate' /\ (executed' = {} => balance' = NoBalance)
  BY BalanceStep
<1>11. QED
  BY <1>1, <1>2, <1>4, <1>5, <1>6, <1>7, <1>8, <1>9, <1>10 DEF TransferInductive, TransactionId

(* The invariant of the argument holds in every state.                     *)
THEOREM TransferInvariant == Spec => []TransferInductive
<1>1. QED
  BY TransferStart, TransferStep, PTL DEF Spec

(* The guard's signature releases value at most once: although the bytes   *)
(* hold a transaction for each of several nodes, consensus executes one.   *)
THEOREM ReleasesOnce == Spec => []MovesOnce
<1>1. TransferInductive => MovesOnce
  <2> SUFFICES ASSUME TransferInductive, NEW e \in executed, NEW f \in executed PROVE e = f
    BY DEF MovesOnce
  <2>1. Passed
    BY DEF TransferInductive, Passed
  <2>2. QED
    BY <2>1 DEF TransferInductive
<1>2. QED
  BY <1>1, TransferInvariant, PTL

(* Every transaction the guard signs pays one recipient of the allowlist   *)
(* at most the cap, in the mandate's asset and out of the treasury, at     *)
(* somebody else's fee.                                                    *)
THEOREM SignsAsMandated == Spec => []SignedShape
<1>1. TransferInductive => SignedShape
  BY DEF TransferInductive
<1>2. QED
  BY <1>1, TransferInvariant, PTL

(* Whatever is done with the signed bytes, over every node and every later *)
(* change of the token's fees, what moves is what the mandate allows: the  *)
(* treasury loses at most the cap, in the mandate's asset, the guard       *)
(* nothing, and only the allowlist gains.                                  *)
THEOREM TransfersKeepMandate == Spec => []TransferWithinMandate
<1>1. TransferInductive => TransferWithinMandate
  BY DEF TransferInductive
<1>2. QED
  BY <1>1, TransferInvariant, PTL

(* Value moves only while the mandate is active, to the tick.              *)
THEOREM MovesInTime == Spec => TransferInsideMandate
<1>1. TransferInductive /\ [Next]_vars =>
        [executed' # executed =>
           /\ mandate.validFrom * TicksPerSecond <= now
           /\ now < mandate.expires * TicksPerSecond]_vars
  <2> SUFFICES ASSUME TransferInductive, [Next]_vars, executed' # executed
               PROVE  /\ mandate.validFrom * TicksPerSecond <= now
                      /\ now < mandate.expires * TicksPerSecond
    OBVIOUS
  <2>1. PICK i \in DOMAIN list : pc = "released" /\ now < Ends(list[i])
    BY ExecutedStep
  <2>2. /\ mandate.validFrom * TicksPerSecond <= now
        /\ Ends(list[i]) <= mandate.expires * TicksPerSecond
    BY <2>1 DEF TransferInductive, Timely, Passed
  <2>3. now \in Int /\ Ends(list[i]) \in Int /\ mandate.expires * TicksPerSecond \in Int
    <3>1. list[i].start \in Nat /\ list[i].seconds \in Nat
      BY ListTyped DEF TransferInductive
    <3>2. TicksPerSecond \in Nat /\ mandate.expires \in Nat /\ now \in Nat
      BY TransferConstants, ValidationConstants DEF TransferInductive, MandateConstants
    <3>3. QED
      BY <3>1, <3>2 DEF Ends
  <2>4. QED
    BY ONLY <2>1, <2>2, <2>3
<1>2. QED
  BY <1>1, TransferInvariant, PTL DEF Spec, TransferInsideMandate
============================================================================
