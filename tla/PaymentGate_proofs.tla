------------------------- MODULE PaymentGate_proofs -------------------------
(***************************************************************************)
(* Proofs about start-up, the payment gate and the clients that pay, for   *)
(* any deployments, topics, payments and bodies, any caps, and any number  *)
(* of calls.                                                               *)
(***************************************************************************)
EXTENDS HostedReview, FiniteSetTheorems, TLAPS

----------------------------------------------------------------------------
(* The authorization tree of a treasury.                                   *)

(* How many of two there are.                                              *)
LEMMA PairCount ==
  ASSUME NEW S \in SUBSET (1..2)
  PROVE  /\ Cardinality(S) >= 1 <=> S # {}
         /\ Cardinality(S) >= 2 <=> 1 \in S /\ 2 \in S
<1>1. Cardinality({}) = 0
  BY FS_EmptySet
<1>2. Cardinality({1}) = 1 /\ Cardinality({2}) = 1
  BY FS_Singleton
<1>3. Cardinality({1, 2}) = 2
  <2>1. {1, 2} = {1} \cup {2} /\ 2 \notin {1}
    OBVIOUS
  <2> QED
    BY <1>2, <2>1, FS_Singleton, FS_AddElement
<1>4. CASE S = {}
  BY <1>1, <1>4
<1>5. CASE S = {1} \/ S = {2}
  BY <1>2, <1>5
<1>6. CASE S = {1, 2}
  BY <1>3, <1>6
<1>7. S = {} \/ S = {1} \/ S = {2} \/ S = {1, 2}
  <2>1. \A x \in S : x = 1 \/ x = 2
    OBVIOUS
  <2> QED
    BY <2>1, Zenon
<1> QED
  BY <1>4, <1>5, <1>6, <1>7

LEMMA MemberOfSeq ==
  ASSUME NEW S, NEW s \in Seq(S), NEW i \in 1..Len(s)
  PROVE  s[i] \in S
OBVIOUS

(* A tree that start-up accepts opens for the owner, and for the agent     *)
(* together with the guard, whatever other keys sign.                      *)
LEMMA ExpectedTreeGuards ==
  ASSUME NEW tree \in AuthorizationTrees,
         NEW owner, NEW agent, NEW guard, NEW signers,
         agent # guard,
         HasExpectedTreasuryKey(tree, owner, agent, guard)
  PROVE  Opens(tree, signers) <=> (owner \in signers \/ {agent, guard} \subseteq signers)
<1>1. PICK i \in 1..2 :
        /\ tree.branches[i] = Single(owner)
        /\ tree.branches[3 - i].threshold = 2
        /\ Len(tree.branches[3 - i].keys) = 2
        /\ {agent, guard} \subseteq {tree.branches[3 - i].keys[j] : j \in 1..2}
  BY DEF HasExpectedTreasuryKey
<1> DEFINE both == tree.branches[3 - i]
           open == {b \in DOMAIN tree.branches : OpensBranch(tree.branches[b], signers)}
           signed == {j \in DOMAIN both.keys : both.keys[j] \in signers}
<1>2. /\ tree.threshold = 1 /\ Len(tree.branches) = 2
      /\ DOMAIN tree.branches = 1..2
  BY DEF HasExpectedTreasuryKey
<1>3. 3 - i \in 1..2 /\ 3 - i # i /\ 1..2 = {i, 3 - i}
  OBVIOUS
<1>4. both \in [threshold : Nat, keys : Seq(Names)]
  <2>1. tree.branches \in Seq([threshold : Nat, keys : Seq(Names)])
    BY DEF AuthorizationTrees
  <2> QED
    BY <1>2, <1>3, <2>1, MemberOfSeq
<1>5. DOMAIN both.keys = 1..2
  BY <1>1, <1>4
<1>6. OpensBranch(tree.branches[i], signers) <=> owner \in signers
  BY <1>1 DEF OpensBranch, Single, IsKey, KeyOf
<1>7. OpensBranch(both, signers) <=> {agent, guard} \subseteq signers
  <2>1. ~ IsKey(both)
    BY <1>1 DEF IsKey
  <2>2. OpensBranch(both, signers) <=> Cardinality(signed) >= 2
    BY <1>1, <2>1 DEF OpensBranch
  <2>3. Cardinality(signed) >= 2 <=> 1 \in signed /\ 2 \in signed
    <3>1. signed \in SUBSET (1..2)
      BY <1>5
    <3> QED
      BY <3>1, PairCount
  <2>4. /\ 1 \in signed <=> both.keys[1] \in signers
        /\ 2 \in signed <=> both.keys[2] \in signers
    BY <1>5
  <2>5. {agent, guard} = {both.keys[1], both.keys[2]}
    BY <1>1
  <2> QED
    BY <2>2, <2>3, <2>4, <2>5
<1>8. Opens(tree, signers) <=> open # {}
  <2>1. open \in SUBSET (1..2)
    BY <1>2
  <2> QED
    BY <1>2, <2>1, PairCount DEF Opens
<1> QED
  BY <1>2, <1>3, <1>6, <1>7, <1>8

----------------------------------------------------------------------------
(* Start-up.                                                               *)

TreasuriesChecked ==
    \A t \in Tenants :
        /\ HasExpectedTreasuryKey(t.tree, t.owner, t.agent, config.guard)
        /\ t.agentKey = t.agent

(* A process that came this far looked at all that comes before.           *)
BootInductive ==
    /\ config \in Configs
    /\ boot \in Startable \cup {"serving", "stopped"}
    /\ boot \notin {"config", "stopped"} => ConfigIsSound
    /\ boot \in {"store", "gate", "log", "serving"} => TreasuriesChecked
    /\ boot \in {"log", "serving"} => GateIsSound
    /\ boot = "serving" => TopicIsSound(topic)

LEMMA BootStarts == StartInit => BootInductive
BY DEF StartInit, BootInductive, Startable

LEMMA SameConfig ==
  ASSUME config' = config
  PROVE  /\ Tenants' = Tenants
         /\ ConfigIsSound' <=> ConfigIsSound
         /\ TreasuriesChecked' <=> TreasuriesChecked
         /\ GateIsSound' <=> GateIsSound
<1>1. Tenants' = Tenants
  BY DEF Tenants
<1> QED
  BY <1>1 DEF ConfigIsSound, TreasuriesChecked, GateIsSound, KeysAreDistinct, FeeIdentityIsApart

(* Whatever start-up, a crash and the holders of the topic's keys do.      *)
BootStep == StartNext \/ Crash \/ AdminChangesTopic \/ FeesChange \/ UNCHANGED startVars

LEMMA BootKeepsConfig ==
  ASSUME BootStep PROVE config' = config
BY DEF BootStep, StartNext, Crash, AdminChangesTopic, FeesChange, startVars, CheckConfig,
       QueryFeeAccount, QueryTenants, OpenStore, CreateGate, LookupTopic, CreateTopic,
       CallFails, Restart, Check

LEMMA BootSteps ==
  ASSUME BootInductive, BootStep
  PROVE  BootInductive'
<1>0. config' = config
  BY BootKeepsConfig
<1> USE <1>0, SameConfig DEF BootInductive
<1>1. CASE CheckConfig
  BY <1>1 DEF CheckConfig, Check, Startable
<1>2. CASE QueryFeeAccount
  BY <1>2 DEF QueryFeeAccount, Check, Startable
<1>3. CASE QueryTenants
  BY <1>3 DEF QueryTenants, Check, Startable, TreasuriesChecked
<1>4. CASE OpenStore
  BY <1>4 DEF OpenStore, Check, Startable
<1>5. CASE CreateGate
  BY <1>5 DEF CreateGate, Check, Startable
<1>6. CASE LookupTopic
  BY <1>6 DEF LookupTopic, Check, Startable, TopicIsSound
<1>7. CASE CreateTopic
  BY <1>7 DEF CreateTopic, CreatedTopic, Startable, TopicIsSound
<1>8. CASE CallFails
  BY <1>8 DEF CallFails, Startable
<1>9. CASE Restart \/ Crash
  BY <1>9 DEF Restart, Crash, Startable
<1>10. CASE AdminChangesTopic \/ FeesChange
  BY <1>10 DEF AdminChangesTopic, FeesChange, TopicIsSound
<1>11. CASE UNCHANGED startVars
  BY <1>11 DEF startVars, TopicIsSound
<1> QED
  BY <1>1, <1>2, <1>3, <1>4, <1>5, <1>6, <1>7, <1>8, <1>9, <1>10, <1>11
     DEF BootStep, StartNext

LEMMA BootGuards ==
  ASSUME BootInductive
  PROVE  AgentNeedsGuard /\ TopicStaysOurs
<1> SUFFICES ASSUME boot = "serving"
             PROVE  AgentNeedsGuard /\ TopicStaysOurs
  BY DEF AgentNeedsGuard, TopicStaysOurs
<1>1. ConfigIsSound /\ TreasuriesChecked /\ TopicIsSound(topic) /\ config \in Configs
  BY DEF BootInductive
<1>2. AgentNeedsGuard
  <2>1. SUFFICES ASSUME NEW t \in Tenants, NEW signers
                 PROVE  Opens(t.tree, signers) <=>
                            (t.owner \in signers \/ {t.agent, config.guard} \subseteq signers)
    BY DEF AgentNeedsGuard
  <2>2. t.tree \in AuthorizationTrees
    BY <1>1, ConfigTypes DEF Tenants
  <2>3. t.agent # config.guard /\ HasExpectedTreasuryKey(t.tree, t.owner, t.agent, config.guard)
    BY <1>1 DEF ConfigIsSound, KeysAreDistinct, TreasuriesChecked
  <2>4. \A tree \in AuthorizationTrees : \A owner, agent, guard :
          agent # guard /\ HasExpectedTreasuryKey(tree, owner, agent, guard) =>
            (Opens(tree, signers) <=> (owner \in signers \/ {agent, guard} \subseteq signers))
    BY ExpectedTreeGuards
  <2> HIDE DEF Tenants
  <2> QED
    BY <2>2, <2>3, <2>4
<1>3. TopicStaysOurs
  BY <1>1 DEF TopicStaysOurs, TopicIsSound, ConfigIsSound
<1> QED
  BY <1>2, <1>3

----------------------------------------------------------------------------
(* The quote.                                                              *)

(* A charge by the kilobyte, rounded up.                                   *)
LEMMA RoundedUp ==
  ASSUME NEW x \in Int, NEW c, c = (x + (Kilobyte - 1)) \div Kilobyte
  PROVE  c \in Int /\ c * Kilobyte >= x /\ (c - 1) * Kilobyte < x
BY DEF Kilobyte

(* What the meter sees of a body.                                          *)
AnyBody == [bytes : Nat, adjustments : Nat, decodes : BOOLEAN, inPolicy : BOOLEAN]

Meters == [base : Int, perKilobyte : Int, perAdjustment : Int, min : Int, max : Int]

(* A quote is an amount, whatever the meter.                               *)
LEMMA QuoteIsAmount ==
  ASSUME NEW b \in AnyBody, NEW m \in Meters
  PROVE  Quote(b, m) \in Int /\ Adjustments(b) \in Nat
<1>1. b.bytes \in Nat /\ Adjustments(b) \in Nat
  BY DEF Adjustments, AnyBody
<1>2. b.bytes * m.perKilobyte \in Int /\ Adjustments(b) * m.perAdjustment \in Int
  BY <1>1 DEF Meters
<1>3. ByteCharge(b, m) \in Int
  BY <1>2, RoundedUp DEF ByteCharge
<1> QED
  BY <1>1, <1>2, <1>3 DEF Quote, Clamp, Meters

(* The quote of a meter that start-up accepts is the fair fee: the least   *)
(* that pays for the bytes and the adjustments, within the bounds.         *)
THEOREM QuoteIsFair ==
  ASSUME NEW b \in AnyBody, NEW m \in Meters, m.min <= m.max
  PROVE  FairFee(Quote(b, m), b, m)
<1> DEFINE x == b.bytes * m.perKilobyte
           extra == Adjustments(b) * m.perAdjustment
           c == ByteCharge(b, m)
           a == Quote(b, m)
           base == m.base
           low == m.min
           high == m.max
<1>1. b.bytes \in Nat /\ Adjustments(b) \in Nat
  BY DEF Adjustments, AnyBody
<1>2. x \in Int /\ extra \in Int
  BY <1>1 DEF Meters
<1>3. c = (x + (Kilobyte - 1)) \div Kilobyte
  BY DEF ByteCharge
<1>4. a = Clamp(base + c + extra, low, high)
  BY DEF Quote
<1>5. base \in Int /\ low \in Int /\ high \in Int /\ low <= high
  BY DEF Meters
<1>6. /\ low <= a /\ a <= high
      /\ a = high \/ (a - base - extra) * Kilobyte >= x
      /\ a = low \/ (a - base - extra - 1) * Kilobyte < x
  <2> HIDE DEF x, extra, c, a, base, low, high
  <2>1. c \in Int /\ c * Kilobyte >= x /\ (c - 1) * Kilobyte < x
    BY <1>2, <1>3, RoundedUp
  <2>2. CASE base + c + extra < low
    BY <1>2, <1>4, <1>5, <2>1, <2>2 DEF Clamp, Kilobyte
  <2>3. CASE base + c + extra > high
    BY <1>2, <1>4, <1>5, <2>1, <2>3 DEF Clamp, Kilobyte
  <2>4. CASE low <= base + c + extra /\ base + c + extra <= high
    BY <1>2, <1>4, <1>5, <2>1, <2>4 DEF Clamp, Kilobyte
  <2> QED
    BY <1>2, <1>5, <2>1, <2>2, <2>3, <2>4
<1> QED
  BY <1>6 DEF FairFee

----------------------------------------------------------------------------
(* Payments.                                                               *)
Paths == {"/review", "/countersign"}
TermsSet == [amount : Int, meter : [bytes : Nat, adjustments : Nat]]
SignedPayments ==
    [form : {"plain", "opaque", "unreadable"}, payer : Names, debit : Names,
     signer : Names, to : Names, amount : Int, terms : TermsSet]
Fates == {"signed", "submitted", "executed", "seen"}
Fees == [payment : SignedPayments, purchase : {1, 2}, fate : Fates]
Stages == {"received", "settling", "working", "decided", "answered"}
Answers == Outcomes \cup {"none"}
CallsMade ==
    [stage : Stages, path : Paths, body : AnyBody, fee : Nat, status : Nat,
     receipt : BOOLEAN, outcome : Answers]

GateTypeOK ==
    /\ fees \in Seq(Fees)
    /\ worked \in Seq([fee : Nat, path : Paths, body : AnyBody])
    /\ call = NoCall \/ (call \in CallsMade /\ call.fee \in 0..Len(fees))

(* What the gate made sure of before a payment could settle.               *)
PaymentSound(p) ==
    /\ p.form = "plain"
    /\ p.to = config.feeAccount
    /\ p.amount = p.terms.amount
    /\ \A t \in Tenants :
        /\ t.treasury \notin {p.payer, p.debit}
        /\ p.signer \notin {t.owner, t.agent, config.guard}

SettledIsSound ==
    \A i \in DOMAIN fees : fees[i].fate # "signed" =>
        ConfigIsSound /\ GateIsSound /\ PaymentSound(fees[i].payment)

(* A request that waits for its settlement passed the gate.                *)
SettlingIsVerified == call.stage = "settling" => PaymentVerified

(* Work was paid for by the fee of its own terms.                          *)
WorkIsSettled ==
    /\ \A i \in DOMAIN worked :
        /\ worked[i].fee \in DOMAIN fees
        /\ Paid(worked[i].fee)
        /\ fees[worked[i].fee].payment.terms = Terms(worked[i].path, worked[i].body)
    /\ \A i, j \in DOMAIN worked : worked[i].fee = worked[j].fee => i = j

GateInductive ==
    /\ BootInductive
    /\ GateTypeOK
    /\ SettledIsSound
    /\ SettlingIsVerified
    /\ WorkIsSettled

LEMMA GateStarts == GateInit => GateInductive
<1> SUFFICES ASSUME GateInit PROVE GateInductive
  OBVIOUS
<1>1. BootInductive
  BY BootStarts DEF GateInit
<1>2. fees = <<>> /\ worked = <<>> /\ call = NoCall
  BY DEF GateInit
<1>3. GateTypeOK
  BY <1>2 DEF GateTypeOK
<1>4. SettledIsSound /\ WorkIsSettled
  BY <1>2 DEF SettledIsSound, WorkIsSettled
<1>5. SettlingIsVerified
  BY <1>2 DEF SettlingIsVerified, NoCall
<1> QED
  BY <1>1, <1>3, <1>4, <1>5 DEF GateInductive

(* A payment that the gate verified is sound.                              *)
LEMMA VerifiedIsSound ==
  ASSUME GateTypeOK, ConfigIsSound, PaymentVerified, call \in CallsMade
  PROVE  /\ call.fee \in DOMAIN fees
         /\ PaymentSound(fees[call.fee].payment)
         /\ fees[call.fee].payment.terms = Terms(call.path, call.body)
<1>1. call.fee \in DOMAIN fees
  <2>1. fees \in Seq(Fees) /\ call.fee \in 0..Len(fees) /\ call.fee # 0
    BY DEF GateTypeOK, PaymentVerified, AcceptedPayment, HasPayment, CallsMade, Stages, NoCall
  <2> HIDE DEF Fees
  <2> QED
    BY <2>1
<1>2. Payment \in SignedPayments
  <2>1. fees[call.fee] \in Fees
    BY <1>1, MemberOfSeq DEF GateTypeOK
  <2> QED
    BY <2>1 DEF Payment, Fees
<1>3. Payment.form = "plain"
  <2>1. Payment.form # "unreadable"
    BY DEF PaymentVerified
  <2>2. Payment.form # "opaque"
    BY DEF PaymentVerified, AcceptedPayment, UsesTreasuryAuthorizationIdentity, ConfigIsSound
  <2> QED
    BY <1>2, <2>1, <2>2 DEF SignedPayments
<1> QED
  BY <1>1, <1>3 DEF PaymentVerified, AcceptedPayment, PaymentSound, Payment,
     UsesTreasuryAuthorizationIdentity, TermsMatch, FacilitatorVerifies

----------------------------------------------------------------------------
(* The terms of a body are terms, whatever the deployment.                 *)
LEMMA TermsAreTyped ==
  ASSUME config \in Configs, NEW path \in Paths, NEW b \in AnyBody
  PROVE  Terms(path, b) \in TermsSet
<1>1. config.meter \in Meters /\ config.price \in Int /\ b.bytes \in Nat
  BY ConfigTypes DEF Meters, AnyBody
<1>2. Quote(b, config.meter) \in Int /\ Adjustments(b) \in Nat
  BY <1>1, QuoteIsAmount
<1> QED
  BY <1>1, <1>2 DEF Terms, TermsSet, NoMeter

(* What every step does to the fees: none is taken back or altered, and    *)
(* none leaves the client's hand but through the gate.                     *)
FeesKept ==
    /\ fees' \in Seq(Fees) /\ Len(fees) <= Len(fees')
    /\ \A j \in DOMAIN fees :
        /\ fees'[j].payment = fees[j].payment
        /\ Paid(j) => fees'[j].fate \in {"executed", "seen"}
    /\ \A j \in DOMAIN fees' : fees'[j].fate # "signed" =>
        \/ j \in DOMAIN fees /\ fees[j].fate # "signed"
        \/ ConfigIsSound /\ GateIsSound /\ PaymentSound(fees'[j].payment)

LEMMA UnchangedKeeps ==
  ASSUME GateTypeOK, UNCHANGED fees
  PROVE  FeesKept
BY DEF FeesKept, GateTypeOK, Paid

(* The fate of one payment.                                                *)
LEMMA FateSet ==
  ASSUME GateTypeOK, NEW i \in DOMAIN fees, NEW f \in Fates, Fate(i, f)
  PROVE  /\ fees' \in Seq(Fees) /\ Len(fees') = Len(fees)
         /\ \A j \in DOMAIN fees :
            /\ fees'[j].payment = fees[j].payment
            /\ fees'[j].fate = IF j = i THEN f ELSE fees[j].fate
<1>1. fees \in Seq(Fees)
  BY DEF GateTypeOK
<1>2. DOMAIN fees = 1..Len(fees)
  BY <1>1
<1>3. \A j \in DOMAIN fees : fees[j] \in Fees
  BY <1>1, <1>2, MemberOfSeq
<1>4. DOMAIN fees' = 1..Len(fees) /\ Len(fees) \in Nat
  BY <1>1, <1>2 DEF Fate
<1>5. \A j \in DOMAIN fees :
        /\ fees'[j] \in Fees
        /\ fees'[j].payment = fees[j].payment
        /\ fees'[j].fate = IF j = i THEN f ELSE fees[j].fate
  BY <1>3 DEF Fate, Fees
<1>6. fees' = [j \in 1..Len(fees) |-> fees'[j]]
  BY <1>2, <1>4 DEF Fate
<1>7. fees' \in Seq(Fees) /\ Len(fees') = Len(fees)
  <2> DEFINE n == Len(fees)
             g == fees'
  <2> HIDE DEF n, g
  <2>1. n \in Nat /\ g = [j \in 1..n |-> g[j]] /\ \A j \in 1..n : g[j] \in Fees
    BY <1>2, <1>4, <1>5, <1>6 DEF n, g
  <2>2. g \in Seq(Fees) /\ Len(g) = n
    <3> HIDE DEF Fees
    <3> QED
      BY <2>1
  <2> QED
    BY <2>2 DEF n, g
<1> QED
  BY <1>5, <1>7

(* A payment goes from signed only through the gate, and a paid one only   *)
(* to the mirror.                                                          *)
LEMMA FateKeeps ==
  ASSUME GateTypeOK, NEW i \in DOMAIN fees, NEW f \in Fates, Fate(i, f),
         Paid(i) => f \in {"executed", "seen"},
         \/ fees[i].fate # "signed"
         \/ ConfigIsSound /\ GateIsSound /\ PaymentSound(fees[i].payment)
  PROVE  FeesKept
<1>1. /\ fees' \in Seq(Fees) /\ Len(fees') = Len(fees) /\ fees \in Seq(Fees)
      /\ \A j \in DOMAIN fees :
            /\ fees'[j].payment = fees[j].payment
            /\ fees'[j].fate = IF j = i THEN f ELSE fees[j].fate
  BY FateSet DEF GateTypeOK
<1>2. DOMAIN fees' = DOMAIN fees
  <2> HIDE DEF Fees
  <2> QED
    BY <1>1
<1> QED
  BY <1>1, <1>2 DEF FeesKept, Paid

LEMMA PaymentSoundKept ==
  ASSUME config' = config, NEW p
  PROVE  PaymentSound(p)' <=> PaymentSound(p)
BY SameConfig DEF PaymentSound

LEMMA SettledKept ==
  ASSUME SettledIsSound, FeesKept, config' = config
  PROVE  SettledIsSound'
<1> SUFFICES ASSUME NEW j \in DOMAIN fees', fees'[j].fate # "signed"
             PROVE  ConfigIsSound /\ GateIsSound /\ PaymentSound(fees'[j].payment)
  BY SameConfig DEF SettledIsSound, PaymentSound
<1> QED
  BY DEF FeesKept, SettledIsSound

LEMMA WorkKept ==
  ASSUME GateTypeOK, WorkIsSettled, FeesKept, UNCHANGED worked, config' = config
  PROVE  WorkIsSettled'
<1>1. \A j \in DOMAIN fees : j \in DOMAIN fees'
  <2>1. Len(fees) \in Nat /\ DOMAIN fees = 1..Len(fees)
        /\ Len(fees') \in Nat /\ DOMAIN fees' = 1..Len(fees') /\ Len(fees) <= Len(fees')
    <3> HIDE DEF Fees
    <3> QED
      BY DEF GateTypeOK, FeesKept
  <2> QED
    BY <2>1
<1>2. \A path, b : Terms(path, b)' = Terms(path, b)
  BY DEF Terms
<1> QED
  BY <1>1, <1>2 DEF WorkIsSettled, FeesKept, Paid

LEMMA VerifiedKept ==
  ASSUME PaymentVerified, FeesKept, config' = config,
         call.fee \in DOMAIN fees, call'.fee = call.fee,
         call'.path = call.path, call'.body = call.body
  PROVE  PaymentVerified'
<1>1. Payment' = Payment /\ HasPayment' = HasPayment
  BY DEF FeesKept, Payment, HasPayment
<1>2. Terms(call.path, call.body)' = Terms(call.path, call.body)
  BY DEF Terms
<1> QED
  BY <1>1, <1>2, SameConfig DEF PaymentVerified, AcceptedPayment, TermsMatch,
     FacilitatorVerifies, UsesTreasuryAuthorizationIdentity

----------------------------------------------------------------------------
(* The steps.                                                              *)

(* A request that is answered, or looked at further.                       *)
LEMMA CallMoves ==
  ASSUME GateTypeOK, call \in CallsMade, FeesKept,
         NEW s \in Stages,
         NEW n \in Nat, NEW r \in BOOLEAN,
         NEW o \in Answers,
         call' = [call EXCEPT !.stage = s, !.status = n, !.receipt = r, !.outcome = o]
  PROVE  /\ call' \in CallsMade /\ call'.fee \in 0..Len(fees')
         /\ call'.stage = s /\ call'.fee = call.fee
         /\ call'.path = call.path /\ call'.body = call.body
<1>1. call' \in CallsMade /\ call'.stage = s /\ call'.fee = call.fee
      /\ call'.path = call.path /\ call'.body = call.body
  BY DEF CallsMade
<1>2. call.fee \in 0..Len(fees)
  BY DEF GateTypeOK, CallsMade, NoCall
<1>3. Len(fees) \in Nat /\ Len(fees') \in Nat /\ Len(fees) <= Len(fees')
  <2> HIDE DEF Fees
  <2> QED
    BY DEF GateTypeOK, FeesKept
<1> QED
  BY <1>1, <1>2, <1>3

(* A step after which no request waits for its settlement.                 *)
LEMMA AnswerSteps ==
  ASSUME GateInductive, BootStep, FeesKept, UNCHANGED worked, call \in CallsMade,
         NEW s \in Stages \ {"settling"},
         NEW n \in Nat, NEW r \in BOOLEAN,
         NEW o \in Answers,
         call' = [call EXCEPT !.stage = s, !.status = n, !.receipt = r, !.outcome = o]
  PROVE  GateInductive'
<1>1. config' = config /\ BootInductive'
  BY BootKeepsConfig, BootSteps DEF GateInductive
<1>2. SettledIsSound' /\ WorkIsSettled'
  BY <1>1, SettledKept, WorkKept DEF GateInductive
<1>3. call' \in CallsMade /\ call'.fee \in 0..Len(fees') /\ call'.stage = s
  <2>1. GateTypeOK /\ s \in Stages
    BY DEF GateInductive
  <2> QED
    BY <2>1, CallMoves
<1>4. GateTypeOK'
  BY <1>3 DEF GateTypeOK, FeesKept, GateInductive
<1>5. SettlingIsVerified'
  BY <1>3 DEF SettlingIsVerified
<1> QED
  BY <1>1, <1>2, <1>4, <1>5 DEF GateInductive

(* A step that leaves the request where it is.                             *)
LEMMA AroundSteps ==
  ASSUME GateInductive, BootStep, FeesKept, UNCHANGED <<call, worked>>
  PROVE  GateInductive'
<1>1. config' = config /\ BootInductive'
  BY BootKeepsConfig, BootSteps DEF GateInductive
<1>2. SettledIsSound' /\ WorkIsSettled'
  BY <1>1, SettledKept, WorkKept DEF GateInductive
<1>3. Len(fees) \in Nat /\ Len(fees') \in Nat /\ Len(fees) <= Len(fees')
      /\ DOMAIN fees = 1..Len(fees)
  <2> HIDE DEF Fees
  <2> QED
    BY DEF GateInductive, GateTypeOK, FeesKept
<1>4. GateTypeOK'
  <2>1. call \in CallsMade /\ call.fee \in 0..Len(fees) => call.fee \in 0..Len(fees')
    BY <1>3
  <2> QED
    BY <2>1 DEF GateTypeOK, FeesKept, GateInductive
<1>5. SettlingIsVerified'
  <2> SUFFICES ASSUME call.stage = "settling" PROVE PaymentVerified'
    BY DEF SettlingIsVerified
  <2>1. PaymentVerified /\ call \in CallsMade
    BY DEF GateInductive, SettlingIsVerified, GateTypeOK, NoCall
  <2>2. call.fee \in DOMAIN fees
    BY <1>3, <2>1 DEF GateInductive, GateTypeOK, PaymentVerified, AcceptedPayment, HasPayment,
       NoCall, CallsMade
  <2> QED
    BY <1>1, <2>1, <2>2, VerifiedKept
<1> QED
  BY <1>1, <1>2, <1>4, <1>5 DEF GateInductive

LEMMA Unmoved == UNCHANGED startVars => BootStep
BY DEF BootStep

(* A request at the guard is one that was made.                            *)
LEMMA CallIsMade ==
  ASSUME GateTypeOK, call.stage # "none"
  PROVE  call \in CallsMade
BY DEF GateTypeOK, NoCall

LEMMA Serving ==
  ASSUME GateInductive, boot = "serving"
  PROVE  ConfigIsSound /\ GateIsSound
BY DEF GateInductive, BootInductive

(* A request is answered.                                                  *)
LEMMA ReplySteps ==
  ASSUME GateInductive, BootStep, FeesKept, UNCHANGED worked, call \in CallsMade,
         NEW n \in Nat, NEW r \in BOOLEAN, NEW o \in Answers,
         Reply(n, r, o)
  PROVE  GateInductive'
BY AnswerSteps DEF Reply, Stages

(* Refusals, answers and failures that do not touch the payment.           *)
LEMMA PlainReplies ==
  ASSUME GateInductive, UNCHANGED <<startVars, fees, worked>>, call.stage # "none",
         NEW n \in Nat, NEW r \in BOOLEAN, NEW o \in Answers,
         Reply(n, r, o)
  PROVE  GateInductive'
BY UnchangedKeeps, Unmoved, CallIsMade, ReplySteps DEF GateInductive

(* Verification: nothing but the stage of the request changes.             *)
LEMMA VerifyStep ==
  ASSUME GateInductive, Verify
  PROVE  GateInductive'
<1>1. call \in CallsMade /\ FeesKept /\ BootStep /\ PaymentVerified
      /\ UNCHANGED <<startVars, fees, worked>>
  BY UnchangedKeeps, Unmoved, CallIsMade DEF GateInductive, Verify, AtStage
<1>2. config' = config /\ BootInductive'
  BY <1>1, BootKeepsConfig, BootSteps DEF GateInductive
<1>3. SettledIsSound' /\ WorkIsSettled'
  BY <1>1, <1>2, SettledKept, WorkKept DEF GateInductive
<1>4. /\ call' \in CallsMade /\ call'.fee \in 0..Len(fees')
      /\ call'.fee = call.fee /\ call'.path = call.path /\ call'.body = call.body
  <2>1. call' = [call EXCEPT !.stage = "settling", !.status = call.status,
                             !.receipt = call.receipt, !.outcome = call.outcome]
    BY <1>1 DEF Verify, CallsMade
  <2> QED
    BY <1>1, <2>1, CallMoves DEF GateInductive, CallsMade, Stages
<1>5. GateTypeOK'
  BY <1>1, <1>4 DEF GateTypeOK, GateInductive
<1>6. SettlingIsVerified'
  <2>1. call.fee \in DOMAIN fees
    <3>1. fees \in Seq(Fees) /\ call.fee \in 0..Len(fees) /\ call.fee # 0
      BY <1>1 DEF GateInductive, GateTypeOK, PaymentVerified, AcceptedPayment, HasPayment,
         NoCall, CallsMade
    <3> HIDE DEF Fees
    <3> QED
      BY <3>1
  <2> QED
    BY <1>1, <1>2, <1>4, <2>1, VerifiedKept DEF SettlingIsVerified
<1> QED
  BY <1>2, <1>3, <1>5, <1>6 DEF GateInductive

(* The payment of a request that the facilitator works on.                 *)
LEMMA SettlingPayment ==
  ASSUME GateInductive, boot = "serving", call \in CallsMade, PaymentVerified
  PROVE  /\ call.fee \in DOMAIN fees
         /\ ConfigIsSound /\ GateIsSound /\ PaymentSound(fees[call.fee].payment)
         /\ fees[call.fee].payment.terms = Terms(call.path, call.body)
BY Serving, VerifiedIsSound DEF GateInductive

(* Settlement: the one step that begins work.                              *)
LEMMA SettleStep ==
  ASSUME GateInductive, Settle
  PROVE  GateInductive'
<1>1. /\ boot = "serving" /\ call \in CallsMade /\ PaymentVerified
      /\ UNCHANGED startVars /\ BootStep
  BY CallIsMade, Unmoved DEF GateInductive, SettlingIsVerified, Settle, AtStage
<1>2. config' = config /\ BootInductive'
  BY <1>1, BootKeepsConfig, BootSteps DEF GateInductive
<1>3. /\ call.fee \in DOMAIN fees
      /\ ConfigIsSound /\ GateIsSound /\ PaymentSound(fees[call.fee].payment)
      /\ fees[call.fee].payment.terms = Terms(call.path, call.body)
  BY <1>1, SettlingPayment
<1>4. FeesKept
  BY <1>3, FateKeeps DEF Settle, GateInductive, Fates
<1>5. SettledIsSound'
  BY <1>2, <1>4, SettledKept DEF GateInductive
<1>6. call' \in CallsMade /\ call'.fee \in 0..Len(fees') /\ call'.stage = "working"
  <2>1. call' = [call EXCEPT !.stage = "working", !.status = call.status,
                             !.receipt = TRUE, !.outcome = call.outcome]
    BY <1>1 DEF Settle, CallsMade
  <2> QED
    BY <1>1, <1>4, <2>1, CallMoves DEF GateInductive, CallsMade, Stages
<1>7. LET w == [fee |-> call.fee, path |-> call.path, body |-> call.body]
      IN  worked' = Append(worked, w) /\ w \in [fee : Nat, path : Paths, body : AnyBody]
  BY <1>1 DEF Settle, CallsMade
<1>8. /\ worked' \in Seq([fee : Nat, path : Paths, body : AnyBody])
      /\ DOMAIN worked' = DOMAIN worked \cup {Len(worked) + 1}
      /\ \A i \in DOMAIN worked : worked'[i] = worked[i]
      /\ worked'[Len(worked) + 1] = [fee |-> call.fee, path |-> call.path, body |-> call.body]
  <2> DEFINE W == [fee : Nat, path : Paths, body : AnyBody]
             w == [fee |-> call.fee, path |-> call.path, body |-> call.body]
  <2>1. worked \in Seq(W) /\ w \in W /\ worked' = Append(worked, w)
    BY <1>7 DEF GateInductive, GateTypeOK
  <2>2. /\ worked' \in Seq(W)
        /\ DOMAIN worked' = DOMAIN worked \cup {Len(worked) + 1}
        /\ \A i \in DOMAIN worked : worked'[i] = worked[i]
        /\ worked'[Len(worked) + 1] = w
    <3> HIDE DEF W, w
    <3> QED
      BY <2>1
  <2> QED
    BY <2>2
<1>9. GateTypeOK'
  BY <1>4, <1>6, <1>8 DEF GateTypeOK, FeesKept
<1>10. SettlingIsVerified'
  BY <1>6 DEF SettlingIsVerified
<1>11. /\ \A i \in DOMAIN worked : worked[i].fee \in DOMAIN fees /\ worked[i].fee # call.fee
       /\ \A j \in DOMAIN fees : j \in DOMAIN fees'
       /\ fees'[call.fee].fate = "executed"
       /\ fees'[call.fee].payment = fees[call.fee].payment
  <2>1. ~ Paid(call.fee)
    BY DEF Settle, Paid
  <2>2. DOMAIN fees' = DOMAIN fees
    BY DEF Settle, Fate
  <2>3. fees'[call.fee].fate = "executed" /\ fees'[call.fee].payment = fees[call.fee].payment
    BY <1>3, FateSet DEF Settle, GateInductive, Fates
  <2> QED
    BY <2>1, <2>2, <2>3 DEF GateInductive, WorkIsSettled
<1>12. \A path, b : Terms(path, b)' = Terms(path, b)
  BY <1>2 DEF Terms
<1>13. \A i \in DOMAIN worked' :
        /\ worked'[i].fee \in DOMAIN fees'
        /\ fees'[worked'[i].fee].fate \in {"executed", "seen"}
        /\ fees'[worked'[i].fee].payment.terms = Terms(worked'[i].path, worked'[i].body)
  <2>1. CASE TRUE
    <3> TAKE i \in DOMAIN worked'
    <3>1. CASE i \in DOMAIN worked
      BY <1>4, <1>8, <1>11, <3>1 DEF FeesKept, GateInductive, WorkIsSettled
    <3>2. CASE i = Len(worked) + 1
      BY <1>3, <1>8, <1>11, <3>2
    <3> QED
      BY <1>8, <3>1, <3>2
  <2> QED
    BY <2>1
<1>14. \A i, j \in DOMAIN worked' : worked'[i].fee = worked'[j].fee => i = j
  BY <1>8, <1>11 DEF GateInductive, WorkIsSettled
<1>15. WorkIsSettled'
  BY <1>12, <1>13, <1>14 DEF WorkIsSettled, Paid
<1> QED
  BY <1>2, <1>5, <1>9, <1>10, <1>15 DEF GateInductive

(* Whoever sees a call end may leave a verified payment behind.            *)
LEMMA DroppedKeeps ==
  ASSUME GateInductive, call \in CallsMade, Dropped
  PROVE  FeesKept
<1>1. CASE UNCHANGED fees
  BY <1>1, UnchangedKeeps DEF GateInductive
<1>2. CASE boot = "serving" /\ PaymentVerified /\ fees[call.fee].fate = "signed"
             /\ Fate(call.fee, "submitted")
  BY <1>2, SettlingPayment, FateKeeps DEF GateInductive, Fates, Paid
<1> QED
  BY <1>1, <1>2 DEF Dropped

LEMMA SettleAnswerLostStep ==
  ASSUME GateInductive, SettleAnswerLost
  PROVE  GateInductive'
<1>1. boot = "serving" /\ call \in CallsMade /\ PaymentVerified /\ BootStep
  BY CallIsMade, Unmoved DEF GateInductive, SettlingIsVerified, SettleAnswerLost, AtStage
<1>2. FeesKept
  <2>1. CASE fees[call.fee].fate = "signed" /\ Fate(call.fee, "submitted")
    BY <1>1, <2>1, SettlingPayment, FateKeeps DEF GateInductive, Fates, Paid
  <2>2. CASE UNCHANGED fees
    BY <2>2, UnchangedKeeps DEF GateInductive
  <2> QED
    BY <2>1, <2>2 DEF SettleAnswerLost
<1>3. 500 \in Nat /\ "none" \in Answers
  BY DEF Answers
<1>4. UNCHANGED worked
  BY DEF SettleAnswerLost
<1>5. Reply(500, FALSE, "none")
  BY DEF SettleAnswerLost
<1>6. PICK n \in Nat, r \in BOOLEAN, o \in Answers : Reply(n, r, o)
  <2> USE <1>3
  <2> WITNESS 500 \in Nat, FALSE \in BOOLEAN, "none" \in Answers
  <2> QED
    BY <1>5
<1> QED
  BY <1>1, <1>2, <1>4, <1>6, ReplySteps

LEMMA LossSteps ==
  ASSUME GateInductive, AnswerLost \/ CrashAtWork
  PROVE  GateInductive'
<1>1. call \in CallsMade
  BY CallIsMade DEF GateInductive, AnswerLost, CrashAtWork
<1>2. FeesKept
  BY <1>1, DroppedKeeps DEF AnswerLost, CrashAtWork
<1>3. BootStep
  BY Unmoved DEF AnswerLost, CrashAtWork, BootStep
<1> QED
  BY <1>1, <1>2, <1>3, ReplySteps DEF AnswerLost, CrashAtWork, Answers

(* The ledger and the mirror.                                              *)
LEMMA LedgerSteps ==
  ASSUME GateInductive, NEW i \in DOMAIN fees, ExecuteLate(i) \/ IndexFee(i)
  PROVE  GateInductive'
<1>1. FeesKept
  BY FateKeeps DEF ExecuteLate, IndexFee, GateInductive, Fates, Paid
<1> QED
  BY <1>1, Unmoved, AroundSteps DEF ExecuteLate, IndexFee

LEMMA StartSteps ==
  ASSUME GateInductive, StartNext \/ AdminChangesTopic \/ FeesChange,
         UNCHANGED <<call, fees, worked>>
  PROVE  GateInductive'
BY UnchangedKeeps, AroundSteps DEF GateInductive, BootStep

LEMMA DecideStep ==
  ASSUME GateInductive, NEW o \in Outcomes, Decide(o)
  PROVE  GateInductive'
<1>1. call \in CallsMade /\ BootStep /\ FeesKept /\ UNCHANGED worked
  BY CallIsMade, Unmoved, UnchangedKeeps DEF GateInductive, Decide, AtStage
<1> DEFINE n == call.status
           r == call.receipt
<1>2. call' = [call EXCEPT !.stage = "decided", !.status = n, !.receipt = r, !.outcome = o]
  BY <1>1 DEF Decide, CallsMade
<1>3. n \in Nat /\ r \in BOOLEAN /\ o \in Answers
  BY <1>1 DEF CallsMade, Answers
<1> HIDE DEF n, r
<1> QED
  BY <1>1, <1>2, <1>3, AnswerSteps DEF Stages

(* A call is made, with a payment that may have been signed for it.        *)
LEMMA CallStep ==
  ASSUME GateInductive, UNCHANGED <<startVars, worked>>, FeesKept,
         NEW path \in Paths, NEW b \in AnyBody, NEW i \in 0..Len(fees'),
         call' = Call(path, b, i)
  PROVE  GateInductive'
<1>1. BootStep
  BY Unmoved
<1>2. config' = config /\ BootInductive'
  BY <1>1, BootKeepsConfig, BootSteps DEF GateInductive
<1>3. Len(fees') \in Nat
  <2> HIDE DEF Fees
  <2> QED
    BY DEF FeesKept
<1>4. call' \in CallsMade /\ call'.fee \in 0..Len(fees') /\ call'.stage = "received"
  BY <1>3 DEF Call, CallsMade, Stages, Answers
<1>5. SettledIsSound' /\ WorkIsSettled'
  BY <1>2, SettledKept, WorkKept DEF GateInductive
<1>6. GateTypeOK' /\ SettlingIsVerified'
  BY <1>4 DEF GateTypeOK, FeesKept, GateInductive, SettlingIsVerified
<1> QED
  BY <1>2, <1>5, <1>6 DEF GateInductive

(* A payment is signed.                                                    *)
LEMMA SignKeeps ==
  ASSUME GateTypeOK, NEW p \in SignedPayments, NEW k \in {1, 2}, fees' = Sign(p, k)
  PROVE  FeesKept /\ Len(fees) + 1 \in 0..Len(fees')
<1> DEFINE fee == [payment |-> p, purchase |-> k, fate |-> "signed"]
<1>1. fee \in Fees /\ fee.fate = "signed"
  BY DEF Fees, Fates
<1>2. fees' = Append(fees, fee)
  BY DEF Sign
<1>3. fees \in Seq(Fees)
  BY DEF GateTypeOK
<1>4. /\ fees' \in Seq(Fees) /\ Len(fees') = Len(fees) + 1 /\ Len(fees) \in Nat
      /\ \A j \in DOMAIN fees : fees'[j] = fees[j]
      /\ \A j \in DOMAIN fees' : j \in DOMAIN fees \/ fees'[j] = fee
  <2> HIDE DEF fee, Fees
  <2> QED
    BY <1>1, <1>2, <1>3
<1> QED
  BY <1>1, <1>4 DEF FeesKept, Paid

(* The same call again, or the first, without a payment of its own.        *)
LEMMA UnsignedCallStep ==
  ASSUME GateInductive, UNCHANGED <<startVars, worked, fees>>,
         NEW path \in Paths, NEW b \in AnyBody, NEW i \in 0..Len(fees),
         call' = Call(path, b, i)
  PROVE  GateInductive'
<1>1. FeesKept
  BY UnchangedKeeps DEF GateInductive
<1>2. i \in 0..Len(fees')
  OBVIOUS
<1> QED
  BY <1>1, <1>2, CallStep

(* A call with a payment signed for it.                                    *)
LEMMA SignedCallStep ==
  ASSUME GateInductive, UNCHANGED <<startVars, worked>>,
         NEW path \in Paths, NEW b \in AnyBody,
         NEW p \in SignedPayments, NEW k \in {1, 2},
         fees' = Sign(p, k), call' = Call(path, b, Len(fees) + 1)
  PROVE  GateInductive'
<1>1. FeesKept /\ Len(fees) + 1 \in 0..Len(fees')
  BY SignKeeps DEF GateInductive
<1> QED
  BY <1>1, CallStep

(* What a stranger signs and sends.                                        *)
LEMMA StrangerSteps ==
  ASSUME GateInductive, StrangerCalls
  PROVE  GateInductive'
<1>1. UNCHANGED <<startVars, worked>>
  BY DEF StrangerCalls
<1>2. PICK path \in Paths, b \in Bodies :
        \/ call' = Call(path, b, 0) /\ UNCHANGED fees
        \/ /\ \E p \in Payments, quoted \in Bodies, of \in Paths :
                LET terms == Terms(of, quoted) IN
                fees' = Sign([form |-> p.form, payer |-> p.payer, debit |-> p.debit,
                              signer |-> p.signer, to |-> p.to,
                              amount |-> terms.amount - p.short, terms |-> terms], 1)
           /\ call' = Call(path, b, Len(fees) + 1)
        \/ \E i \in DOMAIN fees : call' = Call(path, b, i) /\ UNCHANGED fees
  BY DEF StrangerCalls, Paths
<1>3. b \in AnyBody
  BY PaymentTypes DEF AnyBody
<1>4. CASE UNCHANGED fees /\ \E i \in 0..Len(fees) : call' = Call(path, b, i)
  BY <1>1, <1>3, <1>4, UnsignedCallStep
<1>5. CASE /\ call' = Call(path, b, Len(fees) + 1)
           /\ \E p \in Payments, quoted \in Bodies, of \in Paths :
                LET terms == Terms(of, quoted) IN
                fees' = Sign([form |-> p.form, payer |-> p.payer, debit |-> p.debit,
                              signer |-> p.signer, to |-> p.to,
                              amount |-> terms.amount - p.short, terms |-> terms], 1)
  <2>1. PICK p \in Payments, quoted \in Bodies, of \in Paths :
          fees' = Sign([form |-> p.form, payer |-> p.payer, debit |-> p.debit,
                        signer |-> p.signer, to |-> p.to,
                        amount |-> Terms(of, quoted).amount - p.short,
                        terms |-> Terms(of, quoted)], 1)
    BY <1>5
  <2> DEFINE signed == [form |-> p.form, payer |-> p.payer, debit |-> p.debit,
                        signer |-> p.signer, to |-> p.to,
                        amount |-> Terms(of, quoted).amount - p.short,
                        terms |-> Terms(of, quoted)]
  <2>2. Terms(of, quoted) \in TermsSet
    BY PaymentTypes, TermsAreTyped DEF GateInductive, BootInductive, AnyBody
  <2>3. p \in [form : {"plain", "opaque", "unreadable"}, payer : Names,
               debit : Names, signer : Names, to : Names, short : Int]
    BY PaymentTypes
  <2>4. Terms(of, quoted).amount - p.short \in Int
    BY <2>2, <2>3 DEF TermsSet
  <2>5. signed \in SignedPayments
    BY <2>2, <2>3, <2>4 DEF SignedPayments
  <2> HIDE DEF signed
  <2>6. fees' = Sign(signed, 1)
    BY <2>1 DEF signed
  <2> QED
    BY <1>1, <1>3, <1>5, <2>5, <2>6, SignedCallStep
<1>6. fees \in Seq(Fees)
  BY DEF GateInductive, GateTypeOK
<1>7. 0 \in 0..Len(fees) /\ \A i \in DOMAIN fees : i \in 0..Len(fees)
  <2> HIDE DEF Fees
  <2> QED
    BY <1>6
<1> QED
  BY <1>2, <1>4, <1>5, <1>7

(* A client signs what the terms of its call ask for.                      *)
LEMMA ClientPays ==
  ASSUME GateInductive, turn \in {1, 2}, call.stage = "answered",
         UNCHANGED <<startVars, worked>>, NEW path \in Paths, Pay(path)
  PROVE  GateInductive'
<1>1. call.body \in AnyBody
  BY CallIsMade DEF GateInductive, CallsMade
<1>2. config \in Configs
  BY DEF GateInductive, BootInductive
<1>3. Terms(path, call.body) \in TermsSet
  BY <1>1, <1>2, TermsAreTyped
<1>4. FeePayment(path) \in SignedPayments
  <2>1. config.feeAccount \in Names /\ "facilitator" \in Names /\ "caller" \in Names
    BY <1>2, ConfigTypes, PurchaseConstants
  <2>2. Terms(path, call.body).amount \in Int
    BY <1>3 DEF TermsSet
  <2> QED
    BY <1>3, <2>1, <2>2 DEF FeePayment, SignedPayments
<1> QED
  BY <1>1, <1>4, SignedCallStep DEF Pay

(* A client has its answer and makes no call.                              *)
LEMMA CallEnds ==
  ASSUME GateInductive, UNCHANGED <<startVars, fees, worked>>, call' = NoCall
  PROVE  GateInductive'
<1>1. FeesKept /\ BootStep
  BY UnchangedKeeps, Unmoved DEF GateInductive
<1>2. config' = config /\ BootInductive'
  BY <1>1, BootKeepsConfig, BootSteps DEF GateInductive
<1>3. SettledIsSound' /\ WorkIsSettled'
  BY <1>1, <1>2, SettledKept, WorkKept DEF GateInductive
<1>4. GateTypeOK' /\ SettlingIsVerified'
  BY DEF GateTypeOK, GateInductive, SettlingIsVerified, NoCall
<1> QED
  BY <1>2, <1>3, <1>4 DEF GateInductive

LEMMA GateRests ==
  ASSUME GateInductive, UNCHANGED gateVars
  PROVE  GateInductive'
BY UnchangedKeeps, Unmoved, AroundSteps DEF gateVars, GateInductive

(* The scripts that buy, at the gate.                                      *)
LEMMA ScriptSteps ==
  ASSUME GateInductive, turn \in {1, 2}, Script
  PROVE  GateInductive'
<1>1. CASE Propose \/ NothingAsked \/ Submit \/ OnBought \/ NotBought \/ LookupFails
             \/ VerifyFee \/ NoFeeToVerify \/ VerifyPurchase \/ NoPurchaseToVerify
             \/ VerifyAbsence \/ Report
  <2>1. UNCHANGED gateVars
    BY <1>1 DEF Propose, NothingAsked, Submit, OnBought, NotBought, LookupFails,
       VerifyFee, NoFeeToVerify, VerifyPurchase, NoPurchaseToVerify, VerifyAbsence, Report
  <2> QED
    BY <2>1, GateRests
<1>2. CASE OnApproval \/ OnRefusal \/ OnNoVerdict
  <2>1. UNCHANGED <<startVars, fees, worked>> /\ call' = NoCall
    BY <1>2 DEF OnApproval, OnRefusal, OnNoVerdict
  <2> QED
    BY <2>1, CallEnds
<1>3. CASE Ask
  <2>1. UNCHANGED <<startVars, worked, fees>> /\ call' = Call("/countersign", BodyOf[turn], 0)
    BY <1>3 DEF Ask
  <2>2. BodyOf[turn] \in AnyBody
    BY PurchaseConstants DEF AnyBody
  <2>3. fees \in Seq(Fees)
    BY DEF GateInductive, GateTypeOK
  <2>4. 0 \in 0..Len(fees)
    <3> HIDE DEF Fees
    <3> QED
      BY <2>3
  <2>5. "/countersign" \in Paths
    BY DEF Paths
  <2> QED
    BY <2>1, <2>2, <2>4, <2>5, UnsignedCallStep
<1>4. CASE OnChallenge
  <2>1. call.stage = "answered" /\ UNCHANGED <<startVars, worked>> /\ "/countersign" \in Paths
    BY <1>4 DEF OnChallenge, AtAnswer, Paths
  <2>2. Pay("/countersign") \/ (UNCHANGED fees /\ call' = NoCall)
    BY <1>4 DEF OnChallenge
  <2> QED
    BY <2>1, <2>2, ClientPays, CallEnds
<1> QED
  BY <1>1, <1>2, <1>3, <1>4 DEF Script

(* The hosted review, at the gate.                                         *)
LEMMA ReviewSteps ==
  ASSUME GateInductive, turn \in {1, 2}, Review
  PROVE  GateInductive'
<1>1. CASE CreateSchedule \/ AwaitPending \/ WriteEvent \/ EvidenceMissing
  BY <1>1, GateRests DEF CreateSchedule, AwaitPending, WriteEvent, EvidenceMissing
<1>2. CASE OnReviewAnswer
  BY <1>2, CallEnds DEF OnReviewAnswer
<1>3. CASE AskReview
  <2>1. UNCHANGED <<startVars, worked, fees>> /\ call' = Call("/review", ReviewedBody, 0)
    BY <1>3 DEF AskReview
  <2>2. ReviewedBody \in AnyBody
    BY PurchaseConstants DEF AnyBody, ReviewedBody
  <2>3. fees \in Seq(Fees)
    BY DEF GateInductive, GateTypeOK
  <2>4. 0 \in 0..Len(fees)
    <3> HIDE DEF Fees
    <3> QED
      BY <2>3
  <2>5. "/review" \in Paths
    BY DEF Paths
  <2> QED
    BY <2>1, <2>2, <2>4, <2>5, UnsignedCallStep
<1>4. CASE OnReviewChallenge
  <2>1. call.stage = "answered" /\ UNCHANGED <<startVars, worked>> /\ "/review" \in Paths
    BY <1>4 DEF OnReviewChallenge, AtAnswer, Paths
  <2>2. Pay("/review") \/ (UNCHANGED fees /\ call' = NoCall)
    BY <1>4 DEF OnReviewChallenge
  <2> QED
    BY <2>1, <2>2, ClientPays, CallEnds
<1> QED
  BY <1>1, <1>2, <1>3, <1>4 DEF Review

(* The server, the ledger and the mirror.                                  *)
LEMMA ServiceSteps ==
  ASSUME GateInductive, ServiceNext \/ \E o \in Outcomes : Decide(o)
  PROVE  GateInductive'
<1>1. CASE RejectRequest \/ Challenge \/ SettleFails \/ WorkFails
  <2>1. call.stage # "none" /\ UNCHANGED <<startVars, fees, worked>>
    BY <1>1 DEF RejectRequest, Challenge, SettleFails, WorkFails, AtStage
  <2>2. \/ Reply(400, FALSE, "none") \/ Reply(402, FALSE, "none")
        \/ Reply(500, TRUE, "none")
    BY <1>1 DEF RejectRequest, Challenge, SettleFails, WorkFails
  <2>3. "none" \in Answers /\ 400 \in Nat /\ 402 \in Nat /\ 500 \in Nat
    BY DEF Answers
  <2>4. PICK n \in Nat, r \in BOOLEAN, o \in Answers : Reply(n, r, o)
    <3>1. CASE Reply(400, FALSE, "none")
      <4> USE <2>3
      <4> WITNESS 400 \in Nat, FALSE \in BOOLEAN, "none" \in Answers
      <4> QED
        BY <3>1
    <3>2. CASE Reply(402, FALSE, "none")
      <4> USE <2>3
      <4> WITNESS 402 \in Nat, FALSE \in BOOLEAN, "none" \in Answers
      <4> QED
        BY <3>2
    <3>3. CASE Reply(500, TRUE, "none")
      <4> USE <2>3
      <4> WITNESS 500 \in Nat, TRUE \in BOOLEAN, "none" \in Answers
      <4> QED
        BY <3>3
    <3> QED
      BY <2>2, <3>1, <3>2, <3>3, Zenon
  <2> QED
    BY <2>1, <2>4, PlainReplies
<1>2. CASE \E t \in Tenants : Publish(t)
  <2>1. call \in CallsMade /\ call.stage # "none"
    BY <1>2, CallIsMade DEF GateInductive, Publish, AtStage
  <2>2. PICK o \in {call.outcome, "none"} : Reply(200, TRUE, o)
    BY <1>2 DEF Publish
  <2>3. o \in Answers /\ 200 \in Nat
    BY <2>1 DEF CallsMade, Answers
  <2>4. PICK n \in Nat, r \in BOOLEAN : Reply(n, r, o)
    BY <2>2, <2>3
  <2>5. UNCHANGED <<startVars, fees, worked>>
    BY <1>2 DEF Publish
  <2> QED
    BY <2>1, <2>3, <2>4, <2>5, PlainReplies
<1>3. CASE Verify \/ Settle \/ SettleAnswerLost
  BY <1>3, VerifyStep, SettleStep, SettleAnswerLostStep
<1>4. CASE AnswerLost \/ CrashAtWork
  BY <1>4, LossSteps
<1>5. CASE (StartNext \/ AdminChangesTopic \/ FeesChange) /\ UNCHANGED <<call, fees, worked>>
  BY <1>5, StartSteps
<1>6. CASE \E i \in DOMAIN fees : ExecuteLate(i) \/ IndexFee(i)
  BY <1>6, LedgerSteps
<1>7. CASE \E o \in Outcomes : Decide(o)
  BY <1>7, DecideStep
<1> QED
  BY <1>1, <1>2, <1>3, <1>4, <1>5, <1>6, <1>7 DEF ServiceNext, Handle

----------------------------------------------------------------------------
(* The clients.                                                            *)

Signed(S) == [payment : S, purchase : {1, 2}, fate : Fates]

Beginning == {"propose", "ask", "challenged"}
Buying == {"paid", "submit", "submitted"}
Reviewing == {"create", "evidence", "ask", "challenged"}

(* What a client signed, and what it may still sign for: at most one fee   *)
(* for the proposal at hand, none before the guard's challenge was taken.  *)
SpendInductive ==
    /\ \E S : fees \in Seq(Signed(S))
    /\ script \in {"stranger", "guarded", "hts", "approved", "refused"}
    /\ turn \in {1, 2}
    /\ SpendIsBounded
    /\ Buyer /\ phase \in Beginning => \A i \in DOMAIN fees : fees[i].purchase < turn
    /\ Buyer /\ (phase \in Buying \/ script = "hts") =>
        \A i \in DOMAIN fees : fees[i].purchase <= turn
    /\ Reviewer /\ phase \in Reviewing => DOMAIN fees = {}

(* Nothing is signed; what was signed may be settled.                      *)
NothingSigned ==
    /\ \E S : fees' \in Seq(Signed(S))
    /\ DOMAIN fees' = DOMAIN fees
    /\ \A i \in DOMAIN fees :
        fees'[i].payment = fees[i].payment /\ fees'[i].purchase = fees[i].purchase

LEMMA FateSigns ==
  ASSUME NEW S, fees \in Seq(Signed(S)), NEW i \in DOMAIN fees, NEW f \in Fates, Fate(i, f)
  PROVE  NothingSigned
<1> DEFINE e == [fees[i] EXCEPT !.fate = f]
<1>1. fees[i] \in Signed(S)
  <2> HIDE DEF Signed
  <2> QED
    OBVIOUS
<1>2. e \in Signed(S) /\ e.payment = fees[i].payment /\ e.purchase = fees[i].purchase
  BY <1>1 DEF Signed
<1>3. fees' = [fees EXCEPT ![i] = e]
  BY DEF Fate
<1> HIDE DEF e, Signed
<1>4. fees' \in Seq(Signed(S)) /\ DOMAIN fees' = DOMAIN fees /\ fees'[i] = e
      /\ \A j \in DOMAIN fees : j # i => fees'[j] = fees[j]
  BY <1>2, <1>3
<1> QED
  BY <1>2, <1>4 DEF NothingSigned

(* One fee is signed.                                                      *)
LEMMA SignsOne ==
  ASSUME NEW S, fees \in Seq(Signed(S)), NEW p, NEW k \in {1, 2}, fees' = Sign(p, k)
  PROVE  /\ \E T : fees' \in Seq(Signed(T))
         /\ DOMAIN fees' = DOMAIN fees \cup {Len(fees) + 1}
         /\ Len(fees) + 1 \notin DOMAIN fees
         /\ fees'[Len(fees) + 1].payment = p /\ fees'[Len(fees) + 1].purchase = k
         /\ \A j \in DOMAIN fees : fees'[j] = fees[j]
<1> DEFINE e == [payment |-> p, purchase |-> k, fate |-> "signed"]
           T == S \cup {p}
<1>1. e \in Signed(T) /\ e.payment = p /\ e.purchase = k
  BY DEF Signed, Fates
<1>2. Signed(S) \subseteq Signed(T)
  BY DEF Signed
<1>3. fees' = Append(fees, e)
  BY DEF Sign
<1> HIDE DEF e, Signed, T
<1>4. fees \in Seq(Signed(T))
  BY <1>2
<1>5. /\ fees' \in Seq(Signed(T)) /\ Len(fees) \in Nat
      /\ DOMAIN fees = 1..Len(fees) /\ DOMAIN fees' = DOMAIN fees \cup {Len(fees) + 1}
      /\ fees'[Len(fees) + 1] = e /\ \A j \in DOMAIN fees : fees'[j] = fees[j]
  BY <1>1, <1>3, <1>4
<1> QED
  BY <1>1, <1>5

LEMMA NothingIsSigned ==
  ASSUME SpendInductive, UNCHANGED fees
  PROVE  NothingSigned
BY DEF SpendInductive, NothingSigned

(* A client that signs nothing does not go back to a proposal it may have  *)
(* paid for.                                                               *)
MovesOn ==
    /\ UNCHANGED script
    /\ turn' \in {1, 2}
    /\ Buyer =>
        \/ turn' = turn /\ (phase' \in Beginning => phase \in Beginning)
                        /\ (phase' \in Buying => phase \in Beginning \cup Buying \/ script = "hts")
        \/ turn = 1 /\ turn' = 2 /\ (phase \in Beginning \cup Buying \/ script = "hts")
        \/ script = "guarded" /\ phase' \notin Beginning \cup Buying
    /\ Reviewer => (phase' \in Reviewing => phase \in Reviewing)

LEMMA NoSpending ==
  ASSUME SpendInductive, NothingSigned, MovesOn
  PROVE  SpendInductive'
<1>1. SpendIsBounded'
  BY DEF SpendInductive, SpendIsBounded, NothingSigned, MovesOn
<1>2. \A i \in DOMAIN fees : fees[i].purchase \in {1, 2}
  <2>1. PICK S : fees \in Seq(Signed(S))
    BY DEF SpendInductive
  <2>2. \A i \in DOMAIN fees : fees[i] \in Signed(S)
    <3> HIDE DEF Signed
    <3> QED
      BY <2>1
  <2> QED
    BY <2>2 DEF Signed
<1>3. (Buyer' <=> Buyer) /\ (Reviewer' <=> Reviewer)
  BY DEF Buyer, Reviewer, MovesOn
<1>4. CASE Buyer
  <2>1. phase' \in Beginning => \A i \in DOMAIN fees : fees[i].purchase < turn'
    BY <1>2, <1>4 DEF SpendInductive, MovesOn, Beginning, Buying
  <2>2. phase' \in Buying \/ script = "hts" => \A i \in DOMAIN fees : fees[i].purchase <= turn'
    BY <1>2, <1>4 DEF SpendInductive, MovesOn, Beginning, Buying, Buyer
  <2>3. ~ Reviewer
    BY <1>4 DEF Buyer, Reviewer
  <2> QED
    BY <1>1, <1>3, <2>1, <2>2, <2>3 DEF SpendInductive, NothingSigned, MovesOn
<1>5. CASE ~ Buyer
  BY <1>1, <1>3, <1>5 DEF SpendInductive, NothingSigned, MovesOn
<1> QED
  BY <1>4, <1>5

LEMMA Idling ==
  ASSUME SpendInductive, UNCHANGED fees, MovesOn
  PROVE  SpendInductive'
BY NothingIsSigned, NoSpending

(* The fee of the proposal at hand is signed.                              *)
LEMMA Spending ==
  ASSUME SpendInductive, UNCHANGED <<script, turn>>, script # "stranger",
         phase = "challenged", phase' = "paid",
         NEW p, p.amount <= FeeCap, fees' = Sign(p, turn)
  PROVE  SpendInductive'
<1>1. PICK S : fees \in Seq(Signed(S))
  BY DEF SpendInductive
<1>2. turn \in {1, 2}
  BY DEF SpendInductive
<1>3. /\ \E T : fees' \in Seq(Signed(T))
      /\ DOMAIN fees' = DOMAIN fees \cup {Len(fees) + 1}
      /\ Len(fees) + 1 \notin DOMAIN fees
      /\ fees'[Len(fees) + 1].payment = p /\ fees'[Len(fees) + 1].purchase = turn
      /\ \A j \in DOMAIN fees : fees'[j] = fees[j]
  <2> HIDE DEF Signed
  <2> QED
    BY <1>1, <1>2, SignsOne
<1>4. \A i \in DOMAIN fees : fees[i].purchase \in {1, 2} /\ fees[i].purchase < turn
  <2>1. \A i \in DOMAIN fees : fees[i] \in Signed(S)
    <3> HIDE DEF Signed
    <3> QED
      BY <1>1
  <2> QED
    BY <2>1 DEF SpendInductive, Signed, Buyer, Reviewer, Beginning, Reviewing
<1>5. SpendIsBounded'
  <2>1. \A i \in DOMAIN fees' : fees'[i].payment.amount <= FeeCap
    BY <1>3 DEF SpendInductive, SpendIsBounded
  <2>2. \A i, j \in DOMAIN fees' : fees'[i].purchase = fees'[j].purchase => i = j
    <3> SUFFICES ASSUME NEW i \in DOMAIN fees', NEW j \in DOMAIN fees',
                        fees'[i].purchase = fees'[j].purchase
                 PROVE  i = j
      OBVIOUS
    <3>1. CASE i \in DOMAIN fees /\ j \in DOMAIN fees
      BY <1>3, <3>1 DEF SpendInductive, SpendIsBounded
    <3>2. CASE i \notin DOMAIN fees \/ j \notin DOMAIN fees
      BY <1>2, <1>3, <1>4, <3>2
    <3> QED
      BY <3>1, <3>2
  <2> QED
    BY <2>1, <2>2 DEF SpendIsBounded
<1>6. \A i \in DOMAIN fees' : fees'[i].purchase <= turn
  BY <1>2, <1>3, <1>4
<1> QED
  BY <1>2, <1>3, <1>5, <1>6
     DEF SpendInductive, Buyer, Reviewer, Beginning, Buying, Reviewing

LEMMA SpendingStarts == Init => SpendInductive
<1> SUFFICES ASSUME Init PROVE SpendInductive
  OBVIOUS
<1>1. fees = <<>> /\ turn = 1 /\ script \in {"stranger", "guarded", "hts", "approved", "refused"}
  BY DEF Init, PurchaseInit, GateInit
<1>2. fees \in Seq(Signed({})) /\ DOMAIN fees = {}
  <2> HIDE DEF Signed
  <2> QED
    BY <1>1
<1> QED
  BY <1>1, <1>2 DEF SpendInductive, SpendIsBounded

(* The gate, the ledger and the mirror sign nothing.                       *)
LEMMA ServiceSigns ==
  ASSUME SpendInductive, ServiceNext
  PROVE  NothingSigned
<1>1. PICK S : fees \in Seq(Signed(S))
  BY DEF SpendInductive
<1>2. CASE UNCHANGED fees
  BY <1>2, NothingIsSigned
<1>3. CASE \E i \in DOMAIN fees, f \in Fates : Fate(i, f)
  BY <1>1, <1>3, FateSigns
<1>4. CASE \E f \in Fates : Fate(call.fee, f) /\ call.fee \notin DOMAIN fees
  <2>1. fees' = fees
    BY <1>1, <1>4 DEF Fate
  <2> QED
    BY <2>1, NothingIsSigned
<1>5. CASE \E f \in Fates : Fate(call.fee, f)
  BY <1>3, <1>4, <1>5
<1>6. CASE RejectRequest \/ Challenge \/ Verify \/ SettleFails \/ WorkFails
  BY <1>2, <1>6 DEF RejectRequest, Challenge, Verify, SettleFails, WorkFails
<1>7. CASE \E t \in Tenants : Publish(t)
  BY <1>2, <1>7 DEF Publish
<1>8. CASE Settle
  <2>1. Fate(call.fee, "executed") /\ "executed" \in Fates
    BY <1>8 DEF Settle, Fates
  <2> QED
    BY <1>5, <2>1
<1>9. CASE SettleAnswerLost
  <2>1. UNCHANGED fees \/ Fate(call.fee, "submitted")
    BY <1>9 DEF SettleAnswerLost
  <2> QED
    BY <1>2, <1>5, <2>1 DEF Fates
<1>10. CASE AnswerLost \/ CrashAtWork
  <2>1. Dropped
    BY <1>10 DEF AnswerLost, CrashAtWork
  <2>2. UNCHANGED fees \/ Fate(call.fee, "submitted")
    BY <2>1 DEF Dropped
  <2> QED
    BY <1>2, <1>5, <2>2 DEF Fates
<1>11. CASE (StartNext \/ AdminChangesTopic \/ FeesChange) /\ UNCHANGED <<call, fees, worked>>
  BY <1>2, <1>11
<1>12. CASE \E i \in DOMAIN fees : ExecuteLate(i) \/ IndexFee(i)
  <2>1. PICK i \in DOMAIN fees : ExecuteLate(i) \/ IndexFee(i)
    BY <1>12
  <2>2. Fate(i, "executed") \/ Fate(i, "seen")
    BY <2>1 DEF ExecuteLate, IndexFee
  <2> QED
    BY <1>3, <2>2 DEF Fates
<1> QED
  BY <1>6, <1>7, <1>8, <1>9, <1>10, <1>11, <1>12 DEF ServiceNext, Handle

(* What a script does but for paying.                                      *)
LEMMA ScriptMovesOn ==
  ASSUME SpendInductive, Script, ~ OnChallenge
  PROVE  UNCHANGED fees /\ MovesOn
<1> USE DEF MovesOn, Continue, Over, Buyer, Reviewer, Beginning, Buying
<1>0. turn \in {1, 2}
  BY DEF SpendInductive
<1>1. CASE Propose
  BY <1>0, <1>1 DEF Propose, gateVars
<1>2. CASE NothingAsked
  BY <1>0, <1>2 DEF NothingAsked, gateVars
<1>3. CASE Ask
  BY <1>0, <1>3 DEF Ask, gateVars
<1>4. CASE OnApproval
  BY <1>0, <1>4 DEF OnApproval, AtAnswer
<1>5. CASE OnRefusal
  BY <1>0, <1>5 DEF OnRefusal, AtAnswer
<1>6. CASE OnNoVerdict
  BY <1>0, <1>6 DEF OnNoVerdict, AtAnswer
<1>7. CASE Submit
  BY <1>0, <1>7 DEF Submit, gateVars
<1>8. CASE OnBought
  BY <1>0, <1>8 DEF OnBought, gateVars
<1>9. CASE NotBought
  BY <1>0, <1>9 DEF NotBought, gateVars
<1>10. CASE LookupFails
  BY <1>0, <1>10 DEF LookupFails, gateVars
<1>11. CASE VerifyFee
  BY <1>0, <1>11 DEF VerifyFee, Verified, gateVars
<1>12. CASE NoFeeToVerify
  BY <1>0, <1>12 DEF NoFeeToVerify, gateVars
<1>13. CASE VerifyPurchase
  BY <1>0, <1>13 DEF VerifyPurchase, Verified, gateVars
<1>14. CASE NoPurchaseToVerify
  BY <1>0, <1>14 DEF NoPurchaseToVerify, Verified, gateVars
<1>15. CASE VerifyAbsence
  BY <1>0, <1>15 DEF VerifyAbsence, Verified, gateVars
<1>16. CASE Report
  BY <1>0, <1>16 DEF Report, gateVars
<1> QED
  BY <1>1, <1>2, <1>3, <1>4, <1>5, <1>6, <1>7, <1>8,
     <1>9, <1>10, <1>11, <1>12, <1>13, <1>14, <1>15, <1>16 DEF Script

(* The challenge of a guard is taken up with a fee within the cap, or not. *)
LEMMA ChallengeSpends ==
  ASSUME SpendInductive, OnChallenge
  PROVE  SpendInductive'
<1>1. Buyer /\ phase = "challenged" /\ UNCHANGED script /\ turn \in {1, 2}
  BY DEF OnChallenge, AtAnswer, SpendInductive
<1>2. CASE call.status = 402 /\ QuoteIsAcceptable(Terms("/countersign", call.body).amount)
  <2>1. Pay("/countersign") /\ Continue("paid")
    BY <1>2 DEF OnChallenge
  <2>2. FeePayment("/countersign").amount <= FeeCap
    BY <1>2 DEF FeePayment, QuoteIsAcceptable
  <2>3. fees' = Sign(FeePayment("/countersign"), turn) /\ phase' = "paid" /\ UNCHANGED turn
    BY <2>1 DEF Pay, Continue
  <2>4. script # "stranger"
    BY <1>1 DEF Buyer
  <2> QED
    BY <1>1, <2>2, <2>3, <2>4, Spending
<1>3. CASE ~ (call.status = 402 /\ QuoteIsAcceptable(Terms("/countersign", call.body).amount))
  <2>1. Over /\ UNCHANGED fees
    BY <1>3 DEF OnChallenge
  <2>2. MovesOn
    BY <1>1, <2>1 DEF MovesOn, Over, Buyer, Reviewer, Beginning, Buying
  <2> QED
    BY <2>1, <2>2, Idling
<1> QED
  BY <1>2, <1>3

(* The hosted review, which signs one fee at most.                         *)
LEMMA ReviewSpends ==
  ASSUME SpendInductive, Review
  PROVE  SpendInductive'
<1>1. UNCHANGED script /\ turn \in {1, 2} /\ UNCHANGED turn
  BY DEF Review, CreateSchedule, AwaitPending, AskReview, OnReviewChallenge, OnReviewAnswer,
     WriteEvent, EvidenceMissing, SpendInductive
<1>2. CASE CreateSchedule \/ AwaitPending \/ AskReview \/ WriteEvent \/ EvidenceMissing
  <2>1. UNCHANGED fees /\ Reviewer /\ (phase \in Reviewing \/ phase' \notin Reviewing)
    BY <1>2 DEF CreateSchedule, AwaitPending, AskReview, WriteEvent, EvidenceMissing,
       Goes, Fails, Reviewing, gateVars
  <2>2. MovesOn
    BY <1>1, <2>1 DEF MovesOn, Buyer, Reviewer
  <2> QED
    BY <2>1, <2>2, Idling
<1>3. CASE OnReviewAnswer
  <2>1. UNCHANGED fees /\ Reviewer /\ phase' \notin Reviewing
    BY <1>3 DEF OnReviewAnswer, Reviewing
  <2>2. MovesOn
    BY <1>1, <2>1 DEF MovesOn, Buyer, Reviewer
  <2> QED
    BY <2>1, <2>2, Idling
<1>4. CASE OnReviewChallenge
  <2>1. Reviewer /\ phase = "challenged"
    BY <1>4 DEF OnReviewChallenge, AtAnswer
  <2>2. CASE call.status = 402 /\ QuoteIsThePrice
    <3>1. Pay("/review") /\ phase' = "paid"
      BY <1>4, <2>2 DEF OnReviewChallenge
    <3>2. FeePayment("/review").amount <= FeeCap
      BY <2>2, PurchaseConstants DEF FeePayment, QuoteIsThePrice
    <3>3. fees' = Sign(FeePayment("/review"), turn)
      BY <3>1 DEF Pay
    <3>4. script # "stranger"
      BY <2>1 DEF Reviewer
    <3> QED
      BY <1>1, <2>1, <3>1, <3>2, <3>3, <3>4, Spending
  <2>3. CASE ~ (call.status = 402 /\ QuoteIsThePrice)
    <3>1. UNCHANGED fees /\ phase' = "failed"
      BY <1>4, <2>3 DEF OnReviewChallenge
    <3>2. MovesOn
      BY <1>1, <2>1, <3>1 DEF MovesOn, Buyer, Reviewer, Reviewing
    <3> QED
      BY <3>1, <3>2, Idling
  <2> QED
    BY <2>2, <2>3
<1> QED
  BY <1>2, <1>3, <1>4 DEF Review

(* A stranger may sign whatever it likes.                                  *)
LEMMA StrangerSigns ==
  ASSUME SpendInductive, script = "stranger", StrangerCalls, UNCHANGED clientVars
  PROVE  SpendInductive'
<1>1. PICK S : fees \in Seq(Signed(S))
  BY DEF SpendInductive
<1>2. UNCHANGED fees \/ \E p : fees' = Sign(p, 1)
  BY DEF StrangerCalls
<1>3. \E T : fees' \in Seq(Signed(T))
  <2>1. CASE UNCHANGED fees
    BY <1>1, <2>1
  <2>2. CASE \E p : fees' = Sign(p, 1)
    <3>1. PICK p : fees' = Sign(p, 1)
      BY <2>2
    <3> HIDE DEF Signed
    <3> QED
      BY <1>1, <3>1, SignsOne
  <2> QED
    BY <1>2, <2>1, <2>2
<1> QED
  BY <1>3 DEF SpendInductive, SpendIsBounded, clientVars, Buyer, Reviewer

----------------------------------------------------------------------------
(* The evidence event of a review.                                         *)

(* What an answer says of the payment and of the decision behind it.       *)
AnswerInductive ==
    call.stage # "none" =>
        /\ call.receipt \/ call.stage \in {"working", "decided"} =>
            call.fee \in DOMAIN fees /\ Paid(call.fee)
        /\ call.outcome # "none" => call.stage = "decided" \/ call.receipt
        /\ call.stage \in {"received", "settling", "working"} => call.outcome = "none"
        /\ call.stage \in {"received", "settling"} => ~ call.receipt

Waiting == {"create", "evidence", "ask"}
Reported == {"outcome", "passed"}
Observations ==
    [asked : BOOLEAN, review : {"none", "approved", "refused", "declined"},
     fee : Nat, bought : BOOLEAN]

(* Where a review stands: which payment its call carries, whether its      *)
(* schedule was executed, and what it writes of both.                      *)
ReviewInductive ==
    /\ schedule \in [made : BOOLEAN, executed : BOOLEAN, shown : {"none", "pending", "executed"}]
    /\ event.outcome # "none" => Reviewer /\ phase = "passed"
    /\ Reviewer =>
        /\ observed \in [1..2 -> Observations]
        /\ phase \in Waiting => call.stage = "none" /\ ~ schedule.executed
        /\ phase \notin {"create", "failed"} => schedule.made
        /\ phase = "challenged" =>
            /\ call.stage \in {"received", "answered"} /\ call.fee = 0
            /\ call.outcome = "none" /\ ~ schedule.executed
        /\ phase = "paid" =>
            /\ call.stage # "none" /\ call.fee \in DOMAIN fees
            /\ fees[call.fee].payment.amount = Price
            /\ call.outcome = "approved" => schedule.executed
            /\ schedule.executed =>
                /\ call.stage \in {"decided", "answered"}
                /\ call.outcome \in {"approved", "none"}
                /\ call.outcome = "none" => call.stage = "answered"
        /\ phase \in Reported =>
            /\ call.stage = "none"
            /\ Seen.review = script
            /\ Seen.fee # 0 /\ Seen.fee \in DOMAIN fees /\ Paid(Seen.fee)
            /\ fees[Seen.fee].payment.amount = Price
            /\ schedule.executed <=> script = "approved"
        /\ phase = "passed" =>
            event = [outcome |-> Seen.review, amount |-> Price, fee |-> Seen.fee]

(* A fee that was signed stays what it is, and one that was paid, paid.    *)
FeesStay ==
    \A j \in DOMAIN fees :
        /\ j \in DOMAIN fees'
        /\ fees'[j].payment = fees[j].payment
        /\ Paid(j) => Paid(j)'

LEMMA FateStays ==
  ASSUME GateTypeOK, NEW i, NEW f \in Fates, Fate(i, f),
         i \in DOMAIN fees /\ Paid(i) => f \in {"executed", "seen"}
  PROVE  FeesStay
<1>1. CASE i \in DOMAIN fees
  <2>1. \A j \in DOMAIN fees :
          /\ fees'[j].payment = fees[j].payment
          /\ fees'[j].fate = IF j = i THEN f ELSE fees[j].fate
    BY <1>1, FateSet
  <2>2. DOMAIN fees' = DOMAIN fees
    BY DEF Fate
  <2> QED
    BY <1>1, <2>1, <2>2 DEF FeesStay, Paid
<1>2. CASE i \notin DOMAIN fees
  <2>1. fees \in Seq(Fees)
    BY DEF GateTypeOK
  <2>2. fees' = fees
    BY <1>2, <2>1 DEF Fate
  <2> QED
    BY <2>2 DEF FeesStay, Paid
<1> QED
  BY <1>1, <1>2

LEMMA SignStays ==
  ASSUME GateTypeOK, NEW p, NEW k \in {1, 2}, fees' = Sign(p, k)
  PROVE  /\ FeesStay
         /\ Len(fees) + 1 \in DOMAIN fees' /\ fees'[Len(fees) + 1].payment = p
<1>1. fees \in Seq(Fees)
  BY DEF GateTypeOK
<1>2. fees \in Seq(Signed(SignedPayments))
  <2>1. Fees \subseteq Signed(SignedPayments)
    BY DEF Fees, Signed
  <2> HIDE DEF Fees, Signed
  <2> QED
    BY <1>1, <2>1
<1>3. /\ DOMAIN fees' = DOMAIN fees \cup {Len(fees) + 1}
      /\ fees'[Len(fees) + 1].payment = p
      /\ \A j \in DOMAIN fees : fees'[j] = fees[j]
  <2> HIDE DEF Signed, SignedPayments
  <2> QED
    BY <1>2, SignsOne
<1> QED
  BY <1>3 DEF FeesStay, Paid

LEMMA SameFeesStay == UNCHANGED fees => FeesStay
BY DEF FeesStay, Paid

LEMMA ServiceFeesStay ==
  ASSUME GateTypeOK, ServiceNext
  PROVE  FeesStay
<1>0. Fates = {"signed", "submitted", "executed", "seen"}
  BY DEF Fates
<1>1. CASE RejectRequest \/ Challenge \/ Verify \/ SettleFails \/ WorkFails
             \/ \E t \in Tenants : Publish(t)
  <2>1. UNCHANGED fees
    BY <1>1 DEF RejectRequest, Challenge, Verify, SettleFails, WorkFails, Publish
  <2> QED
    BY <2>1, SameFeesStay
<1>2. CASE Settle
  <2>1. Fate(call.fee, "executed")
    BY <1>2 DEF Settle
  <2> QED
    BY <1>0, <2>1, FateStays
<1>3. CASE SettleAnswerLost
  <2>1. UNCHANGED fees \/ (fees[call.fee].fate = "signed" /\ Fate(call.fee, "submitted"))
    BY <1>3 DEF SettleAnswerLost
  <2>2. fees[call.fee].fate = "signed" => ~ Paid(call.fee)
    BY DEF Paid
  <2> QED
    BY <1>0, <2>1, <2>2, FateStays, SameFeesStay
<1>4. CASE AnswerLost \/ CrashAtWork
  <2>1. Dropped
    BY <1>4 DEF AnswerLost, CrashAtWork
  <2>2. UNCHANGED fees \/ (fees[call.fee].fate = "signed" /\ Fate(call.fee, "submitted"))
    BY <2>1 DEF Dropped
  <2>3. fees[call.fee].fate = "signed" => ~ Paid(call.fee)
    BY DEF Paid
  <2> QED
    BY <1>0, <2>2, <2>3, FateStays, SameFeesStay
<1>5. CASE (StartNext \/ AdminChangesTopic \/ FeesChange) /\ UNCHANGED <<call, fees, worked>>
  BY <1>5, SameFeesStay
<1>6. CASE \E i \in DOMAIN fees : ExecuteLate(i) \/ IndexFee(i)
  <2>1. PICK i \in DOMAIN fees : ExecuteLate(i) \/ IndexFee(i)
    BY <1>6
  <2>2. Fate(i, "executed") \/ Fate(i, "seen")
    BY <2>1 DEF ExecuteLate, IndexFee
  <2> QED
    BY <1>0, <2>2, FateStays
<1> QED
  BY <1>1, <1>2, <1>3, <1>4, <1>5, <1>6 DEF ServiceNext, Handle

(* How the server moves the call it has.                                   *)
CallAdvances ==
    /\ call.stage = "none" => UNCHANGED call
    /\ call.stage # "none" =>
        /\ call'.stage # "none" /\ call'.fee = call.fee
        /\ call'.outcome \in {call.outcome, "none"}
        /\ call.stage \in {"received", "answered"} /\ call.fee = 0 =>
            call'.stage \in {"received", "answered"}
        /\ call.stage \in {"decided", "answered"} => call'.stage \in {"decided", "answered"}
        /\ call.stage = "answered" => call'.stage = "answered"
        /\ call'.outcome = "none" => call'.stage = "answered" \/ call.outcome = "none"

(* A call that is answered without a decision, without or with a receipt.  *)
LEMMA EmptyAnswer ==
  ASSUME AnswerInductive, FeesStay, call.stage # "none",
         call'.stage = "answered", call'.fee = call.fee, call'.outcome = "none",
         call'.receipt => call.stage \in {"working", "decided"}
  PROVE  AnswerInductive' /\ CallAdvances
BY DEF AnswerInductive, CallAdvances, FeesStay

LEMMA ServiceAnswers ==
  ASSUME GateInductive, AnswerInductive, ServiceNext
  PROVE  AnswerInductive' /\ CallAdvances /\ FeesStay
<1>0. GateTypeOK /\ FeesStay
  BY ServiceFeesStay DEF GateInductive
<1>1. CASE RejectRequest \/ Challenge \/ SettleFails \/ SettleAnswerLost
             \/ AnswerLost \/ CrashAtWork
  <2>1. call.stage # "none" /\ call \in CallsMade
    BY <1>0, <1>1, CallIsMade DEF RejectRequest, Challenge, SettleFails, SettleAnswerLost,
       AtStage, AnswerLost, CrashAtWork
  <2>2. /\ call'.stage = "answered" /\ call'.fee = call.fee /\ call'.outcome = "none"
        /\ ~ call'.receipt
    <3>1. CASE RejectRequest
      BY <2>1, <3>1 DEF RejectRequest, Reply, CallsMade
    <3>2. CASE Challenge
      BY <2>1, <3>2 DEF Challenge, Reply, CallsMade
    <3>3. CASE SettleFails
      BY <2>1, <3>3 DEF SettleFails, Reply, CallsMade
    <3>4. CASE SettleAnswerLost
      BY <2>1, <3>4 DEF SettleAnswerLost, Reply, CallsMade
    <3>5. CASE AnswerLost
      BY <2>1, <3>5 DEF AnswerLost, Reply, CallsMade
    <3>6. CASE CrashAtWork
      BY <2>1, <3>6 DEF CrashAtWork, Reply, CallsMade
    <3> QED
      BY <1>1, <3>1, <3>2, <3>3, <3>4, <3>5, <3>6
  <2> QED
    BY <1>0, <2>1, <2>2, EmptyAnswer
<1>2. CASE WorkFails
  <2>1. call.stage \in {"working", "decided"} /\ call \in CallsMade
    BY <1>0, <1>2, CallIsMade DEF WorkFails
  <2>2. call'.stage = "answered" /\ call'.fee = call.fee /\ call'.outcome = "none"
    BY <1>2, <2>1 DEF WorkFails, Reply, CallsMade
  <2> QED
    BY <1>0, <2>1, <2>2, EmptyAnswer
<1>3. CASE \E t \in Tenants : Publish(t)
  <2>1. call.stage = "decided" /\ call \in CallsMade
    BY <1>0, <1>3, CallIsMade DEF Publish, AtStage
  <2>2. PICK o \in {call.outcome, "none"} :
          call' = [call EXCEPT !.stage = "answered", !.status = 200,
                               !.receipt = TRUE, !.outcome = o]
    BY <1>3 DEF Publish, Reply
  <2>3. /\ call'.stage = "answered" /\ call'.fee = call.fee
        /\ call'.receipt /\ call'.outcome \in {call.outcome, "none"}
    BY <2>1, <2>2 DEF CallsMade
  <2>4. call.fee \in DOMAIN fees' /\ Paid(call.fee)'
    BY <1>0, <2>1, <2>3 DEF AnswerInductive, FeesStay, Paid
  <2>5. AnswerInductive'
    BY <2>3, <2>4 DEF AnswerInductive
  <2>6. CallAdvances
    BY <2>1, <2>3 DEF CallAdvances
  <2> QED
    BY <1>0, <2>5, <2>6
<1>4. CASE Verify
  <2>1. call.stage = "received" /\ call \in CallsMade /\ call.fee # 0
    BY <1>0, <1>4, CallIsMade DEF Verify, AtStage, PaymentVerified, AcceptedPayment, HasPayment
  <2>2. /\ call'.stage = "settling" /\ call'.fee = call.fee /\ call'.outcome = call.outcome
        /\ call'.receipt = call.receipt
    BY <1>4, <2>1 DEF Verify, CallsMade
  <2>3. call.outcome = "none" /\ ~ call'.receipt
    BY <2>1, <2>2 DEF AnswerInductive
  <2>4. AnswerInductive'
    BY <2>2, <2>3 DEF AnswerInductive
  <2>5. CallAdvances
    BY <2>1, <2>2, <2>3 DEF CallAdvances
  <2> QED
    BY <1>0, <2>4, <2>5
<1>5. CASE Settle
  <2>1. call.stage = "settling" /\ call \in CallsMade /\ Fate(call.fee, "executed")
    BY <1>0, <1>5, CallIsMade DEF Settle, AtStage
  <2>2. call'.stage = "working" /\ call'.fee = call.fee /\ call'.outcome = call.outcome
    BY <1>5, <2>1 DEF Settle, CallsMade
  <2>3. call.fee \in DOMAIN fees
    BY <1>5, <2>1, SettlingPayment DEF Settle, AtStage, GateInductive, SettlingIsVerified
  <2>4. fees'[call.fee].fate = "executed"
    BY <1>0, <2>1, <2>3, FateSet DEF Fates
  <2>5. Paid(call.fee)' /\ call'.fee \in DOMAIN fees'
    BY <1>0, <2>2, <2>3, <2>4 DEF Paid, FeesStay
  <2>6. call.outcome = "none"
    BY <2>1 DEF AnswerInductive
  <2>7. AnswerInductive'
    BY <2>2, <2>5, <2>6 DEF AnswerInductive
  <2>8. CallAdvances
    BY <2>1, <2>2, <2>6 DEF CallAdvances
  <2> QED
    BY <1>0, <2>7, <2>8
<1>6. CASE UNCHANGED call
  BY <1>0, <1>6 DEF AnswerInductive, CallAdvances, FeesStay
<1>7. CASE \E i \in DOMAIN fees : ExecuteLate(i) \/ IndexFee(i)
  BY <1>6, <1>7 DEF ExecuteLate, IndexFee
<1> QED
  BY <1>0, <1>1, <1>2, <1>3, <1>4, <1>5, <1>6, <1>7 DEF ServiceNext, Handle

(* What is done around a review leaves it where it stands.                 *)
LEMMA ReviewRests ==
  ASSUME ReviewInductive, FeesStay, CallAdvances,
         UNCHANGED <<script, phase, turn, observed, event>>,
         schedule' \in [made : BOOLEAN, executed : BOOLEAN,
                        shown : {"none", "pending", "executed"}],
         schedule'.made = schedule.made, schedule'.executed = schedule.executed
  PROVE  ReviewInductive'
<1>1. (Reviewer' <=> Reviewer) /\ Seen' = Seen
  BY DEF Reviewer, Seen
<1>2. event.outcome # "none" => Reviewer /\ phase = "passed"
  BY DEF ReviewInductive
<1>3. CASE ~ Reviewer
  BY <1>1, <1>2, <1>3 DEF ReviewInductive
<1>4. CASE Reviewer
  <2>1. phase \in Waiting => call'.stage = "none" /\ ~ schedule'.executed
    BY <1>4 DEF ReviewInductive, CallAdvances
  <2>2. phase = "challenged" =>
          /\ call'.stage \in {"received", "answered"} /\ call'.fee = 0
          /\ call'.outcome = "none" /\ ~ schedule'.executed
    BY <1>4 DEF ReviewInductive, CallAdvances
  <2>3. phase = "paid" =>
          /\ call'.stage # "none" /\ call'.fee \in DOMAIN fees'
          /\ fees'[call'.fee].payment.amount = Price
          /\ call'.outcome = "approved" => schedule'.executed
    BY <1>4 DEF ReviewInductive, CallAdvances, FeesStay
  <2>4. phase = "paid" /\ schedule'.executed =>
          /\ call'.stage \in {"decided", "answered"}
          /\ call'.outcome \in {"approved", "none"}
          /\ call'.outcome = "none" => call'.stage = "answered"
    BY <1>4 DEF ReviewInductive, CallAdvances
  <2>5. phase \in Reported =>
          /\ call'.stage = "none"
          /\ Seen.fee \in DOMAIN fees' /\ Paid(Seen.fee)'
          /\ fees'[Seen.fee].payment.amount = Price
    BY <1>1, <1>4 DEF ReviewInductive, CallAdvances, FeesStay, Paid
  <2> QED
    BY <1>1, <1>2, <1>4, <2>1, <2>2, <2>3, <2>4, <2>5 DEF ReviewInductive
<1> QED
  BY <1>3, <1>4

(* The decision, which may execute the schedule.                           *)
LEMMA DecisionStep ==
  ASSUME GateTypeOK, AnswerInductive, ReviewInductive, NEW o \in Outcomes, DecideOnCall(o)
  PROVE  AnswerInductive' /\ ReviewInductive'
<1>1. /\ call.stage = "working" /\ call \in CallsMade
      /\ UNCHANGED <<fees, script, phase, turn, observed, event>>
  BY CallIsMade DEF DecideOnCall, Decide, AtStage, clientVars
<1>2. /\ call'.stage = "decided" /\ call'.fee = call.fee
      /\ call'.receipt = call.receipt /\ call'.outcome = o
  BY <1>1 DEF DecideOnCall, Decide, CallsMade
<1>3. o \in {"approved", "refused", "declined"}
  BY DEF Outcomes
<1>4. AnswerInductive'
  BY <1>1, <1>2 DEF AnswerInductive, Paid
<1>5. /\ schedule' \in [made : BOOLEAN, executed : BOOLEAN,
                        shown : {"none", "pending", "executed"}]
      /\ schedule'.made = schedule.made
      /\ schedule'.executed <=>
            schedule.executed \/ (Reviewer /\ schedule.made /\ o = "approved")
  BY DEF DecideOnCall, ReviewInductive
<1>6. (Reviewer' <=> Reviewer) /\ Seen' = Seen
  BY <1>1 DEF Reviewer, Seen
<1>7. CASE ~ Reviewer
  <2>1. event.outcome = "none"
    BY <1>7 DEF ReviewInductive
  <2>2. event'.outcome = "none" /\ ~ Reviewer'
    BY <1>1, <1>6, <1>7, <2>1
  <2> QED
    BY <1>4, <1>5, <2>2 DEF ReviewInductive
<1>8. CASE Reviewer
  <2>1. phase \notin Waiting \cup Reported \cup {"challenged"}
    BY <1>1, <1>8 DEF ReviewInductive
  <2>2. phase = "paid" => /\ ~ schedule.executed /\ schedule.made
                          /\ call.fee \in DOMAIN fees
                          /\ fees[call.fee].payment.amount = Price
    BY <1>1, <1>8 DEF ReviewInductive
  <2>3. phase = "paid" => (schedule'.executed <=> o = "approved")
    BY <1>5, <1>8, <2>2
  <2>4. phase # "passed" /\ event.outcome = "none"
    BY <1>8, <2>1 DEF Reported, ReviewInductive
  <2>5. observed \in [1..2 -> Observations]
        /\ (phase \notin {"create", "failed"} => schedule.made)
    BY <1>8 DEF ReviewInductive
  <2>6. /\ phase' \notin Waiting /\ phase' \notin Reported
        /\ phase' # "challenged" /\ phase' # "passed"
        /\ event'.outcome = "none" /\ observed' \in [1..2 -> Observations]
        /\ phase' \notin {"create", "failed"} => schedule'.made
    BY <1>1, <1>5, <2>1, <2>4, <2>5
  <2>7. phase' = "paid" =>
          /\ call'.stage # "none" /\ call'.fee \in DOMAIN fees'
          /\ fees'[call'.fee].payment.amount = Price
          /\ call'.outcome = "approved" => schedule'.executed
          /\ schedule'.executed =>
              /\ call'.stage \in {"decided", "answered"}
              /\ call'.outcome \in {"approved", "none"}
              /\ call'.outcome = "none" => call'.stage = "answered"
    BY <1>1, <1>2, <1>3, <2>2, <2>3
  <2> QED
    BY <1>4, <1>5, <2>6, <2>7 DEF ReviewInductive
<1> QED
  BY <1>4, <1>7, <1>8

(* A new call knows nothing yet; no call says nothing.                     *)
LEMMA FreshCall ==
  ASSUME NEW path, NEW b, NEW i, call' = Call(path, b, i) \/ call' = NoCall
  PROVE  AnswerInductive'
BY DEF Call, NoCall, AnswerInductive

LEMMA IdleCall ==
  ASSUME AnswerInductive, FeesStay, UNCHANGED call
  PROVE  AnswerInductive' /\ CallAdvances
BY DEF AnswerInductive, CallAdvances, FeesStay

(* What the review client does.                                            *)
LEMMA ReviewEvents ==
  ASSUME GateTypeOK, AnswerInductive, ReviewInductive, turn \in {1, 2}, Review
  PROVE  AnswerInductive' /\ ReviewInductive'
<1>1. Reviewer /\ Reviewer' /\ UNCHANGED <<script, turn>>
  BY DEF Review, CreateSchedule, AwaitPending, AskReview, OnReviewChallenge, OnReviewAnswer,
     WriteEvent, EvidenceMissing, Goes, Fails, Reviewer
<1>2. /\ observed \in [1..2 -> Observations]
      /\ schedule \in [made : BOOLEAN, executed : BOOLEAN,
                       shown : {"none", "pending", "executed"}]
      /\ phase # "passed" => event.outcome = "none"
  BY <1>1 DEF ReviewInductive
<1>3. CASE CreateSchedule
  <2>1. /\ phase = "create" /\ phase' = "evidence" /\ UNCHANGED <<call, fees, observed, event>>
        /\ schedule' = [schedule EXCEPT !.made = TRUE]
    BY <1>3 DEF CreateSchedule, Goes, gateVars
  <2>2. /\ schedule' \in [made : BOOLEAN, executed : BOOLEAN,
                          shown : {"none", "pending", "executed"}]
        /\ schedule'.made /\ schedule'.executed = schedule.executed
    BY <1>2, <2>1
  <2>3. call.stage = "none" /\ ~ schedule.executed
    BY <1>1, <2>1 DEF ReviewInductive, Waiting
  <2>4. ReviewInductive'
    BY <1>1, <1>2, <2>1, <2>2, <2>3 DEF ReviewInductive, Waiting, Reported
  <2> QED
    BY <2>1, <2>3, <2>4, IdleCall, SameFeesStay
<1>4. CASE AwaitPending
  <2>1. /\ phase = "evidence" /\ phase' = "ask"
        /\ UNCHANGED <<call, fees, observed, event, schedule>>
    BY <1>4 DEF AwaitPending, Goes, gateVars, hostedVars
  <2>2. call.stage = "none" /\ ~ schedule.executed /\ schedule.made
    BY <1>1, <2>1 DEF ReviewInductive, Waiting
  <2>3. ReviewInductive'
    BY <1>1, <1>2, <2>1, <2>2 DEF ReviewInductive, Waiting, Reported
  <2> QED
    BY <2>1, <2>3, IdleCall, SameFeesStay
<1>5. CASE AskReview
  <2>1. /\ phase = "ask" /\ phase' = "challenged" /\ call' = Call("/review", ReviewedBody, 0)
        /\ UNCHANGED <<fees, observed, event, schedule>>
    BY <1>5 DEF AskReview, Goes, hostedVars
  <2>2. ~ schedule.executed /\ schedule.made
    BY <1>1, <2>1 DEF ReviewInductive, Waiting
  <2>3. call'.stage = "received" /\ call'.fee = 0 /\ call'.outcome = "none"
    BY <2>1 DEF Call
  <2>4. ReviewInductive'
    BY <1>1, <1>2, <2>1, <2>2, <2>3 DEF ReviewInductive, Waiting, Reported
  <2> QED
    BY <2>1, <2>4, FreshCall
<1>6. CASE OnReviewChallenge
  <2>1. /\ phase = "challenged" /\ UNCHANGED <<observed, event, schedule>>
    BY <1>6 DEF OnReviewChallenge, AtAnswer, hostedVars
  <2>2. ~ schedule.executed /\ schedule.made
    BY <1>1, <2>1 DEF ReviewInductive
  <2>3. CASE call.status = 402 /\ QuoteIsThePrice
    <3>1. Pay("/review") /\ phase' = "paid"
      BY <1>6, <2>3 DEF OnReviewChallenge
    <3>2. FeePayment("/review").amount = Price
      BY <2>3 DEF FeePayment, QuoteIsThePrice
    <3>3. fees' = Sign(FeePayment("/review"), turn) /\ call' = Call("/review", call.body, Len(fees) + 1)
      BY <3>1 DEF Pay
    <3>4. Len(fees) + 1 \in DOMAIN fees'
          /\ fees'[Len(fees) + 1].payment = FeePayment("/review")
      BY <3>3, SignStays
    <3>5. call'.stage = "received" /\ call'.fee = Len(fees) + 1 /\ call'.outcome = "none"
      BY <3>3 DEF Call
    <3>6. ReviewInductive'
      BY <1>1, <1>2, <2>1, <2>2, <3>1, <3>2, <3>4, <3>5 DEF ReviewInductive, Waiting, Reported
    <3> QED
      BY <3>3, <3>6, FreshCall
  <2>4. CASE ~ (call.status = 402 /\ QuoteIsThePrice)
    <3>1. phase' = "failed" /\ call' = NoCall
      BY <1>6, <2>4 DEF OnReviewChallenge
    <3>2. ReviewInductive'
      BY <1>1, <1>2, <2>1, <3>1 DEF ReviewInductive, Waiting, Reported
    <3> QED
      BY <3>1, <3>2, FreshCall
  <2> QED
    BY <2>3, <2>4
<1>7. CASE OnReviewAnswer
  <2>1. /\ phase = "paid" /\ call.stage = "answered" /\ call' = NoCall
        /\ UNCHANGED <<fees, event, schedule>>
        /\ observed' = [observed EXCEPT ![turn] = [Receipted EXCEPT !.review = Said(call.outcome)]]
        /\ phase' = IF Said(call.outcome) = script THEN "outcome" ELSE "failed"
    BY <1>7 DEF OnReviewAnswer, AtAnswer, Observe, hostedVars
  <2>2. call \in CallsMade /\ call.fee \in Nat /\ call.receipt \in BOOLEAN
    BY <2>1, CallIsMade DEF CallsMade
  <2>3. Seen \in Observations
    BY <1>2 DEF Seen
  <2>4. /\ Receipted \in Observations
        /\ Receipted.fee = IF call.receipt THEN call.fee ELSE 0
    BY <2>2, <2>3 DEF Receipted, Observations
  <2>5. Said(call.outcome) \in {"none", "approved", "refused"}
    BY DEF Said
  <2> DEFINE seen == [Receipted EXCEPT !.review = Said(call.outcome)]
  <2>6. /\ seen \in Observations
        /\ seen.fee = Receipted.fee /\ seen.review = Said(call.outcome)
    BY <2>4, <2>5 DEF Observations
  <2>7. observed' \in [1..2 -> Observations] /\ Seen' = seen
    <3> HIDE DEF seen, Observations
    <3>1. observed' = [observed EXCEPT ![turn] = seen]
      BY <2>1 DEF seen
    <3> QED
      BY <1>1, <1>2, <2>6, <3>1 DEF Seen
  <2> HIDE DEF seen
  <2>8. schedule.made /\ call'.stage = "none"
    BY <1>1, <2>1 DEF ReviewInductive, NoCall
  <2>9. CASE Said(call.outcome) = script
    <3>1. script \in {"approved", "refused"} /\ call.outcome # "none"
      BY <1>1, <2>9 DEF Reviewer, Said
    <3>2. call.receipt /\ call.fee \in DOMAIN fees /\ Paid(call.fee)
      BY <2>1, <3>1 DEF AnswerInductive
    <3>3. fees[call.fee].payment.amount = Price
      BY <1>1, <2>1 DEF ReviewInductive
    <3>4. call.fee # 0
      <4>1. fees \in Seq(Fees)
        BY DEF GateTypeOK
      <4>2. DOMAIN fees = 1..Len(fees)
        <5> HIDE DEF Fees
        <5> QED
          BY <4>1
      <4> QED
        BY <3>2, <4>2
    <3>5. schedule.executed <=> call.outcome = "approved"
      BY <1>1, <2>1, <3>1 DEF ReviewInductive
    <3>6. call.outcome = "approved" <=> script = "approved"
      BY <2>9, <3>1 DEF Said
    <3>7. seen.fee = call.fee /\ seen.review = script
      BY <2>4, <2>6, <2>9, <3>2
    <3>8. Seen'.fee \in DOMAIN fees' /\ Paid(Seen.fee)'
          /\ fees'[Seen'.fee].payment.amount = Price
      BY <2>1, <2>7, <3>2, <3>3, <3>7 DEF Paid
    <3>9. phase' = "outcome"
      BY <2>1, <2>9
    <3> QED
      BY <1>1, <1>2, <2>1, <2>7, <2>8, <3>4, <3>5, <3>6, <3>7, <3>8, <3>9, FreshCall
         DEF ReviewInductive, Waiting, Reported
  <2>10. CASE Said(call.outcome) # script
    <3>1. phase' = "failed"
      BY <2>1, <2>10
    <3> QED
      BY <1>1, <1>2, <2>1, <2>7, <3>1, FreshCall DEF ReviewInductive, Waiting, Reported
  <2> QED
    BY <2>9, <2>10
<1>8. CASE WriteEvent
  <2>1. /\ phase = "outcome" /\ phase' = "passed"
        /\ event' = [outcome |-> Seen.review, amount |-> Price, fee |-> Seen.fee]
        /\ UNCHANGED <<call, fees, observed, schedule>>
    BY <1>8 DEF WriteEvent, Goes, gateVars
  <2>2. Seen' = Seen /\ \A i : Paid(i)' <=> Paid(i)
    BY <1>1, <2>1 DEF Seen, Paid
  <2>3. ReviewInductive'
    BY <1>1, <1>2, <2>1, <2>2 DEF ReviewInductive, Waiting, Reported, Paid
  <2> QED
    BY <2>1, <2>3, IdleCall, SameFeesStay
<1>9. CASE EvidenceMissing
  <2>1. /\ phase # "passed" /\ phase' = "failed"
        /\ UNCHANGED <<call, fees, observed, schedule, event>>
    BY <1>9 DEF EvidenceMissing, Fails, gateVars, hostedVars
  <2>2. ReviewInductive'
    BY <1>1, <1>2, <2>1 DEF ReviewInductive, Waiting, Reported
  <2> QED
    BY <2>1, <2>2, IdleCall, SameFeesStay
<1> QED
  BY <1>3, <1>4, <1>5, <1>6, <1>7, <1>8, <1>9 DEF Review

(* The other clients have no event to write.                               *)
LEMMA NoEvents ==
  ASSUME ReviewInductive, ~ Reviewer, UNCHANGED <<script, hostedVars>>
  PROVE  ReviewInductive'
BY DEF ReviewInductive, Reviewer, hostedVars

LEMMA ScriptAnswers ==
  ASSUME GateTypeOK, AnswerInductive, Script
  PROVE  AnswerInductive' /\ ~ Reviewer /\ UNCHANGED script
<1>1. Buyer /\ UNCHANGED script
  BY DEF Script, Propose, NothingAsked, Ask, OnChallenge, OnApproval, OnRefusal, OnNoVerdict,
     Submit, OnBought, NotBought, LookupFails, VerifyFee, NoFeeToVerify, VerifyPurchase,
     NoPurchaseToVerify, VerifyAbsence, Report
<1>2. ~ Reviewer
  BY <1>1 DEF Buyer, Reviewer
<1>3. UNCHANGED <<call, fees>> \/ call' = NoCall \/ \E path, b, i : call' = Call(path, b, i)
  BY DEF Script, Propose, NothingAsked, Ask, OnChallenge, OnApproval, OnRefusal, OnNoVerdict,
     Submit, OnBought, NotBought, LookupFails, VerifyFee, NoFeeToVerify, VerifyPurchase,
     NoPurchaseToVerify, VerifyAbsence, Report, Pay, gateVars
<1> QED
  BY <1>1, <1>2, <1>3, FreshCall, IdleCall, SameFeesStay

LEMMA StrangerAnswers ==
  ASSUME AnswerInductive, StrangerCalls
  PROVE  AnswerInductive'
<1>1. \E path, b, i : call' = Call(path, b, i)
  BY DEF StrangerCalls
<1> QED
  BY <1>1, FreshCall

----------------------------------------------------------------------------
(* What the scripts that buy report.                                       *)
Subjects == {"fee", "bought", "absent"}
Claimed(c, k) == <<c, k>> \in claims

TransferFates == {"none", "signed", "submitted", "executed", "seen"}

(* The mirror is never further behind than Lag, and what it does not show  *)
(* yet was executed while it was valid.                                    *)
LedgerInductive ==
    /\ transfers \in [1..2 -> [fate : TransferFates, age : Nat, lag : Nat]]
    /\ \A k \in 1..2 :
        /\ transfers[k].fate # "executed" => transfers[k].lag = 0
        /\ transfers[k].fate = "executed" =>
            transfers[k].lag <= Lag /\ transfers[k].age < Validity + transfers[k].lag

(* What a script noted of its purchases.                                   *)
NotedInductive ==
    /\ observed \in [1..2 -> Observations]
    /\ \A k \in 1..2 :
        /\ observed[k].fee # 0 =>
            /\ observed[k].fee \in DOMAIN fees /\ Paid(observed[k].fee)
            /\ fees[observed[k].fee].purchase = k
        /\ observed[k].review # "none" => observed[k].asked /\ observed[k].fee # 0
        /\ observed[k].bought => observed[k].review = "approved" /\ Executed(k)

(* What it reported, and why a transfer that is absent remains absent.     *)
ClaimsInductive ==
    \A k \in 1..2 :
        /\ Claimed("fee", k) => \E i \in DOMAIN fees : fees[i].purchase = k /\ Paid(i)
        /\ Claimed("bought", k) => Executed(k)
        /\ Claimed("absent", k) => ~ Executed(k) /\ transfers[k].age >= Validity + Grace

(* What is known before a purchase is over: the later one is untouched,    *)
(* and nothing was reported of either.                                     *)
Untouched(k) ==
    transfers[k].fate = "none" /\ observed[k].review = "none" /\ ~ observed[k].bought

AtPurchase ==
    phase \in Beginning \cup Buying =>
        /\ turn = 1 => Untouched(2)
        /\ ~ observed[turn].bought
        /\ \A k \in 1..2, c \in Subjects : Claimed(c, k) => k < turn
        /\ phase # "submitted" => transfers[turn].fate \in {"none", "signed"}
        /\ phase \in {"challenged", "paid"} => observed[turn].asked
        /\ phase \in Beginning \cup {"paid"} => observed[turn].review = "none"
        /\ phase \in {"submit", "submitted"} => observed[turn].review = "approved"
        /\ phase = "paid" =>
            /\ call.stage # "none" /\ call.fee \in DOMAIN fees
            /\ fees[call.fee].purchase = turn

(* What is known after it: "hts" comes to its second purchase only with    *)
(* the first one made, and to its report only with the second one absent.  *)
RefusalShown == observed[2].review = "refused" /\ Claimed("absent", 2)

AtReport ==
    /\ script = "hts" =>
        /\ (turn = 2 \/ phase \in {"verify_fee", "verify_purchase"}) => observed[1].bought
        /\ phase \in {"submit", "submitted", "verify_purchase"} => turn = 1
        /\ phase = "verify_absence" => turn = 2 /\ observed[2].review = "refused"
        /\ phase = "verify_fee" /\ turn = 2 => RefusalShown
        /\ phase = "report" => turn = 2 /\ RefusalShown
    /\ script = "guarded" /\ phase = "report" /\ observed[2].asked /\ ~ observed[2].bought =>
        Claimed("absent", 2)
    /\ phase = "passed" => observed[1].bought /\ RefusalShown

PurchaseInductive ==
    /\ LedgerInductive
    /\ ClaimsInductive
    /\ ~ Buyer => claims = {}
    /\ Buyer => NotedInductive /\ AtPurchase /\ AtReport

(* "hts" does not begin its second purchase before it reported the first.  *)
Ahead ==
    script = "hts" /\ turn = 1 => Untouched(2) /\ \A c \in Subjects : ~ Claimed(c, 2)

(* The fees stay, each that of its purchase.                               *)
FeesRemain ==
    FeesStay /\ \A j \in DOMAIN fees : fees'[j].purchase = fees[j].purchase

(* What is executed stays so, and what is too old is never executed.       *)
TransfersMove ==
    \A k \in 1..2 :
        /\ Executed(k) => Executed(k)'
        /\ transfers[k].age >= Validity + Grace =>
            transfers'[k].age >= Validity + Grace /\ (~ Executed(k) => ~ Executed(k)')
        /\ transfers[k].fate \in {"none", "signed"} => transfers'[k].fate = transfers[k].fate

LEMMA SameTransfers ==
  ASSUME UNCHANGED transfers
  PROVE  TransfersMove /\ (LedgerInductive => LedgerInductive')
BY DEF TransfersMove, LedgerInductive, Executed

(* Consensus, the mirror and time.                                         *)
LEMMA NetworkMoves ==
  ASSUME LedgerInductive, Network
  PROVE  LedgerInductive' /\ TransfersMove
<1> DEFINE Record == [fate : TransferFates, age : Nat, lag : Nat]
<1>0. /\ transfers \in [1..2 -> Record] /\ Lag \in Nat /\ Grace \in Nat /\ Validity \in Nat
      /\ \A k \in 1..2 : transfers[k] \in Record
      /\ \A k \in 1..2 : transfers[k].age \in Nat /\ transfers[k].lag \in Nat
      /\ \A k \in 1..2 : transfers[k].fate \in TransferFates
  BY PurchaseConstants DEF LedgerInductive
<1>1. CASE \E k \in 1..2 : ExecuteTransfer(k)
  <2>1. PICK k \in 1..2 : ExecuteTransfer(k)
    BY <1>1
  <2>2. /\ transfers[k].fate = "submitted" /\ transfers[k].age < Validity /\ transfers[k].lag = 0
        /\ transfers' = [transfers EXCEPT ![k].fate = "executed"]
    BY <2>1 DEF ExecuteTransfer, TransferFate, LedgerInductive
  <2>3. /\ transfers' \in [1..2 -> Record]
        /\ transfers'[k].fate = "executed" /\ transfers'[k].age = transfers[k].age
        /\ transfers'[k].lag = 0
        /\ \A j \in 1..2 : j # k => transfers'[j] = transfers[j]
    BY <1>0, <2>2 DEF TransferFates
  <2>4. LedgerInductive'
    BY <1>0, <2>2, <2>3 DEF LedgerInductive
  <2>5. TransfersMove
    BY <1>0, <2>2, <2>3 DEF TransfersMove, Executed
  <2> QED
    BY <2>4, <2>5
<1>2. CASE \E k \in 1..2 : IndexTransfer(k)
  <2>1. PICK k \in 1..2 : IndexTransfer(k)
    BY <1>2
  <2>2. /\ transfers[k].fate = "executed"
        /\ transfers' = [transfers EXCEPT ![k].fate = "seen", ![k].lag = 0]
    BY <2>1 DEF IndexTransfer
  <2>3. /\ transfers' \in [1..2 -> Record]
        /\ transfers'[k].fate = "seen" /\ transfers'[k].age = transfers[k].age
        /\ transfers'[k].lag = 0
        /\ \A j \in 1..2 : j # k => transfers'[j] = transfers[j]
    BY <1>0, <2>2 DEF TransferFates
  <2>4. LedgerInductive'
    BY <1>0, <2>2, <2>3 DEF LedgerInductive
  <2>5. TransfersMove
    BY <1>0, <2>2, <2>3 DEF TransfersMove, Executed
  <2> QED
    BY <2>4, <2>5
<1>3. CASE Tick
  <2>1. \A k \in 1..2 :
          /\ transfers[k].fate = "executed" => transfers[k].lag < Lag
          /\ transfers'[k] = Older(transfers[k])
    BY <1>3 DEF Tick
  <2>2. ASSUME NEW t \in Record
        PROVE  /\ Older(t) \in Record /\ Older(t).fate = t.fate
               /\ Older(t).age <= t.age + 1
               /\ t.age >= Validity + Grace => Older(t).age >= Validity + Grace
               /\ Older(t).lag = IF t.fate = "executed" THEN t.lag + 1 ELSE t.lag
    <3>1. CASE t.fate = "none"
      BY <3>1 DEF Older
    <3>2. CASE t.fate # "none"
      <4> DEFINE a == Clamp(t.age + 1, 0, Validity + Grace)
                 l == IF t.fate = "executed" THEN t.lag + 1 ELSE t.lag
      <4>1. a \in Nat /\ a <= t.age + 1 /\ (t.age >= Validity + Grace => a >= Validity + Grace)
        BY <1>0 DEF Clamp
      <4>2. l \in Nat
        OBVIOUS
      <4>3. Older(t) = [t EXCEPT !.age = a, !.lag = l]
        BY <3>2 DEF Older
      <4> HIDE DEF a, l
      <4>4. Older(t) \in Record /\ Older(t).fate = t.fate /\ Older(t).age = a /\ Older(t).lag = l
        BY <4>1, <4>2, <4>3
      <4>5. l = IF t.fate = "executed" THEN t.lag + 1 ELSE t.lag
        BY DEF l
      <4> QED
        BY <4>1, <4>4, <4>5
    <3> QED
      BY <3>1, <3>2
  <2>3. transfers' \in [1..2 -> Record]
    <3>1. transfers' = [k \in 1..2 |-> Older(transfers[k])]
      BY <1>3 DEF Tick
    <3> HIDE DEF Record
    <3> QED
      BY <1>0, <2>2, <3>1
  <2>4. \A k \in 1..2 :
          /\ transfers'[k].fate = transfers[k].fate
          /\ transfers'[k].age <= transfers[k].age + 1
          /\ transfers[k].age >= Validity + Grace => transfers'[k].age >= Validity + Grace
          /\ transfers'[k].lag = IF transfers[k].fate = "executed" THEN transfers[k].lag + 1
                                 ELSE transfers[k].lag
    <3> HIDE DEF Record
    <3> QED
      BY <1>0, <2>1, <2>2
  <2>5. LedgerInductive'
    BY <1>0, <2>1, <2>3, <2>4 DEF LedgerInductive
  <2>6. TransfersMove
    BY <2>4 DEF TransfersMove, Executed
  <2> QED
    BY <2>5, <2>6
<1> QED
  BY <1>1, <1>2, <1>3 DEF Network

(* An absent transfer that the mirror could show by now was not executed.  *)
LEMMA AbsentIsAbsent ==
  ASSUME LedgerInductive, NEW k \in 1..2, transfers[k].age >= Validity + Grace,
         transfers[k].fate # "seen"
  PROVE  ~ Executed(k)
BY PurchaseConstants DEF LedgerInductive, Executed

(* Clients that buy nothing report nothing.                                *)
LEMMA NoPurchases ==
  ASSUME PurchaseInductive, ~ Buyer, UNCHANGED <<script, claims>>, LedgerInductive'
  PROVE  PurchaseInductive'
BY DEF PurchaseInductive, ClaimsInductive, Buyer, Claimed

(* What is reported stays true, whatever is done around the client.        *)
LEMMA ClaimsStay ==
  ASSUME ClaimsInductive, FeesRemain, TransfersMove, UNCHANGED claims
  PROVE  ClaimsInductive'
<1> SUFFICES ASSUME NEW k \in 1..2
             PROVE  /\ Claimed("fee", k) =>
                        \E i \in DOMAIN fees' : fees'[i].purchase = k /\ Paid(i)'
                    /\ Claimed("bought", k) => Executed(k)'
                    /\ Claimed("absent", k) =>
                        ~ Executed(k)' /\ transfers'[k].age >= Validity + Grace
  BY DEF ClaimsInductive, Claimed
<1>1. Claimed("fee", k) => \E i \in DOMAIN fees' : fees'[i].purchase = k /\ Paid(i)'
  BY DEF ClaimsInductive, FeesRemain, FeesStay
<1> QED
  BY <1>1 DEF ClaimsInductive, TransfersMove

LEMMA NotesStay ==
  ASSUME NotedInductive, FeesRemain, TransfersMove, UNCHANGED observed
  PROVE  NotedInductive'
BY DEF NotedInductive, FeesRemain, FeesStay, TransfersMove

LEMMA PurchasesRest ==
  ASSUME PurchaseInductive, turn \in {1, 2}, FeesRemain, LedgerInductive', TransfersMove,
         UNCHANGED <<script, phase, turn, observed, claims>>,
         call.stage # "none" => call'.stage # "none" /\ call'.fee = call.fee
  PROVE  PurchaseInductive'
<1>1. ClaimsInductive'
  BY ClaimsStay DEF PurchaseInductive
<1>2. CASE Buyer
  <2>1. NotedInductive /\ AtPurchase /\ AtReport
    BY <1>2 DEF PurchaseInductive
  <2>2. NotedInductive'
    BY <2>1, NotesStay
  <2>3. AtReport'
    BY <2>1 DEF AtReport, RefusalShown, Claimed
  <2>4. AtPurchase'
    <3>1. phase = "paid" => call.stage # "none" /\ call.fee \in DOMAIN fees
                            /\ fees[call.fee].purchase = turn
      BY <2>1 DEF AtPurchase, Buying
    <3>2. phase = "paid" => call'.stage # "none" /\ call'.fee \in DOMAIN fees'
                            /\ fees'[call'.fee].purchase = turn
      BY <3>1 DEF FeesRemain, FeesStay
    <3>3. Untouched(2) => Untouched(2)'
      BY DEF Untouched, TransfersMove
    <3>4. transfers[turn].fate \in {"none", "signed"} =>
            transfers'[turn].fate \in {"none", "signed"}
      BY DEF TransfersMove
    <3> QED
      BY <2>1, <3>2, <3>3, <3>4 DEF AtPurchase, Claimed
  <2> QED
    BY <1>1, <1>2, <2>2, <2>3, <2>4 DEF PurchaseInductive, Buyer
<1>3. CASE ~ Buyer
  BY <1>3, NoPurchases
<1> QED
  BY <1>2, <1>3

(* One more fee is signed.                                                 *)
LEMMA SignRemains ==
  ASSUME GateTypeOK, NEW p, NEW k \in {1, 2}, fees' = Sign(p, k)
  PROVE  /\ FeesRemain
         /\ Len(fees) + 1 \in DOMAIN fees' /\ fees'[Len(fees) + 1].purchase = k
<1>1. fees \in Seq(Signed(SignedPayments))
  <2>1. Fees \subseteq Signed(SignedPayments) /\ fees \in Seq(Fees)
    BY DEF Fees, Signed, GateTypeOK
  <2> HIDE DEF Fees, Signed
  <2> QED
    BY <2>1
<1>2. /\ DOMAIN fees' = DOMAIN fees \cup {Len(fees) + 1}
      /\ fees'[Len(fees) + 1].purchase = k
      /\ \A j \in DOMAIN fees : fees'[j] = fees[j]
  <2> HIDE DEF Signed, SignedPayments
  <2> QED
    BY <1>1, SignsOne
<1> QED
  BY <1>2, SignStays DEF FeesRemain

(* Steps of a script that keep its notes and its claims.                   *)
LEMMA PurchaseMoves ==
  ASSUME PurchaseInductive, Buyer, UNCHANGED <<script, transfers, observed, claims, fees>>,
         AtPurchase', AtReport'
  PROVE  PurchaseInductive'
<1>1. FeesRemain /\ TransfersMove /\ LedgerInductive'
  BY SameFeesStay, SameTransfers DEF FeesRemain, PurchaseInductive
<1> QED
  BY <1>1, ClaimsStay, NotesStay DEF PurchaseInductive, Buyer

(* The purchase at hand is over without being reported on.                 *)
LEMMA OverMoves ==
  ASSUME Buyer, turn \in {1, 2}, AtPurchase, AtReport, Over,
         phase \in Beginning \cup Buying,
         UNCHANGED <<script, transfers, claims>>,
         \A k \in 1..2 : k # turn => observed'[k] = observed[k]
  PROVE  AtPurchase' /\ AtReport'
<1>1. /\ turn = 1 => Untouched(2)
      /\ \A k \in 1..2, c \in Subjects : Claimed(c, k) => k < turn
  BY DEF AtPurchase
<1>2. turn = 1 => Untouched(2)'
  BY <1>1 DEF Untouched
<1>3. \A k \in 1..2, c \in Subjects : Claimed(c, k)' <=> Claimed(c, k)
  BY DEF Claimed
<1>4. CASE script = "hts"
  <2>1. phase' = "failed" /\ turn' = turn
    BY <1>4 DEF Over
  <2>2. AtPurchase'
    BY <2>1 DEF AtPurchase, Beginning, Buying
  <2>3. turn = 2 => observed'[1].bought
    BY <1>4 DEF AtReport
  <2> QED
    BY <1>4, <2>1, <2>2, <2>3 DEF AtReport
<1>5. CASE script # "hts" /\ turn = 1
  <2>1. phase' = "propose" /\ turn' = 2
    BY <1>5 DEF Over
  <2>2. AtPurchase'
    <3>1. ~ observed'[2].bought /\ transfers'[2].fate = "none" /\ observed'[2].review = "none"
      BY <1>2, <1>5 DEF Untouched
    <3>2. \A k \in 1..2, c \in Subjects : Claimed(c, k)' => k < 2
      BY <1>1, <1>3, <1>5
    <3> QED
      BY <2>1, <3>1, <3>2 DEF AtPurchase, Beginning, Buying
  <2> QED
    BY <1>5, <2>1, <2>2 DEF AtReport
<1>6. CASE script # "hts" /\ turn = 2
  <2>1. phase' = "verify_fee" /\ turn' = 1
    BY <1>6 DEF Over
  <2> QED
    BY <1>6, <2>1 DEF AtPurchase, AtReport, Beginning, Buying
<1> QED
  BY <1>4, <1>5, <1>6

(* The steps before the purchase is paid for.                              *)
LEMMA ProposeSteps ==
  ASSUME PurchaseInductive, turn \in {1, 2}, Propose
  PROVE  PurchaseInductive'
<1>1. /\ Buyer /\ phase = "propose" /\ phase' = "ask"
      /\ UNCHANGED <<fees, call, script, observed, claims, turn>>
      /\ transfers' = [transfers EXCEPT ![turn].fate = "signed"]
  BY DEF Propose, TransferFate, Continue, gateVars
<1>2. LedgerInductive /\ ClaimsInductive /\ NotedInductive /\ AtPurchase /\ AtReport
  BY <1>1 DEF PurchaseInductive
<1>3. /\ turn = 1 => Untouched(2)
      /\ ~ observed[turn].bought /\ observed[turn].review = "none"
      /\ \A k \in 1..2, c \in Subjects : Claimed(c, k) => k < turn
      /\ transfers[turn].fate \in {"none", "signed"}
  BY <1>1, <1>2 DEF AtPurchase, Beginning
<1>4. /\ transfers' \in [1..2 -> [fate : TransferFates, age : Nat, lag : Nat]]
      /\ transfers'[turn].fate = "signed" /\ transfers'[turn].age = transfers[turn].age
      /\ transfers'[turn].lag = transfers[turn].lag
      /\ \A k \in 1..2 : k # turn => transfers'[k] = transfers[k]
  BY <1>1, <1>2 DEF LedgerInductive, TransferFates
<1>5. LedgerInductive'
  BY <1>2, <1>3, <1>4 DEF LedgerInductive
<1>6. \A k \in 1..2 : (Executed(k)' <=> Executed(k)) /\ transfers'[k].age = transfers[k].age
  BY <1>3, <1>4 DEF Executed
<1>7. ClaimsInductive'
  BY <1>1, <1>2, <1>6 DEF ClaimsInductive, Claimed, Paid
<1>8. NotedInductive'
  BY <1>1, <1>2, <1>6 DEF NotedInductive, Paid
<1>9. AtPurchase'
  <2>1. turn = 1 => Untouched(2)'
    BY <1>1, <1>3, <1>4 DEF Untouched
  <2> QED
    BY <1>1, <1>3, <1>4, <2>1 DEF AtPurchase, Beginning, Buying, Claimed
<1>10. AtReport'
  BY <1>1, <1>2 DEF AtReport, RefusalShown, Claimed
<1> QED
  BY <1>1, <1>5, <1>7, <1>8, <1>9, <1>10 DEF PurchaseInductive, Buyer

(* A note of the purchase at hand.                                         *)
LEMMA NoteSteps ==
  ASSUME PurchaseInductive, Buyer, turn \in {1, 2}, NEW o \in Observations, Observe(o),
         UNCHANGED <<fees, script, transfers, claims>>,
         o.fee # 0 => o.fee \in DOMAIN fees /\ Paid(o.fee) /\ fees[o.fee].purchase = turn,
         o.review # "none" => o.asked /\ o.fee # 0,
         o.bought => o.review = "approved" /\ Executed(turn)
  PROVE  /\ LedgerInductive' /\ ClaimsInductive' /\ NotedInductive'
         /\ observed'[turn] = o
         /\ \A k \in 1..2 : k # turn => observed'[k] = observed[k]
<1>1. LedgerInductive /\ ClaimsInductive /\ NotedInductive
  BY DEF PurchaseInductive
<1>2. /\ observed' \in [1..2 -> Observations]
      /\ observed'[turn] = o
      /\ \A k \in 1..2 : k # turn => observed'[k] = observed[k]
  <2> HIDE DEF Observations
  <2> QED
    BY <1>1 DEF NotedInductive, Observe
<1>3. FeesRemain /\ TransfersMove /\ LedgerInductive'
  BY <1>1, SameFeesStay, SameTransfers DEF FeesRemain
<1>4. ClaimsInductive'
  BY <1>1, <1>3, ClaimsStay
<1>5. ASSUME NEW k \in 1..2
      PROVE  /\ observed'[k].fee # 0 =>
                /\ observed'[k].fee \in DOMAIN fees /\ Paid(observed'[k].fee)
                /\ fees[observed'[k].fee].purchase = k
             /\ observed'[k].review # "none" => observed'[k].asked /\ observed'[k].fee # 0
             /\ observed'[k].bought => observed'[k].review = "approved" /\ Executed(k)
  <2>1. CASE k = turn
    BY <1>2, <2>1
  <2>2. CASE k # turn
    BY <1>1, <1>2, <2>2 DEF NotedInductive
  <2> QED
    BY <2>1, <2>2
<1>6. NotedInductive'
  BY <1>2, <1>5 DEF NotedInductive, Paid, Executed
<1> QED
  BY <1>2, <1>3, <1>4, <1>6

LEMMA AskSteps ==
  ASSUME PurchaseInductive, turn \in {1, 2}, Ask
  PROVE  PurchaseInductive'
<1> DEFINE o == [Seen EXCEPT !.asked = TRUE]
<1>1. /\ Buyer /\ phase = "ask" /\ phase' = "challenged" /\ UNCHANGED turn
      /\ UNCHANGED <<fees, script, transfers, claims>> /\ Observe(o)
  BY DEF Ask, Continue
<1>2. NotedInductive /\ AtPurchase /\ AtReport /\ Seen \in Observations
  BY <1>1 DEF PurchaseInductive, NotedInductive, Seen
<1>3. /\ o \in Observations /\ o.asked
      /\ o.fee = Seen.fee /\ o.review = Seen.review /\ o.bought = Seen.bought
  BY <1>2 DEF Observations
<1>4. /\ Seen.fee # 0 =>
            Seen.fee \in DOMAIN fees /\ Paid(Seen.fee) /\ fees[Seen.fee].purchase = turn
      /\ Seen.review # "none" => Seen.asked /\ Seen.fee # 0
      /\ Seen.bought => Seen.review = "approved" /\ Executed(turn)
  BY <1>2 DEF NotedInductive, Seen
<1> HIDE DEF o
<1>5. /\ LedgerInductive' /\ ClaimsInductive' /\ NotedInductive'
      /\ observed'[turn] = o
      /\ \A k \in 1..2 : k # turn => observed'[k] = observed[k]
  BY <1>1, <1>3, <1>4, NoteSteps
<1>6. /\ turn = 1 => Untouched(2)
      /\ ~ Seen.bought /\ Seen.review = "none"
      /\ \A k \in 1..2, c \in Subjects : Claimed(c, k) => k < turn
      /\ transfers[turn].fate \in {"none", "signed"}
  BY <1>1, <1>2 DEF AtPurchase, Beginning, Seen
<1>7. AtPurchase'
  <2>1. turn = 1 => Untouched(2)'
    BY <1>1, <1>5, <1>6 DEF Untouched
  <2> QED
    BY <1>1, <1>3, <1>5, <1>6, <2>1 DEF AtPurchase, Beginning, Buying, Claimed
<1>8. AtReport'
  BY <1>1, <1>2, <1>5 DEF AtReport
<1> QED
  BY <1>1, <1>5, <1>7, <1>8 DEF PurchaseInductive, Buyer

LEMMA ChallengeSteps ==
  ASSUME GateTypeOK, PurchaseInductive, turn \in {1, 2}, OnChallenge
  PROVE  PurchaseInductive'
<1>1. /\ Buyer /\ phase = "challenged"
      /\ UNCHANGED <<script, transfers, observed, claims>>
  BY DEF OnChallenge, AtAnswer
<1>2. LedgerInductive /\ ClaimsInductive /\ NotedInductive /\ AtPurchase /\ AtReport
  BY <1>1 DEF PurchaseInductive
<1>3. CASE Over /\ call' = NoCall /\ UNCHANGED fees
  <2>1. phase \in Beginning \cup Buying
    BY <1>1 DEF Beginning
  <2> QED
    BY <1>1, <1>2, <1>3, <2>1, OverMoves, PurchaseMoves
<1>4. CASE Pay("/countersign") /\ Continue("paid")
  <2>1. /\ phase' = "paid" /\ turn' = turn
        /\ fees' = Sign(FeePayment("/countersign"), turn)
        /\ call'.stage = "received" /\ call'.fee = Len(fees) + 1
    BY <1>4 DEF Pay, Continue, Call
  <2>2. FeesRemain /\ Len(fees) + 1 \in DOMAIN fees' /\ fees'[Len(fees) + 1].purchase = turn
    BY <2>1, SignRemains
  <2>3. TransfersMove /\ LedgerInductive'
    BY <1>1, <1>2, SameTransfers
  <2>4. ClaimsInductive' /\ NotedInductive'
    BY <1>1, <1>2, <2>2, <2>3, ClaimsStay, NotesStay
  <2>5. AtPurchase'
    <3>1. /\ turn = 1 => Untouched(2)'
          /\ ~ observed[turn].bought /\ observed[turn].asked /\ observed[turn].review = "none"
          /\ \A k \in 1..2, c \in Subjects : Claimed(c, k) => k < turn
          /\ transfers[turn].fate \in {"none", "signed"}
      BY <1>1, <1>2 DEF AtPurchase, Beginning, Untouched
    <3> QED
      BY <1>1, <2>1, <2>2, <3>1 DEF AtPurchase, Beginning, Buying, Claimed
  <2>6. AtReport'
    BY <1>1, <1>2, <2>1 DEF AtReport
  <2> QED
    BY <1>1, <2>3, <2>4, <2>5, <2>6 DEF PurchaseInductive, Buyer
<1> QED
  BY <1>3, <1>4 DEF OnChallenge

(* The answer to a paid request: what is noted of it is so.                *)
LEMMA AnswerNoted ==
  ASSUME GateTypeOK, AnswerInductive, PurchaseInductive, Buyer, turn \in {1, 2}, AtAnswer("paid")
  PROVE  /\ Seen \in Observations /\ Receipted \in Observations
         /\ Receipted.review = "none" /\ Receipted.asked /\ ~ Receipted.bought
         /\ Receipted.fee # 0 =>
                /\ Receipted.fee \in DOMAIN fees /\ Paid(Receipted.fee)
                /\ fees[Receipted.fee].purchase = turn
         /\ call.outcome # "none" => Receipted.fee # 0
<1>1. phase = "paid" /\ call.stage = "answered" /\ call \in CallsMade
  BY CallIsMade DEF AtAnswer
<1>2. NotedInductive /\ AtPurchase
  BY DEF PurchaseInductive
<1>3. /\ Seen \in Observations /\ Seen.review = "none" /\ Seen.asked /\ ~ Seen.bought
      /\ call.fee \in DOMAIN fees /\ fees[call.fee].purchase = turn
  BY <1>1, <1>2 DEF NotedInductive, AtPurchase, Buying, Seen
<1>4. call.receipt => Paid(call.fee)
  BY <1>1 DEF AnswerInductive
<1>5. call.outcome # "none" => call.receipt
  BY <1>1 DEF AnswerInductive
<1>6. call.fee \in Nat /\ call.fee # 0
  <2>1. fees \in Seq(Fees)
    BY DEF GateTypeOK
  <2> HIDE DEF Fees
  <2> QED
    BY <1>3, <2>1
<1> DEFINE f == IF call.receipt THEN call.fee ELSE 0
<1>7. f \in Nat /\ Receipted = [Seen EXCEPT !.fee = f]
  BY <1>6 DEF Receipted
<1>8. f # 0 => f = call.fee /\ call.receipt
  OBVIOUS
<1>9. call.receipt => f # 0
  BY <1>6
<1> HIDE DEF f
<1>10. /\ Receipted \in Observations /\ Receipted.fee = f /\ Receipted.review = Seen.review
       /\ Receipted.asked = Seen.asked /\ Receipted.bought = Seen.bought
  BY <1>3, <1>7 DEF Observations
<1> QED
  BY <1>3, <1>4, <1>5, <1>8, <1>9, <1>10

LEMMA ApprovalSteps ==
  ASSUME GateTypeOK, AnswerInductive, PurchaseInductive, turn \in {1, 2}, OnApproval
  PROVE  PurchaseInductive'
<1> DEFINE o == [Receipted EXCEPT !.review = "approved"]
<1>1. /\ Buyer /\ AtAnswer("paid") /\ call.outcome = "approved" /\ Observe(o)
      /\ UNCHANGED <<fees, script, transfers, claims>>
      /\ phase = "paid" /\ turn' = turn
      /\ phase' = IF script = "hts" /\ turn = 2 THEN "failed" ELSE "submit"
  BY DEF OnApproval, Continue, AtAnswer
<1>2. /\ Receipted \in Observations
      /\ Receipted.review = "none" /\ Receipted.asked /\ ~ Receipted.bought
      /\ Receipted.fee # 0
      /\ Receipted.fee \in DOMAIN fees /\ Paid(Receipted.fee)
      /\ fees[Receipted.fee].purchase = turn
  BY <1>1, AnswerNoted
<1>3. /\ o \in Observations /\ o.asked /\ ~ o.bought /\ o.review = "approved"
      /\ o.fee = Receipted.fee
  BY <1>2 DEF Observations
<1> HIDE DEF o
<1>4. /\ LedgerInductive' /\ ClaimsInductive' /\ NotedInductive'
      /\ observed'[turn] = o
      /\ \A k \in 1..2 : k # turn => observed'[k] = observed[k]
  BY <1>1, <1>2, <1>3, NoteSteps
<1>5. /\ turn = 1 => Untouched(2)
      /\ \A k \in 1..2, c \in Subjects : Claimed(c, k) => k < turn
      /\ transfers[turn].fate \in {"none", "signed"}
  BY <1>1 DEF PurchaseInductive, AtPurchase, Buying
<1>6. AtPurchase'
  <2>1. turn = 1 => Untouched(2)'
    BY <1>1, <1>4, <1>5 DEF Untouched
  <2> QED
    BY <1>1, <1>3, <1>4, <1>5, <2>1 DEF AtPurchase, Beginning, Buying, Claimed
<1>7. AtReport'
  BY <1>1, <1>4 DEF AtReport, PurchaseInductive
<1> QED
  BY <1>1, <1>4, <1>6, <1>7 DEF PurchaseInductive, Buyer

LEMMA RefusalSteps ==
  ASSUME GateTypeOK, AnswerInductive, PurchaseInductive, turn \in {1, 2}, OnRefusal
  PROVE  PurchaseInductive'
<1> DEFINE o == [Receipted EXCEPT !.review = call.outcome]
<1>1. /\ Buyer /\ AtAnswer("paid") /\ call.outcome \in {"refused", "declined"} /\ Observe(o)
      /\ UNCHANGED <<fees, script, transfers, claims>> /\ phase = "paid"
      /\ IF script = "hts" /\ turn = 2 /\ call.outcome = "refused"
         THEN phase' = "verify_absence" /\ turn' = turn ELSE Over
  BY DEF OnRefusal, Continue, AtAnswer
<1>2. /\ Receipted \in Observations
      /\ Receipted.review = "none" /\ Receipted.asked /\ ~ Receipted.bought
      /\ Receipted.fee # 0
      /\ Receipted.fee \in DOMAIN fees /\ Paid(Receipted.fee)
      /\ fees[Receipted.fee].purchase = turn
  BY <1>1, AnswerNoted
<1>3. /\ o \in Observations /\ o.asked /\ ~ o.bought /\ o.review = call.outcome
      /\ o.fee = Receipted.fee
  BY <1>1, <1>2 DEF Observations
<1> HIDE DEF o
<1>4. /\ LedgerInductive' /\ ClaimsInductive' /\ NotedInductive'
      /\ observed'[turn] = o
      /\ \A k \in 1..2 : k # turn => observed'[k] = observed[k]
  BY <1>1, <1>2, <1>3, NoteSteps
<1>5. AtPurchase /\ AtReport
  BY <1>1 DEF PurchaseInductive
<1>6. AtPurchase' /\ AtReport'
  <2>1. CASE script = "hts" /\ turn = 2 /\ call.outcome = "refused"
    <3>1. phase' = "verify_absence" /\ turn' = 2
      BY <1>1, <2>1
    <3>2. AtPurchase'
      BY <3>1 DEF AtPurchase, Beginning, Buying
    <3>3. observed'[1].bought /\ observed'[2].review = "refused"
      BY <1>3, <1>4, <1>5, <2>1 DEF AtReport
    <3> QED
      BY <1>1, <2>1, <3>1, <3>2, <3>3 DEF AtReport
  <2>2. CASE Over
    BY <1>1, <1>4, <1>5, <2>2, OverMoves DEF Buying
  <2> QED
    BY <1>1, <2>1, <2>2
<1> QED
  BY <1>1, <1>4, <1>6 DEF PurchaseInductive, Buyer

LEMMA NoVerdictSteps ==
  ASSUME GateTypeOK, AnswerInductive, PurchaseInductive, turn \in {1, 2}, OnNoVerdict
  PROVE  PurchaseInductive'
<1> DEFINE o == Receipted
<1>1. /\ Buyer /\ AtAnswer("paid") /\ Observe(o) /\ Over
      /\ UNCHANGED <<fees, script, transfers, claims>> /\ phase = "paid"
  BY DEF OnNoVerdict, AtAnswer
<1>2. /\ o \in Observations /\ o.review = "none" /\ o.asked /\ ~ o.bought
      /\ o.fee # 0 => o.fee \in DOMAIN fees /\ Paid(o.fee) /\ fees[o.fee].purchase = turn
  BY <1>1, AnswerNoted
<1> HIDE DEF o
<1>3. /\ LedgerInductive' /\ ClaimsInductive' /\ NotedInductive'
      /\ \A k \in 1..2 : k # turn => observed'[k] = observed[k]
  BY <1>1, <1>2, NoteSteps
<1>4. AtPurchase' /\ AtReport'
  BY <1>1, <1>3, OverMoves DEF PurchaseInductive, Buying
<1> QED
  BY <1>1, <1>3, <1>4 DEF PurchaseInductive, Buyer

(* The transfer is handed over and bought with.                            *)
LEMMA SubmitSteps ==
  ASSUME PurchaseInductive, turn \in {1, 2}, Submit
  PROVE  PurchaseInductive'
<1>1. /\ Buyer /\ phase = "submit" /\ phase' = "submitted"
      /\ UNCHANGED <<fees, call, script, observed, claims, turn>>
      /\ transfers' = [transfers EXCEPT ![turn].fate = "submitted"]
  BY DEF Submit, TransferFate, Continue, gateVars
<1>2. LedgerInductive /\ ClaimsInductive /\ NotedInductive /\ AtPurchase /\ AtReport
  BY <1>1 DEF PurchaseInductive
<1>3. /\ turn = 1 => Untouched(2)
      /\ ~ observed[turn].bought /\ observed[turn].review = "approved"
      /\ \A k \in 1..2, c \in Subjects : Claimed(c, k) => k < turn
      /\ transfers[turn].fate \in {"none", "signed"}
  BY <1>1, <1>2 DEF AtPurchase, Buying
<1>4. /\ transfers' \in [1..2 -> [fate : TransferFates, age : Nat, lag : Nat]]
      /\ transfers'[turn].fate = "submitted" /\ transfers'[turn].age = transfers[turn].age
      /\ transfers'[turn].lag = transfers[turn].lag
      /\ \A k \in 1..2 : k # turn => transfers'[k] = transfers[k]
  BY <1>1, <1>2 DEF LedgerInductive, TransferFates
<1>5. LedgerInductive'
  BY <1>2, <1>3, <1>4 DEF LedgerInductive
<1>6. \A k \in 1..2 : (Executed(k)' <=> Executed(k)) /\ transfers'[k].age = transfers[k].age
  BY <1>3, <1>4 DEF Executed
<1>7. ClaimsInductive'
  BY <1>1, <1>2, <1>6 DEF ClaimsInductive, Claimed, Paid
<1>8. NotedInductive'
  BY <1>1, <1>2, <1>6 DEF NotedInductive, Paid
<1>9. AtPurchase'
  <2>1. turn = 1 => Untouched(2)'
    BY <1>1, <1>3, <1>4 DEF Untouched
  <2> QED
    BY <1>1, <1>3, <1>4, <2>1 DEF AtPurchase, Beginning, Buying, Claimed
<1>10. AtReport'
  BY <1>1, <1>2 DEF AtReport, RefusalShown, Claimed
<1> QED
  BY <1>1, <1>5, <1>7, <1>8, <1>9, <1>10 DEF PurchaseInductive, Buyer

LEMMA BoughtSteps ==
  ASSUME PurchaseInductive, turn \in {1, 2}, OnBought
  PROVE  PurchaseInductive'
<1> DEFINE o == [Seen EXCEPT !.bought = TRUE]
<1>1. /\ Buyer /\ phase = "submitted" /\ Executed(turn) /\ Observe(o)
      /\ UNCHANGED <<fees, script, transfers, claims>>
      /\ IF script = "hts" THEN phase' = "verify_purchase" /\ turn' = turn ELSE Over
  BY DEF OnBought, Continue, gateVars
<1>2. NotedInductive /\ AtPurchase /\ AtReport /\ Seen \in Observations
  BY <1>1 DEF PurchaseInductive, NotedInductive, Seen
<1>3. /\ o \in Observations /\ o.bought
      /\ o.fee = Seen.fee /\ o.review = Seen.review /\ o.asked = Seen.asked
  BY <1>2 DEF Observations
<1>4. /\ Seen.fee # 0 =>
            Seen.fee \in DOMAIN fees /\ Paid(Seen.fee) /\ fees[Seen.fee].purchase = turn
      /\ Seen.review # "none" => Seen.asked /\ Seen.fee # 0
      /\ Seen.review = "approved"
  BY <1>1, <1>2 DEF NotedInductive, AtPurchase, Buying, Seen
<1> HIDE DEF o
<1>5. /\ LedgerInductive' /\ ClaimsInductive' /\ NotedInductive'
      /\ observed'[turn] = o
      /\ \A k \in 1..2 : k # turn => observed'[k] = observed[k]
  BY <1>1, <1>3, <1>4, NoteSteps
<1>6. AtPurchase' /\ AtReport'
  <2>1. CASE script # "hts"
    BY <1>1, <1>2, <1>5, <2>1, OverMoves DEF Buying
  <2>2. CASE script = "hts"
    <3>1. phase' = "verify_purchase" /\ turn' = turn /\ turn = 1
      BY <1>1, <1>2, <2>2 DEF AtReport
    <3> QED
      BY <1>1, <1>3, <1>5, <2>2, <3>1 DEF AtPurchase, AtReport, Beginning, Buying
  <2> QED
    BY <2>1, <2>2
<1> QED
  BY <1>1, <1>5, <1>6 DEF PurchaseInductive, Buyer

(* Something is reported.                                                  *)
LEMMA ClaimSteps ==
  ASSUME PurchaseInductive, Buyer, turn \in {1, 2}, NEW c \in Subjects, Claim(<<c, turn>>),
         UNCHANGED <<script, transfers, observed, fees>>,
         c = "fee" => \E i \in DOMAIN fees : fees[i].purchase = turn /\ Paid(i),
         c = "bought" => Executed(turn),
         c = "absent" => ~ Executed(turn) /\ transfers[turn].age >= Validity + Grace,
         AtPurchase', AtReport'
  PROVE  PurchaseInductive'
<1>1. LedgerInductive /\ ClaimsInductive /\ NotedInductive
  BY DEF PurchaseInductive
<1>2. FeesRemain /\ TransfersMove /\ LedgerInductive' /\ NotedInductive'
  BY <1>1, SameFeesStay, SameTransfers, NotesStay DEF FeesRemain
<1>3. \A d, k : Claimed(d, k)' <=> Claimed(d, k) \/ (d = c /\ k = turn)
  BY DEF Claim, Claimed
<1>4. ASSUME NEW k \in 1..2
      PROVE  /\ Claimed("fee", k)' => \E i \in DOMAIN fees : fees[i].purchase = k /\ Paid(i)
             /\ Claimed("bought", k)' => Executed(k)
             /\ Claimed("absent", k)' =>
                 ~ Executed(k) /\ transfers[k].age >= Validity + Grace
  <2>1. CASE k = turn
    BY <1>1, <1>3, <2>1 DEF ClaimsInductive
  <2>2. CASE k # turn
    BY <1>1, <1>3, <2>2 DEF ClaimsInductive
  <2> QED
    BY <2>1, <2>2
<1>5. ClaimsInductive'
  BY <1>4 DEF ClaimsInductive, Executed, Paid
<1> QED
  BY <1>2, <1>5 DEF PurchaseInductive, Buyer

(* A look that leaves everything but the phase and the turn alone.         *)
LEMMA LookSteps ==
  ASSUME PurchaseInductive, turn \in {1, 2},
         LookupFails \/ NoFeeToVerify \/ NoPurchaseToVerify \/ Report
  PROVE  PurchaseInductive'
<1>1. Buyer /\ UNCHANGED <<script, transfers, observed, claims, fees>>
  BY DEF LookupFails, NoFeeToVerify, NoPurchaseToVerify, Report, gateVars
<1>2. AtReport /\ NotedInductive
  BY <1>1 DEF PurchaseInductive
<1>3. \A c, k : Claimed(c, k)' <=> Claimed(c, k)
  BY <1>1 DEF Claimed
<1>4. script = "hts" /\ turn = 2 => observed[1].bought
  BY <1>2 DEF AtReport
<1>5. AtPurchase' /\ AtReport'
  <2>1. CASE LookupFails
    <3>1. phase' = "failed" /\ turn' = turn
      BY <2>1 DEF LookupFails, Continue
    <3> QED
      BY <1>1, <1>4, <3>1 DEF AtPurchase, AtReport, Beginning, Buying
  <2>2. CASE NoFeeToVerify
    <3>1. phase = "verify_fee" /\ phase' = "verify_purchase" /\ turn' = turn
          /\ observed[turn].fee = 0
      BY <2>2 DEF NoFeeToVerify, Continue, Seen
    <3>2. script # "hts"
      <4>1. script = "hts" => observed[turn].review \in {"approved", "refused"}
        BY <1>2, <3>1 DEF AtReport, NotedInductive, RefusalShown
      <4> QED
        BY <1>2, <3>1, <4>1 DEF NotedInductive
    <3> QED
      BY <3>1, <3>2, <1>1 DEF AtPurchase, AtReport, Beginning, Buying
  <2>3. CASE NoPurchaseToVerify
    <3>1. /\ phase = "verify_purchase" /\ ~ observed[turn].bought
          /\ IF observed[turn].asked THEN phase' = "verify_absence" /\ turn' = turn ELSE Verified
      BY <2>3 DEF NoPurchaseToVerify, Continue, Seen
    <3>2. script = "guarded"
      <4>1. script = "hts" => turn = 1 /\ observed[1].bought
        BY <1>2, <3>1 DEF AtReport
      <4> QED
        BY <1>1, <3>1, <4>1 DEF Buyer
    <3>3. CASE observed[turn].asked
      BY <1>1, <3>1, <3>2, <3>3 DEF AtPurchase, AtReport, Beginning, Buying
    <3>4. CASE ~ observed[turn].asked
      <4>1. \/ turn = 1 /\ turn' = 2 /\ phase' = "verify_fee"
            \/ turn = 2 /\ turn' = 2 /\ phase' = "report"
        BY <3>1, <3>2, <3>4 DEF Verified
      <4> QED
        BY <1>1, <3>2, <3>4, <4>1 DEF AtPurchase, AtReport, Beginning, Buying
    <3> QED
      BY <3>3, <3>4
  <2>4. CASE Report
    <3>1. /\ phase = "report" /\ turn' = turn
          /\ phase' = IF script = "hts" \/ BothCasesShown THEN "passed" ELSE "failed"
      BY <2>4 DEF Report, Continue
    <3>2. AtPurchase'
      BY <3>1 DEF AtPurchase, Beginning, Buying
    <3>3. CASE script = "hts"
      <4>1. turn = 2 /\ RefusalShown /\ observed[1].bought
        BY <1>2, <3>1, <3>3 DEF AtReport
      <4>2. RefusalShown'
        BY <1>1, <1>3, <4>1 DEF RefusalShown
      <4> QED
        BY <1>1, <3>1, <3>2, <3>3, <4>1, <4>2 DEF AtReport
    <3>4. CASE script # "hts" /\ BothCasesShown
      <4>1. script = "guarded" /\ observed[1].bought /\ observed[2].review = "refused"
        BY <1>1, <3>4 DEF BothCasesShown, Buyer
      <4>2. observed[2].asked /\ ~ observed[2].bought
        BY <1>2, <4>1 DEF NotedInductive
      <4>3. Claimed("absent", 2)
        BY <1>2, <3>1, <4>1, <4>2 DEF AtReport
      <4>4. RefusalShown'
        BY <1>1, <1>3, <4>1, <4>3 DEF RefusalShown
      <4> QED
        BY <1>1, <3>1, <3>2, <4>1, <4>4, <3>4 DEF AtReport
    <3>5. CASE script # "hts" /\ ~ BothCasesShown
      BY <1>1, <3>1, <3>2, <3>5 DEF AtReport
    <3> QED
      BY <3>3, <3>4, <3>5
  <2> QED
    BY <2>1, <2>2, <2>3, <2>4
<1> QED
  BY <1>1, <1>5, PurchaseMoves

LEMMA VerifyFeeSteps ==
  ASSUME PurchaseInductive, Ahead, turn \in {1, 2}, VerifyFee
  PROVE  PurchaseInductive'
<1>1. /\ Buyer /\ phase = "verify_fee" /\ observed[turn].fee # 0
      /\ fees[observed[turn].fee].fate = "seen"
      /\ UNCHANGED <<fees, script, transfers, observed>>
  BY DEF VerifyFee, Seen, gateVars
<1>2. AtReport /\ NotedInductive
  BY <1>1 DEF PurchaseInductive
<1>3. script = "hts" /\ turn = 2 => observed[1].bought
  BY <1>2 DEF AtReport
<1>4. CASE Continue("inexact") /\ UNCHANGED claims
  <2>1. phase' = "inexact" /\ turn' = turn
    BY <1>4 DEF Continue
  <2>2. AtPurchase' /\ AtReport'
    BY <1>1, <1>3, <2>1 DEF AtPurchase, AtReport, Beginning, Buying
  <2> QED
    BY <1>1, <1>4, <2>2, PurchaseMoves
<1>5. CASE /\ Claim(<<"fee", turn>>)
           /\ IF script = "hts" THEN Verified ELSE Continue("verify_purchase")
  <2>1. observed[turn].fee \in DOMAIN fees /\ fees[observed[turn].fee].purchase = turn
        /\ Paid(observed[turn].fee)
    BY <1>1, <1>2 DEF NotedInductive
  <2>2. \A c, k : Claimed(c, k) => Claimed(c, k)'
    BY <1>5 DEF Claimed, Claim
  <2>3. AtPurchase' /\ AtReport'
    <3>1. CASE script = "hts" /\ turn = 1
      <4>1. phase' = "propose" /\ turn' = 2
        BY <1>5, <3>1 DEF Verified
      <4>2. observed[1].bought
        BY <1>1, <1>2, <3>1 DEF AtReport
      <4>3. Untouched(2)'
        BY <1>1, <3>1 DEF Ahead, Untouched
      <4>4. \A k \in 1..2, c \in Subjects : Claimed(c, k)' => k < 2
        BY <1>5, <3>1 DEF Ahead, Claim, Claimed
      <4>5. AtPurchase'
        BY <4>1, <4>3, <4>4 DEF AtPurchase, Beginning, Buying, Untouched
      <4> QED
        BY <1>1, <3>1, <4>1, <4>2, <4>5 DEF AtReport
    <3>2. CASE script = "hts" /\ turn = 2
      <4>1. phase' = "report" /\ turn' = 2
        BY <1>5, <3>2 DEF Verified
      <4>2. RefusalShown
        BY <1>1, <1>2, <3>2 DEF AtReport
      <4>3. RefusalShown'
        BY <1>1, <2>2, <4>2 DEF RefusalShown
      <4> QED
        BY <1>1, <1>3, <3>2, <4>1, <4>3 DEF AtPurchase, AtReport, Beginning, Buying
    <3>3. CASE script # "hts"
      <4>1. phase' = "verify_purchase"
        BY <1>5, <3>3 DEF Continue
      <4> QED
        BY <1>1, <3>3, <4>1 DEF AtPurchase, AtReport, Beginning, Buying
    <3> QED
      BY <3>1, <3>2, <3>3
  <2> QED
    BY <1>1, <1>5, <2>1, <2>3, ClaimSteps DEF Subjects
<1> QED
  BY <1>4, <1>5 DEF VerifyFee

LEMMA VerifyPurchaseSteps ==
  ASSUME PurchaseInductive, turn \in {1, 2}, VerifyPurchase
  PROVE  PurchaseInductive'
<1>1. /\ Buyer /\ phase = "verify_purchase" /\ observed[turn].bought
      /\ transfers[turn].fate = "seen" /\ Claim(<<"bought", turn>>)
      /\ UNCHANGED <<fees, script, transfers, observed>>
      /\ IF script = "hts" THEN phase' = "verify_fee" /\ turn' = turn ELSE Verified
  BY DEF VerifyPurchase, Continue, Seen, gateVars
<1>2. AtReport
  BY <1>1 DEF PurchaseInductive
<1>3. AtPurchase' /\ AtReport'
  <2>1. CASE script = "hts"
    <3>1. turn = 1 /\ turn' = 1 /\ phase' = "verify_fee"
      BY <1>1, <1>2, <2>1 DEF AtReport
    <3> QED
      BY <1>1, <2>1, <3>1 DEF AtPurchase, AtReport, Beginning, Buying
  <2>2. CASE script # "hts"
    <3>1. \/ turn = 1 /\ turn' = 2 /\ phase' = "verify_fee"
          \/ turn = 2 /\ turn' = 2 /\ phase' = "report"
      BY <1>1, <2>2 DEF Verified
    <3> QED
      BY <1>1, <2>2, <3>1 DEF AtPurchase, AtReport, Beginning, Buying
  <2> QED
    BY <2>1, <2>2
<1> QED
  BY <1>1, <1>3, ClaimSteps DEF Subjects, Executed

(* The last look for a transfer that must not be there: by now the mirror  *)
(* would show it.                                                          *)
LEMMA VerifyAbsenceSteps ==
  ASSUME PurchaseInductive, turn \in {1, 2}, VerifyAbsence
  PROVE  PurchaseInductive'
<1>1. /\ Buyer /\ phase = "verify_absence" /\ transfers[turn].age >= Validity + Grace
      /\ UNCHANGED <<fees, script, transfers, observed>>
      /\ IF transfers[turn].fate = "seen" THEN Continue("failed") /\ UNCHANGED claims
         ELSE /\ Claim(<<"absent", turn>>)
              /\ IF script = "hts" THEN Continue("verify_fee") ELSE Verified
  BY DEF VerifyAbsence, AbsenceMayBeAsked, gateVars
<1>2. AtReport /\ LedgerInductive
  BY <1>1 DEF PurchaseInductive
<1>3. CASE transfers[turn].fate = "seen"
  <2>1. phase' = "failed" /\ turn' = turn /\ UNCHANGED claims
    BY <1>1, <1>3 DEF Continue
  <2>2. AtPurchase' /\ AtReport'
    BY <1>1, <1>2, <2>1 DEF AtPurchase, AtReport, Beginning, Buying
  <2> QED
    BY <1>1, <2>1, <2>2, PurchaseMoves
<1>4. CASE transfers[turn].fate # "seen"
  <2>1. ~ Executed(turn)
    BY <1>1, <1>2, <1>4, AbsentIsAbsent
  <2>2. Claim(<<"absent", turn>>)
    BY <1>1, <1>4
  <2>3. AtPurchase' /\ AtReport'
    <3>1. CASE script = "hts"
      <4>1. turn = 2 /\ turn' = 2 /\ phase' = "verify_fee" /\ observed[2].review = "refused"
            /\ observed[1].bought
        BY <1>1, <1>2, <1>4, <3>1 DEF AtReport, Continue
      <4>2. RefusalShown'
        BY <1>1, <2>2, <4>1 DEF RefusalShown, Claim, Claimed
      <4> QED
        BY <1>1, <3>1, <4>1, <4>2 DEF AtPurchase, AtReport, Beginning, Buying
    <3>2. CASE script # "hts"
      <4>1. \/ turn = 1 /\ turn' = 2 /\ phase' = "verify_fee"
            \/ turn = 2 /\ turn' = 2 /\ phase' = "report"
        BY <1>1, <1>4, <3>2 DEF Verified
      <4> QED
        BY <1>1, <2>2, <3>2, <4>1 DEF AtPurchase, AtReport, Beginning, Buying, Claim, Claimed
    <3> QED
      BY <3>1, <3>2
  <2> QED
    BY <1>1, <2>1, <2>2, <2>3, ClaimSteps DEF Subjects
<1> QED
  BY <1>3, <1>4

LEMMA OverSteps ==
  ASSUME PurchaseInductive, turn \in {1, 2}, NothingAsked \/ NotBought
  PROVE  PurchaseInductive'
<1>1. /\ Buyer /\ Over /\ phase \in Beginning \cup Buying
      /\ UNCHANGED <<script, transfers, observed, claims, fees>>
  BY DEF NothingAsked, NotBought, Beginning, Buying, gateVars
<1> QED
  BY <1>1, OverMoves, PurchaseMoves DEF PurchaseInductive

LEMMA BuyingSteps ==
  ASSUME GateTypeOK, AnswerInductive, PurchaseInductive, Ahead, turn \in {1, 2}, Script
  PROVE  PurchaseInductive'
BY ProposeSteps, OverSteps, AskSteps, ChallengeSteps, ApprovalSteps, RefusalSteps,
   NoVerdictSteps, SubmitSteps, BoughtSteps, LookSteps, VerifyFeeSteps, VerifyPurchaseSteps,
   VerifyAbsenceSteps DEF Script

(* Nothing touches the second purchase of "hts" during its first.          *)
LEMMA AheadStays ==
  ASSUME Ahead, UNCHANGED script, turn' = 1 => turn = 1,
         turn = 1 =>
            /\ transfers[2].fate = "none" => transfers'[2].fate = "none"
            /\ observed'[2] = observed[2]
            /\ \A c \in Subjects : Claimed(c, 2)' => Claimed(c, 2)
  PROVE  Ahead'
BY DEF Ahead, Untouched

LEMMA ScriptAhead ==
  ASSUME PurchaseInductive, Ahead, turn \in {1, 2}, Script
  PROVE  Ahead'
<1>1. CASE turn = 2 \/ script # "hts"
  <2>1. UNCHANGED script
    BY DEF Script, Propose, NothingAsked, Ask, OnChallenge, OnApproval, OnRefusal,
       OnNoVerdict, Submit, OnBought, NotBought, LookupFails, VerifyFee, NoFeeToVerify,
       VerifyPurchase, NoPurchaseToVerify, VerifyAbsence, Report
  <2>2. script = "hts" => turn' = turn
    BY <1>1 DEF Script, Propose, NothingAsked, Ask, OnChallenge, OnApproval, OnRefusal,
       OnNoVerdict, Submit, OnBought, NotBought, LookupFails, VerifyFee, NoFeeToVerify,
       VerifyPurchase, NoPurchaseToVerify, VerifyAbsence, Report, Over, Continue, Verified
  <2> QED
    BY <1>1, <2>1, <2>2 DEF Ahead
<1>2. CASE turn = 1 /\ script = "hts"
  <2>1. UNCHANGED script /\ turn' \in {1, 2}
    BY <1>2 DEF Script, Propose, NothingAsked, Ask, OnChallenge, OnApproval, OnRefusal,
       OnNoVerdict, Submit, OnBought, NotBought, LookupFails, VerifyFee, NoFeeToVerify,
       VerifyPurchase, NoPurchaseToVerify, VerifyAbsence, Report, Over, Continue, Verified
  <2>2. UNCHANGED transfers \/ TransferFate(1, "signed") \/ TransferFate(1, "submitted")
    BY <1>2 DEF Script, Propose, NothingAsked, Ask, OnChallenge, OnApproval, OnRefusal,
       OnNoVerdict, Submit, OnBought, NotBought, LookupFails, VerifyFee, NoFeeToVerify,
       VerifyPurchase, NoPurchaseToVerify, VerifyAbsence, Report
  <2>3. UNCHANGED observed \/ \E o : observed' = [observed EXCEPT ![1] = o]
    BY <1>2 DEF Script, Propose, NothingAsked, Ask, OnChallenge, OnApproval, OnRefusal,
       OnNoVerdict, Submit, OnBought, NotBought, LookupFails, VerifyFee, NoFeeToVerify,
       VerifyPurchase, NoPurchaseToVerify, VerifyAbsence, Report, Observe
  <2>4. UNCHANGED claims \/ \E c \in Subjects : Claim(<<c, 1>>)
    BY <1>2 DEF Script, Propose, NothingAsked, Ask, OnChallenge, OnApproval, OnRefusal,
       OnNoVerdict, Submit, OnBought, NotBought, LookupFails, VerifyFee, NoFeeToVerify,
       VerifyPurchase, NoPurchaseToVerify, VerifyAbsence, Report, Subjects
  <2>5. transfers'[2] = transfers[2] /\ observed'[2] = observed[2]
    <3>1. /\ transfers \in [1..2 -> [fate : TransferFates, age : Nat, lag : Nat]]
          /\ observed \in [1..2 -> Observations]
      BY <1>2 DEF PurchaseInductive, LedgerInductive, NotedInductive, Buyer
    <3> QED
      BY <2>2, <2>3, <3>1 DEF TransferFate
  <2>6. \A c \in Subjects : Claimed(c, 2)' => Claimed(c, 2)
    BY <2>4 DEF Claim, Claimed
  <2> QED
    BY <1>2, <2>1, <2>5, <2>6, AheadStays
<1> QED
  BY <1>1, <1>2

(* Everything that is done around a client leaves its call to it.          *)
LEMMA ServiceLeavesPurchases ==
  ASSUME GateInductive, SpendInductive, AnswerInductive, PurchaseInductive, Ahead,
         ServiceNext, UNCHANGED clientVars
  PROVE  PurchaseInductive' /\ Ahead'
<1>1. FeesStay /\ CallAdvances
  BY ServiceAnswers
<1>2. FeesRemain
  BY <1>1, ServiceSigns DEF FeesRemain, NothingSigned
<1>3. turn \in {1, 2} /\ TransfersMove /\ LedgerInductive'
  BY SameTransfers DEF SpendInductive, clientVars, PurchaseInductive
<1>4. UNCHANGED <<script, phase, turn, transfers, observed, claims>>
  BY DEF clientVars
<1>5. call.stage # "none" => call'.stage # "none" /\ call'.fee = call.fee
  BY <1>1 DEF CallAdvances
<1>6. PurchaseInductive'
  BY <1>2, <1>3, <1>4, <1>5, PurchasesRest
<1>7. Ahead'
  BY <1>4 DEF Ahead, Untouched, Claimed
<1> QED
  BY <1>6, <1>7

LEMMA NetworkLeavesPurchases ==
  ASSUME PurchaseInductive, Ahead, turn \in {1, 2}, Network
  PROVE  PurchaseInductive' /\ Ahead'
<1>1. UNCHANGED <<gateVars, script, phase, turn, observed, claims>>
  BY DEF Network, ExecuteTransfer, IndexTransfer, Tick
<1>2. LedgerInductive' /\ TransfersMove
  BY NetworkMoves DEF PurchaseInductive
<1>3. FeesRemain
  BY <1>1, SameFeesStay DEF FeesRemain, gateVars
<1>4. PurchaseInductive'
  BY <1>1, <1>2, <1>3, PurchasesRest DEF gateVars
<1>5. Ahead'
  BY <1>1, <1>2 DEF Ahead, Untouched, Claimed, TransfersMove
<1> QED
  BY <1>4, <1>5

LEMMA PurchaseSteps ==
  ASSUME GateInductive, SpendInductive, AnswerInductive, PurchaseInductive, Ahead, [Next]_vars
  PROVE  PurchaseInductive' /\ Ahead'
<1>0. turn \in {1, 2} /\ GateTypeOK /\ LedgerInductive
  BY DEF SpendInductive, GateInductive, PurchaseInductive
<1>1. CASE ServiceNext /\ UNCHANGED clientVars
  BY <1>1, ServiceLeavesPurchases
<1>2. CASE Script
  BY <1>0, <1>2, BuyingSteps, ScriptAhead
<1>3. CASE Network
  BY <1>0, <1>3, NetworkLeavesPurchases
<1>4. CASE ~ Buyer /\ UNCHANGED <<script, claims, transfers>>
  <2>1. PurchaseInductive'
    BY <1>0, <1>4, NoPurchases, SameTransfers
  <2>2. script # "hts"
    BY <1>4 DEF Buyer
  <2> QED
    BY <1>4, <2>1, <2>2 DEF Ahead
<1>5. CASE script = "stranger" /\ StrangerCalls /\ UNCHANGED clientVars
  BY <1>4, <1>5 DEF Buyer, clientVars
<1>6. CASE Review
  <2>1. Reviewer /\ UNCHANGED <<script, claims, transfers>>
    BY <1>6 DEF Review, CreateSchedule, AwaitPending, AskReview, OnReviewChallenge,
       OnReviewAnswer, WriteEvent, EvidenceMissing, Goes, Fails
  <2> QED
    BY <1>4, <2>1 DEF Reviewer, Buyer
<1>7. CASE (\E o \in Outcomes : DecideOnCall(o)) \/ IndexSchedule \/ UNCHANGED vars
  <2>1. UNCHANGED clientVars /\ UNCHANGED fees
    BY <1>7 DEF DecideOnCall, Decide, IndexSchedule, vars, purchaseVars, gateVars
  <2>2. call.stage # "none" => call'.stage # "none" /\ call'.fee = call.fee
    <3>1. CASE UNCHANGED call
      BY <3>1
    <3>2. CASE \E o \in Outcomes : Decide(o)
      <4>1. call \in CallsMade
        BY <1>0, <3>2, CallIsMade DEF Decide, AtStage
      <4> QED
        BY <3>2, <4>1 DEF Decide, CallsMade
    <3> QED
      BY <1>7, <3>1, <3>2 DEF DecideOnCall, IndexSchedule, vars, purchaseVars, gateVars
  <2>3. FeesRemain /\ TransfersMove /\ LedgerInductive'
    BY <1>0, <2>1, SameFeesStay, SameTransfers DEF FeesRemain, clientVars
  <2>4. PurchaseInductive'
    BY <1>0, <2>1, <2>2, <2>3, PurchasesRest DEF clientVars
  <2>5. Ahead'
    BY <2>1 DEF Ahead, Untouched, Claimed, clientVars
  <2> QED
    BY <2>4, <2>5
<1> QED
  BY <1>1, <1>2, <1>3, <1>5, <1>6, <1>7 DEF Next

LEMMA PurchasesStart == Init => PurchaseInductive /\ Ahead
<1> SUFFICES ASSUME Init PROVE PurchaseInductive /\ Ahead
  OBVIOUS
<1>1. /\ turn = 1 /\ claims = {}
      /\ transfers = [k \in 1..2 |-> Unmade] /\ observed = [k \in 1..2 |-> Unobserved]
      /\ Buyer => phase = "propose"
  BY DEF Init, PurchaseInit
<1>2. \A k \in 1..2 :
        /\ transfers[k].fate = "none" /\ transfers[k].lag = 0
        /\ observed[k].fee = 0 /\ observed[k].review = "none" /\ ~ observed[k].bought
  BY <1>1 DEF Unmade, Unobserved
<1>3. LedgerInductive
  <2>1. Unmade \in [fate : TransferFates, age : Nat, lag : Nat]
    BY DEF Unmade, TransferFates
  <2> QED
    BY <1>1, <1>2, <2>1 DEF LedgerInductive
<1>4. ClaimsInductive /\ \A c, k : ~ Claimed(c, k)
  BY <1>1 DEF ClaimsInductive, Claimed
<1>5. NotedInductive
  <2>1. Unobserved \in Observations
    BY DEF Unobserved, Observations
  <2> QED
    BY <1>1, <1>2, <2>1 DEF NotedInductive
<1>6. Ahead
  BY <1>2, <1>4 DEF Ahead, Untouched
<1>7. Buyer => AtPurchase /\ AtReport
  BY <1>1, <1>2, <1>4 DEF AtPurchase, AtReport, Beginning, Buying, Untouched
<1> QED
  BY <1>1, <1>3, <1>4, <1>5, <1>6, <1>7 DEF PurchaseInductive

----------------------------------------------------------------------------
(* The paid service: the guard behind its gate and whichever client runs.  *)
PaidServiceInductive ==
    /\ GateInductive
    /\ SpendInductive
    /\ AnswerInductive
    /\ ReviewInductive
    /\ PurchaseInductive
    /\ Ahead

LEMMA GateSteps ==
  ASSUME GateInductive, turn \in {1, 2}, [Next]_vars
  PROVE  GateInductive'
<1>1. CASE ServiceNext
  BY <1>1, ServiceSteps
<1>2. CASE \E o \in Outcomes : DecideOnCall(o)
  <2>1. \E o \in Outcomes : Decide(o)
    BY <1>2 DEF DecideOnCall
  <2> QED
    BY <2>1, ServiceSteps
<1>3. CASE StrangerCalls
  BY <1>3, StrangerSteps
<1>4. CASE Script
  BY <1>4, ScriptSteps
<1>5. CASE Review
  BY <1>5, ReviewSteps
<1>6. CASE Network \/ IndexSchedule \/ UNCHANGED vars
  <2>1. UNCHANGED gateVars
    BY <1>6 DEF Network, ExecuteTransfer, IndexTransfer, Tick, IndexSchedule, vars, purchaseVars
  <2> QED
    BY <2>1, GateRests
<1> QED
  BY <1>1, <1>2, <1>3, <1>4, <1>5, <1>6 DEF Next

LEMMA SpendSteps ==
  ASSUME SpendInductive, [Next]_vars
  PROVE  SpendInductive'
<1>0. UNCHANGED <<script, phase, turn>> => MovesOn
  BY DEF SpendInductive, MovesOn
<1>1. CASE ServiceNext /\ UNCHANGED clientVars
  <2>1. MovesOn
    BY <1>0, <1>1 DEF clientVars
  <2> QED
    BY <1>1, <2>1, ServiceSigns, NoSpending
<1>2. CASE UNCHANGED <<fees, script, phase, turn>>
  BY <1>0, <1>2, Idling
<1>3. CASE script = "stranger" /\ StrangerCalls /\ UNCHANGED clientVars
  BY <1>3, StrangerSigns
<1>4. CASE Script
  <2>1. CASE OnChallenge
    BY <2>1, ChallengeSpends
  <2>2. CASE ~ OnChallenge
    BY <1>4, <2>2, ScriptMovesOn, Idling
  <2> QED
    BY <2>1, <2>2
<1>5. CASE Review
  BY <1>5, ReviewSpends
<1>6. CASE \E o \in Outcomes : DecideOnCall(o)
  BY <1>2, <1>6 DEF DecideOnCall, Decide, clientVars
<1>7. CASE Network \/ IndexSchedule \/ UNCHANGED vars
  BY <1>2, <1>7 DEF Network, ExecuteTransfer, IndexTransfer, Tick, IndexSchedule, vars,
     purchaseVars, gateVars, clientVars
<1> QED
  BY <1>1, <1>3, <1>4, <1>5, <1>6, <1>7 DEF Next

LEMMA EventSteps ==
  ASSUME GateInductive, turn \in {1, 2}, AnswerInductive, ReviewInductive, [Next]_vars
  PROVE  AnswerInductive' /\ ReviewInductive'
<1>0. /\ GateTypeOK
      /\ schedule \in [made : BOOLEAN, executed : BOOLEAN, shown : {"none", "pending", "executed"}]
  BY DEF GateInductive, ReviewInductive
<1>1. CASE ServiceNext /\ UNCHANGED <<clientVars, hostedVars>>
  <2>1. AnswerInductive' /\ CallAdvances /\ FeesStay
    BY <1>1, ServiceAnswers
  <2>2. UNCHANGED <<script, phase, turn, observed, event, schedule>>
    BY <1>1 DEF clientVars, hostedVars
  <2> QED
    BY <1>0, <2>1, <2>2, ReviewRests
<1>2. CASE \E o \in Outcomes : DecideOnCall(o)
  BY <1>0, <1>2, DecisionStep
<1>3. CASE script = "stranger" /\ StrangerCalls /\ UNCHANGED <<clientVars, hostedVars>>
  <2>1. ~ Reviewer /\ UNCHANGED <<script, hostedVars>>
    BY <1>3 DEF Reviewer, clientVars
  <2> QED
    BY <1>3, <2>1, StrangerAnswers, NoEvents
<1>4. CASE Script /\ UNCHANGED hostedVars
  BY <1>0, <1>4, ScriptAnswers, NoEvents
<1>5. CASE Review
  BY <1>0, <1>5, ReviewEvents
<1>6. CASE (Network /\ UNCHANGED hostedVars) \/ IndexSchedule \/ UNCHANGED vars
  <2>1. UNCHANGED <<call, fees, script, phase, turn, observed, event>>
    BY <1>6 DEF Network, ExecuteTransfer, IndexTransfer, Tick, IndexSchedule, vars,
       purchaseVars, gateVars, clientVars, hostedVars
  <2>2. /\ schedule' \in [made : BOOLEAN, executed : BOOLEAN,
                          shown : {"none", "pending", "executed"}]
        /\ schedule'.made = schedule.made /\ schedule'.executed = schedule.executed
    BY <1>0, <1>6 DEF IndexSchedule, vars, hostedVars
  <2>3. FeesStay
    BY <2>1, SameFeesStay
  <2>4. AnswerInductive' /\ CallAdvances
    BY <2>1, <2>3, IdleCall
  <2> QED
    BY <2>1, <2>2, <2>3, <2>4, ReviewRests
<1> QED
  BY <1>1, <1>2, <1>3, <1>4, <1>5, <1>6 DEF Next

LEMMA EventsStart == Init => AnswerInductive /\ ReviewInductive
<1> SUFFICES ASSUME Init PROVE AnswerInductive /\ ReviewInductive
  OBVIOUS
<1>1. /\ call = NoCall /\ event.outcome = "none"
      /\ schedule = [made |-> FALSE, executed |-> FALSE, shown |-> "none"]
      /\ observed = [k \in 1..2 |-> Unobserved]
  BY DEF Init, PurchaseInit, GateInit
<1>2. call.stage = "none" /\ observed \in [1..2 -> Observations]
  BY <1>1 DEF NoCall, Unobserved, Observations
<1>3. Reviewer => phase = "create"
  BY DEF Init, Buyer, Reviewer
<1> QED
  BY <1>1, <1>2, <1>3 DEF AnswerInductive, ReviewInductive, Waiting, Reported

(* The invariant of start-up, of the gate, of the settlements, of what the *)
(* clients sign and of what they write of it, whatever the guard asks,     *)
(* answers or loses.                                                       *)
THEOREM PaidServiceInvariant == Spec => []PaidServiceInductive
<1>1. Init => PaidServiceInductive
  BY GateStarts, SpendingStarts, EventsStart, PurchasesStart
     DEF Init, PurchaseInit, PaidServiceInductive
<1>2. PaidServiceInductive /\ [Next]_vars => PaidServiceInductive'
  <2> SUFFICES ASSUME GateInductive, SpendInductive, AnswerInductive, ReviewInductive,
                      PurchaseInductive, Ahead, [Next]_vars
               PROVE  /\ GateInductive' /\ SpendInductive' /\ AnswerInductive'
                      /\ ReviewInductive' /\ PurchaseInductive' /\ Ahead'
    BY DEF PaidServiceInductive
  <2>1. turn \in {1, 2}
    BY DEF SpendInductive
  <2> QED
    BY <2>1, GateSteps, SpendSteps, EventSteps, PurchaseSteps
<1> QED
  BY <1>1, <1>2, PTL DEF Spec

(* A treasury that start-up accepted opens, by the keys start-up found,    *)
(* for its owner, and for agent and guard together, and for nobody else.   *)
THEOREM TreasuriesAreGuarded == Spec => []AgentNeedsGuard
<1>1. PaidServiceInductive => AgentNeedsGuard
  BY BootGuards DEF PaidServiceInductive, GateInductive
<1> QED
  BY <1>1, PaidServiceInvariant, PTL

(* While the server answers requests, its topic takes its messages alone   *)
(* and for nothing.                                                        *)
THEOREM TopicIsHeld == Spec => []TopicStaysOurs
<1>1. PaidServiceInductive => TopicStaysOurs
  BY BootGuards DEF PaidServiceInductive, GateInductive
<1> QED
  BY <1>1, PaidServiceInvariant, PTL

(* No treasury pays, signs for or receives a fee that settles.             *)
THEOREM TreasuriesPayNoFees == Spec => []TreasuryUntouchedByFees
<1>1. PaidServiceInductive => TreasuryUntouchedByFees
  BY DEF PaidServiceInductive, GateInductive, SettledIsSound, PaymentSound, TreasuryUntouchedByFees, Paid,
     ConfigIsSound, FeeIdentityIsApart
<1> QED
  BY <1>1, PaidServiceInvariant, PTL

(* All work was paid for before, each by a payment of its own, of exactly  *)
(* the fee of the body worked on.                                          *)
THEOREM PaidInFull == Spec => []WorkIsPaidInFull
<1>1. PaidServiceInductive => WorkIsPaidInFull
  <2> SUFFICES ASSUME GateInductive PROVE WorkIsPaidInFull
    BY DEF PaidServiceInductive
  <2>1. SUFFICES ASSUME NEW i \in DOMAIN worked
        PROVE  LET w == worked[i] p == fees[w.fee].payment IN
               /\ Paid(w.fee)
               /\ p.to = config.feeAccount
               /\ IF w.path = "/review" THEN p.amount = config.price
                  ELSE FairFee(p.amount, w.body, config.meter)
    BY DEF WorkIsPaidInFull, GateInductive, WorkIsSettled
  <2> DEFINE w == worked[i]
             p == fees[w.fee].payment
  <2>2. w.fee \in DOMAIN fees /\ Paid(w.fee) /\ p.terms = Terms(w.path, w.body)
    BY DEF GateInductive, WorkIsSettled
  <2>3. PaymentSound(p) /\ GateIsSound
    BY <2>2 DEF GateInductive, SettledIsSound, Paid
  <2>4. w.path \in Paths /\ w.body \in AnyBody
    <3>1. worked \in Seq([fee : Nat, path : Paths, body : AnyBody])
      BY DEF GateInductive, GateTypeOK
    <3>2. w \in [fee : Nat, path : Paths, body : AnyBody]
      <4> DEFINE W == [fee : Nat, path : Paths, body : AnyBody]
      <4> HIDE DEF W
      <4>1. worked \in Seq(W)
        BY <3>1 DEF W
      <4>2. worked[i] \in W
        BY <4>1
      <4> QED
        BY <4>2 DEF W
    <3> QED
      BY <3>2
  <2>5. p.amount = Terms(w.path, w.body).amount /\ p.to = config.feeAccount
    BY <2>2, <2>3 DEF PaymentSound
  <2>6. config.meter \in Meters /\ config.meter.min <= config.meter.max
    BY <2>3, ConfigTypes DEF GateInductive, BootInductive, Meters, GateIsSound, MeterIsSound
  <2>7. FairFee(Quote(w.body, config.meter), w.body, config.meter)
    BY <2>4, <2>6, QuoteIsFair
  <2> QED
    BY <2>2, <2>5, <2>7 DEF Terms
<1> QED
  BY <1>1, PaidServiceInvariant, PTL

(* A client signs at most one fee for a proposal, and none above its cap,  *)
(* whatever the guard asks, answers or loses.                              *)
THEOREM ClientsPayOnce == Spec => []SpendIsBounded
<1>1. PaidServiceInductive => SpendIsBounded
  BY DEF PaidServiceInductive, SpendInductive
<1> QED
  BY <1>1, PaidServiceInvariant, PTL

(* An evidence event is written for a paid fee of exactly the amount it    *)
(* states, and its outcome is what became of the schedule.                 *)
THEOREM EventsAreTrue == Spec => []EventIsTrue
<1>1. PaidServiceInductive => EventIsTrue
  <2> SUFFICES ASSUME ReviewInductive, event.outcome # "none" PROVE EventIsTrue
    BY DEF PaidServiceInductive, EventIsTrue
  <2>1. /\ Reviewer /\ phase = "passed"
        /\ event = [outcome |-> Seen.review, amount |-> Price, fee |-> Seen.fee]
    BY DEF ReviewInductive
  <2>2. /\ Seen.review = script /\ Seen.fee # 0 /\ Paid(Seen.fee)
        /\ fees[Seen.fee].payment.amount = Price
        /\ schedule.executed <=> script = "approved"
    BY <2>1 DEF ReviewInductive, Reported
  <2>3. event.outcome = Seen.review /\ event.amount = Price /\ event.fee = Seen.fee
    BY <2>1
  <2> QED
    BY <2>2, <2>3 DEF EventIsTrue
<1> QED
  BY <1>1, PaidServiceInvariant, PTL

(* Two fees, of the first and of the second purchase, are all there are.   *)
LEMMA OneFeeEach ==
  ASSUME SpendInductive, script # "stranger",
         NEW i \in DOMAIN fees, NEW j \in DOMAIN fees,
         fees[i].purchase = 1, fees[j].purchase = 2, Paid(i), Paid(j)
  PROVE  Len(fees) = 2 /\ Paid(1) /\ Paid(2)
<1>1. PICK S : fees \in Seq(Signed(S))
  BY DEF SpendInductive
<1>2. /\ Len(fees) \in Nat /\ DOMAIN fees = 1..Len(fees)
      /\ \A n \in DOMAIN fees : fees[n] \in Signed(S)
  <2> HIDE DEF Signed
  <2> QED
    BY <1>1
<1>3. \A n \in DOMAIN fees : fees[n].purchase \in {1, 2}
  BY <1>2 DEF Signed
<1>4. \A n, m \in DOMAIN fees : fees[n].purchase = fees[m].purchase => n = m
  BY DEF SpendInductive, SpendIsBounded
<1>5. \A n \in DOMAIN fees : n = i \/ n = j
  BY <1>3, <1>4
<1>6. i # j
  OBVIOUS
<1>7. i \in 1..Len(fees) /\ j \in 1..Len(fees) /\ \A n \in 1..Len(fees) : n = i \/ n = j
  BY <1>2, <1>5
<1>8. Len(fees) = 2 /\ {i, j} = {1, 2}
  BY <1>2, <1>6, <1>7
<1> QED
  BY <1>8

(* What the scripts report is so and stays so: a fee or a purchase they    *)
(* show was executed, a transfer they call absent never will be, and a     *)
(* pass means one purchase, no other, and two fees.                        *)
THEOREM ReportsAreTrue == Spec => []ReportIsTrue
<1>1. PaidServiceInductive => ReportIsTrue
  <2> SUFFICES ASSUME SpendInductive, PurchaseInductive PROVE ReportIsTrue
    BY DEF PaidServiceInductive
  <2>1. ClaimsInductive
    BY DEF PurchaseInductive
  <2>2. ASSUME Buyer, phase = "passed"
        PROVE  Executed(1) /\ ~ Executed(2) /\ Len(fees) = 2 /\ Paid(1) /\ Paid(2)
    <3>1. NotedInductive /\ observed[1].bought /\ RefusalShown
      BY <2>2 DEF PurchaseInductive, AtReport
    <3>2. Executed(1) /\ ~ Executed(2)
      BY <2>1, <3>1 DEF NotedInductive, ClaimsInductive, RefusalShown
    <3>3. observed[1].review = "approved" /\ observed[2].review = "refused"
      BY <3>1 DEF NotedInductive, RefusalShown
    <3>4. \A k \in 1..2 :
            /\ observed[k].fee \in DOMAIN fees /\ Paid(observed[k].fee)
            /\ fees[observed[k].fee].purchase = k
      BY <3>1, <3>3 DEF NotedInductive
    <3>5. script # "stranger"
      BY <2>2 DEF Buyer
    <3> QED
      BY <3>2, <3>4, <3>5, OneFeeEach
  <2> QED
    BY <2>1, <2>2 DEF ReportIsTrue, ClaimsInductive, Claimed
<1> QED
  BY <1>1, PaidServiceInvariant, PTL
----------------------------------------------------------------------------
(* The end of the scripts.                                                 *)
Looking == {"verify_fee", "verify_purchase", "verify_absence"}
BuyerPhases == Beginning \cup Buying \cup Looking \cup {"report"} \cup Ended
ReviewerPhases == Reviewing \cup {"paid", "outcome"} \cup Ended

PhaseKnown ==
    /\ Buyer => phase \in BuyerPhases
    /\ Reviewer => phase \in ReviewerPhases

(* How many steps of its own a script has left at most: in its purchase,   *)
(* its looks or its review, and in all.  The two buyers look in different  *)
(* orders: "guarded" after both purchases, "hts" after each.               *)
PurchaseLeft ==
    [p \in Beginning \cup Buying |->
        CASE p = "propose" -> 6 [] p = "ask" -> 5 [] p = "challenged" -> 4
          [] p = "paid" -> 3 [] p = "submit" -> 2 [] p = "submitted" -> 1]
GuardedLooksLeft ==
    [p \in Looking |->
        CASE p = "verify_fee" -> 3 [] p = "verify_purchase" -> 2 [] p = "verify_absence" -> 1]
HtsLooksLeft == [p \in Looking |-> IF p = "verify_fee" THEN 1 ELSE 2]
ReviewLeft ==
    [p \in Reviewing \cup {"paid", "outcome"} |->
        CASE p = "create" -> 6 [] p = "evidence" -> 5 [] p = "ask" -> 4
          [] p = "challenged" -> 3 [] p = "paid" -> 2 [] p = "outcome" -> 1]

Left(s, p, t) ==
    IF p \in Ended THEN 0
    ELSE IF p = "report" THEN 1
    ELSE IF s \in {"approved", "refused"} THEN ReviewLeft[p]
    ELSE IF p \in Looking /\ s = "guarded" THEN GuardedLooksLeft[p] + (IF t = 1 THEN 4 ELSE 1)
    ELSE IF p \in Looking THEN HtsLooksLeft[p] + (IF t = 1 THEN 9 ELSE 1)
    ELSE PurchaseLeft[p] + (IF s = "guarded" THEN IF t = 1 THEN 13 ELSE 7
                            ELSE IF t = 1 THEN 11 ELSE 3)

ScriptLeft == Left(script, phase, turn)

(* A client, whatever it meets, goes on or ends: each step of its own      *)
(* brings it nearer to its end, and nothing else moves it.                 *)
ScriptAdvances ==
    [][script # "stranger" =>
        /\ ScriptLeft' <= ScriptLeft
        /\ Script \/ Review => ScriptLeft' < ScriptLeft]_vars

ScriptIsBounded == script # "stranger" => ScriptLeft \in 0..19

LEMMA BoundOfLeft ==
  ASSUME NEW s, NEW p, NEW t \in {1, 2},
         \/ s \in {"guarded", "hts"} /\ p \in BuyerPhases
         \/ s \in {"approved", "refused"} /\ p \in ReviewerPhases
  PROVE  Left(s, p, t) \in 0..19
<1> USE DEF Left, Ended
<1>1. CASE s \in {"approved", "refused"}
  BY <1>1 DEF ReviewerPhases, ReviewLeft, Reviewing
<1>2. CASE s \in {"guarded", "hts"} /\ p \in Looking
  BY <1>2 DEF Looking, GuardedLooksLeft, HtsLooksLeft
<1>3. CASE s \in {"guarded", "hts"} /\ p \in Beginning \cup Buying
  BY <1>3 DEF Beginning, Buying, Looking, PurchaseLeft
<1> QED
  BY <1>1, <1>2, <1>3 DEF BuyerPhases

LEMMA BoundOfScript ==
  ASSUME SpendInductive, PhaseKnown
  PROVE  ScriptIsBounded
BY BoundOfLeft DEF SpendInductive, PhaseKnown, ScriptIsBounded, ScriptLeft, Buyer, Reviewer

(* A purchase that is over leaves fewer steps than any before it.          *)
LEMMA OverGoesOn ==
  ASSUME Buyer, turn \in {1, 2}, phase \in Beginning \cup Buying, UNCHANGED script, Over
  PROVE  ScriptLeft' < ScriptLeft /\ PhaseKnown'
<1>1. \/ script = "hts" /\ phase' = "failed" /\ turn' = turn
      \/ script = "guarded" /\ turn = 1 /\ phase' = "propose" /\ turn' = 2
      \/ script = "guarded" /\ turn = 2 /\ phase' = "verify_fee" /\ turn' = 1
  BY DEF Over, Buyer
<1>2. PhaseKnown'
  BY <1>1 DEF PhaseKnown, Buyer, Reviewer, BuyerPhases, Beginning, Looking, Ended
<1> QED
  BY <1>1, <1>2 DEF ScriptLeft, Left, Ended, Looking, Beginning, Buying, PurchaseLeft,
     GuardedLooksLeft

(* So does the last look at one.                                           *)
LEMMA VerifiedGoesOn ==
  ASSUME Buyer, turn \in {1, 2}, phase \in Looking, UNCHANGED script, Verified
  PROVE  ScriptLeft' < ScriptLeft /\ PhaseKnown'
<1>1. \/ script = "hts" /\ turn = 1 /\ phase' = "propose" /\ turn' = 2
      \/ script = "guarded" /\ turn = 1 /\ phase' = "verify_fee" /\ turn' = 2
      \/ turn = 2 /\ phase' = "report" /\ turn' = turn
  BY DEF Verified, Buyer
<1>2. PhaseKnown'
  BY <1>1 DEF PhaseKnown, Buyer, Reviewer, BuyerPhases, Beginning, Looking
<1> QED
  BY <1>1, <1>2 DEF ScriptLeft, Left, Buyer, Ended, Looking, Beginning, Buying, PurchaseLeft,
     GuardedLooksLeft, HtsLooksLeft

(* A step from one phase of a purchase to a later one.                     *)
LEMMA BuyingGoesOn ==
  ASSUME Buyer, turn \in {1, 2}, UNCHANGED <<script, turn>>,
         \/ phase = "propose" /\ phase' = "ask"
         \/ phase = "ask" /\ phase' = "challenged"
         \/ phase = "challenged" /\ phase' = "paid"
         \/ phase = "paid" /\ phase' = "submit"
         \/ phase = "paid" /\ phase' = "failed"
         \/ phase = "paid" /\ phase' = "verify_absence" /\ script = "hts"
         \/ phase = "submit" /\ phase' = "submitted"
         \/ phase = "submitted" /\ phase' = "verify_purchase" /\ script = "hts"
         \/ phase = "report" /\ phase' \in {"passed", "failed"}
  PROVE  ScriptLeft' < ScriptLeft /\ PhaseKnown'
<1>1. PhaseKnown'
  BY DEF PhaseKnown, Buyer, Reviewer, BuyerPhases, Beginning, Buying, Looking, Ended
<1> QED
  BY <1>1 DEF ScriptLeft, Left, Buyer, Ended, Looking, Beginning, Buying, PurchaseLeft,
     HtsLooksLeft

(* A step from one look to a later one.                                    *)
LEMMA LookingGoesOn ==
  ASSUME Buyer, turn \in {1, 2}, UNCHANGED <<script, turn>>,
         \/ phase \in Looking /\ phase' \in {"failed", "inexact"}
         \/ phase = "verify_fee" /\ phase' = "verify_purchase" /\ script = "guarded"
         \/ phase = "verify_purchase" /\ phase' = "verify_absence" /\ script = "guarded"
         \/ phase \in {"verify_purchase", "verify_absence"} /\ phase' = "verify_fee"
            /\ script = "hts"
  PROVE  ScriptLeft' < ScriptLeft /\ PhaseKnown'
<1>1. PhaseKnown'
  BY DEF PhaseKnown, Buyer, Reviewer, BuyerPhases, Beginning, Buying, Looking, Ended
<1> QED
  BY <1>1 DEF ScriptLeft, Left, Buyer, Ended, Looking, GuardedLooksLeft, HtsLooksLeft

(* "hts" looks at a purchase that was made, for a fee that was paid.       *)
LEMMA HtsLooksForSomething ==
  ASSUME PurchaseInductive, script = "hts", turn \in {1, 2}
  PROVE  /\ phase = "verify_fee" => Seen.fee # 0
         /\ phase = "verify_purchase" => Seen.bought
<1>1. NotedInductive /\ AtReport
  BY DEF PurchaseInductive, Buyer
<1>2. CASE phase = "verify_fee" /\ turn = 1
  BY <1>1, <1>2 DEF NotedInductive, AtReport, Seen
<1>3. CASE phase = "verify_fee" /\ turn = 2
  BY <1>1, <1>3 DEF NotedInductive, AtReport, RefusalShown, Seen
<1>4. CASE phase = "verify_purchase"
  BY <1>1, <1>4 DEF AtReport, Seen
<1> QED
  BY <1>2, <1>3, <1>4

LEMMA ScriptGoesOn ==
  ASSUME PurchaseInductive, turn \in {1, 2}, Script
  PROVE  ScriptLeft' < ScriptLeft /\ PhaseKnown'
<1> USE DEF Continue, AtAnswer
<1>1. CASE Propose \/ Ask \/ Submit \/ Report
  BY <1>1, BuyingGoesOn DEF Propose, Ask, Submit, Report
<1>2. CASE NothingAsked \/ NotBought
  BY <1>2, OverGoesOn DEF NothingAsked, NotBought, Beginning, Buying
<1>3. CASE OnChallenge
  BY <1>3, BuyingGoesOn, OverGoesOn DEF OnChallenge, Beginning
<1>4. CASE OnApproval
  BY <1>4, BuyingGoesOn DEF OnApproval
<1>5. CASE OnRefusal
  BY <1>5, BuyingGoesOn, OverGoesOn DEF OnRefusal, Buying
<1>6. CASE OnNoVerdict
  BY <1>6, OverGoesOn DEF OnNoVerdict, Buying
<1>7. CASE OnBought
  BY <1>7, BuyingGoesOn, OverGoesOn DEF OnBought, Buying
<1>8. CASE LookupFails
  BY <1>8, LookingGoesOn DEF LookupFails, Looking
<1>9. CASE VerifyFee
  BY <1>9, LookingGoesOn, VerifiedGoesOn DEF VerifyFee, Looking, Buyer
<1>10. CASE NoFeeToVerify
  BY <1>10, LookingGoesOn, HtsLooksForSomething DEF NoFeeToVerify, Buyer
<1>11. CASE VerifyPurchase
  BY <1>11, LookingGoesOn, VerifiedGoesOn DEF VerifyPurchase, Looking
<1>12. CASE NoPurchaseToVerify
  BY <1>12, LookingGoesOn, VerifiedGoesOn, HtsLooksForSomething
     DEF NoPurchaseToVerify, Looking, Buyer
<1>13. CASE VerifyAbsence
  BY <1>13, LookingGoesOn, VerifiedGoesOn DEF VerifyAbsence, Looking
<1> QED
  BY <1>1, <1>2, <1>3, <1>4, <1>5, <1>6, <1>7, <1>8, <1>9, <1>10, <1>11, <1>12, <1>13
     DEF Script

LEMMA ReviewGoesOn ==
  ASSUME Review
  PROVE  ScriptLeft' < ScriptLeft /\ PhaseKnown'
<1>1. /\ Reviewer /\ UNCHANGED script
      /\ \/ phase = "create" /\ phase' = "evidence"
         \/ phase = "evidence" /\ phase' = "ask"
         \/ phase = "ask" /\ phase' = "challenged"
         \/ phase = "challenged" /\ phase' \in {"paid", "failed"}
         \/ phase = "paid" /\ phase' \in {"outcome", "failed"}
         \/ phase = "outcome" /\ phase' = "passed"
         \/ phase \in {"create", "evidence", "ask", "outcome"} /\ phase' = "failed"
  <2>1. CASE CreateSchedule \/ AwaitPending \/ AskReview
    BY <2>1 DEF CreateSchedule, AwaitPending, AskReview, Goes
  <2>2. CASE OnReviewChallenge \/ OnReviewAnswer
    BY <2>2 DEF OnReviewChallenge, OnReviewAnswer, AtAnswer
  <2>3. CASE WriteEvent \/ EvidenceMissing
    BY <2>3 DEF WriteEvent, EvidenceMissing, Goes, Fails
  <2> QED
    BY <2>1, <2>2, <2>3 DEF Review
<1>2. PhaseKnown'
  BY <1>1 DEF PhaseKnown, Buyer, Reviewer, ReviewerPhases, Reviewing, Ended
<1> QED
  BY <1>1, <1>2 DEF Reviewer, ScriptLeft, Left, Ended, ReviewLeft, Reviewing

LEMMA ScriptKeepsName ==
  ASSUME Script \/ Review
  PROVE  UNCHANGED script
BY DEF Script, Propose, NothingAsked, Ask, OnChallenge, OnApproval, OnRefusal, OnNoVerdict,
   Submit, OnBought, NotBought, LookupFails, VerifyFee, NoFeeToVerify, VerifyPurchase,
   NoPurchaseToVerify, VerifyAbsence, Report, Review, CreateSchedule, AwaitPending, AskReview,
   OnReviewChallenge, OnReviewAnswer, WriteEvent, EvidenceMissing

LEMMA ScriptRests ==
  ASSUME [Next]_vars, ~ Script, ~ Review
  PROVE  UNCHANGED <<script, phase, turn>>
BY DEF Next, clientVars, DecideOnCall, Network, ExecuteTransfer, IndexTransfer, Tick,
   IndexSchedule, vars, purchaseVars

(* A client comes to its end within nineteen steps of its own, whatever is *)
(* lost, refused or late: the safety half of ScriptEnds.                   *)
THEOREM ScriptsEndWithinBound == Spec => []ScriptIsBounded /\ ScriptAdvances
<1>1. Init => PhaseKnown
  BY DEF Init, PhaseKnown, Buyer, Reviewer, BuyerPhases, ReviewerPhases, Beginning, Reviewing
<1>2. PaidServiceInductive /\ PhaseKnown /\ [Next]_vars => PhaseKnown'
  <2> SUFFICES ASSUME PaidServiceInductive, PhaseKnown, [Next]_vars PROVE PhaseKnown'
    OBVIOUS
  <2>1. CASE Script \/ Review
    BY <2>1, ScriptGoesOn, ReviewGoesOn DEF PaidServiceInductive, SpendInductive
  <2>2. CASE ~ Script /\ ~ Review
    BY <2>2, ScriptRests DEF PhaseKnown, Buyer, Reviewer
  <2> QED
    BY <2>1, <2>2
<1>3. PaidServiceInductive /\ PhaseKnown => ScriptIsBounded
  BY BoundOfScript DEF PaidServiceInductive
<1>4. PaidServiceInductive /\ PhaseKnown /\ [Next]_vars =>
        [script # "stranger" =>
          /\ ScriptLeft' <= ScriptLeft
          /\ Script \/ Review => ScriptLeft' < ScriptLeft]_vars
  <2> SUFFICES ASSUME PaidServiceInductive, PhaseKnown, [Next]_vars, script # "stranger"
               PROVE  /\ ScriptLeft' <= ScriptLeft
                      /\ Script \/ Review => ScriptLeft' < ScriptLeft
    OBVIOUS
  <2>1. ScriptLeft \in 0..19
    BY BoundOfScript DEF PaidServiceInductive, ScriptIsBounded
  <2>2. CASE Script \/ Review
    <3>1. ScriptLeft' < ScriptLeft /\ PhaseKnown'
      BY <2>2, ScriptGoesOn, ReviewGoesOn DEF PaidServiceInductive, SpendInductive
    <3>2. SpendInductive'
      BY SpendSteps DEF PaidServiceInductive
    <3>3. script' # "stranger"
      BY <2>2, ScriptKeepsName
    <3>4. ScriptLeft' \in 0..19
      BY <3>1, <3>2, <3>3, BoundOfLeft
         DEF SpendInductive, PhaseKnown, ScriptLeft, Buyer, Reviewer
    <3> QED
      BY <2>1, <3>1, <3>4
  <2>3. CASE ~ Script /\ ~ Review
    BY <2>1, <2>3, ScriptRests DEF ScriptLeft
  <2> QED
    BY <2>2, <2>3
<1> QED
  BY <1>1, <1>2, <1>3, <1>4, PaidServiceInvariant, PTL DEF Spec, ScriptAdvances

=============================================================================
