-------------------------- MODULE Transfers_proofs --------------------------
(***************************************************************************)
(* What a transfer that satisfies a mandate does to every balance, for any *)
(* accounts, assets and amounts: lemmas for the proofs about the rules of  *)
(* both paths.                                                             *)
(***************************************************************************)
EXTENDS Transfers, TLAPS

(* The sums of f over the subsets of its domain, as the library defines    *)
(* them: one index is taken away at a time.                                *)
Taken(s) == CHOOSE x \in s : TRUE
SumStep(f, h) ==
    [s \in SUBSET DOMAIN f |-> IF s = {} THEN 0 ELSE f[Taken(s)] + h[s \ {Taken(s)}]]
Sums(f) == CHOOSE h : h = SumStep(f, h)

LEMMA SumIsLast == \A f : SumFunction(f) = Sums(f)[DOMAIN f]
<1>1. QED
  BY DEF SumFunction, SumFunctionOnSet, FoldFunction, FoldFunctionOnSet, MapThenFoldSet,
         Sums, SumStep, Taken

(* They exist, given some that satisfy the equation.                       *)
LEMMA SumsUnfold ==
  ASSUME NEW f, NEW w, w = SumStep(f, w)
  PROVE  /\ Sums(f)[{}] = 0
         /\ \A s \in SUBSET DOMAIN f :
              s # {} => Sums(f)[s] = f[Taken(s)] + Sums(f)[s \ {Taken(s)}]
<1>1. Sums(f) = SumStep(f, Sums(f))
  BY DEF Sums
<1>2. QED
  BY <1>1 DEF SumStep

LEMMA SumOfTwo ==
  ASSUME NEW f, DOMAIN f = {1, 2}, f[1] \in Int, f[2] \in Int
  PROVE  SumFunction(f) = f[1] + f[2]
<1> DEFINE D == {1, 2}
           w == [s \in SUBSET D |-> (IF 1 \in s THEN f[1] ELSE 0) + (IF 2 \in s THEN f[2] ELSE 0)]
<1>1. ASSUME NEW s \in SUBSET D, s # {}
      PROVE  Taken(s) \in s /\ Taken(s) \in D
  BY <1>1 DEF Taken
<1>2. w = SumStep(f, w)
  <2>1. ASSUME NEW s \in SUBSET D, s # {} PROVE w[s] = f[Taken(s)] + w[s \ {Taken(s)}]
    <3>1. s \ {Taken(s)} \in SUBSET D
      OBVIOUS
    <3>2. Taken(s) = 1 \/ Taken(s) = 2
      BY <1>1, <2>1
    <3>3. QED
      BY <1>1, <2>1, <3>1, <3>2
  <2>2. w[{}] = 0
    OBVIOUS
  <2>3. QED
    BY <2>1, <2>2 DEF SumStep
<1> HIDE DEF w
<1>3. ASSUME NEW n \in D PROVE Sums(f)[{n}] = f[n]
  <2>1. {n} \in SUBSET D /\ {n} # {} /\ Taken({n}) = n /\ {n} \ {n} = {}
    BY <1>1
  <2>2. Sums(f)[{n}] = f[n] + Sums(f)[{}] /\ Sums(f)[{}] = 0
    BY <1>2, <2>1, SumsUnfold
  <2>3. f[n] \in Int
    OBVIOUS
  <2>4. QED
    BY ONLY <2>2, <2>3
<1>4. Taken(D) \in D /\ Sums(f)[D] = f[Taken(D)] + Sums(f)[D \ {Taken(D)}]
  BY <1>1, <1>2, SumsUnfold
<1>5. D \ {1} = {2} /\ D \ {2} = {1}
  OBVIOUS
<1>6. Taken(D) = 1 \/ Taken(D) = 2
  BY <1>4
<1>7. Sums(f)[D] = f[1] + f[2] \/ Sums(f)[D] = f[2] + f[1]
  BY <1>3, <1>4, <1>5, <1>6
<1>8. Sums(f)[D] = f[1] + f[2]
  BY ONLY <1>7, f[1] \in Int, f[2] \in Int
<1>9. QED
  BY <1>8, SumIsLast

LEMMA SumOfOne ==
  ASSUME NEW f, DOMAIN f = {1}, f[1] \in Int
  PROVE  SumFunction(f) = f[1]
<1> DEFINE w == [s \in SUBSET {1} |-> IF s = {} THEN 0 ELSE f[1]]
<1>1. ASSUME NEW s \in SUBSET {1}, s # {}
      PROVE  s = {1} /\ Taken(s) = 1 /\ s \ {Taken(s)} = {}
  BY <1>1 DEF Taken
<1>2. w = SumStep(f, w)
  BY <1>1 DEF SumStep
<1> HIDE DEF w
<1>3. Sums(f)[{1}] = f[1] + Sums(f)[{}] /\ Sums(f)[{}] = 0
  BY <1>1, <1>2, SumsUnfold
<1>4. QED
  BY <1>3, SumIsLast

LEMMA SumOfNone ==
  ASSUME NEW f, DOMAIN f = {}
  PROVE  SumFunction(f) = 0
<1>1. [s \in SUBSET {} |-> 0] = SumStep(f, [s \in SUBSET {} |-> 0])
  BY DEF SumStep
<1>2. QED
  BY <1>1, SumIsLast, SumsUnfold

----------------------------------------------------------------------------
(* The shape of the adjustments the guard signs.                           *)
Shape(s, m) ==
    /\ Len(s) = 2
    /\ \E i, j \in {1, 2} :
        /\ i # j
        /\ s[i].account = Treasury /\ s[j].account # Treasury
        /\ s[j].account \in m.allow
        /\ 0 < s[j].amount /\ s[j].amount <= m.cap
        /\ s[i].amount = - s[j].amount

(* The first of one kind among two, when there is one of each.             *)
LEMMA TwoKinds ==
  ASSUME NEW s, NEW m, Len(s) = 2, DOMAIN s = 1..Len(s), AdjustmentsPass(s, m),
         \A i \in DOMAIN s : s[i].amount \in Int
  PROVE  Shape(s, m)
<1>1. DOMAIN s = {1, 2}
  OBVIOUS
<1>2. PICK i \in {1, 2}, j \in {1, 2} :
        /\ s[i].account = Treasury /\ s[j].account # Treasury /\ i # j
        /\ {k \in DOMAIN s : s[k].account = Treasury} = {i}
        /\ {k \in DOMAIN s : s[k].account # Treasury} = {j}
  <2>1. PICK i \in {1, 2}, j \in {1, 2} : s[i].account = Treasury /\ s[j].account # Treasury
    BY <1>1 DEF AdjustmentsPass, ExactlyTwo
  <2>2. i # j
    BY <2>1
  <2>3. QED
    BY <1>1, <2>1, <2>2
<1>3. ASSUME NEW k \in {1, 2} PROVE Min({k}) = k
  BY <1>3 DEF Min
<1>4. Debit(s) = s[i] /\ Credit(s) = s[j]
  BY <1>2, <1>3 DEF Debit, Credit
<1>5. s[i].amount \in Int /\ s[j].amount \in Int
  BY <1>1, <1>2
<1>6. /\ s[j].amount > 0 /\ - s[i].amount = s[j].amount
      /\ s[j].account \in m.allow /\ s[j].amount <= m.cap
  BY <1>4 DEF AdjustmentsPass
<1>7. 0 < s[j].amount /\ s[i].amount = - s[j].amount
  BY ONLY <1>5, <1>6
<1>8. QED
  BY <1>2, <1>6, <1>7 DEF Shape

(* What a sequence of adjustments is made of.                              *)
LEMMA AdjustmentsTyped ==
  ASSUME NEW s \in Adjustments
  PROVE  DOMAIN s = 1..Len(s) /\ \A i \in DOMAIN s : s[i].amount \in Int
<1> DEFINE R == [account : Accounts, amount : Int, approval : BOOLEAN]
<1>1. s \in Seq(R)
  BY DEF Adjustments
<1>2. \A x \in R : x.amount \in Int
  OBVIOUS
<1> HIDE DEF R
<1>3. DOMAIN s = 1..Len(s) /\ \A i \in DOMAIN s : s[i] \in R
  BY <1>1
<1>4. QED
  BY <1>2, <1>3

(* A time reached in whole seconds is reached in ticks.                    *)
LEMMA SecondsReached ==
  ASSUME NEW p \in Nat \ {0}, NEW n \in Nat, NEW v \in Nat, v <= n \div p
  PROVE  v * p <= n
<1> DEFINE q == n \div p
<1>1. p \in Nat /\ p > 0
  OBVIOUS
<1>2. q \in Int /\ q * p <= n
  BY <1>1
<1>3. v * p <= q * p
  <2>1. PICK d \in Nat : q = v + d
    <3>1. q - v \in Nat /\ q = v + (q - v)
      BY <1>2
    <3>2. QED
      BY <3>1
  <2>2. q * p = v * p + d * p
    BY <1>1, <2>1
  <2>3. d * p >= 0
    BY <1>1, <2>1
  <2>4. v * p \in Int /\ d * p \in Int
    BY <1>1, <2>1
  <2>5. QED
    BY ONLY <2>2, <2>3, <2>4
<1>4. v * p \in Int /\ q * p \in Int
  BY <1>1, <1>2
<1>5. QED
  BY ONLY <1>2, <1>3, <1>4

----------------------------------------------------------------------------
(* What a transfer adds to an account's balance of one asset.              *)
Moved(s, x) == SumFunction([i \in DOMAIN s |-> IF s[i].account = x THEN s[i].amount ELSE 0])

LEMMA ShapeMoves ==
  ASSUME NEW s \in Adjustments, NEW m, m.cap \in Nat, Shape(s, m), NEW x
  PROVE  /\ Moved(s, x) \in Int
         /\ x = Treasury => - m.cap <= Moved(s, x) /\ Moved(s, x) <= 0
         /\ x # Treasury => 0 <= Moved(s, x)
         /\ x # Treasury /\ x \notin m.allow => Moved(s, x) = 0
<1> DEFINE f == [i \in DOMAIN s |-> IF s[i].account = x THEN s[i].amount ELSE 0]
<1>1. PICK i \in {1, 2}, j \in {1, 2} :
        /\ i # j
        /\ s[i].account = Treasury /\ s[j].account # Treasury
        /\ s[j].account \in m.allow
        /\ 0 < s[j].amount /\ s[j].amount <= m.cap
        /\ s[i].amount = - s[j].amount
  BY DEF Shape
<1>2. DOMAIN s = {1, 2} /\ \A k \in {1, 2} : s[k].amount \in Int
  <2>1. DOMAIN s = 1..Len(s) /\ Len(s) = 2
    BY AdjustmentsTyped DEF Shape
  <2>2. 1..2 = {1, 2}
    OBVIOUS
  <2>3. QED
    BY <2>1, <2>2, AdjustmentsTyped
<1>3. DOMAIN f = {1, 2} /\ f[1] \in Int /\ f[2] \in Int
  BY <1>2
<1>4. /\ f[i] = IF x = Treasury THEN - s[j].amount ELSE 0
      /\ f[j] = IF x = s[j].account THEN s[j].amount ELSE 0
  BY <1>1, <1>2
<1>5. Moved(s, x) = f[1] + f[2]
  <2> HIDE DEF f
  <2>1. SumFunction(f) = f[1] + f[2]
    BY <1>3, SumOfTwo
  <2>2. QED
    BY <2>1 DEF Moved, f
<1> HIDE DEF f
<1>6. Moved(s, x) = f[i] + f[j]
  BY <1>1, <1>3, <1>5
<1>7. s[j].amount \in Int
  BY <1>2
<1>8. CASE x = Treasury
  BY <1>1, <1>4, <1>6, <1>7, <1>8
<1>9. CASE x # Treasury
  BY <1>1, <1>4, <1>6, <1>7, <1>9
<1>10. QED
  BY <1>8, <1>9

(* What a mandate lets the guard sign: a transfer of its asset alone that  *)
(* pays one allowed recipient at most the cap, from the treasury.          *)
PaysAsMandated(tr, m) ==
    IF m.asset = Hbar
    THEN tr.tokens = <<>> /\ Shape(tr.hbar, m)
    ELSE /\ tr.hbar = <<>> /\ Len(tr.tokens) = 1
         /\ tr.tokens[1].token = m.asset /\ ~ tr.tokens[1].nfts
         /\ Shape(tr.tokens[1].list, m)

(* Its change of a balance: nothing outside the asset of the mandate, what *)
(* the two adjustments say within.                                         *)
LEMMA ChangeIsMoved ==
  ASSUME NEW tr \in Transfer, NEW m, m.cap \in Nat, PaysAsMandated(tr, m), NEW x, NEW a
  PROVE  /\ a # m.asset => Change(tr, x, a) = 0
         /\ a = m.asset => \E s \in Adjustments : Shape(s, m) /\ Change(tr, x, a) = Moved(s, x)
<1>1. tr.hbar \in Adjustments /\ tr.tokens \in Seq(TokenList)
  BY DEF Transfer
<1>2. a = Hbar => Change(tr, x, a) = Moved(tr.hbar, x)
  BY DEF Change, Total, Moved
<1>3. Moved(<<>>, x) = 0
  BY SumOfNone DEF Moved
<1> DEFINE J == {j \in DOMAIN tr.tokens : tr.tokens[j].token = a}
           Nft(l) == IF l.nfts /\ x = Treasury THEN 1 ELSE 0
           g == [i \in J |-> Moved(tr.tokens[i].list, x) - Nft(tr.tokens[i])]
<1>4. a # Hbar => Change(tr, x, a) = SumFunction(g)
  BY DEF Change, Total, Moved
<1>5. CASE m.asset = Hbar
  <2>1. a # Hbar => DOMAIN g = {}
    BY <1>5 DEF PaysAsMandated
  <2> HIDE DEF g
  <2>2. a # Hbar => Change(tr, x, a) = 0
    BY <1>4, <2>1, SumOfNone
  <2>3. QED
    BY <1>1, <1>2, <1>5, <2>2 DEF PaysAsMandated
<1>6. CASE m.asset # Hbar
  <2> DEFINE s == tr.tokens[1].list
  <2>1. /\ tr.hbar = <<>> /\ DOMAIN tr.tokens = {1}
        /\ tr.tokens[1].token = m.asset /\ ~ tr.tokens[1].nfts /\ Shape(s, m)
    BY <1>1, <1>6 DEF PaysAsMandated
  <2>2. s \in Adjustments
    <3>1. tr.tokens[1] \in TokenList
      BY <1>1, <2>1
    <3>2. QED
      BY <3>1 DEF TokenList
  <2>3. Moved(s, x) \in Int
    BY <2>1, <2>2, ShapeMoves
  <2>4. a = Hbar => Change(tr, x, a) = 0
    BY <1>2, <1>3, <2>1
  <2>5. a # Hbar /\ a # m.asset => Change(tr, x, a) = 0
    <3>1. a # m.asset => DOMAIN g = {}
      BY <2>1
    <3> HIDE DEF g
    <3>2. QED
      BY <1>4, <3>1, SumOfNone
  <2>6. a = m.asset => Change(tr, x, a) = Moved(s, x)
    <3> SUFFICES ASSUME a = m.asset PROVE Change(tr, x, a) = Moved(s, x)
      OBVIOUS
    <3>1. DOMAIN g = {1} /\ g[1] = Moved(s, x) - 0
      BY <2>1
    <3>2. g[1] = Moved(s, x)
      BY <2>3, <3>1
    <3> HIDE DEF g, s
    <3>3. QED
      BY <1>4, <1>6, <2>3, <3>1, <3>2, SumOfOne
  <2>7. QED
    BY <2>1, <2>2, <2>4, <2>5, <2>6
<1>7. QED
  BY <1>5, <1>6

(* One such transfer stays within the mandate, if neither the treasury nor *)
(* the guard pays anything for it.                                         *)
LEMMA PaymentWithinMandate ==
  ASSUME NEW tr \in Transfer, NEW m, m.cap \in Nat, PaysAsMandated(tr, m), AccountConstants,
         NEW charge \in [Accounts \X Assets -> Nat],
         \A a \in Assets : charge[<<Treasury, a>>] = 0 /\ charge[<<GuardAccount, a>>] = 0
  PROVE  WithinMandate(Applied(NoBalance, tr, charge), m)
<1> DEFINE b == Applied(NoBalance, tr, charge)
<1>1. ASSUME NEW x \in Accounts, NEW a \in Assets
      PROVE  /\ Change(tr, x, a) \in Int
             /\ b[<<x, a>>] = Change(tr, x, a) - charge[<<x, a>>]
             /\ x = Treasury => Change(tr, x, a) >= IF a = m.asset THEN - m.cap ELSE 0
             /\ x # Treasury => Change(tr, x, a) >= 0
             /\ x \notin m.allow => Change(tr, x, a) <= 0
  <2>1. \/ Change(tr, x, a) = 0
        \/ /\ a = m.asset
           /\ \E s \in Adjustments : Shape(s, m) /\ Change(tr, x, a) = Moved(s, x)
    BY ChangeIsMoved
  <2>2. b[<<x, a>>] = 0 + Change(tr, x, a) - charge[<<x, a>>]
    BY DEF Applied, NoBalance
  <2>3. charge[<<x, a>>] \in Nat
    OBVIOUS
  <2>4. Change(tr, x, a) \in Int
    BY <2>1, ShapeMoves
  <2>5. b[<<x, a>>] = Change(tr, x, a) - charge[<<x, a>>]
    BY ONLY <2>2, <2>3, <2>4
  <2>6. CASE Change(tr, x, a) = 0
    BY <2>5, <2>6
  <2>7. CASE a = m.asset /\ \E s \in Adjustments : Shape(s, m) /\ Change(tr, x, a) = Moved(s, x)
    <3>1. PICK s \in Adjustments : Shape(s, m) /\ Change(tr, x, a) = Moved(s, x)
      BY <2>7
    <3>2. /\ x = Treasury => - m.cap <= Moved(s, x) /\ Moved(s, x) <= 0
          /\ x # Treasury => 0 <= Moved(s, x)
          /\ x # Treasury /\ x \notin m.allow => Moved(s, x) = 0
      BY <3>1, ShapeMoves
    <3>3. QED
      BY <2>4, <2>5, <2>7, <3>1, <3>2
  <2>8. QED
    BY <2>1, <2>6, <2>7
<1>2. Treasury \in Accounts /\ GuardAccount \in Accounts
  BY DEF Accounts
<1> HIDE DEF b
<1>3. ASSUME NEW a \in Assets
      PROVE  /\ b[<<Treasury, a>>] >= IF a = m.asset THEN - m.cap ELSE 0
             /\ b[<<GuardAccount, a>>] >= 0
  <2>1. charge[<<Treasury, a>>] = 0 /\ charge[<<GuardAccount, a>>] = 0
    OBVIOUS
  <2>2. /\ Change(tr, Treasury, a) \in Int
        /\ b[<<Treasury, a>>] = Change(tr, Treasury, a) - charge[<<Treasury, a>>]
        /\ Change(tr, Treasury, a) >= IF a = m.asset THEN - m.cap ELSE 0
    BY <1>1, <1>2
  <2>3. /\ Change(tr, GuardAccount, a) \in Int
        /\ b[<<GuardAccount, a>>] = Change(tr, GuardAccount, a) - charge[<<GuardAccount, a>>]
        /\ Change(tr, GuardAccount, a) >= 0
    <3>1. GuardAccount # Treasury
      BY DEF AccountConstants
    <3>2. QED
      BY <1>1, <1>2, <3>1
  <2>4. QED
    BY <2>1, <2>2, <2>3
<1>4. ASSUME NEW x \in Accounts \ m.allow, NEW a \in Assets PROVE b[<<x, a>>] <= 0
  <2>1. /\ Change(tr, x, a) \in Int /\ Change(tr, x, a) <= 0
        /\ b[<<x, a>>] = Change(tr, x, a) - charge[<<x, a>>]
    BY <1>1
  <2>2. charge[<<x, a>>] \in Nat
    OBVIOUS
  <2>3. QED
    BY ONLY <2>1, <2>2
<1>5. QED
  BY <1>3, <1>4 DEF WithinMandate, b

(* So does a mandate that nothing was moved for.                           *)
LEMMA NothingWithinMandate ==
  ASSUME NEW m, m.cap \in Nat
  PROVE  WithinMandate(NoBalance, m)
<1>1. \A x \in Accounts, a \in Assets : NoBalance[<<x, a>>] = 0
  BY DEF NoBalance
<1>2. Treasury \in Accounts /\ GuardAccount \in Accounts
  BY DEF Accounts
<1>3. QED
  BY <1>1, <1>2 DEF WithinMandate
============================================================================
