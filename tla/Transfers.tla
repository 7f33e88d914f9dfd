----------------------------- MODULE Transfers -----------------------------
(***************************************************************************)
(* Transfer lists and what the ledger makes of them: the part of a Hedera  *)
(* transaction that both validators of the guard look into, and the change *)
(* of every balance when consensus executes it.                            *)
(*                                                                         *)
(* A transfer is [hbar, tokens]: a sequence of adjustments, and a sequence *)
(* of token lists [token, list, nfts], each a sequence of adjustments with *)
(* a flag that says whether it moves NFTs as well.  An adjustment is       *)
(* [account, amount, approval].  A mandate is [asset, cap, allow,          *)
(* validFrom, expires].                                                    *)
(***************************************************************************)
EXTENDS Integers, Sequences, FiniteSetsExt

CONSTANTS
    Treasury,     \* context.treasuryAccountId
    GuardAccount, \* context.guardAccountId
    Others,       \* the other accounts
    Hbar,         \* the asset of an HBAR mandate
    Tokens        \* the tokens an HTS mandate may name

Accounts == {Treasury, GuardAccount} \cup Others
Assets == {Hbar} \cup Tokens

(* No account is another one's: start-up checks that the keys of the       *)
(* owner, the agent and the guard are pairwise distinct and that the       *)
(* treasury's is a threshold key over them (hasExpectedTreasuryKey).       *)
AccountConstants == Treasury # GuardAccount /\ {Treasury, GuardAccount} \cap Others = {}

(* A mandate's numbers are unsigned decimals.                              *)
MandateConstants(m) == m.cap \in Nat /\ m.validFrom \in Nat /\ m.expires \in Nat

Adjustments == Seq([account : Accounts, amount : Int, approval : BOOLEAN])
TokenList == [token : Tokens, list : Adjustments, nfts : BOOLEAN]
Transfer == [hbar : Adjustments, tokens : Seq(TokenList)]

Adj(x, n) == [account |-> x, amount |-> n, approval |-> FALSE]
Approved(x, n) == [account |-> x, amount |-> n, approval |-> TRUE]

----------------------------------------------------------------------------
(* What both validators ask of the two adjustments of the mandate's asset. *)
(* The debit and the credit are the first of each kind, as find returns    *)
(* them.                                                                   *)
Debit(s) == s[Min({i \in DOMAIN s : s[i].account = Treasury})]
Credit(s) == s[Min({i \in DOMAIN s : s[i].account # Treasury})]

(* Fault: entries beyond the two looked at are let through.                *)
AtLeastTwo(s) ==
    /\ \E i \in DOMAIN s : s[i].account = Treasury
    /\ \E i \in DOMAIN s : s[i].account # Treasury

ExactlyTwo(s) ==
    /\ Len(s) = 2
    /\ \E i \in DOMAIN s : s[i].account = Treasury
    /\ \E i \in DOMAIN s : s[i].account # Treasury

AdjustmentsPass(s, m) ==
    /\ ExactlyTwo(s)
    /\ \A i \in DOMAIN s : ~ s[i].approval
    /\ Debit(s).amount < 0 /\ Credit(s).amount > 0
    /\ - Debit(s).amount = Credit(s).amount
    /\ Credit(s).account \in m.allow
    /\ Credit(s).amount <= m.cap

----------------------------------------------------------------------------
(* What consensus does with a transfer.                                    *)
Total(s, Test(_)) ==
    SumFunction([i \in DOMAIN s |-> IF Test(s[i]) THEN s[i].amount ELSE 0])

(* The change of one balance; the NFTs of a list are the treasury's. *)
Change(tr, x, a) ==
    LET Of(s) == Total(s, LAMBDA d : d.account = x)
        Nft(l) == IF l.nfts /\ x = Treasury THEN 1 ELSE 0 IN
    IF a = Hbar THEN Of(tr.hbar)
    ELSE SumFunction([i \in {j \in DOMAIN tr.tokens : tr.tokens[j].token = a} |->
                          Of(tr.tokens[i].list) - Nft(tr.tokens[i])])

(* A list that creates or destroys value is rejected. *)
Balanced(tr) ==
    LET Sum0(s) == Total(s, LAMBDA d : TRUE) = 0 IN
    Sum0(tr.hbar) /\ \A i \in DOMAIN tr.tokens : Sum0(tr.tokens[i].list)

(* Every account pays what it is charged besides the transfer: charge is a *)
(* function from <<account, asset>> to an amount.                          *)
Applied(balance, tr, charge) ==
    [p \in Accounts \X Assets |-> balance[p] + Change(tr, p[1], p[2]) - charge[p]]

NoBalance == [p \in Accounts \X Assets |-> 0]

(* What moved of what a mandate m let the guard sign for: the treasury     *)
(* lost at most the cap of the mandate's asset and nothing else, the       *)
(* guard's account lost nothing, and only accounts of the allowlist got    *)
(* anything.                                                               *)
WithinMandate(balance, m) ==
    /\ \A a \in Assets :
        /\ balance[<<Treasury, a>>] >= IF a = m.asset THEN - m.cap ELSE 0
        /\ balance[<<GuardAccount, a>>] >= 0
    /\ \A x \in Accounts \ m.allow, a \in Assets : balance[<<x, a>>] <= 0
============================================================================
