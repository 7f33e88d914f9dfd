---------------------------- MODULE MCValidators ----------------------------
(***************************************************************************)
(* The rules of both paths, one request at a time: a transfer for          *)
(* /countersign (TransferRules) or a schedule for /review (ReviewRules).   *)
(* What is submitted differs from something proper in at most two          *)
(* respects: the list of one transaction in two, the list of two           *)
(* transactions in one each, a schedule in two.  The mandates, over HBAR   *)
(* or over the token tk, allow at most 2 to the recipient, from second 1   *)
(* to second 3, of two ticks each.                                         *)
(***************************************************************************)
EXTENDS TransferRules, ReviewRules, TLC

CONSTANTS treasury, guard, recipient, agent, stranger, hbar, tk, tk2

VARIABLE route

MCOthers == {recipient, agent, stranger}
MCTokens == {tk, tk2}
MCMandates ==
    [asset : {hbar, tk}, cap : {2}, allow : {{recipient}}, validFrom : {1}, expires : {3}]

Pay(x, y, n) == <<Adj(x, 0 - n), Adj(y, n)>>
Lists ==
    { <<>>, Pay(treasury, recipient, 1), Pay(treasury, recipient, 2),
      Pay(treasury, recipient, 3), Pay(treasury, stranger, 1),
      Pay(recipient, treasury, 1), Pay(guard, recipient, 1), Pay(treasury, treasury, 0),
      <<Adj(recipient, 1), Adj(treasury, -1)>>, <<Adj(treasury, -1), Adj(recipient, 2)>>,
      <<Adj(treasury, -1), Adj(recipient, 1), Adj(treasury, -1), Adj(stranger, 1)>>,
      <<Adj(treasury, -1), Adj(recipient, 1), Adj(guard, -1), Adj(stranger, 1)>>,
      <<Adj(treasury, -2), Adj(recipient, 1), Adj(stranger, 1)>>,
      <<Approved(treasury, -1), Adj(recipient, 1)>> }
TokenLists ==
    { <<>> } \cup {<<[token |-> x, list |-> l, nfts |-> b]>> : x \in {tk, tk2},
                     l \in Lists \ {<<>>}, b \in BOOLEAN}
    \cup { <<[token |-> tk, list |-> Pay(treasury, recipient, 1), nfts |-> FALSE],
             [token |-> tk2, list |-> Pay(treasury, recipient, 1), nfts |-> FALSE]>> }

Sig(p, v) == [prefix |-> p, valid |-> v]
ByAgent == <<Sig("agent", TRUE)>>
TransferBase(h, l) ==
    [payer |-> agent, plain |-> TRUE, fee |-> 1, start |-> 2, seconds |-> 2,
     transfer |-> [hbar |-> h, tokens |-> l], node |-> 1, sigs |-> ByAgent]
HbarBase == TransferBase(Pay(treasury, recipient, 2), <<>>)
TokenBase ==
    TransferBase(<<>>, <<[token |-> tk, list |-> Pay(treasury, recipient, 2), nfts |-> FALSE]>>)

(* One respect of a transaction changed. *)
TransferVariants(t) ==
    {[t EXCEPT !.payer = x] : x \in {agent, treasury, guard, stranger}}
    \cup {[t EXCEPT !.plain = FALSE], [t EXCEPT !.fee = 2], [t EXCEPT !.node = 2]}
    \cup {[t EXCEPT !.start = x] : x \in 1..4}
    \cup {[t EXCEPT !.seconds = x] : x \in 0..3}
    \cup {[t EXCEPT !.transfer.hbar = x] : x \in Lists}
    \cup {[t EXCEPT !.transfer.tokens = x] : x \in TokenLists}
    \cup {[t EXCEPT !.sigs = x] : x \in
            {<<>>, <<Sig("agent", FALSE)>>, ByAgent \o <<Sig("guard", TRUE)>>,
             <<Sig("empty", TRUE)>>}}

MCSubmissions ==
    LET Once == TransferVariants(HbarBase) \cup TransferVariants(TokenBase)
        Few == {t \in Once : t.transfer.tokens \in {<<>>, TokenBase.transfer.tokens}} IN
    {<<>>}
    \cup {<<t>> : t \in UNION {TransferVariants(u) : u \in Few}}
    \cup {<<t, u>> : t \in Few, u \in {[v EXCEPT !.node = 3 - v.node] : v \in Few}}

ReviewLists ==
    { <<>>, Pay(treasury, recipient, 2), Pay(treasury, recipient, 3),
      Pay(treasury, stranger, 1), Pay(recipient, treasury, 1), Pay(guard, recipient, 1),
      <<Adj(recipient, 1), Adj(treasury, -1)>>, <<Adj(treasury, -1), Adj(recipient, 2)>>,
      <<Adj(treasury, -1), Adj(recipient, 1), Adj(guard, -1), Adj(stranger, 1)>>,
      <<Approved(treasury, -1), Adj(recipient, 1)>> }
ReviewTokenLists ==
    {<<>>} \cup {<<[token |-> tk, list |-> l, nfts |-> FALSE]>> :
                    l \in {Pay(treasury, recipient, 1), Pay(treasury, stranger, 1)}}

ScheduleBase(h, l) ==
    [creator |-> agent, payer |-> agent, bound |-> TRUE, adminKey |-> FALSE,
     wait |-> FALSE, expires |-> 6, plain |-> TRUE, hidden |-> FALSE, fee |-> 1,
     transfer |-> [hbar |-> h, tokens |-> l]]
HbarSchedule == ScheduleBase(Pay(treasury, recipient, 2), <<>>)
TokenSchedule ==
    ScheduleBase(<<>>, <<[token |-> tk, list |-> Pay(treasury, recipient, 1), nfts |-> FALSE]>>)

(* One respect of a schedule changed. *)
ScheduleVariants(s) ==
    {[s EXCEPT !.payer = x] : x \in {agent, treasury, guard}}
    \cup {[s EXCEPT !.creator = stranger], [s EXCEPT !.bound = FALSE],
          [s EXCEPT !.adminKey = TRUE], [s EXCEPT !.wait = TRUE],
          [s EXCEPT !.plain = FALSE], [s EXCEPT !.hidden = TRUE], [s EXCEPT !.fee = 2]}
    \cup {[s EXCEPT !.expires = x] : x \in {3, 4, 6, 7}}
    \cup {[s EXCEPT !.transfer.hbar = x] : x \in ReviewLists}
    \cup {[s EXCEPT !.transfer.tokens = x] : x \in ReviewTokenLists}

MCSchedules ==
    UNION {ScheduleVariants(s) :
              s \in ScheduleVariants(HbarSchedule) \cup ScheduleVariants(TokenSchedule)}

----------------------------------------------------------------------------
(* The variables of the path that was not asked. *)
NoTransfer == list = <<>> /\ customFee = 0 /\ feeKey = FALSE /\ executed = {}

NoReview ==
    /\ version = Allowed /\ schedule = NoSchedule /\ signers = {} /\ fate = "live"
    /\ before = Allowed /\ seen = Nothing

MCInit ==
    \/ route = "/countersign" /\ Init /\ NoReview
    \/ route = "/review" /\ ReviewInit /\ NoTransfer

MCNext ==
    /\ UNCHANGED route
    /\ \/ /\ route = "/countersign" /\ Next
          /\ UNCHANGED <<version, schedule, signers, fate, before, seen>>
       \/ /\ route = "/review" /\ ReviewNext
          /\ UNCHANGED <<list, customFee, feeKey, executed>>

MCSpec == MCInit /\ [][MCNext]_<<vars, reviewVars, route>>
=============================================================================
