---------------------------- MODULE ReviewRules ----------------------------
(***************************************************************************)
(* The rules of /review (src/src/review-schedule.ts) together with the     *)
(* three queries of resolveSchedule that feed them (src/src/server.ts) and *)
(* the network they are asked of, which may be upgraded between any two,   *)
(* where the schedule is created, signed, deleted, executed or forgotten.  *)
(*                                                                         *)
(* The guard decodes a schedule with the message definitions of the        *)
(* version it was audited with.  What a later version can add to a         *)
(* schedule is invisible to it: the flag hidden.  What it sees but does    *)
(* not know, any transaction but a transfer included, is told apart by the *)
(* flag plain.                                                             *)
(***************************************************************************)
EXTENDS Validation

CONSTANTS
    Agent,          \* expectedAgentAccountId
    Schedules,      \* the schedules that may be created under the reviewed ID
    NoSchedule      \* nothing was created yet

ASSUME ReviewConstants ==
    /\ Agent \in Others
    /\ NoSchedule \notin Schedules
    /\ \A s \in Schedules : s.expires \in Nat /\ s.transfer \in Transfer

Allowed == 0        \* the audited network version; an upgrade makes it 1

VARIABLES
    version,    \* of the network
    schedule,   \* what was created under the requested ID
    signers,    \* the signatures consensus holds for it
    fate,       \* "live", "executed" or "deleted"
    before,     \* the version read first
    seen        \* the schedule, its signers and its fate, as the guard read them

network == <<version, schedule, signers, fate, balance>>
reviewVars == <<now, mandate, network, pc, before, seen>>

(* A schedule is [creator, payer, bound, adminKey, wait, expires (ticks),  *)
(* plain, hidden, fee, transfer]; bound says that both memos are the       *)
(* digest of the mandate.                                                  *)
Nothing == [schedule |-> NoSchedule, signers |-> {}, fate |-> "live"]

ReviewInit ==
    /\ now = 0
    /\ mandate \in Mandates
    /\ version = Allowed
    /\ schedule = NoSchedule /\ signers = {} /\ fate = "live"
    /\ balance = NoBalance
    /\ pc = "asked" /\ before = Allowed /\ seen = Nothing

----------------------------------------------------------------------------
(* The checks, by what they look at.                                       *)
(* Fault: the nanoseconds of the expiration are not looked at.             *)
ExpiresInSecond(s) == s.expires \div TicksPerSecond <= mandate.expires

ExpiresInMandate(s) == s.expires <= mandate.expires * TicksPerSecond

Envelope(s) ==
    /\ s.creator = Agent /\ s.payer = Agent /\ Agent # Treasury
    /\ s.bound
    /\ ~ s.adminKey /\ ~ s.wait
    /\ ExpiresInMandate(s)

Signatures(x) == "agent" \in x.signers /\ "guard" \notin x.signers

(* Token transfers are refused, because nobody looked at their fees.       *)
Body(s) ==
    /\ s.plain
    /\ s.fee = ProtocolFee
    /\ mandate.asset = Hbar /\ s.transfer.tokens = <<>>
    /\ AdjustmentsPass(s.transfer.hbar, mandate)

ReviewPasses(x) ==
    /\ Envelope(x.schedule)
    /\ x.fate = "live"
    /\ MandateActive
    /\ Signatures(x)
    /\ Body(x.schedule)

----------------------------------------------------------------------------
(* The review: three queries, then the decision, with the clock read then. *)
Exists == schedule # NoSchedule /\ now < schedule.expires

ReadVersion ==
    /\ pc = "asked"
    /\ before' = version
    /\ pc' = "reading"
    /\ UNCHANGED <<now, mandate, network, seen>>

ReadSchedule ==
    /\ pc = "reading"
    /\ IF Exists
       THEN /\ seen' = [schedule |-> schedule, signers |-> signers, fate |-> fate]
            /\ pc' = "read"
       ELSE pc' = "refused" /\ UNCHANGED seen
    /\ UNCHANGED <<now, mandate, network, before>>

(* Fault: an upgrade after the first query is not noticed.                 *)
VersionMatchedBefore == before = Allowed

VersionsMatch == before = Allowed /\ version = Allowed

Decide ==
    /\ pc = "read"
    /\ pc' = IF "guard" \in seen.signers THEN "pending"
             ELSE IF VersionsMatch /\ ReviewPasses(seen) THEN "approved"
             ELSE "refused"
    /\ UNCHANGED <<now, mandate, network, before, seen>>

SubmitApproval ==
    /\ pc = "approved"
    /\ pc' = "submitted"
    /\ UNCHANGED <<now, mandate, network, before, seen>>

----------------------------------------------------------------------------
(* The network.  A schedule with both signatures executes, no later than   *)
(* it expires, or when it expires if it was told to wait.                  *)
ScheduleCharge ==
    [p \in Accounts \X Assets |->
        (IF p = <<schedule.payer, Hbar>> THEN schedule.fee ELSE 0)
        + (IF p = <<Treasury, Hbar>> /\ (schedule.hidden \/ ~ schedule.plain) THEN 1 ELSE 0)
        + IF p[1] = Treasury /\ \E i \in DOMAIN schedule.transfer.tokens :
                 schedule.transfer.tokens[i].token = p[2] THEN 1 ELSE 0]

Sign(who) ==
    /\ Exists /\ fate = "live" /\ who \notin signers
    /\ signers' = signers \cup {who}
    /\ UNCHANGED <<now, mandate, version, schedule, fate, balance, pc, before, seen>>

AgentSigns == Sign("agent")
SignatureLands == pc = "submitted" /\ Sign("guard")

ExecuteSchedule ==
    /\ fate = "live" /\ signers = {"agent", "guard"}
    /\ Balanced(schedule.transfer)
    /\ schedule.wait = (now >= schedule.expires)
    /\ fate' = "executed"
    /\ balance' = Applied(balance, schedule.transfer, ScheduleCharge)
    /\ UNCHANGED <<now, mandate, version, schedule, signers, pc, before, seen>>

Create ==
    /\ schedule = NoSchedule
    /\ \E s \in Schedules :
        /\ now < s.expires
        /\ s.hidden => version # Allowed
        /\ schedule' = s
    /\ UNCHANGED <<now, mandate, version, signers, fate, balance, pc, before, seen>>

Delete ==
    /\ Exists /\ fate = "live" /\ schedule.adminKey
    /\ fate' = "deleted"
    /\ UNCHANGED <<now, mandate, version, schedule, signers, balance, pc, before, seen>>

Upgrade ==
    /\ version = Allowed
    /\ version' = Allowed + 1
    /\ UNCHANGED <<now, mandate, schedule, signers, fate, balance, pc, before, seen>>

ReviewTick ==
    /\ now < MaxTime
    /\ now' = now + 1
    /\ UNCHANGED <<mandate, network, pc, before, seen>>

ReviewNext ==
    \/ ReadVersion \/ ReadSchedule \/ Decide \/ SubmitApproval
    \/ AgentSigns \/ SignatureLands \/ ExecuteSchedule
    \/ Create \/ Delete \/ Upgrade \/ ReviewTick

ReviewSpec == ReviewInit /\ [][ReviewNext]_reviewVars

----------------------------------------------------------------------------
(* Whatever schedule is created under the reviewed ID, and whenever the    *)
(* network is upgraded, the value that moves with the guard's signature is *)
(* what the mandate allows.                                                *)
ScheduleWithinMandate == WithinMandate(balance, mandate)

(* It moves only while the mandate is active, to the tick.                 *)
ScheduleInsideMandate ==
    [][balance' # balance =>
         /\ mandate.validFrom * TicksPerSecond <= now
         /\ now < mandate.expires * TicksPerSecond]_reviewVars
============================================================================
