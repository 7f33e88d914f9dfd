----------------------------- MODULE Recurring -----------------------------
(***************************************************************************)
(* The controller of src/scripts/recurring-payments.ts over the hosted     *)
(* sandbox: it posts one occurrence, watches its run until it ends, finds  *)
(* the verdict on the mirror node, and only then posts the next.  Other    *)
(* visitors use the sandbox meanwhile; the sandbox may crash; every answer *)
(* may be lost; a post may reach the sandbox after the controller gave up  *)
(* on it; the controller's process may end.                                *)
(***************************************************************************)
EXTENDS Sandbox

CONSTANTS
    Posts,   \* the request of each occurrence; its length is --count
    Known,   \* the nonces of the local mandate set, by their position
    Looks    \* observations before a deadline

ASSUME RecurringConstants ==
    /\ Posts \in Seq(Requests) /\ Posts # <<>>
    /\ \A j, k \in DOMAIN Posts : Posts[j] = Posts[k] => j = k
    /\ Known \subseteq Positions
    /\ Looks \in Nat

VARIABLES
    phase,         \* where runRecurring stands
    results,       \* one record per occurrence begun; journalled as it changes
    previousNonce,
    looks          \* observations since the last deadline was set

controller == <<phase, results, previousNonce, looks>>
recurringVars == <<sandboxVars, controller>>

Occurrence == [run : {0} \cup Positions, nonce : {0} \cup Positions,
               outcome : {"running", "approved", "refused", "failed"},
               hcsVerdict : {"none", "approved", "refused"}]
Started == [run |-> 0, nonce |-> 0, outcome |-> "running", hcsVerdict |-> "none"]

RecurringInit ==
    /\ SandboxInit
    /\ phase = "sleeping" /\ results = <<>> /\ previousNonce = 0 /\ looks = 0

----------------------------------------------------------------------------
Current == Len(results)
Record(occurrence) == results' = [results EXCEPT ![Current] = occurrence]

(* The interval is over: the occurrence is journalled and posted.          *)
Begin ==
    /\ phase = "sleeping"
    /\ results' = Append(results, Started)
    /\ phase' = "posting"
    /\ UNCHANGED <<sandboxVars, previousNonce, looks>>

(* Fault: the newest run is taken for the occurrence's own.                *)
AdmittedNewest ==
    /\ phase = "posting" /\ client[Posts[Current]] = "admitted" /\ up
    /\ Record([results[Current] EXCEPT !.run = Len(runs)])
    /\ phase' = "polling" /\ looks' = 0
    /\ UNCHANGED <<sandboxVars, previousNonce>>

(* 202 with the run's identifier.                                          *)
Admitted ==
    /\ phase = "posting" /\ client[Posts[Current]] = "admitted"
    /\ \E p \in DOMAIN table :
        /\ table[p].by = Posts[Current]
        /\ Record([results[Current] EXCEPT !.run = p])
    /\ phase' = "polling" /\ looks' = 0
    /\ UNCHANGED <<sandboxVars, previousNonce>>

(* What one observation of the run must show; its nonce stands for the     *)
(* position of the envelope.                                               *)
Plausible(p) == p > previousNonce /\ p \in Known

Evidenced(run) == run.schedule = "done" /\ run.payment = "done" /\ run.verdict = "done"

Observe ==
    /\ phase = "polling" /\ looks < Looks
    /\ LET p == results[Current].run IN
        /\ up /\ p \in DOMAIN runs /\ Plausible(p)
        /\ Record([results[Current] EXCEPT !.nonce = p, !.outcome = runs[p].outcome])
        /\ \/ runs[p].outcome = "running" /\ looks' = looks + 1 /\ UNCHANGED phase
           \/ runs[p].outcome = "failed" /\ phase' = "ended" /\ UNCHANGED looks
           \/ /\ runs[p].outcome \in {"approved", "refused"} /\ Evidenced(runs[p])
              /\ phase' = "verifying" /\ looks' = 0
    /\ UNCHANGED <<sandboxVars, previousNonce>>

(* 404: the mirror node has not indexed the message yet.                   *)
NotIndexed ==
    /\ phase = "verifying" /\ looks < Looks
    /\ looks' = looks + 1
    /\ UNCHANGED <<sandboxVars, phase, results, previousNonce>>

(* The message is there and says of the envelope what the run says.        *)
Verified ==
    /\ phase = "verifying"
    /\ LET it == results[Current] IN
        /\ verdict[it.run] = it.outcome
        /\ Record([it EXCEPT !.hcsVerdict = verdict[it.run]])
        /\ IF it.outcome = "approved"
           THEN /\ previousNonce' = it.nonce
                /\ phase' = IF Current < Len(Posts) THEN "sleeping" ELSE "ended"
           ELSE phase' = "ended" /\ UNCHANGED previousNonce
    /\ UNCHANGED <<sandboxVars, looks>>

(* Fault: an occurrence that failed is skipped.                            *)
FailGoesOn ==
    /\ phase \in {"posting", "polling", "verifying"}
    /\ Record([results[Current] EXCEPT !.outcome = "failed"])
    /\ phase' = IF Current < Len(Posts) THEN "sleeping" ELSE "ended"
    /\ UNCHANGED <<sandboxVars, previousNonce, looks>>

(* Fault: an observation that failed is begun again.                       *)
FailRetries ==
    /\ phase \in {"posting", "polling", "verifying"}
    /\ IF phase = "posting"
       THEN Record([results[Current] EXCEPT !.outcome = "failed"]) /\ phase' = "ended"
       ELSE Record([results[Current] EXCEPT !.outcome = "running"]) /\ phase' = "posting"
    /\ UNCHANGED <<sandboxVars, previousNonce, looks>>

(* Any call may time out or be refused, any answer fail its checks, and a  *)
(* deadline pass.  A post whose answer was lost may have spent an envelope *)
(* nevertheless; it is not repeated.                                       *)
Fail ==
    /\ phase \in {"posting", "polling", "verifying"}
    /\ Record([results[Current] EXCEPT !.outcome = "failed"])
    /\ phase' = "ended"
    /\ UNCHANGED <<sandboxVars, previousNonce, looks>>

(* The controller's process ends; nothing resumes it.                      *)
Die ==
    /\ phase # "ended"
    /\ phase' = "ended"
    /\ UNCHANGED <<sandboxVars, results, previousNonce, looks>>

(* The sandbox; a post reaches it only after it was sent.                  *)
SandboxStep ==
    /\ SandboxNext
    /\ \A k \in DOMAIN Posts \ DOMAIN results : client'[Posts[k]] = client[Posts[k]]
    /\ UNCHANGED controller

Control == Begin \/ Admitted \/ Observe \/ NotIndexed \/ Verified \/ Fail

RecurringNext == Control \/ Die \/ SandboxStep

RecurringSpec == RecurringInit /\ [][RecurringNext]_recurringVars

(* Timers and settled promises run in the controller's process; the worker *)
(* of the sandbox goes on, and answers, as in SandboxFairSpec.             *)
RecurringFairSpec ==
    /\ RecurringSpec
    /\ WF_recurringVars(Control)
    /\ WF_recurringVars(Work /\ UNCHANGED controller)
    /\ WF_recurringVars((\E r \in Requests : Answer(r)) /\ UNCHANGED controller)

----------------------------------------------------------------------------
Ours(k) == {p \in DOMAIN table : table[p].by = Posts[k]}

(* An envelope is spent for an occurrence only after the one of every      *)
(* earlier occurrence was spent and approved, in the table and on the      *)
(* topic: also if answers were lost and whatever arrived late.             *)
InTurn ==
    \A k \in DOMAIN Posts : Ours(k) # {} =>
        \A j \in 1 .. k - 1 :
            \E p \in Ours(j) :
                /\ verdict[p] = "approved" /\ table[p].outcome = "approved"
                /\ \A q \in Ours(k) : p < q

(* What the journal says of an occurrence is so: its nonce was spent for   *)
(* it, and a verdict it quotes was settled for and published.              *)
JournalIsTrue ==
    \A k \in DOMAIN results :
        LET it == results[k] IN
        /\ it.nonce # 0 => it.nonce \in Ours(k)
        /\ it.outcome \in {"approved", "refused"} =>
            verdict[it.nonce] = it.outcome /\ settled[it.nonce] > 0 /\ scheduled[it.nonce] > 0
        /\ it.hcsVerdict # "none" => it.hcsVerdict = verdict[it.nonce]

(* The controller ends, whatever becomes of its occurrences.               *)
ControllerEnds == <>(phase = "ended")
============================================================================
