------------------------------ MODULE Sandbox ------------------------------
(***************************************************************************)
(* The hosted sandbox of src/scripts/serve-sandbox.ts: visitors submit     *)
(* proposals; a serial worker spends one pre-signed mandate envelope per   *)
(* run, schedules the proposal, pays the guard for a review and records    *)
(* the verdict.  Runs are kept in memory and in a table that survives the  *)
(* process; every step of a run is saved before the next call goes out.    *)
(*                                                                         *)
(* A save that throws leaves the table as it was.  What was sent to        *)
(* consensus or to the guard may take effect late, also after a crash.     *)
(***************************************************************************)
EXTENDS Naturals, Sequences

CONSTANTS
    Requests,    \* POST /sandbox/run, one each
    Addresses,   \* client addresses
    AddressOf,   \* the address a request comes from
    Envelopes,   \* how many mandates were signed in advance
    QueueLimit   \* requests waiting (2 in the code)

ASSUME SandboxConstants ==
    /\ AddressOf \in [Requests -> Addresses]
    /\ Envelopes \in Nat \ {0}
    /\ QueueLimit \in Nat \ {0}

VARIABLES
    table,       \* sandbox_runs, by position: durable
    up,          \* the process runs
    runs,        \* the runs in memory
    storageFailed,
    queued,      \* the counter behind "sandbox busy"
    tail,        \* the promise chain: requests not yet taken up, oldest first
    worker,      \* where the run at the head of the chain stands
    current,     \* <<its request>>, or <<>>
    buckets,     \* addresses that ran within the last 30 seconds
    client,      \* what each visitor was told; "accepted": its 202 is under way
    ordered, scheduled,  \* schedules sent to, and created by consensus, per position
    paid, settled,       \* payments sent to, and settled by the guard
    verdict              \* the guard's published verdict

memory == <<up, runs, storageFailed, queued, tail, worker, current, buckets>>
world == <<ordered, scheduled, paid, settled, verdict>>
sandboxVars == <<table, memory, client, world>>

Positions == 1 .. Envelopes
StepStates == {"pending", "running", "done", "failed", "never-happened"}
Run == [by : Requests, outcome : {"running", "failed", "approved", "refused"},
        schedule : StepStates, payment : StepStates, verdict : StepStates]
Stages == {"idle", "checking", "opened", "scheduling", "quoting", "reviewing", "paid"}

SandboxTypeOK ==
    /\ table \in Seq(Run) /\ runs \in Seq(Run)
    /\ up \in BOOLEAN /\ storageFailed \in BOOLEAN
    /\ queued \in Nat
    /\ tail \in Seq(Requests)
    /\ worker \in Stages
    /\ current \in {<<>>} \cup {<<r>> : r \in Requests}
    /\ buckets \subseteq Addresses
    /\ client \in [Requests -> {"none", "waiting", "accepted", "admitted", "refused", "lost"}]
    /\ ordered \in [Positions -> Nat] /\ scheduled \in [Positions -> Nat]
    /\ paid \in [Positions -> Nat] /\ settled \in [Positions -> Nat]
    /\ verdict \in [Positions -> {"none", "approved", "refused"}]

SandboxInit ==
    /\ table = <<>> /\ runs = <<>>
    /\ up = TRUE /\ storageFailed = FALSE
    /\ queued = 0 /\ tail = <<>>
    /\ worker = "idle" /\ current = <<>>
    /\ buckets = {}
    /\ client = [r \in Requests |-> "none"]
    /\ ordered = [p \in Positions |-> 0] /\ scheduled = [p \in Positions |-> 0]
    /\ paid = [p \in Positions |-> 0] /\ settled = [p \in Positions |-> 0]
    /\ verdict = [p \in Positions |-> "none"]

----------------------------------------------------------------------------
Tell(r, what) == client' = [client EXCEPT ![r] = what]

(* The guards of submit, in the code's order; only the last one matters    *)
(* to the bucket, which a refused request does not fill.                   *)
Admissible(r) ==
    /\ ~ storageFailed
    /\ Len(runs) + queued < Envelopes
    /\ AddressOf[r] \notin buckets
    /\ queued < QueueLimit

Refuse(r) ==
    /\ up /\ client[r] = "none"
    /\ ~ Admissible(r)
    /\ Tell(r, "refused")
    /\ UNCHANGED <<table, memory, world>>

Admit(r) ==
    /\ up /\ client[r] = "none"
    /\ Admissible(r)
    /\ buckets' = buckets \cup {AddressOf[r]}
    /\ queued' = queued + 1
    /\ tail' = Append(tail, r)
    /\ Tell(r, "waiting")
    /\ UNCHANGED <<table, up, runs, storageFailed, worker, current, world>>

BucketExpires(a) ==
    /\ a \in buckets
    /\ buckets' = buckets \ {a}
    /\ UNCHANGED <<table, up, runs, storageFailed, queued, tail, worker, current, client, world>>

----------------------------------------------------------------------------
Position == Len(runs)
Rest(stage) == worker' = stage /\ UNCHANGED <<up, queued, tail, current, buckets, client>>

(* The next callback of the chain begins: it awaits the balances.          *)
TakeUp ==
    /\ up /\ worker = "idle" /\ tail # <<>>
    /\ current' = <<Head(tail)>> /\ tail' = Tail(tail)
    /\ worker' = "checking"
    /\ UNCHANGED <<table, up, runs, storageFailed, queued, buckets, client, world>>

(* Fault: a request turned away keeps its place in the queue.              *)
TurnAwayQueued ==
    /\ up /\ worker = "checking"
    /\ Tell(current[1], "refused")
    /\ worker' = "idle" /\ current' = <<>>
    /\ UNCHANGED <<table, up, runs, storageFailed, queued, tail, buckets, world>>

(* Fault: a request turned away is not answered.                           *)
TurnAwaySilently ==
    /\ up /\ worker = "checking"
    /\ queued' = queued - 1
    /\ worker' = "idle" /\ current' = <<>>
    /\ UNCHANGED <<table, up, runs, storageFailed, tail, buckets, client, world>>

(* Storage failed meanwhile, the balances are low or unknown, or the       *)
(* INSERT throws: the envelope is not used and the request is rejected.    *)
TurnAway ==
    /\ up /\ worker = "checking"
    /\ \/ UNCHANGED storageFailed
       \/ ~ storageFailed /\ storageFailed' = TRUE
    /\ Tell(current[1], "refused")
    /\ queued' = queued - 1
    /\ worker' = "idle" /\ current' = <<>>
    /\ UNCHANGED <<table, up, runs, tail, buckets, world>>

NewRun(r) == [by |-> r, outcome |-> "running",
              schedule |-> "pending", payment |-> "pending", verdict |-> "pending"]

(* Fault: the run is not saved before it begins.                           *)
OpenRunUnsaved ==
    /\ up /\ worker = "checking" /\ ~ storageFailed
    /\ runs' = Append(runs, NewRun(current[1]))
    /\ queued' = queued - 1
    /\ Tell(current[1], "accepted")
    /\ worker' = "opened"
    /\ UNCHANGED <<table, up, storageFailed, tail, current, buckets, world>>

(* Fault: the promise is resolved first, and a save that throws then       *)
(* rejects it in vain.                                                     *)
OpenRunToldFirst ==
    /\ up /\ worker = "checking" /\ ~ storageFailed
    /\ Tell(current[1], "accepted")
    /\ queued' = queued - 1
    /\ \/ /\ table' = Append(table, NewRun(current[1]))
          /\ runs' = Append(runs, NewRun(current[1]))
          /\ worker' = "opened" /\ UNCHANGED <<storageFailed, current>>
       \/ /\ storageFailed' = TRUE
          /\ worker' = "idle" /\ current' = <<>>
          /\ UNCHANGED <<table, runs>>
    /\ UNCHANGED <<up, tail, buckets, world>>

(* Consumption of the envelope is persisted and the promise of the answer  *)
(* resolved; the worker goes on without waiting for it to be delivered.    *)
OpenRun ==
    /\ up /\ worker = "checking" /\ ~ storageFailed
    /\ table' = Append(table, NewRun(current[1]))
    /\ runs' = Append(runs, NewRun(current[1]))
    /\ queued' = queued - 1
    /\ Tell(current[1], "accepted")
    /\ worker' = "opened"
    /\ UNCHANGED <<up, storageFailed, tail, current, buckets, world>>

(* The 202 reaches the visitor, or finds nobody: it gave up waiting, or    *)
(* the connection broke.  The worker may be anywhere by then.              *)
Answer(r) ==
    /\ up /\ client[r] = "accepted"
    /\ Tell(r, "admitted") \/ Tell(r, "lost")
    /\ UNCHANGED <<table, memory, world>>

(* Fault: a step that had begun counts as one that never did.              *)
InterruptedNever(run) ==
    LET ended(s) == IF s \in {"running", "pending"} THEN "never-happened" ELSE s
    IN  [run EXCEPT !.outcome = "failed", !.schedule = ended(@), !.payment = ended(@), !.verdict = ended(@)]

Interrupted(run) ==
    LET ended(s) == CASE s = "running" -> "failed" [] s = "pending" -> "never-happened" [] OTHER -> s
    IN  [run EXCEPT !.outcome = "failed", !.schedule = ended(@), !.payment = ended(@), !.verdict = ended(@)]

(* The catch clause: the run as it stood in memory ends as failed, saved   *)
(* or not; the chain goes on to the next callback.                         *)
CatchFrom(run, failedBefore) ==
    /\ runs' = [runs EXCEPT ![Position] = Interrupted(run)]
    /\ \/ /\ table' = [table EXCEPT ![Position] = Interrupted(run)]
          /\ storageFailed' = failedBefore
       \/ UNCHANGED table /\ storageFailed' = TRUE
    /\ worker' = "idle" /\ current' = <<>>
    /\ UNCHANGED <<up, queued, tail, buckets, client>>

(* A step of the run is written to memory and saved before the next call,  *)
(* or the save throws into the catch clause.                               *)
SaveStep(run, stage) ==
    \/ /\ runs' = [runs EXCEPT ![Position] = run]
       /\ table' = [table EXCEPT ![Position] = run]
       /\ Rest(stage)
       /\ UNCHANGED storageFailed
    \/ CatchFrom(run, TRUE)

Saved(stage) == worker' = stage

StartSchedule ==
    /\ up /\ worker = "opened"
    /\ SaveStep([runs[Position] EXCEPT !.schedule = "running"], "scheduling")
    /\ ordered' = IF Saved("scheduling") THEN [ordered EXCEPT ![Position] = @ + 1] ELSE ordered
    /\ UNCHANGED <<scheduled, paid, settled, verdict>>

ScheduleCreated ==
    /\ up /\ worker = "scheduling" /\ scheduled[Position] > 0
    /\ SaveStep([runs[Position] EXCEPT !.schedule = "done", !.payment = "running"], "quoting")
    /\ UNCHANGED world

(* The guard's 402 is answered with a payment.                             *)
Pay ==
    /\ up /\ worker = "quoting"
    /\ paid' = [paid EXCEPT ![Position] = @ + 1]
    /\ Rest("reviewing")
    /\ UNCHANGED <<table, runs, storageFailed, ordered, scheduled, settled, verdict>>

(* The callback paid: the answer's settlement receipt is there.            *)
Paid ==
    /\ up /\ worker = "reviewing" /\ settled[Position] > 0
    /\ SaveStep([runs[Position] EXCEPT !.payment = "done", !.verdict = "running"], "paid")
    /\ UNCHANGED world

Finished(run, v) == [run EXCEPT !.outcome = v, !.verdict = "done"]

(* Fault: the verdict is shown although it could not be saved.             *)
VerdictShownUnsaved ==
    /\ up /\ worker = "paid" /\ verdict[Position] # "none"
    /\ runs' = [runs EXCEPT ![Position] = Finished(runs[Position], verdict[Position])]
    /\ \/ table' = [table EXCEPT ![Position] = Finished(runs[Position], verdict[Position])]
          /\ UNCHANGED storageFailed
       \/ UNCHANGED table /\ storageFailed' = TRUE
    /\ worker' = "idle" /\ current' = <<>>
    /\ UNCHANGED <<up, queued, tail, buckets, client, world>>

VerdictArrives ==
    /\ up /\ worker = "paid" /\ verdict[Position] # "none"
    /\ LET run == Finished(runs[Position], verdict[Position])
       IN  \/ /\ runs' = [runs EXCEPT ![Position] = run]
              /\ table' = [table EXCEPT ![Position] = run]
              /\ worker' = "idle" /\ current' = <<>>
              /\ UNCHANGED <<up, storageFailed, queued, tail, buckets, client>>
           \/ CatchFrom(run, TRUE)
    /\ UNCHANGED world

(* Fault: the calls have no timeouts.                                      *)
StepFailsAtOnce ==
    /\ up /\ worker = "quoting"
    /\ CatchFrom(runs[Position], storageFailed)
    /\ UNCHANGED world

(* A call throws, times out, or its answer does not match.                 *)
StepFails ==
    /\ up /\ worker \in {"scheduling", "quoting", "reviewing", "paid"}
    /\ CatchFrom(runs[Position], storageFailed)
    /\ UNCHANGED world

----------------------------------------------------------------------------
(* The process ends: its memory is lost and nobody is answered, not even   *)
(* the visitor whose run is in the table already.                          *)
Crash ==
    /\ up
    /\ up' = FALSE
    /\ runs' = <<>> /\ storageFailed' = FALSE /\ queued' = 0 /\ tail' = <<>>
    /\ worker' = "idle" /\ current' = <<>> /\ buckets' = {}
    /\ client' = [r \in Requests |-> IF client[r] \in {"waiting", "accepted"} THEN "lost" ELSE client[r]]
    /\ UNCHANGED <<table, world>>

EndRun(run) == IF run.outcome = "running" THEN Interrupted(run) ELSE run

(* createSandbox reads the table and ends the runs it finds running.       *)
StartUp ==
    /\ ~ up /\ up' = TRUE
    /\ runs' = [p \in DOMAIN table |-> EndRun(table[p])]
    /\ table' = runs'
    /\ UNCHANGED <<storageFailed, queued, tail, worker, current, buckets, client, world>>

(* Consensus and the guard, at their own pace.                             *)
ScheduleLands(p) ==
    /\ scheduled[p] < ordered[p]
    /\ scheduled' = [scheduled EXCEPT ![p] = @ + 1]
    /\ UNCHANGED <<table, memory, client, ordered, paid, settled, verdict>>

PaymentSettles(p) ==
    /\ settled[p] < paid[p]
    /\ settled' = [settled EXCEPT ![p] = @ + 1]
    /\ UNCHANGED <<table, memory, client, ordered, scheduled, paid, verdict>>

GuardDecides(p) ==
    /\ settled[p] > 0 /\ verdict[p] = "none"
    /\ \E v \in {"approved", "refused"} : verdict' = [verdict EXCEPT ![p] = v]
    /\ UNCHANGED <<table, memory, client, ordered, scheduled, paid, settled>>

Work ==
    \/ TakeUp \/ TurnAway \/ OpenRun \/ StartSchedule \/ ScheduleCreated
    \/ Pay \/ Paid \/ VerdictArrives \/ StepFails

SandboxNext ==
    \/ \E r \in Requests : Refuse(r) \/ Admit(r) \/ Answer(r)
    \/ \E a \in Addresses : BucketExpires(a)
    \/ Work
    \/ Crash \/ StartUp
    \/ \E p \in Positions : ScheduleLands(p) \/ PaymentSettles(p) \/ GuardDecides(p)

SandboxSpec == SandboxInit /\ [][SandboxNext]_sandboxVars

(* Every call of the worker has a timeout (30 s a request to consensus,    *)
(* 30 s and 60 s the two to the guard), so the worker goes on, and the     *)
(* event loop writes the answer of a resolved promise or finds the         *)
(* connection gone; nobody else is assumed to move.                        *)
SandboxFairSpec ==
    /\ SandboxSpec
    /\ WF_sandboxVars(Work)
    /\ WF_sandboxVars(\E r \in Requests : Answer(r))

----------------------------------------------------------------------------
(* "envelope will not be reused": however often the process is restarted,  *)
(* a position is scheduled and paid for at most once.                      *)
EnvelopeOnce == \A p \in Positions : ordered[p] <= 1 /\ paid[p] <= 1

(* A visitor that was told 202 finds its run, in this process or the next. *)
(* The converse is not promised: "a lost admission response can already    *)
(* have consumed an authorization".  But no visitor that was refused, or   *)
(* still waits, has spent an envelope, and no request ever spends two.     *)
AdmittedIsDurable ==
    /\ \A r \in Requests : client[r] = "admitted" => \E p \in DOMAIN table : table[p].by = r
    /\ \A p \in DOMAIN table : client[table[p].by] \in {"accepted", "admitted", "lost"}
    /\ \A p, q \in DOMAIN table : table[p].by = table[q].by => p = q

(* The queue counter is the number of requests without a run, never above  *)
(* its limit, and no request waits without an envelope left for it.        *)
QueueExact ==
    /\ queued = Len(tail) + (IF worker = "checking" THEN 1 ELSE 0)
    /\ queued <= QueueLimit
    /\ Len(runs) + queued <= Envelopes

(* What the sandbox shows is what it will show after a restart: a verdict  *)
(* is durable before it is shown, and a failed run is never better off.    *)
ShownIsKept ==
    up => /\ DOMAIN runs = DOMAIN table
          /\ \A p \in DOMAIN runs :
               /\ runs[p].outcome \in {"approved", "refused"} => table[p] = runs[p]
               /\ runs[p].outcome = "failed" => table[p].outcome \in {"failed", "running"}
               /\ ~ storageFailed => table[p] = runs[p]

(* The record of a run is true: a step that is done was done, a schedule   *)
(* or payment that "never happened" never will, and the outcome is the     *)
(* verdict the guard published.                                            *)
EvidenceIsTrue ==
    \A p \in DOMAIN table :
        /\ table[p].schedule = "done" => scheduled[p] > 0
        /\ table[p].payment = "done" => settled[p] > 0
        /\ table[p].schedule = "never-happened" => ordered[p] = 0
        /\ table[p].payment = "never-happened" => paid[p] = 0
        /\ table[p].outcome \in {"approved", "refused"} => verdict[p] = table[p].outcome

(* The page words the last step likewise: a verdict that "never happened". *)
NeverHappenedIsTrue ==
    \A p \in DOMAIN table : table[p].verdict = "never-happened" => verdict[p] = "none"

(* Every request that waits is answered, unless the process dies on it or  *)
(* the answer is lost on its way.                                          *)
RequestsAreAnswered ==
    \A r \in Requests :
        client[r] \in {"waiting", "accepted"} ~> client[r] \in {"admitted", "refused", "lost"}

Unfinished(p) == p \in DOMAIN runs /\ runs[p].outcome = "running"

(* Every run that was opened ends, unless the process dies on it.          *)
RunsEnd == \A p \in Positions : Unfinished(p) ~> ~ Unfinished(p)
============================================================================
