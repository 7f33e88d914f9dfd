--------------------------- MODULE Sandbox_proofs ---------------------------
(***************************************************************************)
(* Proofs about the hosted sandbox, for any visitors, any number of        *)
(* envelopes, any queue and any number of restarts, and about the          *)
(* controller over it, for any number of occurrences.                      *)
(***************************************************************************)
EXTENDS Recurring, TLAPS

----------------------------------------------------------------------------
(* The inductive invariant.                                                *)

(* A run has been opened and has not ended.                                *)
AtWork == worker \in {"opened", "scheduling", "quoting", "reviewing", "paid"}

(* The queue: whoever is in it waits, and is in it once.                   *)
WaitingExact ==
    /\ \A i \in DOMAIN tail :
        /\ client[tail[i]] = "waiting"
        /\ worker = "checking" => tail[i] # current[1]
    /\ \A i, j \in DOMAIN tail : tail[i] = tail[j] => i = j
    /\ worker = "checking" => client[current[1]] = "waiting"

QueueInductive ==
    /\ QueueExact
    /\ WaitingExact
    /\ current = <<>> <=> worker = "idle"
    /\ ~ up => /\ runs = <<>> /\ tail = <<>> /\ queued = 0
               /\ worker = "idle" /\ ~ storageFailed

(* A record is true, and what it calls pending has not begun.              *)
TrueRecord(run, sent, made, charged, settlements, said) ==
    /\ run.schedule = "done" => made > 0
    /\ run.payment = "done" => settlements > 0
    /\ run.schedule \in {"pending", "never-happened"} => sent = 0
    /\ run.payment \in {"pending", "never-happened"} => charged = 0
    /\ run.outcome \in {"approved", "refused"} => said = run.outcome
RunIsTrue(run, p) ==
    TrueRecord(run, ordered[p], scheduled[p], paid[p], settled[p], verdict[p])
NextTrue(run, p) ==
    TrueRecord(run, ordered'[p], scheduled'[p], paid'[p], settled'[p], verdict'[p])

(* Where the worker stands is what the run at the end of the list says.    *)
StageRecord(run, stage, charged) ==
    /\ run.outcome = "running"
    /\ stage = "opened" => run.schedule = "pending" /\ run.payment = "pending"
    /\ stage = "scheduling" => run.schedule = "running" /\ run.payment = "pending"
    /\ stage \in {"quoting", "reviewing"} => run.schedule = "done" /\ run.payment = "running"
    /\ stage = "quoting" => charged = 0
    /\ stage = "paid" => run.schedule = "done" /\ run.payment = "done"
StageIs(run, p) == StageRecord(run, worker, paid[p])
NextStage(run, p) == StageRecord(run, worker', paid'[p])

(* The world: what lands was sent, and nothing is sent twice or before its *)
(* run.                                                                    *)
WorldInductive ==
    \A p \in Positions :
        /\ scheduled[p] <= ordered[p] /\ ordered[p] <= 1
        /\ settled[p] <= paid[p] /\ paid[p] <= 1
        /\ p > Len(table) => ordered[p] = 0 /\ paid[p] = 0

RunsInductive ==
    /\ Len(table) <= Envelopes
    /\ up => Len(runs) = Len(table)
    /\ up /\ ~ storageFailed => runs = table
    /\ AtWork => /\ up /\ ~ storageFailed /\ Len(runs) > 0
                 /\ StageIs(runs[Len(runs)], Len(runs))
    /\ \A p \in DOMAIN table : RunIsTrue(table[p], p)
    /\ up => \A p \in DOMAIN runs :
               /\ runs[p].outcome \in {"approved", "refused"} => table[p] = runs[p]
               /\ runs[p].outcome = "failed" => table[p].outcome \in {"failed", "running"}

(* Envelopes and answers: the run is there before its 202 is on its way.   *)
SpentInductive ==
    /\ \A r \in Requests :
        client[r] \in {"accepted", "admitted"} => \E p \in DOMAIN table : table[p].by = r
    /\ \A p \in DOMAIN table : client[table[p].by] \in {"accepted", "admitted", "lost"}
    /\ \A p, q \in DOMAIN table : table[p].by = table[q].by => p = q

SandboxInductive ==
    /\ SandboxTypeOK
    /\ QueueInductive
    /\ WorldInductive
    /\ RunsInductive
    /\ SpentInductive

----------------------------------------------------------------------------
(* Sequences.                                                              *)

(* The last element of a list of runs is written.                          *)
LEMMA Written ==
  ASSUME NEW S, NEW s \in Seq(S), NEW i \in 1..Len(s), NEW v \in S, NEW t,
         t = [s EXCEPT ![i] = v]
  PROVE  /\ t \in Seq(S) /\ Len(t) = Len(s) /\ DOMAIN t = DOMAIN s
         /\ t[i] = v
         /\ \A j \in DOMAIN s : j # i => t[j] = s[j]
<1>1. DOMAIN s = 1..Len(s) /\ Len(s) \in Nat
  OBVIOUS
<1>2. t = [j \in 1..Len(s) |-> IF j = i THEN v ELSE s[j]]
  BY <1>1
<1>3. \A j \in 1..Len(s) : t[j] \in S
  BY <1>1, <1>2
<1>4. t \in Seq(S) /\ Len(t) = Len(s)
  <2> DEFINE n == Len(s)
  <2> HIDE DEF n
  <2>1. n \in Nat /\ t = [j \in 1..n |-> t[j]] /\ \A j \in 1..n : t[j] \in S
    BY <1>1, <1>2, <1>3 DEF n
  <2>2. t \in Seq(S) /\ Len(t) = n
    BY <2>1
  <2> QED
    BY <2>2 DEF n
<1> QED
  BY <1>1, <1>2, <1>4

(* A member is added at the end.                                           *)
LEMMA Appended ==
  ASSUME NEW S, NEW s \in Seq(S), NEW v \in S, NEW t, t = Append(s, v)
  PROVE  /\ t \in Seq(S) /\ Len(t) = Len(s) + 1 /\ Len(s) \in Nat
         /\ DOMAIN t = DOMAIN s \cup {Len(s) + 1} /\ DOMAIN s = 1..Len(s)
         /\ t[Len(s) + 1] = v
         /\ \A j \in DOMAIN s : t[j] = s[j]
OBVIOUS

(* A run that ends in the catch clause, or at start-up, stays true.        *)
LEMMA InterruptedIsTrue ==
  ASSUME NEW run \in Run, NEW sent, NEW made, NEW charged, NEW settlements, NEW said,
         TrueRecord(run, sent, made, charged, settlements, said)
  PROVE  /\ Interrupted(run) \in Run
         /\ Interrupted(run).by = run.by
         /\ Interrupted(run).outcome = "failed"
         /\ TrueRecord(Interrupted(run), sent, made, charged, settlements, said)
<1> DEFINE ended(s) == CASE s = "running" -> "failed" [] s = "pending" -> "never-happened"
                         [] OTHER -> s
           new == [run EXCEPT !.outcome = "failed", !.schedule = ended(@),
                              !.payment = ended(@), !.verdict = ended(@)]
<1>1. \A s \in StepStates :
        /\ ended(s) \in StepStates
        /\ ended(s) = "done" => s = "done"
        /\ ended(s) \in {"pending", "never-happened"} => s \in {"pending", "never-happened"}
  BY DEF StepStates
<1> HIDE DEF ended
<1>2. /\ new \in Run /\ new.by = run.by /\ new.outcome = "failed"
      /\ new.schedule = ended(run.schedule) /\ new.payment = ended(run.payment)
      /\ run.schedule \in StepStates /\ run.payment \in StepStates
  BY <1>1 DEF Run
<1>3. TrueRecord(new, sent, made, charged, settlements, said)
  BY <1>1, <1>2 DEF TrueRecord
<1>4. Interrupted(run) = new
  BY DEF Interrupted, ended
<1> QED
  BY <1>2, <1>3, <1>4

----------------------------------------------------------------------------
LEMMA SandboxStarts == SandboxInit => SandboxInductive
<1> SUFFICES ASSUME SandboxInit PROVE SandboxInductive
  OBVIOUS
<1> USE SandboxConstants DEF SandboxInit
<1>1. SandboxTypeOK
  <2>1. table \in Seq(Run) /\ runs \in Seq(Run) /\ tail \in Seq(Requests)
    OBVIOUS
  <2>2. ordered \in [Positions -> Nat] /\ scheduled \in [Positions -> Nat]
        /\ paid \in [Positions -> Nat] /\ settled \in [Positions -> Nat]
    OBVIOUS
  <2> QED
    BY <2>1, <2>2 DEF SandboxTypeOK, Stages
<1>2. QueueInductive
  BY DEF QueueInductive, QueueExact, WaitingExact
<1>3. WorldInductive
  BY DEF WorldInductive
<1>4. RunsInductive
  BY DEF RunsInductive, AtWork
<1>5. SpentInductive
  <2>1. DOMAIN table = {} /\ \A r \in Requests : client[r] = "none"
    OBVIOUS
  <2> QED
    BY <2>1 DEF SpentInductive
<1> QED
  BY <1>1, <1>2, <1>3, <1>4, <1>5 DEF SandboxInductive

----------------------------------------------------------------------------
(* The queue.                                                              *)

(* What a step that leaves the runs and the world alone may do to the      *)
(* worker.                                                                 *)
LEMMA RunsFrame ==
  ASSUME RunsInductive, WorldInductive, UNCHANGED <<table, up, runs, world>>,
         storageFailed => storageFailed',
         AtWork' => AtWork /\ worker' = worker /\ storageFailed' = storageFailed
  PROVE  RunsInductive' /\ WorldInductive'
<1>1. WorldInductive'
  BY DEF WorldInductive, world
<1>2. \A run, p : RunIsTrue(run, p)' <=> RunIsTrue(run, p)
  BY DEF RunIsTrue, world
<1>3. AtWork' => \A run, p : StageIs(run, p)' <=> StageIs(run, p)
  BY DEF StageIs, world
<1>4. RunsInductive'
  BY <1>2, <1>3 DEF RunsInductive
<1> QED
  BY <1>1, <1>4

(* Answers that neither accept a request nor take an acceptance back.      *)
LEMMA SpentFrame ==
  ASSUME SandboxTypeOK, SpentInductive, UNCHANGED table,
         \A r \in Requests :
            /\ client'[r] \in {"accepted", "admitted"} => client[r] \in {"accepted", "admitted"}
            /\ client[r] \in {"accepted", "admitted", "lost"} =>
                  client'[r] \in {"accepted", "admitted", "lost"}
  PROVE  SpentInductive'
<1>1. \A p \in DOMAIN table : table[p].by \in Requests
  <2>1. table \in Seq(Run)
    BY DEF SandboxTypeOK
  <2>2. \A p \in DOMAIN table : table[p] \in Run
    <3> HIDE DEF Run
    <3> QED
      BY <2>1
  <2> QED
    BY <2>2 DEF Run
<1> QED
  BY <1>1 DEF SpentInductive

(* The answer to one request.                                              *)
LEMMA Told ==
  ASSUME SandboxTypeOK, NEW r \in Requests,
         NEW what \in {"none", "waiting", "accepted", "admitted", "refused", "lost"}, Tell(r, what)
  PROVE  /\ client' \in [Requests -> {"none", "waiting", "accepted", "admitted", "refused", "lost"}]
         /\ client'[r] = what
         /\ \A q \in Requests : q # r => client'[q] = client[q]
BY DEF SandboxTypeOK, Tell

(* What is in the queue is a request.                                      *)
LEMMA QueueHolds ==
  ASSUME SandboxTypeOK, QueueInductive
  PROVE  /\ \A i \in DOMAIN tail : tail[i] \in Requests
         /\ DOMAIN tail = 1..Len(tail) /\ Len(tail) \in Nat
         /\ Len(runs) \in Nat /\ queued \in Nat
         /\ worker # "idle" => current[1] \in Requests
<1>1. tail \in Seq(Requests) /\ runs \in Seq(Run)
  BY DEF SandboxTypeOK
<1>2. Len(runs) \in Nat
  <2> HIDE DEF Run
  <2> QED
    BY <1>1
<1> QED
  BY <1>1, <1>2 DEF SandboxTypeOK, QueueInductive

LEMMA RefuseStep ==
  ASSUME SandboxInductive, NEW r \in Requests, Refuse(r)
  PROVE  SandboxInductive'
<1> USE DEF SandboxInductive
<1>1. UNCHANGED <<table, up, runs, storageFailed, queued, tail, worker, current, buckets, world>>
  BY DEF Refuse, memory
<1>2. /\ client' \in [Requests -> {"none", "waiting", "accepted", "admitted", "refused", "lost"}]
      /\ client[r] = "none" /\ client'[r] = "refused"
      /\ \A q \in Requests : q # r => client'[q] = client[q]
  BY Told DEF Refuse
<1>3. SandboxTypeOK'
  BY <1>1, <1>2 DEF SandboxTypeOK, world
<1>4. QueueInductive'
  <2>1. QueueExact' /\ (current' = <<>> <=> worker' = "idle")
        /\ (~ up' => /\ runs' = <<>> /\ tail' = <<>> /\ queued' = 0
                     /\ worker' = "idle" /\ ~ storageFailed')
    BY <1>1 DEF QueueInductive, QueueExact
  <2>2. WaitingExact'
    BY <1>1, <1>2, QueueHolds DEF QueueInductive, WaitingExact
  <2> QED
    BY <2>1, <2>2 DEF QueueInductive
<1>5. SpentInductive'
  BY <1>1, <1>2, SpentFrame
<1>6. RunsInductive' /\ WorldInductive'
  BY <1>1, RunsFrame DEF AtWork
<1> QED
  BY <1>3, <1>4, <1>5, <1>6

LEMMA AdmitStep ==
  ASSUME SandboxInductive, NEW r \in Requests, Admit(r)
  PROVE  SandboxInductive'
<1> USE DEF SandboxInductive
<1>1. UNCHANGED <<table, up, runs, storageFailed, worker, current, world>>
      /\ up /\ queued' = queued + 1 /\ buckets' = buckets \cup {AddressOf[r]}
      /\ Len(runs) + queued < Envelopes /\ queued < QueueLimit
  BY DEF Admit, Admissible
<1>2. /\ client' \in [Requests -> {"none", "waiting", "accepted", "admitted", "refused", "lost"}]
      /\ client[r] = "none" /\ client'[r] = "waiting"
      /\ \A q \in Requests : q # r => client'[q] = client[q]
  BY Told DEF Admit
<1>3. /\ tail' \in Seq(Requests) /\ Len(tail') = Len(tail) + 1 /\ Len(tail) \in Nat
      /\ DOMAIN tail' = DOMAIN tail \cup {Len(tail) + 1} /\ DOMAIN tail = 1..Len(tail)
      /\ tail'[Len(tail) + 1] = r
      /\ \A j \in DOMAIN tail : tail'[j] = tail[j]
  <2>1. tail \in Seq(Requests) /\ tail' = Append(tail, r)
    BY DEF SandboxTypeOK, Admit
  <2> QED
    BY <2>1, Appended
<1>4. SandboxTypeOK'
  BY <1>1, <1>2, <1>3, SandboxConstants DEF SandboxTypeOK, world
<1>5. QueueInductive'
  <2>1. QueueExact'
    <3>1. Len(runs) \in Nat /\ queued \in Nat
      BY QueueHolds
    <3>2. QueueLimit \in Nat /\ Envelopes \in Nat
      BY SandboxConstants
    <3>3. queued' = Len(tail') + (IF worker' = "checking" THEN 1 ELSE 0)
      <4>1. queued = Len(tail) + (IF worker = "checking" THEN 1 ELSE 0)
        BY DEF QueueInductive, QueueExact
      <4>2. queued' = queued + 1 /\ Len(tail') = Len(tail) + 1 /\ Len(tail) \in Nat
            /\ worker' = worker
        BY <1>1, <1>3
      <4> QED
        BY <4>1, <4>2
    <3>4. Len(runs') = Len(runs)
      BY <1>1
    <3>5. queued' <= QueueLimit /\ Len(runs') + queued' <= Envelopes
      BY <1>1, <3>1, <3>2, <3>4
    <3> QED
      BY <3>3, <3>5 DEF QueueExact
  <2>2. WaitingExact'
    <3>1. \A i \in DOMAIN tail : tail[i] \in Requests /\ tail[i] # r
      BY <1>2, QueueHolds DEF QueueInductive, WaitingExact
    <3>2. worker = "checking" => current[1] \in Requests /\ current[1] # r
      BY <1>2, QueueHolds DEF QueueInductive, WaitingExact
    <3> QED
      BY <1>1, <1>2, <1>3, <3>1, <3>2 DEF QueueInductive, WaitingExact
  <2> QED
    BY <1>1, <2>1, <2>2 DEF QueueInductive
<1>6. SpentInductive'
  BY <1>1, <1>2, SpentFrame
<1>7. RunsInductive' /\ WorldInductive'
  BY <1>1, RunsFrame DEF AtWork
<1> QED
  BY <1>4, <1>5, <1>6, <1>7

LEMMA BucketStep ==
  ASSUME SandboxInductive, NEW a \in Addresses, BucketExpires(a)
  PROVE  SandboxInductive'
<1> USE DEF SandboxInductive
<1>1. UNCHANGED <<table, up, runs, storageFailed, queued, tail, worker, current, client, world>>
      /\ buckets' = buckets \ {a}
  BY DEF BucketExpires
<1>2. SandboxTypeOK'
  BY <1>1 DEF SandboxTypeOK, world
<1>3. QueueInductive'
  BY <1>1 DEF QueueInductive, QueueExact, WaitingExact
<1>4. SpentInductive' /\ RunsInductive' /\ WorldInductive'
  BY <1>1, SpentFrame, RunsFrame DEF AtWork
<1> QED
  BY <1>2, <1>3, <1>4

LEMMA TakeUpStep ==
  ASSUME SandboxInductive, TakeUp
  PROVE  SandboxInductive'
<1> USE DEF SandboxInductive
<1>1. UNCHANGED <<table, up, runs, storageFailed, queued, buckets, client, world>>
      /\ up /\ worker = "idle" /\ worker' = "checking"
      /\ tail # <<>> /\ current' = <<Head(tail)>> /\ tail' = Tail(tail)
  BY DEF TakeUp
<1>2. /\ tail \in Seq(Requests) /\ tail' \in Seq(Requests)
      /\ Len(tail) \in Nat /\ Len(tail') = Len(tail) - 1 /\ Len(tail) > 0
      /\ DOMAIN tail = 1..Len(tail) /\ DOMAIN tail' = 1..(Len(tail) - 1)
      /\ \A j \in DOMAIN tail' : j + 1 \in DOMAIN tail /\ tail'[j] = tail[j + 1]
      /\ current'[1] = tail[1] /\ tail[1] \in Requests /\ 1 \in DOMAIN tail
  BY <1>1 DEF SandboxTypeOK
<1>3. SandboxTypeOK'
  BY <1>1, <1>2 DEF SandboxTypeOK, world, Stages
<1>4. QueueInductive'
  <2>1. QueueExact'
    BY <1>1, <1>2, QueueHolds DEF QueueInductive, QueueExact
  <2>2. WaitingExact'
    BY <1>1, <1>2 DEF QueueInductive, WaitingExact
  <2> QED
    BY <1>1, <2>1, <2>2 DEF QueueInductive
<1>5. SpentInductive' /\ RunsInductive' /\ WorldInductive'
  BY <1>1, SpentFrame, RunsFrame DEF AtWork
<1> QED
  BY <1>3, <1>4, <1>5

LEMMA TurnAwayStep ==
  ASSUME SandboxInductive, TurnAway
  PROVE  SandboxInductive'
<1> USE DEF SandboxInductive
<1>1. UNCHANGED <<table, up, runs, tail, buckets, world>>
      /\ up /\ worker = "checking" /\ worker' = "idle" /\ current' = <<>>
      /\ queued' = queued - 1 /\ storageFailed' \in BOOLEAN
      /\ (storageFailed => storageFailed')
  <2>1. storageFailed' \in BOOLEAN /\ (storageFailed => storageFailed')
    <3>1. CASE UNCHANGED storageFailed
      BY <3>1 DEF SandboxTypeOK
    <3>2. CASE ~ storageFailed /\ storageFailed' = TRUE
      BY <3>2
    <3> QED
      BY <3>1, <3>2 DEF TurnAway
  <2> QED
    BY <2>1 DEF TurnAway
<1>2. current[1] \in Requests /\ client[current[1]] = "waiting"
  BY <1>1, QueueHolds DEF QueueInductive, WaitingExact
<1>3. /\ client' \in [Requests -> {"none", "waiting", "accepted", "admitted", "refused", "lost"}]
      /\ client'[current[1]] = "refused"
      /\ \A q \in Requests : q # current[1] => client'[q] = client[q]
  BY <1>2, Told DEF TurnAway
<1>4. queued = Len(tail) + 1
  BY <1>1 DEF QueueInductive, QueueExact
<1>5. SandboxTypeOK'
  <2>1. queued' \in Nat
    BY <1>1, <1>4, QueueHolds
  <2> QED
    BY <1>1, <1>3, <2>1 DEF SandboxTypeOK, world, Stages
<1>6. QueueInductive'
  <2>1. QueueExact'
    <3>1. QueueLimit \in Nat /\ Envelopes \in Nat
      BY SandboxConstants
    <3> QED
      BY <1>1, <1>4, <3>1, QueueHolds DEF QueueInductive, QueueExact
  <2>2. WaitingExact'
    BY <1>1, <1>3, QueueHolds DEF QueueInductive, WaitingExact
  <2> QED
    BY <1>1, <2>1, <2>2 DEF QueueInductive
<1>7. SpentInductive'
  BY <1>1, <1>2, <1>3, SpentFrame
<1>8. RunsInductive' /\ WorldInductive'
  BY <1>1, RunsFrame DEF AtWork
<1> QED
  BY <1>5, <1>6, <1>7, <1>8

----------------------------------------------------------------------------
(* The worker.                                                             *)

(* A new record: nothing was done in the world for its position.           *)
LEMMA OpenRunStep ==
  ASSUME SandboxInductive, OpenRun
  PROVE  SandboxInductive'
<1> DEFINE n == Len(table)
           new == NewRun(current[1])
<1>1. UNCHANGED <<up, storageFailed, tail, current, buckets, world>>
      /\ up /\ worker = "checking" /\ worker' = "opened" /\ ~ storageFailed
      /\ queued' = queued - 1
      /\ table' = Append(table, new) /\ runs' = Append(runs, new)
      /\ Tell(current[1], "accepted")
  BY DEF OpenRun
<1>2. current[1] \in Requests /\ client[current[1]] = "waiting"
  BY <1>1, QueueHolds DEF SandboxInductive, QueueInductive, WaitingExact
<1>3. /\ client' \in [Requests -> {"none", "waiting", "accepted", "admitted", "refused", "lost"}]
      /\ client'[current[1]] = "accepted"
      /\ \A q \in Requests : q # current[1] => client'[q] = client[q]
  BY <1>1, <1>2, Told DEF SandboxInductive
<1>4. /\ new \in Run /\ new.by = current[1] /\ new.outcome = "running"
      /\ new.schedule = "pending" /\ new.payment = "pending"
  BY <1>2 DEF NewRun, Run, StepStates
<1>5. table \in Seq(Run) /\ runs = table
  BY <1>1 DEF SandboxInductive, SandboxTypeOK, RunsInductive
<1>6. /\ table' \in Seq(Run) /\ Len(table') = n + 1 /\ n \in Nat
      /\ DOMAIN table' = DOMAIN table \cup {n + 1} /\ DOMAIN table = 1..n
      /\ table'[n + 1] = new
      /\ \A j \in DOMAIN table : table'[j] = table[j]
      /\ runs' = table'
  <2> HIDE DEF new, Run
  <2> QED
    BY <1>1, <1>4, <1>5, Appended
<1>7. queued = Len(tail) + 1 /\ queued \in Nat /\ Len(tail) \in Nat
      /\ queued <= QueueLimit /\ n + queued <= Envelopes
      /\ QueueLimit \in Nat /\ Envelopes \in Nat
  BY <1>1, <1>5, QueueHolds, SandboxConstants DEF SandboxInductive, QueueInductive, QueueExact
<1>8. SandboxTypeOK'
  BY <1>1, <1>3, <1>6, <1>7 DEF SandboxInductive, SandboxTypeOK, world, Stages
<1>9. QueueInductive'
  <2>1. QueueExact'
    BY <1>1, <1>6, <1>7 DEF QueueExact
  <2>2. WaitingExact'
    BY <1>1, <1>3, QueueHolds DEF SandboxInductive, QueueInductive, WaitingExact
  <2> QED
    BY <1>1, <2>1, <2>2 DEF SandboxInductive, QueueInductive
<1>10. WorldInductive'
  BY <1>1, <1>6 DEF SandboxInductive, WorldInductive, Positions, world
<1>11. NextTrue(new, n + 1)
  <2>1. n + 1 \in Positions /\ n + 1 > n
    BY <1>6, <1>7 DEF Positions
  <2>2. ordered'[n + 1] = 0 /\ paid'[n + 1] = 0
    BY <1>1, <2>1 DEF SandboxInductive, WorldInductive, world
  <2> QED
    BY <1>4, <2>2 DEF NextTrue, TrueRecord
<1>12. \A p \in DOMAIN table' : NextTrue(table'[p], p)
  <2>1. \A p \in DOMAIN table : NextTrue(table[p], p)
    BY <1>1 DEF SandboxInductive, RunsInductive, RunIsTrue, NextTrue, world
  <2> QED
    BY <1>6, <1>11, <2>1
<1>13. RunsInductive'
  <2>1. NextStage(new, n + 1)
    BY <1>1, <1>4 DEF NextStage, StageRecord
  <2>2. \A p \in DOMAIN runs' :
          /\ runs'[p].outcome \in {"approved", "refused"} => table'[p] = runs'[p]
          /\ runs'[p].outcome = "failed" => table'[p].outcome \in {"failed", "running"}
    BY <1>6
  <2>3. Len(runs') = n + 1 /\ runs'[n + 1] = new /\ n + 1 > 0 /\ n + 1 <= Envelopes
    BY <1>6, <1>7
  <2> HIDE DEF new
  <2> QED
    BY <1>1, <1>6, <1>12, <2>1, <2>2, <2>3
       DEF RunsInductive, RunIsTrue, NextTrue, StageIs, NextStage
<1>14. SpentInductive'
  <2>1. \A p \in DOMAIN table : table[p].by \in Requests /\ table[p].by # current[1]
    <3>1. \A p \in DOMAIN table : table[p] \in Run
      <4> HIDE DEF Run
      <4> QED
        BY <1>5
    <3> QED
      BY <1>2, <3>1 DEF SandboxInductive, SpentInductive, Run
  <2>2. \A r \in Requests : client'[r] \in {"accepted", "admitted"} =>
          \E p \in DOMAIN table' : table'[p].by = r
    <3> TAKE r \in Requests
    <3>1. CASE r = current[1]
      BY <1>4, <1>6, <3>1
    <3>2. CASE r # current[1]
      BY <1>3, <1>6, <3>2 DEF SandboxInductive, SpentInductive
    <3> QED
      BY <3>1, <3>2
  <2>3. \A p \in DOMAIN table' : client'[table'[p].by] \in {"accepted", "admitted", "lost"}
    BY <1>3, <1>4, <1>6, <2>1 DEF SandboxInductive, SpentInductive
  <2>4. \A p, q \in DOMAIN table' : table'[p].by = table'[q].by => p = q
    BY <1>4, <1>6, <2>1 DEF SandboxInductive, SpentInductive
  <2> QED
    BY <2>2, <2>3, <2>4 DEF SpentInductive
<1> QED
  BY <1>8, <1>9, <1>10, <1>13, <1>14 DEF SandboxInductive

(* The 202 arrives, or is lost.                                            *)
LEMMA AnswerStep ==
  ASSUME SandboxInductive, NEW r \in Requests, Answer(r)
  PROVE  SandboxInductive'
<1> USE DEF SandboxInductive
<1>1. UNCHANGED <<table, up, runs, storageFailed, queued, tail, worker, current, buckets, world>>
  BY DEF Answer, memory
<1>2. /\ client' \in [Requests -> {"none", "waiting", "accepted", "admitted", "refused", "lost"}]
      /\ client[r] = "accepted" /\ client'[r] \in {"admitted", "lost"}
      /\ \A q \in Requests : q # r => client'[q] = client[q]
  <2>1. CASE Tell(r, "admitted")
    BY <2>1, Told DEF Answer
  <2>2. CASE Tell(r, "lost")
    BY <2>2, Told DEF Answer
  <2> QED
    BY <2>1, <2>2 DEF Answer
<1>3. SandboxTypeOK'
  BY <1>1, <1>2 DEF SandboxTypeOK, world
<1>4. QueueInductive'
  <2>1. QueueExact' /\ (current' = <<>> <=> worker' = "idle")
        /\ (~ up' => /\ runs' = <<>> /\ tail' = <<>> /\ queued' = 0
                     /\ worker' = "idle" /\ ~ storageFailed')
    BY <1>1 DEF QueueInductive, QueueExact
  <2>2. WaitingExact'
    BY <1>1, <1>2, QueueHolds DEF QueueInductive, WaitingExact
  <2> QED
    BY <2>1, <2>2 DEF QueueInductive
<1>5. SpentInductive'
  BY <1>1, <1>2, SpentFrame
<1>6. RunsInductive' /\ WorldInductive'
  BY <1>1, RunsFrame DEF AtWork
<1> QED
  BY <1>3, <1>4, <1>5, <1>6

(* The run of a worker at work.                                            *)
LEMMA TheRun ==
  ASSUME SandboxInductive, AtWork
  PROVE  /\ Position \in DOMAIN table /\ DOMAIN table = 1..Len(table)
         /\ Len(table) \in Nat /\ Position = Len(table) /\ Position \in Positions
         /\ up /\ ~ storageFailed /\ runs = table
         /\ runs \in Seq(Run) /\ runs[Position] \in Run
         /\ StageIs(runs[Position], Position) /\ RunIsTrue(runs[Position], Position)
<1>1. up /\ ~ storageFailed /\ runs = table /\ Len(runs) > 0
      /\ StageIs(runs[Position], Position) /\ Len(table) <= Envelopes
  BY DEF SandboxInductive, RunsInductive, Position
<1>2. runs \in Seq(Run)
  BY DEF SandboxInductive, SandboxTypeOK
<1>3. Len(table) \in Nat /\ DOMAIN table = 1..Len(table) /\ Position \in 1..Len(table)
      /\ runs[Position] \in Run
  <2> HIDE DEF Run
  <2> QED
    BY <1>1, <1>2 DEF Position
<1>4. RunIsTrue(runs[Position], Position)
  BY <1>1, <1>3 DEF SandboxInductive, RunsInductive
<1>5. Position \in Positions
  BY <1>1, <1>3, SandboxConstants DEF Positions, Position
<1> QED
  BY <1>1, <1>2, <1>3, <1>4, <1>5 DEF Position

(* What one step of the worker does to the world, for its position alone:  *)
(* at most one more schedule or payment sent.                              *)
Sends(counter) ==
    /\ counter' \in [Positions -> Nat]
    /\ counter[Position] <= counter'[Position] /\ counter'[Position] <= 1
    /\ \A p \in Positions : p # Position => counter'[p] = counter[p]

(* A step of the worker that writes a record that is true and no other     *)
(* request's, or fails to save the record of a run that ends as failed.    *)
LEMMA RunWritten ==
  ASSUME SandboxInductive, AtWork, UNCHANGED <<up, queued, tail, buckets, client>>,
         UNCHANGED <<scheduled, settled, verdict>>,
         NEW new \in Run, new.by = runs[Position].by,
         runs' = [runs EXCEPT ![Position] = new],
         NextTrue(new, Position),
         \/ /\ table' = [table EXCEPT ![Position] = new]
            /\ storageFailed' = FALSE
            /\ Sends(ordered) /\ Sends(paid)
         \/ /\ new.outcome = "failed" /\ storageFailed' \in BOOLEAN
            /\ UNCHANGED <<ordered, paid>>
            /\ \/ UNCHANGED table /\ storageFailed' = TRUE
               \/ table' = [table EXCEPT ![Position] = new],
         \/ worker' = "idle" /\ current' = <<>>
         \/ /\ AtWork' /\ storageFailed' = FALSE /\ current' = current
            /\ NextStage(new, Position)
            /\ table' = [table EXCEPT ![Position] = new]
  PROVE  SandboxInductive'
<1> DEFINE n == Position
<1>1. /\ n \in DOMAIN table /\ DOMAIN table = 1..Len(table) /\ Len(table) \in Nat
      /\ n = Len(table) /\ n \in Positions /\ up /\ ~ storageFailed /\ runs = table
      /\ runs \in Seq(Run) /\ n = Len(runs)
      /\ StageIs(runs[n], n) /\ RunIsTrue(runs[n], n)
  BY TheRun DEF Position
<1>2. /\ runs' \in Seq(Run) /\ Len(runs') = n /\ DOMAIN runs' = DOMAIN table
      /\ runs'[n] = new
      /\ \A j \in DOMAIN table : j # n => runs'[j] = table[j]
  <2> HIDE DEF Run, n
  <2> QED
    BY <1>1, Written DEF n
<1>3. table' = runs' \/ (UNCHANGED table /\ new.outcome = "failed" /\ storageFailed' = TRUE
                         /\ worker' = "idle" /\ UNCHANGED <<ordered, paid>>)
  <2>1. table = runs
    BY <1>1
  <2> QED
    BY <2>1
<1>4. storageFailed' \in BOOLEAN /\ worker' \in Stages
      /\ current' \in {<<>>} \cup {<<r>> : r \in Requests}
      /\ worker' # "checking" /\ worker # "checking" /\ worker # "idle"
      /\ (current' = <<>> <=> worker' = "idle")
  <2>1. current # <<>> /\ worker # "checking" /\ worker # "idle"
    BY DEF SandboxInductive, QueueInductive, AtWork
  <2> QED
    BY <2>1 DEF SandboxInductive, SandboxTypeOK, AtWork, Stages
<1>5. /\ ordered' \in [Positions -> Nat] /\ paid' \in [Positions -> Nat]
      /\ ordered[n] <= ordered'[n] /\ ordered'[n] <= 1
      /\ paid[n] <= paid'[n] /\ paid'[n] <= 1
      /\ \A p \in Positions : p # n => ordered'[p] = ordered[p] /\ paid'[p] = paid[p]
  <2>1. CASE Sends(ordered) /\ Sends(paid)
    BY <2>1 DEF Sends
  <2>2. CASE UNCHANGED <<ordered, paid>>
    BY <1>1, <2>2 DEF SandboxInductive, SandboxTypeOK, WorldInductive
  <2> QED
    BY <2>1, <2>2
<1>6. /\ table' \in Seq(Run) /\ Len(table') = n /\ DOMAIN table' = DOMAIN table
      /\ \A j \in DOMAIN table : j # n => table'[j] = table[j]
  <2> HIDE DEF Run
  <2> QED
    BY <1>1, <1>2, <1>3
<1>7. SandboxTypeOK'
  BY <1>2, <1>4, <1>5, <1>6 DEF SandboxInductive, SandboxTypeOK
<1>8. QueueInductive'
  <2>1. QueueExact'
    BY <1>1, <1>2, <1>4 DEF SandboxInductive, QueueInductive, QueueExact
  <2>2. WaitingExact'
    BY <1>4 DEF SandboxInductive, QueueInductive, WaitingExact
  <2> QED
    BY <1>1, <1>4, <2>1, <2>2 DEF QueueInductive
<1>9. WorldInductive'
  <2> SUFFICES ASSUME NEW p \in Positions
               PROVE  /\ scheduled[p] <= ordered'[p] /\ ordered'[p] <= 1
                      /\ settled[p] <= paid'[p] /\ paid'[p] <= 1
                      /\ p > Len(table') => ordered'[p] = 0 /\ paid'[p] = 0
    BY DEF WorldInductive
  <2>1. /\ scheduled[p] <= ordered[p] /\ ordered[p] <= 1
        /\ settled[p] <= paid[p] /\ paid[p] <= 1
        /\ p > n => ordered[p] = 0 /\ paid[p] = 0
    BY <1>1 DEF SandboxInductive, WorldInductive
  <2>2. /\ scheduled[p] \in Nat /\ ordered[p] \in Nat /\ settled[p] \in Nat /\ paid[p] \in Nat
        /\ ordered'[p] \in Nat /\ paid'[p] \in Nat /\ p \in Nat /\ n \in Nat
    BY <1>1, <1>5, SandboxConstants DEF SandboxInductive, SandboxTypeOK, Positions
  <2>3. CASE p = n
    BY <1>5, <1>6, <2>1, <2>2, <2>3
  <2>4. CASE p # n
    BY <1>5, <1>6, <2>1, <2>2, <2>4
  <2> QED
    BY <2>3, <2>4
<1>10. \A p \in DOMAIN table' : NextTrue(table'[p], p)
  <2> SUFFICES ASSUME NEW p \in DOMAIN table' PROVE NextTrue(table'[p], p)
    OBVIOUS
  <2>1. RunIsTrue(table[p], p) /\ p \in Positions
    BY <1>1, <1>6, SandboxConstants DEF SandboxInductive, RunsInductive, Positions
  <2>2. CASE p # n
    BY <1>5, <1>6, <2>1, <2>2 DEF RunIsTrue, NextTrue
  <2>3. CASE p = n /\ table' = runs'
    BY <1>2, <2>3
  <2>4. CASE p = n /\ UNCHANGED <<table, ordered, paid>>
    BY <2>1, <2>4 DEF RunIsTrue, NextTrue
  <2> QED
    BY <1>3, <2>2, <2>3, <2>4
<1>11. \A p \in DOMAIN runs' :
          /\ runs'[p].outcome \in {"approved", "refused"} => table'[p] = runs'[p]
          /\ runs'[p].outcome = "failed" => table'[p].outcome \in {"failed", "running"}
  <2>1. table[n].outcome = "running"
    BY <1>1 DEF StageIs, StageRecord
  <2> HIDE DEF n
  <2> QED
    BY <1>2, <1>3, <1>6, <2>1
<1>12. RunsInductive'
  <2>1. up' /\ ~ storageFailed' => runs' = table'
    BY <1>3
  <2>2. AtWork' => up' /\ ~ storageFailed' /\ Len(runs') > 0
                   /\ NextStage(runs'[Len(runs')], Len(runs'))
    BY <1>1, <1>2 DEF AtWork
  <2>3. Len(table') <= Envelopes
    BY <1>1, <1>6 DEF SandboxInductive, RunsInductive
  <2> QED
    BY <1>1, <1>2, <1>6, <1>10, <1>11, <2>1, <2>2, <2>3
       DEF RunsInductive, RunIsTrue, NextTrue, StageIs, NextStage
<1>13. SpentInductive'
  <2>1. \A p \in DOMAIN table : table'[p].by = table[p].by
    BY <1>1, <1>2, <1>3, <1>6
  <2> QED
    BY <1>6, <2>1 DEF SandboxInductive, SpentInductive
<1> QED
  BY <1>7, <1>8, <1>9, <1>12, <1>13 DEF SandboxInductive

(* Counters that stay as they are.                                         *)
LEMMA SendsNothing ==
  ASSUME SandboxInductive, AtWork, UNCHANGED <<ordered, paid>>
  PROVE  Sends(ordered) /\ Sends(paid)
BY TheRun DEF SandboxInductive, SandboxTypeOK, WorldInductive, Sends

(* The catch clause.                                                       *)
LEMMA Caught ==
  ASSUME SandboxInductive, AtWork, UNCHANGED world,
         NEW run \in Run, run.by = runs[Position].by, RunIsTrue(run, Position),
         NEW f \in BOOLEAN, CatchFrom(run, f)
  PROVE  SandboxInductive'
<1> DEFINE new == Interrupted(run)
<1>1. new \in Run /\ new.by = runs[Position].by /\ new.outcome = "failed"
      /\ TrueRecord(new, ordered[Position], scheduled[Position], paid[Position],
                    settled[Position], verdict[Position])
  BY InterruptedIsTrue DEF RunIsTrue
<1>2. NextTrue(new, Position)
  BY <1>1 DEF NextTrue, world
<1>3. /\ runs' = [runs EXCEPT ![Position] = new]
      /\ worker' = "idle" /\ current' = <<>>
      /\ UNCHANGED <<up, queued, tail, buckets, client>>
      /\ \/ UNCHANGED table /\ storageFailed' = TRUE
         \/ table' = [table EXCEPT ![Position] = new] /\ storageFailed' = f
  BY DEF CatchFrom
<1>4. UNCHANGED <<scheduled, settled, verdict>> /\ UNCHANGED <<ordered, paid>>
  BY DEF world
<1>5. storageFailed' \in BOOLEAN
  BY <1>3
<1> HIDE DEF new
<1> QED
  BY <1>1, <1>2, <1>3, <1>4, <1>5, RunWritten

(* A step that was saved.                                                  *)
LEMMA Stepped ==
  ASSUME SandboxInductive, AtWork, UNCHANGED <<scheduled, settled, verdict>>,
         NEW run \in Run, run.by = runs[Position].by, NextTrue(run, Position),
         NEW stage \in {"scheduling", "quoting", "reviewing", "paid"},
         StageRecord(run, stage, paid'[Position]),
         runs' = [runs EXCEPT ![Position] = run],
         table' = [table EXCEPT ![Position] = run],
         Rest(stage), UNCHANGED storageFailed,
         Sends(ordered), Sends(paid)
  PROVE  SandboxInductive'
<1>1. worker' = stage /\ AtWork' /\ UNCHANGED <<up, queued, tail, current, buckets, client>>
  BY DEF Rest, AtWork
<1>2. storageFailed' = FALSE
  BY TheRun DEF SandboxInductive, SandboxTypeOK
<1>3. NextStage(run, Position)
  BY <1>1 DEF NextStage
<1> QED
  BY <1>1, <1>2, <1>3, RunWritten

LEMMA StartScheduleStep ==
  ASSUME SandboxInductive, StartSchedule
  PROVE  SandboxInductive'
<1> DEFINE run == [runs[Position] EXCEPT !.schedule = "running"]
<1>1. AtWork /\ worker = "opened"
  BY DEF StartSchedule, AtWork
<1>2. /\ runs[Position] \in Run /\ Position \in Positions
      /\ StageRecord(runs[Position], "opened", paid[Position])
      /\ RunIsTrue(runs[Position], Position)
  BY <1>1, TheRun DEF StageIs
<1>3. /\ run \in Run /\ run.by = runs[Position].by /\ run.outcome = "running"
      /\ run.schedule = "running" /\ run.payment = "pending" /\ run.verdict \in StepStates
      /\ runs[Position].schedule = "pending" /\ runs[Position].payment = "pending"
  BY <1>2 DEF Run, StepStates, StageRecord
<1>4. ordered[Position] = 0 /\ paid[Position] = 0
  BY <1>2, <1>3 DEF RunIsTrue, TrueRecord
<1>5. UNCHANGED <<scheduled, paid, settled, verdict>>
  BY DEF StartSchedule
<1>6. CASE CatchFrom(run, TRUE)
  <2>1. UNCHANGED ordered
    BY <1>6 DEF StartSchedule, CatchFrom, Saved
  <2>2. RunIsTrue(run, Position)
    BY <1>3, <1>4 DEF RunIsTrue, TrueRecord
  <2> HIDE DEF run
  <2> QED
    BY <1>1, <1>3, <1>5, <1>6, <2>1, <2>2, Caught DEF world
<1>7. CASE /\ runs' = [runs EXCEPT ![Position] = run]
           /\ table' = [table EXCEPT ![Position] = run]
           /\ Rest("scheduling") /\ UNCHANGED storageFailed
  <2>1. ordered' = [ordered EXCEPT ![Position] = @ + 1]
    BY <1>7 DEF StartSchedule, Rest, Saved
  <2>2. Sends(ordered)
    BY <1>2, <1>4, <2>1 DEF Sends, SandboxInductive, SandboxTypeOK
  <2>3. Sends(paid)
    BY <1>2, <1>5 DEF Sends, SandboxInductive, SandboxTypeOK, WorldInductive
  <2>4. NextTrue(run, Position)
    BY <1>3, <1>4, <1>5 DEF NextTrue, TrueRecord
  <2>5. StageRecord(run, "scheduling", paid'[Position])
    BY <1>3 DEF StageRecord
  <2> HIDE DEF run
  <2> QED
    BY <1>1, <1>3, <1>5, <1>7, <2>2, <2>3, <2>4, <2>5, Stepped
<1> QED
  BY <1>6, <1>7 DEF StartSchedule, SaveStep

LEMMA ScheduleCreatedStep ==
  ASSUME SandboxInductive, ScheduleCreated
  PROVE  SandboxInductive'
<1> DEFINE run == [runs[Position] EXCEPT !.schedule = "done", !.payment = "running"]
<1>1. AtWork /\ worker = "scheduling" /\ scheduled[Position] > 0 /\ UNCHANGED world
  BY DEF ScheduleCreated, AtWork
<1>2. /\ runs[Position] \in Run
      /\ StageRecord(runs[Position], "scheduling", paid[Position])
      /\ RunIsTrue(runs[Position], Position)
  BY <1>1, TheRun DEF StageIs
<1>3. /\ run \in Run /\ run.by = runs[Position].by /\ run.outcome = "running"
      /\ run.schedule = "done" /\ run.payment = "running"
      /\ runs[Position].payment = "pending"
  BY <1>2 DEF Run, StepStates, StageRecord
<1>4. paid[Position] = 0 /\ RunIsTrue(run, Position)
  BY <1>1, <1>2, <1>3 DEF RunIsTrue, TrueRecord
<1>5. NextTrue(run, Position) /\ StageRecord(run, "quoting", paid'[Position])
  BY <1>1, <1>3, <1>4 DEF NextTrue, RunIsTrue, StageRecord, world
<1>6. Sends(ordered) /\ Sends(paid)
  BY <1>1, SendsNothing DEF world
<1>7. /\ UNCHANGED <<scheduled, settled, verdict>>
      /\ \/ CatchFrom(run, TRUE)
         \/ /\ runs' = [runs EXCEPT ![Position] = run]
            /\ table' = [table EXCEPT ![Position] = run]
            /\ Rest("quoting") /\ UNCHANGED storageFailed
  BY <1>1 DEF ScheduleCreated, SaveStep, world
<1> HIDE DEF run
<1> QED
  BY <1>1, <1>3, <1>4, <1>5, <1>6, <1>7, Stepped, Caught

LEMMA PayStep ==
  ASSUME SandboxInductive, Pay
  PROVE  SandboxInductive'
<1> DEFINE run == runs[Position]
<1>1. /\ AtWork /\ worker = "quoting" /\ UNCHANGED <<scheduled, settled, verdict>>
      /\ UNCHANGED <<table, runs, storageFailed, ordered>> /\ Rest("reviewing")
      /\ paid' = [paid EXCEPT ![Position] = @ + 1]
  BY DEF Pay, AtWork
<1>2. /\ run \in Run /\ Position \in Positions /\ Position \in DOMAIN runs
      /\ runs \in Seq(Run) /\ table = runs
      /\ StageRecord(run, "quoting", paid[Position]) /\ RunIsTrue(run, Position)
  BY <1>1, TheRun DEF StageIs
<1>3. Sends(paid)
  <2>1. paid[Position] = 0
    BY <1>2 DEF StageRecord
  <2> QED
    BY <1>1, <1>2, <2>1 DEF Sends, SandboxInductive, SandboxTypeOK
<1>4. Sends(ordered)
  BY <1>1, <1>2 DEF Sends, SandboxInductive, SandboxTypeOK, WorldInductive
<1>5. NextTrue(run, Position)
  BY <1>1, <1>2 DEF NextTrue, RunIsTrue, TrueRecord, StageRecord
<1>6. StageRecord(run, "reviewing", paid'[Position])
  BY <1>2 DEF StageRecord
<1>7. runs' = [runs EXCEPT ![Position] = run] /\ table' = [table EXCEPT ![Position] = run]
  <2> HIDE DEF Run
  <2> QED
    BY <1>1, <1>2
<1> QED
  BY <1>1, <1>2, <1>3, <1>4, <1>5, <1>6, <1>7, Stepped

LEMMA PaidStep ==
  ASSUME SandboxInductive, Paid
  PROVE  SandboxInductive'
<1> DEFINE run == [runs[Position] EXCEPT !.payment = "done", !.verdict = "running"]
<1>1. AtWork /\ worker = "reviewing" /\ settled[Position] > 0 /\ UNCHANGED world
  BY DEF Paid, AtWork
<1>2. /\ runs[Position] \in Run
      /\ StageRecord(runs[Position], "reviewing", paid[Position])
      /\ RunIsTrue(runs[Position], Position)
  BY <1>1, TheRun DEF StageIs
<1>3. /\ run \in Run /\ run.by = runs[Position].by /\ run.outcome = "running"
      /\ run.schedule = "done" /\ run.payment = "done"
      /\ runs[Position].schedule = "done"
  BY <1>2 DEF Run, StepStates, StageRecord
<1>4. RunIsTrue(run, Position)
  BY <1>1, <1>2, <1>3 DEF RunIsTrue, TrueRecord
<1>5. NextTrue(run, Position) /\ StageRecord(run, "paid", paid'[Position])
  BY <1>1, <1>3, <1>4 DEF NextTrue, RunIsTrue, StageRecord, world
<1>6. Sends(ordered) /\ Sends(paid)
  BY <1>1, SendsNothing DEF world
<1>7. /\ UNCHANGED <<scheduled, settled, verdict>>
      /\ \/ CatchFrom(run, TRUE)
         \/ /\ runs' = [runs EXCEPT ![Position] = run]
            /\ table' = [table EXCEPT ![Position] = run]
            /\ Rest("paid") /\ UNCHANGED storageFailed
  BY <1>1 DEF Paid, SaveStep, world
<1> HIDE DEF run
<1> QED
  BY <1>1, <1>3, <1>4, <1>5, <1>6, <1>7, Stepped, Caught

LEMMA VerdictArrivesStep ==
  ASSUME SandboxInductive, VerdictArrives
  PROVE  SandboxInductive'
<1> DEFINE run == Finished(runs[Position], verdict[Position])
<1>1. AtWork /\ worker = "paid" /\ verdict[Position] # "none" /\ UNCHANGED world
  BY DEF VerdictArrives, AtWork
<1>2. /\ runs[Position] \in Run /\ Position \in Positions
      /\ StageRecord(runs[Position], "paid", paid[Position])
      /\ RunIsTrue(runs[Position], Position)
      /\ ~ storageFailed
  BY <1>1, TheRun DEF StageIs
<1>3. verdict[Position] \in {"approved", "refused"}
  BY <1>1, <1>2 DEF SandboxInductive, SandboxTypeOK
<1>4. /\ run \in Run /\ run.by = runs[Position].by /\ run.outcome = verdict[Position]
      /\ run.schedule = "done" /\ run.payment = "done"
      /\ runs[Position].schedule = "done" /\ runs[Position].payment = "done"
  BY <1>2, <1>3 DEF Finished, Run, StepStates, StageRecord
<1>5. RunIsTrue(run, Position)
  BY <1>1, <1>2, <1>4 DEF RunIsTrue, TrueRecord
<1>6. NextTrue(run, Position)
  BY <1>1, <1>5 DEF NextTrue, RunIsTrue, world
<1>7. CASE CatchFrom(run, TRUE)
  <2> HIDE DEF run
  <2> QED
    BY <1>1, <1>4, <1>5, <1>7, Caught
<1>8. CASE /\ runs' = [runs EXCEPT ![Position] = run]
           /\ table' = [table EXCEPT ![Position] = run]
           /\ worker' = "idle" /\ current' = <<>>
           /\ UNCHANGED <<up, storageFailed, queued, tail, buckets, client>>
  <2>1. Sends(ordered) /\ Sends(paid)
    BY <1>1, SendsNothing DEF world
  <2>2. storageFailed' = FALSE
    BY <1>2, <1>8 DEF SandboxInductive, SandboxTypeOK
  <2>3. UNCHANGED <<scheduled, settled, verdict>>
    BY <1>1 DEF world
  <2> HIDE DEF run
  <2> QED
    BY <1>1, <1>4, <1>6, <1>8, <2>1, <2>2, <2>3, RunWritten
<1> QED
  BY <1>7, <1>8 DEF VerdictArrives

LEMMA StepFailsStep ==
  ASSUME SandboxInductive, StepFails
  PROVE  SandboxInductive'
<1>1. AtWork /\ UNCHANGED world /\ CatchFrom(runs[Position], storageFailed)
  BY DEF StepFails, AtWork
<1>2. runs[Position] \in Run /\ RunIsTrue(runs[Position], Position) /\ storageFailed \in BOOLEAN
  BY <1>1, TheRun DEF SandboxInductive, SandboxTypeOK
<1> QED
  BY <1>1, <1>2, Caught

----------------------------------------------------------------------------
(* The end of a process, the start of the next, and the world.             *)

LEMMA CrashStep ==
  ASSUME SandboxInductive, Crash
  PROVE  SandboxInductive'
<1>1. /\ up' = FALSE /\ runs' = <<>> /\ storageFailed' = FALSE /\ queued' = 0
      /\ tail' = <<>> /\ worker' = "idle" /\ current' = <<>> /\ buckets' = {}
      /\ UNCHANGED <<table, world>>
      /\ client' = [r \in Requests |-> IF client[r] \in {"waiting", "accepted"} THEN "lost" ELSE client[r]]
  BY DEF Crash
<1>2. SandboxTypeOK'
  <2>1. runs' \in Seq(Run) /\ tail' \in Seq(Requests)
    BY <1>1
  <2>2. client' \in [Requests -> {"none", "waiting", "accepted", "admitted", "refused", "lost"}]
    BY <1>1 DEF SandboxInductive, SandboxTypeOK
  <2>3. buckets' \subseteq Addresses
    BY <1>1
  <2> QED
    BY <1>1, <2>1, <2>2, <2>3 DEF SandboxInductive, SandboxTypeOK, world, Stages
<1>3. QueueInductive'
  <2>1. Len(runs') = 0 /\ Len(tail') = 0 /\ DOMAIN tail' = {}
    BY <1>1
  <2>2. QueueExact'
    BY <1>1, <2>1, SandboxConstants DEF QueueExact
  <2>3. WaitingExact'
    BY <1>1, <2>1 DEF WaitingExact
  <2> QED
    BY <1>1, <2>2, <2>3 DEF QueueInductive
<1>4. WorldInductive'
  BY <1>1 DEF SandboxInductive, WorldInductive, world
<1>5. RunsInductive'
  <2>1. \A p \in DOMAIN table : RunIsTrue(table[p], p)'
    BY <1>1 DEF SandboxInductive, RunsInductive, RunIsTrue, world
  <2> QED
    BY <1>1, <2>1 DEF SandboxInductive, RunsInductive, AtWork
<1>6. SpentInductive'
  <2>1. \A r \in Requests :
          /\ client'[r] \in {"accepted", "admitted"} => client[r] \in {"accepted", "admitted"}
          /\ client[r] \in {"accepted", "admitted", "lost"} =>
                client'[r] \in {"accepted", "admitted", "lost"}
    BY <1>1
  <2> QED
    BY <1>1, <2>1, SpentFrame DEF SandboxInductive
<1> QED
  BY <1>2, <1>3, <1>4, <1>5, <1>6 DEF SandboxInductive

(* What becomes of a record when the process starts.                       *)
LEMMA EndedIsTrue ==
  ASSUME NEW run \in Run, NEW p, RunIsTrue(run, p)
  PROVE  /\ EndRun(run) \in Run /\ EndRun(run).by = run.by
         /\ RunIsTrue(EndRun(run), p)
BY InterruptedIsTrue DEF EndRun, RunIsTrue

LEMMA StartUpStep ==
  ASSUME SandboxInductive, StartUp
  PROVE  SandboxInductive'
<1>1. /\ ~ up /\ up' = TRUE /\ table' = runs'
      /\ runs' = [p \in DOMAIN table |-> EndRun(table[p])]
      /\ UNCHANGED <<storageFailed, queued, tail, worker, current, buckets, client, world>>
  BY DEF StartUp
<1>2. tail = <<>> /\ queued = 0 /\ worker = "idle" /\ ~ storageFailed /\ current = <<>>
  BY <1>1 DEF SandboxInductive, QueueInductive
<1>3. /\ Len(table) \in Nat /\ DOMAIN table = 1..Len(table) /\ Len(table) <= Envelopes
      /\ \A p \in DOMAIN table : table[p] \in Run /\ RunIsTrue(table[p], p)
  <2>1. table \in Seq(Run)
    BY DEF SandboxInductive, SandboxTypeOK
  <2>2. Len(table) \in Nat /\ DOMAIN table = 1..Len(table)
        /\ \A p \in DOMAIN table : table[p] \in Run
    <3> HIDE DEF Run
    <3> QED
      BY <2>1
  <2> QED
    BY <2>2 DEF SandboxInductive, RunsInductive
<1>4. \A p \in DOMAIN table :
        /\ runs'[p] \in Run /\ runs'[p].by = table[p].by
        /\ NextTrue(runs'[p], p)
  <2> TAKE p \in DOMAIN table
  <2>1. EndRun(table[p]) \in Run /\ EndRun(table[p]).by = table[p].by
        /\ RunIsTrue(EndRun(table[p]), p)
    BY <1>3, EndedIsTrue
  <2>2. runs'[p] = EndRun(table[p])
    BY <1>1
  <2> QED
    BY <1>1, <2>1, <2>2 DEF NextTrue, RunIsTrue, world
<1>5. /\ runs' \in Seq(Run) /\ Len(runs') = Len(table) /\ DOMAIN runs' = DOMAIN table
  <2> DEFINE n == Len(table)
             g == runs'
  <2>1. n \in Nat /\ g = [p \in 1..n |-> g[p]] /\ \A p \in 1..n : g[p] \in Run
    BY <1>1, <1>3, <1>4
  <2>2. g \in Seq(Run) /\ Len(g) = n /\ DOMAIN g = 1..n
    <3> HIDE DEF n, g, Run
    <3> QED
      BY <2>1
  <2> QED
    BY <1>3, <2>2
<1>6. SandboxTypeOK'
  BY <1>1, <1>5 DEF SandboxInductive, SandboxTypeOK, world
<1>7. QueueInductive'
  <2>1. QueueExact'
    BY <1>1, <1>2, <1>3, <1>5, SandboxConstants DEF QueueExact
  <2>2. WaitingExact'
    BY <1>1, <1>2 DEF SandboxInductive, QueueInductive, WaitingExact
  <2> QED
    BY <1>1, <1>2, <2>1, <2>2 DEF QueueInductive
<1>8. WorldInductive'
  BY <1>1, <1>5 DEF SandboxInductive, WorldInductive, world
<1>9. RunsInductive'
  <2>1. \A p \in DOMAIN runs' :
          /\ runs'[p].outcome \in {"approved", "refused"} => table'[p] = runs'[p]
          /\ runs'[p].outcome = "failed" => table'[p].outcome \in {"failed", "running"}
    BY <1>1
  <2> QED
    BY <1>1, <1>2, <1>3, <1>4, <1>5, <2>1 DEF RunsInductive, AtWork, RunIsTrue, NextTrue
<1>10. SpentInductive'
  BY <1>1, <1>4, <1>5 DEF SandboxInductive, SpentInductive
<1> QED
  BY <1>6, <1>7, <1>8, <1>9, <1>10 DEF SandboxInductive

(* Consensus and the guard only add what was sent before.                  *)
LEMMA WorldStep ==
  ASSUME SandboxInductive, NEW p \in Positions,
         ScheduleLands(p) \/ PaymentSettles(p) \/ GuardDecides(p)
  PROVE  SandboxInductive'
<1>1. UNCHANGED <<table, memory, client, ordered, paid>>
  BY DEF ScheduleLands, PaymentSettles, GuardDecides
<1>2. /\ scheduled' \in [Positions -> Nat] /\ settled' \in [Positions -> Nat]
      /\ verdict' \in [Positions -> {"none", "approved", "refused"}]
      /\ \A q \in Positions :
            /\ scheduled[q] <= scheduled'[q] /\ scheduled'[q] <= ordered[q]
            /\ settled[q] <= settled'[q] /\ settled'[q] <= paid[q]
            /\ verdict[q] # "none" => verdict'[q] = verdict[q]
  <2>1. /\ ordered \in [Positions -> Nat] /\ scheduled \in [Positions -> Nat]
        /\ paid \in [Positions -> Nat] /\ settled \in [Positions -> Nat]
        /\ verdict \in [Positions -> {"none", "approved", "refused"}]
        /\ \A q \in Positions : scheduled[q] <= ordered[q] /\ settled[q] <= paid[q]
    BY DEF SandboxInductive, SandboxTypeOK, WorldInductive
  <2>2. CASE ScheduleLands(p)
    BY <2>1, <2>2 DEF ScheduleLands
  <2>3. CASE PaymentSettles(p)
    BY <2>1, <2>3 DEF PaymentSettles
  <2>4. CASE GuardDecides(p)
    BY <2>1, <2>4 DEF GuardDecides
  <2> QED
    BY <2>2, <2>3, <2>4
<1>3. SandboxTypeOK'
  BY <1>1, <1>2 DEF SandboxInductive, SandboxTypeOK, memory
<1>4. QueueInductive'
  BY <1>1 DEF SandboxInductive, QueueInductive, QueueExact, WaitingExact, memory
<1>5. WorldInductive'
  BY <1>1, <1>2 DEF SandboxInductive, WorldInductive
<1>6. \A q \in DOMAIN table : NextTrue(table[q], q)
  <2> TAKE q \in DOMAIN table
  <2>1. q \in Positions
    <3>1. table \in Seq(Run) /\ Len(table) <= Envelopes
      BY DEF SandboxInductive, SandboxTypeOK, RunsInductive
    <3>2. Len(table) \in Nat /\ DOMAIN table = 1..Len(table)
      <4> HIDE DEF Run
      <4> QED
        BY <3>1
    <3> QED
      BY <3>1, <3>2, SandboxConstants DEF Positions
  <2>2. RunIsTrue(table[q], q)
    BY DEF SandboxInductive, RunsInductive
  <2>3. scheduled[q] \in Nat /\ scheduled'[q] \in Nat /\ settled[q] \in Nat /\ settled'[q] \in Nat
    BY <1>2, <2>1 DEF SandboxInductive, SandboxTypeOK
  <2> QED
    BY <1>1, <1>2, <2>1, <2>2, <2>3 DEF RunIsTrue, NextTrue, TrueRecord
<1>7. RunsInductive'
  BY <1>1, <1>6
     DEF SandboxInductive, RunsInductive, AtWork, RunIsTrue, NextTrue, StageIs, memory
<1>8. SpentInductive'
  BY <1>1 DEF SandboxInductive, SpentInductive
<1> QED
  BY <1>3, <1>4, <1>5, <1>7, <1>8 DEF SandboxInductive

LEMMA SandboxStutters ==
  ASSUME SandboxInductive, UNCHANGED sandboxVars
  PROVE  SandboxInductive'
<1>1. SandboxTypeOK' /\ QueueInductive' /\ WorldInductive' /\ SpentInductive'
  BY DEF SandboxInductive, sandboxVars, memory, world, SandboxTypeOK, QueueInductive,
     QueueExact, WaitingExact, WorldInductive, SpentInductive
<1>2. RunsInductive'
  BY DEF SandboxInductive, sandboxVars, memory, world, RunsInductive, AtWork, RunIsTrue, StageIs
<1> QED
  BY <1>1, <1>2 DEF SandboxInductive

(* Every step of the sandbox.                                              *)
LEMMA SandboxSteps ==
  ASSUME SandboxInductive, SandboxNext
  PROVE  SandboxInductive'
<1>1. CASE \E r \in Requests : Refuse(r) \/ Admit(r) \/ Answer(r)
  BY <1>1, RefuseStep, AdmitStep, AnswerStep
<1>2. CASE \E a \in Addresses : BucketExpires(a)
  BY <1>2, BucketStep
<1>3. CASE TakeUp \/ TurnAway \/ OpenRun
  BY <1>3, TakeUpStep, TurnAwayStep, OpenRunStep
<1>4. CASE StartSchedule \/ ScheduleCreated \/ Pay \/ Paid \/ VerdictArrives \/ StepFails
  BY <1>4, StartScheduleStep, ScheduleCreatedStep, PayStep, PaidStep, VerdictArrivesStep,
     StepFailsStep
<1>5. CASE Crash \/ StartUp
  BY <1>5, CrashStep, StartUpStep
<1>6. CASE \E p \in Positions : ScheduleLands(p) \/ PaymentSettles(p) \/ GuardDecides(p)
  BY <1>6, WorldStep
<1> QED
  BY <1>1, <1>2, <1>3, <1>4, <1>5, <1>6 DEF SandboxNext, Work

----------------------------------------------------------------------------
(* The invariant of the queue, the worker, the table and the world.        *)
THEOREM SandboxInvariant == SandboxSpec => []SandboxInductive
<1>1. SandboxInit => SandboxInductive
  BY SandboxStarts
<1>2. SandboxInductive /\ [SandboxNext]_sandboxVars => SandboxInductive'
  BY SandboxSteps, SandboxStutters
<1> QED
  BY <1>1, <1>2, PTL DEF SandboxSpec

(* A position is scheduled and paid for at most once, however often the    *)
(* process is restarted.                                                   *)
THEOREM EnvelopesAreSpentOnce == SandboxSpec => []EnvelopeOnce
<1>1. SandboxInductive => EnvelopeOnce
  BY DEF SandboxInductive, WorldInductive, EnvelopeOnce
<1> QED
  BY <1>1, SandboxInvariant, PTL

(* A visitor that was told its run is admitted finds it, in this process   *)
(* or the next; no visitor that was refused or still waits has spent an    *)
(* envelope, and none has spent two.  A visitor whose 202 is lost may have *)
(* spent one.                                                              *)
THEOREM AdmissionIsDurable == SandboxSpec => []AdmittedIsDurable
<1>1. SandboxInductive => AdmittedIsDurable
  BY DEF SandboxInductive, SpentInductive, AdmittedIsDurable
<1> QED
  BY <1>1, SandboxInvariant, PTL

(* The queue counter counts the requests without a run, within its limit   *)
(* and within the envelopes that are left.                                 *)
THEOREM QueueIsExact == SandboxSpec => []QueueExact
<1>1. SandboxInductive => QueueExact
  BY DEF SandboxInductive, QueueInductive
<1> QED
  BY <1>1, SandboxInvariant, PTL

(* What is shown is what will be shown after a restart.                    *)
THEOREM ShownIsDurable == SandboxSpec => []ShownIsKept
<1>1. SandboxInductive => ShownIsKept
  <2> SUFFICES ASSUME SandboxInductive, up PROVE ShownIsKept
    BY DEF ShownIsKept
  <2>1. Len(runs) = Len(table) /\ runs \in Seq(Run) /\ table \in Seq(Run)
    BY DEF SandboxInductive, RunsInductive, SandboxTypeOK
  <2>2. DOMAIN runs = DOMAIN table
    <3> HIDE DEF Run
    <3> QED
      BY <2>1
  <2> QED
    BY <2>2 DEF SandboxInductive, RunsInductive, ShownIsKept
<1> QED
  BY <1>1, SandboxInvariant, PTL

(* The record of a run says what happened to its schedule, its payment and *)
(* its verdict.                                                            *)
THEOREM RecordsAreTrue == SandboxSpec => []EvidenceIsTrue
<1>1. SandboxInductive => EvidenceIsTrue
  BY DEF SandboxInductive, RunsInductive, RunIsTrue, TrueRecord, EvidenceIsTrue
<1> QED
  BY <1>1, SandboxInvariant, PTL

----------------------------------------------------------------------------
(* The turn of a request that waits.                                       *)

(* How many steps the worker has left at most before it is idle.           *)
StageLeft ==
    [s \in Stages |->
        CASE s = "idle" -> 0 [] s = "paid" -> 1 [] s = "reviewing" -> 2 [] s = "quoting" -> 3
          [] s = "scheduling" -> 4 [] s = "opened" -> 5 [] s = "checking" -> 6]

Queued(r) == \E i \in DOMAIN tail : tail[i] = r
InHand(r) == worker = "checking" /\ current = <<r>>
PlaceOf(r) == CHOOSE i \in DOMAIN tail : tail[i] = r

(* How many steps of the worker a request that waits has ahead of it.      *)
StepsAhead(r) == StageLeft[worker] + (IF Queued(r) THEN 7 * PlaceOf(r) ELSE 0)

(* Whoever waits is in the queue or with the worker: nobody is forgotten   *)
(* between the two.                                                        *)
NobodyForgotten == \A r \in Requests : client[r] = "waiting" => Queued(r) \/ InHand(r)

(* The wait is bounded by the queue, and nobody is overtaken: no step of   *)
(* anybody else adds to it, and every step of the worker takes from it.    *)
WaitIsBounded ==
    \A r \in Requests : client[r] = "waiting" => StepsAhead(r) \in 0 .. 7 * QueueLimit + 5

NobodyOvertakes ==
    [][\A r \in Requests :
          client[r] = "waiting" /\ client'[r] = "waiting" =>
            /\ StepsAhead(r)' <= StepsAhead(r)
            /\ Work => StepsAhead(r)' < StepsAhead(r)]_sandboxVars

LEMMA StagesLeft == \A s \in Stages : StageLeft[s] \in 0..6 /\ (s # "idle" => StageLeft[s] > 0)
BY DEF StageLeft, Stages

(* The place is the one in the queue.                                      *)
LEMMA ThePlace ==
  ASSUME SandboxInductive, NEW i \in DOMAIN tail
  PROVE  /\ Queued(tail[i]) /\ PlaceOf(tail[i]) = i /\ i \in 1..Len(tail) /\ Len(tail) \in Nat
         /\ StepsAhead(tail[i]) = StageLeft[worker] + 7 * i
<1>1. \A j \in DOMAIN tail : tail[j] = tail[i] => j = i
  BY DEF SandboxInductive, QueueInductive, WaitingExact
<1>2. PlaceOf(tail[i]) = i
  BY <1>1 DEF PlaceOf
<1>3. DOMAIN tail = 1..Len(tail) /\ Len(tail) \in Nat
  BY DEF SandboxInductive, SandboxTypeOK
<1>4. Queued(tail[i])
  BY DEF Queued
<1> QED
  BY <1>2, <1>3, <1>4 DEF StepsAhead

(* Whoever is with the worker is not in the queue.                         *)
LEMMA InHandIsNotQueued ==
  ASSUME SandboxInductive, NEW r, InHand(r)
  PROVE  ~ Queued(r) /\ StepsAhead(r) = StageLeft["checking"]
<1>1. worker = "checking" /\ current[1] = r
  BY DEF InHand
<1>2. ~ Queued(r)
  BY <1>1 DEF Queued, SandboxInductive, QueueInductive, WaitingExact
<1>3. StageLeft[worker] \in Nat
  <2>1. worker \in Stages
    BY DEF SandboxInductive, SandboxTypeOK
  <2> QED
    BY <2>1, StagesLeft
<1> QED
  BY <1>1, <1>2, <1>3 DEF StepsAhead

(* What a step of the worker does to the queue.                            *)
Begins ==
    /\ worker = "idle" /\ worker' = "checking" /\ client' = client /\ tail # <<>>
    /\ current' = <<Head(tail)>> /\ tail' = Tail(tail)

GoesOn ==
    /\ tail' = tail
    /\ StageLeft[worker'] < StageLeft[worker]
    /\ \A r \in Requests : client'[r] = "waiting" => client[r] = "waiting" /\ ~ InHand(r)

LEMMA WorkMoves ==
  ASSUME SandboxInductive, Work
  PROVE  Begins \/ GoesOn
<1> USE DEF StageLeft, Stages, GoesOn, InHand
<1>1. CASE TakeUp
  BY <1>1 DEF TakeUp, Begins
<1>2. CASE TurnAway \/ OpenRun
  <2>1. /\ worker = "checking" /\ tail' = tail /\ worker' \in {"idle", "opened"}
        /\ client' = [client EXCEPT ![current[1]] = "refused"]
             \/ client' = [client EXCEPT ![current[1]] = "accepted"]
    BY <1>2 DEF TurnAway, OpenRun, Tell
  <2>2. \A r \in Requests : client'[r] = "waiting" => client[r] = "waiting" /\ current # <<r>>
    BY <2>1 DEF SandboxInductive, SandboxTypeOK
  <2> QED
    BY <2>1, <2>2
<1>3. CASE StartSchedule \/ ScheduleCreated \/ Paid
  BY <1>3 DEF StartSchedule, ScheduleCreated, Paid, SaveStep, Rest, CatchFrom
<1>4. CASE Pay
  BY <1>4 DEF Pay, Rest
<1>5. CASE VerdictArrives \/ StepFails
  BY <1>5 DEF VerdictArrives, StepFails, CatchFrom
<1> QED
  BY <1>1, <1>2, <1>3, <1>4, <1>5 DEF Work

(* What any other step does to it.                                         *)
Joins(q) ==
    /\ client[q] = "none" /\ client' = [client EXCEPT ![q] = "waiting"]
    /\ tail' = Append(tail, q) /\ UNCHANGED <<worker, current>>

LeavesQueue ==
    /\ UNCHANGED <<tail, worker, current>>
    /\ \A r \in Requests : client'[r] = "waiting" => client[r] = "waiting"

LEMMA OthersMove ==
  ASSUME SandboxInductive, [SandboxNext]_sandboxVars, ~ Work
  PROVE  \/ LeavesQueue
         \/ \E q \in Requests : Joins(q)
         \/ \A r \in Requests : client'[r] # "waiting"
<1> USE DEF LeavesQueue, memory
<1>1. ASSUME NEW r \in Requests, Refuse(r) PROVE LeavesQueue
  BY <1>1 DEF Refuse, Tell, SandboxInductive, SandboxTypeOK
<1>2. ASSUME NEW r \in Requests, Admit(r) PROVE Joins(r)
  BY <1>2 DEF Admit, Tell, Joins
<1>3. ASSUME NEW r \in Requests, Answer(r) PROVE LeavesQueue
  BY <1>3 DEF Answer, Tell, SandboxInductive, SandboxTypeOK
<1>4. ASSUME NEW a \in Addresses, BucketExpires(a) PROVE LeavesQueue
  BY <1>4 DEF BucketExpires
<1>5. CASE Crash
  BY <1>5 DEF Crash, SandboxInductive, SandboxTypeOK
<1>6. CASE StartUp \/ UNCHANGED sandboxVars
  BY <1>6 DEF StartUp, sandboxVars
<1>7. ASSUME NEW p \in Positions, ScheduleLands(p) \/ PaymentSettles(p) \/ GuardDecides(p)
      PROVE  LeavesQueue
  BY <1>7 DEF ScheduleLands, PaymentSettles, GuardDecides
<1> QED
  BY <1>1, <1>2, <1>3, <1>4, <1>5, <1>6, <1>7 DEF SandboxNext

(* The queue after somebody joined it, and after its head was taken up.    *)
LEMMA JoinedQueue ==
  ASSUME SandboxInductive, NEW q \in Requests, Joins(q)
  PROVE  /\ \A i \in DOMAIN tail : i \in DOMAIN tail' /\ tail'[i] = tail[i]
         /\ \E i \in DOMAIN tail' : tail'[i] = q
<1>1. tail \in Seq(Requests)
  BY DEF SandboxInductive, SandboxTypeOK
<1> QED
  BY <1>1, Appended DEF Joins

LEMMA ShorterQueue ==
  ASSUME SandboxInductive, Begins
  PROVE  /\ current' = <<tail[1]>> /\ 1 \in DOMAIN tail
         /\ \A i \in DOMAIN tail : i # 1 => i - 1 \in DOMAIN tail' /\ tail'[i - 1] = tail[i]
<1>1. tail \in Seq(Requests) /\ tail # <<>> /\ tail' = Tail(tail) /\ current' = <<Head(tail)>>
  BY DEF SandboxInductive, SandboxTypeOK, Begins
<1> QED
  BY <1>1

LEMMA NobodyForgottenHolds ==
  ASSUME SandboxInductive, NobodyForgotten, [SandboxNext]_sandboxVars
  PROVE  NobodyForgotten'
<1> SUFFICES ASSUME NEW r \in Requests, client'[r] = "waiting"
             PROVE  (Queued(r) \/ InHand(r))'
  BY DEF NobodyForgotten
<1>1. CASE LeavesQueue
  BY <1>1 DEF LeavesQueue, NobodyForgotten, Queued, InHand
<1>2. ASSUME NEW q \in Requests, Joins(q) PROVE (Queued(r) \/ InHand(r))'
  <2>1. CASE r = q
    BY <1>2, <2>1, JoinedQueue DEF Queued
  <2>2. CASE r # q
    <3>1. client[r] = "waiting" /\ UNCHANGED <<worker, current>>
      BY <1>2, <2>2 DEF Joins, SandboxInductive, SandboxTypeOK
    <3>2. Queued(r) => Queued(r)'
      BY <1>2, JoinedQueue DEF Queued
    <3> QED
      BY <3>1, <3>2 DEF NobodyForgotten, InHand
  <2> QED
    BY <2>1, <2>2
<1>3. CASE Begins
  <2>1. client[r] = "waiting" /\ ~ InHand(r)
    BY <1>3 DEF Begins, InHand
  <2>2. PICK i \in DOMAIN tail : tail[i] = r
    BY <2>1 DEF NobodyForgotten, Queued
  <2>3. i = 1 => InHand(r)'
    BY <1>3, <2>2, ShorterQueue DEF Begins, InHand
  <2>4. i # 1 => Queued(r)'
    BY <1>3, <2>2, ShorterQueue DEF Queued
  <2> QED
    BY <2>3, <2>4
<1>4. CASE GoesOn
  <2>1. Queued(r) /\ tail' = tail
    BY <1>4 DEF GoesOn, NobodyForgotten
  <2> QED
    BY <2>1 DEF Queued
<1> QED
  BY <1>1, <1>2, <1>3, <1>4, WorkMoves, OthersMove

(* What is found is the only one there is.                                 *)
LEMMA TheOnlyPlace ==
  ASSUME NEW q, NEW i \in DOMAIN q, \A j \in DOMAIN q : q[j] = q[i] => j = i
  PROVE  (CHOOSE j \in DOMAIN q : q[j] = q[i]) = i
  OBVIOUS

(* The sum after a step.                                                   *)
LEMMA StepsNext ==
  ASSUME NEW r
  PROVE  StepsAhead(r)' = StageLeft[worker'] + (IF Queued(r)' THEN 7 * PlaceOf(r)' ELSE 0)
  BY DEF StepsAhead, StageLeft

(* The place after a step.                                                 *)
LEMMA ThePlaceNext ==
  ASSUME SandboxInductive', NEW r, NEW i \in DOMAIN tail', tail'[i] = r
  PROVE  StepsAhead(r)' = StageLeft[worker'] + 7 * i
<1>1. \A j \in DOMAIN tail' : tail'[j] = tail'[i] => j = i
  BY DEF SandboxInductive, QueueInductive, WaitingExact
<1>2. (CHOOSE j \in DOMAIN tail' : tail'[j] = tail'[i]) = i
  BY <1>1, TheOnlyPlace
<1>3. PlaceOf(r)' = i
  BY <1>2 DEF PlaceOf
<1>4. Queued(r)'
  BY DEF Queued
<1> QED
  BY <1>3, <1>4, StepsNext

LEMMA WaitShrinks ==
  ASSUME SandboxInductive, NobodyForgotten, SandboxInductive', [SandboxNext]_sandboxVars,
         NEW r \in Requests, client[r] = "waiting", client'[r] = "waiting"
  PROVE  /\ StepsAhead(r)' <= StepsAhead(r)
         /\ Work => StepsAhead(r)' < StepsAhead(r)
<1>1. /\ StageLeft[worker] \in 0..6 /\ StageLeft[worker'] \in 0..6
      /\ StageLeft["checking"] = 6 /\ StageLeft["idle"] = 0
  <2>1. worker \in Stages /\ worker' \in Stages
    BY DEF SandboxInductive, SandboxTypeOK
  <2> QED
    BY <2>1, StagesLeft DEF StageLeft, Stages
<1>2. CASE ~ Work /\ UNCHANGED <<tail, worker>>
  <2>1. StepsAhead(r)' = StepsAhead(r) /\ StepsAhead(r) \in Nat
    <3>1. CASE Queued(r)
      <4>1. PICK i \in DOMAIN tail : tail[i] = r
        BY <3>1 DEF Queued
      <4>2. StepsAhead(r) = StageLeft[worker] + 7 * i /\ i \in Nat
        BY <4>1, ThePlace
      <4>3. StepsAhead(r)' = StageLeft[worker'] + 7 * i
        BY <1>2, <4>1, ThePlaceNext
      <4> QED
        BY <1>1, <1>2, <4>2, <4>3
    <3>2. CASE InHand(r)
      <4>1. ~ Queued(r) /\ ~ Queued(r)'
        BY <1>2, <3>2, InHandIsNotQueued DEF Queued
      <4> QED
        BY <1>1, <1>2, <4>1, StepsNext DEF StepsAhead
    <3> QED
      BY <3>1, <3>2 DEF NobodyForgotten
  <2> QED
    BY <1>2, <2>1
<1>3. ASSUME NEW q \in Requests, Joins(q), ~ Work
      PROVE  StepsAhead(r)' <= StepsAhead(r)
  <2>1. q # r /\ worker' = worker
    BY <1>3 DEF Joins
  <2>2. CASE Queued(r)
    <3>1. PICK i \in DOMAIN tail : tail[i] = r
      BY <2>2 DEF Queued
    <3>2. i \in DOMAIN tail' /\ tail'[i] = r
      BY <1>3, <3>1, JoinedQueue
    <3>3. StepsAhead(r) = StageLeft[worker] + 7 * i /\ i \in Nat
      BY <3>1, ThePlace
    <3>4. StepsAhead(r)' = StageLeft[worker'] + 7 * i
      BY <3>2, ThePlaceNext
    <3> QED
      BY <1>1, <2>1, <3>3, <3>4
  <2>3. CASE InHand(r)
    <3>1. ~ Queued(r) /\ StepsAhead(r) = 6
      BY <1>1, <2>3, InHandIsNotQueued
    <3>2. ~ Queued(r)'
      BY <1>3, <2>3 DEF Queued, InHand, Joins, SandboxInductive, QueueInductive, WaitingExact
    <3>3. StepsAhead(r)' = 6
      BY <1>1, <2>1, <2>3, <3>2, StepsNext DEF InHand
    <3> QED
      BY <3>1, <3>3
  <2> QED
    BY <2>2, <2>3 DEF NobodyForgotten
<1>4. CASE Begins
  <2>1. Queued(r) /\ worker = "idle" /\ worker' = "checking"
    BY <1>4 DEF Begins, NobodyForgotten, InHand
  <2>2. PICK i \in DOMAIN tail : tail[i] = r
    BY <2>1 DEF Queued
  <2>3. StepsAhead(r) = 7 * i /\ i \in Nat /\ i >= 1
    <3>1. StepsAhead(r) = StageLeft[worker] + 7 * i /\ i \in 1..Len(tail) /\ Len(tail) \in Nat
      BY <2>2, ThePlace
    <3> QED
      BY <1>1, <2>1, <3>1
  <2>4. CASE i = 1
    <3>1. InHand(r)'
      BY <1>4, <2>2, <2>4, ShorterQueue DEF Begins, InHand
    <3>2. ~ Queued(r)'
      BY <3>1 DEF Queued, InHand, SandboxInductive, QueueInductive, WaitingExact
    <3>3. StepsAhead(r)' = 6
      BY <1>1, <2>1, <3>2, StepsNext
    <3> QED
      BY <2>3, <2>4, <3>3
  <2>5. CASE i # 1
    <3>1. i - 1 \in DOMAIN tail' /\ tail'[i - 1] = r
      BY <1>4, <2>2, <2>5, ShorterQueue
    <3>2. StepsAhead(r)' = StageLeft[worker'] + 7 * (i - 1)
      BY <3>1, ThePlaceNext
    <3> QED
      BY <1>1, <2>1, <2>3, <3>2
  <2> QED
    BY <2>4, <2>5
<1>5. CASE GoesOn
  <2>1. Queued(r) /\ tail' = tail
    BY <1>5 DEF GoesOn, NobodyForgotten
  <2>2. PICK i \in DOMAIN tail : tail[i] = r
    BY <2>1 DEF Queued
  <2>3. StepsAhead(r) = StageLeft[worker] + 7 * i /\ i \in Nat
    BY <2>2, ThePlace
  <2>4. StepsAhead(r)' = StageLeft[worker'] + 7 * i
    BY <2>1, <2>2, ThePlaceNext
  <2>5. StageLeft[worker'] < StageLeft[worker]
    BY <1>5 DEF GoesOn
  <2> QED
    BY <1>1, <2>3, <2>4, <2>5
<1> QED
  BY <1>2, <1>3, <1>4, <1>5, WorkMoves, OthersMove DEF LeavesQueue

(* The last in a queue of n, the worker having s steps left.               *)
LEMMA LastInLine ==
  ASSUME NEW limit \in Nat, NEW n \in Nat, NEW i \in 1..n, NEW s \in 0..6,
         n <= limit, s = 6 => n + 1 <= limit
  PROVE  s + 7 * i \in 0 .. 7 * limit + 5
<1>1. CASE s = 6
  BY <1>1
<1>2. CASE s # 6
  BY <1>2
<1> QED
  BY <1>1, <1>2

LEMMA WaitBounded ==
  ASSUME SandboxInductive, NobodyForgotten
  PROVE  WaitIsBounded
<1> SUFFICES ASSUME NEW r \in Requests, client[r] = "waiting"
             PROVE  StepsAhead(r) \in 0 .. 7 * QueueLimit + 5
  BY DEF WaitIsBounded
<1>1. /\ worker \in Stages /\ QueueLimit \in Nat \ {0}
      /\ Len(tail) \in Nat /\ Len(tail) <= QueueLimit
      /\ worker = "checking" => Len(tail) + 1 <= QueueLimit
  BY SandboxConstants DEF SandboxInductive, SandboxTypeOK, QueueInductive, QueueExact
<1>2. /\ StageLeft[worker] \in 0..6 /\ StageLeft["checking"] = 6
      /\ worker # "checking" => StageLeft[worker] <= 5
  BY <1>1 DEF StageLeft, Stages
<1>3. CASE InHand(r)
  <2>1. StepsAhead(r) = 6
    BY <1>2, <1>3, InHandIsNotQueued
  <2> QED
    BY <1>1, <2>1
<1>4. CASE Queued(r)
  <2>1. PICK i \in DOMAIN tail : tail[i] = r
    BY <1>4 DEF Queued
  <2>2. StepsAhead(r) = StageLeft[worker] + 7 * i /\ i \in 1..Len(tail)
    BY <2>1, ThePlace
  <2>3. StageLeft[worker] = 6 => Len(tail) + 1 <= QueueLimit
    BY <1>1, <1>2
  <2> QED
    BY <1>1, <1>2, <2>2, <2>3, LastInLine
<1> QED
  BY <1>3, <1>4 DEF NobodyForgotten

(* Whoever waits is in the queue or with the worker, with a bounded number *)
(* of the worker's steps before its request is decided, which every step   *)
(* of the worker lessens and no step of anybody else adds to: the safety   *)
(* half of RequestsAreAnswered; what is left is to deliver the answer.     *)
THEOREM WaitsEndWithinBound ==
  SandboxSpec => []NobodyForgotten /\ []WaitIsBounded /\ NobodyOvertakes
<1>1. SandboxInit => NobodyForgotten
  BY DEF SandboxInit, NobodyForgotten
<1>2. SandboxInductive /\ NobodyForgotten /\ [SandboxNext]_sandboxVars => NobodyForgotten'
  BY NobodyForgottenHolds
<1>3. SandboxInductive /\ NobodyForgotten => WaitIsBounded
  BY WaitBounded
<1>4. SandboxInductive /\ NobodyForgotten /\ SandboxInductive' /\ [SandboxNext]_sandboxVars =>
        [\A r \in Requests :
          client[r] = "waiting" /\ client'[r] = "waiting" =>
            /\ StepsAhead(r)' <= StepsAhead(r)
            /\ Work => StepsAhead(r)' < StepsAhead(r)]_sandboxVars
  BY WaitShrinks
<1> QED
  BY <1>1, <1>2, <1>3, <1>4, SandboxInvariant, PTL DEF SandboxSpec, NobodyOvertakes

----------------------------------------------------------------------------
(* The controller.                                                         *)

(* What no step of the sandbox takes back: a record has its owner and its  *)
(* verdict for good, and new records come after all others.                *)
RecordsKept ==
    /\ \A p \in DOMAIN table :
        /\ p \in DOMAIN table'
        /\ table'[p].by = table[p].by
        /\ table[p].outcome \in {"approved", "refused"} => table'[p].outcome = table[p].outcome
    /\ \A q \in DOMAIN table' \ DOMAIN table : \A p \in DOMAIN table : p < q

WorldKept ==
    \A p \in Positions :
        /\ verdict[p] # "none" => verdict'[p] = verdict[p]
        /\ settled[p] > 0 => settled'[p] > 0
        /\ scheduled[p] > 0 => scheduled'[p] > 0

(* A step of the worker writes the record of the run at work, or none.     *)
LEMMA WorkKeepsRecords ==
  ASSUME SandboxInductive, AtWork, NEW new, new.by = runs[Position].by,
         UNCHANGED table \/ table' = [table EXCEPT ![Position] = new]
  PROVE  RecordsKept
<1>1. table[Position].outcome = "running" /\ table = runs
  BY TheRun DEF StageIs, StageRecord
<1> QED
  BY <1>1 DEF RecordsKept

(* The owner of a record is never altered.                                 *)
LEMMA SaveKeepsRecords ==
  ASSUME SandboxInductive, AtWork, NEW run \in Run, run.by = runs[Position].by,
         NEW stage, NEW f, SaveStep(run, stage) \/ CatchFrom(run, f)
  PROVE  RecordsKept
<1>1. Interrupted(run).by = run.by
  BY DEF Interrupted, Run
<1>2. \/ UNCHANGED table
      \/ table' = [table EXCEPT ![Position] = run]
      \/ table' = [table EXCEPT ![Position] = Interrupted(run)]
  BY DEF SaveStep, CatchFrom
<1> QED
  BY <1>1, <1>2, WorkKeepsRecords

LEMMA WorkerKeepsRecords ==
  ASSUME SandboxInductive,
         StartSchedule \/ ScheduleCreated \/ Pay \/ Paid \/ VerdictArrives \/ StepFails
  PROVE  RecordsKept
<1>1. AtWork
  BY DEF StartSchedule, ScheduleCreated, Pay, Paid, VerdictArrives, StepFails, AtWork
<1>2. runs[Position] \in Run
  BY <1>1, TheRun
<1>3. CASE StartSchedule
  <2>1. [runs[Position] EXCEPT !.schedule = "running"] \in Run
    BY <1>2 DEF Run, StepStates
  <2> QED
    BY <1>1, <1>2, <1>3, <2>1, SaveKeepsRecords DEF StartSchedule, Run
<1>4. CASE ScheduleCreated
  <2>1. [runs[Position] EXCEPT !.schedule = "done", !.payment = "running"] \in Run
    BY <1>2 DEF Run, StepStates
  <2> QED
    BY <1>1, <1>2, <1>4, <2>1, SaveKeepsRecords DEF ScheduleCreated, Run
<1>5. CASE Pay
  BY <1>5 DEF Pay, RecordsKept
<1>6. CASE Paid
  <2>1. [runs[Position] EXCEPT !.payment = "done", !.verdict = "running"] \in Run
    BY <1>2 DEF Run, StepStates
  <2> QED
    BY <1>1, <1>2, <1>6, <2>1, SaveKeepsRecords DEF Paid, Run
<1>7. CASE VerdictArrives
  <2> DEFINE run == Finished(runs[Position], verdict[Position])
  <2>1. run \in Run /\ run.by = runs[Position].by
    <3>1. verdict[Position] \in {"approved", "refused"}
      BY <1>1, <1>7, TheRun DEF VerdictArrives, SandboxInductive, SandboxTypeOK
    <3> QED
      BY <1>2, <3>1 DEF Finished, Run, StepStates
  <2>2. CatchFrom(run, TRUE) \/ table' = [table EXCEPT ![Position] = run]
    BY <1>7 DEF VerdictArrives
  <2> HIDE DEF run
  <2> QED
    BY <1>1, <2>1, <2>2, SaveKeepsRecords, WorkKeepsRecords
<1>8. CASE StepFails
  BY <1>1, <1>2, <1>8, SaveKeepsRecords DEF StepFails
<1> QED
  BY <1>3, <1>4, <1>5, <1>6, <1>7, <1>8

LEMMA SandboxKeepsRecords ==
  ASSUME SandboxInductive, SandboxNext
  PROVE  RecordsKept
<1>0. Len(table) \in Nat /\ DOMAIN table = 1..Len(table) /\ \A p \in DOMAIN table : table[p] \in Run
  <2>1. table \in Seq(Run)
    BY DEF SandboxInductive, SandboxTypeOK
  <2> HIDE DEF Run
  <2> QED
    BY <2>1
<1>1. CASE UNCHANGED table
  BY <1>1 DEF RecordsKept
<1>2. CASE OpenRun
  <2>1. table' = Append(table, NewRun(current[1]))
    BY <1>2 DEF OpenRun
  <2>2. /\ DOMAIN table' = DOMAIN table \cup {Len(table) + 1}
        /\ \A p \in DOMAIN table : table'[p] = table[p]
    <3>1. table \in Seq(Run)
      BY DEF SandboxInductive, SandboxTypeOK
    <3> HIDE DEF Run
    <3> QED
      BY <2>1, <3>1
  <2> QED
    BY <1>0, <2>2 DEF RecordsKept
<1>3. CASE StartUp
  <2>1. table' = [p \in DOMAIN table |-> EndRun(table[p])]
    BY <1>3 DEF StartUp
  <2>2. \A run \in Run : EndRun(run).by = run.by
                         /\ (run.outcome # "running" => EndRun(run) = run)
    BY DEF EndRun, Interrupted, Run
  <2> QED
    BY <1>0, <2>1, <2>2 DEF RecordsKept
<1>4. CASE StartSchedule \/ ScheduleCreated \/ Pay \/ Paid \/ VerdictArrives \/ StepFails
  BY <1>4, WorkerKeepsRecords
<1>5. \/ UNCHANGED table \/ OpenRun \/ StartUp
      \/ StartSchedule \/ ScheduleCreated \/ Pay \/ Paid \/ VerdictArrives \/ StepFails
  BY DEF SandboxNext, Work, Refuse, Admit, Answer, BucketExpires, TakeUp, TurnAway, Crash,
     ScheduleLands, PaymentSettles, GuardDecides
<1> QED
  BY <1>1, <1>2, <1>3, <1>4, <1>5

LEMMA SandboxKeepsWorld ==
  ASSUME SandboxInductive, SandboxNext
  PROVE  WorldKept
<1>1. /\ scheduled \in [Positions -> Nat] /\ settled \in [Positions -> Nat]
      /\ verdict \in [Positions -> {"none", "approved", "refused"}]
  BY DEF SandboxInductive, SandboxTypeOK
<1>2. CASE UNCHANGED <<scheduled, settled, verdict>>
  BY <1>2 DEF WorldKept
<1>3. CASE \E p \in Positions : ScheduleLands(p)
  BY <1>1, <1>3 DEF WorldKept, ScheduleLands
<1>4. CASE \E p \in Positions : PaymentSettles(p)
  BY <1>1, <1>4 DEF WorldKept, PaymentSettles
<1>5. CASE \E p \in Positions : GuardDecides(p)
  BY <1>1, <1>5 DEF WorldKept, GuardDecides
<1>6. \/ UNCHANGED <<scheduled, settled, verdict>>
      \/ \E p \in Positions : ScheduleLands(p) \/ PaymentSettles(p) \/ GuardDecides(p)
  BY DEF SandboxNext, Work, Refuse, Admit, Answer, BucketExpires, TakeUp, TurnAway, OpenRun,
     Crash, StartUp, StartSchedule, ScheduleCreated, Pay, Paid, VerdictArrives, StepFails, world
<1> QED
  BY <1>2, <1>3, <1>4, <1>5, <1>6

----------------------------------------------------------------------------
(* What the controller knows of an occurrence is so, and is not taken back.*)
OccurrenceIsTrue(it, k) ==
    /\ it.run # 0 => it.run \in Ours(k)
    /\ it.nonce # 0 => it.nonce = it.run
    /\ it.outcome \in {"approved", "refused"} =>
        /\ it.nonce # 0
        /\ table[it.nonce].outcome = it.outcome /\ verdict[it.nonce] = it.outcome
        /\ settled[it.nonce] > 0 /\ scheduled[it.nonce] > 0
    /\ it.hcsVerdict # "none" => it.nonce # 0 /\ it.hcsVerdict = verdict[it.nonce]

(* Where it stands: it goes on only after an approval, to an occurrence    *)
(* whose post has not left it.                                             *)
TurnInductive ==
    /\ Current <= Len(Posts)
    /\ phase = "sleeping" => Current < Len(Posts)
    /\ phase \in {"posting", "polling", "verifying"} => Current > 0
    /\ phase = "posting" => results[Current] = Started
    /\ phase = "polling" => results[Current].run # 0
    /\ phase = "verifying" => results[Current].outcome \in {"approved", "refused"}
    /\ \A k \in DOMAIN Posts : k > Current => client[Posts[k]] = "none"
    /\ \A j \in DOMAIN results :
        j < Current \/ phase = "sleeping" => results[j].outcome = "approved"
    /\ \A k \in DOMAIN results : \A j \in 1 .. k - 1 : \A q \in Ours(k) :
        results[j].nonce < q

RecurringInductive ==
    /\ SandboxInductive
    /\ results \in Seq(Occurrence) /\ previousNonce \in Nat
    /\ phase \in {"sleeping", "posting", "polling", "verifying", "ended"}
    /\ \A k \in DOMAIN results : OccurrenceIsTrue(results[k], k)
    /\ TurnInductive

(* The sizes of things, and the records of an occurrence.                  *)
LEMMA RecurringSizes ==
  ASSUME RecurringInductive
  PROVE  /\ Current \in Nat /\ DOMAIN results = 1..Current
         /\ Len(Posts) \in Nat /\ DOMAIN Posts = 1..Len(Posts)
         /\ \A k \in DOMAIN results : results[k] \in Occurrence /\ k \in DOMAIN Posts
         /\ \A k \in DOMAIN Posts : Posts[k] \in Requests
         /\ Len(table) \in Nat /\ DOMAIN table = 1..Len(table) /\ Len(table) <= Envelopes
         /\ DOMAIN table \subseteq Positions
<1>1. /\ results \in Seq(Occurrence) /\ Posts \in Seq(Requests) /\ table \in Seq(Run)
      /\ Current <= Len(Posts) /\ Len(table) <= Envelopes
  BY RecurringConstants
     DEF RecurringInductive, TurnInductive, SandboxInductive, SandboxTypeOK, RunsInductive
<1>2. /\ Current \in Nat /\ DOMAIN results = 1..Current
      /\ Len(Posts) \in Nat /\ DOMAIN Posts = 1..Len(Posts)
      /\ \A k \in DOMAIN results : results[k] \in Occurrence
      /\ \A k \in DOMAIN Posts : Posts[k] \in Requests
      /\ Len(table) \in Nat /\ DOMAIN table = 1..Len(table)
  <2> HIDE DEF Occurrence, Run
  <2> QED
    BY <1>1 DEF Current
<1> QED
  BY <1>1, <1>2, SandboxConstants DEF Positions

LEMMA RecurringStarts == RecurringInit => RecurringInductive
<1> SUFFICES ASSUME RecurringInit PROVE RecurringInductive
  OBVIOUS
<1>1. SandboxInductive
  BY SandboxStarts DEF RecurringInit
<1>2. phase = "sleeping" /\ results = <<>> /\ previousNonce = 0
  BY DEF RecurringInit
<1>3. TurnInductive
  <2>1. Posts \in Seq(Requests) /\ Len(Posts) > 0 /\ Len(Posts) \in Nat
        /\ DOMAIN Posts = 1..Len(Posts)
    BY RecurringConstants
  <2>2. \A k \in DOMAIN Posts : client[Posts[k]] = "none"
    BY <2>1 DEF RecurringInit, SandboxInit
  <2> QED
    BY <1>2, <2>1, <2>2 DEF TurnInductive, Current
<1> QED
  BY <1>1, <1>2, <1>3 DEF RecurringInductive

(* The sandbox and the world leave what is known of an occurrence true.    *)
LEMMA OccurrenceKept ==
  ASSUME RecurringInductive, RecordsKept, WorldKept,
         NEW k \in DOMAIN Posts, NEW it \in Occurrence, OccurrenceIsTrue(it, k)
  PROVE  OccurrenceIsTrue(it, k)'
<1>1. it.run # 0 => it.run \in DOMAIN table /\ it.run \in Ours(k)' /\ it.run \in Positions
  BY RecurringSizes DEF OccurrenceIsTrue, Ours, RecordsKept
<1>2. it.nonce # 0 => it.nonce = it.run
  BY DEF OccurrenceIsTrue
<1> QED
  BY <1>1, <1>2 DEF OccurrenceIsTrue, RecordsKept, WorldKept, Occurrence

LEMMA SandboxStepKeeps ==
  ASSUME RecurringInductive, SandboxStep
  PROVE  RecurringInductive'
<1>1. /\ SandboxInductive /\ SandboxNext /\ UNCHANGED <<phase, results, previousNonce>>
      /\ RecordsKept /\ WorldKept
  BY SandboxKeepsRecords, SandboxKeepsWorld DEF SandboxStep, controller, RecurringInductive
<1>2. SandboxInductive'
  BY <1>1, SandboxSteps
<1>3. \A k \in DOMAIN results : OccurrenceIsTrue(results[k], k)'
  <2> TAKE k \in DOMAIN results
  <2> DEFINE it == results[k]
  <2>1. it \in Occurrence /\ k \in DOMAIN Posts /\ OccurrenceIsTrue(it, k)
    BY RecurringSizes DEF RecurringInductive
  <2>2. it' = it
    BY <1>1
  <2>3. \A o \in Occurrence : OccurrenceIsTrue(o, k) => OccurrenceIsTrue(o, k)'
    BY <1>1, <2>1, OccurrenceKept
  <2> QED
    BY <1>1, <2>1, <2>2, <2>3 DEF OccurrenceIsTrue
<1>4. \A k \in DOMAIN Posts : k > Current => client'[Posts[k]] = "none"
  <2>1. \A k \in DOMAIN Posts : k > Current => k \notin DOMAIN results
    BY RecurringSizes
  <2> QED
    BY <2>1 DEF SandboxStep, RecurringInductive, TurnInductive
<1>5. \A k \in DOMAIN results : \A j \in 1 .. k - 1 : \A q \in Ours(k)' :
        results[j].nonce < q
  <2> SUFFICES ASSUME NEW k \in DOMAIN results, NEW j \in 1 .. k - 1, NEW q \in Ours(k)'
               PROVE  results[j].nonce < q
    OBVIOUS
  <2>1. j \in DOMAIN results /\ j < Current /\ results[j] \in Occurrence
    BY RecurringSizes
  <2>2. results[j].nonce \in DOMAIN table
    BY <2>1 DEF RecurringInductive, TurnInductive, OccurrenceIsTrue, Ours
  <2>3. q \in DOMAIN table' /\ table'[q].by = Posts[k]
    BY DEF Ours
  <2>4. CASE q \in DOMAIN table
    <3>1. q \in Ours(k)
      BY <1>1, <2>3, <2>4 DEF Ours, RecordsKept
    <3> QED
      BY <3>1 DEF RecurringInductive, TurnInductive
  <2>5. CASE q \notin DOMAIN table
    BY <1>1, <2>2, <2>3, <2>5 DEF RecordsKept
  <2> QED
    BY <2>4, <2>5
<1>6. TurnInductive'
  BY <1>1, <1>4, <1>5 DEF RecurringInductive, TurnInductive, Current
<1> QED
  BY <1>1, <1>2, <1>3, <1>6 DEF RecurringInductive

(* The controller writes the record of its occurrence and touches nothing  *)
(* of the sandbox.                                                         *)
LEMMA RecordKeeps ==
  ASSUME RecurringInductive, UNCHANGED sandboxVars, Current > 0, NEW o \in Occurrence,
         OccurrenceIsTrue(o, Current), Record(o)
  PROVE  /\ SandboxInductive'
         /\ results' \in Seq(Occurrence) /\ Current' = Current
         /\ DOMAIN results' = DOMAIN results /\ results'[Current] = o
         /\ \A j \in DOMAIN results : j < Current => results'[j].outcome = "approved"
         /\ (\A k \in DOMAIN results : OccurrenceIsTrue(results[k], k))'
         /\ \A k \in DOMAIN Posts : k > Current => client'[Posts[k]] = "none"
         /\ \A k \in DOMAIN results : \A j \in 1 .. k - 1 : \A q \in Ours(k)' :
                results'[j].nonce < q
<1>1. SandboxInductive'
  BY SandboxStutters DEF RecurringInductive
<1>2. /\ results' \in Seq(Occurrence) /\ Len(results') = Len(results)
      /\ DOMAIN results' = DOMAIN results /\ results'[Current] = o
      /\ \A j \in DOMAIN results : j # Current => results'[j] = results[j]
  <2>1. results \in Seq(Occurrence) /\ Current \in 1..Len(results)
        /\ results' = [results EXCEPT ![Current] = o]
    BY RecurringSizes DEF RecurringInductive, Record, Current
  <2> HIDE DEF Occurrence
  <2> QED
    BY <2>1, Written
<1>3. \A j \in DOMAIN results : j < Current => results'[j].outcome = "approved"
  <2> SUFFICES ASSUME NEW j \in DOMAIN results, j < Current
               PROVE  results'[j].outcome = "approved"
    OBVIOUS
  <2>1. j # Current
    BY RecurringSizes
  <2>2. results[j].outcome = "approved"
    BY DEF RecurringInductive, TurnInductive
  <2> QED
    BY <1>2, <2>1, <2>2
<1>4. (\A k \in DOMAIN results : OccurrenceIsTrue(results[k], k))'
  <2> SUFFICES ASSUME NEW k \in DOMAIN results' PROVE OccurrenceIsTrue(results[k], k)'
    OBVIOUS
  <2>1. PICK it : it = results'[k]
    OBVIOUS
  <2>2. OccurrenceIsTrue(it, k)
    BY <1>2, <2>1 DEF RecurringInductive
  <2> QED
    BY <2>1, <2>2 DEF OccurrenceIsTrue, Ours, sandboxVars, world
<1>5. \A k \in DOMAIN Posts : k > Current => client'[Posts[k]] = "none"
  BY DEF RecurringInductive, TurnInductive, sandboxVars
<1>6. \A k \in DOMAIN results : \A j \in 1 .. k - 1 : \A q \in Ours(k)' :
        results'[j].nonce < q
  <2> SUFFICES ASSUME NEW k \in DOMAIN results, NEW j \in 1 .. k - 1, NEW q \in Ours(k)'
               PROVE  results'[j].nonce < q
    OBVIOUS
  <2>1. j \in DOMAIN results /\ j # Current
    BY RecurringSizes
  <2>2. q \in Ours(k)
    BY DEF Ours, sandboxVars
  <2> QED
    BY <1>2, <2>1, <2>2 DEF RecurringInductive, TurnInductive
<1> QED
  BY <1>1, <1>2, <1>3, <1>4, <1>5, <1>6 DEF Current

(* A record alone, and no end in sight: nothing else has to be shown.      *)
LEMMA RecordSuffices ==
  ASSUME RecurringInductive, UNCHANGED sandboxVars, Current > 0, NEW o \in Occurrence,
         OccurrenceIsTrue(o, Current), Record(o),
         previousNonce' \in Nat,
         phase' \in {"sleeping", "polling", "verifying", "ended"},
         phase' = "sleeping" => Current < Len(Posts) /\ o.outcome = "approved",
         phase' = "polling" => o.run # 0,
         phase' = "verifying" => o.outcome \in {"approved", "refused"}
  PROVE  RecurringInductive'
<1>1. TurnInductive'
  <2>1. Current' <= Len(Posts)
    BY RecordKeeps DEF RecurringInductive, TurnInductive
  <2>2. \A j \in DOMAIN results' :
          j < Current' \/ phase' = "sleeping" => results'[j].outcome = "approved"
    BY RecordKeeps, RecurringSizes
  <2> QED
    BY <2>1, <2>2, RecordKeeps DEF TurnInductive
<1> QED
  BY <1>1, RecordKeeps DEF RecurringInductive

(* What the occurrence at hand is.                                         *)
LEMMA TheOccurrence ==
  ASSUME RecurringInductive, Current > 0
  PROVE  /\ Current \in DOMAIN results /\ Current \in DOMAIN Posts
         /\ results[Current] \in Occurrence /\ OccurrenceIsTrue(results[Current], Current)
BY RecurringSizes DEF RecurringInductive

LEMMA AdmittedKeeps ==
  ASSUME RecurringInductive, Admitted
  PROVE  RecurringInductive'
<1>1. PICK p \in DOMAIN table :
        /\ table[p].by = Posts[Current]
        /\ Record([results[Current] EXCEPT !.run = p])
  BY DEF Admitted
<1> DEFINE o == [results[Current] EXCEPT !.run = p]
<1>2. Current > 0 /\ phase = "posting" /\ phase' = "polling" /\ UNCHANGED <<sandboxVars, previousNonce>>
  BY DEF Admitted, RecurringInductive, TurnInductive
<1>3. p \in Ours(Current) /\ p \in Positions /\ p # 0
  BY <1>1, RecurringSizes DEF Ours, Positions
<1>4. o \in Occurrence /\ o.run = p /\ o.nonce = results[Current].nonce
      /\ o.outcome = results[Current].outcome /\ o.hcsVerdict = results[Current].hcsVerdict
  BY <1>2, <1>3, TheOccurrence DEF Occurrence
<1>5. OccurrenceIsTrue(o, Current)
  BY <1>2, <1>3, <1>4 DEF RecurringInductive, TurnInductive, OccurrenceIsTrue, Started
<1>6. Record(o) /\ previousNonce' \in Nat
  BY <1>1, <1>2 DEF RecurringInductive
<1> HIDE DEF o
<1> QED
  BY <1>2, <1>3, <1>4, <1>5, <1>6, RecordSuffices

LEMMA ObserveKeeps ==
  ASSUME RecurringInductive, Observe
  PROVE  RecurringInductive'
<1> DEFINE it == results[Current]
           p == it.run
           o == [it EXCEPT !.nonce = p, !.outcome = runs[p].outcome]
<1>1. /\ Current > 0 /\ phase = "polling" /\ UNCHANGED <<sandboxVars, previousNonce>>
      /\ up /\ p \in DOMAIN runs /\ Record(o)
  BY DEF Observe, RecurringInductive, TurnInductive
<1>2. \/ runs[p].outcome = "running" /\ phase' = "polling"
      \/ runs[p].outcome = "failed" /\ phase' = "ended"
      \/ runs[p].outcome \in {"approved", "refused"} /\ Evidenced(runs[p])
         /\ phase' = "verifying"
  BY DEF Observe, RecurringInductive, TurnInductive
<1>3. /\ p \in DOMAIN table /\ p \in Ours(Current) /\ p # 0 /\ p \in Positions
      /\ runs[p] \in Run
      /\ runs[p].outcome \in {"approved", "refused"} => table[p] = runs[p]
  <2>1. p # 0
    BY <1>1 DEF RecurringInductive, TurnInductive
  <2>2. p \in Ours(Current)
    BY <1>1, <2>1, TheOccurrence DEF OccurrenceIsTrue
  <2>3. p \in DOMAIN table /\ p \in Positions
    BY <2>2, RecurringSizes DEF Ours
  <2>4. runs \in Seq(Run)
    BY DEF RecurringInductive, SandboxInductive, SandboxTypeOK
  <2>5. runs[p] \in Run
    <3> HIDE DEF Run, p
    <3> QED
      BY <1>1, <2>4
  <2> QED
    BY <1>1, <2>1, <2>2, <2>3, <2>5 DEF RecurringInductive, SandboxInductive, RunsInductive
<1>4. /\ o \in Occurrence /\ o.run = p /\ o.nonce = p /\ o.outcome = runs[p].outcome
      /\ o.hcsVerdict = it.hcsVerdict
  BY <1>1, <1>3, TheOccurrence DEF Occurrence, Run
<1>5. OccurrenceIsTrue(o, Current)
  <2>1. runs[p].outcome \in {"approved", "refused"} =>
          /\ table[p].outcome = runs[p].outcome /\ verdict[p] = runs[p].outcome
          /\ settled[p] > 0 /\ scheduled[p] > 0
    <3>1. RunIsTrue(table[p], p)
      BY <1>3 DEF RecurringInductive, SandboxInductive, RunsInductive
    <3> QED
      BY <1>2, <1>3, <3>1 DEF Evidenced, RunIsTrue, TrueRecord
  <2>2. it.hcsVerdict # "none" => it.hcsVerdict = verdict[p]
    BY <1>1, TheOccurrence DEF OccurrenceIsTrue
  <2> HIDE DEF o, p, it
  <2> QED
    BY <1>3, <1>4, <2>1, <2>2 DEF OccurrenceIsTrue
<1>6. previousNonce' \in Nat
  BY <1>1 DEF RecurringInductive
<1> HIDE DEF o, p, it
<1> QED
  BY <1>1, <1>2, <1>3, <1>4, <1>5, <1>6, RecordSuffices

LEMMA VerifiedKeeps ==
  ASSUME RecurringInductive, Verified
  PROVE  RecurringInductive'
<1> DEFINE it == results[Current]
           o == [it EXCEPT !.hcsVerdict = verdict[it.run]]
<1>1. /\ Current > 0 /\ phase = "verifying" /\ UNCHANGED sandboxVars
      /\ verdict[it.run] = it.outcome /\ Record(o)
      /\ it.outcome \in {"approved", "refused"}
  BY DEF Verified, RecurringInductive, TurnInductive
<1>2. it \in Occurrence /\ OccurrenceIsTrue(it, Current)
  BY <1>1, TheOccurrence
<1>3. /\ previousNonce' \in Nat /\ phase' \in {"sleeping", "ended"}
      /\ phase' = "sleeping" => Current < Len(Posts) /\ it.outcome = "approved"
  <2>1. it.nonce \in Nat
    BY <1>2, SandboxConstants DEF Occurrence, Positions
  <2>2. CASE it.outcome = "approved"
    BY <2>1, <2>2 DEF Verified
  <2>3. CASE it.outcome # "approved"
    BY <2>3 DEF Verified, RecurringInductive
  <2> QED
    BY <2>2, <2>3
<1>4. /\ o \in Occurrence /\ o.run = it.run /\ o.nonce = it.nonce /\ o.outcome = it.outcome
      /\ o.hcsVerdict = verdict[it.run]
  BY <1>1, <1>2 DEF Occurrence
<1>5. OccurrenceIsTrue(o, Current)
  BY <1>1, <1>2, <1>4 DEF OccurrenceIsTrue
<1> HIDE DEF o, it
<1> QED
  BY <1>1, <1>3, <1>4, <1>5, RecordSuffices

LEMMA FailKeeps ==
  ASSUME RecurringInductive, Fail
  PROVE  RecurringInductive'
<1> DEFINE it == results[Current]
           o == [it EXCEPT !.outcome = "failed"]
<1>1. /\ Current > 0 /\ UNCHANGED <<sandboxVars, previousNonce>>
      /\ Record(o) /\ phase' = "ended"
  BY DEF Fail, RecurringInductive, TurnInductive
<1>2. it \in Occurrence /\ OccurrenceIsTrue(it, Current)
  BY <1>1, TheOccurrence
<1>3. /\ o \in Occurrence /\ o.run = it.run /\ o.nonce = it.nonce /\ o.outcome = "failed"
      /\ o.hcsVerdict = it.hcsVerdict
  BY <1>2 DEF Occurrence
<1>4. OccurrenceIsTrue(o, Current)
  BY <1>2, <1>3 DEF OccurrenceIsTrue
<1>5. previousNonce' \in Nat
  BY <1>1 DEF RecurringInductive
<1> HIDE DEF o, it
<1> QED
  BY <1>1, <1>3, <1>4, <1>5, RecordSuffices

LEMMA BeginKeeps ==
  ASSUME RecurringInductive, Begin
  PROVE  RecurringInductive'
<1>1. /\ results' = Append(results, Started) /\ phase = "sleeping" /\ phase' = "posting"
      /\ UNCHANGED <<sandboxVars, previousNonce>>
      /\ Current < Len(Posts)
  BY DEF Begin, RecurringInductive, TurnInductive
<1>2. SandboxInductive'
  BY <1>1, SandboxStutters DEF RecurringInductive
<1>3. /\ results' \in Seq(Occurrence) /\ Len(results') = Current + 1
      /\ DOMAIN results' = DOMAIN results \cup {Current + 1}
      /\ results'[Current + 1] = Started
      /\ \A j \in DOMAIN results : results'[j] = results[j]
  <2>1. Started \in Occurrence
    BY DEF Started, Occurrence
  <2>2. results \in Seq(Occurrence)
    BY DEF RecurringInductive
  <2> HIDE DEF Started, Occurrence
  <2> QED
    BY <1>1, <2>1, <2>2, Appended DEF Current
<1>4. Ours(Current + 1) = {}
  <2>1. Current + 1 \in DOMAIN Posts /\ Posts[Current + 1] \in Requests
    BY <1>1, RecurringSizes
  <2>2. client[Posts[Current + 1]] = "none"
    BY <2>1, RecurringSizes DEF RecurringInductive, TurnInductive
  <2> QED
    BY <2>1, <2>2 DEF RecurringInductive, SandboxInductive, SpentInductive, Ours
<1>5. (\A k \in DOMAIN results : OccurrenceIsTrue(results[k], k))'
  <2>1. \A k : \A it : OccurrenceIsTrue(it, k) => OccurrenceIsTrue(it, k)'
    BY <1>1 DEF OccurrenceIsTrue, Ours, sandboxVars, world
  <2>2. \A k : OccurrenceIsTrue(Started, k)
    BY DEF OccurrenceIsTrue, Started
  <2>3. \A k \in DOMAIN results' :
          OccurrenceIsTrue(IF k = Current + 1 THEN Started ELSE results[k], k)
    BY <1>3, <2>2 DEF RecurringInductive
  <2>4. \A k \in DOMAIN results' :
          results'[k] = IF k = Current + 1 THEN Started ELSE results[k]
    BY <1>3, RecurringSizes
  <2> QED
    BY <2>1, <2>3, <2>4 DEF OccurrenceIsTrue
<1>6. TurnInductive'
  <2>1. Current' = Current + 1 /\ Current \in Nat /\ Current + 1 <= Len(Posts)
    BY <1>1, <1>3, RecurringSizes DEF Current
  <2>2. \A k \in DOMAIN Posts : k > Current + 1 => client'[Posts[k]] = "none"
    BY <1>1, <2>1, RecurringSizes DEF RecurringInductive, TurnInductive, sandboxVars
  <2>3. \A j \in DOMAIN results' : j < Current + 1 => results'[j].outcome = "approved"
    BY <1>1, <1>3, <2>1, RecurringSizes DEF RecurringInductive, TurnInductive
  <2>4. \A k \in DOMAIN results' : \A j \in 1 .. k - 1 : \A q \in Ours(k)' :
          results'[j].nonce < q
    <3> SUFFICES ASSUME NEW k \in DOMAIN results', NEW j \in 1 .. k - 1, NEW q \in Ours(k)'
                 PROVE  results'[j].nonce < q
      OBVIOUS
    <3>1. q \in Ours(k)
      BY <1>1 DEF Ours, sandboxVars
    <3>2. k \in DOMAIN results
      BY <1>3, <1>4, <3>1
    <3>3. j \in DOMAIN results
      BY <3>2, RecurringSizes
    <3> QED
      BY <1>3, <3>1, <3>2, <3>3 DEF RecurringInductive, TurnInductive
  <2> QED
    BY <1>1, <1>3, <2>1, <2>2, <2>3, <2>4 DEF TurnInductive
<1> QED
  BY <1>1, <1>2, <1>3, <1>5, <1>6 DEF RecurringInductive

(* Waiting, dying and doing nothing.                                       *)
LEMMA NothingKeeps ==
  ASSUME RecurringInductive, NotIndexed \/ Die \/ UNCHANGED recurringVars
  PROVE  RecurringInductive'
<1>1. /\ UNCHANGED <<sandboxVars, results, previousNonce>>
      /\ phase' \in {phase, "ended"}
  BY DEF NotIndexed, Die, recurringVars, controller
<1>2. SandboxInductive'
  BY <1>1, SandboxStutters DEF RecurringInductive
<1>3. (\A k \in DOMAIN results : OccurrenceIsTrue(results[k], k))'
  BY <1>1 DEF RecurringInductive, OccurrenceIsTrue, Ours, sandboxVars, world
<1>4. TurnInductive'
  BY <1>1 DEF RecurringInductive, TurnInductive, Ours, Current, sandboxVars
<1> QED
  BY <1>1, <1>2, <1>3, <1>4 DEF RecurringInductive

----------------------------------------------------------------------------
(* The invariant of the controller over the sandbox.                       *)
THEOREM RecurringInvariant == RecurringSpec => []RecurringInductive
<1>1. RecurringInit => RecurringInductive
  BY RecurringStarts
<1>2. RecurringInductive /\ [RecurringNext]_recurringVars => RecurringInductive'
  BY BeginKeeps, AdmittedKeeps, ObserveKeeps, VerifiedKeeps, FailKeeps, NothingKeeps,
     SandboxStepKeeps DEF RecurringNext, Control
<1> QED
  BY <1>1, <1>2, PTL DEF RecurringSpec

(* The sandbox is not altered by having a controller among its visitors.   *)
THEOREM ControllerUsesSandbox == RecurringSpec => SandboxSpec
<1>1. RecurringInit => SandboxInit
  BY DEF RecurringInit
<1>2. [RecurringNext]_recurringVars => [SandboxNext]_sandboxVars
  BY DEF RecurringNext, Control, Begin, Admitted, Observe, NotIndexed, Verified, Fail, Die,
     SandboxStep, recurringVars
<1> QED
  BY <1>1, <1>2, PTL DEF RecurringSpec, SandboxSpec

(* What the journal says of an occurrence happened to the envelope that    *)
(* was spent for it.                                                       *)
THEOREM JournalHolds == RecurringSpec => []JournalIsTrue
<1>1. RecurringInductive => JournalIsTrue
  <2> SUFFICES ASSUME RecurringInductive, NEW k \in DOMAIN results
               PROVE  /\ results[k].nonce # 0 => results[k].nonce \in Ours(k)
                      /\ results[k].outcome \in {"approved", "refused"} =>
                          /\ verdict[results[k].nonce] = results[k].outcome
                          /\ settled[results[k].nonce] > 0 /\ scheduled[results[k].nonce] > 0
                      /\ results[k].hcsVerdict # "none" =>
                          results[k].hcsVerdict = verdict[results[k].nonce]
    BY DEF JournalIsTrue
  <2> QED
    BY DEF RecurringInductive, OccurrenceIsTrue
<1> QED
  BY <1>1, RecurringInvariant, PTL

(* An envelope is spent for an occurrence only after every earlier one was *)
(* spent and approved.                                                     *)
THEOREM OccurrencesInTurn == RecurringSpec => []InTurn
<1>1. RecurringInductive => InTurn
  <2> SUFFICES ASSUME RecurringInductive, NEW k \in DOMAIN Posts, Ours(k) # {},
                      NEW j \in 1 .. k - 1
               PROVE  \E p \in Ours(j) :
                        /\ verdict[p] = "approved" /\ table[p].outcome = "approved"
                        /\ \A q \in Ours(k) : p < q
    BY DEF InTurn
  <2>1. client[Posts[k]] \in {"accepted", "admitted", "lost"}
    BY RecurringSizes DEF RecurringInductive, SandboxInductive, SpentInductive, Ours
  <2>2. k \in DOMAIN results /\ j \in DOMAIN results /\ j < Current
    BY <2>1, RecurringSizes DEF RecurringInductive, TurnInductive
  <2>3. results[j].outcome = "approved" /\ OccurrenceIsTrue(results[j], j)
    BY <2>2 DEF RecurringInductive, TurnInductive
  <2>4. /\ results[j].nonce \in Ours(j)
        /\ verdict[results[j].nonce] = "approved" /\ table[results[j].nonce].outcome = "approved"
    BY <2>3 DEF OccurrenceIsTrue
  <2>5. \A q \in Ours(k) : results[j].nonce < q
    BY <2>2 DEF RecurringInductive, TurnInductive
  <2> QED
    BY <2>4, <2>5
<1> QED
  BY <1>1, RecurringInvariant, PTL
----------------------------------------------------------------------------
(* The end of the controller.                                              *)

(* How many steps of its own the controller has left at most: in its phase *)
(* and in all.                                                             *)
PhaseLeft ==
    CASE phase = "posting" -> 2 * Looks + 4
      [] phase = "polling" -> 2 * Looks + 3 - looks
      [] phase = "verifying" -> Looks + 1 - looks
      [] OTHER -> 0

ControlLeft == (2 * Looks + 5) * (Len(Posts) - Current) + PhaseLeft

LooksBounded == looks \in 0..Looks

(* Nothing that happens to it, and nothing else, sends the controller      *)
(* back: no step is taken twice, and no occurrence is begun again.         *)
ControllerAdvances ==
    [][/\ ControlLeft' <= ControlLeft
       /\ Control => ControlLeft' < ControlLeft]_recurringVars

(* One occurrence fewer is as many steps fewer as an occurrence may take.  *)
LEMMA OneFewer ==
  ASSUME NEW n \in Nat \ {0}, NEW looksLeft \in Nat
  PROVE  /\ (2 * looksLeft + 5) * n \in Nat /\ (2 * looksLeft + 5) * (n - 1) \in Nat
         /\ (2 * looksLeft + 5) * (n - 1) + (2 * looksLeft + 5) = (2 * looksLeft + 5) * n
  OBVIOUS

LEMMA LooksStayBounded ==
  ASSUME LooksBounded, [RecurringNext]_recurringVars
  PROVE  LooksBounded'
  BY RecurringConstants
     DEF LooksBounded, RecurringNext, Control, Begin, Admitted, Observe, NotIndexed, Verified,
         Fail, Die, SandboxStep, recurringVars, controller

(* What a step of the controller does to the list and to the phase.        *)
LEMMA ControlMoves ==
  ASSUME RecurringInductive, LooksBounded, Control
  PROVE  \/ Current < Len(Posts) /\ Current' = Current + 1 /\ PhaseLeft = 0
            /\ PhaseLeft' = 2 * Looks + 4
         \/ Current' = Current /\ PhaseLeft' < PhaseLeft
<1>0. Looks \in Nat /\ looks \in Nat /\ looks <= Looks
  BY RecurringConstants DEF LooksBounded
<1>1. results \in Seq(Occurrence)
  BY DEF RecurringInductive
<1>2. ASSUME NEW it, Record(it) PROVE Current' = Current
  <2> HIDE DEF Occurrence
  <2> QED
    BY <1>1, <1>2 DEF Record, Current
<1>3. CASE Begin
  <2>1. Current' = Current + 1
    <3> HIDE DEF Occurrence
    <3>1. Len(Append(results, Started)) = Len(results) + 1
      BY <1>1
    <3> QED
      BY <1>3, <3>1 DEF Begin, Current
  <2>2. Current < Len(Posts)
    BY <1>3 DEF Begin, RecurringInductive, TurnInductive
  <2> QED
    BY <1>3, <2>1, <2>2 DEF Begin, PhaseLeft
<1>4. CASE Admitted
  <2>1. Current' = Current
    BY <1>2, <1>4 DEF Admitted
  <2>2. phase = "posting" /\ phase' = "polling" /\ looks' = 0
    BY <1>4 DEF Admitted
  <2> QED
    BY <1>0, <2>1, <2>2 DEF PhaseLeft
<1>5. CASE Observe
  <2>1. Current' = Current
    BY <1>2, <1>5 DEF Observe
  <2>2. /\ phase = "polling" /\ looks < Looks
        /\ \/ phase' = "polling" /\ looks' = looks + 1
           \/ phase' = "ended"
           \/ phase' = "verifying" /\ looks' = 0
    BY <1>5 DEF Observe
  <2> QED
    BY <1>0, <2>1, <2>2 DEF PhaseLeft
<1>6. CASE NotIndexed
  <2>1. /\ Current' = Current /\ phase = "verifying" /\ phase' = "verifying"
        /\ looks < Looks /\ looks' = looks + 1
    BY <1>6 DEF NotIndexed, Current
  <2> QED
    BY <1>0, <2>1 DEF PhaseLeft
<1>7. CASE Verified
  <2>1. Current' = Current
    <3>1. Record([results[Current] EXCEPT !.hcsVerdict = verdict[results[Current].run]])
      BY <1>7 DEF Verified
    <3> QED
      BY <1>2, <3>1
  <2>2. phase = "verifying" /\ phase' \in {"sleeping", "ended"}
    BY <1>7 DEF Verified
  <2> QED
    BY <1>0, <2>1, <2>2 DEF PhaseLeft
<1>8. CASE Fail
  <2>1. Current' = Current
    BY <1>2, <1>8 DEF Fail
  <2>2. phase \in {"posting", "polling", "verifying"} /\ phase' = "ended"
    BY <1>8 DEF Fail
  <2> QED
    BY <1>0, <2>1, <2>2 DEF PhaseLeft
<1> QED
  BY <1>3, <1>4, <1>5, <1>6, <1>7, <1>8 DEF Control

LEMMA ControlShrinks ==
  ASSUME RecurringInductive, LooksBounded, [RecurringNext]_recurringVars
  PROVE  /\ ControlLeft' <= ControlLeft
         /\ Control => ControlLeft' < ControlLeft
<1>1. /\ Looks \in Nat /\ looks \in 0..Looks /\ Len(Posts) \in Nat /\ Current \in Nat
      /\ Current <= Len(Posts) /\ PhaseLeft \in Nat
  <2>1. Looks \in Nat /\ looks \in 0..Looks
    BY RecurringConstants DEF LooksBounded
  <2>2. Current <= Len(Posts)
    BY DEF RecurringInductive, TurnInductive
  <2>3. PhaseLeft \in Nat
    BY <2>1 DEF PhaseLeft
  <2> QED
    BY <2>1, <2>2, <2>3, RecurringSizes
<1>2. (2 * Looks + 5) * (Len(Posts) - Current) \in Nat
  <2>1. Len(Posts) - Current \in Nat
    BY <1>1
  <2> QED
    BY <1>1, <2>1
<1>3. CASE Control
  <2>1. CASE /\ Current < Len(Posts) /\ Current' = Current + 1 /\ PhaseLeft = 0
             /\ PhaseLeft' = 2 * Looks + 4
    <3>1. /\ Len(Posts) - Current \in Nat \ {0}
          /\ Len(Posts) - Current' = (Len(Posts) - Current) - 1
      BY <1>1, <2>1
    <3>2. /\ (2 * Looks + 5) * (Len(Posts) - Current') + (2 * Looks + 5)
               = (2 * Looks + 5) * (Len(Posts) - Current)
          /\ (2 * Looks + 5) * (Len(Posts) - Current') \in Nat
      BY <1>1, <3>1, OneFewer
    <3>3. ControlLeft' = (2 * Looks + 5) * (Len(Posts) - Current') + PhaseLeft'
      BY DEF ControlLeft
    <3> QED
      BY <1>1, <1>2, <2>1, <3>2, <3>3 DEF ControlLeft
  <2>2. CASE Current' = Current /\ PhaseLeft' < PhaseLeft
    <3>1. PhaseLeft' \in Nat
      BY RecurringConstants, LooksStayBounded DEF LooksBounded, PhaseLeft
    <3>2. ControlLeft' = (2 * Looks + 5) * (Len(Posts) - Current) + PhaseLeft'
      BY <2>2 DEF ControlLeft
    <3> QED
      BY <1>1, <1>2, <2>2, <3>1, <3>2 DEF ControlLeft
  <2> QED
    BY <1>3, <2>1, <2>2, ControlMoves
<1>4. CASE ~ Control
  <2>1. Current' = Current /\ (PhaseLeft' = PhaseLeft \/ PhaseLeft' = 0)
    BY <1>4 DEF RecurringNext, Die, SandboxStep, recurringVars, controller, Current, PhaseLeft
  <2>2. ControlLeft' = (2 * Looks + 5) * (Len(Posts) - Current) + PhaseLeft'
    BY <2>1 DEF ControlLeft
  <2> QED
    BY <1>1, <1>2, <1>4, <2>1, <2>2 DEF ControlLeft
<1> QED
  BY <1>3, <1>4

(* The controller ends within a number of its own steps that it knows at   *)
(* the start, whatever the sandbox, the mirror node and the network do:    *)
(* the safety half of ControllerEnds.                                      *)
THEOREM ControllerEndsWithinBound ==
  RecurringSpec => []LooksBounded /\ ControllerAdvances
<1>1. RecurringInit => LooksBounded
  BY RecurringConstants DEF RecurringInit, LooksBounded
<1>2. LooksBounded /\ [RecurringNext]_recurringVars => LooksBounded'
  BY LooksStayBounded
<1>3. RecurringInductive /\ LooksBounded /\ [RecurringNext]_recurringVars =>
        [/\ ControlLeft' <= ControlLeft
         /\ Control => ControlLeft' < ControlLeft]_recurringVars
  BY ControlShrinks
<1> QED
  BY <1>1, <1>2, <1>3, RecurringInvariant, PTL DEF RecurringSpec, ControllerAdvances
=============================================================================
