------------------------- MODULE ReviewRules_proofs -------------------------
(***************************************************************************)
(* Proofs about the rules of /review, for any mandates, any schedules that *)
(* may appear under the reviewed ID, any clock, and an upgrade of the      *)
(* network at any moment.                                                  *)
(***************************************************************************)
EXTENDS ReviewRules, Transfers_proofs

(* What the guard read is what it asked about, once anything was created   *)
(* under the ID; nothing is created there twice.                           *)
SeenIsCreated ==
    pc \in {"read", "approved", "submitted"} =>
        schedule # NoSchedule /\ seen.schedule = schedule

(* A schedule that the audited version could not have shown in full was    *)
(* created after an upgrade.                                               *)
HiddenIsLater == schedule # NoSchedule /\ schedule.hidden => version # Allowed

(* What the guard approves has no part it did not see, pays as the mandate *)
(* says at the agent's expense, and can execute only inside the mandate.   *)
ApprovedIsMandated ==
    pc \in {"approved", "submitted"} =>
        /\ schedule.plain /\ ~ schedule.hidden /\ ~ schedule.wait
        /\ schedule.payer = Agent /\ schedule.fee = ProtocolFee
        /\ schedule.transfer.tokens = <<>>
        /\ PaysAsMandated(schedule.transfer, mandate)
        /\ mandate.validFrom * TicksPerSecond <= now
        /\ schedule.expires <= mandate.expires * TicksPerSecond

(* The guard's signature reaches consensus for what it approved alone, and *)
(* a balance changes by the one execution of it.                           *)
SignedIsApproved == "guard" \in signers => pc = "submitted"

MovedByExecution == fate # "executed" => balance = NoBalance

ReviewInductive ==
    /\ now \in Nat /\ mandate \in Mandates
    /\ schedule \in Schedules \cup {NoSchedule}
    /\ HiddenIsLater
    /\ SeenIsCreated
    /\ ApprovedIsMandated
    /\ SignedIsApproved
    /\ MovedByExecution
    /\ ScheduleWithinMandate

----------------------------------------------------------------------------
LEMMA ReviewStart == ReviewInit => ReviewInductive
<1> SUFFICES ASSUME ReviewInit PROVE ReviewInductive
  OBVIOUS
<1>1. /\ now \in Nat /\ mandate \in Mandates /\ schedule = NoSchedule /\ signers = {}
      /\ pc = "asked" /\ balance = NoBalance
  BY DEF ReviewInit
<1>2. ScheduleWithinMandate
  BY <1>1, NothingWithinMandate, ValidationConstants DEF ScheduleWithinMandate, MandateConstants
<1>3. QED
  BY <1>1, <1>2 DEF ReviewInductive, HiddenIsLater, SeenIsCreated, ApprovedIsMandated,
                    SignedIsApproved, MovedByExecution

(* What the decision rests on: the version is read after the schedule, so  *)
(* that what was hidden in it would be known by then.                      *)
LEMMA DecisionIsMandated ==
  ASSUME ReviewInductive, Decide
  PROVE  ApprovedIsMandated'
<1> SUFFICES ASSUME pc' \in {"approved", "submitted"} PROVE ApprovedIsMandated'
  BY DEF ApprovedIsMandated
<1>1. /\ pc = "read" /\ VersionsMatch /\ ReviewPasses(seen)
      /\ UNCHANGED <<now, mandate, schedule, version>>
  BY DEF Decide, network
<1>2. schedule # NoSchedule /\ seen.schedule = schedule /\ schedule \in Schedules
  BY <1>1 DEF ReviewInductive, SeenIsCreated
<1>3. Envelope(schedule) /\ Body(schedule) /\ MandateActive
  BY <1>1, <1>2 DEF ReviewPasses
<1>4. ~ schedule.hidden
  BY <1>1, <1>2 DEF ReviewInductive, HiddenIsLater, VersionsMatch
<1>5. mandate.validFrom * TicksPerSecond <= now
  <2>1. /\ TicksPerSecond \in Nat \ {0} /\ now \in Nat /\ mandate.validFrom \in Nat
        /\ mandate.validFrom <= now \div TicksPerSecond
    BY <1>3, ValidationConstants DEF ReviewInductive, MandateConstants, MandateActive, Clock
  <2>2. QED
    BY <2>1, SecondsReached
<1>6. PaysAsMandated(schedule.transfer, mandate)
  <2>1. mandate.asset = Hbar /\ schedule.transfer.tokens = <<>>
        /\ AdjustmentsPass(schedule.transfer.hbar, mandate)
    BY <1>3 DEF Body
  <2>2. schedule.transfer.hbar \in Adjustments
    BY <1>2, ReviewConstants DEF Transfer
  <2>3. Shape(schedule.transfer.hbar, mandate)
    BY <2>1, <2>2, AdjustmentsTyped, TwoKinds DEF AdjustmentsPass, ExactlyTwo
  <2>4. QED
    BY <2>1, <2>3 DEF PaysAsMandated
<1>7. QED
  BY <1>1, <1>3, <1>4, <1>5, <1>6 DEF ApprovedIsMandated, Envelope, ExpiresInMandate, Body

(* The execution moves what the mandate allows, while it does.             *)
LEMMA ExecutionIsMandated ==
  ASSUME ReviewInductive, ExecuteSchedule
  PROVE  /\ ScheduleWithinMandate'
         /\ mandate.validFrom * TicksPerSecond <= now
         /\ now < mandate.expires * TicksPerSecond
<1>1. /\ fate = "live" /\ signers = {"agent", "guard"}
      /\ schedule.wait = (now >= schedule.expires)
      /\ balance' = Applied(balance, schedule.transfer, ScheduleCharge) /\ mandate' = mandate
  BY DEF ExecuteSchedule
<1>2. pc = "submitted"
  BY <1>1 DEF ReviewInductive, SignedIsApproved
<1>3. schedule # NoSchedule /\ schedule \in Schedules /\ mandate \in Mandates /\ now \in Nat
  BY <1>2 DEF ReviewInductive, SeenIsCreated
<1>4. /\ schedule.plain /\ ~ schedule.hidden /\ ~ schedule.wait
      /\ schedule.payer = Agent /\ schedule.fee = ProtocolFee
      /\ schedule.transfer.tokens = <<>>
      /\ PaysAsMandated(schedule.transfer, mandate)
      /\ mandate.validFrom * TicksPerSecond <= now
      /\ schedule.expires <= mandate.expires * TicksPerSecond
  BY <1>2 DEF ReviewInductive, ApprovedIsMandated
<1>5. now < mandate.expires * TicksPerSecond
  <2>1. ~ (now >= schedule.expires)
    BY <1>1, <1>4
  <2>2. schedule.expires \in Nat /\ mandate.expires * TicksPerSecond \in Nat
    BY <1>3, ReviewConstants, ValidationConstants DEF MandateConstants
  <2>3. QED
    BY ONLY <1>3, <1>4, <2>1, <2>2
<1>6. balance = NoBalance
  BY <1>1 DEF ReviewInductive, MovedByExecution
<1>7. /\ ScheduleCharge \in [Accounts \X Assets -> Nat]
      /\ \A a \in Assets : ScheduleCharge[<<Treasury, a>>] = 0 /\ ScheduleCharge[<<GuardAccount, a>>] = 0
  <2>1. ProtocolFee \in Nat /\ Agent # Treasury /\ Agent # GuardAccount
    BY ReviewConstants, ValidationConstants DEF AccountConstants
  <2>2. DOMAIN schedule.transfer.tokens = {}
    BY <1>4
  <2>3. ScheduleCharge = [p \in Accounts \X Assets |-> IF p = <<Agent, Hbar>> THEN ProtocolFee ELSE 0]
    <3>1. ASSUME NEW p \in Accounts \X Assets
          PROVE  ScheduleCharge[p] = IF p = <<Agent, Hbar>> THEN ProtocolFee ELSE 0
      BY <1>4, <2>1, <2>2 DEF ScheduleCharge
    <3>2. QED
      BY <3>1 DEF ScheduleCharge
  <2>4. Treasury \in Accounts /\ GuardAccount \in Accounts
    BY DEF Accounts
  <2>5. QED
    BY <2>1, <2>3, <2>4
<1>8. WithinMandate(Applied(NoBalance, schedule.transfer, ScheduleCharge), mandate)
  <2>1. mandate.cap \in Nat /\ AccountConstants /\ schedule.transfer \in Transfer
    BY <1>3, ReviewConstants, ValidationConstants DEF MandateConstants
  <2>2. QED
    BY <1>4, <1>7, <2>1, PaymentWithinMandate
<1>9. QED
  BY <1>1, <1>4, <1>5, <1>6, <1>8 DEF ScheduleWithinMandate

----------------------------------------------------------------------------
(* What a step leaves as it was, apart from what it is for.                *)
LEMMA Kept ==
  ASSUME ReviewInductive, [ReviewNext]_reviewVars
  PROVE  /\ mandate' = mandate /\ now' \in Nat /\ now <= now'
         /\ schedule' = schedule \/ (schedule = NoSchedule /\ schedule' \in Schedules)
         /\ version = version' \/ version' # Allowed
         /\ fate = "executed" => fate' = "executed"
<1>1. now \in Nat
  BY DEF ReviewInductive
<1>2. CASE ReadVersion \/ ReadSchedule \/ Decide \/ SubmitApproval
  BY <1>1, <1>2 DEF ReadVersion, ReadSchedule, Decide, SubmitApproval, network
<1>3. CASE AgentSigns \/ SignatureLands
  BY <1>1, <1>3 DEF AgentSigns, SignatureLands, Sign
<1>4. CASE ExecuteSchedule \/ Delete
  BY <1>1, <1>4 DEF ExecuteSchedule, Delete
<1>5. CASE Create
  BY <1>1, <1>5 DEF Create
<1>6. CASE Upgrade
  BY <1>1, <1>6 DEF Upgrade, Allowed
<1>7. CASE ReviewTick \/ UNCHANGED reviewVars
  BY <1>1, <1>7 DEF ReviewTick, reviewVars, network
<1>8. QED
  BY <1>2, <1>3, <1>4, <1>5, <1>6, <1>7 DEF ReviewNext

LEMMA ReviewStep == ReviewInductive /\ [ReviewNext]_reviewVars => ReviewInductive'
<1> SUFFICES ASSUME ReviewInductive, [ReviewNext]_reviewVars PROVE ReviewInductive'
  OBVIOUS
<1>1. /\ mandate' = mandate /\ now' \in Nat /\ now <= now'
      /\ schedule' = schedule \/ (schedule = NoSchedule /\ schedule' \in Schedules)
      /\ version = version' \/ version' # Allowed
  BY Kept
<1>2. schedule' \in Schedules \cup {NoSchedule} /\ mandate' \in Mandates
  BY <1>1 DEF ReviewInductive
<1>3. HiddenIsLater'
  <2>1. CASE Create
    BY <2>1 DEF Create, HiddenIsLater
  <2>2. CASE schedule' = schedule
    BY <1>1, <2>2 DEF ReviewInductive, HiddenIsLater
  <2>3. schedule' = schedule \/ Create
    BY DEF ReviewNext, reviewVars, network, ReadVersion, ReadSchedule, Decide, SubmitApproval, AgentSigns,
           SignatureLands, Sign, ExecuteSchedule, Delete, Upgrade, ReviewTick
  <2>4. QED
    BY <2>1, <2>2, <2>3
<1>4. SeenIsCreated'
  <2> SUFFICES ASSUME pc' \in {"read", "approved", "submitted"}
               PROVE  schedule' # NoSchedule /\ seen'.schedule = schedule'
    BY DEF SeenIsCreated
  <2>1. CASE ReadSchedule
    BY <2>1 DEF ReadSchedule, Exists, network
  <2>2. CASE ~ ReadSchedule
    <3>1. pc \in {"read", "approved", "submitted"} /\ seen' = seen
      BY <2>2 DEF ReviewNext, reviewVars, network, ReadVersion, Decide, SubmitApproval, AgentSigns,
                  SignatureLands, Sign, ExecuteSchedule, Create, Delete, Upgrade, ReviewTick
    <3>2. schedule # NoSchedule /\ seen.schedule = schedule
      BY <3>1 DEF ReviewInductive, SeenIsCreated
    <3>3. QED
      BY <1>1, <3>1, <3>2
  <2>3. QED
    BY <2>1, <2>2
<1>5. ApprovedIsMandated'
  <2>1. CASE Decide
    BY <2>1, DecisionIsMandated
  <2>2. CASE ~ Decide
    <3> SUFFICES ASSUME pc' \in {"approved", "submitted"} PROVE ApprovedIsMandated'
      BY DEF ApprovedIsMandated
    <3>1. pc \in {"approved", "submitted"}
      BY <2>2 DEF ReviewNext, reviewVars, network, ReadVersion, ReadSchedule, SubmitApproval, AgentSigns,
                  SignatureLands, Sign, ExecuteSchedule, Create, Delete, Upgrade, ReviewTick
    <3>2. schedule' = schedule
      BY <1>1, <3>1 DEF ReviewInductive, SeenIsCreated
    <3>3. mandate.validFrom * TicksPerSecond <= now'
      <4>1. mandate.validFrom * TicksPerSecond \in Nat /\ now \in Nat
        BY ValidationConstants DEF ReviewInductive, MandateConstants
      <4>2. mandate.validFrom * TicksPerSecond <= now
        BY <3>1 DEF ReviewInductive, ApprovedIsMandated
      <4>3. QED
        BY ONLY <1>1, <4>1, <4>2
    <3>4. QED
      BY <1>1, <3>1, <3>2, <3>3 DEF ReviewInductive, ApprovedIsMandated
  <2>3. QED
    BY <2>1, <2>2
<1>6. SignedIsApproved'
  <2>1. pc = "submitted" => pc' = "submitted"
    BY DEF ReviewNext, reviewVars, network, ReadVersion, ReadSchedule, Decide, SubmitApproval, AgentSigns,
           SignatureLands, Sign, ExecuteSchedule, Create, Delete, Upgrade, ReviewTick
  <2>2. "guard" \in signers' => "guard" \in signers \/ pc = "submitted"
    BY DEF ReviewNext, reviewVars, network, ReadVersion, ReadSchedule, Decide, SubmitApproval, AgentSigns,
           SignatureLands, Sign, ExecuteSchedule, Create, Delete, Upgrade, ReviewTick
  <2>3. QED
    BY <2>1, <2>2 DEF ReviewInductive, SignedIsApproved
<1>7. MovedByExecution' /\ ScheduleWithinMandate'
  <2>1. CASE ExecuteSchedule
    BY <2>1, ExecutionIsMandated DEF ExecuteSchedule, MovedByExecution
  <2>2. CASE ~ ExecuteSchedule
    <3>1. balance' = balance
      BY <2>2 DEF ReviewNext, reviewVars, network, ReadVersion, ReadSchedule, Decide, SubmitApproval,
                  AgentSigns, SignatureLands, Sign, Create, Delete, Upgrade, ReviewTick
    <3>2. QED
      BY <1>1, <3>1, Kept DEF ReviewInductive, MovedByExecution, ScheduleWithinMandate
  <2>3. QED
    BY <2>1, <2>2
<1>8. QED
  BY <1>1, <1>2, <1>3, <1>4, <1>5, <1>6, <1>7 DEF ReviewInductive

(* The invariant of the argument holds in every state.                     *)
THEOREM ReviewInvariant == ReviewSpec => []ReviewInductive
<1>1. ReviewInit => ReviewInductive
  BY ReviewStart
<1>2. ReviewInductive /\ [ReviewNext]_reviewVars => ReviewInductive'
  BY ReviewStep
<1>3. QED
  BY <1>1, <1>2, PTL DEF ReviewSpec

(* Whatever is created under the reviewed ID, and whenever the network is  *)
(* upgraded, what moves with the guard's signature is what the mandate     *)
(* allows.                                                                 *)
THEOREM SchedulesKeepMandate == ReviewSpec => []ScheduleWithinMandate
<1>1. ReviewInductive => ScheduleWithinMandate
  BY DEF ReviewInductive
<1>2. QED
  BY <1>1, ReviewInvariant, PTL

(* The guard never lets a schedule through that has a part it cannot see.  *)
THEOREM ApprovesWhatItSaw == ReviewSpec => []ApprovedIsMandated
<1>1. ReviewInductive => ApprovedIsMandated
  BY DEF ReviewInductive
<1>2. QED
  BY <1>1, ReviewInvariant, PTL

(* It moves only while the mandate is active, to the tick.                 *)
THEOREM SchedulesMoveInTime == ReviewSpec => ScheduleInsideMandate
<1>1. ReviewInductive /\ [ReviewNext]_reviewVars =>
        [balance' # balance =>
           /\ mandate.validFrom * TicksPerSecond <= now
           /\ now < mandate.expires * TicksPerSecond]_reviewVars
  <2> SUFFICES ASSUME ReviewInductive, [ReviewNext]_reviewVars, balance' # balance
               PROVE  /\ mandate.validFrom * TicksPerSecond <= now
                      /\ now < mandate.expires * TicksPerSecond
    OBVIOUS
  <2>1. ExecuteSchedule
    BY DEF ReviewNext, reviewVars, network, ReadVersion, ReadSchedule, Decide, SubmitApproval,
           AgentSigns, SignatureLands, Sign, Create, Delete, Upgrade, ReviewTick
  <2>2. QED
    BY <2>1, ExecutionIsMandated
<1>2. QED
  BY <1>1, ReviewInvariant, PTL DEF ReviewSpec, ScheduleInsideMandate
============================================================================
