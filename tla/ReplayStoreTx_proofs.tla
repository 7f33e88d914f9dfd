------------------------ MODULE ReplayStoreTx_proofs ------------------------
(***************************************************************************)
(* The transactions of the ledger implement its one-step operations, for   *)
(* any number of callers and any calls.                                    *)
(***************************************************************************)
EXTENDS ReplayStoreTx, TLAPS

(* A bound nonce has a row.                                                *)
LEMMA RowTyped ==
  ASSUME StoreTypeOK, NEW m \in Mandates, Bound(m)
  PROVE  /\ rows[Key(m)] \in Row
         /\ rows[Key(m)].settlement \in Requests \cup {None}
<1>1. Key(m) \in Keys
  BY DEF Keys
<1>2. rows[Key(m)] \in Row
  BY <1>1 DEF StoreTypeOK, Bound
<1>3. QED
  BY <1>2 DEF Row

(* A row keeps its mandate and its target, and a completed row stays       *)
(* completed, whoever writes (the UPDATE of completeMandateReview).        *)
LEMMA RowKept ==
  ASSUME StoreTypeOK, [StoreNext]_rows, NEW k \in Keys, rows[k] # NoRow
  PROVE  /\ rows'[k] # NoRow
         /\ rows'[k].mandate = rows[k].mandate
         /\ rows'[k].target = rows[k].target
         /\ rows[k].settlement # None => rows'[k].settlement # None
<1>1. rows \in [Keys -> Row \cup {NoRow}] /\ rows[k] \in Row
  BY DEF StoreTypeOK
<1>2. ASSUME NEW m \in Mandates, NEW t \in Targets, Reserve(m, t)
      PROVE  rows'[k] = rows[k]
  BY <1>1, <1>2 DEF Reserve, CanReserve, Bound, InsertPending, Inserted
<1>3. ASSUME NEW m \in Mandates, NEW t \in Targets, NEW s \in Requests, Complete(m, t, s)
      PROVE  /\ rows'[k] \in Row
             /\ rows'[k].mandate = rows[k].mandate
             /\ rows'[k].target = rows[k].target
             /\ rows[k].settlement # None => rows'[k].settlement # None
  <2>1. \/ rows'[k] = rows[k]
        \/ rows'[k] = [rows[k] EXCEPT !.settlement = s]
    BY <1>1, <1>3 DEF Complete, WriteCompletion, Completed
  <2>2. QED
    BY <1>1, <2>1, StoreConstants DEF Row
<1>4. CASE UNCHANGED rows
  BY <1>4
<1>5. QED
  BY <1>1, <1>2, <1>3, <1>4, StoreConstants DEF StoreNext

(* A tuple that is bound, or completed, is so for ever.                    *)
LEMMA TupleStable ==
  ASSUME StoreTypeOK, [StoreNext]_rows, NEW m \in Mandates, NEW t \in Targets,
         SameTuple(m, t)
  PROVE  /\ SameTuple(m, t)'
         /\ Sealed(m, t) => Sealed(m, t)'
<1>1. Key(m) \in Keys
  BY DEF Keys
<1>2. QED
  BY <1>1, RowKept DEF SameTuple, Bound, Sealed, Key

(* A refusal is final: a nonce bound to another tuple stays so, and one    *)
(* below the high-water mark can never be reserved again.                  *)
LEMMA RefusalStable ==
  ASSUME StoreTypeOK, [StoreNext]_rows, NEW m \in Mandates, NEW t \in Targets,
         IsRefused(m, t)
  PROVE  IsRefused(m, t)'
<1>1. Key(m) \in Keys
  BY DEF Keys
<1>2. CASE Bound(m)
  <2>1. Bound(m)'
    BY <1>1, <1>2, RowKept DEF Bound, Key
  <2>2. ~ SameTuple(m, t)'
    BY <1>1, <1>2, RowKept DEF IsRefused, IsRetry, SameTuple, Bound, Key
  <2>3. QED
    BY <2>1, <2>2 DEF IsRefused, IsRetry, CanReserve
<1>3. CASE ~ Bound(m)
  <2>1. PICK k \in Keys : rows[k] # NoRow /\ k[1] = TenantOf[m] /\ ~ (k[2] < NonceOf[m])
    BY <1>3 DEF IsRefused, CanReserve, FreshNonce
  <2>2. rows'[k] # NoRow
    BY <2>1, RowKept
  <2>3. ~ FreshNonce(m)'
    BY <2>1, <2>2 DEF FreshNonce, Keys
  <2>4. ASSUME NEW n \in Mandates, NEW u \in Targets, Reserve(n, u)
        PROVE  rows'[Key(m)] = rows[Key(m)]
    <3>1. Key(n) # Key(m)
      BY <2>1, <2>4 DEF Reserve, CanReserve, FreshNonce, Key
    <3>2. QED
      BY <1>1, <2>4, <3>1 DEF Reserve, InsertPending, Inserted, StoreTypeOK
  <2>5. ASSUME NEW n \in Mandates, NEW u \in Targets, NEW s \in Requests, Complete(n, u, s)
        PROVE  rows'[Key(m)] = rows[Key(m)]
    <3>1. Key(n) # Key(m)
      BY <1>3, <2>5 DEF Complete, WriteCompletion, SameTuple, Bound
    <3>2. QED
      BY <1>1, <2>5, <3>1 DEF Complete, WriteCompletion, Completed, StoreTypeOK
  <2>6. ~ Bound(m)'
    BY <1>3, <2>4, <2>5 DEF StoreNext, Bound, Key
  <2>7. QED
    BY <2>3, <2>6 DEF IsRefused, IsRetry, SameTuple, CanReserve
<1>4. QED
  BY <1>2, <1>3

(* The arguments of a call that was made.                                  *)
LEMMA CallTyped ==
  ASSUME TxTypeOK, NEW c \in Callers, pc[c] # "idle"
  PROVE  /\ MandateOf(c) \in Mandates
         /\ TargetOf(c) \in Targets
         /\ Key(MandateOf(c)) \in Keys
         /\ call[c].op = "complete" => call[c].settlement \in Requests
         /\ call[c].op \in {"reserve", "complete", "look"}
<1>1. call[c] \in Call
  BY TxConstants DEF TxTypeOK
<1>2. QED
  BY <1>1 DEF Call, MandateOf, TargetOf, Keys

(* What a write transaction makes of the rows it read is a ledger.         *)
LEMMA DraftTyped ==
  ASSUME StoreTypeOK, NEW m \in Mandates, NEW t \in Targets
  PROVE  /\ Inserted(m, t) \in [Keys -> Row \cup {NoRow}]
         /\ \A s \in Requests :
              SameTuple(m, t) => Completed(m, s) \in [Keys -> Row \cup {NoRow}]
<1>1. Key(m) \in Keys
  BY DEF Keys
<1>2. [mandate |-> m, target |-> t, settlement |-> None] \in Row
  BY DEF Row
<1>3. ASSUME NEW s \in Requests, SameTuple(m, t)
      PROVE  Completed(m, s) \in [Keys -> Row \cup {NoRow}]
  <2>1. rows[Key(m)] \in Row
    BY <1>3, RowTyped DEF SameTuple
  <2>2. [rows[Key(m)] EXCEPT !.settlement = s] \in Row
    BY <2>1 DEF Row
  <2>3. QED
    BY <1>1, <2>2 DEF Completed, StoreTypeOK
<1>4. QED
  BY <1>1, <1>2, <1>3 DEF Inserted, StoreTypeOK

(* So does a call that ran its statements.                                 *)
LEMMA RanTyped ==
  ASSUME TxTypeOK, NEW c \in Callers, pc[c] # "idle", NEW value \in Answers,
         NEW after \in [Keys -> Row \cup {NoRow}], Ran(c, value, after)
  PROVE  TxTypeOK'
<1>1. UNCHANGED <<rows, writer, call>> /\ pc' = [pc EXCEPT ![c] = "ran"]
      /\ answer' = [answer EXCEPT ![c] = value] /\ draft' = [draft EXCEPT ![c] = after]
  BY DEF Ran
<1>2. StoreTypeOK' /\ writer' \in Callers \cup {NoCaller}
      /\ call' \in [Callers -> Calls \cup {NoCall}]
  BY <1>1 DEF TxTypeOK, StoreTypeOK
<1>3. pc' \in [Callers -> PCs] /\ answer' \in [Callers -> Answers]
  BY <1>1 DEF TxTypeOK, PCs
<1>4. draft' \in [Callers -> [Keys -> Row \cup {NoRow}]]
  BY <1>1 DEF TxTypeOK
<1>5. \A d \in Callers : pc'[d] # "idle" => call'[d] \in Calls
  <2>1. TAKE d \in Callers
  <2>2. pc'[d] # "idle" => pc[d] # "idle"
    BY <1>1 DEF TxTypeOK
  <2>3. QED
    BY <1>1, <2>2 DEF TxTypeOK
<1>6. QED
  BY <1>2, <1>3, <1>4, <1>5 DEF TxTypeOK

LEMMA RanReserveTyped ==
  ASSUME TxTypeOK, NEW c \in Callers, RunReserve(c) PROVE TxTypeOK'
<1>1. Inserted(MandateOf(c), TargetOf(c)) \in [Keys -> Row \cup {NoRow}]
  <2>1. pc[c] # "idle"
    BY DEF RunReserve
  <2>2. QED
    BY <2>1, CallTyped, DraftTyped DEF TxTypeOK
<1>2. rows \in [Keys -> Row \cup {NoRow}]
  BY DEF TxTypeOK, StoreTypeOK
<1>3. {"retry", "refused", "reserved"} \subseteq Answers
  BY DEF Answers
<1>4. PICK value \in Answers, after \in [Keys -> Row \cup {NoRow}] : Ran(c, value, after)
  BY <1>1, <1>2, <1>3 DEF RunReserve
<1>5. pc[c] # "idle"
  BY DEF RunReserve
<1>6. QED
  BY <1>4, <1>5, RanTyped

LEMMA RanCompleteTyped ==
  ASSUME TxTypeOK, NEW c \in Callers, pc[c] # "idle", call[c].op = "complete",
         SameTuple(MandateOf(c), TargetOf(c)),
         Ran(c, "stored", Completed(MandateOf(c), call[c].settlement))
  PROVE  TxTypeOK'
<1>1. Completed(MandateOf(c), call[c].settlement) \in [Keys -> Row \cup {NoRow}]
  BY CallTyped, DraftTyped DEF TxTypeOK
<1>2. "stored" \in Answers
  BY DEF Answers
<1>3. QED
  BY <1>1, <1>2, RanTyped

(* Every step of the calls keeps their types.                              *)
LEMMA TxTypeStep ==
  ASSUME TxTypeOK, [TxNext]_txVars PROVE TxTypeOK'
<1>4. ASSUME NEW c \in Callers, RunReserve(c) PROVE TxTypeOK'
  BY <1>4, RanReserveTyped
<1>5. ASSUME NEW c \in Callers, RunComplete(c) PROVE TxTypeOK'
  <2>1. CASE SameTuple(MandateOf(c), TargetOf(c))
    BY <1>5, <2>1, RanCompleteTyped DEF RunComplete
  <2>2. CASE ~ SameTuple(MandateOf(c), TargetOf(c))
    BY <1>5, <2>2 DEF RunComplete, StoreTypeOK, TxTypeOK, Return, Release, PCs, Answers
  <2>3. QED
    BY <2>1, <2>2
<1> USE DEF TxTypeOK, Return, Release, Ran, PCs, Answers
<1>1. CASE UNCHANGED txVars
  BY <1>1 DEF txVars, StoreTypeOK
<1>2. ASSUME NEW c \in Callers, Open(c) PROVE TxTypeOK'
  BY <1>2 DEF Open, StoreTypeOK
<1>3. ASSUME NEW c \in Callers, Begin(c) PROVE TxTypeOK'
  BY <1>3 DEF Begin, StoreTypeOK
<1>6. ASSUME NEW c \in Callers, RunLook(c) PROVE TxTypeOK'
  BY <1>6 DEF RunLook, StoreTypeOK, ReviewState
<1>7. ASSUME NEW c \in Callers, Commit(c) PROVE TxTypeOK'
  BY <1>7 DEF Commit, StoreTypeOK
<1>8. ASSUME NEW c \in Callers, Busy(c) PROVE TxTypeOK'
  BY <1>8 DEF Busy, Dirty, StoreTypeOK
<1>9. ASSUME NEW c \in Callers, Die(c) PROVE TxTypeOK'
  BY <1>9 DEF Die, StoreTypeOK
<1>10. QED
  BY <1>1, <1>2, <1>3, <1>4, <1>5, <1>6, <1>7, <1>8, <1>9 DEF TxNext

(* A call moves by its own steps only; what it was asked is fixed once it  *)
(* is open, what it ran once it ran, and what it returned for ever.        *)
LEMMA CallerStep ==
  ASSUME TxTypeOK, [TxNext]_txVars, NEW c \in Callers
  PROVE  /\ pc[c] # "idle" => call'[c] = call[c]
         /\ pc[c] \in {"done", "lost"} => pc'[c] = pc[c]
         /\ pc[c] = "done" => answer'[c] = answer[c]
         /\ pc[c] = "idle" => pc'[c] \in {"idle", "opened"}
         /\ pc[c] = "ran" /\ pc'[c] = "ran" => answer'[c] = answer[c] /\ draft'[c] = draft[c]
         /\ \A d \in Callers : pc'[c] # pc[c] /\ pc'[d] # pc[d] => c = d
<1> USE DEF TxTypeOK, Return, Ran
<1>1. ASSUME NEW d \in Callers, Open(d)
      PROVE  /\ pc' = [pc EXCEPT ![d] = pc'[d]] /\ pc[d] = "idle" /\ pc'[d] = "opened"
             /\ call' = [call EXCEPT ![d] = call'[d]]
             /\ UNCHANGED <<answer, draft>>
  BY <1>1 DEF Open
<1>2. ASSUME NEW d \in Callers, Begin(d) \/ RunReserve(d) \/ RunComplete(d) \/ RunLook(d)
      PROVE  /\ pc' = [pc EXCEPT ![d] = pc'[d]] /\ pc[d] \in {"opened", "begun"}
             /\ answer' = [answer EXCEPT ![d] = answer'[d]]
             /\ draft' = [draft EXCEPT ![d] = draft'[d]]
             /\ UNCHANGED call
  BY <1>2 DEF Begin, RunReserve, RunComplete, RunLook
<1>3. ASSUME NEW d \in Callers, Commit(d) \/ Busy(d) \/ Die(d)
      PROVE  /\ pc' = [pc EXCEPT ![d] = pc'[d]] /\ pc[d] \in {"opened", "begun", "ran"}
             /\ pc'[d] \in {"done", "lost"}
             /\ answer' = [answer EXCEPT ![d] = answer'[d]]
             /\ UNCHANGED <<call, draft>>
  BY <1>3 DEF Commit, Busy, Die, Dirty
<1>4. CASE UNCHANGED txVars
  BY <1>4 DEF txVars
<1>5. QED
  BY <1>1, <1>2, <1>3, <1>4 DEF TxNext

(* The ledger changes at the commit of a dirty write, or at the end of a   *)
(* process whose commit was through, and never under a lookup.             *)
LEMMA RowsChange ==
  ASSUME TxInductive, [TxNext]_txVars, rows' # rows
  PROVE  \E c \in Callers :
           /\ pc[c] = "ran" /\ Writes(c) /\ pc'[c] \in {"done", "lost"}
           /\ rows' = draft[c] /\ DraftIsStep(c)
           /\ \A d \in Callers : ~ Reading(d)
           /\ Commit(c) \/ Die(c)
<1>1. PICK c \in Callers : Commit(c) \/ Die(c)
  BY DEF TxNext, txVars, Open, Begin, RunReserve, RunComplete, RunLook, Ran, Busy
<1>2. pc[c] = "ran" /\ Writes(c) /\ rows' = draft[c] /\ \A d \in Callers : ~ Reading(d)
  BY <1>1 DEF Commit, Die, Dirty
<1>3. pc'[c] \in {"done", "lost"}
  BY <1>1 DEF Commit, Die, Return, TxInductive, TxTypeOK
<1>4. DraftIsStep(c)
  BY <1>2 DEF TxInductive
<1>5. QED
  BY <1>1, <1>2, <1>3, <1>4

(* Every step of the transactions is a step of the ledger or leaves it.    *)
LEMMA TxStepImplements ==
  ASSUME TxInductive, [TxNext]_txVars PROVE [StoreNext]_rows
<1>1. CASE rows' = rows
  BY <1>1
<1>2. CASE rows' # rows
  <2>1. PICK c \in Callers :
           /\ pc[c] = "ran" /\ Writes(c) /\ rows' = draft[c] /\ DraftIsStep(c)
    BY <1>2, RowsChange
  <2>2. /\ MandateOf(c) \in Mandates /\ TargetOf(c) \in Targets
        /\ call[c].op = "complete" => call[c].settlement \in Requests
    BY <2>1, CallTyped DEF TxInductive
  <2>3. CASE CanReserve(MandateOf(c), TargetOf(c))
             /\ draft[c] = Inserted(MandateOf(c), TargetOf(c))
    BY <2>1, <2>2, <2>3 DEF StoreNext, Reserve, InsertPending
  <2>4. CASE /\ call[c].op = "complete" /\ SameTuple(MandateOf(c), TargetOf(c))
             /\ draft[c] = Completed(MandateOf(c), call[c].settlement)
    BY <2>1, <2>2, <2>4 DEF StoreNext, Complete, WriteCompletion
  <2>5. QED
    BY <1>2, <2>1, <2>3, <2>4 DEF DraftIsStep
<1>3. QED
  BY <1>1, <1>2

(* The write lock is held from BEGIN IMMEDIATE to the end of the           *)
(* transaction by whoever took it.                                         *)
LEMMA ExclusiveHold ==
  ASSUME TxTypeOK, Exclusive, [TxNext]_txVars PROVE Exclusive'
<1> USE DEF TxTypeOK, Exclusive, Return, Release, Ran, Writes
<1>1. CASE UNCHANGED txVars
  BY <1>1 DEF txVars
<1>2. ASSUME NEW c \in Callers, Open(c) PROVE Exclusive'
  BY <1>2 DEF Open
<1>3. ASSUME NEW c \in Callers, Begin(c) PROVE Exclusive'
  BY <1>3, TxConstants DEF Begin
<1>4. ASSUME NEW c \in Callers, RunReserve(c) \/ RunComplete(c) \/ RunLook(c) PROVE Exclusive'
  BY <1>4 DEF RunReserve, RunComplete, RunLook
<1>5. ASSUME NEW c \in Callers, Commit(c) \/ Busy(c) \/ Die(c) PROVE Exclusive'
  BY <1>5 DEF Commit, Busy, Die
<1>6. QED
  BY <1>1, <1>2, <1>3, <1>4, <1>5 DEF TxNext

(* What an open transaction concluded from the rows it read stays true     *)
(* until it commits.                                                       *)
LEMMA ConclusionsHold ==
  ASSUME TxInductive, [TxNext]_txVars, NEW c \in Callers, pc'[c] = "ran"
  PROVE  IF Writes(c)' THEN DraftIsStep(c)' ELSE LookIsState(c)'
<1> USE DEF TxInductive, TxTypeOK, MandateOf, TargetOf, Writes
<1>1. CASE pc[c] = "ran"
  <2>1. call'[c] = call[c] /\ answer'[c] = answer[c] /\ draft'[c] = draft[c]
    BY <1>1, CallerStep
  <2>2. rows' = rows
    <3>1. SUFFICES ASSUME rows' # rows PROVE FALSE
      OBVIOUS
    <3>2. PICK d \in Callers : /\ pc[d] = "ran" /\ Writes(d) /\ pc'[d] \in {"done", "lost"}
                               /\ \A e \in Callers : ~ Reading(e)
      BY <3>1, RowsChange
    <3>3. Writes(c)
      BY <1>1, <3>2 DEF Reading
    <3>4. c = d
      BY <1>1, <3>2, <3>3 DEF Exclusive
    <3>5. QED
      BY <3>2, <3>4
  <2>3. Writes(c)' = Writes(c)
    BY <2>1
  <2>4. DraftIsStep(c) => DraftIsStep(c)'
    BY <2>1, <2>2 DEF DraftIsStep, IsRetry, IsRefused, CanReserve, SameTuple,
        Sealed, Bound, FreshNonce, Inserted, Completed, Key
  <2>5. LookIsState(c) => LookIsState(c)'
    BY <2>1, <2>2 DEF LookIsState, SameTuple, Sealed, Bound, Key
  <2>6. QED
    BY <1>1, <2>3, <2>4, <2>5
<1>2. CASE pc[c] # "ran"
  <2>1. RunReserve(c) \/ RunComplete(c) \/ RunLook(c)
    BY <1>2 DEF TxNext, txVars, Open, Begin, Commit, Busy, Die, Return,
                RunReserve, RunComplete, RunLook, Ran
  <2>2. call' = call /\ rows' = rows
    BY <2>1 DEF RunReserve, RunComplete, RunLook, Ran, Return
  <2>3. CASE RunReserve(c)
    BY <2>2, <2>3 DEF RunReserve, Ran, DraftIsStep, IsRetry, IsRefused, CanReserve, SameTuple,
        Bound, FreshNonce, Inserted, Key
  <2>4. CASE RunComplete(c)
    BY <1>2, <2>2, <2>4 DEF RunComplete, Ran, Return, DraftIsStep, SameTuple,
        Bound, Completed, Key
  <2>5. CASE RunLook(c)
    BY <2>2, <2>5 DEF RunLook, Ran, LookIsState, ReviewState, Sealed, SameTuple, Bound, Key
  <2>6. QED
    BY <2>1, <2>3, <2>4, <2>5
<1>3. QED
  BY <1>1, <1>2

(* How a call comes to its answer.                                         *)
LEMMA NewAnswer ==
  ASSUME TxInductive, [TxNext]_txVars, NEW c \in Callers, pc[c] # "done", pc'[c] = "done",
         answer'[c] \in {"reserved", "retry", "refused", "stored", "completed"}
  PROVE  /\ pc[c] = "ran" /\ answer'[c] = answer[c] /\ call'[c] = call[c]
         /\ IF Writes(c) THEN rows' = draft[c] /\ DraftIsStep(c)
            ELSE rows' = rows /\ LookIsState(c)
<1> USE DEF TxInductive, TxTypeOK
<1>1. Commit(c)
  <2>1. CASE UNCHANGED txVars
    BY <2>1 DEF txVars
  <2>2. ASSUME NEW e \in Callers, Open(e) \/ Begin(e) PROVE FALSE
    BY <2>2 DEF Open, Begin
  <2>3. ASSUME NEW e \in Callers, RunReserve(e) \/ RunComplete(e) \/ RunLook(e) PROVE FALSE
    BY <2>3 DEF RunReserve, RunComplete, RunLook, Ran, Return
  <2>4. ASSUME NEW e \in Callers, Busy(e) \/ Die(e) PROVE FALSE
    BY <2>4 DEF Busy, Die, Return
  <2>5. ASSUME NEW e \in Callers, Commit(e) PROVE e = c
    BY <2>5 DEF Commit, Return
  <2>6. QED
    BY <2>1, <2>2, <2>3, <2>4, <2>5 DEF TxNext
<1>2. QED
  BY <1>1 DEF Commit, Return

(* What a call was told stays true after every further step of any caller. *)
LEMMA AnswersHold ==
  ASSUME TxInductive, [TxNext]_txVars PROVE AnswersStayTrue'
<1> SUFFICES ASSUME NEW c \in Callers, pc'[c] = "done"
             PROVE  /\ answer'[c] \in {"reserved", "retry"} => SameTuple(MandateOf(c), TargetOf(c))'
                    /\ answer'[c] = "refused" => IsRefused(MandateOf(c), TargetOf(c))'
                    /\ answer'[c] \in {"stored", "completed"} => Sealed(MandateOf(c), TargetOf(c))'
  BY DEF AnswersStayTrue
<1>1. TxTypeOK /\ StoreTypeOK /\ pc[c] # "idle"
  BY CallerStep DEF TxInductive, TxTypeOK
<1>2. PICK mm \in Mandates, tt \in Targets :
        /\ call[c].mandate = mm /\ call[c].target = tt
        /\ call'[c] = call[c] /\ Key(mm) \in Keys
  BY <1>1, CallerStep, CallTyped DEF MandateOf, TargetOf
<1>3. [StoreNext]_rows
  BY TxStepImplements
<1>4. SUFFICES /\ answer'[c] \in {"reserved", "retry"} => SameTuple(mm, tt)'
               /\ answer'[c] = "refused" => IsRefused(mm, tt)'
               /\ answer'[c] \in {"stored", "completed"} => Sealed(mm, tt)'
  BY <1>2 DEF MandateOf, TargetOf, SameTuple, IsRefused, IsRetry, CanReserve, FreshNonce, Sealed,
              Bound, Key
<1>5. SameTuple(mm, tt) => SameTuple(mm, tt)' /\ (Sealed(mm, tt) => Sealed(mm, tt)')
  BY <1>1, <1>2, <1>3, TupleStable
<1>6. IsRefused(mm, tt) => IsRefused(mm, tt)'
  BY <1>1, <1>2, <1>3, RefusalStable
<1>7. CASE pc[c] = "done"
  <2>1. answer'[c] = answer[c]
    BY <1>1, <1>7, CallerStep
  <2>2. QED
    BY <1>2, <1>5, <1>6, <1>7, <2>1 DEF TxInductive, AnswersStayTrue, MandateOf, TargetOf, Sealed
<1>8. CASE pc[c] # "done"
  <2>1. SUFFICES ASSUME answer'[c] \in {"reserved", "retry", "refused", "stored", "completed"}
                 PROVE  /\ answer'[c] \in {"reserved", "retry"} => SameTuple(mm, tt)'
                        /\ answer'[c] = "refused" => IsRefused(mm, tt)'
                        /\ answer'[c] \in {"stored", "completed"} => Sealed(mm, tt)'
    OBVIOUS
  <2>2. /\ pc[c] = "ran" /\ answer'[c] = answer[c]
        /\ IF Writes(c) THEN rows' = draft[c] /\ DraftIsStep(c)
           ELSE rows' = rows /\ LookIsState(c)
    BY <1>8, <2>1, NewAnswer
  <2>3. \/ answer[c] = "retry" /\ SameTuple(mm, tt)
        \/ answer[c] = "refused" /\ IsRefused(mm, tt)
        \/ answer[c] = "completed" /\ Sealed(mm, tt)
        \/ answer[c] = "reserved" /\ rows' = Inserted(mm, tt)
        \/ /\ answer[c] = "stored" /\ SameTuple(mm, tt) /\ call[c].settlement \in Requests
           /\ rows' = Completed(mm, call[c].settlement)
    BY <1>1, <1>2, <2>1, <2>2, CallTyped
       DEF DraftIsStep, LookIsState, IsRetry, MandateOf, TargetOf
  <2>4. CASE answer[c] = "reserved" /\ rows' = Inserted(mm, tt)
    BY <1>1, <1>2, <2>2, <2>4, StoreConstants DEF Inserted, SameTuple, Bound, StoreTypeOK, Row, Key
  <2>5. CASE /\ answer[c] = "stored" /\ SameTuple(mm, tt) /\ call[c].settlement \in Requests
             /\ rows' = Completed(mm, call[c].settlement)
    <3>1. SameTuple(mm, tt)'
      BY <1>5, <2>5
    <3>2. rows[Key(mm)] \in Row
      BY <1>1, <1>2, <2>5 DEF SameTuple, Bound, StoreTypeOK
    <3>3. rows'[Key(mm)].settlement = call[c].settlement
      BY <1>1, <1>2, <2>5, <3>2 DEF Completed, StoreTypeOK, Row
    <3>4. Sealed(mm, tt)'
      BY <2>5, <3>1, <3>3, StoreConstants DEF Sealed, Key
    <3>5. QED
      BY <2>2, <2>5, <3>4
  <2>6. QED
    BY <1>5, <1>6, <2>2, <2>3, <2>4, <2>5 DEF Sealed
<1>9. QED
  BY <1>7, <1>8

(* A caller that is told "reserved" found the nonce free, and whoever was  *)
(* told so before had bound it.                                            *)
LEMMA ReservedOnceHold ==
  ASSUME TxInductive, [TxNext]_txVars PROVE ReservedOnce'
<1> SUFFICES ASSUME NEW c \in Callers, NEW d \in Callers,
                    pc'[c] = "done", answer'[c] = "reserved",
                    pc'[d] = "done", answer'[d] = "reserved",
                    Key(MandateOf(c))' = Key(MandateOf(d))'
             PROVE  c = d
  BY DEF ReservedOnce
<1>1. ASSUME NEW e \in Callers, pc'[e] = "done", answer'[e] = "reserved"
      PROVE  /\ call'[e] = call[e]
             /\ pc[e] = "done" => answer[e] = "reserved" /\ Bound(MandateOf(e))
             /\ pc[e] # "done" => pc'[e] # pc[e] /\ ~ Bound(MandateOf(e))
  <2>1. CASE pc[e] = "done"
    BY <1>1, <2>1, CallerStep DEF TxInductive, AnswersStayTrue, SameTuple
  <2>2. CASE pc[e] # "done"
    BY <1>1, <2>2, NewAnswer DEF DraftIsStep, LookIsState, CanReserve
  <2>3. QED
    BY <2>1, <2>2
<1>2. Key(MandateOf(c)) = Key(MandateOf(d))
  BY <1>1 DEF MandateOf, Key
<1>3. CASE pc[c] = "done" /\ pc[d] = "done"
  BY <1>1, <1>2, <1>3 DEF TxInductive, ReservedOnce
<1>4. CASE pc[c] # "done" /\ pc[d] # "done"
  BY <1>1, <1>4, CallerStep DEF TxInductive
<1>5. QED
  BY <1>1, <1>2, <1>3, <1>4 DEF Bound

(* The strengthening is inductive.                                         *)
THEOREM TxInvariant == TxSpec => []TxInductive
<1>1. TxInit => TxInductive
  <2> SUFFICES ASSUME TxInit PROVE TxInductive
    OBVIOUS
  <2>1. TxTypeOK
    BY DEF TxInit, TxTypeOK, StoreInit, StoreTypeOK, PCs, Answers
  <2>2. QED
    BY <2>1 DEF TxInit, TxInductive, Exclusive, AnswersStayTrue, ReservedOnce
<1>2. TxInductive /\ [TxNext]_txVars => TxInductive'
  <2> SUFFICES ASSUME TxInductive, [TxNext]_txVars PROVE TxInductive'
    OBVIOUS
  <2>1. TxTypeOK' /\ Exclusive'
    BY TxTypeStep, ExclusiveHold DEF TxInductive
  <2>2. QED
    BY <2>1, ConclusionsHold, AnswersHold, ReservedOnceHold DEF TxInductive
<1>3. QED
  BY <1>1, <1>2, PTL DEF TxSpec

(* The transactions refine the ledger that GuardServer is built on: every  *)
(* call of withReplayDatabase is one step of it, or none.                  *)
THEOREM TransactionsImplementStore == TxSpec => ImplementsStore
<1>1. TxInit => StoreInit
  BY DEF TxInit
<1>2. TxInductive /\ [TxNext]_txVars => [StoreNext]_rows
  BY TxStepImplements
<1>3. QED
  BY <1>1, <1>2, TxInvariant, PTL DEF TxSpec, ImplementsStore, StoreSpec

(* Of all callers at most one is told that it reserved a nonce.            *)
THEOREM OneCallerReserves == TxSpec => []ReservedOnce
<1>1. TxInductive => ReservedOnce
  BY DEF TxInductive
<1>2. QED
  BY <1>1, TxInvariant, PTL

(* What the ledger answered stays true.                                    *)
THEOREM AnswersAreFinal == TxSpec => []AnswersStayTrue
<1>1. TxInductive => AnswersStayTrue
  BY DEF TxInductive
<1>2. QED
  BY <1>1, TxInvariant, PTL
============================================================================
