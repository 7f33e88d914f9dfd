--------------------------- MODULE ReplayStoreTx ---------------------------
(***************************************************************************)
(* The replay ledger with its transactions opened up: withReplayDatabase   *)
(* of src/src/replay-store.ts, called by several processes or threads on   *)
(* one SQLite file.  A write takes SQLite's write lock at BEGIN IMMEDIATE; *)
(* a lookup takes a shared lock at its SELECT, under which no dirty        *)
(* transaction commits.  Whoever waits for a lock longer than the busy     *)
(* timeout gives up.  A process may end anywhere, also inside COMMIT.      *)
(*                                                                         *)
(* rows is what is committed; a caller works on its draft.                 *)
(***************************************************************************)
EXTENDS ReplayStore

CONSTANTS
    Callers,     \* one call of the store each
    Calls,       \* the calls they may make
    NoCall,      \* a caller that has not called yet
    NoCaller     \* the write lock is free

Call == [op : {"reserve"}, mandate : Mandates, target : Targets, settlement : {None}]
        \cup [op : {"complete"}, mandate : Mandates, target : Targets, settlement : Requests]
        \cup [op : {"look"}, mandate : Mandates, target : Targets, settlement : {None}]

ASSUME TxConstants ==
    /\ Calls \subseteq Call
    /\ NoCall \notin Calls
    /\ NoCaller \notin Callers

VARIABLES
    writer,      \* who holds the write lock
    pc,          \* how far each call is
    call,        \* what was called
    draft,       \* the ledger as an open write transaction sees it
    answer       \* the value returned

txVars == <<rows, writer, pc, call, draft, answer>>

PCs == {"idle", "opened", "begun", "ran", "done", "lost"}
Answers == {"none", "reserved", "retry", "refused", "stored",
            "absent", "pending", "completed", "error", "busy"}

MandateOf(c) == call[c].mandate
TargetOf(c) == call[c].target
Writes(c) == call[c].op # "look"

TxTypeOK ==
    /\ StoreTypeOK
    /\ writer \in Callers \cup {NoCaller}
    /\ pc \in [Callers -> PCs]
    /\ call \in [Callers -> Calls \cup {NoCall}]
    /\ draft \in [Callers -> [Keys -> Row \cup {NoRow}]]
    /\ answer \in [Callers -> Answers]
    /\ \A c \in Callers : pc[c] # "idle" => call[c] \in Calls

TxInit ==
    /\ StoreInit
    /\ writer = NoCaller
    /\ pc = [c \in Callers |-> "idle"]
    /\ call = [c \in Callers |-> NoCall]
    /\ draft = [c \in Callers |-> rows]
    /\ answer = [c \in Callers |-> "none"]

----------------------------------------------------------------------------
Release(c) == writer' = IF writer = c THEN NoCaller ELSE writer

(* The call returns or throws; the connection is closed either way.        *)
Return(c, value) ==
    /\ pc' = [pc EXCEPT ![c] = "done"]
    /\ answer' = [answer EXCEPT ![c] = value]
    /\ Release(c)
    /\ UNCHANGED <<call, draft>>

(* The statements ran; COMMIT is next.                                     *)
Ran(c, value, after) ==
    /\ pc' = [pc EXCEPT ![c] = "ran"]
    /\ answer' = [answer EXCEPT ![c] = value]
    /\ draft' = [draft EXCEPT ![c] = after]
    /\ UNCHANGED <<rows, writer, call>>

Open(c) ==
    /\ pc[c] = "idle"
    /\ \E k \in Calls : call' = [call EXCEPT ![c] = k]
    /\ pc' = [pc EXCEPT ![c] = "opened"]
    /\ UNCHANGED <<rows, writer, draft, answer>>

(* Fault: a write begins like a lookup, without the lock.                  *)
BeginDeferred(c) ==
    /\ pc[c] = "opened"
    /\ pc' = [pc EXCEPT ![c] = "begun"]
    /\ UNCHANGED <<rows, writer, call, draft, answer>>

Begin(c) ==
    /\ pc[c] = "opened"
    /\ \/ Writes(c) /\ writer = NoCaller /\ writer' = c
       \/ ~ Writes(c) /\ UNCHANGED writer
    /\ pc' = [pc EXCEPT ![c] = "begun"]
    /\ UNCHANGED <<rows, call, draft, answer>>

RunReserve(c) ==
    /\ pc[c] = "begun" /\ call[c].op = "reserve"
    /\ \/ IsRetry(MandateOf(c), TargetOf(c)) /\ Ran(c, "retry", rows)
       \/ IsRefused(MandateOf(c), TargetOf(c)) /\ Ran(c, "refused", rows)
       \/ CanReserve(MandateOf(c), TargetOf(c)) /\ Ran(c, "reserved", Inserted(MandateOf(c), TargetOf(c)))

(* An UPDATE that matches no row throws, and is rolled back.               *)
RunComplete(c) ==
    /\ pc[c] = "begun" /\ call[c].op = "complete"
    /\ IF SameTuple(MandateOf(c), TargetOf(c)) THEN Ran(c, "stored", Completed(MandateOf(c), call[c].settlement))
       ELSE Return(c, "error") /\ UNCHANGED rows

RunLook(c) ==
    /\ pc[c] = "begun" /\ call[c].op = "look"
    /\ Ran(c, ReviewState(MandateOf(c), TargetOf(c)), rows)

Dirty(c) == pc[c] = "ran" /\ Writes(c) /\ draft[c] # rows
Reading(c) == pc[c] = "ran" /\ ~ Writes(c)

Commit(c) ==
    /\ pc[c] = "ran"
    /\ Dirty(c) => \A d \in Callers : ~ Reading(d)
    /\ rows' = IF Writes(c) THEN draft[c] ELSE rows
    /\ Return(c, answer[c])

(* Fault: a COMMIT that could not get its lock is taken for done.          *)
BusyUnnoticed(c) ==
    /\ \/ pc[c] = "opened" /\ Writes(c) /\ writer # NoCaller
       \/ pc[c] = "begun" /\ ~ Writes(c) /\ \E d \in Callers : Dirty(d)
       \/ Dirty(c) /\ \E d \in Callers : Reading(d)
    /\ Return(c, IF pc[c] = "ran" THEN answer[c] ELSE "busy")
    /\ UNCHANGED rows

(* The busy timeout expires: at BEGIN, under another write; at SELECT,     *)
(* under another's COMMIT; at COMMIT, under a lookup.  It rolls back.      *)
Busy(c) ==
    /\ \/ pc[c] = "opened" /\ Writes(c) /\ writer # NoCaller
       \/ pc[c] = "begun" /\ ~ Writes(c) /\ \E d \in Callers : Dirty(d)
       \/ Dirty(c) /\ \E d \in Callers : Reading(d)
    /\ Return(c, "busy")
    /\ UNCHANGED rows

(* The process ends.  SQLite rolls an interrupted transaction back, unless *)
(* its COMMIT was through.                                                 *)
Die(c) ==
    /\ pc[c] \in {"opened", "begun", "ran"}
    /\ pc' = [pc EXCEPT ![c] = "lost"]
    /\ answer' = [answer EXCEPT ![c] = "none"]
    /\ Release(c)
    /\ \/ UNCHANGED rows
       \/ Dirty(c) /\ (\A d \in Callers : ~ Reading(d)) /\ rows' = draft[c]
    /\ UNCHANGED <<call, draft>>

TxNext ==
    \E c \in Callers :
        \/ Open(c) \/ Begin(c)
        \/ RunReserve(c) \/ RunComplete(c) \/ RunLook(c)
        \/ Commit(c) \/ Busy(c) \/ Die(c)

TxSpec == TxInit /\ [][TxNext]_txVars

----------------------------------------------------------------------------
(* Every call takes effect as one step of the ledger, at its COMMIT, or    *)
(* has no effect at all: what GuardServer takes for granted of the store.  *)
ImplementsStore == StoreSpec

(* Of all callers, whatever the process they run in, at most one is ever   *)
(* told that it reserved a given tenant nonce.                             *)
ReservedOnce ==
    \A c, d \in Callers :
        /\ pc[c] = "done" /\ answer[c] = "reserved"
        /\ pc[d] = "done" /\ answer[d] = "reserved"
        /\ Key(MandateOf(c)) = Key(MandateOf(d))
        => c = d

(* What a write, or a lookup that found a completion, was told stays true  *)
(* for ever: a refusal too, since a nonce that was too low or taken can    *)
(* never be reserved for the refused tuple.                                *)
AnswersStayTrue ==
    \A c \in Callers : pc[c] = "done" =>
        /\ answer[c] \in {"reserved", "retry"} => SameTuple(MandateOf(c), TargetOf(c))
        /\ answer[c] = "refused" => IsRefused(MandateOf(c), TargetOf(c))
        /\ answer[c] \in {"stored", "completed"} => Sealed(MandateOf(c), TargetOf(c))

(* The inductive invariant: writes exclude one another, so that what a     *)
(* write concluded from the rows it read still holds when it commits.      *)
Exclusive ==
    \A c \in Callers : pc[c] \in {"begun", "ran"} /\ Writes(c) => writer = c

DraftIsStep(c) ==
    \/ answer[c] = "retry" /\ IsRetry(MandateOf(c), TargetOf(c)) /\ draft[c] = rows
    \/ answer[c] = "refused" /\ IsRefused(MandateOf(c), TargetOf(c)) /\ draft[c] = rows
    \/ answer[c] = "reserved" /\ CanReserve(MandateOf(c), TargetOf(c)) /\ draft[c] = Inserted(MandateOf(c), TargetOf(c))
    \/ /\ answer[c] = "stored" /\ call[c].op = "complete" /\ SameTuple(MandateOf(c), TargetOf(c))
       /\ draft[c] = Completed(MandateOf(c), call[c].settlement)

LookIsState(c) ==
    /\ answer[c] \in {"absent", "pending", "completed"}
    /\ answer[c] = "completed" => Sealed(MandateOf(c), TargetOf(c))

TxInductive ==
    /\ TxTypeOK
    /\ Exclusive
    /\ \A c \in Callers : pc[c] = "ran" =>
         IF Writes(c) THEN DraftIsStep(c) ELSE LookIsState(c)
    /\ AnswersStayTrue
    /\ ReservedOnce
============================================================================
