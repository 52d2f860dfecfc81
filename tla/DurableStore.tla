---------------------------- MODULE DurableStore ----------------------------
(***************************************************************************)
(* DurableStore.java: the map of messages, the operations that change it   *)
(* under a striped lock and only after the journal record is durable, and  *)
(* the constructor that rebuilds the map from the journal.  The journal    *)
(* itself is module Journal.                                               *)
(*                                                                         *)
(* An operation whose check fails (an unknown id, an output checkpoint     *)
(* that is not the next one, an id that is staged already) or whose append *)
(* is refused changes nothing and is not an action.                        *)
(***************************************************************************)
EXTENDS Journal

CONSTANTS
    Id,             \* message ids
    Result,         \* the results setResultPending() is given
    NoResult,       \* result = null
    Stripe,         \* indices of messageLocks
    stripeOf,       \* lockFor(): the stripe of an id
    NoOp            \* the thread is in no operation

VARIABLES
    messages,       \* messages[id]: the entry of the map, or Absent
    op,             \* op[t]: the record thread t is appending, its lock held
    loaded,         \* history: how many records the last constructor read
    uncertain       \* history: the events per id this process appended
                    \* without learning their outcome

State == {"COMMITTING", "READY", "PROCESSING", "RETRY_WAIT", "RESULT_PENDING", "DONE"}

\* The states BundleReader and BundleAgent pass to setState().
SettableState == {"READY", "PROCESSING", "DONE"}

Event == {"STAGE", "STATE", "RETRY", "RESULT", "PUBLISHED", "DISCARD"}

\* The journal's JSON objects, with the counts that may be in them; of a
\* message's fields only those that change.
StoreRecord(Count) ==
    [event : {"STAGE", "DISCARD"}, id : Id]
      \cup [event : {"STATE"}, id : Id, state : SettableState]
      \cup [event : {"RETRY", "PUBLISHED"}, id : Id, count : Count]
      \cup [event : {"RESULT"}, id : Id, result : Result]

\* The set Record bounds a model: it need not have every count.
ASSUME StoreAssumption ==
    /\ stripeOf \in [Id -> Stripe]
    /\ NoResult \notin Result
    /\ Record \subseteq StoreRecord(Nat \ {0})
    /\ NoOp \notin Record

Absent == [state |-> "ABSENT"]

Entry == [state : State, retryCount : Nat, result : Result \cup {NoResult},
          publishedCount : Nat]

storeVars == <<vars, messages, op, loaded, uncertain>>

-----------------------------------------------------------------------------
(* What a record does to the entry of its id *)

NewEntry == [state |-> "COMMITTING", retryCount |-> 0, result |-> NoResult,
             publishedCount |-> 0]

\* In memory, after append() has returned.
Effect(r, m) ==
    CASE r.event = "STAGE"     -> NewEntry
      [] r.event = "STATE"     -> [m EXCEPT !.state = r.state]
      [] r.event = "RETRY"     -> [m EXCEPT !.retryCount = r.count, !.state = "RETRY_WAIT"]
      [] r.event = "RESULT"    -> [m EXCEPT !.result = r.result, !.publishedCount = 0,
                                            !.state = "RESULT_PENDING"]
      [] r.event = "PUBLISHED" -> [m EXCEPT !.publishedCount = r.count]
      [] r.event = "DISCARD"   -> Absent

\* The loop of recoverJournal(): the next record is read; ok = FALSE once
\* require() has thrown.
ReplayRecord(prev, r) ==
    LET m == prev.messages[r.id]
        new == CASE r.event = "STAGE"     -> NewEntry
                 [] r.event = "STATE"     -> [m EXCEPT !.state = r.state]
                 [] r.event = "RETRY"     -> [m EXCEPT !.retryCount = r.count,
                                                       !.state = "RETRY_WAIT"]
                 [] r.event = "RESULT"    -> [m EXCEPT !.result = r.result,
                                                       !.state = "RESULT_PENDING",
                                                       !.publishedCount = 0]
                 [] r.event = "PUBLISHED" -> [m EXCEPT !.publishedCount = r.count]
                 [] r.event = "DISCARD"   -> Absent
    IN IF ~prev.ok \/ (r.event \notin {"STAGE", "DISCARD"} /\ m = Absent)
       THEN [prev EXCEPT !.ok = FALSE]
       ELSE [prev EXCEPT !.messages[r.id] = new]

\* The map after the first n records of the file.
Replayed[n \in Nat] ==
    IF n = 0 THEN [ok |-> TRUE, messages |-> [id \in Id |-> Absent]]
    ELSE ReplayRecord(Replayed[n - 1], file[n])

-----------------------------------------------------------------------------
(* The operations *)

\* Fault: the stripe is not locked.
NoLock(id) == id \in Id

LockFree(id) ==
    \A t \in Thread : op[t] # NoOp => stripeOf[op[t].id] # stripeOf[id]

\* From taking the lock to waiting in append(); an interrupted thread is out
\* of the operation again at once, its record on the way to the file.
Begin(t, r) ==
    /\ op[t] = NoOp
    /\ LockFree(r.id)
    /\ r \in Record
    /\ Submit(t, r)
    /\ IF interrupted[t]
       THEN /\ uncertain' = [uncertain EXCEPT ![r.id] = @ \cup {r.event}]
            /\ UNCHANGED op
       ELSE /\ op' = [op EXCEPT ![t] = r]
            /\ UNCHANGED uncertain
    /\ UNCHANGED <<messages, loaded>>

Known(id) == messages[id] # Absent

Stage(t, id) ==
    /\ ~Known(id)
    /\ Begin(t, [event |-> "STAGE", id |-> id])

\* Fault: the id is not looked up.
SetStateUnchecked(t, id, s) == Begin(t, [event |-> "STATE", id |-> id, state |-> s])

SetState(t, id, s) ==
    /\ Known(id)
    /\ Begin(t, [event |-> "STATE", id |-> id, state |-> s])

Discard(t, id) ==
    /\ Known(id)
    /\ Begin(t, [event |-> "DISCARD", id |-> id])

SetRetry(t, id) ==
    /\ Known(id)
    /\ Begin(t, [event |-> "RETRY", id |-> id, count |-> messages[id].retryCount + 1])

SetResultPending(t, id, res) ==
    /\ Known(id)
    /\ Begin(t, [event |-> "RESULT", id |-> id, result |-> res])

SetPublishedCount(t, id, count) ==
    /\ Known(id)
    /\ count = messages[id].publishedCount + 1
    /\ Begin(t, [event |-> "PUBLISHED", id |-> id, count |-> count])

\* append() has returned: the map is changed and the lock released.
Complete(t) ==
    /\ call[t] = "done"
    /\ Return(t)
    /\ messages' = [messages EXCEPT ![op[t].id] = Effect(op[t], @)]
    /\ op' = [op EXCEPT ![t] = NoOp]
    /\ UNCHANGED <<loaded, uncertain>>

\* append() has thrown: the map is left alone and the lock released.
Abort(t) ==
    /\ \/ call[t] = "error" /\ Return(t)
       \/ ThrowInterrupted(t)
    /\ op' = [op EXCEPT ![t] = NoOp]
    /\ uncertain' = [uncertain EXCEPT ![op[t].id] = @ \cup {op[t].event}]
    /\ UNCHANGED <<messages, loaded>>

-----------------------------------------------------------------------------
(* The constructor, and the end of the process *)

RecoverStore ==
    /\ Replayed[Len(file)].ok
    /\ Recover
    /\ messages' = Replayed[Len(file)].messages
    /\ loaded' = Len(file)
    /\ UNCHANGED <<op, uncertain>>

\* require() throws while the journal is replayed: the torn record is cut
\* off by then, but the constructor does not return.
RecoverThrows ==
    /\ ~up
    /\ ~Replayed[Len(file)].ok
    /\ torn
    /\ torn' = FALSE
    /\ forced' = Len(file)
    /\ UNCHANGED <<up, file, queue, batch, written, writer, failure, closing, closed,
                   call, interrupted, acked, messages, op, loaded, uncertain>>

Crash ==
    /\ ProcessDies \/ PowerLoss
    /\ messages' = [id \in Id |-> Absent]
    /\ op' = [t \in Thread |-> NoOp]
    /\ loaded' = 0
    /\ uncertain' = [id \in Id |-> {}]

-----------------------------------------------------------------------------
StoreInit ==
    /\ Init
    /\ messages = [id \in Id |-> Absent]
    /\ op = [t \in Thread |-> NoOp]
    /\ loaded = 0
    /\ uncertain = [id \in Id |-> {}]

Operation(t, id) ==
    \/ Stage(t, id)
    \/ \E s \in SettableState : SetState(t, id, s)
    \/ Discard(t, id)
    \/ SetRetry(t, id)
    \/ \E res \in Result : SetResultPending(t, id, res)
    \/ \E n \in 1..MaxRecords : SetPublishedCount(t, id, n)

Quiet == UNCHANGED <<messages, op, loaded, uncertain>>

StoreNext ==
    \/ \E t \in Thread :
          \/ \E id \in Id : Operation(t, id)
          \/ Complete(t) \/ Abort(t)
          \/ Interrupt(t) /\ Quiet
    \/ Writer /\ Quiet
    \/ BeginClose /\ Quiet
    \/ EndClose /\ Quiet
    \/ RecoverStore \/ RecoverThrows \/ Crash

StoreSpec == StoreInit /\ [][StoreNext]_storeVars

-----------------------------------------------------------------------------
(* Properties *)

\* The fields of the store and of its entries hold values of their types.
StoreTypeOK ==
    /\ TypeOK
    /\ messages \in [Id -> Entry \cup {Absent}]
    /\ op \in [Thread -> Record \cup {NoOp}]
    /\ loaded \in 0..Len(file)
    /\ uncertain \in [Id -> SUBSET Event]

\* The entries a caller of the store may count on for id: the one in memory,
\* or that one changed by the operation under way.
Expected(id) ==
    {messages[id]} \cup
    {Effect(op[t], messages[id]) : t \in {u \in Thread : op[u] # NoOp /\ op[u].id = id}}

\* How much of the file can be left after a crash at this moment, as far as
\* it was written by this process.
CrashPoints == (IF forced >= loaded THEN forced ELSE loaded)..Len(file)

\* "Journal state and memory state must agree": wherever a crash cuts the
\* journal now, replaying the rest, if that succeeds, gives the entry in
\* memory, or that entry after the one operation in progress on this id.  Ids
\* with an append of unknown outcome are excepted; DurableStore tells their
\* callers to stop.
JournalAgreesWithMemory ==
    up => \A id \in Id : uncertain[id] = {} =>
             \A k \in CrashPoints :
                 Replayed[k].ok => Replayed[k].messages[id] \in Expected(id)

\* An operation that is about to return normally is in every such replay.
SuccessIsDurable ==
    \A t \in Thread : call[t] = "done" =>
        LET id == op[t].id
        IN uncertain[id] = {} =>
              \A k \in CrashPoints : Replayed[k].ok =>
                  Replayed[k].messages[id] = Effect(op[t], messages[id])

\* At any crash point the constructor of the next process succeeds, unless a
\* discard() of unknown outcome was followed by other calls for its id: only
\* then can the journal name an id it no longer knows.  (In that case the
\* replay fails for all ids, those whose operations succeeded included.)
JournalCanBeReplayed ==
    up /\ (\A id \in Id : "DISCARD" \notin uncertain[id]) =>
        \A k \in forced..Len(file) : Replayed[k].ok

\* "Result must be durable before it is published": the publisher reads its
\* work from the map, so a result found there has to be on the disk.
ResultIsDurable ==
    up => \A id \in Id : messages[id].state = "RESULT_PENDING" /\ uncertain[id] = {} =>
        Replayed[forced].messages[id].state # "ABSENT"
          /\ Replayed[forced].messages[id].result = messages[id].result
=============================================================================
