------------------------------ MODULE FQueueJni ------------------------------
(***************************************************************************)
(* fqueue_jni.c: the table of open queues behind the Java class FQueue.    *)
(* Every native call runs under g_mutex and is one step, except deQueueXA, *)
(* which unlocks before it builds the Java message and, when that fails,   *)
(* locks again to cancel the XA it began.                                  *)
(*                                                                         *)
(* FileQueue itself is external: a queue delivers its oldest message under *)
(* XA and keeps its dequeue lock until the XA is committed or cancelled;   *)
(* while the lock is held, on_de_XA() through another slot gives nothing.  *)
(*                                                                         *)
(* commit() and cancel() know a message by its slot and sequence number    *)
(* alone, and Java may keep an FQueueMessage for ever: an object that was  *)
(* used before resolves a later XA of the same slot and number, that of a  *)
(* redelivery, or of another queue opened in the slot meanwhile.           *)
(***************************************************************************)
EXTENDS Naturals, Sequences

CONSTANTS
    JavaThread,     \* threads that call into the library
    Queue,          \* queue names
    NoQueue,        \* a slot that is not open
    Slots,          \* JNI_MAX_QUEUES
    MaxSeq          \* bound of the model: messages enqueued per queue

ASSUME JniAssumption ==
    /\ NoQueue \notin Queue
    /\ Slots \in Nat \ {0} /\ MaxSeq \in Nat

VARIABLES
    logger,         \* g_logger # NULL
    slot,           \* g_queues
    stored,         \* stored[q]: uncommitted messages of the queue, oldest first
    lastSeq,        \* lastSeq[q]: the sequence number given last
    lockedBy,       \* lockedBy[q]: the slot that holds the dequeue lock
    building,       \* building[t]: the message t is making a Java object of
    tokens,         \* messages Java has an object for that it has not used yet
    spent,          \* messages Java has a used object for
    reused          \* history: messages whose XA a used object has resolved

objects == <<tokens, spent, reused>>
vars == <<logger, slot, stored, lastSeq, lockedBy, building, objects>>

SlotId == 0..(Slots - 1)
NoSlot == Slots
NoToken == [slot |-> NoSlot, seq |-> 0]
Token == [slot : SlotId, seq : 1..MaxSeq]

Closed == [queue |-> NoQueue, pending |-> FALSE, seq |-> 0]

\* valid_queue_id()
Valid(i) == slot[i].queue # NoQueue

-----------------------------------------------------------------------------
OpenLogger ==
    /\ ~logger
    /\ logger' = TRUE
    /\ UNCHANGED <<slot, stored, lastSeq, lockedBy, building, objects>>

\* Refused while a queue is open.
CloseLogger ==
    /\ logger
    /\ \A i \in SlotId : ~Valid(i)
    /\ logger' = FALSE
    /\ UNCHANGED <<slot, stored, lastSeq, lockedBy, building, objects>>

\* The first free slot takes the queue; the same queue may be in two slots.
OpenQueue(q) ==
    /\ logger
    /\ \E i \in SlotId :
          /\ ~Valid(i)
          /\ \A j \in SlotId : j < i => Valid(j)
          /\ slot' = [slot EXCEPT ![i] = [Closed EXCEPT !.queue = q]]
    /\ UNCHANGED <<logger, stored, lastSeq, lockedBy, building, objects>>

\* Refused while the slot has an unresolved XA.
CloseQueue(i) ==
    /\ Valid(i)
    /\ ~slot[i].pending
    /\ slot' = [slot EXCEPT ![i] = Closed]
    /\ UNCHANGED <<logger, stored, lastSeq, lockedBy, building, objects>>

\* Refused while the slot has an unresolved XA.
EnQueue(i) ==
    /\ Valid(i) /\ logger
    /\ ~slot[i].pending
    /\ LET q == slot[i].queue
       IN /\ lastSeq[q] < MaxSeq
          /\ lastSeq' = [lastSeq EXCEPT ![q] = @ + 1]
          /\ stored' = [stored EXCEPT ![q] = Append(@, lastSeq[q] + 1)]
    /\ UNCHANGED <<logger, slot, lockedBy, building, objects>>

\* The locked part of deQueueXA().
DeQueueXA(t, i) ==
    /\ building[t] = NoToken
    /\ Valid(i) /\ logger
    /\ ~slot[i].pending
    /\ LET q == slot[i].queue
       IN /\ stored[q] # <<>>
          /\ lockedBy[q] = NoSlot
          /\ lockedBy' = [lockedBy EXCEPT ![q] = i]
          /\ slot' = [slot EXCEPT ![i].pending = TRUE, ![i].seq = Head(stored[q])]
          /\ building' = [building EXCEPT ![t] = [slot |-> i, seq |-> Head(stored[q])]]
    /\ UNCHANGED <<logger, stored, lastSeq, objects>>

\* The FQueueMessage object is handed to Java.
Deliver(t) ==
    /\ building[t] # NoToken
    /\ tokens' = tokens \cup {building[t]}
    /\ building' = [building EXCEPT ![t] = NoToken]
    /\ UNCHANGED <<logger, slot, stored, lastSeq, lockedBy, spent, reused>>

\* The check commit(), cancel() and a failing deQueueXA() make under the
\* mutex: the slot still has this XA.
Pending(tok) == Valid(tok.slot) /\ slot[tok.slot].pending /\ slot[tok.slot].seq = tok.seq

\* xa_pending and xa_seq are cleared, and FileQueue gives its lock back.
Resolve(tok) ==
    /\ slot' = [slot EXCEPT ![tok.slot].pending = FALSE, ![tok.slot].seq = 0]
    /\ lockedBy' = [lockedBy EXCEPT ![slot[tok.slot].queue] = NoSlot]

\* Fault: the XA is not cancelled.
DeliverFailsOnly(t) ==
    /\ building[t] # NoToken
    /\ building' = [building EXCEPT ![t] = NoToken]
    /\ UNCHANGED <<logger, slot, stored, lastSeq, lockedBy, objects>>

\* Fault: the XA is cancelled and the slot still says it is pending.
DeliverFailsKeepsSlot(t) ==
    /\ building[t] # NoToken
    /\ lockedBy' = [lockedBy EXCEPT ![slot[building[t].slot].queue] = NoSlot]
    /\ building' = [building EXCEPT ![t] = NoToken]
    /\ UNCHANGED <<logger, slot, stored, lastSeq, objects>>

\* Fault: whatever XA the slot has by now is cancelled.
DeliverFailsUnchecked(t) ==
    /\ building[t] # NoToken
    /\ IF Valid(building[t].slot) /\ slot[building[t].slot].pending
       THEN Resolve(building[t])
       ELSE UNCHANGED <<slot, lockedBy>>
    /\ building' = [building EXCEPT ![t] = NoToken]
    /\ UNCHANGED <<logger, stored, lastSeq, objects>>

\* An object could not be made: the XA is cancelled if it is still this one.
DeliverFails(t) ==
    /\ building[t] # NoToken
    /\ IF Pending(building[t])
       THEN Resolve(building[t])
       ELSE UNCHANGED <<slot, lockedBy>>
    /\ building' = [building EXCEPT ![t] = NoToken]
    /\ UNCHANGED <<logger, stored, lastSeq, objects>>

\* Java passes an object it has not used yet, or one it has.
FirstUse(tok) ==
    /\ tok \in tokens
    /\ tokens' = tokens \ {tok}
    /\ spent' = spent \cup {tok}
    /\ UNCHANGED reused

SecondUse(tok) ==
    /\ tok \in spent
    /\ reused' = reused \cup {tok}
    /\ UNCHANGED <<tokens, spent>>

\* on_commit_XA() succeeds and the message is gone, or fails and it is not;
\* "a failed commit can also release the FileQueue dequeue lock".
Commit(tok) ==
    /\ FirstUse(tok) \/ SecondUse(tok)
    /\ Pending(tok) /\ logger
    /\ \/ stored' = [stored EXCEPT ![slot[tok.slot].queue] = Tail(@)]
       \/ UNCHANGED stored
    /\ Resolve(tok)
    /\ UNCHANGED <<logger, lastSeq, building>>

Cancel(tok) ==
    /\ FirstUse(tok) \/ SecondUse(tok)
    /\ Pending(tok) /\ logger
    /\ Resolve(tok)
    /\ UNCHANGED <<logger, stored, lastSeq, building>>

\* commit() or cancel() returns -1 at once: the slot has another XA or none.
Refused(tok) ==
    /\ FirstUse(tok)
    /\ ~(Pending(tok) /\ logger)
    /\ UNCHANGED <<logger, slot, stored, lastSeq, lockedBy, building>>

-----------------------------------------------------------------------------
Init ==
    /\ logger = FALSE
    /\ slot = [i \in SlotId |-> Closed]
    /\ stored = [q \in Queue |-> <<>>]
    /\ lastSeq = [q \in Queue |-> 0]
    /\ lockedBy = [q \in Queue |-> NoSlot]
    /\ building = [t \in JavaThread |-> NoToken]
    /\ tokens = {} /\ spent = {} /\ reused = {}

Next ==
    \/ OpenLogger \/ CloseLogger
    \/ \E q \in Queue : OpenQueue(q)
    \/ \E i \in SlotId :
          CloseQueue(i) \/ EnQueue(i) \/ \E t \in JavaThread : DeQueueXA(t, i)
    \/ \E t \in JavaThread : Deliver(t) \/ DeliverFails(t)
    \/ \E tok \in Token : Commit(tok) \/ Cancel(tok) \/ Refused(tok)

Spec == Init /\ [][Next]_vars

-----------------------------------------------------------------------------
(* Properties *)

\* The table and the queues hold values of their types; xa_seq is 0 in a
\* slot without XA.
TypeOK ==
    /\ logger \in BOOLEAN
    /\ slot \in [SlotId -> [queue : Queue \cup {NoQueue}, pending : BOOLEAN, seq : 0..MaxSeq]]
    /\ \A i \in SlotId : slot[i].pending <=> slot[i].seq # 0
    /\ stored \in [Queue -> Seq(1..MaxSeq)]
    /\ lastSeq \in [Queue -> 0..MaxSeq]
    /\ lockedBy \in [Queue -> SlotId \cup {NoSlot}]
    /\ building \in [JavaThread -> Token \cup {NoToken}]
    /\ tokens \subseteq Token /\ spent \subseteq Token /\ reused \subseteq spent

\* xa_pending is what it stands for: the slot holds the dequeue lock of the
\* queue it has open.
PendingMeansLocked ==
    \A i \in SlotId : slot[i].pending <=> \E q \in Queue : lockedBy[q] = i

\* A queue is never "left locked without a token to commit it": its message is
\* a token Java holds, or a deQueueXA() is still at work on it. Unless a used
\* object has resolved an XA of this slot and number before, the message is in
\* one hand only and nobody has another message of this queue.
LockedHasOwner ==
    \A q \in Queue : lockedBy[q] # NoSlot =>
        LET tok == [slot |-> lockedBy[q], seq |-> Head(stored[q])]
        IN /\ tok \in tokens \/ \E t \in JavaThread : building[t] = tok
           /\ tok \notin reused => \A t, u \in JavaThread :
                 building[t] = tok => tok \notin tokens /\ (building[u] = tok => u = t)
           /\ \A other \in tokens \ reused : slot[other.slot].queue = q => other = tok

\* A token Java holds can still be resolved: no close, no failing delivery and
\* no other caller takes the XA from under it. Only an object that was used
\* before and is used again, for the same slot and number, can do that.
OnlyReuseTakesTokens == \A tok \in tokens \ reused : Pending(tok) /\ logger
=============================================================================
