---------------------------- MODULE BundleReader ----------------------------
(***************************************************************************)
(* BundleReader.java: the thread that moves messages from the input queue  *)
(* into the durable store and packs them into bundles.  A message is held  *)
(* in an XA transaction of the queue from deQueueXA() to commit(); it is   *)
(* staged before the commit and marked READY after it.                     *)
(*                                                                         *)
(* The input queue is FileQueue, outside this repository: a set of         *)
(* uncommitted messages delivered in the order of their sequence numbers,  *)
(* which takes an uncommitted message back when its reader disappears.     *)
(***************************************************************************)
EXTENDS MessageStore

CONSTANTS
    HealthCheck,        \* the input messages that are health checks
    BundleSize,         \* bundle.size
    QueueCapacity       \* bundle.queue.capacity

ASSUME BundleReaderAssumption ==
    /\ HealthCheck \subseteq Msg
    /\ BundleSize \in Nat \ {0} /\ QueueCapacity \in Nat \ {0}

VARIABLES
    input,          \* messages the input queue still holds, uncommitted
    xa,             \* the message the reader has dequeued and not resolved
    last,           \* the message committed last, 0 before the first
    reader,         \* where the reader thread is
    wasKnown,       \* its local variable of that name
    bundle,         \* its local bundle
    bundleQueue     \* the bounded queue of bundles to the dispatcher

readerVars == <<input, xa, last, reader, wasKnown, bundle, bundleQueue>>

NoMsg == 0

Earliest(S) == CHOOSE m \in S : \A n \in S : m <= n

-----------------------------------------------------------------------------
\* Fault: the message is not staged.
ReaderSkipsStaging ==
    /\ reader = "dequeue" /\ running
    /\ input # {}
    /\ xa' = Earliest(input)
    /\ input' = input \ {xa'}
    /\ wasKnown' = Known(xa')
    /\ reader' = "commit"
    /\ UNCHANGED <<last, bundle, bundleQueue, storeVars, running>>

\* deQueueXA() delivers the next message.
ReaderDequeues ==
    /\ reader = "dequeue" /\ running
    /\ input # {}
    /\ xa' = Earliest(input)
    /\ input' = input \ {xa'}
    /\ wasKnown' = Known(xa')
    /\ reader' = IF xa' \in HealthCheck THEN "commit" ELSE "stage"
    /\ UNCHANGED <<last, bundle, bundleQueue, storeVars, running>>

\* deQueueXA() returns null and the flush interval is over; put() waits for
\* room.
ReaderFlushes ==
    /\ reader = "dequeue" /\ running
    /\ bundle # <<>>
    /\ Len(bundleQueue) < QueueCapacity
    /\ bundleQueue' = Append(bundleQueue, bundle)
    /\ bundle' = <<>>
    /\ UNCHANGED <<input, xa, last, reader, wasKnown, storeVars, running>>

\* store.stage() returns the entry it had, or a new one.
ReaderStages ==
    /\ reader = "stage"
    /\ IF Known(xa) THEN UNCHANGED storeVars ELSE StoreOk(xa, StageIt)
    /\ reader' = "commit"
    /\ UNCHANGED <<input, xa, last, wasKnown, bundle, bundleQueue, running>>

\* store.stage() throws: the message is cancelled and the agent stops.
ReaderCannotStage ==
    /\ reader = "stage"
    /\ ~Known(xa)
    /\ StoreThrows(xa, StageIt)
    /\ input' = input \cup {xa}
    /\ xa' = NoMsg
    /\ running' = FALSE
    /\ reader' = "leave"
    /\ UNCHANGED <<last, wasKnown, bundle, bundleQueue>>

\* Fault: a message that was known already is dispatched again.
ReaderCommitsUnchecked ==
    /\ reader = "commit"
    /\ last' = xa
    /\ IF xa \in HealthCheck
       THEN xa' = NoMsg /\ reader' = "dequeue"
       ELSE xa' = xa /\ reader' = "ready"
    /\ UNCHANGED <<input, wasKnown, bundle, bundleQueue, storeVars, running>>

\* commit() returns 0; a health check and a message that was known already
\* go no further.
ReaderCommits ==
    /\ reader = "commit"
    /\ last' = xa
    /\ IF wasKnown \/ xa \in HealthCheck
       THEN xa' = NoMsg /\ reader' = "dequeue"
       ELSE xa' = xa /\ reader' = "ready"
    /\ UNCHANGED <<input, wasKnown, bundle, bundleQueue, storeVars, running>>

\* commit() returns something else: the queue has dropped the message or it
\* has not, and the agent stops without asking.
ReaderCannotCommit ==
    /\ reader = "commit"
    /\ MayFail
    /\ \/ input' = input \cup {xa} /\ UNCHANGED last
       \/ last' = xa /\ UNCHANGED input
    /\ xa' = NoMsg
    /\ running' = FALSE
    /\ reader' = "leave"
    /\ UNCHANGED <<wasKnown, bundle, bundleQueue, storeVars>>

\* The committed message is marked READY and joins the bundle.
ReaderMarksReady ==
    /\ reader = "ready"
    /\ StoreOk(xa, SetState("READY"))
    /\ bundle' = Append(bundle, xa)
    /\ xa' = NoMsg
    /\ reader' = IF Len(bundle') >= BundleSize THEN "put" ELSE "dequeue"
    /\ UNCHANGED <<input, last, wasKnown, bundleQueue, running>>

ReaderCannotMarkReady ==
    /\ reader = "ready"
    /\ StoreThrows(xa, SetState("READY"))
    /\ xa' = NoMsg
    /\ running' = FALSE
    /\ reader' = "leave"
    /\ UNCHANGED <<input, last, wasKnown, bundle, bundleQueue>>

\* bundleQueue.put() of a full bundle.
ReaderPuts ==
    /\ reader = "put"
    /\ Len(bundleQueue) < QueueCapacity
    /\ bundleQueue' = Append(bundleQueue, bundle)
    /\ bundle' = <<>>
    /\ reader' = "dequeue"
    /\ UNCHANGED <<input, xa, last, wasKnown, storeVars, running>>

\* running is false: the loop ends, also out of an interrupted put().
ReaderLeavesLoop ==
    /\ reader \in {"dequeue", "put"} /\ ~running
    /\ reader' = "leave"
    /\ UNCHANGED <<input, xa, last, wasKnown, bundle, bundleQueue, storeVars, running>>

\* The last bundle is put, or dropped when put() throws; it is durable.
ReaderExits ==
    /\ reader = "leave"
    /\ bundle' = <<>>
    /\ \/ /\ Len(bundleQueue) < QueueCapacity
          /\ bundle # <<>>
          /\ bundleQueue' = Append(bundleQueue, bundle)
       \/ UNCHANGED bundleQueue
    /\ reader' = "exit"
    /\ UNCHANGED <<input, xa, last, wasKnown, storeVars, running>>

Reader ==
    \/ ReaderDequeues \/ ReaderFlushes
    \/ ReaderStages \/ ReaderCannotStage
    \/ ReaderCommits \/ ReaderCannotCommit
    \/ ReaderMarksReady \/ ReaderCannotMarkReady
    \/ ReaderPuts \/ ReaderLeavesLoop \/ ReaderExits

-----------------------------------------------------------------------------
\* The process is gone: a message that was dequeued and not committed is in
\* the queue again, and the queue may have lost its last commit as well.
ReaderLost ==
    /\ \E back \in {{}, {last}} :
          input' = input \cup ((back \cup (IF reader \in {"stage", "commit"}
                                           THEN {xa} ELSE {})) \ {NoMsg})
    /\ xa' = NoMsg
    /\ reader' = "exit"
    /\ wasKnown' = FALSE
    /\ bundle' = <<>>
    /\ bundleQueue' = <<>>
    /\ UNCHANGED last

ReaderInit ==
    /\ input = Msg
    /\ xa = NoMsg
    /\ last = NoMsg
    /\ reader = "exit"
    /\ wasKnown = FALSE
    /\ bundle = <<>>
    /\ bundleQueue = <<>>

\* The variables of the reader hold values of their types.
ReaderTypeOK ==
    /\ input \subseteq Msg
    /\ xa \in Msg \cup {NoMsg}
    /\ last \in Msg \cup {NoMsg}
    /\ reader \in {"dequeue", "stage", "commit", "ready", "put", "leave", "exit"}
    /\ wasKnown \in BOOLEAN
    /\ bundle \in Seq(Msg) /\ Len(bundle) <= BundleSize
    /\ bundleQueue \in Seq(Seq(Msg)) /\ Len(bundleQueue) <= QueueCapacity
=============================================================================
