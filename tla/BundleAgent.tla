----------------------------- MODULE BundleAgent -----------------------------
(***************************************************************************)
(* BundleAgent.java: startup recovery, the dispatcher, the worker pool and *)
(* the result publisher around BundleReader and the durable store, from    *)
(* the input queue to the output queue, across restarts.                   *)
(*                                                                         *)
(* A process ends at any moment.  SIGTERM is no gentler: the JVM halts     *)
(* when the shutdown hook returns, wherever main() and the workers are.    *)
(* The output and error queues are FileQueue's and outside the repository: *)
(* published[m] is what was enqueued for message m, in order.              *)
(***************************************************************************)
EXTENDS BundleReader

CONSTANTS
    Worker,             \* the threads of the pool
    Dispatcher,         \* the dispatcher, which runs a task when the pool is full
    WorkQueueCapacity,  \* worker.queue.capacity
    MaxRetries,         \* MAX_RETRIES
    MaxPublished,       \* bound of the model: enqueues per message
    outputCount         \* outputCount[m]: items auditAndDoWork() makes of m

ASSUME BundleAgentAssumption ==
    /\ IsFiniteSet(Worker) /\ Dispatcher \notin Worker
    /\ WorkQueueCapacity \in Nat \ {0}
    /\ MaxRetries \in Nat /\ MaxPublished \in Nat
    /\ outputCount \in [Msg -> 0..2]

VARIABLES
    recovering,     \* bundles main() still has to put into the bundle queue
    dispatcher,     \* "poll", or "exit"
    dispatching,    \* rest of the bundle the dispatcher is handing out
    workQueue,      \* the pool's queue of messages
    task,           \* task[x]: what executor x is doing
    publisher,      \* where the publisher thread is
    pending,        \* rest of its list of pending results
    index,          \* its loop variable in publishOne()
    published       \* published[m]: the items enqueued for m so far

agentVars == <<recovering, dispatcher, dispatching, workQueue, task,
               publisher, pending, index, published>>
workVars == <<workQueue, task>>
pubVars == <<publisher, pending, index, published>>
vars == <<phase, running, restarts, storeVars, readerVars, agentVars>>

Executor == Worker \cup {Dispatcher}

Idle == [at |-> "idle", msg |-> NoMsg, attempt |-> 0]

\* How many items an envelope holds.
ItemCount(m, env) == IF env = "error" THEN 1 ELSE outputCount[m]

-----------------------------------------------------------------------------
(* Startup: the constructor of the store, then startComponents() *)

Open ==
    /\ phase = "down"
    /\ phase' = "discard"
    /\ running' = TRUE
    /\ StoreOpened
    /\ UNCHANGED <<restarts, readerVars, agentVars>>

Unresolved == {m \in Recoverable : memory[m].state = "COMMITTING"}

\* Records whose commit is unresolved are removed from the journal.
DiscardUnresolved ==
    /\ phase = "discard"
    /\ Unresolved # {}
    /\ StoreOk(Earliest(Unresolved), DiscardIt)
    /\ UNCHANGED <<phase, running, restarts, readerVars, agentVars>>

\* Fault: the last bundle, when it is not full, is not put.
BundlesFull(S) ==
    [i \in 1..(Len(InOrder(S)) \div BundleSize) |->
        SubSeq(InOrder(S), (i - 1) * BundleSize + 1, i * BundleSize)]

\* The messages of S in bundles of at most BundleSize.
Bundles(S) ==
    LET s == InOrder(S)
        n == Len(s)
    IN [i \in 1..((n + BundleSize - 1) \div BundleSize) |->
           SubSeq(s, (i - 1) * BundleSize + 1,
                     IF i * BundleSize < n THEN i * BundleSize ELSE n)]

CollectRecoverable ==
    /\ phase = "discard"
    /\ Unresolved = {}
    /\ recovering' = Bundles(Recoverable)
    /\ phase' = "requeue"
    /\ UNCHANGED <<running, restarts, storeVars, readerVars, dispatcher, dispatching,
                   workVars, pubVars>>

\* Fault: the last place of the bundle queue is not used.
RequeueTight ==
    /\ phase = "requeue"
    /\ recovering # <<>>
    /\ Len(bundleQueue) + 1 < QueueCapacity
    /\ bundleQueue' = Append(bundleQueue, Head(recovering))
    /\ recovering' = Tail(recovering)
    /\ UNCHANGED <<phase, running, restarts, storeVars, input, xa, last, reader, wasKnown,
                   bundle, dispatcher, dispatching, workVars, pubVars>>

\* main() puts the recovered bundles while the dispatcher is not yet there.
Requeue ==
    /\ phase = "requeue"
    /\ recovering # <<>>
    /\ Len(bundleQueue) < QueueCapacity
    /\ bundleQueue' = Append(bundleQueue, Head(recovering))
    /\ recovering' = Tail(recovering)
    /\ UNCHANGED <<phase, running, restarts, storeVars, input, xa, last, reader, wasKnown,
                   bundle, dispatcher, dispatching, workVars, pubVars>>

StartThreads ==
    /\ phase = "requeue"
    /\ recovering = <<>>
    /\ phase' = "run"
    /\ reader' = "dequeue"
    /\ dispatcher' = "poll"
    /\ publisher' = "poll"
    /\ UNCHANGED <<running, restarts, storeVars, input, xa, last, wasKnown, bundle,
                   bundleQueue, recovering, dispatching, workVars, pending, index, published>>

-----------------------------------------------------------------------------
(* The dispatcher *)

DispatcherPolls ==
    /\ dispatcher = "poll" /\ dispatching = <<>> /\ task[Dispatcher] = Idle
    /\ bundleQueue # <<>>
    /\ dispatching' = Head(bundleQueue)
    /\ bundleQueue' = Tail(bundleQueue)
    /\ UNCHANGED <<phase, running, restarts, storeVars, input, xa, last, reader, wasKnown,
                   bundle, recovering, dispatcher, workVars, pubVars>>

\* workers.execute(): the queue takes the message, or, when it is full, the
\* dispatcher runs the task itself (CallerRunsPolicy).
DispatcherExecutes ==
    /\ dispatching # <<>> /\ task[Dispatcher] = Idle
    /\ IF Len(workQueue) < WorkQueueCapacity
       THEN /\ workQueue' = Append(workQueue, Head(dispatching))
            /\ UNCHANGED task
       ELSE /\ task' = [task EXCEPT ![Dispatcher] =
                           [at |-> "start", msg |-> Head(dispatching), attempt |-> 0]]
            /\ UNCHANGED workQueue
    /\ dispatching' = Tail(dispatching)
    /\ UNCHANGED <<phase, running, restarts, storeVars, readerVars, recovering, dispatcher,
                   pubVars>>

\* The pool is shut down already: CallerRunsPolicy drops the task.
DispatcherDrops ==
    /\ dispatching # <<>> /\ task[Dispatcher] = Idle
    /\ ~running
    /\ dispatching' = Tail(dispatching)
    /\ UNCHANGED <<phase, running, restarts, storeVars, readerVars, recovering, dispatcher,
                   workVars, pubVars>>

\* The loop ends with nothing left, or by an interrupt with bundles left.
DispatcherExits ==
    /\ dispatcher = "poll" /\ dispatching = <<>> /\ task[Dispatcher] = Idle
    /\ ~running
    /\ dispatcher' = "exit"
    /\ UNCHANGED <<phase, running, restarts, storeVars, readerVars, recovering, dispatching,
                   workVars, pubVars>>

-----------------------------------------------------------------------------
(* processMessage(), in a worker or in the dispatcher *)

Goes(x, at) == task' = [task EXCEPT ![x].at = at]

Finishes(x) == task' = [task EXCEPT ![x] = Idle]

OnlyTask == UNCHANGED <<phase, restarts, readerVars, recovering, dispatcher, dispatching,
                        workQueue, pubVars>>

WorkerTakes(w) ==
    /\ task[w] = Idle
    /\ workQueue # <<>>
    /\ task' = [task EXCEPT ![w] = [at |-> "start", msg |-> Head(workQueue), attempt |-> 0]]
    /\ workQueue' = Tail(workQueue)
    /\ UNCHANGED <<phase, running, restarts, storeVars, readerVars, recovering, dispatcher,
                   dispatching, pubVars>>

\* A message that is done, or waits for the publisher, is left alone.
TaskStarts(x) ==
    /\ task[x].at = "start"
    /\ IF memory[task[x].msg].state \in {"ABSENT", "DONE", "RESULT_PENDING"}
       THEN Finishes(x)
       ELSE Goes(x, "attempt")
    /\ UNCHANGED <<running, storeVars>>
    /\ OnlyTask

TaskMarksProcessing(x) ==
    /\ task[x].at = "attempt"
    /\ \/ StoreOk(task[x].msg, SetState("PROCESSING")) /\ Goes(x, "work")
       \/ StoreThrows(task[x].msg, SetState("PROCESSING")) /\ Goes(x, "caught")
    /\ UNCHANGED running
    /\ OnlyTask

\* auditAndDoWork() returns and its result is stored.
TaskSucceeds(x) ==
    /\ task[x].at = "work"
    /\ \/ StoreOk(task[x].msg, SetResultPending("work")) /\ Finishes(x)
       \/ StoreThrows(task[x].msg, SetResultPending("work")) /\ Goes(x, "caught")
    /\ UNCHANGED running
    /\ OnlyTask

\* auditAndDoWork() throws.
TaskFails(x) ==
    /\ task[x].at = "work"
    /\ Goes(x, "caught")
    /\ UNCHANGED <<running, storeVars>>
    /\ OnlyTask

\* Fault: the last attempt ends without a result.
TaskGivesUp(x) ==
    /\ task[x].at = "caught"
    /\ IF task[x].attempt = MaxRetries
       THEN /\ UNCHANGED storeVars
            /\ Finishes(x)
       ELSE /\ StoreOk(task[x].msg, SetRetry)
            /\ task' = [task EXCEPT ![x].at = "attempt", ![x].attempt = @ + 1]
    /\ UNCHANGED running
    /\ OnlyTask

\* The catch block: another attempt, or an error result after the last one.
\* An exception here stops the agent.
TaskRetries(x) ==
    /\ task[x].at = "caught"
    /\ LET lastTry == task[x].attempt = MaxRetries
           change == IF lastTry THEN SetResultPending("error") ELSE SetRetry
       IN \/ /\ StoreOk(task[x].msg, change)
             /\ IF lastTry
                THEN Finishes(x)
                ELSE task' = [task EXCEPT ![x].at = "attempt", ![x].attempt = @ + 1]
             /\ UNCHANGED running
          \/ /\ StoreThrows(task[x].msg, change)
             /\ Finishes(x)
             /\ running' = FALSE
    /\ OnlyTask

Task(x) ==
    \/ TaskStarts(x) \/ TaskMarksProcessing(x) \/ TaskSucceeds(x) \/ TaskFails(x)
    \/ TaskRetries(x)

-----------------------------------------------------------------------------
(* The result publisher *)

OnlyPublisher == UNCHANGED <<phase, running, restarts, readerVars, recovering, dispatcher,
                             dispatching, workVars>>

Current == Head(pending)

\* Fault: the last item is taken for checkpointed.
FirstStepShort(m) ==
    IF memory[m].publishedCount + 1 < ItemCount(m, memory[m].result)
    THEN "enqueue" ELSE "finish"

\* The first item that is not checkpointed, if any is left.
FirstStep(m) ==
    IF memory[m].publishedCount < ItemCount(m, memory[m].result) THEN "enqueue" ELSE "finish"

\* Fault: publishing starts one item too late.
SelectsLate(list) ==
    /\ pending' = list
    /\ publisher' = IF list = <<>> THEN "poll" ELSE FirstStep(Head(list))
    /\ index' = IF list = <<>> THEN 0 ELSE memory[Head(list)].publishedCount + 1

Selects(list) ==
    /\ pending' = list
    /\ publisher' = IF list = <<>> THEN "poll" ELSE FirstStep(Head(list))
    /\ index' = IF list = <<>> THEN 0 ELSE memory[Head(list)].publishedCount

PublisherPolls ==
    /\ publisher = "poll" /\ running
    /\ PendingResults # {}
    /\ Selects(InOrder(PendingResults))
    /\ UNCHANGED <<published, storeVars>>
    /\ OnlyPublisher

\* enQueue() of the next item succeeds; it is retried until it does.
PublisherEnqueues ==
    /\ publisher = "enqueue" /\ running
    /\ Len(published[Current]) < MaxPublished
    /\ published' = [published EXCEPT ![Current] =
                        Append(@, [env |-> memory[Current].result, item |-> index + 1])]
    /\ publisher' = "checkpoint"
    /\ UNCHANGED <<pending, index, storeVars>>
    /\ OnlyPublisher

\* Fault: the checkpoint is not made.
PublisherSkipsCheckpoint ==
    /\ publisher = "checkpoint"
    /\ UNCHANGED storeVars
    /\ index' = index + 1
    /\ publisher' = IF index' < ItemCount(Current, memory[Current].result)
                    THEN "enqueue" ELSE "finish"
    /\ UNCHANGED <<pending, published>>
    /\ OnlyPublisher

PublisherCheckpoints ==
    /\ publisher = "checkpoint"
    /\ StoreOk(Current, SetPublishedCount(index + 1))
    /\ index' = index + 1
    /\ publisher' = IF index' < ItemCount(Current, memory[Current].result)
                    THEN "enqueue" ELSE "finish"
    /\ UNCHANGED <<pending, published>>
    /\ OnlyPublisher

\* The message is DONE; the next one of the list follows.
PublisherFinishes ==
    /\ publisher = "finish"
    /\ StoreOk(Current, SetState("DONE"))
    /\ pending' = Tail(pending)
    /\ publisher' = IF pending' = <<>> \/ ~running THEN "poll" ELSE FirstStep(Head(pending'))
    /\ index' = IF pending' = <<>> THEN 0 ELSE memory[Head(pending')].publishedCount
    /\ UNCHANGED published
    /\ OnlyPublisher

\* A checkpoint or the last state change throws: the list is dropped, and the
\* loop goes on with a new one.
PublisherCatches ==
    /\ \/ publisher = "checkpoint" /\ StoreThrows(Current, SetPublishedCount(index + 1))
       \/ publisher = "finish" /\ StoreThrows(Current, SetState("DONE"))
    /\ pending' = <<>>
    /\ index' = 0
    /\ publisher' = "poll"
    /\ UNCHANGED published
    /\ OnlyPublisher

PublisherExits ==
    /\ publisher \in {"poll", "enqueue"} /\ ~running
    /\ publisher' = "exit"
    /\ pending' = <<>>
    /\ index' = 0
    /\ UNCHANGED <<published, storeVars>>
    /\ OnlyPublisher

Publisher ==
    \/ PublisherPolls \/ PublisherEnqueues \/ PublisherCheckpoints
    \/ PublisherFinishes \/ PublisherCatches \/ PublisherExits

-----------------------------------------------------------------------------
(* The end of a process *)

\* The shutdown hook, or stopComponents().
Stop ==
    /\ phase = "run" /\ running
    /\ MayFail
    /\ running' = FALSE
    /\ UNCHANGED <<phase, restarts, storeVars, readerVars, agentVars>>

ProcessGone ==
    /\ phase' = "down"
    /\ running' = FALSE
    /\ restarts' = restarts + 1
    /\ StoreLost
    /\ ReaderLost
    /\ recovering' = <<>>
    /\ dispatcher' = "exit"
    /\ dispatching' = <<>>
    /\ workQueue' = <<>>
    /\ task' = [x \in Executor |-> Idle]
    /\ publisher' = "exit"
    /\ pending' = <<>>
    /\ index' = 0
    /\ UNCHANGED published

\* Killed, or halted by SIGTERM, at any moment.
Killed ==
    /\ phase # "down"
    /\ MayFail
    /\ ProcessGone

\* main() has seen running = FALSE; its joins have timeouts, so it gets
\* through whatever the threads do.
Exits ==
    /\ phase = "run"
    /\ ~running
    /\ ProcessGone

-----------------------------------------------------------------------------
Init ==
    /\ phase = "down"
    /\ running = FALSE
    /\ restarts = 0
    /\ memory = [m \in Msg |-> Absent]
    /\ journal = [m \in Msg |-> Absent]
    /\ broken = FALSE
    /\ ReaderInit
    /\ recovering = <<>>
    /\ dispatcher = "exit"
    /\ dispatching = <<>>
    /\ workQueue = <<>>
    /\ task = [x \in Executor |-> Idle]
    /\ publisher = "exit"
    /\ pending = <<>>
    /\ index = 0
    /\ published = [m \in Msg |-> <<>>]

Startup == Open \/ DiscardUnresolved \/ CollectRecoverable \/ Requeue \/ StartThreads

Dispatch == DispatcherPolls \/ DispatcherExecutes \/ DispatcherDrops \/ DispatcherExits

Read == Reader /\ UNCHANGED <<phase, restarts, agentVars>>

Next ==
    \/ Startup
    \/ Read
    \/ Dispatch
    \/ \E w \in Worker : WorkerTakes(w)
    \/ \E x \in Executor : Task(x)
    \/ Publisher
    \/ Stop \/ Killed \/ Exits

Spec == Init /\ [][Next]_vars

\* Threads keep running, enQueue() succeeds in the end, and a process that
\* has ended is started again.
Fairness ==
    /\ WF_vars(Startup) /\ WF_vars(Read) /\ WF_vars(Dispatch) /\ WF_vars(Publisher)
    /\ \A w \in Worker : WF_vars(WorkerTakes(w) \/ Task(w))
    /\ WF_vars(Task(Dispatcher))
    /\ WF_vars(Exits)

FairSpec == Spec /\ Fairness

-----------------------------------------------------------------------------
(* Properties *)

\* All variables of the agent hold values of their types.
TypeOK ==
    /\ phase \in {"down", "discard", "requeue", "run"}
    /\ running \in BOOLEAN
    /\ restarts \in Nat
    /\ memory \in [Msg -> Entry \cup {Absent}]
    /\ journal \in [Msg -> Entry \cup {Absent}]
    /\ broken \in BOOLEAN
    /\ ReaderTypeOK
    /\ recovering \in Seq(Seq(Msg))
    /\ dispatcher \in {"poll", "exit"}
    /\ dispatching \in Seq(Msg)
    /\ workQueue \in Seq(Msg) /\ Len(workQueue) <= WorkQueueCapacity
    /\ task \in [Executor -> [at : {"idle", "start", "attempt", "work", "caught"},
                              msg : Msg \cup {NoMsg}, attempt : 0..MaxRetries]]
    /\ publisher \in {"poll", "enqueue", "checkpoint", "finish", "exit"}
    /\ pending \in Seq(Msg)
    /\ index \in Nat
    /\ published \in [Msg -> Seq([env : Envelope \cup {"none"}, item : Nat])]

\* How often m is on its way from the reader to a worker.
Occurrences(m, s) == {i \in 1..Len(s) : s[i] = m}
Places(m) ==
    {<<"bundle", i>> : i \in Occurrences(m, bundle)}
      \cup (UNION {{<<"queued", i, j>> : j \in Occurrences(m, bundleQueue[i])} :
                    i \in 1..Len(bundleQueue)})
      \cup (UNION {{<<"recovering", i, j>> : j \in Occurrences(m, recovering[i])} :
                    i \in 1..Len(recovering)})
      \cup {<<"dispatching", i>> : i \in Occurrences(m, dispatching)}
      \cup {<<"waiting", i>> : i \in Occurrences(m, workQueue)}
      \cup {<<"task", x>> : x \in {y \in Executor : task[y].msg = m}}

\* A message is never in two places of the pipeline, so never worked on by
\* two executors: not after a restart, and not when the queue delivers it
\* again ("commit it but do not dispatch duplicate work").
NeverTwice == \A m \in Msg : \A p, q \in Places(m) : p = q

\* A running agent has not forgotten a message it owes work: unless its
\* journal has failed, every unfinished message is on its way to a worker or
\* in a worker's hands.
NothingForgotten ==
    phase \in {"requeue", "run"} /\ running =>
        \A m \in Msg :
            memory[m].state \in {"READY", "PROCESSING", "RETRY_WAIT"} => Places(m) # {}

\* The input queue gives a message up only when the journal holds it, or has
\* held it and startup discarded it as unresolved.  Stated on the step that
\* commits: the record is there before the commit ("Persist intent before
\* attempting Commit").
CommitNeedsRecord ==
    [][last' # last /\ last' \notin HealthCheck => journal[last'] # Absent]_vars

\* However processes end and the publisher works through a list it read
\* earlier, what was enqueued for a message belongs to the result the journal
\* file holds, so no later process publishes another one. A loss of power is
\* not meant: it may take a published result back (see ResultIsDurable).
PublishedResultIsKept ==
    \A m \in Msg : published[m] # <<>> =>
        /\ journal[m].state \in {"RESULT_PENDING", "DONE"}
        /\ \A i \in 1..Len(published[m]) : published[m][i].env = journal[m].result

\* The items of a result are enqueued in order and none is skipped: ACK
\* comes before RESULT, whatever is repeated after a restart.
ItemsInOrder ==
    \A m \in Msg : \A i \in 1..Len(published[m]) :
        \A k \in 1..(published[m][i].item - 1) :
            \E j \in 1..(i - 1) : published[m][j].item = k

\* A message is DONE only when every item of its result was enqueued.
DoneIsPublished ==
    \A m \in Msg : journal[m].state = "DONE" =>
        \A k \in 1..ItemCount(m, journal[m].result) :
            \E i \in 1..Len(published[m]) : published[m][i].item = k

\* "Durable checkpoint after each individual output enqueue": an item is
\* enqueued again only because a process ended between its enqueue and its
\* checkpoint, so at most one enqueue per process is a repetition.
RepeatsOnlyAfterRestart ==
    \A m \in Msg :
        Cardinality({i \in 1..Len(published[m]) :
            \E j \in 1..(i - 1) : published[m][j].item = published[m][i].item}) <= restarts

\* Every message is in the input queue, in the reader's transaction or in
\* the journal; a commit that may have happened before a crash is not taken
\* for one that did not ("Resolve this state using the actual FileQueue
\* transaction/recovery semantics before proceeding").
NoMessageLost ==
    \A m \in Msg \ HealthCheck : m \in input \/ m = xa \/ journal[m] # Absent

\* A message whose READY is durable is answered in the end, over all
\* restarts.
ReadyIsAnswered ==
    \A m \in Msg : journal[m].state = "READY" ~> journal[m].state = "DONE"

\* Startup gets through: the messages committed by an earlier process are
\* requeued and the threads start.
StartupEnds == phase \in {"discard", "requeue"} ~> phase \in {"run", "down"}
=============================================================================
