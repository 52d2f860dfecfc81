# TLA+ models and proofs for the FileQueue Java clients

The repository holds the Java side of FileQueue, a file-backed message queue
whose library is a binary: a JNI wrapper, agents that take messages from an
input queue, work on them and put answers into an output queue, a durable
store that one of the agents uses, clients of a TCP gateway, a simulator of the carrier,
a load generator and a monitor. This directory models the parts that
carry state, checks them with TLC, and proves with TLAPS what TLC checks on small
instances: every invariant, every rule for single steps, and one refinement.

Paths below are relative to `src/`. `J/` stands for `ver2.0/jni/java/`,
`N/` for `ver2.0/jni/native/`.

## 1. Inventory

| Component | State it keeps | Operations | Module |
|---|---|---|---|
| Journal (`J/DurableStore.java`: `append`, `journalWriterLoop`, `failJournal`, `close`, constructor) | journal file, `journalQueue`, the writer's batch, `journalFailure`, `closing`, `closed`, one latch per request | append, gather, write, force, acknowledge, fail, close, recover | `Journal`, abstractly `WriteAheadLog`; `Journal_proofs` |
| Store (`J/DurableStore.java`: the rest) | `messages`, striped locks | stage, setState, discard, setRetry, setResultPending, setPublishedCount, replay | `DurableStore`, `DurableStore_proofs` |
| Store as its clients see it | memory and what the journal file says of each message | an operation returns or throws; loss and reopening | `MessageStore` |
| Reader (`J/BundleReader.java`) | XA in hand, current bundle | dequeue, stage, commit, mark READY, put, flush, leave | `BundleReader`, `BundleAgent_proofs` |
| Agent (`J/BundleAgent.java`) | bundle queue, pool, publisher's list, `running` | startup recovery, dispatch, process, retry, publish, checkpoint, shutdown | `BundleAgent`, `BundleAgent_proofs` |
| JNI wrapper (`N/fqueue_jni.c`, `J/FQueue.java`) | logger, table of 32 queue slots, one XA per slot, one mutex | openLogger, closeLogger, openQueue, closeQueue, enQueue, deQueueXA, commit, cancel | `FQueueJni`, `FQueueJni_proofs` |
| Single-threaded agent (`J/Agent.java`) | XA in hand, `RUNNING` | dequeue, audit, ACK, RESULT, quarantine, commit, stop | `JniAgent`, `JniAgent_proofs` |
| Codec and audit (`J/FieldMap.java`, `JsonAudit.java`, `MapMessageCodec.java`, `JsonGenerator.java`) | none | parse, validate, generate | planned |
| Socket agent (`J/Agent_socket.java`, `J/FileQueueSocket.java`) | one connection per queue, outstanding reports, `outputLock`, `running` | dequeue, submit, publish ACK and RESULT, publish errors, re-LINK, stop; delivery callbacks | `SocketAgent`, `SocketAgent_proofs` |
| MyAgent and its carrier (`my_agent/MyAgent.java`, `my_simulator/ClangSimulatorDualFunctionTcpServer.java`) | a backup file, a connection and a message in hand per sender thread; the carrier's queue, `stopFlag` | read, back up, commit, send, ACK, delete, recover, reconnect; take, report, confirm | `MyAgent`, `Tools_proofs` |
| `src/VirtualCoAgent.java`, `src/SharedBlockingQueueExample.java` | shared blocking queue | take, write, commit | planned |
| Load generator (`utl/enQ/virtual_gw_main.c`, its two configuration readers) | loop counter; counters in the mapped queue header | load, open, enqueue, retry on full | `VirtualGw`, `Tools_proofs` |
| Field conversions (same file) | value and output buffer of a field | fill, convert by code, finish | `FieldConversion`, `Tools_proofs` |
| Queue monitor (`utl/monitor/monitor.c`) | `Qs[]`, global mutex, `user_quit_flag`, logger | read counters, draw, serve keys, quit | `Monitor`, `Tools_proofs` |
| examples, testers | none of their own | call the API by hand | not modelled |
| FileQueue library, ncurses headers, terminfo, queue files | | | external |

**Interactions.** The reader thread calls the JNI wrapper (`deQueueXA`,
`commit`, `cancel`) and the store (`stage`, `setState`), and hands bundles to the
dispatcher over a bounded queue. The dispatcher hands messages to the pool;
when the pool's queue is full it runs the task itself. Workers store results;
the publisher polls the store for them, enqueues each item and checkpoints it in
the store. All of them meet in `DurableStore.append()`, where each waits for
the journal thread. `main()` runs startup recovery before any of them exist
and joins them with timeouts at the end; the shutdown hook only sets a
flag and interrupts.

**Hard behaviours.** Group commit with interrupted callers and failing
I/O; a crash between any two of write, force, acknowledgement and the change of memory;
a crash between the XA commit in one system and the record in another; redelivery of
known messages; bounded queues between threads and a pool that pushes work back on its
producer; a publisher that works on a list read earlier; shutdown that
interrupts threads in the middle of a durable operation; a mutex given up
half-way through `deQueueXA`.

**What makes each component correct.**

* Journal: success only for what is forced; each caller answered once; nothing written
  behind a torn record; `close()` ends.
* Store: memory and journal agree at every crash point; success is durable; the
  journal can always be read again.
* Reader and agent: no message lost, none worked on twice, outputs in order, repeated
  only for a restart, DONE only when all was published, startup and every message
  come to an end.
* JNI wrapper: dequeue locks and `xa_pending` correspond, a locked queue has an owner, and a message
  Java was given stays resolvable unless Java passes an object a second time.
* Single-threaded agent: commits only what it answered; its input drains.
* MyAgent: a message committed before it was sent survives until the carrier has it;
  repetitions only for failures; what the carrier took stays with it until it is reported.
* Load generator: a full queue costs time and no message. Conversions: one that fails
  leaves the value alone. Monitor: rates count no message twice; keys are served.
* Socket agent: no RESULT before its ACK; duplicates only where a reply was lost; a message
  taken from the server is answered as long as the agent runs; stop ends both threads.

## 2. Modules and how they correspond to the code

**`WriteAheadLog`** is the promise of `append()`: a log that only grows, a
tail of requests whose fate is open, and a success reply only for what is in
the log. A failure or a crash may keep any prefix of the tail.

**`Journal`** is the code. `Submit` is `append()` up to `done.await()`, with the checks under
`lifecycleLock`; `Return` and `ThrowInterrupted` are its two ways out. `Gather`,
`WriteRecord`, `ForceBatch`, `Ack`, `WriterFails` (with `failJournal()`) and
`WriterExits` are the steps of `journalWriterLoop()`. `file` is what is in the file,
`forced` how much of it is known to be on the disk, `torn` whether it ends
in part of a record. `ProcessDies` keeps the file, `PowerLoss` keeps a prefix no shorter than
`forced`, and `Recover` is the part of the constructor that cuts the tail off.
The refinement mapping is `log <- ` the forced prefix of the file, `tail <- ` everything
behind it: unforced records of earlier processes, the batch, the queue.

**`DurableStore`** extends `Journal` with the map. An operation begins (`Begin`, under the
stripe lock, with the check of `require()`), completes (`Complete`, the map changes after
`append()` has returned) or aborts (`Abort`). `Effect` is written from the operations and
`ReplayRecord`, one round of the loop of `recoverJournal()`, from that loop: that the two agree is
one of the things checked. `StoreInit`, `RecoverStore` and `Crash` are the journal's steps together
with what happens to the map; `RecoverThrows` is a constructor in which `require()` throws. `Record`
is the set of records a model may write; it need not hold every count. `uncertain` is a history variable:
the events per id whose append was interrupted or failed, after which the journal may be
ahead of memory.

**`MessageStore`** is that store with every operation in one step: it changes memory and
journal, or throws and may have changed the journal. It stands for
`DurableStore` where the agent is checked. `journal` is the content of the journal file, forced or not:
processes end in the agent's model, but the power stays on, so the file keeps what was written and
the next process loads it. What a loss of power may take back is in `DurableStore` alone; that an agent may publish
a result which power loss then takes back is what the run `store_result_not_durable` shows, and
nothing said of the agent contradicts it.

**`BundleReader`** has one action per outcome of each step of `run()`. The input
queue is the set of uncommitted messages; when the process ends, the message in
hand returns to it, and the queue may also have lost its last commit.

**`BundleAgent`** adds startup (`Open`, `DiscardUnresolved`, `CollectRecoverable`,
`Requeue`, `StartThreads`), the dispatcher, `processMessage()` in an executor (a worker, or the dispatcher under
`CallerRunsPolicy`), the publisher, and the end of the process. SIGTERM sets
`running` and then halts the JVM wherever the threads are, so it is `Stop` followed by
`Killed` at any later moment; `Exits` is an orderly end of `main()`, whose joins time out.

**`FQueueJni`** has one action per native method, because each runs under `g_mutex`,
except `deQueueXA`: `DeQueueXA` is its locked part, `Deliver` and `DeliverFails` its two ends.
FileQueue below it keeps a queue locked from `on_de_XA` to the commit or cancel. `commit()` and `cancel()` check no
more than the slot and the sequence number of the object they are given, and Java may keep an object for ever: `tokens`
are the messages whose object has not been used, `spent` those whose object has, and both kinds can be passed.
A used object resolves a later XA of the same slot and number: the redelivery of its message, which
another thread may hold or `deQueueXA` still be building, or a message of a queue that was opened in the slot
meanwhile (`SecondUse`; `reused` remembers it). `Refused` is the return of -1. Objects come from `deQueueXA` only.

**`JniAgent`** is `Agent.java`: `Take` with the checks of `process()`, `Respond`,
the three enqueues, `GiveUp` for a retry loop that sees `RUNNING` cleared, `Commit`,
and the ends of the process.

**`SocketAgent`** has the main thread (`Dequeue` with the checks of `process()`, `Submit`
under `outputLock`, the loops of `publish()` and `publishError()`), the report thread, the
adapter's callback `Delivered` and `stop()`. A request with the LINK it may need is one
step: it succeeds, or it fails and may have been performed all the same (`Fails`). There is no XA, so
a message whose DEQU reply is lost is nowhere any more (`lost`), and so is what either
thread holds when the agent is stopped. `stop()` cannot cut a `read()` short: both are
synchronized methods of `FileQueueSocket`.

**`MyAgent`** has one action per step of `processMessageThread()`. Local decisions are part of
the step before them: whether there is a file to recover belongs to `Connect`, the check of
the message to `commitXA` (`AfterCommit`). Frames and ACKs on their way are sequences per
connection. `Break` ends a connection: the carrier still reads some of the frames, cannot
acknowledge them and may count up `stopFlag` (`Dropped`). `SimTakes` is one round of
`handleAckClientThread`, and `Arrivals` the orders in which its threads may still take frames when
an agent ends; `SimSendsResult`, `ConfirmResult`, `SimThrowsAway`, `SimStops` and `SimRefused` are
the outcomes of one round of `handleMessageClient` together with the agent's result thread.
Neither program looks at what `commitXA()` returns: `CommitFails` is the commit of a sender thread without effect,
after which the message is sent all the same, and `SimCommits` has the carrier's. Crashes keep the files
and undo the agent's XA; the carrier's is undone by nobody. A handler that ends leaves it open on the queue object
the next handler shares (`SimXALeft`). What `readXA()` does on an object whose own XA is open is decided
by FileQueueJNI, which is not in the repository: the model lets it give the same message again or fail
(`readXA`, `QueueFails`; `SimSendsResult`, `SimRefused`), and never skip a message. `breaks` counts all that
failed except processes. `received`, `reported`, `unsaved` and `recovered` are history.

**`VirtualGw`** is `main()` of the load generator on the counters of the mapped header
(`en_sum`, `de_sum`, `max_rec_cnt`), which other processes change as well (`Consume`).
**`Monitor`** extends it: `MonThread(q)` reads those counters one at a time, as
`mon_thread()` does, `MainThread` opens, draws and closes, `KeyThread` serves the keyboard; the
global mutex is modelled, the mutexes of `Qs[]` have one user each and are not. The use of closed
queues and of the closed logger, and a hotkey without queue, end the process ("crashed") in the model
where they are undefined behaviour in the code. `counted` is history.
**`FieldConversion`** has each converter as an operator that returns what is in the output buffer and
whether it succeeded, and the loop over the codes as actions. `Char` is the set of characters, of which
the model needs those the converters write or look for (`Written`). `fill_qformat_local()`, which
drives them, has no caller in the repository.

**`MCTools`** puts these three models into one run. They share nothing, so `part`
picks one of them at the start and the others stay idle: the state space is the sum of theirs.

A definition whose comment starts with "Fault:" is a deliberately wrong variant of
the one after it. No specification uses it; replacing the definition by it must break the
property that PROJECT.json names, which shows the property has teeth.

## 3. Runs

All bounds are CONSTANTS of the configurations.

| Run | Checks | Bounds and why they suffice |
|---|---|---|
| `journal` | type, `AckedIsForced`, `WaiterHasOneRequest`, `GoneWriterLeavesNothing`, `AppendsOnRecordBoundary`, `ImplementsLog`, `CallsReturn`, `CloseEnds` | 2 threads, 2 record values, batches of up to 2, 4 records: a full batch being written with requests queued behind it (interrupted threads leave requests behind, so the queue is not limited by the threads), several crashes with unforced records between them. Two record values make order visible. |
| `store` | `JournalAgreesWithMemory`, `SuccessIsDurable`, `JournalCanBeReplayed` | 2 threads, 2 ids on different stripes, 3 records: two operations racing on one id or side by side on two, an interrupted one followed by another, and re-staging after a discard all fit in. |
| `agent` | `NeverTwice`, `ItemsInOrder`, `DoneIsPublished`, `RepeatsOnlyAfterRestart`, `ReadyIsAnswered`, `StartupEnds` | 2 messages (with two outputs and one), 2 ends of the process, so that a recovery is itself interrupted, pool queue of 1 so that the dispatcher runs tasks, no second attempt. The bundle queue has room for all recovered bundles. |
| `agent_faults` | `NothingForgotten`, `PublishedResultIsKept`, `CommitNeedsRecord` | 3 messages, one a health check, bundles of 2, one retry, and a journal that may fail in any operation. |
| `fqueue_jni` | `PendingMeansLocked`, `LockedHasOwner`, `OnlyReuseTakesTokens` | 2 threads, 2 queues, 2 slots, so that one queue may be open twice or two queues follow each other in a slot, 2 messages per queue so that the messages of a slot follow each other and an old object meets a redelivery. |
| `jni_agent` | `CommittedIsAnswered`, `RepeatsArePaidByRestarts`, `InputIsDrained` | one message of each of the four kinds, 3 ends of the process. |
| `socket_agent` | `AckBeforeResult`, `RepeatsAreReplays`, `NothingDropped`, `MessagesAreAnswered`, `ReportsArePublished`, `StopEnds` | 5 messages, one of each way through `process()` and a second valid one, so that a report competes with a later ACK; 2 failing requests, so that a retry fails again or both threads retry; a stop at any moment. |
| `tools` | `FullCostsNoMessage`, `RatesNeverOvercount`, `KeysAreHandled`; `FailureErasesOnlyOverlong`, `FilledFieldHasItsLength`; `NothingLostBeforeRecovery`, `RepeatsArePaidByFaults`, `ReceivedIsNeverLost` | Monitor and generator: one queue with room for one message, two to enqueue, so that it is full in between and a rate is computed on a count that is not 0; a hotkey with and one without queue. Conversions: 13 values (empty, blank, short, exact, overlong, dates, numbers) under every sequence of up to two codes and some of three, fields of 1, 3, 6 and 8. MyAgent: two sender threads; two valid messages, or an invalid one before a valid one; two faults, so that a recovery is interrupted, a connection breaks after it, or a commit fails for a message that is then sent over a broken connection. |

Four runs end in a violation; each is a disagreement between the code and its own
comments.

* `store_result_not_durable` (`ResultIsDurable`). "Result must be durable before it is
  published" (`J/DurableStore.java:342`). A process killed between write and force leaves a RESULT that the next process loads and
  publishes; nothing has forced it, so a later loss of power takes the
  result back after it was published.
* `agent_message_lost` (`NoMessageLost`). A COMMITTING record is to be resolved "using the actual
  FileQueue transaction/recovery semantics" (`J/BundleAgent.java:275-280`); startup
  discards it instead. If the commit had happened, the message is gone.
* `agent_startup_stuck` (`StartupEnds`). "Requeue previously committed messages"
  (`J/BundleAgent.java:297-300`): the bundles are put into the bounded queue before the
  dispatcher is started. With one place and two bundles the start hangs. With the
  shipped configuration it takes more than 100 bundles of 400, which bundle queue,
  pool queue and the bundles under way can hold together with the reader's next ones.
* `agent_checkpoint_fails` (`RepeatsOnlyAfterRestart`). "Durable checkpoint after each individual
  output enqueue" (`J/DurableStore.java:357`). Once the journal has failed,
  every checkpoint throws, the publisher logs it and enqueues the same output again.

`TypeOK` is a checked invariant of the journal; the other modules' type invariants are proved (section 4)
and take no room in the runs. `CommittedIsAnswered` includes that an ACK directly precedes each RESULT, and
`LockedHasOwner` that the owner is the only one unless a used object has resolved an XA of the slot and number.

What `fqueue_jni` does not promise: that a message belongs to the thread that dequeued it. An object passed a second
time takes the XA from whoever has it; `OnlyReuseTakesTokens` says that nothing else does, neither a close, nor a
failing `deQueueXA`, nor the first use of any other object.

What `agent_faults` does not promise: that what was published outlives a loss of power (`MessageStore` above).
`PublishedResultIsKept` says that it belongs to the result in the journal file, whatever process ended when.

What `store` does not promise: after an interrupted `discard()` the map still has the message although
its DISCARD record is on the way. `DurableStore` tells the callers to stop then; if another call for that
id follows all the same, its record names an id the replay no longer knows, `require()`
throws, and the journal cannot be read any more, for any id. `JournalCanBeReplayed` therefore ends at a
discard of unknown outcome, and the other two properties speak of the replays that succeed
(`Replayed[k].ok`): with two threads and four records such a journal denies another thread
a success it was told of. Three records are too few to see it; the attempt to prove
`SuccessIsDurable` without the premise found it.

What `tools` does not promise: once MyAgent has sent a backup file again, messages can be lost
although the comment at `my_agent/MyAgent.java:510` says that recovery is there to prevent just that
after an early commit. The thread does not wait for the ACK of a recovered frame, so the next message takes
that ACK for its own and deletes its backup before the carrier has it; a file of several messages is one
frame of which the carrier parses the first; and an invalid message deletes the file
without any ACK. `NothingLostBeforeRecovery` therefore ends at the first recovery; without
`~recovered` TLC finds the loss. Nor does it promise that results go on being reported: if the
XA a handler left open made every later `readXA()` fail, none would be. `ReceivedIsNeverLost` says that
the message is then still in the carrier's queue.

**Deadlock** is checked except in the agents and in `tools`: there the system stops when no restart is left
and the input is empty, the socket agent when both its threads have ended, the monitor and the generator
when their processes have.

**Fairness.** `Journal`: the journal thread and a caller that has been woken keep running,
and `close()` notices that the thread is gone; nothing is assumed of callers, I/O success,
crashes or restarts. `BundleAgent`: each thread keeps running; `enQueue` succeeds in the end (the
code retries it for as long as the agent runs); a process that has stopped ends
and is started again. A failed attempt, a crash and a stop are never required
to happen nor forbidden for ever except by the bound on restarts. `JniAgent`: the same.
`SocketAgent`: both threads keep running, and neither is passed over for ever at `outputLock`
(strong fairness: Java's monitors do not promise it, but a thread leaves the monitor between
two messages and goes through a network request each time); submitted messages are reported; the server
answers once the bound on failures is used up, that is, it does not fail for ever.
`Monitor`: `main_thread` keeps running, and the key thread is not passed over for ever at the
mutex, because `main_thread` sleeps for a second after each unlock (strong fairness for taking it);
nothing is assumed of the user. `MyAgent`: none, all that is said of it is safety.

## 4. What is proved

Every invariant and every rule for single steps that a passing run checks is a theorem, and so is the
refinement `ImplementsLog`. The theorems hold for every value of the constants that satisfies
the ASSUME of the module: any number of threads, messages, queues, slots and restarts, any sets of records,
results and characters, any capacities and bounds. They are about the specifications without
fairness, which allow more behaviours than the runs.

What the assumptions ask beyond types and names that differ: batches, bundles, queues and
pools hold at least one element; the bundle agent's workers and MyAgent's sender threads are finitely many (they are
counted); a result of the bundle agent has up to two outputs, as the code produces; the
journal's records are those the operations write; the converters' own characters are characters.

The bounds of the runs (`MaxRecords`, `MaxRestarts`, `MaxFaults`, `MaxSeq`, `MaxPublished`) are constants
too, and each theorem holds for every bound.

**`Journal_proofs`.**

* `TypeCorrect`, and `AckedStaysForced`: not inductive by itself, because `Ack` sets `acked` to
  the length of the file; `AckOnlyForced` adds that the whole file is forced while the writer
  is at "ack".
* `NoTornAppend` rests on `WriterAlive`: while the writer runs, the file does not end in a torn
  record.
* `NoStrandedCaller` and `GoneWriterIsClean` by the joint invariant `WaiterInv`: who waits has exactly one
  request in batch and queue together, and when the writer is gone both are empty. The lemmas about
  `Disown`, `Append` and splitting the queue state what those operators do to claims.
* `JournalImplementsLog`: `Spec => ImplementsLog`. The mapping takes the forced prefix of the file for the log and
  everything behind it for the tail, so the proof needs to know what is behind:
  `FileEndsInBatch` says that the file ends in the records of the batch that are written, and `BehindShape`
  lists the tail request by request: old records nobody waits for, the batch, the queue. Each action then
  has a lemma (`SubmitMaps`, `ForceMaps`, ...): `Submit` appends to the tail, `ForceBatch` moves a prefix of it into
  the log, a failure or a crash cuts the tail somewhere, `Gather` and `WriteRecord` only move a request
  within the tail and leave the log as it is.

**`DurableStore_proofs`** is about one sequence, `Whole`: the file, followed by what is on the way to
it. The journal thread only moves records within it, an operation appends to it, and a
failure cuts it back to the file. The invariant `StoreInv` has, beside the journal's, `Locks` (who is in
`append()` holds its stripe alone, and the entry it has looked up stays),
`Agreement` (for each place `j` a crash may still reach in `Whole`, replaying the first `j` records gives the
entry in memory before the record of the operation under way, and its effect from there on) and `Readable`
(a replay of the whole succeeds and knows what memory knows). It is more than the properties say, since these
speak of the file only. From it follow `StoreTypeCorrect`, `MemoryIsInTheJournal`, `SuccessSurvives` and
`ConstructorSucceeds`. `Replayed` is a recursive function; that it exists for
every journal is proved by a least counterexample, and what it does to one more record
(`ReplaySteps`, `ReplayIsEffect`) is all the proof uses.

**`BundleAgent_proofs`** treats the agent with its reader and store in five layers, each on those
before it.

* `Shape`: the types, and which thread holds something when. `TypeCorrect`.
* `Flow`: how many places of the pipeline hold a message (`HeldOnce`, `OwedIsHeld`, ...); every step but two moves
  a message or drops it. `NoDuplicateWork` and `NoWorkForgotten`.
* `Ownership`: the entry of a message belongs to its executor until it is finished and to the publisher
  then; a result in memory is in the journal. `PublishedStaysInJournal` and `RecordedBeforeCommit`.
* `Output`: what is checkpointed was published, and the publisher's list has all of it. `PublishedInOrder`
  and `NothingDoneEarly`.
* `Budget`: an item is ahead of its checkpoint by one at most, and only an end of the process makes the
  publisher start behind. `RepetitionsArePaid`, for a journal that does not fail, the premise under which the run
  checks it too; with a failing journal it is false (`agent_checkpoint_fails`).

**`FQueueJni_proofs`**: `PendingIsLock`, `LockIsOwned` and `TokensAreTakenByReuse` from `IInv`. The properties alone are
not inductive: one needs that a slot with an XA knows the number of its queue's oldest message
(`PendingSlotIsLocked`), that tokens and calls of `deQueueXA()` under way belong to different
XAs (`HandsAreApart`), and that a queue is open only under a logger. The last two parts are about
messages no used object has touched (`reused`), since the code keeps no others apart.

**`JniAgent_proofs`**: `NoneCommittedUnanswered` and `RepeatsArePaid`. `StageOfCurrent` says what has been enqueued for the message
in hand at each place in the code, `CountsArePaid` that one copy of an item is free for the current attempt and
every further one has been paid for by a restart.

**`SocketAgent_proofs`**: `ResultsComeSecond`, `NoneDropped` and `RepeatsArePaid`. `AckComesFirst` extends the order of ACK and RESULT to
reports that are not yet published, `NewHasNoTrace` says that a message that is not yet submitted has no ACK, error, report or RESULT anywhere, `RepeatsArePromised` counts a message whose ACK, RESULT or error is already out while its thread still tries.

**`Tools_proofs`**, one part for each of three groups.

* Generator and monitor: `GeneratorLosesNothing` (a message is composed only while there are messages
  to send) and `RatesAreHonest`: everything copied was once in the header (`CopiesAreOld`, because
  counters never fall), and at each place in a pass the value added to the rates is not ahead of the one the next
  rate starts from (`PassIsInStep`).
* Conversions: `FailuresErase` and `FilledFieldsFit`, for all strings and all sequences of codes. The lemma `Conversions`
  states for each converter the length of what it leaves and that it is a string; for the
  recursion of `del_chars` by a least counterexample. `ConvInv` adds that while the codes run the buffer holds
  the value unless a converter has just refused one that is too long.
* MyAgent: `NothingIsLost` needs `Kept`: before the first recovery, a file holds at most the message in work, and the ACK
  that comes is the ACK of that message. The second part is what fails after a recovery (see section 3).
  `RepeatsArePaid` needs `RepeatInv`, which counts with what the carrier has received also what it may still
  receive: frames under way, the message still in the queue or about to be sent, and the threads that
  have a file to send again. `ReportsAreKept` needs `ResultInv`: while the carrier waits for a confirmation, the message at
  the head of its queue is reported.

**`ProofLemmas`** holds what several of them need: least numbers, the positions of a value in a
sequence and their count, the range of a sequence, sequences without repetition, division, and sets of
numbers put in increasing order and cut into groups of equal size (startup makes bundles that way).

Only model-checked: what must happen in the end (`CallsReturn`, `CloseEnds`, `ReadyIsAnswered`, `StartupEnds`, `InputIsDrained`,
`MessagesAreAnswered`, `ReportsArePublished`, `StopEnds`, `KeysAreHandled`), because the prover handles neither
fairness nor ENABLED; and the four violations, which are counterexamples. That `MessageStore` is what a
client of `DurableStore` sees is argued above and neither checked nor proved.

## 5. Plan

1. (done) `WriteAheadLog`, `Journal`, `DurableStore`, `MessageStore`, `BundleReader`,
   `BundleAgent`, `FQueueJni`, `JniAgent`, `SocketAgent`, with the runs above.
2. (done) `MyAgent` with its carrier, `VirtualGw`, `FieldConversion`, `Monitor`.
3. (done) Proofs of all safety properties of the passing runs and of the refinement.
4. Proofs: a mapping from `DurableStore` to the promise of one operation, so that `MessageStore` rests on
   more than an argument; bounds the code relies on and no run states (the bundle queue and the pool never hold more
   than their capacity).
5. Codec and audit as operators under `JniAgent` and `SocketAgent`: which requests are valid, unreplyable,
   rejected. `VirtualCoAgent`.

## 6. Not modelled

Of the C lines of the repository most are headers: the vendored ncurses and FileQueue headers declare
a library that is a binary, and have no behaviour to model. The C programs are `fqueue_jni.c`,
`virtual_gw` and `monitor`; of the last the drawing (`screen.c`, `display_screen`, the titles)
and `fuser_popen.c` are left out, because nothing reads the screen back.

Hazards that no small instance shows: more than MAX_FILES_QUEUES (500) queues run past `Qs[]`
(`monitor.c:250`); a stream field with `msg_len` above its `len` (`virtual_gw_main.c:260`); a
message as large as the receive buffer (`fqueue_jni.c:328`). Lines of the monitor are composed without the
mutex of `Qs[]` (`monitor.c:337`), so one may mix two passes. A failed recovery ends a sender
thread of MyAgent for good (`MyAgent.java:520`): modelled, and nothing promises otherwise.

Branches of modelled methods that are left out: the record of an older version without outputs in
`publishOne` (`BundleAgent.java:560-562`); the interruption of the journal thread itself (`DurableStore.java:568-577`),
whom nobody interrupts; in MyAgent a `deleteFile()` that fails and is only logged (745-754), after which the
next recovery sends an old message again; in the simulator a queue write that throws, which is
answered with an ACK all the same (`ClangSimulatorDualFunctionTcpServer.java:193`; one that is refused ends the connection, as `Break` does); a request that the socket
client refuses each time (`FileQueueSocket.java:152`), which is retried for ever, while the model's failures end.

Statistics and logging; configuration files; the text of messages; journals over
2 GB and the growth of the store; errors of the JVM itself (an `Error` in the journal
thread); whether `on_de_XA` blocks inside FileQueue; re-creation of a queue whose sequence
numbers start again. The `.bak` files are older versions of the modelled ones.
