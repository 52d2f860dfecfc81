------------------------------- MODULE Journal -------------------------------
(***************************************************************************)
(* The group-commit journal inside DurableStore.java: append() hands a     *)
(* record to the one journal thread and waits on a latch; the journal      *)
(* thread gathers a batch, writes it, forces it once and counts the        *)
(* latches down.  Interrupted callers, failing writes and forces, close(), *)
(* the death of the process, the loss of power and the truncation of a     *)
(* torn last record by the next constructor are modelled.                  *)
(*                                                                         *)
(* Records are opaque; DurableStore gives them their meaning.  The latch   *)
(* of a request and the thread that waits for it are one thing here: a     *)
(* request names its waiter, and call[t] is "done" or "error" once the     *)
(* latch is down.  Counting down the latches of one batch is one step:     *)
(* a caller wakes up later anyway.                                         *)
(***************************************************************************)
EXTENDS Naturals, Sequences

CONSTANTS
    Thread,         \* the threads that call append()
    Record,         \* the journal records
    Nobody,         \* the waiter of a request whose caller was interrupted
    BatchMax,       \* JOURNAL_BATCH_MAX
    MaxRecords      \* bound of the model: records ever submitted

ASSUME JournalAssumption ==
    /\ Nobody \notin Thread
    /\ BatchMax \in Nat \ {0}
    /\ MaxRecords \in Nat

VARIABLES
    up,             \* the process runs and the constructor has returned
    file,           \* the complete records of the journal file
    forced,         \* how many of them are known to be on the disk
    torn,           \* the file ends in an incomplete record
    queue,          \* journalQueue
    batch,          \* the writer's current batch
    written,        \* how many records of the batch are in the file
    writer,         \* where the journal thread is
    failure,        \* journalFailure # null
    closing,        \* close() has begun
    closed,         \* close() has finished
    call,           \* call[t]: where thread t is in append()
    interrupted,    \* the interrupt flag of each calling thread
    acked           \* history: the longest prefix of the file reported durable

disk == <<file, forced, torn>>
pipe == <<queue, batch, written, writer>>
life == <<up, failure, closing, closed>>
vars == <<disk, pipe, life, call, interrupted, acked>>

Request == [rec : Record, by : Thread \cup {Nobody}]

Claimed(t, reqs) == \E i \in 1..Len(reqs) : reqs[i].by = t

\* The same requests after thread t has stopped waiting.
Disown(t, reqs) ==
    [i \in 1..Len(reqs) |->
        IF reqs[i].by = t THEN [reqs[i] EXCEPT !.by = Nobody] ELSE reqs[i]]

Least(a, b) == IF a < b THEN a ELSE b

-----------------------------------------------------------------------------
(* The calling threads *)

Refusing == closing \/ closed \/ failure

\* Records in the file or on their way to it; only the bound looks at it.
Submitted == Len(file) + (Len(batch) - written) + Len(queue)

\* append() up to done.await().  A thread whose interrupt flag is already
\* set enqueues its request and is thrown out of await() at once.
Submit(t, r) ==
    /\ up
    /\ call[t] = "idle"
    /\ ~Refusing
    /\ Submitted < MaxRecords
    /\ IF interrupted[t]
       THEN /\ queue' = Append(queue, [rec |-> r, by |-> Nobody])
            /\ call' = call
       ELSE /\ queue' = Append(queue, [rec |-> r, by |-> t])
            /\ call' = [call EXCEPT ![t] = "await"]
    /\ UNCHANGED <<disk, batch, written, writer, life, interrupted, acked>>

\* await() returns, and append() with it: normally, or with request.error.
Return(t) ==
    /\ call[t] \in {"done", "error"}
    /\ call' = [call EXCEPT ![t] = "idle"]
    /\ UNCHANGED <<disk, pipe, life, interrupted, acked>>

\* await() throws InterruptedException; the request stays where it is.
ThrowInterrupted(t) ==
    /\ interrupted[t]
    /\ call[t] # "idle"
    /\ call' = [call EXCEPT ![t] = "idle"]
    /\ queue' = Disown(t, queue)
    /\ batch' = Disown(t, batch)
    /\ UNCHANGED <<disk, written, writer, life, interrupted, acked>>

\* Thread.interrupt(); append() always sets the flag again.
Interrupt(t) ==
    /\ up
    /\ ~interrupted[t]
    /\ interrupted' = [interrupted EXCEPT ![t] = TRUE]
    /\ UNCHANGED <<disk, pipe, life, call, acked>>

-----------------------------------------------------------------------------
(* The journal thread *)

\* poll() until the batch is full or the 2 ms are over.
Gather ==
    /\ writer = "poll"
    /\ \E n \in 1..Least(BatchMax, Len(queue)) :
          /\ batch' = SubSeq(queue, 1, n)
          /\ queue' = SubSeq(queue, n + 1, Len(queue))
    /\ written' = 0
    /\ writer' = "write"
    /\ UNCHANGED <<disk, life, call, interrupted, acked>>

\* Fault: the batch is written back to front.
WriteRecordReversed ==
    /\ writer = "write"
    /\ written < Len(batch)
    /\ file' = Append(file, batch[Len(batch) - written].rec)
    /\ written' = written + 1
    /\ UNCHANGED <<forced, torn, queue, batch, writer, life, call, interrupted, acked>>

\* channel.write() of the next record of the batch.
WriteRecord ==
    /\ writer = "write"
    /\ written < Len(batch)
    /\ file' = Append(file, batch[written + 1].rec)
    /\ written' = written + 1
    /\ UNCHANGED <<forced, torn, queue, batch, writer, life, call, interrupted, acked>>

\* Fault: the batch is acknowledged without force().
ForceOmitted ==
    /\ writer = "write"
    /\ written = Len(batch)
    /\ writer' = "ack"
    /\ UNCHANGED <<disk, queue, batch, written, life, call, interrupted, acked>>

\* channel.force(true) succeeds.
ForceBatch ==
    /\ writer = "write"
    /\ written = Len(batch)
    /\ forced' = Len(file)
    /\ writer' = "ack"
    /\ UNCHANGED <<file, torn, queue, batch, written, life, call, interrupted, acked>>

\* Fault: only the latch of the first request is counted down.
AckFirstOnly ==
    /\ writer = "ack"
    /\ call' = [t \in Thread |-> IF Claimed(t, SubSeq(batch, 1, 1)) THEN "done" ELSE call[t]]
    /\ acked' = Len(file)
    /\ batch' = <<>>
    /\ written' = 0
    /\ writer' = "poll"
    /\ UNCHANGED <<disk, queue, life, interrupted>>

\* Fault: the position in the batch is not reset.
AckKeepsPosition ==
    /\ writer = "ack"
    /\ call' = [t \in Thread |-> IF Claimed(t, batch) THEN "done" ELSE call[t]]
    /\ acked' = Len(file)
    /\ batch' = <<>>
    /\ writer' = "poll"
    /\ UNCHANGED <<disk, queue, written, life, interrupted>>

\* The latches of the batch are counted down.
Ack ==
    /\ writer = "ack"
    /\ call' = [t \in Thread |-> IF Claimed(t, batch) THEN "done" ELSE call[t]]
    /\ acked' = Len(file)
    /\ batch' = <<>>
    /\ written' = 0
    /\ writer' = "poll"
    /\ UNCHANGED <<disk, queue, life, interrupted>>

\* Fault: what is still queued is not failed.
FailBatchOnly ==
    /\ failure' = TRUE
    /\ call' = [t \in Thread |-> IF Claimed(t, batch) THEN "error" ELSE call[t]]
    /\ batch' = <<>>
    /\ queue' = queue
    /\ written' = 0
    /\ writer' = "exit"
    /\ UNCHANGED <<up, closing, closed>>

\* failJournal(): the current batch and everything queued get the error.
FailJournal ==
    /\ failure' = TRUE
    /\ call' = [t \in Thread |->
                  IF Claimed(t, batch) \/ Claimed(t, queue) THEN "error" ELSE call[t]]
    /\ batch' = <<>>
    /\ queue' = <<>>
    /\ written' = 0
    /\ writer' = "exit"
    /\ UNCHANGED <<up, closing, closed>>

\* channel.write() or channel.force() throws; a write that fails may leave
\* part of a record behind.
WriterFails ==
    /\ writer = "write"
    /\ torn' \in IF written < Len(batch) THEN BOOLEAN ELSE {torn}
    /\ FailJournal
    /\ UNCHANGED <<file, forced, interrupted, acked>>

\* Fault: the queue is not looked at again.
WriterExitsEarly ==
    /\ writer = "poll"
    /\ closing
    /\ writer' = "exit"
    /\ UNCHANGED <<disk, queue, batch, written, life, call, interrupted, acked>>

\* Fault: the flag that close() sets last is tested.
WriterExitsWhenClosed ==
    /\ writer = "poll"
    /\ closed
    /\ queue = <<>>
    /\ writer' = "exit"
    /\ UNCHANGED <<disk, queue, batch, written, life, call, interrupted, acked>>

\* Nothing polled, close() has begun and the queue is empty.
WriterExits ==
    /\ writer = "poll"
    /\ closing
    /\ queue = <<>>
    /\ writer' = "exit"
    /\ UNCHANGED <<disk, queue, batch, written, life, call, interrupted, acked>>

-----------------------------------------------------------------------------
(* close(), the constructor, and what the outside world does *)

BeginClose ==
    /\ up
    /\ ~closing
    /\ closing' = TRUE
    /\ UNCHANGED <<disk, pipe, up, failure, closed, call, interrupted, acked>>

\* The join on the journal thread has returned and the channel is closed.
EndClose ==
    /\ up
    /\ closing
    /\ ~closed
    /\ writer = "exit"
    /\ closed' = TRUE
    /\ UNCHANGED <<disk, pipe, up, failure, closing, call, interrupted, acked>>

\* The memory of the process is gone.
LoseProcess ==
    /\ up' = FALSE
    /\ queue' = <<>>
    /\ batch' = <<>>
    /\ written' = 0
    /\ writer' = "exit"
    /\ failure' = FALSE
    /\ closing' = FALSE
    /\ closed' = FALSE
    /\ call' = [t \in Thread |-> "idle"]
    /\ interrupted' = [t \in Thread |-> FALSE]

\* The process exits or is killed; the operating system keeps what was
\* written, which may include part of a record.
ProcessDies ==
    /\ up
    /\ LoseProcess
    /\ torn' \in IF writer = "write" /\ written < Len(batch) THEN BOOLEAN ELSE {torn}
    /\ UNCHANGED <<file, forced, acked>>

\* The machine goes down, with or without the process: what was not forced
\* survives as a prefix, possibly cut inside a record.
PowerLoss ==
    /\ LoseProcess
    /\ \E n \in forced..Len(file) :
          /\ file' = SubSeq(file, 1, n)
          /\ forced' = n
          /\ torn' \in IF n < Len(file) \/ torn \/ writer = "write"
                       THEN BOOLEAN ELSE {FALSE}
    /\ UNCHANGED acked

\* Fault: an incomplete last record is left in the file.
RecoverKeepsTail ==
    /\ ~up
    /\ up' = TRUE
    /\ writer' = "poll"
    /\ UNCHANGED <<disk, queue, batch, written, failure, closing, closed, call,
                   interrupted, acked>>

\* The constructor: recoverJournal() cuts an incomplete last record off and
\* forces the file when it had to; then the journal thread starts.
Recover ==
    /\ ~up
    /\ up' = TRUE
    /\ torn' = FALSE
    /\ forced' = IF torn THEN Len(file) ELSE forced
    /\ writer' = "poll"
    /\ UNCHANGED <<file, queue, batch, written, failure, closing, closed,
                   call, interrupted, acked>>

-----------------------------------------------------------------------------
Init ==
    /\ up = FALSE
    /\ file = <<>>
    /\ forced = 0
    /\ torn = FALSE
    /\ queue = <<>>
    /\ batch = <<>>
    /\ written = 0
    /\ writer = "exit"
    /\ failure = FALSE
    /\ closing = FALSE
    /\ closed = FALSE
    /\ call = [t \in Thread |-> "idle"]
    /\ interrupted = [t \in Thread |-> FALSE]
    /\ acked = 0

Writer == Gather \/ WriteRecord \/ ForceBatch \/ Ack \/ WriterFails \/ WriterExits

Caller(t) ==
    \/ \E r \in Record : Submit(t, r)
    \/ Return(t)
    \/ ThrowInterrupted(t)

Next ==
    \/ \E t \in Thread : Caller(t) \/ Interrupt(t)
    \/ Writer
    \/ BeginClose \/ EndClose
    \/ ProcessDies \/ PowerLoss \/ Recover

Spec == Init /\ [][Next]_vars

\* The journal thread and a thread that was woken up keep running.
Fairness ==
    /\ WF_vars(Writer)
    /\ WF_vars(EndClose)
    /\ \A t \in Thread : WF_vars(Return(t) \/ ThrowInterrupted(t))

FairSpec == Spec /\ Fairness

-----------------------------------------------------------------------------
(* Properties *)

\* Every variable holds a value of its type, and the writer's counters stay
\* inside its batch (fields of DurableStore, locals of journalWriterLoop).
TypeOK ==
    /\ up \in BOOLEAN
    /\ file \in Seq(Record)
    /\ forced \in 0..Len(file)
    /\ torn \in BOOLEAN
    /\ queue \in Seq(Request)
    /\ batch \in Seq(Request)
    /\ written \in 0..Len(batch)
    /\ writer \in {"poll", "write", "ack", "exit"}
    /\ failure \in BOOLEAN
    /\ closing \in BOOLEAN
    /\ closed \in BOOLEAN
    /\ call \in [Thread -> {"idle", "await", "done", "error"}]
    /\ interrupted \in [Thread -> BOOLEAN]
    /\ acked \in Nat

\* What append() has reported as durable is on the disk, at every moment and
\* after every crash: no latch is counted down before force() succeeds.
AckedIsForced == acked <= forced

AtMostOnce(t, reqs) ==
    \A i, j \in 1..Len(reqs) : reqs[i].by = t /\ reqs[j].by = t => i = j

\* No caller is stranded and none is woken for another's record: a thread
\* waits exactly while one request of its own is in the batch or queued.
WaiterHasOneRequest ==
    \A t \in Thread :
        /\ call[t] = "await" <=> Claimed(t, batch) \/ Claimed(t, queue)
        /\ ~(Claimed(t, batch) /\ Claimed(t, queue))
        /\ AtMostOnce(t, batch)
        /\ AtMostOnce(t, queue)

\* Once the journal thread is gone nothing is left that it should have
\* handled, whether it left through close(), a failure or a crash.
GoneWriterLeavesNothing ==
    writer = "exit" => queue = <<>> /\ batch = <<>> /\ ~(\E t \in Thread : call[t] = "await")

\* After a failed write nothing more is written by this process, and a new
\* process only appends after the torn record is cut off: a record never
\* starts in the middle of another one.
AppendsOnRecordBoundary == [][file' # file /\ Len(file') > Len(file) => ~torn]_vars

\* A waiting caller gets an answer, also when the journal fails or closes
\* under it.
CallsReturn == \A t \in Thread : call[t] # "idle" ~> call[t] = "idle"

\* close() waits for a journal thread that does leave.
CloseEnds == closing ~> (closed \/ ~up)

\* The abstract log: the forced prefix of the file; everything behind it is
\* open.
Behind ==
    LET old == Len(file) - forced - written
    IN IF writer = "ack" THEN queue
       ELSE [i \in 1..old |-> [rec |-> file[forced + i], by |-> Nobody]] \o batch \o queue

Log == INSTANCE WriteAheadLog WITH log <- SubSeq(file, 1, forced), tail <- Behind

\* Group commit keeps the promise of WriteAheadLog.
ImplementsLog == Log!Spec
=============================================================================
