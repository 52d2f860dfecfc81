----------------------------- MODULE SocketAgent -----------------------------
(***************************************************************************)
(* Agent_socket.java over FileQueueSocket.java: the main thread takes      *)
(* messages from the FileQueue server with DEQU, which has no XA, submits  *)
(* them to the telecom adapter and publishes an ACK; delivery reports come *)
(* back on a thread of the adapter and are published as RESULTs by the     *)
(* report thread.  Both publish over one connection under outputLock.      *)
(*                                                                         *)
(* The server and the telecom network are external.  A request to the      *)
(* server can be lost, rejected, or performed with its reply lost; LINK is *)
(* part of the request that needs it, and a FULL reply is a retry that     *)
(* changes nothing.  One process is modelled: it keeps nothing on disk.    *)
(***************************************************************************)
EXTENDS Naturals, Sequences, FiniteSets, Functions

CONSTANTS
    NumMsgs,        \* bound of the model: input messages, numbered in order
    kind,           \* kind[m]: what process() finds in m
    MaxFaults       \* bound of the model: requests that fail

\* "unreplyable": not JSON, of no known MSG_KIND, without HISTORY_KEY, or with
\* one that fits no response;
\* "rejected": fails the audit; "unbuildable": passes it with fields that do
\* not fit the response maps, so that generate() throws.
Kind == {"health", "unreplyable", "rejected", "unbuildable", "valid"}

Msg == 1..NumMsgs

ASSUME SocketAgentAssumption ==
    /\ NumMsgs \in Nat /\ MaxFaults \in Nat
    /\ kind \in [Msg -> Kind]

VARIABLES
    running,
    input,          \* messages in the server's input queue
    main,           \* where the main thread is
    msg,            \* the message it is processing
    lock,           \* the thread that holds outputLock
    scheduled,      \* messages whose delivery report will come
    reports,        \* the queue of reports
    reporter,       \* where the report thread is
    report,         \* the report it is publishing
    output,         \* the server's output queue
    errors,         \* the server's error queue
    faults,         \* how many requests have failed
    lost            \* history: messages whose DEQU reply was lost

server == <<input, output, errors, faults, lost>>
vars == <<running, main, msg, lock, scheduled, reports, reporter, report, server>>

NoMsg == 0

Free == "free"        \* outputLock is held by nobody

Oldest == CHOOSE m \in input : \A n \in input : m <= n

\* The request has failed; whether it was performed is not known.
Fails(queue, performed) ==
    /\ faults < MaxFaults
    /\ faults' = faults + 1
    /\ queue' \in {queue, performed}

-----------------------------------------------------------------------------
(* The main thread *)

OnlyMain == UNCHANGED <<running, reports, reporter, report>>

MainReads ==
    /\ main = "loop" /\ running
    /\ main' = "dequ"
    /\ UNCHANGED <<msg, lock, scheduled, server>>
    /\ OnlyMain

\* Fault: a message that fails the audit is only logged.
DequeueSkipsRejected ==
    /\ main = "dequ"
    /\ input # {}
    /\ msg' = Oldest
    /\ input' = input \ {msg'}
    /\ main' = CASE kind[msg'] \in {"health", "rejected"}  -> "loop"
                 [] kind[msg'] = "unreplyable"             -> "error"
                 [] kind[msg'] \in {"valid", "unbuildable"} -> "submit"
    /\ UNCHANGED <<lock, scheduled, output, errors, faults, lost>>
    /\ OnlyMain

\* DEQU answers OK with the message.
Dequeue ==
    /\ main = "dequ"
    /\ input # {}
    /\ msg' = Oldest
    /\ input' = input \ {msg'}
    /\ main' = CASE kind[msg'] = "health"                  -> "loop"
                 [] kind[msg'] = "unreplyable"             -> "error"
                 [] kind[msg'] = "rejected"                -> "ackwait"
                 [] kind[msg'] \in {"valid", "unbuildable"} -> "submit"
    /\ UNCHANGED <<lock, scheduled, output, errors, faults, lost>>
    /\ OnlyMain

\* EMPTY, and the main thread sleeps.
FindEmpty ==
    /\ main = "dequ"
    /\ input = {}
    /\ main' = "loop"
    /\ UNCHANGED <<msg, lock, scheduled, server>>
    /\ OnlyMain

\* The request fails; the server may have removed the message.  (A request
\* that fails on an empty queue changes nothing.)
DequeueFails ==
    /\ main = "dequ"
    /\ input # {}
    /\ Fails(input, input \ {Oldest})
    /\ lost' = lost \cup (input \ input')
    /\ main' = "recover"
    /\ UNCHANGED <<msg, lock, scheduled, output, errors>>
    /\ OnlyMain

\* closeInput() and closeOutput(), which needs the lock; or the loop ends.
MainRecovers ==
    /\ main = "recover"
    /\ IF running THEN lock = Free /\ main' = "loop" ELSE main' = "exit"
    /\ UNCHANGED <<msg, lock, scheduled, server>>
    /\ OnlyMain

\* The loop sees running = FALSE, or stop() closed the input before the
\* request: a read() in progress keeps close() waiting.
MainLeaves ==
    /\ main \in {"loop", "dequ"} /\ ~running
    /\ main' = "exit"
    /\ UNCHANGED <<msg, lock, scheduled, server>>
    /\ OnlyMain

\* Fault: outputLock is taken for the ACK only.
SubmitUnlocked ==
    /\ main = "submit"
    /\ scheduled' \in {scheduled, scheduled \cup {msg}}
    /\ main' = IF kind[msg] = "unbuildable" THEN "error" ELSE "ackwait"
    /\ UNCHANGED <<msg, lock, server>>
    /\ OnlyMain

\* telecom.submit() accepts the message or refuses it, under outputLock,
\* which is kept until the ACK is out; when the ACK cannot be generated the
\* original goes to the error queue.
Submit ==
    /\ main = "submit"
    /\ lock = Free
    /\ scheduled' \in {scheduled, scheduled \cup {msg}}
    /\ IF kind[msg] = "unbuildable"
       THEN main' = "error" /\ UNCHANGED lock
       ELSE main' = "ack" /\ lock' = "main"
    /\ UNCHANGED <<msg, server>>
    /\ OnlyMain

\* publish() of the ACK of a rejected message.
MainLocks ==
    /\ main = "ackwait"
    /\ lock = Free
    /\ lock' = "main"
    /\ main' = "ack"
    /\ UNCHANGED <<msg, scheduled, server>>
    /\ OnlyMain

\* Fault: a thread that is told to stop keeps outputLock.
MainGivesUpLocked ==
    /\ main \in {"ack", "error"} /\ ~running
    /\ main' = "exit"
    /\ UNCHANGED <<msg, lock, scheduled, server>>
    /\ OnlyMain

\* The loops of publish() and publishError() check running ...
MainWrites ==
    /\ main \in {"ack", "error"} /\ running
    /\ main' = IF main = "ack" THEN "acking" ELSE "erroring"
    /\ UNCHANGED <<msg, lock, scheduled, server>>
    /\ OnlyMain

\* ... or throw InterruptedException, which ends the main loop.
MainGivesUp ==
    /\ main \in {"ack", "error"} /\ ~running
    /\ main' = "exit"
    /\ lock' = IF lock = "main" THEN Free ELSE lock
    /\ UNCHANGED <<msg, scheduled, server>>
    /\ OnlyMain

Ack == [item |-> "ACK", msg |-> msg]

AckWritten ==
    /\ main = "acking"
    /\ output' = Append(output, Ack)
    /\ lock' = Free
    /\ main' = "loop"
    /\ UNCHANGED <<msg, scheduled, input, errors, faults, lost>>
    /\ OnlyMain

AckFails ==
    /\ main = "acking"
    /\ Fails(output, Append(output, Ack))
    /\ main' = "ack"
    /\ UNCHANGED <<msg, lock, scheduled, input, errors, lost>>
    /\ OnlyMain

\* Fault: every reply but FULL is taken for a failure.
ErrorWrittenAgain ==
    /\ main = "erroring"
    /\ Len(errors) < NumMsgs
    /\ errors' = Append(errors, msg)
    /\ main' \in {"loop", "error"}
    /\ UNCHANGED <<msg, lock, scheduled, input, output, faults, lost>>
    /\ OnlyMain

ErrorWritten ==
    /\ main = "erroring"
    /\ errors' = Append(errors, msg)
    /\ main' = "loop"
    /\ UNCHANGED <<msg, lock, scheduled, input, output, faults, lost>>
    /\ OnlyMain

\* Fault: the message is given up when the error queue cannot be reached.
ErrorFailsForGood ==
    /\ main = "erroring"
    /\ Fails(errors, Append(errors, msg))
    /\ main' = "loop"
    /\ UNCHANGED <<msg, lock, scheduled, input, output, lost>>
    /\ OnlyMain

ErrorFails ==
    /\ main = "erroring"
    /\ Fails(errors, Append(errors, msg))
    /\ main' = "error"
    /\ UNCHANGED <<msg, lock, scheduled, input, output, lost>>
    /\ OnlyMain

Main ==
    \/ MainReads \/ Dequeue \/ FindEmpty \/ DequeueFails \/ MainRecovers \/ MainLeaves
    \/ Submit \/ MainLocks \/ MainWrites \/ MainGivesUp
    \/ AckWritten \/ AckFails \/ ErrorWritten \/ ErrorFails

-----------------------------------------------------------------------------
(* The telecom adapter's thread and the report thread *)

\* onDeliveryReport(): the RESULT is queued, or cannot be generated and is
\* only logged.
Delivered(m) ==
    /\ m \in scheduled
    /\ scheduled' = scheduled \ {m}
    /\ reports' = IF kind[m] = "unbuildable" THEN reports ELSE Append(reports, m)
    /\ UNCHANGED <<running, main, msg, lock, reporter, report, server>>

OnlyReporter == UNCHANGED <<running, main, msg, scheduled>>

ReporterPolls ==
    /\ reporter = "poll"
    /\ reports # <<>>
    /\ report' = Head(reports)
    /\ reports' = Tail(reports)
    /\ reporter' = "wait"
    /\ UNCHANGED <<lock, server>>
    /\ OnlyReporter

ReporterLocks ==
    /\ reporter = "wait"
    /\ lock = Free
    /\ lock' = "reporter"
    /\ reporter' = "check"
    /\ UNCHANGED <<reports, report, server>>
    /\ OnlyReporter

ReporterWrites ==
    /\ reporter = "check" /\ running
    /\ reporter' = "write"
    /\ UNCHANGED <<lock, reports, report, server>>
    /\ OnlyReporter

Result == [item |-> "RESULT", msg |-> report]

ResultWritten ==
    /\ reporter = "write"
    /\ output' = Append(output, Result)
    /\ lock' = Free
    /\ reporter' = "poll"
    /\ report' = NoMsg
    /\ UNCHANGED <<reports, input, errors, faults, lost>>
    /\ OnlyReporter

\* Fault: a RESULT is not retried.
ResultFailsForGood ==
    /\ reporter = "write"
    /\ Fails(output, Append(output, Result))
    /\ reporter' = "poll"
    /\ report' = NoMsg
    /\ lock' = Free
    /\ UNCHANGED <<reports, input, errors, lost>>
    /\ OnlyReporter

ResultFails ==
    /\ reporter = "write"
    /\ Fails(output, Append(output, Result))
    /\ reporter' = "check"
    /\ UNCHANGED <<lock, reports, report, input, errors, lost>>
    /\ OnlyReporter

\* Interrupted by stop(), or told by running: the report thread ends, with
\* what it holds and what is queued.
ReporterExits ==
    /\ reporter \in {"poll", "check"} /\ ~running
    /\ reporter' = "exit"
    /\ lock' = IF lock = "reporter" THEN Free ELSE lock
    /\ UNCHANGED <<reports, report, server>>
    /\ OnlyReporter

Reporter ==
    \/ ReporterPolls \/ ReporterLocks \/ ReporterWrites \/ ResultWritten \/ ResultFails
    \/ ReporterExits

-----------------------------------------------------------------------------
\* stop(), called by the shutdown hook.
Stop ==
    /\ running
    /\ running' = FALSE
    /\ UNCHANGED <<main, msg, lock, scheduled, reports, reporter, report, server>>

Init ==
    /\ running = TRUE
    /\ input = Msg
    /\ main = "loop"
    /\ msg = NoMsg
    /\ lock = Free
    /\ scheduled = {}
    /\ reports = <<>>
    /\ reporter = "poll"
    /\ report = NoMsg
    /\ output = <<>>
    /\ errors = <<>>
    /\ faults = 0
    /\ lost = {}

Next ==
    \/ Main
    \/ \E m \in Msg : Delivered(m)
    \/ Reporter
    \/ Stop

Spec == Init /\ [][Next]_vars

\* Both threads keep running, outputLock is not withheld from either for
\* ever, and the telecom network reports in the end.
FairSpec ==
    /\ Spec
    /\ SF_vars(Main) /\ SF_vars(Reporter)
    /\ \A m \in Msg : WF_vars(Delivered(m))

-----------------------------------------------------------------------------
(* Properties *)

\* All variables hold values of their types, and a thread writes to the
\* output queue only with outputLock held.
TypeOK ==
    /\ running \in BOOLEAN
    /\ input \subseteq Msg /\ lost \subseteq Msg /\ scheduled \subseteq Msg
    /\ main \in {"loop", "dequ", "recover", "submit", "ackwait", "ack", "acking",
                 "error", "erroring", "exit"}
    /\ msg \in Msg \cup {NoMsg} /\ report \in Msg \cup {NoMsg}
    /\ lock \in {Free, "main", "reporter"}
    /\ lock = "main" <=> main \in {"ack", "acking"}
    /\ lock = "reporter" <=> reporter \in {"check", "write"}
    /\ reports \in Seq(Msg) /\ errors \in Seq(Msg)
    /\ reporter \in {"poll", "wait", "check", "write", "exit"}
    /\ output \in Seq([item : {"ACK", "RESULT"}, msg : Msg])
    /\ faults \in 0..MaxFaults

Written(item, m) == {i \in 1..Len(output) : output[i] = [item |-> item, msg |-> m]}

\* A RESULT never overtakes the ACK of its message, however early the
\* delivery report comes and however often the ACK has to be retried.
AckBeforeResult ==
    \A m \in Msg : \A i \in Written("RESULT", m) : \E j \in Written("ACK", m) : j < i

Repeats(queue) == Len(queue) - Cardinality(Range(queue))

\* "Replaying the identical payload may cause duplicates": only that does;
\* there are no more repetitions than requests that failed.
RepeatsAreReplays == Repeats(output) + Repeats(errors) <= faults

Answered(m) == Written("ACK", m) # {} \/ m \in Range(errors)

\* While the agent runs it loses sight of no message it was given: each one
\* is answered or in the main thread's hands, save one whose DEQU reply was
\* lost.
NothingDropped ==
    running => \A m \in Msg \ input :
        kind[m] = "health" \/ m \in lost \/ Answered(m)
          \/ (m = msg /\ main \in {"submit", "ackwait", "ack", "acking", "error", "erroring"})

\* Every message that is dequeued is answered, unless the agent is stopped.
MessagesAreAnswered ==
    \A m \in Msg : <>(~running \/ m \in lost \/ kind[m] = "health" \/ Answered(m))

\* A report that has come is published, unless the agent is stopped: neither
\* thread keeps outputLock from the other.
ReportsArePublished ==
    \A m \in Msg : m \in Range(reports)
                     ~> (~running \/ Written("RESULT", m) # {})

\* After stop() both threads come to an end.
StopEnds == ~running ~> (main = "exit" /\ reporter = "exit")
=============================================================================
