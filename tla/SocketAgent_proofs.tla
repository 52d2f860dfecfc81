-------------------------- MODULE SocketAgent_proofs --------------------------
(***************************************************************************)
(* What is proved of SocketAgent for every number and kind of messages and *)
(* every bound on the failures.                                            *)
(***************************************************************************)
EXTENDS SocketAgent, ProofLemmas

\* What the main thread and the report thread have to publish.
AckOf(m) == [item |-> "ACK", msg |-> m]
ResultOf(m) == [item |-> "RESULT", msg |-> m]

Publishing == main \in {"ack", "acking"}
Failing == main \in {"error", "erroring"}
Reporting == reporter \in {"check", "write"}

\* A thread that works has a message in hand.
HandsAreFull ==
    /\ main \in {"submit", "ackwait"} \/ Publishing \/ Failing => msg \in Msg \ input
    /\ reporter = "wait" \/ Reporting => report \in Msg

\* A message whose delivery report is still to come, is queued, or is taken
\* from the queue.
Due(m) ==
    \/ m \in scheduled
    \/ m \in Range(reports)
    \/ m = report /\ reporter = "wait"

\* A RESULT that is due, or in the report thread's hands, is one of a message
\* that was acknowledged, or will be before the lock is free, unless the
\* agent stops; the lock is the only thing that keeps a RESULT back.
AckComesFirst ==
    /\ \A m \in Msg : (Due(m) \/ (m = report /\ reporter = "check")) /\ kind[m] # "unbuildable" =>
          \/ ~running
          \/ AckOf(m) \in Range(output)
          \/ m = msg /\ Publishing
    /\ reporter = "write" => AckOf(report) \in Range(output)
    /\ \A m \in Range(reports) : kind[m] # "unbuildable"
    /\ reporter = "wait" \/ Reporting => kind[report] # "unbuildable"

\* A message that is not taken, or not submitted, yet has no trace.
NewHasNoTrace ==
    \A m \in Msg : m \in input \/ (m = msg /\ main \in {"submit", "ackwait"}) =>
        /\ AckOf(m) \notin Range(output) /\ m \notin Range(errors)
        /\ ~Due(m) /\ ResultOf(m) \notin Range(output)
        /\ m # report

\* A delivery report comes once, and its RESULT is not published before.
DueOnce ==
    /\ \A m \in Msg : Due(m) => ResultOf(m) \notin Range(output)
    /\ \A m \in scheduled : m \notin Range(reports) /\ m # report
    /\ report \notin Range(reports)
    /\ NoRepeats(reports)

One(b) == IF b THEN 1 ELSE 0

\* A thread that has written before, without an answer, has a fault to pay
\* the repetition with.
AckIsOut == Publishing /\ AckOf(msg) \in Range(output)
ErrorIsOut == Failing /\ msg \in Range(errors)
ResultIsOut == Reporting /\ ResultOf(report) \in Range(output)

RepeatsArePromised ==
    Repeats(output) + Repeats(errors) + One(AckIsOut) + One(ErrorIsOut) + One(ResultIsOut)
        <= faults

\* The inductive invariant.
IInv ==
    /\ TypeOK
    /\ HandsAreFull
    /\ AckComesFirst
    /\ AckBeforeResult
    /\ NothingDropped
    /\ NewHasNoTrace
    /\ DueOnce
    /\ RepeatsArePromised

-----------------------------------------------------------------------------
(* Lemmas *)

Entry == [item : {"ACK", "RESULT"}, msg : Msg]

\* What is published for a message, and that it tells the message and its
\* kind.
LEMMA Entries ==
  /\ \A m \in Msg : AckOf(m) \in Entry /\ ResultOf(m) \in Entry
  /\ \A m, n \in Msg : AckOf(m) # ResultOf(n)
  /\ \A m, n \in Msg : AckOf(m) = AckOf(n) => m = n
  /\ \A m, n \in Msg : ResultOf(m) = ResultOf(n) => m = n
  /\ NoMsg \notin Msg
  /\ Ack = AckOf(msg) /\ Result = ResultOf(report)
<1>1. NoMsg \notin Msg
  BY SocketAgentAssumption DEF NoMsg, Msg
<1>2. QED
  BY <1>1 DEF Entry, AckOf, ResultOf, Ack, Result

LEMMA OldestIsInput ==
  ASSUME TypeOK, input # {}
  PROVE  Oldest \in input /\ Oldest \in Msg
<1>1. Msg \subseteq Nat
  BY SocketAgentAssumption DEF Msg
<1>2. input \in SUBSET Nat
  BY <1>1 DEF TypeOK
<1>3. QED
  BY <1>2, LeastIsChosen DEF Oldest, TypeOK

\* An entry of the output queue has a place there.
LEMMA WrittenInRange ==
  ASSUME TypeOK, NEW m \in Msg
  PROVE  /\ AckOf(m) \in Range(output) <=> Written("ACK", m) # {}
         /\ ResultOf(m) \in Range(output) <=> Written("RESULT", m) # {}
<1>1. DOMAIN output = 1..Len(output)
  BY LenProperties DEF TypeOK
<1>2. QED
  BY <1>1 DEF Range, Written, AckOf, ResultOf

\* The contents of the queues when something is appended to them.
LEMMA QueuesGrow ==
  ASSUME TypeOK
  PROVE  /\ output \in Seq(Entry)
         /\ \A e \in Entry : /\ Append(output, e) \in Seq(Entry)
                             /\ Range(Append(output, e)) = Range(output) \cup {e}
         /\ \A m \in Msg : /\ Append(errors, m) \in Seq(Msg)
                           /\ Range(Append(errors, m)) = Range(errors) \cup {m}
         /\ \A m \in Msg : /\ Append(reports, m) \in Seq(Msg)
                           /\ Range(Append(reports, m)) = Range(reports) \cup {m}
<1>1. output \in Seq(Entry) /\ errors \in Seq(Msg) /\ reports \in Seq(Msg)
  BY DEF TypeOK, Entry
<1>2. QED
  BY <1>1, RangeAppend, AppendProperties

\* The report that is polled.
LEMMA PolledReport ==
  ASSUME TypeOK, reports # <<>>
  PROVE  /\ Head(reports) \in Msg /\ Tail(reports) \in Seq(Msg)
         /\ Range(reports) = {Head(reports)} \cup Range(Tail(reports))
<1>1. reports \in Seq(Msg)
  BY DEF TypeOK
<1>2. QED
  BY <1>1, HeadTailProperties, RangeTail

-----------------------------------------------------------------------------
(* Types *)

LEMMA TypeInit == Init => TypeOK
<1> SUFFICES ASSUME Init PROVE TypeOK
  OBVIOUS
<1>1. 0 \in 0..MaxFaults
  BY SocketAgentAssumption
<1>2. /\ output \in Seq([item : {"ACK", "RESULT"}, msg : Msg])
      /\ reports \in Seq(Msg) /\ errors \in Seq(Msg)
  BY DEF Init
<1>3. QED
  BY <1>1, <1>2 DEF Init, TypeOK, Free

\* A request that fails counts one more fault.
LEMMA FaultsType ==
  ASSUME TypeOK, faults < MaxFaults, faults' = faults + 1
  PROVE  faults' \in 0..MaxFaults
BY SocketAgentAssumption DEF TypeOK

LEMMA TypeStep == TypeOK /\ HandsAreFull /\ [Next]_vars => TypeOK' /\ HandsAreFull'
<1> SUFFICES ASSUME TypeOK, HandsAreFull, [Next]_vars PROVE TypeOK' /\ HandsAreFull'
  OBVIOUS
<1> USE Entries DEF HandsAreFull, Publishing, Failing, Reporting, server, OnlyMain,
                    OnlyReporter, Free
<1>1. CASE MainReads
  BY <1>1 DEF MainReads, TypeOK
<1>2. CASE Dequeue
  <2>1. msg' \in input /\ msg' \in Msg
    BY <1>2, OldestIsInput DEF Dequeue
  <2>2. kind[msg'] \in Kind
    BY <2>1, SocketAgentAssumption
  <2>3. main' \in {"loop", "error", "ackwait", "submit"}
    BY <1>2, <2>2 DEF Dequeue, Kind
  <2>4. QED
    BY <1>2, <2>1, <2>3 DEF Dequeue, TypeOK
<1>3. CASE FindEmpty
  BY <1>3 DEF FindEmpty, TypeOK
<1>4. CASE DequeueFails
  <2>1. faults' \in 0..MaxFaults
    BY <1>4, FaultsType DEF DequeueFails, Fails
  <2>2. input' \subseteq input
    BY <1>4 DEF DequeueFails, Fails
  <2>3. QED
    BY <1>4, <2>1, <2>2 DEF DequeueFails, TypeOK
<1>5. CASE MainRecovers
  BY <1>5 DEF MainRecovers, TypeOK
<1>6. CASE MainLeaves
  BY <1>6 DEF MainLeaves, TypeOK
<1>7. CASE Submit
  <2>1. main' \in {"error", "ack"} /\ (main' = "ack" => lock' = "main") /\ (main' = "error" => lock' = lock)
    BY <1>7 DEF Submit
  <2>2. QED
    BY <1>7, <2>1 DEF Submit, TypeOK
<1>8. CASE MainLocks
  BY <1>8 DEF MainLocks, TypeOK
<1>9. CASE MainWrites
  BY <1>9 DEF MainWrites, TypeOK
<1>10. CASE MainGivesUp
  BY <1>10 DEF MainGivesUp, TypeOK
<1>11. CASE AckWritten
  <2>1. output' \in Seq(Entry)
    BY <1>11, QueuesGrow DEF AckWritten
  <2>2. QED
    BY <1>11, <2>1 DEF AckWritten, TypeOK, Entry
<1>12. CASE AckFails
  <2>1. faults' \in 0..MaxFaults
    BY <1>12, FaultsType DEF AckFails, Fails
  <2>2. output' \in Seq(Entry)
    <3>1. output' = output \/ output' = Append(output, AckOf(msg))
      BY <1>12 DEF AckFails, Fails
    <3>2. msg \in Msg
      BY <1>12 DEF AckFails
    <3>3. QED
      BY <3>1, <3>2, QueuesGrow
  <2>3. QED
    BY <1>12, <2>1, <2>2 DEF AckFails, TypeOK, Entry
<1>13. CASE ErrorWritten
  <2>1. errors' \in Seq(Msg)
    BY <1>13, QueuesGrow DEF ErrorWritten
  <2>2. QED
    BY <1>13, <2>1 DEF ErrorWritten, TypeOK
<1>14. CASE ErrorFails
  <2>1. faults' \in 0..MaxFaults
    BY <1>14, FaultsType DEF ErrorFails, Fails
  <2>2. errors' \in Seq(Msg)
    <3>1. errors' = errors \/ errors' = Append(errors, msg)
      BY <1>14 DEF ErrorFails, Fails
    <3>2. msg \in Msg
      BY <1>14 DEF ErrorFails
    <3>3. QED
      BY <3>1, <3>2, QueuesGrow DEF TypeOK
  <2>3. QED
    BY <1>14, <2>1, <2>2 DEF ErrorFails, TypeOK
<1>15. ASSUME NEW m \in Msg, Delivered(m) PROVE TypeOK' /\ HandsAreFull'
  <2>1. reports' \in Seq(Msg)
    BY <1>15, QueuesGrow DEF Delivered, TypeOK
  <2>2. QED
    BY <1>15, <2>1 DEF Delivered, TypeOK
<1>16. CASE ReporterPolls
  BY <1>16, PolledReport DEF ReporterPolls, TypeOK
<1>17. CASE ReporterLocks
  BY <1>17 DEF ReporterLocks, TypeOK
<1>18. CASE ReporterWrites
  BY <1>18 DEF ReporterWrites, TypeOK
<1>19. CASE ResultWritten
  <2>1. output' \in Seq(Entry)
    BY <1>19, QueuesGrow DEF ResultWritten
  <2>2. QED
    BY <1>19, <2>1 DEF ResultWritten, TypeOK, Entry
<1>20. CASE ResultFails
  <2>1. faults' \in 0..MaxFaults
    BY <1>20, FaultsType DEF ResultFails, Fails
  <2>2. output' \in Seq(Entry)
    BY <1>20, QueuesGrow DEF ResultFails, Fails
  <2>3. QED
    BY <1>20, <2>1, <2>2 DEF ResultFails, TypeOK, Entry
<1>21. CASE ReporterExits
  BY <1>21 DEF ReporterExits, TypeOK
<1>22. CASE Stop
  BY <1>22 DEF Stop, TypeOK
<1>23. CASE UNCHANGED vars
  BY <1>23 DEF vars, TypeOK
<1>24. QED
  BY <1>1, <1>2, <1>3, <1>4, <1>5, <1>6, <1>7, <1>8, <1>9, <1>10, <1>11, <1>12, <1>13, <1>14,
     <1>15, <1>16, <1>17, <1>18, <1>19, <1>20, <1>21, <1>22, <1>23 DEF Next, Main, Reporter

-----------------------------------------------------------------------------
(* The ACK is first *)

LEMMA AckFirstStep ==
  ASSUME TypeOK, HandsAreFull, AckComesFirst, [Next]_vars
  PROVE  AckComesFirst'
<1> USE Entries DEF server, OnlyMain, OnlyReporter, Free
<1>1. ASSUME UNCHANGED <<running, output, scheduled, reports, reporter, report>>,
             Publishing => Publishing' /\ msg' = msg
      PROVE  AckComesFirst'
  BY <1>1 DEF AckComesFirst, Due, Reporting
<1>2. CASE MainReads \/ Dequeue \/ FindEmpty \/ DequeueFails \/ MainRecovers \/ MainLeaves
  <2>1. UNCHANGED <<running, output, scheduled, reports, reporter, report>> /\ ~Publishing
    BY <1>2 DEF MainReads, Dequeue, FindEmpty, DequeueFails, MainRecovers, MainLeaves, Publishing
  <2>2. QED
    BY <1>1, <2>1
<1>3. CASE Submit
  <2>1. /\ UNCHANGED <<running, output, reports, reporter, report, msg>>
        /\ scheduled' \subseteq scheduled \cup {msg}
        /\ kind[msg] # "unbuildable" => main' = "ack"
        /\ ~Publishing
    BY <1>3 DEF Submit, Publishing
  <2>2. QED
    BY <2>1 DEF AckComesFirst, Due, Publishing, Reporting
<1>4. CASE MainLocks \/ MainWrites
  <2>1. /\ UNCHANGED <<running, output, scheduled, reports, reporter, report, msg>>
        /\ Publishing => Publishing'
    BY <1>4 DEF MainLocks, MainWrites, Publishing
  <2>2. QED
    BY <1>1, <2>1
<1>5. CASE MainGivesUp
  <2>1. UNCHANGED <<running, output, scheduled, reports, reporter, report, msg>> /\ ~running
    BY <1>5 DEF MainGivesUp
  <2>2. QED
    BY <2>1 DEF AckComesFirst, Due, Reporting
<1>6. CASE AckWritten \/ AckFails
  <2>1. /\ UNCHANGED <<running, scheduled, reports, reporter, report, msg>>
        /\ msg \in Msg
        /\ \/ output' = Append(output, AckOf(msg))
           \/ output' = output /\ Publishing'
    BY <1>6 DEF AckWritten, AckFails, Fails, HandsAreFull, Publishing
  <2>2. CASE output' = Append(output, AckOf(msg))
    <3>1. Range(output') = Range(output) \cup {AckOf(msg)}
      BY <2>1, <2>2, QueuesGrow
    <3>2. QED
      BY <2>1, <3>1 DEF AckComesFirst, Due, Reporting
  <2>3. CASE output' = output /\ Publishing'
    BY <1>1, <2>1, <2>3
  <2>4. QED
    BY <2>1, <2>2, <2>3
<1>7. CASE ErrorWritten \/ ErrorFails
  <2>1. UNCHANGED <<running, output, scheduled, reports, reporter, report>> /\ ~Publishing
    BY <1>7 DEF ErrorWritten, ErrorFails, Publishing
  <2>2. QED
    BY <1>1, <2>1
<1>8. ASSUME NEW m \in Msg, Delivered(m) PROVE AckComesFirst'
  <2>1. /\ UNCHANGED <<running, output, reporter, report, msg, main>>
        /\ m \in scheduled /\ scheduled' \subseteq scheduled
        /\ \/ reports' = reports
           \/ reports' = Append(reports, m) /\ kind[m] # "unbuildable"
    BY <1>8 DEF Delivered
  <2>2. \/ Range(reports') = Range(reports)
        \/ Range(reports') = Range(reports) \cup {m} /\ kind[m] # "unbuildable"
    BY <2>1, QueuesGrow
  <2>3. QED
    BY <2>1, <2>2 DEF AckComesFirst, Due, Publishing, Reporting
<1>9. CASE ReporterPolls
  <2>1. /\ UNCHANGED <<running, output, scheduled, msg, main>>
        /\ reporter' = "wait" /\ report' \in Range(reports) /\ report' \in Msg
        /\ Range(reports') \subseteq Range(reports)
    BY <1>9, PolledReport DEF ReporterPolls
  <2>2. QED
    BY <2>1 DEF AckComesFirst, Due, Publishing, Reporting
<1>10. CASE ReporterLocks
  <2>1. /\ UNCHANGED <<running, output, scheduled, reports, report, msg, main>>
        /\ reporter = "wait" /\ reporter' = "check"
    BY <1>10 DEF ReporterLocks
  <2>2. QED
    BY <2>1 DEF AckComesFirst, Due, Publishing, Reporting
<1>11. CASE ReporterWrites
  <2>1. /\ UNCHANGED <<running, output, scheduled, reports, report, msg, main>>
        /\ reporter = "check" /\ reporter' = "write" /\ running
    BY <1>11 DEF ReporterWrites
  <2>2. report \in Msg /\ kind[report] # "unbuildable" /\ ~Publishing
    BY <2>1 DEF HandsAreFull, AckComesFirst, TypeOK, Reporting, Publishing
  <2>3. AckOf(report) \in Range(output)
    BY <2>1, <2>2 DEF AckComesFirst
  <2>4. QED
    BY <2>1, <2>3 DEF AckComesFirst, Due, Publishing, Reporting
<1>12. CASE ResultWritten \/ ResultFails
  <2>1. /\ UNCHANGED <<running, scheduled, reports, msg, main>>
        /\ report \in Msg
        /\ reporter = "write"
        /\ \/ reporter' = "poll" /\ report' = NoMsg
           \/ reporter' = "check" /\ report' = report
        /\ output' = output \/ output' = Append(output, ResultOf(report))
    BY <1>12 DEF ResultWritten, ResultFails, Fails, HandsAreFull, Reporting
  <2>2. Range(output) \subseteq Range(output')
    BY <2>1, QueuesGrow
  <2>3. AckOf(report) \in Range(output) /\ kind[report] # "unbuildable"
    BY <2>1 DEF AckComesFirst, Reporting
  <2>4. QED
    BY <2>1, <2>2, <2>3 DEF AckComesFirst, Due, Publishing, Reporting
<1>13. CASE ReporterExits
  <2>1. /\ UNCHANGED <<running, output, scheduled, reports, report, msg, main>>
        /\ reporter' = "exit"
    BY <1>13 DEF ReporterExits
  <2>2. QED
    BY <2>1 DEF AckComesFirst, Due, Publishing, Reporting
<1>14. CASE Stop
  <2>1. ~running' /\ UNCHANGED <<output, scheduled, reports, reporter, report, msg, main>>
    BY <1>14 DEF Stop
  <2>2. QED
    BY <2>1 DEF AckComesFirst, Due, Reporting
<1>15. CASE UNCHANGED vars
  BY <1>15 DEF vars, AckComesFirst, Due, Publishing, Reporting
<1>16. QED
  BY <1>2, <1>3, <1>4, <1>5, <1>6, <1>7, <1>8, <1>9, <1>10, <1>11, <1>12, <1>13, <1>14, <1>15
     DEF Next, Main, Reporter

\* An entry that is appended keeps the order, when a RESULT comes only where
\* the ACK is.
LEMMA AppendKeepsOrder ==
  ASSUME TypeOK, AckBeforeResult, NEW e \in Entry, output' = Append(output, e),
         \A m \in Msg : e = ResultOf(m) => AckOf(m) \in Range(output)
  PROVE  AckBeforeResult'
<1>1. /\ output \in Seq(Entry)
      /\ Len(output') = Len(output) + 1
      /\ \A i \in 1..Len(output) : output'[i] = output[i]
      /\ output'[Len(output) + 1] = e
      /\ Len(output) \in Nat
  BY QueuesGrow, AppendProperties
<1>2. SUFFICES ASSUME NEW m \in Msg, NEW i \in Written("RESULT", m)'
               PROVE  \E j \in Written("ACK", m)' : j < i
  BY DEF AckBeforeResult
<1>3. i \in 1..(Len(output) + 1) /\ output'[i] = ResultOf(m)
  BY <1>1, <1>2 DEF Written, ResultOf
<1>4. \A j \in Written("ACK", m) : j \in Written("ACK", m)' /\ j <= Len(output) /\ j \in Nat
  BY <1>1 DEF Written
<1>5. CASE i \in 1..Len(output)
  <2>1. i \in Written("RESULT", m)
    BY <1>1, <1>3, <1>5 DEF Written, ResultOf
  <2>2. QED
    BY <1>4, <2>1 DEF AckBeforeResult
<1>6. CASE i = Len(output) + 1
  <2>1. AckOf(m) \in Range(output)
    BY <1>1, <1>3, <1>6
  <2>2. PICK j \in Written("ACK", m) : TRUE
    BY <2>1, WrittenInRange
  <2>3. QED
    BY <1>1, <1>4, <1>6, <2>2
<1>7. QED
  BY <1>1, <1>3, <1>5, <1>6

LEMMA OrderStep ==
  ASSUME TypeOK, HandsAreFull, AckComesFirst, AckBeforeResult, [Next]_vars
  PROVE  AckBeforeResult'
<1> USE Entries DEF server, OnlyMain, OnlyReporter, HandsAreFull, Publishing, Reporting
<1>1. CASE UNCHANGED output
  BY <1>1 DEF AckBeforeResult, Written
<1>2. CASE AckWritten \/ AckFails
  <2>1. msg \in Msg /\ (output' = output \/ output' = Append(output, AckOf(msg)))
    BY <1>2 DEF AckWritten, AckFails, Fails
  <2>2. QED
    BY <1>1, <2>1, AppendKeepsOrder
<1>3. CASE ResultWritten \/ ResultFails
  <2>1. /\ report \in Msg /\ reporter = "write"
        /\ output' = output \/ output' = Append(output, ResultOf(report))
    BY <1>3 DEF ResultWritten, ResultFails, Fails
  <2>2. AckOf(report) \in Range(output)
    BY <2>1 DEF AckComesFirst
  <2>3. \A m \in Msg : ResultOf(report) = ResultOf(m) => AckOf(m) \in Range(output)
    BY <2>1, <2>2
  <2>4. QED
    BY <1>1, <2>1, <2>3, AppendKeepsOrder
<1>4. CASE \/ MainReads \/ Dequeue \/ FindEmpty \/ DequeueFails \/ MainRecovers \/ MainLeaves
           \/ Submit \/ MainLocks \/ MainWrites \/ MainGivesUp \/ ErrorWritten \/ ErrorFails
  BY <1>1, <1>4 DEF MainReads, Dequeue, FindEmpty, DequeueFails, MainRecovers, MainLeaves, Submit,
     MainLocks, MainWrites, MainGivesUp, ErrorWritten, ErrorFails
<1>5. CASE \/ \E m \in Msg : Delivered(m)
           \/ ReporterPolls \/ ReporterLocks \/ ReporterWrites \/ ReporterExits
           \/ Stop \/ UNCHANGED vars
  BY <1>1, <1>5 DEF Delivered, ReporterPolls, ReporterLocks, ReporterWrites, ReporterExits, Stop,
     vars
<1>6. QED
  BY <1>2, <1>3, <1>4, <1>5 DEF Next, Main, Reporter

-----------------------------------------------------------------------------
(* Each message is taken, acknowledged and reported once *)

LEMMA TraceStep ==
  ASSUME TypeOK, HandsAreFull, NewHasNoTrace, DueOnce, [Next]_vars
  PROVE  NewHasNoTrace' /\ DueOnce'
<1> USE Entries DEF server, OnlyMain, OnlyReporter
<1>1. ASSUME UNCHANGED <<output, errors, scheduled, reports, reporter, report>>,
             \A m \in Msg : m \in input' \/ (m = msg' /\ main' \in {"submit", "ackwait"}) =>
                  m \in input \/ (m = msg /\ main \in {"submit", "ackwait"})
      PROVE  NewHasNoTrace' /\ DueOnce'
  BY <1>1 DEF NewHasNoTrace, DueOnce, Due
<1>2. CASE \/ MainReads \/ FindEmpty \/ MainRecovers \/ MainLeaves
           \/ MainLocks \/ MainWrites \/ MainGivesUp
  <2>1. /\ UNCHANGED <<output, errors, scheduled, reports, reporter, report, input, msg>>
        /\ main' \notin {"submit", "ackwait"}
    BY <1>2 DEF MainReads, FindEmpty, MainRecovers, MainLeaves, MainLocks, MainWrites, MainGivesUp
  <2>2. QED
    BY <1>1, <2>1
<1>3. CASE Dequeue
  <2>1. /\ UNCHANGED <<output, errors, scheduled, reports, reporter, report>>
        /\ msg' \in input /\ input' \subseteq input
    BY <1>3, OldestIsInput DEF Dequeue
  <2>2. QED
    BY <1>1, <2>1
<1>4. CASE DequeueFails
  <2>1. /\ UNCHANGED <<output, errors, scheduled, reports, reporter, report>>
        /\ input' \subseteq input /\ main' = "recover"
    BY <1>4 DEF DequeueFails, Fails
  <2>2. QED
    BY <1>1, <2>1
<1>5. CASE Submit
  <2>1. /\ UNCHANGED <<output, errors, input, reports, reporter, report, msg>>
        /\ scheduled' \subseteq scheduled \cup {msg}
        /\ main = "submit" /\ main' \in {"error", "ack"}
    BY <1>5 DEF Submit
  <2>2. msg \in Msg /\ msg \notin input
    BY <2>1 DEF HandsAreFull
  <2>3. /\ msg \notin Range(reports) /\ msg # report
        /\ ResultOf(msg) \notin Range(output)
    BY <2>1, <2>2 DEF NewHasNoTrace, Due
  <2>4. NewHasNoTrace'
    BY <2>1, <2>2 DEF NewHasNoTrace, Due
  <2>5. DueOnce'
    BY <2>1, <2>2, <2>3 DEF DueOnce, Due
  <2>6. QED
    BY <2>4, <2>5
<1>6. CASE AckWritten \/ AckFails
  <2>1. /\ UNCHANGED <<errors, scheduled, input, reports, reporter, report, msg>>
        /\ main' \in {"loop", "ack"}
        /\ msg \in Msg \ input
        /\ output' = output \/ output' = Append(output, AckOf(msg))
    BY <1>6 DEF AckWritten, AckFails, Fails, HandsAreFull, Publishing
  <2>2. Range(output') \subseteq Range(output) \cup {AckOf(msg)}
    BY <2>1, QueuesGrow
  <2>3. NewHasNoTrace'
    BY <2>1, <2>2 DEF NewHasNoTrace, Due
  <2>4. DueOnce'
    BY <2>1, <2>2 DEF DueOnce, Due, TypeOK
  <2>5. QED
    BY <2>3, <2>4
<1>7. CASE ErrorWritten \/ ErrorFails
  <2>1. /\ UNCHANGED <<output, scheduled, input, reports, reporter, report, msg>>
        /\ main' \in {"loop", "error"}
        /\ msg \in Msg \ input
        /\ errors' = errors \/ errors' = Append(errors, msg)
    BY <1>7 DEF ErrorWritten, ErrorFails, Fails, HandsAreFull, Failing
  <2>2. Range(errors') \subseteq Range(errors) \cup {msg}
    BY <2>1, QueuesGrow
  <2>3. NewHasNoTrace'
    BY <2>1, <2>2 DEF NewHasNoTrace, Due
  <2>4. DueOnce'
    BY <2>1 DEF DueOnce, Due
  <2>5. QED
    BY <2>3, <2>4
<1>8. ASSUME NEW m \in Msg, Delivered(m) PROVE NewHasNoTrace' /\ DueOnce'
  <2>1. /\ UNCHANGED <<output, errors, input, main, msg, reporter, report>>
        /\ m \in scheduled /\ scheduled' = scheduled \ {m}
        /\ reports' = reports \/ reports' = Append(reports, m)
    BY <1>8 DEF Delivered
  <2>2. reports \in Seq(Msg) /\ NoRepeats(reports) /\ m \notin Range(reports) /\ m # report
    BY <2>1 DEF DueOnce, TypeOK
  <2>3. Range(reports') \subseteq Range(reports) \cup {m} /\ NoRepeats(reports')
    <3>1. Range(reports') \subseteq Range(reports) \cup {m}
      BY <2>1, QueuesGrow
    <3>2. NoRepeats(Append(reports, m))
      BY <2>2, AppendNoRepeats
    <3>3. QED
      BY <2>1, <2>2, <3>1, <3>2
  <2>4. Due(m)
    BY <2>1 DEF Due
  <2>5. \A n \in Msg : Due(n)' => Due(n)
    BY <2>1, <2>3, <2>4 DEF Due
  <2>6. NewHasNoTrace'
    BY <2>1, <2>5 DEF NewHasNoTrace
  <2>7. DueOnce'
    BY <2>1, <2>2, <2>3, <2>5 DEF DueOnce, TypeOK
  <2>8. QED
    BY <2>6, <2>7
<1>9. CASE ReporterPolls
  <2>1. /\ UNCHANGED <<output, errors, input, main, msg, scheduled>>
        /\ reporter = "poll" /\ reporter' = "wait" /\ report' = Head(reports)
        /\ reports' = Tail(reports) /\ reports # <<>>
    BY <1>9 DEF ReporterPolls
  <2>2. reports \in Seq(Msg) /\ NoRepeats(reports)
    BY DEF DueOnce, TypeOK
  <2>3. /\ Head(reports) \in Msg
        /\ Range(reports) = {Head(reports)} \cup Range(Tail(reports))
        /\ NoRepeats(Tail(reports)) /\ Head(reports) \notin Range(Tail(reports))
    BY <2>1, <2>2, PolledReport, TailNoRepeats
  <2>4. \A n \in Msg : (Due(n)' => Due(n)) /\ (n = report' => Due(n))
    BY <2>1, <2>3 DEF Due
  <2>5. NewHasNoTrace'
    BY <2>1, <2>4 DEF NewHasNoTrace
  <2>6. DueOnce'
    BY <2>1, <2>3, <2>4 DEF DueOnce
  <2>7. QED
    BY <2>5, <2>6
<1>10. CASE ReporterLocks \/ ReporterWrites \/ ReporterExits
  <2>1. /\ UNCHANGED <<output, errors, input, main, msg, scheduled, reports, report>>
        /\ reporter' # "wait"
    BY <1>10 DEF ReporterLocks, ReporterWrites, ReporterExits
  <2>2. NewHasNoTrace'
    BY <2>1 DEF NewHasNoTrace, Due
  <2>3. DueOnce'
    BY <2>1 DEF DueOnce, Due
  <2>4. QED
    BY <2>2, <2>3
<1>11. CASE ResultWritten \/ ResultFails
  <2>1. /\ UNCHANGED <<errors, input, main, msg, scheduled, reports>>
        /\ report \in Msg
        /\ \/ reporter' = "poll" /\ report' = NoMsg
           \/ reporter' = "check" /\ report' = report
        /\ output' = output \/ output' = Append(output, ResultOf(report))
    BY <1>11 DEF ResultWritten, ResultFails, Fails, HandsAreFull, Reporting
  <2>2. Range(output') \subseteq Range(output) \cup {ResultOf(report)}
    BY <2>1, QueuesGrow
  <2>3. \A m \in Msg : Due(m)' => Due(m) /\ m # report
    BY <2>1 DEF Due, DueOnce
  <2>4. NewHasNoTrace'
    BY <2>1, <2>2, <2>3 DEF NewHasNoTrace
  <2>5. DueOnce'
    <3>1. report' \notin Range(reports) /\ \A m \in scheduled : m # report'
      BY <2>1, PolledReport, RangeType DEF DueOnce, TypeOK
    <3>2. QED
      BY <2>1, <2>2, <2>3, <3>1 DEF DueOnce
  <2>6. QED
    BY <2>4, <2>5
<1>12. CASE Stop \/ UNCHANGED vars
  BY <1>1, <1>12 DEF Stop, vars
<1>13. QED
  BY <1>2, <1>3, <1>4, <1>5, <1>6, <1>7, <1>8, <1>9, <1>10, <1>11, <1>12
     DEF Next, Main, Reporter

-----------------------------------------------------------------------------
(* No message is lost sight of *)

Mine(m) == m = msg /\ (main \in {"submit", "ackwait"} \/ Publishing \/ Failing)

LEMMA DroppedStep ==
  ASSUME TypeOK, HandsAreFull, NothingDropped, [Next]_vars
  PROVE  NothingDropped'
<1> USE Entries DEF server, OnlyMain, OnlyReporter
<1> SUFFICES ASSUME running', NEW m \in Msg, m \notin input', kind[m] # "health", m \notin lost'
             PROVE  AckOf(m) \in Range(output') \/ m \in Range(errors') \/ Mine(m)'
  <2>1. DOMAIN output' = 1..Len(output')
    BY TypeStep, LenProperties DEF TypeOK
  <2>2. \A m \in Msg : AckOf(m) \in Range(output') <=> Written("ACK", m)' # {}
    BY <2>1 DEF Range, Written, AckOf
  <2>3. QED
    BY <2>2 DEF NothingDropped, Answered, Mine, Publishing, Failing
<1>1. running => m \in input \/ m \in lost \/ AckOf(m) \in Range(output) \/ m \in Range(errors) \/ Mine(m)
  BY WrittenInRange DEF NothingDropped, Answered, Mine, Publishing, Failing
<1>2. ASSUME UNCHANGED <<running, input, lost, output, errors>>, Mine(m) => Mine(m)'
      PROVE  AckOf(m) \in Range(output') \/ m \in Range(errors') \/ Mine(m)'
  BY <1>1, <1>2
<1>3. CASE MainReads \/ FindEmpty \/ MainRecovers \/ MainLeaves \/ MainGivesUp
  <2>1. UNCHANGED <<running, input, lost, output, errors>> /\ (running => ~Mine(m))
    BY <1>3 DEF MainReads, FindEmpty, MainRecovers, MainLeaves, MainGivesUp, Mine, Publishing, Failing
  <2>2. QED
    BY <1>1, <2>1
<1>4. CASE Dequeue
  <2>1. /\ UNCHANGED <<running, lost, output, errors>> /\ ~Mine(m)
        /\ input # {} /\ msg' = Oldest /\ input' = input \ {msg'}
        /\ main' = CASE kind[msg'] = "health"                  -> "loop"
                     [] kind[msg'] = "unreplyable"             -> "error"
                     [] kind[msg'] = "rejected"                -> "ackwait"
                     [] kind[msg'] \in {"valid", "unbuildable"} -> "submit"
    BY <1>4 DEF Dequeue, Mine, Publishing, Failing
  <2>2. CASE m = msg'
    <3>1. kind[msg'] \in Kind
      BY <2>1, OldestIsInput, SocketAgentAssumption
    <3>2. main' \in {"error", "ackwait", "submit"}
      BY <2>1, <2>2, <3>1 DEF Kind
    <3>3. QED
      BY <2>2, <3>2 DEF Mine, Failing
  <2>3. CASE m # msg'
    BY <1>1, <2>1, <2>3
  <2>4. QED
    BY <2>2, <2>3
<1>5. CASE DequeueFails
  <2>1. /\ UNCHANGED <<running, output, errors>> /\ ~Mine(m)
        /\ lost' = lost \cup (input \ input')
    BY <1>5 DEF DequeueFails, Mine, Publishing, Failing
  <2>2. QED
    BY <1>1, <2>1
<1>6. CASE Submit \/ MainLocks \/ MainWrites
  <2>1. /\ UNCHANGED <<running, input, lost, output, errors>>
        /\ Mine(m) => Mine(m)'
    BY <1>6 DEF Submit, MainLocks, MainWrites, Mine, Publishing, Failing
  <2>2. QED
    BY <1>2, <2>1
<1>7. CASE AckWritten
  <2>1. /\ UNCHANGED <<running, input, lost, errors>>
        /\ msg \in Msg /\ output' = Append(output, AckOf(msg))
    BY <1>7 DEF AckWritten, HandsAreFull, Publishing
  <2>2. Range(output') = Range(output) \cup {AckOf(msg)}
    BY <2>1, QueuesGrow
  <2>3. Mine(m) => m = msg
    BY DEF Mine
  <2>4. QED
    BY <1>1, <2>1, <2>2, <2>3
<1>8. CASE AckFails
  <2>1. /\ UNCHANGED <<running, input, lost, errors>>
        /\ msg \in Msg /\ (output' = output \/ output' = Append(output, AckOf(msg)))
        /\ Mine(m) => Mine(m)'
    BY <1>8 DEF AckFails, Fails, HandsAreFull, Publishing, Mine
  <2>2. Range(output) \subseteq Range(output')
    BY <2>1, QueuesGrow
  <2>3. QED
    BY <1>1, <2>1, <2>2
<1>9. CASE ErrorWritten
  <2>1. /\ UNCHANGED <<running, input, lost, output>>
        /\ msg \in Msg /\ errors' = Append(errors, msg)
    BY <1>9 DEF ErrorWritten, HandsAreFull, Failing
  <2>2. Range(errors') = Range(errors) \cup {msg}
    BY <2>1, QueuesGrow
  <2>3. Mine(m) => m = msg
    BY DEF Mine
  <2>4. QED
    BY <1>1, <2>1, <2>2, <2>3
<1>10. CASE ErrorFails
  <2>1. /\ UNCHANGED <<running, input, lost, output>>
        /\ msg \in Msg /\ (errors' = errors \/ errors' = Append(errors, msg))
        /\ Mine(m) => Mine(m)'
    BY <1>10 DEF ErrorFails, Fails, HandsAreFull, Failing, Mine
  <2>2. Range(errors) \subseteq Range(errors')
    BY <2>1, QueuesGrow
  <2>3. QED
    BY <1>1, <2>1, <2>2
<1>11. CASE ResultWritten \/ ResultFails
  <2>1. /\ UNCHANGED <<running, input, lost, errors, main, msg>>
        /\ report \in Msg /\ (output' = output \/ output' = Append(output, ResultOf(report)))
    BY <1>11 DEF ResultWritten, ResultFails, Fails, HandsAreFull, Reporting
  <2>2. Range(output) \subseteq Range(output')
    BY <2>1, QueuesGrow
  <2>3. Mine(m) => Mine(m)'
    BY <2>1 DEF Mine, Publishing, Failing
  <2>4. QED
    BY <1>1, <2>1, <2>2, <2>3
<1>12. CASE \/ \E n \in Msg : Delivered(n)
            \/ ReporterPolls \/ ReporterLocks \/ ReporterWrites \/ ReporterExits
            \/ UNCHANGED vars
  <2>1. UNCHANGED <<running, input, lost, output, errors, main, msg>>
    BY <1>12 DEF Delivered, ReporterPolls, ReporterLocks, ReporterWrites, ReporterExits, vars
  <2>2. QED
    BY <1>2, <2>1 DEF Mine, Publishing, Failing
<1>13. CASE Stop
  BY <1>13 DEF Stop
<1>14. QED
  BY <1>3, <1>4, <1>5, <1>6, <1>7, <1>8, <1>9, <1>10, <1>11, <1>12, <1>13 DEF Next, Main, Reporter

-----------------------------------------------------------------------------
(* The repetitions *)

LEMMA RepeatsType ==
  ASSUME TypeOK
  PROVE  /\ Repeats(output) \in Nat /\ Repeats(errors) \in Nat
         /\ \A e \in Entry : Repeats(Append(output, e)) =
               Repeats(output) + One(e \in Range(output))
         /\ \A m \in Msg : Repeats(Append(errors, m)) =
               Repeats(errors) + One(m \in Range(errors))
<1>1. output \in Seq(Entry) /\ errors \in Seq(Msg)
  BY QueuesGrow DEF TypeOK
<1>2. /\ Len(output) \in Nat /\ Cardinality(Range(output)) \in Nat
      /\ Cardinality(Range(output)) <= Len(output)
  BY <1>1, RangeType, LenProperties
<1>3. /\ Len(errors) \in Nat /\ Cardinality(Range(errors)) \in Nat
      /\ Cardinality(Range(errors)) <= Len(errors)
  BY <1>1, RangeType, LenProperties
<1>4. ASSUME NEW e \in Entry
      PROVE  Repeats(Append(output, e)) = Repeats(output) + One(e \in Range(output))
  BY <1>1, RepeatsAppend DEF Repeats, One
<1>5. ASSUME NEW m \in Msg
      PROVE  Repeats(Append(errors, m)) = Repeats(errors) + One(m \in Range(errors))
  BY <1>1, RepeatsAppend DEF Repeats, One
<1>6. QED
  BY <1>2, <1>3, <1>4, <1>5 DEF Repeats

LEMMA OneType ==
  /\ \A b \in BOOLEAN : One(b) \in {0, 1}
  /\ One(AckIsOut) \in {0, 1} /\ One(ErrorIsOut) \in {0, 1} /\ One(ResultIsOut) \in {0, 1}
  /\ One(AckIsOut') \in {0, 1} /\ One(ErrorIsOut') \in {0, 1} /\ One(ResultIsOut') \in {0, 1}
BY DEF One

LEMMA RepeatsStep ==
  ASSUME TypeOK, HandsAreFull, NewHasNoTrace, DueOnce, RepeatsArePromised, [Next]_vars
  PROVE  RepeatsArePromised'
<1> USE Entries DEF server, OnlyMain, OnlyReporter
<1> DEFINE AllRepeats == Repeats(output) + Repeats(errors)
<1>1. /\ Repeats(output) \in Nat /\ Repeats(errors) \in Nat /\ faults \in Nat
      /\ AllRepeats + One(AckIsOut) + One(ErrorIsOut) + One(ResultIsOut) <= faults
  BY RepeatsType, SocketAgentAssumption DEF RepeatsArePromised, TypeOK
<1>2. ASSUME UNCHANGED <<output, errors>>, faults' \in {faults, faults + 1},
             AckIsOut' => AckIsOut, ErrorIsOut' => ErrorIsOut, ResultIsOut' => ResultIsOut
      PROVE  RepeatsArePromised'
  <2>1. Repeats(output)' = Repeats(output) /\ Repeats(errors)' = Repeats(errors)
    BY <1>2 DEF Repeats
  <2>2. QED
    BY <1>1, <1>2, <2>1 DEF RepeatsArePromised, One
<1>3. CASE MainReads \/ FindEmpty \/ MainRecovers \/ MainLeaves \/ MainWrites \/ MainGivesUp
  <2>1. /\ UNCHANGED <<output, errors, faults, reporter, report, msg>>
        /\ (Publishing' => Publishing) /\ (Failing' => Failing)
    BY <1>3 DEF MainReads, FindEmpty, MainRecovers, MainLeaves, MainWrites, MainGivesUp,
       Publishing, Failing
  <2>2. QED
    BY <1>2, <2>1 DEF AckIsOut, ErrorIsOut, ResultIsOut, Reporting
<1>4. CASE Dequeue
  <2>1. /\ UNCHANGED <<output, errors, faults, reporter, report>>
        /\ input # {} /\ msg' = Oldest
        /\ main' = CASE kind[msg'] = "health"                  -> "loop"
                     [] kind[msg'] = "unreplyable"             -> "error"
                     [] kind[msg'] = "rejected"                -> "ackwait"
                     [] kind[msg'] \in {"valid", "unbuildable"} -> "submit"
    BY <1>4 DEF Dequeue
  <2>2. msg' \in input /\ msg' \in Msg /\ kind[msg'] \in Kind
    BY <2>1, OldestIsInput, SocketAgentAssumption
  <2>3. ~Publishing' /\ msg' \notin Range(errors)
    BY <2>1, <2>2 DEF Publishing, NewHasNoTrace, Kind
  <2>4. QED
    BY <1>2, <2>1, <2>3 DEF AckIsOut, ErrorIsOut, ResultIsOut, Reporting
<1>5. CASE DequeueFails
  <2>1. /\ UNCHANGED <<output, errors, reporter, report>> /\ faults' = faults + 1
        /\ ~Publishing' /\ ~Failing'
    BY <1>5 DEF DequeueFails, Fails, Publishing, Failing
  <2>2. QED
    BY <1>2, <2>1 DEF AckIsOut, ErrorIsOut, ResultIsOut, Reporting
<1>6. CASE Submit \/ MainLocks
  <2>1. /\ UNCHANGED <<output, errors, faults, reporter, report, msg>>
        /\ main \in {"submit", "ackwait"} /\ msg \in Msg
    BY <1>6 DEF Submit, MainLocks, HandsAreFull
  <2>2. AckOf(msg) \notin Range(output) /\ msg \notin Range(errors)
    BY <2>1 DEF NewHasNoTrace
  <2>3. QED
    BY <1>2, <2>1, <2>2 DEF AckIsOut, ErrorIsOut, ResultIsOut, Reporting
<1>7. CASE AckWritten \/ AckFails
  <2>1. /\ UNCHANGED <<errors, reporter, report, msg>> /\ msg \in Msg /\ Publishing /\ ~Failing'
        /\ \/ output' = output /\ faults' = faults + 1 /\ Publishing'
           \/ output' = Append(output, AckOf(msg)) /\ faults' = faults + 1 /\ Publishing'
           \/ output' = Append(output, AckOf(msg)) /\ faults' = faults /\ ~Publishing'
    BY <1>7 DEF AckWritten, AckFails, Fails, HandsAreFull, Publishing, Failing
  <2>2. CASE output' = output
    BY <1>2, <2>1, <2>2 DEF AckIsOut, ErrorIsOut, ResultIsOut, Reporting
  <2>3. CASE output' = Append(output, AckOf(msg))
    <3>1. /\ Range(output') = Range(output) \cup {AckOf(msg)}
          /\ Repeats(output)' = Repeats(output) + One(AckOf(msg) \in Range(output))
          /\ Repeats(errors)' = Repeats(errors)
      BY <2>1, <2>3, QueuesGrow, RepeatsType DEF Repeats
    <3>2. /\ One(AckIsOut) = One(AckOf(msg) \in Range(output))
          /\ faults' - faults = One(AckIsOut')
      BY <1>1, <2>1, <2>3, <3>1 DEF AckIsOut, One
    <3>3. ~ErrorIsOut' /\ (ResultIsOut' => ResultIsOut)
      BY <2>1, <3>1 DEF ErrorIsOut, ResultIsOut, Reporting, HandsAreFull
    <3>4. One(ErrorIsOut') <= One(ErrorIsOut) /\ One(ResultIsOut') <= One(ResultIsOut)
      BY <3>3 DEF One
    <3>5. faults' \in Nat
      BY <1>1, <2>1
    <3>6. Repeats(output)' + Repeats(errors)' + One(AckIsOut') + One(ErrorIsOut') + One(ResultIsOut')
             <= faults'
      BY <1>1, <3>1, <3>2, <3>4, <3>5, OneType
    <3>7. QED
      BY <3>6 DEF RepeatsArePromised
  <2>4. QED
    BY <2>1, <2>2, <2>3
<1>8. CASE ErrorWritten \/ ErrorFails
  <2>1. /\ UNCHANGED <<output, reporter, report, msg>> /\ msg \in Msg /\ Failing /\ ~Publishing'
        /\ \/ errors' = errors /\ faults' = faults + 1 /\ Failing'
           \/ errors' = Append(errors, msg) /\ faults' = faults + 1 /\ Failing'
           \/ errors' = Append(errors, msg) /\ faults' = faults /\ ~Failing'
    BY <1>8 DEF ErrorWritten, ErrorFails, Fails, HandsAreFull, Publishing, Failing
  <2>2. CASE errors' = errors
    BY <1>2, <2>1, <2>2 DEF AckIsOut, ErrorIsOut, ResultIsOut, Reporting
  <2>3. CASE errors' = Append(errors, msg)
    <3>1. /\ Range(errors') = Range(errors) \cup {msg}
          /\ Repeats(errors)' = Repeats(errors) + One(msg \in Range(errors))
          /\ Repeats(output)' = Repeats(output)
      BY <2>1, <2>3, QueuesGrow, RepeatsType DEF Repeats
    <3>2. /\ One(ErrorIsOut) = One(msg \in Range(errors))
          /\ faults' - faults = One(ErrorIsOut')
      BY <1>1, <2>1, <2>3, <3>1 DEF ErrorIsOut, One
    <3>3. ~AckIsOut' /\ (ResultIsOut' => ResultIsOut)
      BY <2>1 DEF AckIsOut, ResultIsOut, Reporting
    <3>4. One(AckIsOut') <= One(AckIsOut) /\ One(ResultIsOut') <= One(ResultIsOut)
      BY <3>3 DEF One
    <3>5. faults' \in Nat
      BY <1>1, <2>1
    <3>6. Repeats(output)' + Repeats(errors)' + One(AckIsOut') + One(ErrorIsOut') + One(ResultIsOut')
             <= faults'
      BY <1>1, <3>1, <3>2, <3>4, <3>5, OneType
    <3>7. QED
      BY <3>6 DEF RepeatsArePromised
  <2>4. QED
    BY <2>1, <2>2, <2>3
<1>9. ASSUME NEW m \in Msg, Delivered(m) PROVE RepeatsArePromised'
  <2>1. UNCHANGED <<output, errors, faults, main, msg, reporter, report>>
    BY <1>9 DEF Delivered
  <2>2. QED
    BY <1>2, <2>1 DEF AckIsOut, ErrorIsOut, ResultIsOut, Publishing, Failing, Reporting
<1>10. CASE ReporterPolls \/ ReporterWrites \/ ReporterExits
  <2>1. /\ UNCHANGED <<output, errors, faults, main, msg>>
        /\ Reporting' => Reporting /\ report' = report
    BY <1>10 DEF ReporterPolls, ReporterWrites, ReporterExits, Reporting
  <2>2. QED
    BY <1>2, <2>1 DEF AckIsOut, ErrorIsOut, ResultIsOut, Publishing, Failing
<1>11. CASE ReporterLocks
  <2>1. /\ UNCHANGED <<output, errors, faults, main, msg, report>>
        /\ reporter = "wait" /\ report \in Msg
    BY <1>11 DEF ReporterLocks, HandsAreFull
  <2>2. ResultOf(report) \notin Range(output)
    BY <2>1 DEF DueOnce, Due
  <2>3. QED
    BY <1>2, <2>1, <2>2 DEF AckIsOut, ErrorIsOut, ResultIsOut, Publishing, Failing
<1>12. CASE ResultWritten \/ ResultFails
  <2>1. /\ UNCHANGED <<errors, main, msg>> /\ report \in Msg /\ Reporting
        /\ \/ output' = output /\ faults' = faults + 1 /\ Reporting' /\ report' = report
           \/ /\ output' = Append(output, ResultOf(report))
              /\ \/ faults' = faults + 1 /\ Reporting' /\ report' = report
                 \/ faults' = faults /\ ~Reporting'
    BY <1>12 DEF ResultWritten, ResultFails, Fails, HandsAreFull, Reporting
  <2>2. CASE output' = output
    BY <1>2, <2>1, <2>2 DEF AckIsOut, ErrorIsOut, ResultIsOut, Publishing, Failing
  <2>3. CASE output' = Append(output, ResultOf(report))
    <3>1. /\ Range(output') = Range(output) \cup {ResultOf(report)}
          /\ Repeats(output)' = Repeats(output) + One(ResultOf(report) \in Range(output))
          /\ Repeats(errors)' = Repeats(errors)
      BY <2>1, <2>3, QueuesGrow, RepeatsType DEF Repeats
    <3>2. /\ One(ResultIsOut) = One(ResultOf(report) \in Range(output))
          /\ faults' - faults = One(ResultIsOut')
      BY <1>1, <2>1, <2>3, <3>1 DEF ResultIsOut, One
    <3>3. (ErrorIsOut' => ErrorIsOut) /\ (AckIsOut' => AckIsOut)
      BY <2>1, <3>1 DEF ErrorIsOut, AckIsOut, Publishing, Failing, HandsAreFull
    <3>4. One(ErrorIsOut') <= One(ErrorIsOut) /\ One(AckIsOut') <= One(AckIsOut)
      BY <3>3 DEF One
    <3>5. faults' \in Nat
      BY <1>1, <2>1
    <3>6. Repeats(output)' + Repeats(errors)' + One(AckIsOut') + One(ErrorIsOut') + One(ResultIsOut')
             <= faults'
      BY <1>1, <3>1, <3>2, <3>4, <3>5, OneType
    <3>7. QED
      BY <3>6 DEF RepeatsArePromised
  <2>4. QED
    BY <2>1, <2>2, <2>3
<1>13. CASE Stop \/ UNCHANGED vars
  BY <1>2, <1>13 DEF Stop, vars, AckIsOut, ErrorIsOut, ResultIsOut, Publishing, Failing, Reporting
<1>14. QED
  BY <1>3, <1>4, <1>5, <1>6, <1>7, <1>8, <1>9, <1>10, <1>11, <1>12, <1>13 DEF Next, Main, Reporter

-----------------------------------------------------------------------------
(* The inductive invariant *)

LEMMA InvInit == Init => IInv
<1> SUFFICES ASSUME Init PROVE IInv
  OBVIOUS
<1>1. TypeOK
  BY TypeInit
<1>2. Range(output) = {} /\ Range(errors) = {} /\ Range(reports) = {}
  BY RangeEmpty DEF Init
<1>3. HandsAreFull /\ AckComesFirst
  BY <1>2 DEF Init, HandsAreFull, AckComesFirst, Publishing, Failing, Reporting, Due
<1>4. AckBeforeResult
  BY DEF Init, AckBeforeResult, Written
<1>5. NothingDropped
  BY DEF Init, NothingDropped
<1>6. NewHasNoTrace /\ DueOnce
  BY <1>2, Entries DEF Init, NewHasNoTrace, DueOnce, Due, NoRepeats
<1>7. RepeatsArePromised
  <2>1. Repeats(output) = 0 /\ Repeats(errors) = 0
    BY <1>2, FS_EmptySet DEF Init, Repeats
  <2>2. ~AckIsOut /\ ~ErrorIsOut /\ ~ResultIsOut
    BY <1>2 DEF AckIsOut, ErrorIsOut, ResultIsOut
  <2>3. QED
    BY <2>1, <2>2 DEF Init, RepeatsArePromised, One
<1>8. QED
  BY <1>1, <1>3, <1>4, <1>5, <1>6, <1>7 DEF IInv

LEMMA InvStep == IInv /\ [Next]_vars => IInv'
BY TypeStep, AckFirstStep, OrderStep, DroppedStep, TraceStep, RepeatsStep DEF IInv

LEMMA InvCorrect == Spec => []IInv
<1>1. QED
  BY InvInit, InvStep, PTL DEF Spec

\* All variables hold values of their types, and a thread writes to the
\* output queue only with outputLock held.
THEOREM TypeCorrect == Spec => []TypeOK
<1>1. IInv => TypeOK
  BY DEF IInv
<1>2. QED
  BY <1>1, InvCorrect, PTL

\* The report thread of Agent_socket.java never publishes a RESULT ahead of
\* the ACK of its message: outputLock, which the main thread takes before the
\* adapter has the message and keeps until the ACK is out, is enough.
THEOREM ResultsComeSecond == Spec => []AckBeforeResult
<1>1. IInv => AckBeforeResult
  BY DEF IInv
<1>2. QED
  BY <1>1, InvCorrect, PTL

\* While the agent runs, a message that left the server's input queue is
\* answered or in the main thread's hands, save one whose DEQU reply was lost.
THEOREM NoneDropped == Spec => []NothingDropped
<1>1. IInv => NothingDropped
  BY DEF IInv
<1>2. QED
  BY <1>1, InvCorrect, PTL

\* Nothing is published a second time but by a request that was performed and
\* failed all the same.
THEOREM RepeatsArePaid == Spec => []RepeatsAreReplays
<1>1. IInv => RepeatsAreReplays
  <2> SUFFICES ASSUME IInv PROVE RepeatsAreReplays
    OBVIOUS
  <2>1. Repeats(output) \in Nat /\ Repeats(errors) \in Nat /\ faults \in Nat
    BY RepeatsType DEF IInv, TypeOK
  <2>2. QED
    BY <2>1, OneType DEF IInv, RepeatsArePromised, RepeatsAreReplays
<1>2. QED
  BY <1>1, InvCorrect, PTL
=============================================================================
