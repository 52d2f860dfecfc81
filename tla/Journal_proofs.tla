---------------------------- MODULE Journal_proofs ----------------------------
(***************************************************************************)
(* What is proved of Journal for every number of threads, every set of     *)
(* records, every batch size and every bound.                              *)
(***************************************************************************)
EXTENDS Journal, SequenceTheorems, TLAPS

\* Giving up the claims of a thread leaves the requests in their places.
LEMMA DisownProperties ==
  ASSUME NEW t \in Thread, NEW reqs \in Seq(Request)
  PROVE  /\ Disown(t, reqs) \in Seq(Request)
         /\ Len(Disown(t, reqs)) = Len(reqs)
         /\ \A i \in 1..Len(reqs) :
               Disown(t, reqs)[i] = IF reqs[i].by = t THEN [reqs[i] EXCEPT !.by = Nobody]
                                                      ELSE reqs[i]
<1>1. ASSUME NEW i \in 1..Len(reqs)
      PROVE  (IF reqs[i].by = t THEN [reqs[i] EXCEPT !.by = Nobody] ELSE reqs[i]) \in Request
  <2>1. reqs[i] \in Request
    BY ElementOfSeq
  <2>2. [reqs[i] EXCEPT !.by = Nobody] \in Request
    BY <2>1 DEF Request
  <2>3. QED
    BY <2>1, <2>2
<1>2. Len(reqs) \in Nat
  BY LenProperties
<1>3. QED
  BY <1>1, <1>2 DEF Disown

\* The requests that stay queued after a batch was taken off the front.
LEMMA GatherTypes ==
  ASSUME NEW reqs \in Seq(Request), NEW n \in 1..Least(BatchMax, Len(reqs))
  PROVE  /\ n \in 1..Len(reqs)
         /\ SubSeq(reqs, 1, n) \in Seq(Request)
         /\ Len(SubSeq(reqs, 1, n)) = n
         /\ \A i \in 1..n : SubSeq(reqs, 1, n)[i] = reqs[i]
         /\ SubSeq(reqs, n + 1, Len(reqs)) \in Seq(Request)
         /\ Len(SubSeq(reqs, n + 1, Len(reqs))) = Len(reqs) - n
         /\ \A i \in 1..(Len(reqs) - n) : SubSeq(reqs, n + 1, Len(reqs))[i] = reqs[n + i]
<1>1. BatchMax \in Nat /\ Len(reqs) \in Nat
  BY JournalAssumption
<1>2. n \in 1..Len(reqs)
  BY <1>1 DEF Least
<1>3. QED
  BY <1>1, <1>2, SubSeqProperties

\* The lengths that the types of the counters refer to.
LEMMA Lengths ==
  ASSUME TypeOK
  PROVE  /\ Len(file) \in Nat /\ Len(batch) \in Nat /\ Len(queue) \in Nat
         /\ <<>> \in Seq(Request) /\ <<>> \in Seq(Record) /\ Len(<<>>) = 0
BY LenProperties, EmptySeq DEF TypeOK

\* What a lost process leaves in the variables of its memory.
LEMMA LostMemory ==
  ASSUME LoseProcess
  PROVE  /\ up' = FALSE /\ failure' = FALSE /\ closing' = FALSE /\ closed' = FALSE
         /\ queue' = <<>> /\ batch' = <<>> /\ written' = 0 /\ writer' = "exit"
         /\ call' \in [Thread -> {"idle", "await", "done", "error"}]
         /\ \A t \in Thread : call'[t] = "idle"
         /\ interrupted' \in [Thread -> BOOLEAN]
<1>1. interrupted' \in [Thread -> BOOLEAN]
  BY Zenon DEF LoseProcess
<1>2. /\ call' \in [Thread -> {"idle", "await", "done", "error"}]
      /\ \A t \in Thread : call'[t] = "idle"
  BY Zenon DEF LoseProcess
<1>3. QED
  BY <1>1, <1>2, Zenon DEF LoseProcess

\* Every step keeps every variable in its type.
LEMMA TypeStep == TypeOK /\ [Next]_vars => TypeOK'
<1> SUFFICES ASSUME TypeOK, [Next]_vars PROVE TypeOK'
  OBVIOUS
<1>0. /\ Len(file) \in Nat /\ Len(batch) \in Nat /\ Len(queue) \in Nat
      /\ <<>> \in Seq(Request) /\ <<>> \in Seq(Record) /\ Len(<<>>) = 0
  BY Lengths
<1> USE DEF TypeOK
<1>1. ASSUME NEW t \in Thread, NEW r \in Record, Submit(t, r) PROVE TypeOK'
  <2>1. queue' \in Seq(Request)
    <3>1. [rec |-> r, by |-> t] \in Request /\ [rec |-> r, by |-> Nobody] \in Request
      BY DEF Request
    <3>2. PICK q \in Request : queue' = Append(queue, q)
      BY <1>1, <3>1 DEF Submit
    <3>3. QED
      BY <3>2, AppendProperties
  <2>2. call' \in [Thread -> {"idle", "await", "done", "error"}]
    BY <1>1 DEF Submit
  <2>3. QED
    BY <1>1, <2>1, <2>2 DEF Submit, disk, life
<1>2. ASSUME NEW t \in Thread, Return(t) PROVE TypeOK'
  BY <1>2 DEF Return, disk, pipe, life
<1>3. ASSUME NEW t \in Thread, ThrowInterrupted(t) PROVE TypeOK'
  BY <1>3, DisownProperties DEF ThrowInterrupted, disk, life
<1>4. ASSUME NEW t \in Thread, Interrupt(t) PROVE TypeOK'
  BY <1>4 DEF Interrupt, disk, pipe, life
<1>5. CASE Gather
  <2>1. PICK n \in 1..Least(BatchMax, Len(queue)) :
           /\ batch' = SubSeq(queue, 1, n)
           /\ queue' = SubSeq(queue, n + 1, Len(queue))
    BY <1>5 DEF Gather
  <2>2. batch' \in Seq(Request) /\ queue' \in Seq(Request)
    BY <2>1, GatherTypes
  <2>3. QED
    BY <1>5, <2>2 DEF Gather, disk, life
<1>6. CASE WriteRecord
  <2>1. written + 1 \in 1..Len(batch)
    BY <1>0, <1>6 DEF WriteRecord
  <2>2. batch[written + 1].rec \in Record
    <3>1. batch[written + 1] \in Request
      BY <2>1, ElementOfSeq
    <3>2. QED
      BY <3>1 DEF Request
  <2>3. /\ file' \in Seq(Record)
        /\ Len(file') = Len(file) + 1
    BY <1>6, <2>2, AppendProperties DEF WriteRecord
  <2>4. QED
    BY <1>0, <1>6, <2>1, <2>3 DEF WriteRecord, life
<1>7. CASE ForceBatch
  BY <1>0, <1>7 DEF ForceBatch, life
<1>8. CASE Ack
  BY <1>0, <1>8 DEF Ack, disk, life
<1>9. CASE WriterFails
  BY <1>0, <1>9 DEF WriterFails, FailJournal
<1>10. CASE WriterExits
  BY <1>10 DEF WriterExits, disk, life
<1>11. CASE BeginClose
  BY <1>11 DEF BeginClose, disk, pipe
<1>12. CASE EndClose
  BY <1>12 DEF EndClose, disk, pipe
<1>13. CASE ProcessDies
  <2>1. torn' \in BOOLEAN
    BY <1>13 DEF ProcessDies
  <2>2. QED
    BY <1>0, <1>13, <2>1, LostMemory DEF ProcessDies
<1>14. CASE PowerLoss
  <2>1. PICK n \in forced..Len(file) :
           /\ file' = SubSeq(file, 1, n)
           /\ forced' = n
           /\ torn' \in IF n < Len(file) \/ torn \/ writer = "write"
                        THEN BOOLEAN ELSE {FALSE}
    BY <1>14 DEF PowerLoss
  <2>2. n \in Nat /\ \A i \in 1..n : file[i] \in Record
    BY <1>0, ElementOfSeq
  <2>3. file' \in Seq(Record) /\ Len(file') = n
    BY <2>1, <2>2, SubSeqProperties
  <2>4. torn' \in BOOLEAN
    BY <2>1
  <2>5. QED
    BY <1>0, <1>14, <2>1, <2>2, <2>3, <2>4, LostMemory DEF PowerLoss
<1>15. CASE Recover
  <2>1. forced' \in 0..Len(file) /\ file' = file
    <3>1. CASE torn
      BY <1>0, <1>15, <3>1 DEF Recover
    <3>2. CASE ~torn
      BY <1>0, <1>15, <3>2 DEF Recover
    <3>3. QED
      BY <3>1, <3>2
  <2>2. QED
    BY <1>0, <1>15, <2>1 DEF Recover
<1>16. CASE UNCHANGED vars
  BY <1>16 DEF vars, disk, pipe, life
<1>17. QED
  BY <1>1, <1>2, <1>3, <1>4, <1>5, <1>6, <1>7, <1>8, <1>9, <1>10, <1>11, <1>12,
     <1>13, <1>14, <1>15, <1>16 DEF Next, Caller, Writer

LEMMA TypeInit == Init => TypeOK
<1> SUFFICES ASSUME Init PROVE TypeOK
  OBVIOUS
<1>1. <<>> \in Seq(Request) /\ <<>> \in Seq(Record) /\ Len(<<>>) = 0
  BY EmptySeq
<1>2. interrupted \in [Thread -> BOOLEAN]
  BY Zenon DEF Init
<1>3. call \in [Thread -> {"idle", "await", "done", "error"}]
  BY Zenon DEF Init
<1>4. /\ up \in BOOLEAN /\ torn \in BOOLEAN /\ failure \in BOOLEAN
      /\ closing \in BOOLEAN /\ closed \in BOOLEAN
  BY Zenon DEF Init
<1>5. /\ file = <<>> /\ queue = <<>> /\ batch = <<>> /\ forced = 0 /\ written = 0
      /\ acked = 0 /\ writer = "exit"
  BY Zenon DEF Init
<1>6. QED
  BY <1>1, <1>2, <1>3, <1>4, <1>5 DEF TypeOK

\* The journal's variables always hold values of their types.
THEOREM TypeCorrect == Spec => []TypeOK
<1>1. QED
  BY TypeInit, TypeStep, PTL DEF Spec

-----------------------------------------------------------------------------
\* A batch whose latches are about to be counted down is forced as far as
\* the file goes.
AckOnlyForced ==
    /\ acked <= forced
    /\ writer = "ack" => forced = Len(file)

LEMMA AckStep == TypeOK /\ AckOnlyForced /\ [Next]_vars => AckOnlyForced'
<1> SUFFICES ASSUME TypeOK, AckOnlyForced, [Next]_vars PROVE AckOnlyForced'
  OBVIOUS
<1> USE DEF TypeOK, AckOnlyForced
<1>1. ASSUME NEW t \in Thread, Caller(t) \/ Interrupt(t) PROVE AckOnlyForced'
  BY <1>1 DEF Caller, Submit, Return, ThrowInterrupted, Interrupt, disk, pipe
<1>2. CASE Gather \/ WriteRecord
  BY <1>2 DEF Gather, WriteRecord, disk
<1>3. CASE ForceBatch
  BY <1>3, Lengths DEF ForceBatch
<1>4. CASE Ack
  BY <1>4 DEF Ack, disk
<1>5. CASE WriterFails \/ WriterExits
  BY <1>5 DEF WriterFails, FailJournal, WriterExits, disk
<1>6. CASE BeginClose \/ EndClose
  BY <1>6 DEF BeginClose, EndClose, disk, pipe
<1>7. CASE ProcessDies
  BY <1>7 DEF ProcessDies, LoseProcess
<1>8. CASE PowerLoss
  BY <1>8 DEF PowerLoss, LoseProcess
<1>9. CASE Recover
  BY <1>9 DEF Recover
<1>10. CASE UNCHANGED vars
  BY <1>10 DEF vars, disk, pipe
<1>11. QED
  BY <1>1, <1>2, <1>3, <1>4, <1>5, <1>6, <1>7, <1>8, <1>9, <1>10 DEF Next, Writer

\* No latch is counted down before force() has succeeded, and no crash,
\* recovery or failure takes back what was reported.
THEOREM AckedStaysForced == Spec => []AckedIsForced
<1>1. Init => AckOnlyForced
  BY DEF Init, AckOnlyForced
<1>2. AckOnlyForced => AckedIsForced
  BY DEF AckOnlyForced, AckedIsForced
<1>3. QED
  BY <1>1, <1>2, AckStep, TypeCorrect, PTL DEF Spec

-----------------------------------------------------------------------------
\* The journal thread runs in a live process whose file ends on a record
\* boundary.
WriterAlive == writer # "exit" => up /\ ~torn

LEMMA WriterAliveStep == TypeOK /\ WriterAlive /\ [Next]_vars => WriterAlive'
<1> SUFFICES ASSUME TypeOK, WriterAlive, [Next]_vars PROVE WriterAlive'
  OBVIOUS
<1> USE DEF WriterAlive
<1>1. ASSUME NEW t \in Thread, Caller(t) \/ Interrupt(t) PROVE WriterAlive'
  BY <1>1, Zenon DEF Caller, Submit, Return, ThrowInterrupted, Interrupt, disk, pipe, life
<1>2. CASE Gather \/ WriteRecord \/ ForceBatch \/ Ack
  <2>1. writer # "exit" /\ up' = up /\ torn' = torn
    BY <1>2 DEF Gather, WriteRecord, ForceBatch, Ack, disk, life
  <2>2. QED
    BY <2>1
<1>3. CASE WriterFails \/ WriterExits
  BY <1>3 DEF WriterFails, FailJournal, WriterExits
<1>4. CASE BeginClose \/ EndClose
  BY <1>4, Zenon DEF BeginClose, EndClose, disk, pipe
<1>5. CASE ProcessDies \/ PowerLoss
  BY <1>5, LostMemory DEF ProcessDies, PowerLoss
<1>6. CASE Recover
  BY <1>6 DEF Recover
<1>7. CASE UNCHANGED vars
  BY <1>7 DEF vars, disk, pipe, life
<1>8. QED
  BY <1>1, <1>2, <1>3, <1>4, <1>5, <1>6, <1>7 DEF Next, Writer

\* The file grows by writing a record, and by nothing else.
LEMMA OnlyWritesGrow ==
  ASSUME TypeOK, [Next]_vars, file' # file, Len(file') > Len(file)
  PROVE  writer = "write"
<1>1. ~(\E t \in Thread : Caller(t) \/ Interrupt(t))
  BY Zenon DEF Caller, Submit, Return, ThrowInterrupted, Interrupt, disk
<1>2. ~PowerLoss
  <2>1. SUFFICES ASSUME PowerLoss PROVE FALSE
    OBVIOUS
  <2>2. PICK n \in forced..Len(file) : file' = SubSeq(file, 1, n)
    BY <2>1 DEF PowerLoss
  <2>3. Len(file) \in Nat /\ n \in Nat /\ \A i \in 1..n : file[i] \in Record
    BY LenProperties, ElementOfSeq DEF TypeOK
  <2>4. Len(file') = n
    BY <2>2, <2>3, SubSeqProperties
  <2>5. QED
    BY <2>3, <2>4
<1>3. ~(BeginClose \/ EndClose \/ ProcessDies \/ Recover)
  BY Zenon DEF BeginClose, EndClose, ProcessDies, Recover, disk
<1>4. ~(Gather \/ ForceBatch \/ Ack \/ WriterFails \/ WriterExits)
  BY Zenon DEF Gather, ForceBatch, Ack, WriterFails, WriterExits, disk
<1>5. ~(UNCHANGED vars)
  BY Zenon DEF vars, disk
<1>6. WriteRecord
  BY <1>1, <1>2, <1>3, <1>4, <1>5, Zenon DEF Next, Writer
<1>7. QED
  BY <1>6 DEF WriteRecord

\* After a failed write, or a crash that tore a record, nothing is appended
\* before a constructor has cut the torn record off.
THEOREM NoTornAppend == Spec => AppendsOnRecordBoundary
<1>1. Init => WriterAlive
  BY DEF Init, WriterAlive
<1>2. TypeOK /\ WriterAlive /\ [Next]_vars
        => [file' # file /\ Len(file') > Len(file) => ~torn]_vars
  BY OnlyWritesGrow DEF WriterAlive
<1>3. QED
  BY <1>1, <1>2, WriterAliveStep, TypeCorrect, PTL DEF Spec, AppendsOnRecordBoundary

-----------------------------------------------------------------------------
(* Claims on requests *)

LEMMA ClaimsOfNone ==
  ASSUME NEW u
  PROVE  ~Claimed(u, <<>>) /\ AtMostOnce(u, <<>>)
BY EmptySeq DEF Claimed, AtMostOnce

\* Enqueueing a request adds the claim of its waiter.
LEMMA ClaimsAfterAppend ==
  ASSUME NEW u, NEW reqs \in Seq(Request), NEW q \in Request
  PROVE  /\ Claimed(u, Append(reqs, q)) <=> Claimed(u, reqs) \/ q.by = u
         /\ AtMostOnce(u, reqs) /\ (q.by = u => ~Claimed(u, reqs))
              => AtMostOnce(u, Append(reqs, q))
<1>1. Len(reqs) \in Nat
  BY LenProperties
<1>2. /\ Len(Append(reqs, q)) = Len(reqs) + 1
      /\ \A i \in 1..Len(reqs) : Append(reqs, q)[i] = reqs[i]
      /\ Append(reqs, q)[Len(reqs) + 1] = q
  BY AppendProperties
<1> DEFINE more == Append(reqs, q)
<1> HIDE DEF more
<1>3. /\ Len(more) = Len(reqs) + 1
      /\ \A i \in 1..Len(reqs) : more[i] = reqs[i]
      /\ more[Len(reqs) + 1] = q
  BY <1>2 DEF more
<1>4. Claimed(u, more) <=> Claimed(u, reqs) \/ q.by = u
  BY <1>1, <1>3 DEF Claimed
<1>5. AtMostOnce(u, reqs) /\ (q.by = u => ~Claimed(u, reqs)) => AtMostOnce(u, more)
  BY <1>1, <1>3 DEF Claimed, AtMostOnce
<1>6. QED
  BY <1>4, <1>5 DEF more

\* A thread that stops waiting gives up its own claim and no other.
LEMMA ClaimsAfterDisown ==
  ASSUME NEW t \in Thread, NEW u \in Thread, NEW reqs \in Seq(Request)
  PROVE  /\ Claimed(u, Disown(t, reqs)) <=> Claimed(u, reqs) /\ u # t
         /\ AtMostOnce(u, reqs) => AtMostOnce(u, Disown(t, reqs))
<1>1. Len(Disown(t, reqs)) = Len(reqs)
  BY DisownProperties
<1>2. ASSUME NEW i \in 1..Len(reqs)
      PROVE  Disown(t, reqs)[i].by = IF reqs[i].by = t THEN Nobody ELSE reqs[i].by
  <2>1. reqs[i] \in Request
    BY ElementOfSeq
  <2>2. Disown(t, reqs)[i] = IF reqs[i].by = t THEN [reqs[i] EXCEPT !.by = Nobody]
                                               ELSE reqs[i]
    BY DisownProperties
  <2>3. QED
    BY <2>1, <2>2 DEF Request
<1>3. Nobody \notin Thread
  BY JournalAssumption
<1> DEFINE less == Disown(t, reqs)
<1> HIDE DEF less
<1>4. /\ Len(less) = Len(reqs)
      /\ \A i \in 1..Len(reqs) : less[i].by = IF reqs[i].by = t THEN Nobody ELSE reqs[i].by
  BY <1>1, <1>2 DEF less
<1>5. Claimed(u, less) <=> Claimed(u, reqs) /\ u # t
  BY <1>3, <1>4 DEF Claimed
<1>6. AtMostOnce(u, reqs) => AtMostOnce(u, less)
  BY <1>3, <1>4 DEF AtMostOnce
<1>7. QED
  BY <1>5, <1>6 DEF less

\* Taking a batch off the queue shares its claims out between the two.
LEMMA ClaimsAfterGather ==
  ASSUME NEW u, NEW reqs \in Seq(Request), NEW n \in 1..Least(BatchMax, Len(reqs))
  PROVE  LET front == SubSeq(reqs, 1, n)
             back == SubSeq(reqs, n + 1, Len(reqs))
         IN /\ Claimed(u, reqs) <=> Claimed(u, front) \/ Claimed(u, back)
            /\ AtMostOnce(u, reqs) =>
                  /\ AtMostOnce(u, front)
                  /\ AtMostOnce(u, back)
                  /\ ~(Claimed(u, front) /\ Claimed(u, back))
<1> DEFINE front == SubSeq(reqs, 1, n)
           back == SubSeq(reqs, n + 1, Len(reqs))
<1>1. Len(reqs) \in Nat
  BY LenProperties
<1>2. /\ n \in 1..Len(reqs)
      /\ Len(front) = n /\ \A i \in 1..n : front[i] = reqs[i]
      /\ Len(back) = Len(reqs) - n /\ \A i \in 1..(Len(reqs) - n) : back[i] = reqs[n + i]
  BY GatherTypes
<1> HIDE DEF front, back
<1>3. Claimed(u, front) \/ Claimed(u, back) => Claimed(u, reqs)
  BY <1>1, <1>2 DEF Claimed
<1>4. ASSUME Claimed(u, reqs) PROVE Claimed(u, front) \/ Claimed(u, back)
  <2>1. PICK i \in 1..Len(reqs) : reqs[i].by = u
    BY <1>4 DEF Claimed
  <2>2. CASE i <= n
    BY <1>1, <1>2, <2>1, <2>2 DEF Claimed
  <2>3. CASE i > n
    <3>1. i - n \in 1..(Len(reqs) - n) /\ n + (i - n) = i
      BY <1>1, <1>2, <2>3
    <3>2. back[i - n].by = u
      BY <1>2, <2>1, <3>1
    <3>3. QED
      BY <1>2, <3>1, <3>2 DEF Claimed
  <2>4. QED
    BY <1>1, <1>2, <2>2, <2>3
<1>5. AtMostOnce(u, reqs) => AtMostOnce(u, front)
  BY <1>1, <1>2 DEF AtMostOnce
<1>6. ASSUME AtMostOnce(u, reqs) PROVE AtMostOnce(u, back)
  <2>1. SUFFICES ASSUME NEW i \in 1..Len(back), NEW j \in 1..Len(back),
                        back[i].by = u, back[j].by = u
                 PROVE  i = j
    BY DEF AtMostOnce
  <2>2. n + i \in 1..Len(reqs) /\ n + j \in 1..Len(reqs)
    BY <1>1, <1>2
  <2>3. n + i = n + j
    BY <1>2, <1>6, <2>1, <2>2 DEF AtMostOnce
  <2>4. QED
    BY <1>1, <1>2, <2>3
<1>7. ASSUME AtMostOnce(u, reqs), Claimed(u, front), Claimed(u, back) PROVE FALSE
  <2>1. PICK i \in 1..n : front[i].by = u
    BY <1>2, <1>7 DEF Claimed
  <2>2. PICK j \in 1..(Len(reqs) - n) : back[j].by = u
    BY <1>2, <1>7 DEF Claimed
  <2>3. i \in 1..Len(reqs) /\ n + j \in 1..Len(reqs) /\ i # n + j
    BY <1>1, <1>2
  <2>4. QED
    BY <1>2, <1>7, <2>1, <2>2, <2>3 DEF AtMostOnce
<1>8. QED
  BY <1>3, <1>4, <1>5, <1>6, <1>7 DEF front, back

-----------------------------------------------------------------------------
\* The inductive invariant behind the two properties about waiting callers:
\* the batch is empty between two batches, and a journal thread that has left
\* leaves nothing behind and lets nothing new in.
WriterClean ==
    /\ writer = "poll" => batch = <<>>
    /\ writer = "exit" => queue = <<>> /\ batch = <<>> /\ (closing \/ failure \/ ~up)

WaiterInv == WaiterHasOneRequest /\ WriterClean

LEMMA WriterCleanStep ==
  TypeOK /\ WriterAlive /\ WriterClean /\ [Next]_vars => WriterClean'
<1> SUFFICES ASSUME TypeOK, WriterAlive, WriterClean, [Next]_vars PROVE WriterClean'
  OBVIOUS
<1> USE DEF WriterClean
<1>1. ASSUME NEW t \in Thread, NEW r \in Record, Submit(t, r) PROVE WriterClean'
  <2>1. writer # "exit"
    BY <1>1, Zenon DEF Submit, Refusing
  <2>2. writer' = writer /\ batch' = batch
    BY <1>1, Zenon DEF Submit
  <2>3. QED
    BY <2>1, <2>2, Zenon
<1>2. ASSUME NEW t \in Thread, Return(t) \/ Interrupt(t) PROVE WriterClean'
  <2>1. UNCHANGED <<queue, batch, writer, closing, failure, up>>
    BY <1>2 DEF Return, Interrupt, pipe, life
  <2>2. QED
    BY <2>1, Zenon
<1>3. ASSUME NEW t \in Thread, ThrowInterrupted(t) PROVE WriterClean'
  <2>1. Disown(t, <<>>) = <<>>
    BY DEF Disown
  <2>2. /\ queue' = Disown(t, queue) /\ batch' = Disown(t, batch)
        /\ writer' = writer /\ closing' = closing /\ failure' = failure /\ up' = up
    BY <1>3, Zenon DEF ThrowInterrupted, life
  <2>3. QED
    BY <2>1, <2>2, Zenon
<1>4. CASE Gather \/ WriteRecord \/ ForceBatch
  <2>1. writer' \in {"write", "ack"}
    BY <1>4 DEF Gather, WriteRecord, ForceBatch
  <2>2. QED
    BY <2>1
<1>5. CASE Ack
  BY <1>5 DEF Ack
<1>6. CASE WriterFails
  BY <1>6, Zenon DEF WriterFails, FailJournal
<1>7. CASE WriterExits
  BY <1>7, Zenon DEF WriterExits, life
<1>8. CASE BeginClose \/ EndClose
  BY <1>8, Zenon DEF BeginClose, EndClose, pipe
<1>9. CASE ProcessDies \/ PowerLoss
  BY <1>9, LostMemory DEF ProcessDies, PowerLoss
<1>10. CASE Recover
  <2>1. writer' = "poll" /\ batch' = batch /\ ~up
    BY <1>10, Zenon DEF Recover
  <2>2. batch = <<>>
    BY <1>10, Zenon DEF Recover, WriterAlive
  <2>3. QED
    BY <2>1, <2>2
<1>11. CASE UNCHANGED vars
  BY <1>11, Zenon DEF vars, pipe, life
<1>12. QED
  BY <1>1, <1>2, <1>3, <1>4, <1>5, <1>6, <1>7, <1>8, <1>9, <1>10, <1>11
     DEF Next, Caller, Writer

LEMMA WaiterStep ==
  TypeOK /\ WaiterHasOneRequest /\ WriterClean /\ [Next]_vars => WaiterHasOneRequest'
<1> SUFFICES ASSUME TypeOK, WaiterHasOneRequest, WriterClean, [Next]_vars,
                    NEW u \in Thread
             PROVE  /\ call'[u] = "await" <=> Claimed(u, batch') \/ Claimed(u, queue')
                    /\ ~(Claimed(u, batch') /\ Claimed(u, queue'))
                    /\ AtMostOnce(u, batch')
                    /\ AtMostOnce(u, queue')
  BY Zenon DEF WaiterHasOneRequest, Claimed, AtMostOnce
<1> DEFINE Good(c, b, q) == /\ c = "await" <=> Claimed(u, b) \/ Claimed(u, q)
                            /\ ~(Claimed(u, b) /\ Claimed(u, q))
                            /\ AtMostOnce(u, b)
                            /\ AtMostOnce(u, q)
<1>0. Good(call[u], batch, queue)
  BY Zenon DEF WaiterHasOneRequest
<1>t. /\ queue \in Seq(Request) /\ batch \in Seq(Request)
      /\ call \in [Thread -> {"idle", "await", "done", "error"}]
  BY Zenon DEF TypeOK
<1>1. ASSUME NEW t \in Thread, NEW r \in Record, Submit(t, r)
      PROVE  Good(call'[u], batch', queue')
  <2> DEFINE q == [rec |-> r, by |-> IF interrupted[t] THEN Nobody ELSE t]
  <2>1. /\ q \in Request
        /\ batch' = batch
        /\ call[t] = "idle"
        /\ queue' = Append(queue, q)
        /\ call' = IF interrupted[t] THEN call ELSE [call EXCEPT ![t] = "await"]
    BY <1>1 DEF Submit, Request
  <2>2. q.by = u <=> ~interrupted[t] /\ u = t
    BY JournalAssumption
  <2> HIDE DEF q
  <2>3. Claimed(u, queue') <=> Claimed(u, queue) \/ q.by = u
    BY <1>t, <2>1, ClaimsAfterAppend
  <2>4. call'[u] = IF ~interrupted[t] /\ u = t THEN "await" ELSE call[u]
    BY <1>t, <2>1
  <2>5. q.by = u => ~Claimed(u, queue) /\ ~Claimed(u, batch)
    BY <1>0, <2>1, <2>2
  <2>6. AtMostOnce(u, queue')
    BY <1>0, <1>t, <2>1, <2>5, ClaimsAfterAppend
  <2>7. QED
    BY <1>0, <2>1, <2>2, <2>3, <2>4, <2>5, <2>6
<1>2. ASSUME NEW t \in Thread, Return(t) PROVE Good(call'[u], batch', queue')
  <2>1. batch' = batch /\ queue' = queue /\ call[t] # "await"
        /\ call' = [call EXCEPT ![t] = "idle"]
    BY <1>2 DEF Return, pipe
  <2>2. call'[u] = "await" <=> call[u] = "await"
    BY <1>t, <2>1
  <2>3. QED
    BY <1>0, <2>1, <2>2
<1>3. ASSUME NEW t \in Thread, ThrowInterrupted(t) PROVE Good(call'[u], batch', queue')
  <2>1. /\ batch' = Disown(t, batch) /\ queue' = Disown(t, queue)
        /\ call' = [call EXCEPT ![t] = "idle"]
    BY <1>3 DEF ThrowInterrupted
  <2>2. call'[u] = "await" <=> call[u] = "await" /\ u # t
    BY <1>t, <2>1
  <2>3. /\ Claimed(u, batch') <=> Claimed(u, batch) /\ u # t
        /\ AtMostOnce(u, batch) => AtMostOnce(u, batch')
    BY <1>t, <2>1, ClaimsAfterDisown
  <2>4. /\ Claimed(u, queue') <=> Claimed(u, queue) /\ u # t
        /\ AtMostOnce(u, queue) => AtMostOnce(u, queue')
    BY <1>t, <2>1, ClaimsAfterDisown
  <2>5. QED
    BY <1>0, <2>2, <2>3, <2>4
<1>4. CASE Gather
  <2>1. PICK n \in 1..Least(BatchMax, Len(queue)) :
           batch' = SubSeq(queue, 1, n) /\ queue' = SubSeq(queue, n + 1, Len(queue))
    BY <1>4 DEF Gather
  <2>2. call' = call /\ batch = <<>>
    BY <1>4 DEF Gather, WriterClean
  <2>3. ~Claimed(u, batch)
    BY <2>2, ClaimsOfNone
  <2>4. /\ Claimed(u, queue) <=> Claimed(u, batch') \/ Claimed(u, queue')
        /\ AtMostOnce(u, queue) =>
              /\ AtMostOnce(u, batch')
              /\ AtMostOnce(u, queue')
              /\ ~(Claimed(u, batch') /\ Claimed(u, queue'))
    BY <1>t, <2>1, ClaimsAfterGather
  <2>5. QED
    BY <1>0, <2>2, <2>3, <2>4
<1>5. CASE Ack
  <2>1. /\ batch' = <<>> /\ queue' = queue
        /\ call' = [t \in Thread |-> IF Claimed(t, batch) THEN "done" ELSE call[t]]
    BY <1>5 DEF Ack
  <2>2. call'[u] = "await" <=> call[u] = "await" /\ ~Claimed(u, batch)
    BY <2>1
  <2>3. QED
    BY <1>0, <2>1, <2>2, ClaimsOfNone
<1>6. CASE WriterFails
  <2>1. /\ batch' = <<>> /\ queue' = <<>>
        /\ call' = [t \in Thread |->
                      IF Claimed(t, batch) \/ Claimed(t, queue) THEN "error" ELSE call[t]]
    BY <1>6 DEF WriterFails, FailJournal
  <2>2. call'[u] # "await"
    BY <1>0, <2>1
  <2>3. QED
    BY <2>1, <2>2, ClaimsOfNone
<1>7. CASE ProcessDies \/ PowerLoss
  <2>1. batch' = <<>> /\ queue' = <<>> /\ call'[u] = "idle"
    BY <1>7, LostMemory DEF ProcessDies, PowerLoss
  <2>2. QED
    BY <2>1, ClaimsOfNone
<1>8. ASSUME UNCHANGED <<call, batch, queue>> PROVE Good(call'[u], batch', queue')
  BY <1>0, <1>8
<1>9. ASSUME NEW t \in Thread, Interrupt(t) PROVE UNCHANGED <<call, batch, queue>>
  BY <1>9 DEF Interrupt, pipe
<1>10. CASE WriteRecord \/ ForceBatch \/ WriterExits \/ BeginClose \/ EndClose \/ Recover
             \/ UNCHANGED vars
  <2>1. UNCHANGED <<call, batch, queue>>
    BY <1>10 DEF WriteRecord, ForceBatch, WriterExits, BeginClose, EndClose, Recover,
                 vars, pipe
  <2>2. QED
    BY <1>8, <2>1
<1>11. QED
  BY <1>1, <1>2, <1>3, <1>4, <1>5, <1>6, <1>7, <1>8, <1>9, <1>10 DEF Next, Caller, Writer

LEMMA WaiterInit == Init => WriterAlive /\ WaiterInv
<1> SUFFICES ASSUME Init PROVE WriterAlive /\ WaiterInv
  OBVIOUS
<1>1. WriterAlive /\ WriterClean
  BY Zenon DEF Init, WriterAlive, WriterClean
<1>2. WaiterHasOneRequest
  BY ClaimsOfNone DEF Init, WaiterHasOneRequest
<1>3. QED
  BY <1>1, <1>2 DEF WaiterInv

LEMMA WaiterInvariant == Spec => [](WriterAlive /\ WaiterInv)
<1>1. TypeOK /\ WriterAlive /\ WaiterInv /\ [Next]_vars => (WriterAlive /\ WaiterInv)'
  BY WriterAliveStep, WriterCleanStep, WaiterStep DEF WaiterInv
<1>2. QED
  BY WaiterInit, <1>1, TypeCorrect, PTL DEF Spec

\* No caller of append() is stranded, and none is woken by the batch of
\* another.
THEOREM NoStrandedCaller == Spec => []WaiterHasOneRequest
<1>1. WaiterInv => WaiterHasOneRequest
  BY DEF WaiterInv
<1>2. QED
  BY <1>1, WaiterInvariant, PTL

\* However the journal thread leaves - close(), a failure, the end of the
\* process - nothing submitted is left without an answer.
THEOREM GoneWriterIsClean == Spec => []GoneWriterLeavesNothing
<1>1. WaiterInv => GoneWriterLeavesNothing
  <2> SUFFICES ASSUME WaiterInv, writer = "exit"
               PROVE  queue = <<>> /\ batch = <<>> /\ ~(\E t \in Thread : call[t] = "await")
    BY DEF GoneWriterLeavesNothing
  <2>1. queue = <<>> /\ batch = <<>>
    BY DEF WaiterInv, WriterClean
  <2>2. \A t \in Thread : ~Claimed(t, batch) /\ ~Claimed(t, queue)
    BY <2>1, ClaimsOfNone
  <2>3. QED
    BY <2>1, <2>2 DEF WaiterInv, WaiterHasOneRequest
<1>2. QED
  BY <1>1, WaiterInvariant, PTL

-----------------------------------------------------------------------------
(***************************************************************************)
(* Group commit implements WriteAheadLog: each step of Journal is a step   *)
(* of the abstract log, or leaves it as it is.                             *)
(***************************************************************************)

\* The part of the file that is not forced is what an earlier process left,
\* followed by the records of the batch that are written.
FileEndsInBatch ==
    /\ writer \in {"write", "ack"} =>
          /\ written <= Len(file)
          /\ \A i \in 1..written : file[Len(file) - written + i] = batch[i].rec
    /\ writer = "write" => forced + written <= Len(file)
    /\ writer = "ack" => forced = Len(file) /\ written = Len(batch)
    /\ writer \in {"poll", "exit"} => batch = <<>> /\ written = 0

\* The inductive invariant, with the parts above.
RefInv == TypeOK /\ WriterAlive /\ WaiterInv /\ FileEndsInBatch

-----------------------------------------------------------------------------
(* The abstract tail, request by request *)

Old == Len(file) - forced - written

OldRequests == [i \in 1..Old |-> [rec |-> file[forced + i], by |-> Nobody]]

\* Old records that nobody waits for, the batch, and the queue.
BehindShape ==
    /\ Behind \in Seq(Request)
    /\ writer = "ack" => Behind = queue
    /\ writer # "ack" =>
          /\ Old \in Nat
          /\ Len(Behind) = Old + Len(batch) + Len(queue)
          /\ \A i \in 1..Old : Behind[i] = [rec |-> file[forced + i], by |-> Nobody]
          /\ \A i \in 1..Len(batch) : Behind[Old + i] = batch[i]
          /\ \A i \in 1..Len(queue) : Behind[Old + Len(batch) + i] = queue[i]

LEMMA Counters ==
  ASSUME RefInv
  PROVE  /\ Len(file) \in Nat /\ Len(batch) \in Nat /\ Len(queue) \in Nat
         /\ forced \in 0..Len(file) /\ written \in 0..Len(batch)
         /\ file \in Seq(Record) /\ batch \in Seq(Request) /\ queue \in Seq(Request)
         /\ writer # "ack" => Old \in Nat /\ Old <= Len(file) - forced
<1>1. TypeOK /\ FileEndsInBatch
  BY DEF RefInv
<1>2. /\ Len(file) \in Nat /\ Len(batch) \in Nat /\ Len(queue) \in Nat
      /\ forced \in 0..Len(file) /\ written \in 0..Len(batch)
      /\ file \in Seq(Record) /\ batch \in Seq(Request) /\ queue \in Seq(Request)
      /\ writer \in {"poll", "write", "ack", "exit"}
  BY <1>1, Lengths DEF TypeOK
<1>3. writer # "ack" => Old \in Nat /\ Old <= Len(file) - forced
  BY <1>1, <1>2 DEF FileEndsInBatch, Old
<1>4. QED
  BY <1>2, <1>3

LEMMA OldTypes ==
  ASSUME RefInv, writer # "ack"
  PROVE  /\ OldRequests \in Seq(Request)
         /\ Len(OldRequests) = Old
         /\ \A i \in 1..Old : OldRequests[i] = [rec |-> file[forced + i], by |-> Nobody]
<1>1. Old \in Nat /\ Old <= Len(file) - forced /\ Len(file) \in Nat /\ forced \in 0..Len(file)
  BY Counters
<1>2. ASSUME NEW i \in 1..Old
      PROVE  [rec |-> file[forced + i], by |-> Nobody] \in Request
  <2>1. forced + i \in 1..Len(file) /\ file \in Seq(Record)
    BY <1>1, Counters
  <2>2. file[forced + i] \in Record
    BY <2>1, ElementOfSeq
  <2>3. QED
    BY <2>2 DEF Request
<1>3. QED
  BY <1>1, <1>2 DEF OldRequests

LEMMA ShapeOfBehind == RefInv => BehindShape
<1> SUFFICES ASSUME RefInv PROVE BehindShape
  OBVIOUS
<1>1. CASE writer = "ack"
  BY <1>1, Counters DEF BehindShape, Behind
<1>2. CASE writer # "ack"
  <2>1. Behind = OldRequests \o batch \o queue
    BY <1>2 DEF Behind, OldRequests, Old
  <2>2. /\ OldRequests \in Seq(Request) /\ batch \in Seq(Request) /\ queue \in Seq(Request)
        /\ Len(OldRequests) = Old /\ Old \in Nat
        /\ Len(batch) \in Nat /\ Len(queue) \in Nat
    BY <1>2, OldTypes, Counters
  <2> DEFINE front == OldRequests \o batch
  <2>3. /\ front \in Seq(Request) /\ Len(front) = Old + Len(batch)
        /\ \A i \in 1..Old : front[i] = OldRequests[i]
        /\ \A i \in 1..Len(batch) : front[Old + i] = batch[i]
    <3>1. /\ front \in Seq(Request) /\ Len(front) = Old + Len(batch)
          /\ \A i \in 1..Old + Len(batch) :
                front[i] = IF i <= Old THEN OldRequests[i] ELSE batch[i - Old]
      BY <2>2, ConcatProperties
    <3> HIDE DEF front
    <3>2. QED
      BY <2>2, <3>1
  <2> HIDE DEF front
  <2>4. /\ front \o queue \in Seq(Request)
        /\ Len(front \o queue) = Old + Len(batch) + Len(queue)
        /\ \A i \in 1..(Old + Len(batch)) : (front \o queue)[i] = front[i]
        /\ \A i \in 1..Len(queue) : (front \o queue)[Old + Len(batch) + i] = queue[i]
    <3>1. /\ front \o queue \in Seq(Request)
          /\ Len(front \o queue) = Len(front) + Len(queue)
          /\ \A i \in 1..Len(front) + Len(queue) :
                (front \o queue)[i] = IF i <= Len(front) THEN front[i] ELSE queue[i - Len(front)]
      <4>1. front \in Seq(Request) /\ queue \in Seq(Request)
        BY <2>2, <2>3
      <4>2. QED
        BY <4>1, ConcatProperties
    <3> DEFINE whole == front \o queue
    <3> HIDE DEF whole
    <3>2. /\ whole \in Seq(Request) /\ Len(whole) = Old + Len(batch) + Len(queue)
          /\ \A i \in 1..(Old + Len(batch)) : whole[i] = front[i]
          /\ \A i \in 1..Len(queue) : whole[Old + Len(batch) + i] = queue[i]
      BY <2>2, <2>3, <3>1 DEF whole
    <3>3. QED
      BY <3>2 DEF whole
  <2>5. Behind = front \o queue
    BY <2>1 DEF front
  <2>6. /\ \A i \in 1..Old : i \in 1..(Old + Len(batch))
        /\ \A i \in 1..Len(batch) : Old + i \in 1..(Old + Len(batch))
    BY <2>2
  <2>7. QED
    BY <1>2, <2>2, <2>3, <2>4, <2>5, <2>6, OldTypes DEF BehindShape
<1>3. QED
  BY <1>1, <1>2

LEMMA ShapeOfBehindNext == RefInv' => BehindShape'
BY ShapeOfBehind, PTL

\* What is not forced is what the oldest open requests are about.
LEMMA OpenRecords ==
  ASSUME RefInv
  PROVE  /\ Len(file) - forced \in 0..Len(Behind)
         /\ \A i \in 1..(Len(file) - forced) : Behind[i].rec = file[forced + i]
<1>1. /\ Len(file) \in Nat /\ forced \in 0..Len(file) /\ written \in 0..Len(batch)
      /\ Len(batch) \in Nat /\ Len(queue) \in Nat
      /\ writer \in {"poll", "write", "ack", "exit"}
      /\ FileEndsInBatch /\ BehindShape
  BY Counters, ShapeOfBehind DEF RefInv, TypeOK
<1>2. CASE writer = "ack"
  BY <1>1, <1>2 DEF FileEndsInBatch, BehindShape
<1>3. CASE writer # "ack"
  <2>1. /\ Old \in Nat /\ Old + written = Len(file) - forced
        /\ Len(Behind) = Old + Len(batch) + Len(queue)
    BY <1>1, <1>3 DEF BehindShape, Old
  <2>2. ASSUME NEW i \in 1..(Len(file) - forced) PROVE Behind[i].rec = file[forced + i]
    <3>1. CASE i \in 1..Old
      <4>1. Behind[i] = [rec |-> file[forced + i], by |-> Nobody]
        BY <1>1, <1>3, <3>1 DEF BehindShape
      <4>2. QED
        BY <4>1
    <3>2. CASE i \notin 1..Old
      <4>1. PICK j \in 1..written : i = Old + j
        <5>1. i - Old \in 1..written /\ i = Old + (i - Old)
          BY <1>1, <2>1, <2>2, <3>2
        <5>2. QED
          BY <5>1
      <4>2. j \in 1..Len(batch) /\ Behind[Old + j] = batch[j] /\ writer = "write"
        BY <1>1, <1>3, <2>1, <4>1 DEF BehindShape, FileEndsInBatch
      <4>3. file[Len(file) - written + j] = batch[j].rec
        BY <1>1, <4>1, <4>2 DEF FileEndsInBatch
      <4>4. Len(file) - written + j = forced + i
        BY <1>1, <2>1, <4>1
      <4>5. QED
        BY <4>1, <4>2, <4>3, <4>4
    <3>3. QED
      BY <3>1, <3>2
  <2>3. QED
    BY <1>1, <2>1, <2>2
<1>4. QED
  BY <1>2, <1>3

\* The first n open requests, and the rest.
LEMMA Split ==
  ASSUME RefInv, NEW n \in 0..Len(Behind)
  PROVE  /\ SubSeq(Behind, 1, n) \in Seq(Request) /\ Len(SubSeq(Behind, 1, n)) = n
         /\ \A i \in 1..n : SubSeq(Behind, 1, n)[i] = Behind[i]
         /\ SubSeq(Behind, n + 1, Len(Behind)) \in Seq(Request)
         /\ Len(SubSeq(Behind, n + 1, Len(Behind))) = Len(Behind) - n
         /\ \A i \in 1..(Len(Behind) - n) : SubSeq(Behind, n + 1, Len(Behind))[i] = Behind[n + i]
<1> DEFINE s == Behind
<1>1. s \in Seq(Request) /\ Len(s) \in Nat /\ n \in 0..Len(s)
  BY ShapeOfBehind, LenProperties DEF BehindShape
<1> HIDE DEF s
<1>2. \A i \in 1..Len(s) : s[i] \in Request
  BY <1>1, ElementOfSeq
<1>3. /\ SubSeq(s, 1, n) \in Seq(Request) /\ Len(SubSeq(s, 1, n)) = n
      /\ \A i \in 1..n : SubSeq(s, 1, n)[i] = s[i]
  BY <1>1, <1>2, SubSeqProperties
<1>4. /\ SubSeq(s, n + 1, Len(s)) \in Seq(Request)
      /\ Len(SubSeq(s, n + 1, Len(s))) = Len(s) - n
      /\ \A i \in 1..(Len(s) - n) : SubSeq(s, n + 1, Len(s))[i] = s[n + i]
  BY <1>1, <1>2, SubSeqProperties
<1>5. QED
  BY <1>3, <1>4 DEF s

\* A prefix of the file.
LEMMA Prefix ==
  ASSUME TypeOK, NEW n \in 0..Len(file)
  PROVE  /\ SubSeq(file, 1, n) \in Seq(Record) /\ Len(SubSeq(file, 1, n)) = n
         /\ \A i \in 1..n : SubSeq(file, 1, n)[i] = file[i]
<1>1. file \in Seq(Record) /\ Len(file) \in Nat
  BY LenProperties DEF TypeOK
<1>2. \A i \in 1..Len(file) : file[i] \in Record
  BY <1>1, ElementOfSeq
<1>3. QED
  BY <1>1, <1>2, SubSeqProperties

\* When more of the file is forced, the oldest open requests join the log.
LEMMA LogGrows ==
  ASSUME RefInv, NEW n \in 0..(Len(file) - forced)
  PROVE  SubSeq(file, 1, forced + n)
            = SubSeq(file, 1, forced) \o Log!Records(SubSeq(Behind, 1, n))
<1> DEFINE log == SubSeq(file, 1, forced)
           reqs == SubSeq(Behind, 1, n)
           recs == Log!Records(reqs)
           new == SubSeq(file, 1, forced + n)
<1>1. TypeOK /\ Len(file) \in Nat /\ forced \in 0..Len(file) /\ forced + n \in 0..Len(file)
  BY Counters DEF RefInv
<1>2. n \in 0..Len(Behind) /\ n \in Nat
  BY <1>1, OpenRecords
<1>3. /\ log \in Seq(Record) /\ Len(log) = forced /\ \A i \in 1..forced : log[i] = file[i]
  BY <1>1, Prefix
<1>4. /\ new \in Seq(Record) /\ Len(new) = forced + n
      /\ \A i \in 1..(forced + n) : new[i] = file[i]
  BY <1>1, Prefix
<1>5. /\ reqs \in Seq(Request) /\ Len(reqs) = n /\ \A i \in 1..n : reqs[i] = Behind[i]
  BY <1>2, Split
<1> HIDE DEF log, reqs, new
<1>6. \A i \in 1..n : reqs[i].rec \in Record /\ reqs[i].rec = file[forced + i]
  <2>1. \A i \in 1..n : reqs[i] \in Request
    BY <1>5, ElementOfSeq
  <2>2. \A i \in 1..n : i \in 1..(Len(file) - forced)
    BY <1>1
  <2>3. \A i \in 1..n : Behind[i].rec = file[forced + i]
    BY <2>2, OpenRecords
  <2>4. \A r \in Request : r.rec \in Record
    BY DEF Request
  <2>5. QED
    BY <1>5, <2>1, <2>3, <2>4
<1>7. /\ recs \in Seq(Record) /\ Len(recs) = n
      /\ \A i \in 1..n : recs[i] = file[forced + i]
  <2>1. recs = [i \in 1..n |-> reqs[i].rec]
    BY <1>5 DEF Log!Records
  <2> HIDE DEF recs
  <2>2. QED
    BY <1>2, <1>6, <2>1
<1> HIDE DEF recs
<1>8. /\ log \o recs \in Seq(Record) /\ Len(log \o recs) = Len(log) + Len(recs)
      /\ \A i \in 1..Len(log) + Len(recs) :
            (log \o recs)[i] = IF i <= Len(log) THEN log[i] ELSE recs[i - Len(log)]
  BY <1>3, <1>7, ConcatProperties
<1> DEFINE both == log \o recs
<1> HIDE DEF both
<1>9. /\ both \in Seq(Record) /\ Len(both) = forced + n
      /\ \A i \in 1..(forced + n) : both[i] = file[i]
  <2>1. /\ both \in Seq(Record) /\ Len(both) = forced + n
        /\ \A i \in 1..(forced + n) : both[i] = IF i <= forced THEN log[i] ELSE recs[i - forced]
    BY <1>3, <1>7, <1>8 DEF both
  <2>2. ASSUME NEW i \in 1..(forced + n) PROVE both[i] = file[i]
    <3>1. CASE i <= forced
      BY <1>1, <1>2, <1>3, <2>1, <3>1
    <3>2. CASE ~(i <= forced)
      <4>1. i - forced \in 1..n /\ forced + (i - forced) = i
        BY <1>1, <1>2, <3>2
      <4>2. recs[i - forced] = file[forced + (i - forced)]
        BY <1>7, <4>1
      <4>3. QED
        BY <2>1, <3>2, <4>1, <4>2
    <3>3. QED
      BY <3>1, <3>2
  <2>3. QED
    BY <2>1, <2>2
<1>10. new = both
  BY <1>4, <1>9, SeqEqual
<1>11. QED
  BY <1>10 DEF new, both, log, recs, reqs

-----------------------------------------------------------------------------
(* The invariant *)

LEMMA DisownedRecords ==
  ASSUME NEW t \in Thread, NEW reqs \in Seq(Request)
  PROVE  /\ \A i \in 1..Len(reqs) : Disown(t, reqs)[i].rec = reqs[i].rec
         /\ reqs = <<>> => Disown(t, reqs) = <<>>
<1>1. ASSUME NEW i \in 1..Len(reqs) PROVE Disown(t, reqs)[i].rec = reqs[i].rec
  <2>1. reqs[i] \in Request
    BY ElementOfSeq
  <2>2. [reqs[i] EXCEPT !.by = Nobody].rec = reqs[i].rec
    BY <2>1 DEF Request
  <2>3. QED
    <3>1. Disown(t, reqs)[i] = [reqs[i] EXCEPT !.by = Nobody] \/ Disown(t, reqs)[i] = reqs[i]
      BY DisownProperties
    <3>2. QED
      BY <2>2, <3>1
<1>2. reqs = <<>> => Disown(t, reqs) = <<>>
  BY DEF Disown
<1>3. QED
  BY <1>1, <1>2

LEMMA FileStep ==
  ASSUME RefInv, [Next]_vars
  PROVE  FileEndsInBatch'
<1>0. /\ Len(file) \in Nat /\ Len(batch) \in Nat /\ Len(queue) \in Nat
      /\ forced \in 0..Len(file) /\ written \in 0..Len(batch)
      /\ file \in Seq(Record) /\ batch \in Seq(Request) /\ queue \in Seq(Request)
      /\ writer \in {"poll", "write", "ack", "exit"}
      /\ FileEndsInBatch
  BY Counters DEF RefInv, TypeOK
<1>1. ASSUME UNCHANGED <<file, forced, batch, written, writer>> PROVE FileEndsInBatch'
  BY <1>0, <1>1 DEF FileEndsInBatch
<1>2. ASSUME NEW t \in Thread, (\E r \in Record : Submit(t, r)) \/ Return(t) \/ Interrupt(t)
      PROVE  FileEndsInBatch'
  BY <1>1, <1>2, Zenon DEF Submit, Return, Interrupt, disk, pipe
<1>3. ASSUME NEW t \in Thread, ThrowInterrupted(t) PROVE FileEndsInBatch'
  <2>1. UNCHANGED <<file, forced, written, writer>> /\ batch' = Disown(t, batch)
    BY <1>3 DEF ThrowInterrupted, disk
  <2>2. /\ \A i \in 1..written : batch'[i].rec = batch[i].rec
        /\ batch = <<>> => batch' = <<>>
    BY <1>0, <2>1, DisownedRecords
  <2>3. Len(batch') = Len(batch)
    BY <1>0, <2>1, DisownProperties
  <2>4. QED
    BY <1>0, <2>1, <2>2, <2>3 DEF FileEndsInBatch
<1>4. CASE Gather
  <2>1. UNCHANGED <<file, forced>> /\ written' = 0 /\ writer' = "write"
    BY <1>4 DEF Gather, disk
  <2>2. QED
    BY <1>0, <2>1 DEF FileEndsInBatch
<1>5. CASE WriteRecord
  <2>1. /\ UNCHANGED <<forced, batch, writer>> /\ written' = written + 1 /\ writer = "write"
        /\ file' = Append(file, batch[written + 1].rec) /\ written < Len(batch)
    BY <1>5 DEF WriteRecord
  <2>2. batch[written + 1] \in Request
    BY <1>0, <2>1, ElementOfSeq
  <2>3. batch[written + 1].rec \in Record
    BY <2>2 DEF Request
  <2>4. /\ Len(file') = Len(file) + 1
        /\ \A i \in 1..Len(file) : file'[i] = file[i]
        /\ file'[Len(file) + 1] = batch[written + 1].rec
    BY <1>0, <2>1, <2>3, AppendProperties
  <2>5. ASSUME NEW i \in 1..(written + 1)
        PROVE  file'[Len(file) + 1 - (written + 1) + i] = batch[i].rec
    <3>1. Len(file) + 1 - (written + 1) + i = Len(file) - written + i
      BY <1>0
    <3>2. CASE i \in 1..written
      <4>1. Len(file) - written + i \in 1..Len(file)
        BY <1>0, <2>1, <3>2 DEF FileEndsInBatch
      <4>2. QED
        BY <1>0, <2>1, <2>4, <3>1, <3>2, <4>1 DEF FileEndsInBatch
    <3>3. CASE i = written + 1
      BY <1>0, <2>4, <3>1, <3>3
    <3>4. QED
      BY <1>0, <3>2, <3>3
  <2>6. forced' + written' <= Len(file')
    BY <1>0, <2>1, <2>4 DEF FileEndsInBatch
  <2>7. \A i \in 1..written' : file'[Len(file') - written' + i] = batch'[i].rec
    <3>1. written' = written + 1 /\ Len(file') = Len(file) + 1 /\ batch' = batch
      BY <2>1, <2>4
    <3>2. \A i \in 1..(written + 1) : file'[Len(file) + 1 - (written + 1) + i] = batch[i].rec
      BY <2>5
    <3>3. QED
      BY ONLY <3>1, <3>2
  <2>8. writer' = "write" /\ written' <= Len(file')
    BY <1>0, <2>1, <2>4 DEF FileEndsInBatch
  <2>9. QED
    BY <2>6, <2>7, <2>8 DEF FileEndsInBatch
<1>6. CASE ForceBatch
  <2>1. /\ UNCHANGED <<file, batch, written>> /\ writer = "write" /\ writer' = "ack"
        /\ forced' = Len(file) /\ written = Len(batch)
    BY <1>6 DEF ForceBatch
  <2>2. QED
    BY <1>0, <2>1 DEF FileEndsInBatch
<1>7. CASE Ack \/ WriterFails
  BY <1>7 DEF Ack, WriterFails, FailJournal, FileEndsInBatch
<1>8. CASE WriterExits
  BY <1>0, <1>8 DEF WriterExits, FileEndsInBatch
<1>9. CASE ProcessDies \/ PowerLoss
  BY <1>9, LostMemory DEF ProcessDies, PowerLoss, FileEndsInBatch
<1>10. CASE Recover
  <2>1. writer = "exit"
    BY <1>10 DEF RefInv, WriterAlive, Recover
  <2>2. QED
    BY <1>0, <1>10, <2>1 DEF Recover, FileEndsInBatch
<1>11. CASE BeginClose \/ EndClose \/ UNCHANGED vars
  BY <1>1, <1>11 DEF BeginClose, EndClose, vars, disk, pipe
<1>12. QED
  BY <1>2, <1>3, <1>4, <1>5, <1>6, <1>7, <1>8, <1>9, <1>10, <1>11 DEF Next, Caller, Writer

LEMMA RefStep == RefInv /\ [Next]_vars => RefInv'
BY TypeStep, WriterAliveStep, WriterCleanStep, WaiterStep, FileStep DEF RefInv, WaiterInv

LEMMA RefInit == Init => RefInv
<1> SUFFICES ASSUME Init PROVE RefInv
  OBVIOUS
<1>1. FileEndsInBatch
  BY DEF Init, FileEndsInBatch
<1>2. QED
  BY TypeInit, WaiterInit, <1>1 DEF RefInv

-----------------------------------------------------------------------------
(* The steps of the calling threads *)

LEMMA SubmitMaps ==
  ASSUME RefInv, RefInv', NEW t \in Thread, NEW r \in Record, Submit(t, r)
  PROVE  Log!Submit(t, r)
<1> DEFINE q == [rec |-> r, by |-> IF interrupted[t] THEN Nobody ELSE t]
<1>1. /\ UNCHANGED <<file, forced, batch, written, writer>>
      /\ call[t] = "idle"
      /\ queue' = Append(queue, q)
      /\ interrupted[t] => call' = call
      /\ ~interrupted[t] => call' = [call EXCEPT ![t] = "await"]
  BY DEF Submit, disk
<1>2. q \in Request
  BY DEF Request
<1> HIDE DEF q
<1>3. BehindShape /\ BehindShape'
  BY ShapeOfBehind, ShapeOfBehindNext
<1>4. queue \in Seq(Request) /\ Len(queue) \in Nat /\ Len(batch) \in Nat
  BY Counters
<1>5. /\ Len(queue') = Len(queue) + 1
      /\ \A i \in 1..Len(queue) : queue'[i] = queue[i]
      /\ queue'[Len(queue) + 1] = q
  BY <1>1, <1>2, <1>4, AppendProperties
<1>6. Behind' = Append(Behind, q)
  <2>1. CASE writer = "ack"
    BY <1>1, <1>3, <2>1 DEF BehindShape
  <2>2. CASE writer # "ack"
    <3> DEFINE s == Append(Behind, q)
    <3>1. /\ s \in Seq(Request)
          /\ Len(s) = Len(Behind) + 1
          /\ \A i \in 1..Len(Behind) : s[i] = Behind[i]
          /\ s[Len(Behind) + 1] = q
      BY <1>2, <1>3, AppendProperties DEF BehindShape
    <3> HIDE DEF s
    <3>2. /\ Old' = Old /\ Old \in Nat /\ writer' # "ack"
          /\ Len(Behind) = Old + Len(batch) + Len(queue)
          /\ Len(Behind') = Old + Len(batch) + (Len(queue) + 1)
      BY <1>1, <1>3, <1>5, <2>2 DEF BehindShape, Old
    <3>3. /\ \A i \in 1..Old : Behind'[i] = Behind[i]
          /\ \A i \in 1..Len(batch) : Behind'[Old + i] = Behind[Old + i]
          /\ \A i \in 1..Len(queue) : Behind'[Old + Len(batch) + i] = Behind[Old + Len(batch) + i]
          /\ Behind'[Old + Len(batch) + (Len(queue) + 1)] = q
      <4>1. \A i \in 1..Old : Behind'[i] = Behind[i]
        BY <1>1, <1>3, <2>2, <3>2 DEF BehindShape
      <4>2. \A i \in 1..Len(batch) : Behind'[Old + i] = Behind[Old + i]
        BY <1>1, <1>3, <2>2, <3>2 DEF BehindShape
      <4>3. \A i \in 1..(Len(queue) + 1) : Behind'[Old + Len(batch) + i] = queue'[i]
        BY <1>1, <1>3, <1>5, <2>2, <3>2 DEF BehindShape
      <4>4. \A i \in 1..Len(queue) : Behind[Old + Len(batch) + i] = queue[i]
        BY <1>3, <2>2 DEF BehindShape
      <4>5. /\ Len(queue) + 1 \in 1..(Len(queue) + 1)
            /\ \A i \in 1..Len(queue) : i \in 1..(Len(queue) + 1)
        BY <1>4
      <4>6. QED
        BY <1>5, <4>1, <4>2, <4>3, <4>4, <4>5
    <3>4. /\ \A i \in 1..Old : s[i] = Behind[i]
          /\ \A i \in 1..Len(batch) : s[Old + i] = Behind[Old + i]
          /\ \A i \in 1..Len(queue) : s[Old + Len(batch) + i] = Behind[Old + Len(batch) + i]
          /\ s[Old + Len(batch) + (Len(queue) + 1)] = q
      <4>1. /\ \A i \in 1..Old : i \in 1..Len(Behind)
            /\ \A i \in 1..Len(batch) : Old + i \in 1..Len(Behind)
            /\ \A i \in 1..Len(queue) : Old + Len(batch) + i \in 1..Len(Behind)
            /\ Old + Len(batch) + (Len(queue) + 1) = Len(Behind) + 1
        BY <1>4, <3>2
      <4>2. QED
        BY <3>1, <4>1
    <3>5. \A i \in 1..(Len(queue) + 1) : Behind'[Old + Len(batch) + i] = s[Old + Len(batch) + i]
      <4>1. \A i \in 1..(Len(queue) + 1) : i \in 1..Len(queue) \/ i = Len(queue) + 1
        BY <1>4
      <4>2. QED
        BY <3>3, <3>4, <4>1
    <3>6. Behind' = s
      <4>1. Behind' \in Seq(Request) /\ Len(s) = Old + Len(batch) + (Len(queue) + 1)
        BY <1>3, <1>4, <3>1, <3>2 DEF BehindShape
      <4>2. \A i \in 1..Old : Behind'[i] = s[i]
        BY <3>3, <3>4
      <4>3. \A i \in 1..Len(batch) : Behind'[Old + i] = s[Old + i]
        BY <3>3, <3>4
      <4>4. Len(queue) + 1 \in Nat
        BY <1>4
      <4>5. QED
        <5>1. ASSUME NEW i \in 1..(Old + Len(batch) + (Len(queue) + 1)) PROVE Behind'[i] = s[i]
          <6>1. Old \in Nat /\ Len(batch) \in Nat /\ Len(queue) + 1 \in Nat
            BY <1>4, <3>2
          <6>2. \/ i \in 1..Old
                \/ i - Old \in 1..Len(batch) /\ i = Old + (i - Old)
                \/ /\ i - Old - Len(batch) \in 1..(Len(queue) + 1)
                   /\ i = Old + Len(batch) + (i - Old - Len(batch))
            BY <6>1
          <6>3. QED
            BY <6>2, <3>5, <4>2, <4>3
        <5>2. QED
          BY <3>1, <3>2, <4>1, <5>1, SeqEqual
    <3>7. QED
      BY <3>6 DEF s
  <2>3. QED
    BY <2>1, <2>2
<1>7. QED
  BY <1>1, <1>6 DEF Log!Submit, q

LEMMA ReturnMaps ==
  ASSUME NEW t \in Thread, Return(t)
  PROVE  Log!Return(t)
BY DEF Return, Log!Return, disk, pipe, Behind

LEMMA InterruptMaps ==
  ASSUME NEW t \in Thread, Interrupt(t)
  PROVE  UNCHANGED Log!vars
BY DEF Interrupt, Log!vars, disk, pipe, Behind

LEMMA AbandonMaps ==
  ASSUME RefInv, RefInv', NEW t \in Thread, ThrowInterrupted(t)
  PROVE  Log!Abandon(t)
<1>1. /\ UNCHANGED <<file, forced, written, writer>>
      /\ call[t] # "idle" /\ call' = [call EXCEPT ![t] = "idle"]
      /\ queue' = Disown(t, queue) /\ batch' = Disown(t, batch)
  BY DEF ThrowInterrupted, disk
<1>2. BehindShape /\ BehindShape'
  BY ShapeOfBehind, ShapeOfBehindNext
<1>3. /\ queue \in Seq(Request) /\ batch \in Seq(Request)
      /\ Len(queue) \in Nat /\ Len(batch) \in Nat
  BY Counters
<1>4. /\ Len(queue') = Len(queue) /\ Len(batch') = Len(batch)
      /\ \A i \in 1..Len(queue) : queue'[i] =
            IF queue[i].by = t THEN [queue[i] EXCEPT !.by = Nobody] ELSE queue[i]
      /\ \A i \in 1..Len(batch) : batch'[i] =
            IF batch[i].by = t THEN [batch[i] EXCEPT !.by = Nobody] ELSE batch[i]
  BY <1>1, <1>3, DisownProperties
<1>5. Behind' = Disown(t, Behind)
  <2>1. CASE writer = "ack"
    BY <1>1, <1>2, <2>1 DEF BehindShape
  <2>2. CASE writer # "ack"
    <3> DEFINE s == Disown(t, Behind)
    <3>1. /\ s \in Seq(Request) /\ Len(s) = Len(Behind)
          /\ \A i \in 1..Len(Behind) : s[i] =
                IF Behind[i].by = t THEN [Behind[i] EXCEPT !.by = Nobody] ELSE Behind[i]
      BY <1>2, DisownProperties DEF BehindShape
    <3> HIDE DEF s
    <3>2. /\ Old' = Old /\ Old \in Nat
          /\ Behind' \in Seq(Request)
          /\ Len(Behind) = Old + Len(batch) + Len(queue)
          /\ Len(Behind') = Old + Len(batch) + Len(queue)
      BY <1>1, <1>2, <1>4, <2>2 DEF BehindShape, Old
    <3>3. /\ \A i \in 1..Old : i \in 1..Len(Behind)
          /\ \A i \in 1..Len(batch) : Old + i \in 1..Len(Behind)
          /\ \A i \in 1..Len(queue) : Old + Len(batch) + i \in 1..Len(Behind)
      BY <1>3, <3>2
    <3>4. ASSUME NEW i \in 1..Old PROVE Behind'[i] = s[i]
      <4>1. Behind[i] = [rec |-> file[forced + i], by |-> Nobody] /\ Behind'[i] = Behind[i]
        BY <1>1, <1>2, <2>2, <3>2 DEF BehindShape
      <4>2. Behind[i].by # t
        BY <4>1, JournalAssumption
      <4>3. QED
        BY <3>1, <3>3, <4>1, <4>2
    <3>5. ASSUME NEW i \in 1..Len(batch) PROVE Behind'[Old + i] = s[Old + i]
      <4>1. Behind[Old + i] = batch[i] /\ Behind'[Old + i] = batch'[i]
        BY <1>1, <1>2, <1>4, <2>2, <3>2 DEF BehindShape
      <4>2. QED
        BY <1>4, <3>1, <3>3, <4>1
    <3>6. ASSUME NEW i \in 1..Len(queue)
          PROVE  Behind'[Old + Len(batch) + i] = s[Old + Len(batch) + i]
      <4>1. Behind[Old + Len(batch) + i] = queue[i] /\ Behind'[Old + Len(batch) + i] = queue'[i]
        BY <1>1, <1>2, <1>4, <2>2, <3>2 DEF BehindShape
      <4>2. QED
        BY <1>4, <3>1, <3>3, <4>1
    <3>7. Behind' = s
      <4>1. ASSUME NEW i \in 1..(Old + Len(batch) + Len(queue)) PROVE Behind'[i] = s[i]
        <5>1. Old \in Nat /\ Len(batch) \in Nat /\ Len(queue) \in Nat
          BY <1>3, <3>2
        <5>2. \/ i \in 1..Old
              \/ i - Old \in 1..Len(batch) /\ i = Old + (i - Old)
              \/ /\ i - Old - Len(batch) \in 1..Len(queue)
                 /\ i = Old + Len(batch) + (i - Old - Len(batch))
          BY <5>1
        <5>3. QED
          BY <5>2, <3>4, <3>5, <3>6
      <4>2. QED
        BY <3>1, <3>2, <4>1, SeqEqual
    <3>8. QED
      BY <3>7 DEF s
  <2>3. QED
    BY <2>1, <2>2
<1>6. QED
  BY <1>1, <1>5 DEF Log!Abandon, Log!Without, Disown

-----------------------------------------------------------------------------
(* The steps of the journal thread *)

\* A batch that is taken off the queue stays in front of it.
LEMMA GatherMaps ==
  ASSUME RefInv, RefInv', Gather
  PROVE  UNCHANGED Log!vars
<1>1. /\ UNCHANGED <<file, forced, call>> /\ writer = "poll" /\ writer' = "write" /\ written' = 0
  BY DEF Gather, disk
<1>2. PICK n \in 1..Least(BatchMax, Len(queue)) :
         batch' = SubSeq(queue, 1, n) /\ queue' = SubSeq(queue, n + 1, Len(queue))
  BY DEF Gather
<1>3. /\ BehindShape /\ BehindShape'
      /\ batch = <<>> /\ written = 0
      /\ queue \in Seq(Request) /\ Len(queue) \in Nat
  BY <1>1, ShapeOfBehind, ShapeOfBehindNext, Counters DEF RefInv, FileEndsInBatch
<1>4. /\ n \in 1..Len(queue)
      /\ Len(batch') = n /\ \A i \in 1..n : batch'[i] = queue[i]
      /\ Len(queue') = Len(queue) - n
      /\ \A i \in 1..(Len(queue) - n) : queue'[i] = queue[n + i]
  BY <1>2, <1>3, GatherTypes
<1>5. /\ Old' = Old /\ Old \in Nat /\ Len(batch) = 0
      /\ Behind \in Seq(Request) /\ Behind' \in Seq(Request)
      /\ Len(Behind) = Old + Len(queue)
      /\ Len(Behind') = Old + n + (Len(queue) - n)
  BY <1>1, <1>3, <1>4 DEF BehindShape, Old
<1>6. \A i \in 1..Len(queue) : Behind[Old + i] = queue[i]
  <2>1. \A i \in 1..Len(queue) : Old + Len(batch) + i = Old + i
    BY <1>5
  <2>2. \A i \in 1..Len(queue) : Behind[Old + Len(batch) + i] = queue[i]
    BY <1>1, <1>3 DEF BehindShape
  <2>3. QED
    BY <2>1, <2>2
<1>7. \A i \in 1..Old : Behind'[i] = Behind[i]
  BY <1>1, <1>3, <1>5 DEF BehindShape
<1>8. ASSUME NEW i \in 1..n PROVE Behind'[Old + i] = Behind[Old + i]
  <2>1. Behind'[Old + i] = batch'[i]
    BY <1>1, <1>3, <1>4, <1>5 DEF BehindShape
  <2>2. QED
    BY <1>4, <1>6, <2>1
<1>9. ASSUME NEW i \in 1..(Len(queue) - n) PROVE Behind'[Old + n + i] = Behind[Old + n + i]
  <2>1. Behind'[Old + n + i] = queue'[i]
    BY <1>1, <1>3, <1>4, <1>5 DEF BehindShape
  <2>2. n + i \in 1..Len(queue) /\ Old + (n + i) = Old + n + i
    BY <1>3, <1>4, <1>5
  <2>3. QED
    BY <1>4, <1>6, <2>1, <2>2
<1>10. Behind' = Behind
  <2>1. n \in Nat /\ Len(queue) - n \in Nat /\ Len(Behind) = Old + n + (Len(queue) - n)
    BY <1>3, <1>4, <1>5
  <2>2. QED
    <3>1. ASSUME NEW i \in 1..(Old + n + (Len(queue) - n)) PROVE Behind'[i] = Behind[i]
      <4>1. Old \in Nat /\ n \in Nat /\ Len(queue) - n \in Nat
        BY <1>5, <2>1
      <4>2. \/ i \in 1..Old
            \/ i - Old \in 1..n /\ i = Old + (i - Old)
            \/ /\ i - Old - n \in 1..(Len(queue) - n)
               /\ i = Old + n + (i - Old - n)
        BY <4>1
      <4>3. QED
        BY <4>2, <1>7, <1>8, <1>9
    <3>2. QED
      BY <1>5, <2>1, <3>1, SeqEqual
<1>11. QED
  BY <1>1, <1>10 DEF Log!vars

\* A record that is written, and not forced, is as open as before.
LEMMA WriteMaps ==
  ASSUME RefInv, RefInv', WriteRecord
  PROVE  UNCHANGED Log!vars
<1>1. /\ UNCHANGED <<forced, batch, queue, writer, call>> /\ written' = written + 1
      /\ writer = "write"
      /\ file' = Append(file, batch[written + 1].rec) /\ written < Len(batch)
  BY DEF WriteRecord
<1>2. /\ Len(file) \in Nat /\ Len(batch) \in Nat /\ Len(queue) \in Nat
      /\ forced \in 0..Len(file) /\ written \in 0..Len(batch)
      /\ file \in Seq(Record) /\ batch \in Seq(Request)
      /\ BehindShape /\ BehindShape'
  BY Counters, ShapeOfBehind, ShapeOfBehindNext
<1>3. batch[written + 1].rec \in Record
  <2>1. batch[written + 1] \in Request
    BY <1>1, <1>2, ElementOfSeq
  <2>2. QED
    BY <2>1 DEF Request
<1>4. /\ file' \in Seq(Record)
      /\ Len(file') = Len(file) + 1
      /\ \A i \in 1..Len(file) : file'[i] = file[i]
  BY <1>1, <1>2, <1>3, AppendProperties
<1>5. SubSeq(file', 1, forced') = SubSeq(file, 1, forced)
  <2> DEFINE u == SubSeq(file, 1, forced)
             v == SubSeq(file', 1, forced)
  <2>1. u \in Seq(Record) /\ Len(u) = forced /\ \A i \in 1..forced : u[i] = file[i]
    BY <1>2, Prefix DEF RefInv
  <2>2. \A i \in 1..forced : file'[i] \in Record
    BY <1>2, <1>4, ElementOfSeq
  <2>3. v \in Seq(Record) /\ Len(v) = forced /\ \A i \in 1..forced : v[i] = file'[i]
    BY <1>2, <2>2, SubSeqProperties
  <2> HIDE DEF u, v
  <2>4. \A i \in 1..forced : v[i] = u[i]
    <3>1. \A i \in 1..forced : i \in 1..Len(file)
      BY <1>2
    <3>2. QED
      BY <1>4, <2>1, <2>3, <3>1
  <2>5. v = u
    BY <2>1, <2>3, <2>4, SeqEqual
  <2>6. QED
    BY <1>1, <2>5 DEF u, v
<1>6. Behind' = Behind
  <2>1. /\ Old' = Old /\ Old \in Nat
        /\ Behind \in Seq(Request) /\ Behind' \in Seq(Request)
        /\ Len(Behind) = Old + Len(batch) + Len(queue)
        /\ Len(Behind') = Old + Len(batch) + Len(queue)
    <3>1. Len(file') - forced' - written' = Len(file) - forced - written
      BY <1>1, <1>2, <1>4
    <3>2. QED
      BY <1>1, <1>2, <3>1 DEF BehindShape, Old
  <2>2. ASSUME NEW i \in 1..Old PROVE Behind'[i] = Behind[i]
    <3>1. forced + i \in 1..Len(file)
      BY <1>2, <2>1 DEF Old
    <3>2. /\ Behind[i] = [rec |-> file[forced + i], by |-> Nobody]
          /\ Behind'[i] = [rec |-> file'[forced + i], by |-> Nobody]
      BY <1>1, <1>2, <2>1 DEF BehindShape
    <3>3. QED
      BY <1>4, <3>1, <3>2
  <2>3. \A i \in 1..Len(batch) : Behind'[Old + i] = Behind[Old + i]
    BY <1>1, <1>2, <2>1 DEF BehindShape
  <2>4. \A i \in 1..Len(queue) : Behind'[Old + Len(batch) + i] = Behind[Old + Len(batch) + i]
    BY <1>1, <1>2, <2>1 DEF BehindShape
  <2>5. QED
    <3>1. ASSUME NEW i \in 1..(Old + Len(batch) + Len(queue)) PROVE Behind'[i] = Behind[i]
      <4>1. Old \in Nat /\ Len(batch) \in Nat /\ Len(queue) \in Nat
        BY <1>2, <2>1
      <4>2. \/ i \in 1..Old
            \/ i - Old \in 1..Len(batch) /\ i = Old + (i - Old)
            \/ /\ i - Old - Len(batch) \in 1..Len(queue)
               /\ i = Old + Len(batch) + (i - Old - Len(batch))
        BY <4>1
      <4>3. QED
        BY <4>2, <2>2, <2>3, <2>4
    <3>2. QED
      BY <2>1, <3>1, SeqEqual
<1>7. QED
  BY <1>1, <1>5, <1>6 DEF Log!vars

\* force() makes durable what was written, and leaves the queue open.
LEMMA ForceMaps ==
  ASSUME RefInv, RefInv', ForceBatch
  PROVE  Log!Harden(Len(file) - forced)
<1> DEFINE n == Len(file) - forced
<1>1. /\ UNCHANGED <<file, batch, queue, written, call>> /\ writer' = "ack" /\ writer = "write"
      /\ written = Len(batch) /\ forced' = Len(file)
  BY DEF ForceBatch
<1>2. /\ Len(file) \in Nat /\ Len(batch) \in Nat /\ Len(queue) \in Nat
      /\ forced \in 0..Len(file) /\ queue \in Seq(Request)
      /\ BehindShape /\ BehindShape'
  BY Counters, ShapeOfBehind, ShapeOfBehindNext
<1>3. SubSeq(file', 1, forced') = SubSeq(file, 1, forced) \o Log!Records(SubSeq(Behind, 1, n))
  <2>1. n \in 0..(Len(file) - forced) /\ forced + n = Len(file)
    BY <1>2
  <2> HIDE DEF n
  <2>2. SubSeq(file, 1, forced + n) = SubSeq(file, 1, forced) \o Log!Records(SubSeq(Behind, 1, n))
    BY <2>1, LogGrows
  <2>3. QED
    BY <1>1, <2>1, <2>2
<1>4. Behind' = SubSeq(Behind, n + 1, Len(Behind))
  <2> DEFINE rest == SubSeq(Behind, n + 1, Len(Behind))
  <2>1. Behind' = queue
    BY <1>1, <1>2 DEF BehindShape
  <2>2. n \in 0..Len(Behind) /\ n = Old + Len(batch) /\ Len(Behind) = n + Len(queue) /\ n \in Nat
    BY <1>1, <1>2, OpenRecords DEF BehindShape, Old
  <2> HIDE DEF n
  <2>3. /\ rest \in Seq(Request) /\ Len(rest) = Len(Behind) - n
        /\ \A i \in 1..(Len(Behind) - n) : rest[i] = Behind[n + i]
    BY <2>2, Split
  <2> HIDE DEF rest
  <2>4. Len(Behind) - n = Len(queue)
    BY <1>2, <2>2
  <2>5. \A i \in 1..Len(queue) : Behind[n + i] = queue[i]
    BY <1>1, <1>2, <2>2 DEF BehindShape
  <2>6. rest = queue
    BY <1>2, <2>3, <2>4, <2>5, SeqEqual
  <2>7. QED
    BY <2>1, <2>6 DEF rest
<1>5. QED
  BY <1>1, <1>3, <1>4 DEF Log!Harden

\* Counting down the latches of the batch is the reply to those who wait
\* for it; the queue stays open.
LEMMA AckMaps ==
  ASSUME RefInv, RefInv', Ack
  PROVE  Log!Reply
<1>1. /\ UNCHANGED <<file, forced, queue>> /\ writer = "ack" /\ writer' = "poll"
      /\ batch' = <<>> /\ written' = 0
      /\ call' = [t \in Thread |-> IF Claimed(t, batch) THEN "done" ELSE call[t]]
  BY DEF Ack, disk
<1>2. /\ BehindShape /\ BehindShape' /\ forced = Len(file) /\ Len(file) \in Nat
      /\ queue \in Seq(Request) /\ Len(queue) \in Nat
  BY <1>1, Counters, ShapeOfBehind, ShapeOfBehindNext DEF RefInv, FileEndsInBatch
<1>3. Behind = queue
  BY <1>1, <1>2 DEF BehindShape
<1>4. Behind' = queue
  <2>1. Old' = 0 /\ Len(batch') = 0
    BY <1>1, <1>2, EmptySeq DEF Old
  <2>2. Behind' \in Seq(Request) /\ Len(Behind') = Len(queue)
    BY <1>1, <1>2, <2>1 DEF BehindShape
  <2>3. \A i \in 1..Len(queue) : Behind'[0 + 0 + i] = queue[i]
    BY <1>1, <1>2, <2>1 DEF BehindShape
  <2>4. \A i \in 1..Len(queue) : 0 + 0 + i = i
    BY <1>2
  <2>5. \A i \in 1..Len(queue) : Behind'[i] = queue[i]
    BY <2>3, <2>4
  <2>6. QED
    BY <1>2, <2>2, <2>5, SeqEqual
<1> DEFINE S == {t \in Thread : Claimed(t, batch)}
<1>5. S \in SUBSET {t \in Thread : call[t] = "await" /\ ~Log!Waits(t)}
  <2>1. \A t \in Thread : Claimed(t, batch) => call[t] = "await" /\ ~Claimed(t, queue)
    BY DEF RefInv, WaiterInv, WaiterHasOneRequest
  <2>2. \A t \in Thread : Log!Waits(t) <=> Claimed(t, queue)
    BY <1>3 DEF Log!Waits, Claimed
  <2>3. QED
    BY <2>1, <2>2
<1>6. call' = [t \in Thread |-> IF t \in S THEN "done" ELSE call[t]]
  BY <1>1
<1> HIDE DEF S
<1>7. \E T \in SUBSET {t \in Thread : call[t] = "await" /\ ~Log!Waits(t)} :
         call' = [t \in Thread |-> IF t \in T THEN "done" ELSE call[t]]
  BY <1>5, <1>6, Zenon
<1>8. QED
  BY <1>1, <1>3, <1>4, <1>7 DEF Log!Reply

\* What is left of the open requests when the writer is gone: those in the
\* file, which nobody waits for.
LEMMA LeftInFile ==
  ASSUME RefInv, RefInv', UNCHANGED <<file, forced>>, writer' = "exit",
         batch' = <<>>, queue' = <<>>, written' = 0
  PROVE  Behind' = Log!Unclaimed(SubSeq(Behind, 1, Len(file) - forced))
<1> DEFINE n == Len(file) - forced
           front == SubSeq(Behind, 1, n)
           left == Log!Unclaimed(front)
<1>1. /\ Len(file) \in Nat /\ forced \in 0..Len(file)
      /\ BehindShape'
      /\ n \in 0..Len(Behind) /\ n \in Nat
      /\ \A i \in 1..n : Behind[i].rec = file[forced + i]
  BY Counters, ShapeOfBehindNext, OpenRecords
<1>2. /\ Old' = n /\ Len(batch') = 0 /\ Len(queue') = 0
      /\ Behind' \in Seq(Request) /\ Len(Behind') = n
      /\ \A i \in 1..n : Behind'[i] = [rec |-> file[forced + i], by |-> Nobody]
  <2>1. Old' = n /\ Len(batch') = 0 /\ Len(queue') = 0
    BY <1>1, EmptySeq DEF Old
  <2> HIDE DEF n
  <2>2. QED
    BY <1>1, <2>1 DEF BehindShape
<1> HIDE DEF n
<1>3. front \in Seq(Request) /\ Len(front) = n /\ \A i \in 1..n : front[i] = Behind[i]
  BY <1>1, Split
<1> HIDE DEF front
<1>4. left = [i \in 1..n |-> [rec |-> front[i].rec, by |-> Nobody]]
  BY <1>3 DEF Log!Unclaimed
<1>5. \A i \in 1..n : [rec |-> front[i].rec, by |-> Nobody] = Behind'[i]
  BY <1>1, <1>2, <1>3
<1>6. \A i \in 1..n : Behind'[i] \in Request
  BY <1>2, ElementOfSeq
<1> HIDE DEF left
<1>7. left \in Seq(Request) /\ Len(left) = n /\ \A i \in 1..n : left[i] = Behind'[i]
  BY <1>1, <1>4, <1>5, <1>6
<1>8. Behind' = left
  BY <1>2, <1>7, SeqEqual
<1>9. QED
  BY <1>8 DEF left, front, n

\* Whoever waits for an open request waits in the batch or in the queue.
LEMMA WaitersOfBehind ==
  ASSUME RefInv, writer # "ack", NEW t \in Thread
  PROVE  Log!Waits(t) <=> Claimed(t, batch) \/ Claimed(t, queue)
<1>1. /\ BehindShape /\ Old \in Nat /\ Len(batch) \in Nat /\ Len(queue) \in Nat
      /\ Len(Behind) = Old + Len(batch) + Len(queue)
      /\ t # Nobody
  BY ShapeOfBehind, Counters, JournalAssumption DEF BehindShape
<1>2. ASSUME Claimed(t, batch) \/ Claimed(t, queue) PROVE Log!Waits(t)
  <2>1. /\ \A i \in 1..Len(batch) : Old + i \in 1..Len(Behind) /\ Behind[Old + i] = batch[i]
        /\ \A i \in 1..Len(queue) : /\ Old + Len(batch) + i \in 1..Len(Behind)
                                    /\ Behind[Old + Len(batch) + i] = queue[i]
    BY <1>1 DEF BehindShape
  <2>2. QED
    BY <1>2, <2>1 DEF Claimed, Log!Waits
<1>3. ASSUME NEW i \in 1..Len(Behind), Behind[i].by = t
      PROVE  Claimed(t, batch) \/ Claimed(t, queue)
  <2>1. \/ i \in 1..Old
        \/ i - Old \in 1..Len(batch) /\ i = Old + (i - Old)
        \/ /\ i - Old - Len(batch) \in 1..Len(queue)
           /\ i = Old + Len(batch) + (i - Old - Len(batch))
    BY <1>1
  <2>2. CASE i \in 1..Old
    <3>1. Behind[i] = [rec |-> file[forced + i], by |-> Nobody]
      BY <1>1, <2>2 DEF BehindShape
    <3>2. QED
      BY <1>1, <1>3, <3>1
  <2>3. CASE i - Old \in 1..Len(batch) /\ i = Old + (i - Old)
    <3>1. Behind[Old + (i - Old)] = batch[i - Old]
      BY <1>1, <2>3 DEF BehindShape
    <3>2. batch[i - Old].by = t
      BY <1>3, <2>3, <3>1
    <3>3. QED
      BY <2>3, <3>2 DEF Claimed
  <2>4. CASE /\ i - Old - Len(batch) \in 1..Len(queue)
             /\ i = Old + Len(batch) + (i - Old - Len(batch))
    <3>1. Behind[Old + Len(batch) + (i - Old - Len(batch))] = queue[i - Old - Len(batch)]
      BY <1>1, <2>4 DEF BehindShape
    <3>2. queue[i - Old - Len(batch)].by = t
      BY <1>3, <2>4, <3>1
    <3>3. QED
      BY <2>4, <3>2 DEF Claimed
  <2>5. QED
    BY <2>1, <2>2, <2>3, <2>4
<1>4. QED
  BY <1>2, <1>3 DEF Log!Waits

\* failJournal() tells everybody, and leaves in the file what was written.
LEMMA FailMaps ==
  ASSUME RefInv, RefInv', WriterFails
  PROVE  Log!Fail(Len(file) - forced)
<1>1. /\ UNCHANGED <<file, forced>> /\ writer = "write" /\ writer' = "exit"
      /\ batch' = <<>> /\ queue' = <<>> /\ written' = 0
      /\ call' = [t \in Thread |->
                    IF Claimed(t, batch) \/ Claimed(t, queue) THEN "error" ELSE call[t]]
  BY DEF WriterFails, FailJournal
<1>2. Behind' = Log!Unclaimed(SubSeq(Behind, 1, Len(file) - forced))
  BY <1>1, LeftInFile
<1>3. \A t \in Thread : Log!Waits(t) <=> Claimed(t, batch) \/ Claimed(t, queue)
  BY <1>1, WaitersOfBehind
<1>4. call' = [t \in Thread |-> IF Log!Waits(t) THEN "error" ELSE call[t]]
  BY <1>1, <1>3
<1>5. QED
  BY <1>1, <1>2, <1>4 DEF Log!Fail

LEMMA ExitMaps ==
  ASSUME WriterExits \/ BeginClose \/ EndClose \/ UNCHANGED vars
  PROVE  UNCHANGED Log!vars
<1>1. /\ UNCHANGED <<file, forced, batch, queue, written, call>>
      /\ writer' = "ack" <=> writer = "ack"
  BY DEF WriterExits, BeginClose, EndClose, vars, disk, pipe
<1>2. QED
  BY <1>1 DEF Log!vars, Behind

-----------------------------------------------------------------------------
(* Crashes and restarts *)

\* Nothing is hardened when the process alone dies; what was written stays in
\* the file.
LEMMA DieMaps ==
  ASSUME RefInv, RefInv', ProcessDies
  PROVE  Log!Crash(0, Len(file) - forced)
<1>1. /\ UNCHANGED <<file, forced>> /\ writer' = "exit"
      /\ batch' = <<>> /\ queue' = <<>> /\ written' = 0
      /\ call' = [t \in Thread |-> "idle"]
  BY DEF ProcessDies, LoseProcess
<1>2. Behind' = Log!Unclaimed(SubSeq(Behind, 1, Len(file) - forced))
  BY <1>1, LeftInFile
<1>3. Len(file) \in Nat /\ forced \in 0..Len(file)
  BY Counters
<1>4. 0 \in 0..(Len(file) - forced) /\ forced + 0 = forced
  BY <1>3
<1>5. SubSeq(file, 1, forced + 0)
         = SubSeq(file, 1, forced) \o Log!Records(SubSeq(Behind, 1, 0))
  BY <1>4, LogGrows
<1>6. SubSeq(file', 1, forced')
         = SubSeq(file, 1, forced) \o Log!Records(SubSeq(Behind, 1, 0))
  BY <1>1, <1>4, <1>5
<1>7. SubSeq(Behind, 0 + 1, Len(file) - forced) = SubSeq(Behind, 1, Len(file) - forced)
  BY 0 + 1 = 1
<1>8. Behind' = Log!Unclaimed(SubSeq(Behind, 0 + 1, Len(file) - forced))
  BY <1>2, <1>7
<1>9. QED
  BY <1>1, <1>6, <1>8 DEF Log!Crash

\* A loss of power keeps a prefix of the file, which is forced then.
LEMMA PowerMaps ==
  ASSUME RefInv, RefInv', PowerLoss
  PROVE  \E n \in 0..(Len(file) - forced) : Log!Crash(n, n)
<1>1. /\ writer' = "exit" /\ batch' = <<>> /\ queue' = <<>> /\ written' = 0
      /\ call' = [t \in Thread |-> "idle"]
  BY DEF PowerLoss, LoseProcess
<1>2. PICK k \in forced..Len(file) : file' = SubSeq(file, 1, k) /\ forced' = k
  BY DEF PowerLoss
<1>3. PICK n \in 0..(Len(file) - forced) : k = forced + n
  <2>1. Len(file) \in Nat /\ forced \in 0..Len(file)
    BY Counters
  <2>2. k - forced \in 0..(Len(file) - forced) /\ k = forced + (k - forced)
    BY <2>1
  <2>3. QED
    BY <2>2
<1>4. Len(file) \in Nat /\ forced \in 0..Len(file) /\ k \in 0..Len(file) /\ n \in Nat
  BY <1>2, Counters
<1>5. /\ SubSeq(file, 1, k) \in Seq(Record) /\ Len(SubSeq(file, 1, k)) = k
  BY <1>4, Prefix DEF RefInv
<1>6. SubSeq(file', 1, forced') = SubSeq(file, 1, forced) \o Log!Records(SubSeq(Behind, 1, n))
  <2>1. SubSeq(SubSeq(file, 1, k), 1, k) = SubSeq(file, 1, k)
    <3> DEFINE s == SubSeq(file, 1, k)
    <3>1. s \in Seq(Record) /\ Len(s) = k
      BY <1>5
    <3> HIDE DEF s
    <3>2. SubSeq(s, 1, Len(s)) = s
      BY <3>1, SubSeqFull
    <3>3. QED
      BY <3>1, <3>2 DEF s
  <2>2. QED
    BY <1>2, <1>3, <2>1, LogGrows
<1>7. Behind' = <<>>
  <2>1. BehindShape' /\ Len(file') = k
    BY <1>2, <1>5, ShapeOfBehindNext
  <2>2. Old' = 0 /\ Len(batch') = 0 /\ Len(queue') = 0
    BY <1>1, <1>2, <1>4, <2>1, EmptySeq DEF Old
  <2>3. Behind' \in Seq(Request) /\ Len(Behind') = 0
    BY <1>1, <2>1, <2>2 DEF BehindShape
  <2>4. QED
    BY <2>3, EmptySeq
<1>8. Log!Unclaimed(SubSeq(Behind, n + 1, n)) = <<>>
  <2>1. SubSeq(Behind, n + 1, n) = <<>>
    BY <1>4, SubSeqEmpty
  <2>2. QED
    BY <2>1, EmptySeq DEF Log!Unclaimed
<1>9. Log!Crash(n, n)
  BY <1>1, <1>6, <1>7, <1>8 DEF Log!Crash
<1>10. QED
  BY <1>9

\* When the constructor had to cut the file it forces what is left of it.
LEMMA RecoverMaps ==
  ASSUME RefInv, RefInv', Recover
  PROVE  Log!Harden(Len(file) - forced) \/ UNCHANGED Log!vars
<1>1. /\ UNCHANGED <<file, batch, queue, written, call>> /\ writer' = "poll" /\ ~up
      /\ forced' = IF torn THEN Len(file) ELSE forced
  BY DEF Recover
<1>2. /\ writer = "exit" /\ batch = <<>> /\ queue = <<>> /\ written = 0
      /\ Len(file) \in Nat /\ forced \in 0..Len(file)
      /\ BehindShape /\ BehindShape' /\ torn \in BOOLEAN
  BY <1>1, Counters, ShapeOfBehind, ShapeOfBehindNext
     DEF RefInv, WaiterInv, WriterClean, WriterAlive, FileEndsInBatch, TypeOK
<1>3. CASE ~torn
  BY <1>1, <1>2, <1>3 DEF Log!vars, Behind
<1>4. CASE torn
  <2> DEFINE n == Len(file) - forced
             rest == SubSeq(Behind, n + 1, Len(Behind))
  <2>1. n \in Nat /\ Len(Behind) = n /\ n \in 0..n /\ forced + n = Len(file)
    BY <1>2, EmptySeq DEF BehindShape, Old
  <2> HIDE DEF n
  <2>2. rest = <<>>
    BY <2>1, SubSeqEmpty
  <2>3. Behind' = <<>>
    <3>1. Old' = 0 /\ Len(batch') = 0 /\ Len(queue') = 0
      BY <1>1, <1>2, <1>4, EmptySeq DEF Old
    <3>2. Behind' \in Seq(Request) /\ Len(Behind') = 0
      BY <1>1, <1>2, <3>1 DEF BehindShape
    <3>3. QED
      BY <3>2, EmptySeq
  <2>4. SubSeq(file, 1, forced + n) = SubSeq(file, 1, forced) \o Log!Records(SubSeq(Behind, 1, n))
    <3>1. n \in 0..(Len(file) - forced)
      BY <2>1 DEF n
    <3>2. QED
      BY <3>1, LogGrows
  <2>5. Log!Harden(n)
    BY <1>1, <1>4, <2>1, <2>2, <2>3, <2>4 DEF Log!Harden
  <2>6. QED
    BY <2>5 DEF n
<1>5. QED
  BY <1>2, <1>3, <1>4

-----------------------------------------------------------------------------
(* The refinement *)

LEMMA InitMaps == Init => Log!Init
<1> SUFFICES ASSUME Init PROVE Log!Init
  OBVIOUS
<1>1. /\ file = <<>> /\ forced = 0 /\ written = 0 /\ writer = "exit"
      /\ batch = <<>> /\ queue = <<>> /\ call = [t \in Thread |-> "idle"]
  BY Zenon DEF Init
<1>2. SubSeq(file, 1, forced) = <<>>
  BY <1>1, SubSeqEmpty
<1>3. Behind = <<>>
  <2>1. BehindShape
    BY RefInit, ShapeOfBehind
  <2>2. Len(batch) = 0 /\ Len(queue) = 0 /\ Old = 0
    BY <1>1, EmptySeq DEF Old
  <2>3. Behind \in Seq(Request) /\ Len(Behind) = 0
    BY <1>1, <2>1, <2>2 DEF BehindShape
  <2>4. QED
    BY <2>3, EmptySeq
<1>4. QED
  BY <1>1, <1>2, <1>3 DEF Log!Init

LEMMA StepMaps == RefInv /\ RefInv' /\ [Next]_vars => [Log!Next]_(Log!vars)
<1> SUFFICES ASSUME RefInv, RefInv', [Next]_vars
             PROVE  Log!Next \/ UNCHANGED Log!vars
  OBVIOUS
<1>1. /\ Len(file) - forced \in 0..Len(Behind)
      /\ Len(file) \in Nat /\ forced \in 0..Len(file)
      /\ Len(Behind) \in Nat
  BY OpenRecords, Counters, ShapeOfBehind, LenProperties DEF BehindShape
<1>2. ASSUME NEW t \in Thread, Caller(t) \/ Interrupt(t)
      PROVE  Log!Next \/ UNCHANGED Log!vars
  <2>1. ASSUME NEW r \in Record, Submit(t, r) PROVE Log!Next
    BY <2>1, SubmitMaps DEF Log!Next
  <2>2. CASE Return(t)
    BY <2>2, ReturnMaps DEF Log!Next
  <2>3. CASE ThrowInterrupted(t)
    BY <2>3, AbandonMaps DEF Log!Next
  <2>4. CASE Interrupt(t)
    BY <2>4, InterruptMaps
  <2>5. QED
    BY <1>2, <2>1, <2>2, <2>3, <2>4 DEF Caller
<1>3. CASE Writer
  <2>1. CASE Gather
    BY <2>1, GatherMaps
  <2>2. CASE WriteRecord
    BY <2>2, WriteMaps
  <2>3. CASE ForceBatch
    BY <1>1, <2>3, ForceMaps DEF Log!Next
  <2>4. CASE Ack
    BY <2>4, AckMaps DEF Log!Next
  <2>5. CASE WriterFails
    BY <1>1, <2>5, FailMaps DEF Log!Next
  <2>6. CASE WriterExits
    BY <2>6, ExitMaps
  <2>7. QED
    BY <1>3, <2>1, <2>2, <2>3, <2>4, <2>5, <2>6 DEF Writer
<1>4. CASE BeginClose \/ EndClose \/ UNCHANGED vars
  BY <1>4, ExitMaps
<1>5. CASE ProcessDies
  <2>1. /\ 0 \in 0..Len(Behind) /\ Len(file) - forced \in 0..Len(Behind)
        /\ Log!Crash(0, Len(file) - forced)
    BY <1>1, <1>5, DieMaps
  <2>2. QED
    BY <2>1 DEF Log!Next
<1>6. CASE PowerLoss
  <2>1. PICK n \in 0..(Len(file) - forced) : Log!Crash(n, n)
    BY <1>6, PowerMaps
  <2>2. n \in 0..Len(Behind) /\ n \in n..Len(Behind)
    BY <1>1
  <2>3. QED
    BY <2>1, <2>2 DEF Log!Next
<1>7. CASE Recover
  BY <1>1, <1>7, RecoverMaps DEF Log!Next
<1>8. QED
  BY <1>2, <1>3, <1>4, <1>5, <1>6, <1>7 DEF Next

\* Group commit, with its batches, its one force() and its recovery, keeps the
\* promise of WriteAheadLog: a durable log that only grows, in the order of
\* submission, and no success reply but for a record that is in it.
THEOREM JournalImplementsLog == Spec => ImplementsLog
<1>1. Spec => []RefInv
  BY RefInit, RefStep, PTL DEF Spec
<1>2. QED
  BY <1>1, InitMaps, StepMaps, PTL DEF Spec, ImplementsLog, Log!Spec
=============================================================================
