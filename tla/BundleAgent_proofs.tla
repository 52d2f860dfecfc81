------------------------- MODULE BundleAgent_proofs -------------------------
(***************************************************************************)
(* Proofs about BundleAgent: for every number of messages, workers and     *)
(* retries and every capacity, a message is in one place of the pipeline   *)
(* at most and, while the agent runs, in no fewer than it must be; what    *)
(* was published belongs to the result in the journal; its items           *)
(* are published in order, and all of them before the message is DONE; and *)
(* an item is published again at most once for every process that ended.   *)
(*                                                                         *)
(* The argument has five layers, each resting on those before it.          *)
(*   Shape      the types, and which thread holds something when           *)
(*   Flow       how many places of the pipeline hold a message: every step *)
(*              but two moves a message from one place to another or       *)
(*              drops it                                                   *)
(*   Ownership  who may change the entry of a message: its executor while  *)
(*              it is unfinished, then the publisher                       *)
(*   Output     what the checkpoints say of the items published            *)
(*   Budget     what is repeated has been paid for by the end of a process *)
(***************************************************************************)
EXTENDS BundleAgent, ProofLemmas

Unfinished == {"COMMITTING", "READY", "PROCESSING", "RETRY_WAIT"}
Finished == {"RESULT_PENDING", "DONE"}

-----------------------------------------------------------------------------
(* Shape *)

\* The reader and the publisher are threads of the running phase.
NoThreadsYet == phase # "run" => reader = "exit" /\ publisher = "exit"

\* The reader holds a message between dequeuing and marking it, and has room
\* in its bundle for it.
ReaderHands ==
    /\ reader = "exit" => bundle = <<>>
    /\ reader \in {"dequeue", "stage", "commit", "ready"} => Len(bundle) < BundleSize
    /\ reader \in {"stage", "commit", "ready"} => xa \in Msg
    /\ reader = "leave" => ~running

TaskHands == \A x \in Executor : task[x] = Idle \/ (task[x].at # "idle" /\ task[x].msg \in Msg)

PublisherHands ==
    /\ publisher \in {"enqueue", "checkpoint", "finish"} => pending # <<>>
    /\ publisher = "exit" => pending = <<>>
    /\ \A i \in 1..Len(pending) : Known(pending[i])

\* What the map knows the journal has.
KnownIsInJournal == \A m \in Msg : Known(m) => journal[m] # Absent

Shape ==
    /\ TypeOK /\ NoThreadsYet /\ ReaderHands /\ TaskHands /\ PublisherHands
    /\ KnownIsInJournal

\* The same, by the threads that change it.
PhaseShape ==
    /\ phase \in {"down", "discard", "requeue", "run"}
    /\ running \in BOOLEAN /\ restarts \in Nat
    /\ NoThreadsYet
StoreShape ==
    /\ memory \in [Msg -> Entry \cup {Absent}] /\ journal \in [Msg -> Entry \cup {Absent}]
    /\ broken \in BOOLEAN
    /\ KnownIsInJournal
ReaderShape == ReaderTypeOK /\ ReaderHands
TaskType == [at : {"idle", "start", "attempt", "work", "caught"},
             msg : Msg \cup {NoMsg}, attempt : 0..MaxRetries]
PipeShape ==
    /\ recovering \in Seq(Seq(Msg))
    /\ dispatcher \in {"poll", "exit"}
    /\ dispatching \in Seq(Msg)
    /\ workQueue \in Seq(Msg) /\ Len(workQueue) <= WorkQueueCapacity
    /\ task \in [Executor -> TaskType]
    /\ TaskHands
PublisherShape ==
    /\ publisher \in {"poll", "enqueue", "checkpoint", "finish", "exit"}
    /\ pending \in Seq(Msg)
    /\ index \in Nat
    /\ published \in [Msg -> Seq([env : Envelope \cup {"none"}, item : Nat])]
    /\ PublisherHands

-----------------------------------------------------------------------------
(* Flow *)

In(s, m) == Cardinality(Positions(s, m))
InAll(ss, m) == Cardinality(Spots(ss, m))
Holders(m) == {x \in Executor : task[x].msg = m}
Hands(m) == Cardinality(Holders(m))

\* In how many places of the pipeline m is.
Held(m) ==
    In(bundle, m) + InAll(bundleQueue, m) + InAll(recovering, m) + In(dispatching, m)
      + In(workQueue, m) + Hands(m)

HeldOnce == \A m \in Msg : Held(m) <= 1

HeldIsKnown == \A m \in Msg : Held(m) > 0 => Known(m)

\* A message the journal did not know when it was dequeued is held by nobody
\* before it joins the bundle.
NewIsNotHeld ==
    /\ reader \in {"stage", "commit", "ready"} /\ ~wasKnown => Held(xa) = 0
    /\ reader = "ready" => ~wasKnown

StartsEmpty == phase \in {"down", "discard"} => \A m \in Msg : Held(m) = 0

OwedIsHeld ==
    phase \in {"requeue", "run"} /\ running =>
        \A m \in Msg :
            memory[m].state \in {"READY", "PROCESSING", "RETRY_WAIT"} => Held(m) >= 1

Flow == HeldOnce /\ HeldIsKnown /\ NewIsNotHeld /\ StartsEmpty /\ OwedIsHeld

-----------------------------------------------------------------------------
(* Ownership *)

ExecutorsAreFirst ==
    \A x \in Executor :
        task[x].at \in {"attempt", "work", "caught"} => memory[task[x].msg].state \in Unfinished

ReaderIsFirst ==
    /\ reader = "stage" /\ ~wasKnown => ~Known(xa)
    /\ reader = "commit" /\ ~wasKnown /\ xa \notin HealthCheck => memory[xa].state = "COMMITTING"
    /\ reader = "commit" /\ xa \notin HealthCheck => journal[xa] # Absent
    /\ reader = "ready" => memory[xa].state = "COMMITTING"

PublisherIsLast ==
    /\ \A i \in 1..Len(pending) : memory[pending[i]].state = "RESULT_PENDING"
    /\ NoRepeats(pending)

\* A result in memory is the one the journal has.
ResultIsInJournal ==
    \A m \in Msg : memory[m].state \in Finished =>
        journal[m].state \in Finished /\ journal[m].result = memory[m].result

PublishedIsFinished ==
    \A m \in Msg : published[m] # <<>> /\ phase # "down" => memory[m].state \in Finished

Ownership ==
    /\ ExecutorsAreFirst /\ ReaderIsFirst /\ PublisherIsLast /\ ResultIsInJournal
    /\ PublishedIsFinished /\ PublishedResultIsKept

-----------------------------------------------------------------------------
(* Output *)

\* Item k of m was enqueued; all items up to n were.
Has(m, k) == \E i \in 1..Len(published[m]) : published[m][i].item = k
HasAll(m, n) == \A k \in 1..n : Has(m, k)

CheckpointsArePublished ==
    \A m \in Msg :
        /\ journal[m].state \in Finished => HasAll(m, journal[m].publishedCount)
        /\ memory[m].state \in Finished => HasAll(m, memory[m].publishedCount)

PublisherHasAll ==
    /\ publisher \in {"enqueue", "finish"} => HasAll(Current, index)
    /\ publisher = "checkpoint" => HasAll(Current, index + 1)
    /\ publisher = "finish" => index >= ItemCount(Current, memory[Current].result)

Output == CheckpointsArePublished /\ PublisherHasAll /\ ItemsInOrder /\ DoneIsPublished

-----------------------------------------------------------------------------
(* Repetitions, while no journal fails *)

Repeated(s) == {i \in 1..Len(s) : \E j \in 1..(i - 1) : s[j].item = s[i].item}
Repeats(m) == Cardinality(Repeated(published[m]))

IndexIsCheckpoint ==
    publisher \in {"enqueue", "checkpoint"} => index = memory[Current].publishedCount

\* Publishing is one item ahead of the checkpoint at most.
OneAhead ==
    \A m \in Msg :
        /\ journal[m].state = "RESULT_PENDING" =>
              \A i \in 1..Len(published[m]) : published[m][i].item <= journal[m].publishedCount + 1
        /\ memory[m].state = "RESULT_PENDING" =>
              \A i \in 1..Len(published[m]) : published[m][i].item <= memory[m].publishedCount + 1
        /\ memory[m].state = "RESULT_PENDING" =>
              memory[m].publishedCount <= journal[m].publishedCount

\* What is going to be repeated has been paid for by the end of a process.
NextIsPaid ==
    \A m \in Msg :
        /\ phase = "down" /\ published[m] # <<>> => Repeats(m) + 1 <= restarts
        /\ /\ phase # "down" /\ running
           /\ memory[m].state = "RESULT_PENDING" /\ Has(m, memory[m].publishedCount + 1)
           /\ ~(publisher = "checkpoint" /\ m = Current)
           => Repeats(m) + 1 <= restarts

Budget == ~broken /\ IndexIsCheckpoint /\ OneAhead /\ NextIsPaid /\ RepeatsOnlyAfterRestart

-----------------------------------------------------------------------------
(* Lemmas about the store *)

LEMMA Constants ==
  /\ Msg \subseteq Nat /\ NoMsg \notin Msg /\ NoMsg = 0
  /\ NumMsgs \in Nat /\ MaxRestarts \in Nat /\ MaxRetries \in Nat
  /\ BundleSize \in Nat \ {0} /\ QueueCapacity \in Nat \ {0}
  /\ WorkQueueCapacity \in Nat \ {0}
  /\ HealthCheck \subseteq Msg
  /\ outputCount \in [Msg -> 0..2]
  /\ IsFiniteSet(Executor) /\ Dispatcher \in Executor
<1>1. IsFiniteSet(Executor)
  <2>1. IsFiniteSet(Worker)
    BY BundleAgentAssumption
  <2>2. IsFiniteSet(Worker \cup {Dispatcher})
    BY <2>1, FS_AddElement
  <2>3. QED
    BY <2>2 DEF Executor
<1>2. Msg \subseteq Nat /\ NoMsg \notin Msg /\ NoMsg = 0
  BY MessageStoreAssumption DEF Msg, NoMsg
<1>3. QED
  BY <1>1, <1>2, MessageStoreAssumption, BundleReaderAssumption, BundleAgentAssumption
     DEF Executor

LEMMA ShapeParts ==
  Shape <=> PhaseShape /\ StoreShape /\ ReaderShape /\ PipeShape /\ PublisherShape
BY DEF Shape, TypeOK, PhaseShape, StoreShape, ReaderShape, PipeShape, PublisherShape, TaskType

LEMMA ShapePartsNext ==
  Shape' <=> PhaseShape' /\ StoreShape' /\ ReaderShape' /\ PipeShape' /\ PublisherShape'
BY ShapeParts, PTL

State == {"COMMITTING", "READY", "PROCESSING", "RETRY_WAIT", "RESULT_PENDING", "DONE"}

LEMMA EntryFields ==
  /\ Absent \notin Entry
  /\ Absent.state = "ABSENT" /\ Absent.result = "none" /\ Absent.publishedCount = 0
  /\ \A e \in Entry :
        /\ e.state \in State /\ e.result \in Envelope \cup {"none"} /\ e.publishedCount \in Nat
        /\ e = [state |-> e.state, result |-> e.result, publishedCount |-> e.publishedCount]
BY DEF Entry, Absent, State

\* What each change makes of an entry.
LEMMA Changes ==
  ASSUME NEW e \in Entry \cup {Absent}
  PROVE  /\ Changed(StageIt, e) =
               [state |-> "COMMITTING", result |-> "none", publishedCount |-> 0]
         /\ \A s : Changed(SetState(s), e) =
               [state |-> s, result |-> e.result, publishedCount |-> e.publishedCount]
         /\ Changed(SetRetry, e) =
               [state |-> "RETRY_WAIT", result |-> e.result, publishedCount |-> e.publishedCount]
         /\ \A env : Changed(SetResultPending(env), e) =
               [state |-> "RESULT_PENDING", result |-> env, publishedCount |-> 0]
         /\ \A n : Changed(SetPublishedCount(n), e) =
               [state |-> e.state, result |-> e.result, publishedCount |-> n]
         /\ Changed(DiscardIt, e) = Absent
<1>1. \A v : /\ [e EXCEPT !.state = v] =
                   [state |-> v, result |-> e.result, publishedCount |-> e.publishedCount]
             /\ [e EXCEPT !.publishedCount = v] =
                   [state |-> e.state, result |-> e.result, publishedCount |-> v]
  BY DEF Entry, Absent
<1>2. \A s : Changed(SetState(s), e) = [e EXCEPT !.state = s]
  BY DEF Changed, SetState
<1>3. Changed(SetRetry, e) = [e EXCEPT !.state = "RETRY_WAIT"]
  BY DEF Changed, SetRetry
<1>4. \A n : Changed(SetPublishedCount(n), e) = [e EXCEPT !.publishedCount = n]
  BY DEF Changed, SetPublishedCount
<1>5. Changed(StageIt, e) = [state |-> "COMMITTING", result |-> "none", publishedCount |-> 0]
  BY DEF Changed, StageIt
<1>6. \A env : Changed(SetResultPending(env), e) =
         [state |-> "RESULT_PENDING", result |-> env, publishedCount |-> 0]
  BY DEF Changed, SetResultPending
<1>7. Changed(DiscardIt, e) = Absent
  BY DEF Changed, DiscardIt
<1>8. QED
  BY <1>1, <1>2, <1>3, <1>4, <1>5, <1>6, <1>7

\* All but the discarding and the checkpoint of an unknown message give an entry.
LEMMA ChangesType ==
  ASSUME NEW e \in Entry \cup {Absent}
  PROVE  /\ Changed(StageIt, e) \in Entry
         /\ \A s \in State : Changed(SetState(s), e) \in Entry
         /\ Changed(SetRetry, e) \in Entry
         /\ \A env \in Envelope : Changed(SetResultPending(env), e) \in Entry
         /\ e # Absent => \A n \in Nat : Changed(SetPublishedCount(n), e) \in Entry
<1>1. e.result \in Envelope \cup {"none"} /\ e.publishedCount \in Nat
  BY EntryFields
<1>2. e # Absent => e.state \in State
  BY EntryFields
<1>3. \A s \in State, r \in Envelope \cup {"none"}, n \in Nat :
         [state |-> s, result |-> r, publishedCount |-> n] \in Entry
  BY DEF Entry, State
<1>4. "COMMITTING" \in State /\ "RETRY_WAIT" \in State /\ "RESULT_PENDING" \in State
  BY DEF State
<1>5. Changed(StageIt, e) \in Entry
  BY <1>3, <1>4, Changes
<1>6. ASSUME NEW s \in State PROVE Changed(SetState(s), e) \in Entry
  BY <1>1, <1>3, Changes
<1>7. Changed(SetRetry, e) \in Entry
  BY <1>1, <1>3, <1>4, Changes
<1>8. ASSUME NEW env \in Envelope PROVE Changed(SetResultPending(env), e) \in Entry
  BY <1>3, <1>4, Changes
<1>9. ASSUME e # Absent, NEW n \in Nat PROVE Changed(SetPublishedCount(n), e) \in Entry
  BY <1>2, <1>3, <1>1, <1>9, Changes
<1>10. QED
  BY <1>5, <1>6, <1>7, <1>8, <1>9

\* An operation of the store on m that gives an entry.
LEMMA StoreStep ==
  ASSUME StoreShape, NEW m \in Msg, NEW c,
         Changed(c, memory[m]) \in Entry, Changed(c, journal[m]) \in Entry,
         StoreOk(m, c) \/ StoreThrows(m, c)
  PROVE  /\ StoreShape'
         /\ \A n \in Msg : Known(n) => Known(n)'
         /\ \A n \in Msg : n # m => memory'[n] = memory[n] /\ journal'[n] = journal[n]
         /\ memory'[m] \in {memory[m], Changed(c, memory[m])}
         /\ journal'[m] \in {journal[m], Changed(c, journal[m])}
         /\ StoreOk(m, c) =>
               /\ memory'[m] = Changed(c, memory[m]) /\ journal'[m] = Changed(c, journal[m])
               /\ broken' = broken
         /\ StoreThrows(m, c) => memory' = memory
<1>1. /\ memory \in [Msg -> Entry \cup {Absent}] /\ journal \in [Msg -> Entry \cup {Absent}]
      /\ broken \in BOOLEAN /\ KnownIsInJournal
  BY DEF StoreShape
<1> DEFINE M == [memory EXCEPT ![m] = Changed(c, @)]
           D == [journal EXCEPT ![m] = Changed(c, @)]
<1>2. /\ M \in [Msg -> Entry \cup {Absent}] /\ M[m] = Changed(c, memory[m])
      /\ \A n \in Msg : n # m => M[n] = memory[n]
  BY <1>1
<1>3. /\ D \in [Msg -> Entry \cup {Absent}] /\ D[m] = Changed(c, journal[m])
      /\ \A n \in Msg : n # m => D[n] = journal[n]
  BY <1>1
<1>4. memory' \in {memory, M} /\ journal' \in {journal, D} /\ broken' \in BOOLEAN
  BY <1>1 DEF StoreOk, StoreThrows
<1>5. /\ StoreOk(m, c) => memory' = M /\ journal' = D /\ broken' = broken
      /\ StoreThrows(m, c) => memory' = memory
  BY DEF StoreOk, StoreThrows
<1> HIDE DEF M, D
<1>6. Absent \notin Entry
  BY EntryFields
<1>7. \A n \in Msg : memory[n] # Absent => memory'[n] # Absent
  BY <1>2, <1>4, <1>6
<1>8. \A n \in Msg : journal[n] # Absent => journal'[n] # Absent
  BY <1>3, <1>4, <1>6
<1>9. \A n \in Msg : memory'[n] # Absent => journal'[n] # Absent
  <2>1. ASSUME NEW n \in Msg, memory'[n] # Absent PROVE journal'[n] # Absent
    <3>1. CASE memory[n] # Absent
      BY <1>1, <1>8, <3>1 DEF KnownIsInJournal, Known
    <3>2. CASE memory[n] = Absent
      <4>1. memory' = M /\ n = m
        BY <1>2, <1>4, <2>1, <3>2
      <4>2. StoreOk(m, c)
        BY <1>5, <2>1, <3>2
      <4>3. QED
        BY <1>3, <1>5, <1>6, <4>1, <4>2
    <3>3. QED
      BY <3>1, <3>2
  <2>2. QED
    BY <2>1
<1>10. StoreShape'
  BY <1>2, <1>3, <1>4, <1>9 DEF StoreShape, KnownIsInJournal, Known
<1>11. QED
  BY <1>2, <1>3, <1>4, <1>5, <1>7, <1>10 DEF Known

-----------------------------------------------------------------------------
(* Every step keeps the shape *)

\* The queue delivers a message it holds.
LEMMA EarliestIsThere ==
  ASSUME NEW S \in SUBSET Msg, S # {}
  PROVE  Earliest(S) \in S
<1>1. S \in SUBSET Nat
  BY Constants
<1>2. QED
  BY <1>1, LeastIsChosen DEF Earliest

LEMMA Ends ==
  ASSUME NEW T, NEW s \in Seq(T)
  PROVE  /\ Len(s) \in Nat
         /\ \A e \in T : Append(s, e) \in Seq(T) /\ Len(Append(s, e)) = Len(s) + 1
         /\ s # <<>> => /\ Head(s) \in T /\ Tail(s) \in Seq(T)
                        /\ Len(Tail(s)) = Len(s) - 1 /\ Len(s) >= 1
         /\ <<>> \in Seq(T) /\ Len(<<>>) = 0
<1>1. \A e \in T : Append(s, e) \in Seq(T) /\ Len(Append(s, e)) = Len(s) + 1
  BY AppendProperties
<1>2. ASSUME s # <<>>
      PROVE  /\ Head(s) \in T /\ Tail(s) \in Seq(T)
             /\ Len(Tail(s)) = Len(s) - 1 /\ Len(s) >= 1
  BY <1>2, HeadTailProperties, EmptySeq
<1>3. Len(s) \in Nat /\ <<>> \in Seq(T) /\ Len(<<>>) = 0
  BY EmptySeq
<1>4. QED
  BY <1>1, <1>2, <1>3

KnownStays == \A n \in Msg : Known(n) => Known(n)'

LEMMA PublisherSame ==
  ASSUME PublisherShape, KnownStays, UNCHANGED pubVars
  PROVE  PublisherShape'
<1>1. PublisherHands'
  <2>1. \A i \in 1..Len(pending) : pending[i] \in Msg
    BY ElementOfSeq DEF PublisherShape
  <2>2. \A i \in 1..Len(pending) : Known(pending[i])'
    BY <2>1 DEF PublisherShape, PublisherHands, KnownStays, pubVars, Known
  <2>3. QED
    BY <2>2 DEF PublisherShape, PublisherHands, pubVars
<1>2. QED
  BY <1>1 DEF PublisherShape, pubVars

LEMMA PipeSame ==
  ASSUME PipeShape, UNCHANGED <<recovering, dispatcher, dispatching, workVars>>
  PROVE  PipeShape'
BY DEF PipeShape, TaskHands, workVars

LEMMA StoreSame ==
  ASSUME StoreShape, UNCHANGED storeVars
  PROVE  StoreShape' /\ KnownStays
BY DEF StoreShape, KnownIsInJournal, Known, storeVars, KnownStays

\* What the reader does to the store.
LEMMA ReaderStore ==
  ASSUME Shape, Reader
  PROVE  StoreShape' /\ KnownStays
<1>1. StoreShape /\ ReaderShape
  BY ShapeParts
<1>2. ASSUME NEW c, Changed(c, memory[xa]) \in Entry, Changed(c, journal[xa]) \in Entry,
             xa \in Msg, StoreOk(xa, c) \/ StoreThrows(xa, c)
      PROVE  StoreShape' /\ KnownStays
  BY <1>1, <1>2, StoreStep DEF KnownStays
<1>3. reader \in {"stage", "commit", "ready"} => xa \in Msg
  BY <1>1 DEF ReaderShape, ReaderHands
<1>4. xa \in Msg => /\ memory[xa] \in Entry \cup {Absent}
                    /\ journal[xa] \in Entry \cup {Absent}
  BY <1>1 DEF StoreShape
<1>5. "READY" \in State
  BY DEF State
<1>6. CASE UNCHANGED storeVars
  BY <1>1, <1>6, StoreSame
<1>7. CASE ReaderStages /\ ~UNCHANGED storeVars
  <2>1. reader = "stage" /\ StoreOk(xa, StageIt)
    BY <1>7 DEF ReaderStages
  <2>2. QED
    BY <1>2, <1>3, <1>4, <2>1, ChangesType
<1>8. CASE ReaderCannotStage
  <2>1. reader = "stage" /\ StoreThrows(xa, StageIt)
    BY <1>8 DEF ReaderCannotStage
  <2>2. QED
    BY <1>2, <1>3, <1>4, <2>1, ChangesType
<1>9. CASE ReaderMarksReady \/ ReaderCannotMarkReady
  <2>1. /\ reader = "ready"
        /\ StoreOk(xa, SetState("READY")) \/ StoreThrows(xa, SetState("READY"))
    BY <1>9 DEF ReaderMarksReady, ReaderCannotMarkReady
  <2>2. QED
    BY <1>2, <1>3, <1>4, <1>5, <2>1, ChangesType
<1>10. QED
  BY <1>6, <1>7, <1>8, <1>9 DEF Reader, ReaderDequeues, ReaderFlushes, ReaderCommits,
        ReaderCannotCommit, ReaderPuts, ReaderLeavesLoop, ReaderExits

LEMMA ReaderShapeStep ==
  ASSUME Shape, Reader
  PROVE  ReaderShape'
<1>1. ReaderTypeOK /\ ReaderHands
  BY ShapeParts DEF ReaderShape
<1>2. Msg \subseteq Nat /\ NoMsg \notin Msg /\ BundleSize \in Nat \ {0}
  BY Constants
<1>3. /\ bundle \in Seq(Msg) /\ bundleQueue \in Seq(Seq(Msg)) /\ Len(bundle) \in Nat
      /\ Len(bundleQueue) \in Nat /\ QueueCapacity \in Nat
      /\ <<>> \in Seq(Msg) /\ Len(<<>>) = 0
  BY <1>1, Ends, Constants DEF ReaderTypeOK
<1>4. /\ Append(bundleQueue, bundle) \in Seq(Seq(Msg))
      /\ Len(Append(bundleQueue, bundle)) = Len(bundleQueue) + 1
  BY <1>3, Ends
<1>5. 0 <= BundleSize /\ 0 < BundleSize
  BY <1>2
<1>6. Len(bundleQueue) < QueueCapacity => Len(bundleQueue) + 1 <= QueueCapacity
  BY <1>3
<1> USE DEF ReaderShape, ReaderTypeOK, ReaderHands
<1>7. CASE ReaderDequeues
  <2>1. xa' \in Msg
    BY <1>1, <1>7, EarliestIsThere DEF ReaderDequeues
  <2>2. wasKnown' \in BOOLEAN
    BY <1>7 DEF ReaderDequeues, Known
  <2>3. QED
    BY <1>1, <1>7, <2>1, <2>2 DEF ReaderDequeues
<1>8. CASE ReaderFlushes
  BY <1>1, <1>3, <1>4, <1>5, <1>6, <1>8 DEF ReaderFlushes
<1>9. CASE ReaderStages
  BY <1>1, <1>9 DEF ReaderStages
<1>10. CASE ReaderCannotStage
  BY <1>1, <1>10 DEF ReaderCannotStage
<1>11. CASE ReaderCommits
  BY <1>1, <1>11 DEF ReaderCommits
<1>12. CASE ReaderCannotCommit
  BY <1>1, <1>12 DEF ReaderCannotCommit
<1>13. CASE ReaderMarksReady
  <2>1. xa \in Msg /\ Len(bundle) < BundleSize
    BY <1>1, <1>13 DEF ReaderMarksReady
  <2>2. bundle' \in Seq(Msg) /\ Len(bundle') = Len(bundle) + 1
    BY <1>3, <1>13, <2>1, Ends DEF ReaderMarksReady
  <2>3. Len(bundle') <= BundleSize /\ (~(Len(bundle') >= BundleSize) => Len(bundle') < BundleSize)
    BY <1>2, <1>3, <2>1, <2>2
  <2>4. QED
    BY <1>1, <1>13, <2>2, <2>3 DEF ReaderMarksReady
<1>14. CASE ReaderCannotMarkReady
  BY <1>1, <1>14 DEF ReaderCannotMarkReady
<1>15. CASE ReaderPuts
  BY <1>1, <1>3, <1>4, <1>5, <1>6, <1>15 DEF ReaderPuts
<1>16. CASE ReaderLeavesLoop
  BY <1>1, <1>16 DEF ReaderLeavesLoop
<1>17. CASE ReaderExits
  BY <1>1, <1>3, <1>4, <1>5, <1>6, <1>17 DEF ReaderExits
<1>18. QED
  BY <1>7, <1>8, <1>9, <1>10, <1>11, <1>12, <1>13, <1>14, <1>15, <1>16, <1>17 DEF Reader

LEMMA ReadStep ==
  ASSUME Shape, Read
  PROVE  Shape'
<1>1. /\ PhaseShape /\ StoreShape /\ ReaderShape /\ PipeShape /\ PublisherShape
      /\ Reader /\ UNCHANGED <<phase, restarts, agentVars>>
  BY ShapeParts DEF Read
<1>2. StoreShape' /\ KnownStays
  BY <1>1, ReaderStore
<1>3. ReaderShape'
  BY <1>1, ReaderShapeStep
<1>4. PipeShape' /\ PublisherShape'
  BY <1>1, <1>2, PipeSame, PublisherSame DEF agentVars, pubVars, workVars
<1>5. running' \in {running, FALSE} /\ reader # "exit"
  BY <1>1 DEF Reader, ReaderDequeues, ReaderFlushes, ReaderStages, ReaderCannotStage,
        ReaderCommits, ReaderCannotCommit, ReaderMarksReady, ReaderCannotMarkReady,
        ReaderPuts, ReaderLeavesLoop, ReaderExits
<1>6. PhaseShape'
  BY <1>1, <1>5 DEF PhaseShape, NoThreadsYet, agentVars
<1>7. QED
  BY <1>2, <1>3, <1>4, <1>6, ShapePartsNext

\* The enumeration of a set of messages.
LEMMA InOrderIs ==
  ASSUME NEW S \in SUBSET Msg
  PROVE  /\ InOrder(S) \in Seq(Msg) /\ Len(InOrder(S)) \in Nat
         /\ S # {} => InOrder(S) # <<>>
         /\ \A i \in 1..Len(InOrder(S)) : InOrder(S)[i] \in S
         /\ NoRepeats(InOrder(S))
         /\ \A x \in S : \E i \in 1..Len(InOrder(S)) : InOrder(S)[i] = x
<1> DEFINE c == Cardinality(S)
           s == InOrder(S)
<1>1. NumMsgs \in Nat /\ S \in SUBSET (1..NumMsgs)
  BY Constants DEF Msg
<1>2. \E t \in [1..c -> S] : \A i, j \in 1..c : i < j => t[i] < t[j]
  BY <1>1, OrderExists DEF Increasing
<1>3. s \in [1..c -> S] /\ Increasing(s, c)
  BY <1>2 DEF InOrder, Increasing
<1>4. /\ s \in Seq(S) /\ Len(s) \in Nat
      /\ \A i \in 1..Len(s) : s[i] \in S
      /\ NoRepeats(s)
      /\ \A x \in S : \E i \in 1..Len(s) : s[i] = x
  BY <1>1, <1>3, OrderIsComplete
<1> HIDE DEF s
<1>5. s \in Seq(Msg)
  BY <1>4
<1>6. S # {} => s # <<>>
  BY <1>4, Ends
<1>7. QED
  BY <1>4, <1>5, <1>6 DEF s

\* The bundles hold each of the messages in one place.
LEMMA BundlesAre ==
  ASSUME NEW S \in SUBSET Msg
  PROVE  /\ Bundles(S) \in Seq(Seq(Msg))
         /\ \A m \in Msg : m \notin S => Spots(Bundles(S), m) = {}
         /\ \A m \in S : \E p : Spots(Bundles(S), m) = {p}
<1> DEFINE s == InOrder(S)
           n == Len(s)
           B == BundleSize
           N == (n + B - 1) \div B
           From(i) == (i - 1) * B
           To(i) == IF i * B < n THEN i * B ELSE n
           bs == [i \in 1..N |-> SubSeq(s, From(i) + 1, To(i))]
<1>1. /\ s \in Seq(Msg) /\ n \in Nat
      /\ \A i \in 1..n : s[i] \in S
      /\ NoRepeats(s)
      /\ \A x \in S : \E i \in 1..n : s[i] = x
  BY InOrderIs
<1>2. B \in Nat \ {0}
  BY Constants
<1>3. Bundles(S) = bs
  BY DEF Bundles
<1> HIDE DEF s, n, B
<1>0. N = (n + B - 1) \div B
  OBVIOUS
<1> HIDE DEF N
<1>a. Grouped(n, B, N)
  <2>1. n \in Nat
    BY <1>1
  <2>2. QED
    BY ONLY <1>0, <1>2, <2>1, Groups
<1>4. /\ N \in Nat
      /\ \A i \in 1..N : From(i) \in Nat /\ From(i) + B = i * B /\ From(i) < n
      /\ \A k \in 1..n : \E i \in 1..N : \E j \in 1..B : k = From(i) + j
  BY ONLY <1>a DEF Grouped
<1>5. ASSUME NEW i \in 1..N
      PROVE  /\ bs[i] \in Seq(Msg)
             /\ Len(bs[i]) = To(i) - From(i) /\ Len(bs[i]) \in Nat
             /\ \A j \in 1..Len(bs[i]) : bs[i][j] = s[From(i) + j] /\ From(i) + j \in 1..n
                                         /\ j \in 1..B
             /\ \A j \in 1..B : From(i) + j \in 1..n => j \in 1..Len(bs[i])
  <2> DEFINE a == From(i)
             e == To(i)
  <2>1. a \in Nat /\ a + B = i * B /\ a < n
    BY <1>4
  <2> HIDE DEF a
  <2>2. e \in Nat /\ e <= n /\ a < e /\ e <= a + B /\ (e = a + B \/ e = n)
    BY <1>1, <1>2, <2>1
  <2> HIDE DEF e
  <2>3. bs[i] = SubSeq(s, a + 1, e)
    BY DEF a, e
  <2>4. a + 1 \in Int /\ e \in Int /\ a + 1 <= e /\ e - (a + 1) + 1 = e - a
    BY <2>1, <2>2
  <2>5. \A k \in (a + 1)..e : s[k] \in Msg
    <3>1. \A k \in (a + 1)..e : k \in 1..n
      BY <1>1, <2>1, <2>2
    <3>2. QED
      BY <1>1, <3>1
  <2>6. /\ SubSeq(s, a + 1, e) \in Seq(Msg)
        /\ Len(SubSeq(s, a + 1, e)) =
              IF a + 1 <= e THEN e - (a + 1) + 1 ELSE 0
        /\ \A j \in 1..(e - (a + 1) + 1) : SubSeq(s, a + 1, e)[j] = s[a + 1 + j - 1]
    BY <2>4, <2>5, SubSeqProperties
  <2>7. e - a \in Nat /\ \A j \in 1..(e - a) : a + j \in 1..n /\ j \in 1..B /\ a + 1 + j - 1 = a + j
    BY <1>1, <2>1, <2>2, <1>2
  <2>8. bs[i] \in Seq(Msg) /\ Len(bs[i]) = e - a
    BY <2>3, <2>4, <2>6
  <2>9. \A j \in 1..(e - a) : bs[i][j] = s[a + j]
    BY <2>3, <2>4, <2>6, <2>7
  <2>10. \A j \in 1..B : a + j \in 1..n => j \in 1..(e - a)
    BY <1>1, <1>2, <2>1, <2>2
  <2>11. QED
    BY <2>7, <2>8, <2>9, <2>10 DEF a, e
<1> HIDE DEF bs
<1>6. bs \in Seq(Seq(Msg)) /\ Len(bs) = N
  BY <1>4, <1>5 DEF bs
<1> HIDE DEF From, To
<1>7. ASSUME NEW x, NEW p \in Spots(bs, x)
      PROVE  \E i \in 1..N : \E j \in 1..B : p = <<i, j>> /\ From(i) + j \in 1..n
                                             /\ s[From(i) + j] = x
  <2>1. PICK i \in 1..N : \E j \in Positions(bs[i], x) : p = <<i, j>>
    BY <1>6, <1>7, SpotsAre
  <2>2. PICK j \in Positions(bs[i], x) : p = <<i, j>>
    BY <2>1
  <2>3. j \in 1..Len(bs[i]) /\ bs[i][j] = x
    BY <2>2 DEF Positions
  <2>4. QED
    BY <1>5, <2>2, <2>3
<1>8. ASSUME NEW i \in 1..N, NEW j \in 1..B, From(i) + j \in 1..n
      PROVE  <<i, j>> \in Spots(bs, s[From(i) + j])
  <2>1. j \in 1..Len(bs[i]) /\ bs[i][j] = s[From(i) + j]
    BY <1>5, <1>8
  <2>2. j \in Positions(bs[i], s[From(i) + j])
    BY <2>1 DEF Positions
  <2>3. QED
    BY <1>6, <2>2, SpotsAre
<1>9. ASSUME NEW m \in Msg, m \notin S PROVE Spots(bs, m) = {}
  BY <1>1, <1>7, <1>9
<1>10. ASSUME NEW m \in S PROVE \E p : Spots(bs, m) = {p}
  <2>1. PICK k \in 1..n : s[k] = m
    BY <1>1
  <2>2. PICK i \in 1..N : \E j \in 1..B : k = From(i) + j
    BY <1>4
  <2>3. PICK j \in 1..B : k = From(i) + j
    BY <2>2
  <2>4. <<i, j>> \in Spots(bs, m)
    BY <1>8, <2>1, <2>3
  <2>5. ASSUME NEW p \in Spots(bs, m) PROVE p = <<i, j>>
    <3>1. PICK g \in 1..N : \E t \in 1..B : p = <<g, t>> /\ From(g) + t \in 1..n
                                            /\ s[From(g) + t] = m
      BY <1>7, <2>5
    <3>2. PICK t \in 1..B : p = <<g, t>> /\ From(g) + t \in 1..n /\ s[From(g) + t] = m
      BY <3>1
    <3>3. From(g) + t = From(i) + j
      <4>1. \A x, y \in 1..n : s[x] = s[y] => x = y
        BY <1>1 DEF NoRepeats, n
      <4>2. QED
        BY <2>1, <2>3, <3>2, <4>1
    <3>4. g - 1 \in Nat /\ i - 1 \in Nat /\ (g - 1) * B + t = (i - 1) * B + j
      BY <1>4, <3>3 DEF From
    <3>5. g - 1 = i - 1 /\ t = j
      BY <1>2, <3>4, GroupsAreApart
    <3>6. g = i
      BY <1>4, <3>5
    <3>7. QED
      BY <3>2, <3>5, <3>6
  <2>6. QED
    BY <2>4, <2>5
<1>11. QED
  BY <1>3, <1>6, <1>9, <1>10

LEMMA StartupShape ==
  ASSUME Shape, Startup
  PROVE  Shape'
<1>1. PhaseShape /\ StoreShape /\ ReaderShape /\ PipeShape /\ PublisherShape
  BY ShapeParts
<1>2. /\ memory \in [Msg -> Entry \cup {Absent}] /\ journal \in [Msg -> Entry \cup {Absent}]
      /\ broken \in BOOLEAN /\ KnownIsInJournal
  BY <1>1 DEF StoreShape
<1>3. phase # "run" => reader = "exit" /\ publisher = "exit" /\ bundle = <<>> /\ pending = <<>>
  BY <1>1 DEF PhaseShape, NoThreadsYet, ReaderShape, ReaderHands, PublisherShape,
        PublisherHands
<1>4. ASSUME phase # "run", UNCHANGED <<reader, publisher>>,
             phase' \in {"discard", "requeue"}, running' \in BOOLEAN, restarts' = restarts
      PROVE  PhaseShape'
  BY <1>1, <1>3, <1>4 DEF PhaseShape, NoThreadsYet
<1>5. CASE Open
  <2>1. StoreShape' /\ KnownStays
    BY <1>2, <1>5
       DEF Open, StoreOpened, StoreShape, KnownIsInJournal, Known, KnownStays
  <2>2. ReaderShape'
    BY <1>1, <1>3, <1>5 DEF Open, ReaderShape, ReaderTypeOK, ReaderHands, readerVars
  <2>3. PhaseShape'
    BY <1>4, <1>5 DEF Open, readerVars, agentVars
  <2>4. PipeShape' /\ PublisherShape'
    BY <1>1, <1>5, <2>1, PipeSame, PublisherSame DEF Open, agentVars, pubVars, workVars
  <2>5. QED
    BY <2>1, <2>2, <2>3, <2>4, ShapePartsNext
<1>6. CASE DiscardUnresolved
  <2> DEFINE m == Earliest(Unresolved)
  <2>1. m \in Msg
    <3>1. Unresolved \in SUBSET Msg /\ Unresolved # {}
      BY <1>6 DEF Unresolved, Recoverable, DiscardUnresolved
    <3>2. QED
      BY <3>1, EarliestIsThere
  <2>2. StoreOk(m, DiscardIt)
    BY <1>6 DEF DiscardUnresolved
  <2> HIDE DEF m
  <2>3. /\ memory' = [memory EXCEPT ![m] = Changed(DiscardIt, memory[m])]
        /\ journal' = [journal EXCEPT ![m] = Changed(DiscardIt, journal[m])]
        /\ broken' = broken
    BY <2>2 DEF StoreOk
  <2>4. Changed(DiscardIt, memory[m]) = Absent /\ Changed(DiscardIt, journal[m]) = Absent
    BY <1>2, <2>1, Changes
  <2>5. StoreShape'
    BY <1>2, <2>1, <2>3, <2>4 DEF StoreShape, KnownIsInJournal, Known
  <2>6. PhaseShape' /\ ReaderShape'
    BY <1>1, <1>6 DEF DiscardUnresolved, PhaseShape, NoThreadsYet, ReaderShape, ReaderTypeOK,
          ReaderHands, readerVars, agentVars
  <2>7. PipeShape'
    BY <1>1, <1>6, PipeSame DEF DiscardUnresolved, agentVars, workVars
  <2>8. PublisherShape'
    <3>1. pending = <<>> /\ UNCHANGED pubVars
      BY <1>3, <1>6 DEF DiscardUnresolved, agentVars, pubVars
    <3>2. \A i \in 1..Len(<<>>) : FALSE
      OBVIOUS
    <3>3. QED
      BY <1>1, <3>1, <3>2 DEF PublisherShape, PublisherHands, pubVars
  <2>9. QED
    BY <2>5, <2>6, <2>7, <2>8, ShapePartsNext
<1>7. CASE CollectRecoverable
  <2>1. StoreShape' /\ KnownStays
    BY <1>1, <1>7, StoreSame DEF CollectRecoverable
  <2>2. PhaseShape'
    BY <1>1, <1>3, <1>7 DEF CollectRecoverable, pubVars, readerVars, PhaseShape, NoThreadsYet
  <2>3. ReaderShape'
    BY <1>1, <1>7 DEF CollectRecoverable, ReaderShape, ReaderTypeOK, ReaderHands, readerVars
  <2>4. Bundles(Recoverable) \in Seq(Seq(Msg))
    BY BundlesAre DEF Recoverable
  <2>5. PipeShape'
    BY <1>1, <1>7, <2>4 DEF CollectRecoverable, PipeShape, TaskHands, workVars
  <2>6. PublisherShape'
    BY <1>1, <1>7, <2>1, PublisherSame DEF CollectRecoverable
  <2>7. QED
    BY <2>1, <2>2, <2>3, <2>5, <2>6, ShapePartsNext
<1>8. CASE Requeue
  <2>1. StoreShape' /\ KnownStays
    BY <1>1, <1>8, StoreSame DEF Requeue
  <2>2. PhaseShape'
    BY <1>1, <1>8 DEF Requeue, pubVars, PhaseShape, NoThreadsYet
  <2>3. /\ recovering \in Seq(Seq(Msg)) /\ recovering # <<>>
        /\ bundleQueue \in Seq(Seq(Msg)) /\ Len(bundleQueue) < QueueCapacity
    BY <1>1, <1>8 DEF Requeue, PipeShape, ReaderShape, ReaderTypeOK
  <2>4. Head(recovering) \in Seq(Msg) /\ Tail(recovering) \in Seq(Seq(Msg))
    BY <2>3, Ends
  <2>5. /\ Append(bundleQueue, Head(recovering)) \in Seq(Seq(Msg))
        /\ Len(Append(bundleQueue, Head(recovering))) = Len(bundleQueue) + 1
        /\ Len(bundleQueue) \in Nat
    BY <2>3, <2>4, Ends
  <2>6. Len(Append(bundleQueue, Head(recovering))) <= QueueCapacity
    BY <2>3, <2>5, Constants
  <2>7. ReaderShape'
    BY <1>1, <1>8, <2>5, <2>6 DEF Requeue, ReaderShape, ReaderTypeOK, ReaderHands
  <2>8. PipeShape'
    BY <1>1, <1>8, <2>4 DEF Requeue, PipeShape, TaskHands, workVars
  <2>9. PublisherShape'
    BY <1>1, <1>8, <2>1, PublisherSame DEF Requeue
  <2>10. QED
    BY <2>1, <2>2, <2>7, <2>8, <2>9, ShapePartsNext
<1>9. CASE StartThreads
  <2>1. StoreShape' /\ KnownStays
    BY <1>1, <1>9, StoreSame DEF StartThreads
  <2>2. PhaseShape'
    BY <1>1, <1>9 DEF StartThreads, PhaseShape, NoThreadsYet
  <2>3. bundle = <<>> /\ Len(<<>>) = 0 /\ 0 < BundleSize
    BY <1>3, <1>9, Constants, EmptySeq DEF StartThreads
  <2>4. ReaderShape'
    BY <1>1, <1>9, <2>3 DEF StartThreads, ReaderShape, ReaderTypeOK, ReaderHands
  <2>5. PipeShape'
    BY <1>1, <1>9 DEF StartThreads, PipeShape, TaskHands, workVars
  <2>6. pending = <<>> /\ Len(<<>>) = 0
    BY <1>3, <1>9, EmptySeq DEF StartThreads
  <2>7. PublisherShape'
    <3>1. PublisherHands'
      <4>1. \A i \in 1..Len(pending') : FALSE
        BY <1>9, <2>6 DEF StartThreads
      <4>2. publisher' = "poll"
        BY <1>9 DEF StartThreads
      <4>3. QED
        BY <4>1, <4>2 DEF PublisherHands
    <3>2. QED
      BY <1>1, <1>9, <3>1 DEF StartThreads, PublisherShape
  <2>8. QED
    BY <2>1, <2>2, <2>4, <2>5, <2>7, ShapePartsNext
<1>10. QED
  BY <1>5, <1>6, <1>7, <1>8, <1>9 DEF Startup

\* Steps of the dispatcher and of a worker that takes a message.
LEMMA PipeStep ==
  ASSUME Shape, PipeShape', UNCHANGED <<phase, running, restarts, storeVars, pubVars>>,
         UNCHANGED <<input, xa, last, reader, wasKnown, bundle>>,
         bundleQueue' = bundleQueue
           \/ (bundleQueue' \in Seq(Seq(Msg)) /\ Len(bundleQueue') <= QueueCapacity)
  PROVE  Shape'
<1>1. PhaseShape /\ StoreShape /\ ReaderShape /\ PipeShape /\ PublisherShape
  BY ShapeParts
<1>2. StoreShape' /\ KnownStays
  BY <1>1, StoreSame
<1>3. PhaseShape'
  BY <1>1 DEF PhaseShape, NoThreadsYet, pubVars
<1>4. ReaderShape'
  BY <1>1 DEF ReaderShape, ReaderTypeOK, ReaderHands
<1>5. PublisherShape'
  BY <1>1, <1>2, PublisherSame
<1>6. QED
  BY <1>2, <1>3, <1>4, <1>5, ShapePartsNext

\* An executor gets a task.
LEMMA TaskGiven ==
  ASSUME PipeShape, NEW x \in Executor, NEW m \in Msg,
         task' = [task EXCEPT ![x] = [at |-> "start", msg |-> m, attempt |-> 0]]
  PROVE  task' \in [Executor -> TaskType] /\ TaskHands'
<1> DEFINE r == [at |-> "start", msg |-> m, attempt |-> 0]
<1>1. 0 \in 0..MaxRetries
  BY Constants
<1>2. r \in TaskType /\ r.at # "idle" /\ r.msg \in Msg
  BY <1>1 DEF TaskType
<1> HIDE DEF r
<1>3. task \in [Executor -> TaskType] /\ TaskHands
  BY DEF PipeShape
<1>4. task' = [task EXCEPT ![x] = r]
  BY DEF r
<1>5. QED
  BY <1>2, <1>3, <1>4 DEF TaskHands

LEMMA DispatchShape ==
  ASSUME Shape, Dispatch \/ (\E w \in Worker : WorkerTakes(w))
  PROVE  Shape'
<1>1. PhaseShape /\ StoreShape /\ ReaderShape /\ PipeShape /\ PublisherShape
  BY ShapeParts
<1>2. /\ dispatching \in Seq(Msg) /\ workQueue \in Seq(Msg)
      /\ bundleQueue \in Seq(Seq(Msg)) /\ Len(bundleQueue) <= QueueCapacity
      /\ Len(workQueue) <= WorkQueueCapacity
      /\ task \in [Executor -> TaskType] /\ TaskHands
  BY <1>1 DEF PipeShape, ReaderShape, ReaderTypeOK
<1>3. CASE DispatcherPolls
  <2>1. /\ Head(bundleQueue) \in Seq(Msg) /\ Tail(bundleQueue) \in Seq(Seq(Msg))
        /\ Len(Tail(bundleQueue)) = Len(bundleQueue) - 1 /\ Len(bundleQueue) \in Nat
    BY <1>2, <1>3, Ends DEF DispatcherPolls
  <2>2. Len(Tail(bundleQueue)) <= QueueCapacity
    BY <1>2, <2>1, Constants
  <2>3. PipeShape'
    BY <1>1, <1>3, <2>1 DEF DispatcherPolls, PipeShape, TaskHands, workVars
  <2>4. QED
    BY <1>3, <2>1, <2>2, <2>3, PipeStep DEF DispatcherPolls
<1>4. CASE DispatcherExecutes
  <2>1. Head(dispatching) \in Msg /\ Tail(dispatching) \in Seq(Msg)
    BY <1>2, <1>4, Ends DEF DispatcherExecutes
  <2>2. CASE Len(workQueue) < WorkQueueCapacity
    <3>1. /\ Append(workQueue, Head(dispatching)) \in Seq(Msg)
          /\ Len(Append(workQueue, Head(dispatching))) = Len(workQueue) + 1
          /\ Len(workQueue) \in Nat
      BY <1>2, <2>1, Ends
    <3>2. Len(workQueue) + 1 <= WorkQueueCapacity
      BY <2>2, <3>1, Constants
    <3>3. PipeShape'
      BY <1>1, <1>4, <2>1, <2>2, <3>1, <3>2 DEF DispatcherExecutes, PipeShape, TaskHands
    <3>4. QED
      BY <1>4, <3>3, PipeStep DEF DispatcherExecutes, readerVars
  <2>3. CASE ~(Len(workQueue) < WorkQueueCapacity)
    <3>1. task' \in [Executor -> TaskType] /\ TaskHands'
      BY <1>1, <1>4, <2>1, <2>3, Constants, TaskGiven DEF DispatcherExecutes
    <3>2. PipeShape'
      BY <1>1, <1>4, <2>1, <2>3, <3>1 DEF DispatcherExecutes, PipeShape
    <3>3. QED
      BY <1>4, <3>2, PipeStep DEF DispatcherExecutes, readerVars
  <2>4. QED
    BY <2>2, <2>3
<1>5. CASE DispatcherDrops
  <2>1. Tail(dispatching) \in Seq(Msg)
    BY <1>2, <1>5, Ends DEF DispatcherDrops
  <2>2. PipeShape'
    BY <1>1, <1>5, <2>1 DEF DispatcherDrops, PipeShape, TaskHands, workVars
  <2>3. QED
    BY <1>5, <2>2, PipeStep DEF DispatcherDrops, readerVars
<1>6. CASE DispatcherExits
  <2>1. PipeShape'
    BY <1>1, <1>6 DEF DispatcherExits, PipeShape, TaskHands, workVars
  <2>2. QED
    BY <1>6, <2>1, PipeStep DEF DispatcherExits, readerVars
<1>7. ASSUME NEW w \in Worker, WorkerTakes(w) PROVE Shape'
  <2>1. /\ Head(workQueue) \in Msg /\ Tail(workQueue) \in Seq(Msg)
        /\ Len(Tail(workQueue)) = Len(workQueue) - 1 /\ Len(workQueue) \in Nat
    BY <1>2, <1>7, Ends DEF WorkerTakes
  <2>2. Len(Tail(workQueue)) <= WorkQueueCapacity
    BY <1>2, <2>1, Constants
  <2>3. w \in Executor
    BY DEF Executor
  <2>4. task' \in [Executor -> TaskType] /\ TaskHands'
    BY <1>1, <1>7, <2>1, <2>3, TaskGiven DEF WorkerTakes
  <2>5. PipeShape'
    BY <1>1, <1>7, <2>1, <2>2, <2>4 DEF WorkerTakes, PipeShape
  <2>6. QED
    BY <1>7, <2>5, PipeStep DEF WorkerTakes, readerVars
<1>8. QED
  BY <1>3, <1>4, <1>5, <1>6, <1>7 DEF Dispatch

\* What an executor does to its own task.
LEMMA TaskGoes ==
  ASSUME PipeShape, NEW x \in Executor, task[x].at # "idle",
         NEW a \in {"attempt", "work", "caught"}, Goes(x, a)
  PROVE  /\ task' \in [Executor -> TaskType] /\ TaskHands'
         /\ task'[x].msg = task[x].msg /\ task'[x].at = a
         /\ \A y \in Executor : y # x => task'[y] = task[y]
<1>1. task \in [Executor -> TaskType] /\ TaskHands
  BY DEF PipeShape
<1> DEFINE r == [task[x] EXCEPT !.at = a]
<1>2. task' = [task EXCEPT ![x] = r]
  BY DEF Goes
<1>3. task[x] \in TaskType
  BY <1>1
<1>4. r \in TaskType /\ r.at = a /\ r.msg = task[x].msg
  BY <1>3 DEF TaskType
<1>5. task[x].msg \in Msg
  BY <1>1 DEF TaskHands, Idle
<1> HIDE DEF r
<1>6. QED
  BY <1>1, <1>2, <1>4, <1>5 DEF TaskHands

LEMMA TaskAgain ==
  ASSUME PipeShape, NEW x \in Executor, task[x].at # "idle", task[x].attempt # MaxRetries,
         task' = [task EXCEPT ![x].at = "attempt", ![x].attempt = @ + 1]
  PROVE  /\ task' \in [Executor -> TaskType] /\ TaskHands'
         /\ task'[x].msg = task[x].msg /\ task'[x].at = "attempt"
         /\ \A y \in Executor : y # x => task'[y] = task[y]
<1>1. task \in [Executor -> TaskType] /\ TaskHands
  BY DEF PipeShape
<1>3. task[x] \in TaskType
  BY <1>1
<1> DEFINE t == task[x]
           n == t.attempt + 1
           r == [at |-> "attempt", msg |-> t.msg, attempt |-> n]
<1>4. t.attempt \in 0..MaxRetries /\ t.msg \in Msg \cup {NoMsg}
  BY <1>3 DEF TaskType
<1>5. n \in 0..MaxRetries
  BY <1>4, Constants
<1>6. r \in TaskType /\ r.at = "attempt" /\ r.msg = t.msg
  BY <1>4, <1>5 DEF TaskType
<1>7. task[x].msg \in Msg
  BY <1>1 DEF TaskHands, Idle
<1>8. task' = [task EXCEPT ![x] = r]
  <2> DEFINE u == [at |-> "attempt", msg |-> t.msg, attempt |-> t.attempt]
  <2>1. [t EXCEPT !.at = "attempt"] = u
    BY <1>3 DEF TaskType
  <2>2. [u EXCEPT !.attempt = n] = r
    OBVIOUS
  <2>3. task' = [[task EXCEPT ![x].at = "attempt"] EXCEPT ![x].attempt = @ + 1]
    OBVIOUS
  <2>4. [task EXCEPT ![x].at = "attempt"] = [task EXCEPT ![x] = u]
    BY <1>1, <2>1
  <2> DEFINE v == [task EXCEPT ![x] = u]
  <2>5. v[x] = u /\ u.attempt + 1 = n
    BY <1>1
  <2>6. [v EXCEPT ![x].attempt = @ + 1] = [v EXCEPT ![x] = r]
    BY <2>2, <2>5
  <2>7. [v EXCEPT ![x] = r] = [task EXCEPT ![x] = r]
    BY <1>1
  <2>8. QED
    BY <2>3, <2>4, <2>6, <2>7
<1> HIDE DEF r
<1>9. QED
  BY <1>1, <1>6, <1>7, <1>8 DEF TaskHands

LEMMA TaskFinishes ==
  ASSUME PipeShape, NEW x \in Executor, Finishes(x)
  PROVE  /\ task' \in [Executor -> TaskType] /\ TaskHands'
         /\ task'[x] = Idle
         /\ \A y \in Executor : y # x => task'[y] = task[y]
<1>1. Idle \in TaskType
  BY Constants DEF Idle, TaskType
<1>2. task \in [Executor -> TaskType] /\ TaskHands
  BY DEF PipeShape
<1> HIDE DEF Idle
<1>3. QED
  BY <1>1, <1>2 DEF Finishes, TaskHands

\* What a step of an executor does: to its task, and to the entry of its
\* message.
LEMMA TaskEffect ==
  ASSUME Shape, NEW x \in Executor, Task(x)
  PROVE  /\ task' \in [Executor -> TaskType] /\ TaskHands'
         /\ task[x].at # "idle" /\ task[x].msg \in Msg
         /\ task'[x] = Idle \/ (task'[x].msg = task[x].msg /\ task'[x].at # "start")
         /\ \A y \in Executor : y # x => task'[y] = task[y]
         /\ \/ UNCHANGED storeVars
            \/ /\ task[x].at \in {"attempt", "work", "caught"}
               /\ \E c \in {SetState("PROCESSING"), SetRetry, SetResultPending("work"),
                            SetResultPending("error")} :
                     StoreOk(task[x].msg, c) \/ StoreThrows(task[x].msg, c)
         /\ OnlyTask /\ running' \in {running, FALSE}
<1>1. PipeShape
  BY ShapeParts
<1>2. task[x].at # "idle"
  BY DEF Task, TaskStarts, TaskMarksProcessing, TaskSucceeds, TaskFails, TaskRetries
<1>3. task[x].msg \in Msg
  BY <1>1, <1>2 DEF PipeShape, TaskHands, Idle
<1> DEFINE Moved == /\ task' \in [Executor -> TaskType] /\ TaskHands'
                    /\ task'[x] = Idle \/ (task'[x].msg = task[x].msg /\ task'[x].at # "start")
                    /\ \A y \in Executor : y # x => task'[y] = task[y]
<1>4. ASSUME Finishes(x) PROVE Moved
  BY <1>1, <1>4, TaskFinishes
<1>5. ASSUME NEW a \in {"attempt", "work", "caught"}, Goes(x, a) PROVE Moved
  BY <1>1, <1>2, <1>5, TaskGoes
<1>6. ASSUME task[x].attempt # MaxRetries,
             task' = [task EXCEPT ![x].at = "attempt", ![x].attempt = @ + 1]
      PROVE  Moved
  BY <1>1, <1>2, <1>6, TaskAgain
<1> HIDE DEF Moved
<1>7. Moved
  <2>1. \/ Finishes(x)
        \/ \E a \in {"attempt", "work", "caught"} : Goes(x, a)
        \/ /\ task[x].attempt # MaxRetries
           /\ task' = [task EXCEPT ![x].at = "attempt", ![x].attempt = @ + 1]
    BY DEF Task, TaskStarts, TaskMarksProcessing, TaskSucceeds, TaskFails, TaskRetries
  <2>2. QED
    BY <1>4, <1>5, <1>6, <2>1
<1>8. \/ UNCHANGED storeVars
      \/ /\ task[x].at \in {"attempt", "work", "caught"}
         /\ \E c \in {SetState("PROCESSING"), SetRetry, SetResultPending("work"),
                      SetResultPending("error")} :
               StoreOk(task[x].msg, c) \/ StoreThrows(task[x].msg, c)
  BY DEF Task, TaskStarts, TaskMarksProcessing, TaskSucceeds, TaskFails, TaskRetries
<1>9. OnlyTask /\ running' \in {running, FALSE}
  BY DEF Task, TaskStarts, TaskMarksProcessing, TaskSucceeds, TaskFails, TaskRetries
<1>10. QED
  BY <1>2, <1>3, <1>7, <1>8, <1>9 DEF Moved

LEMMA TaskShape ==
  ASSUME Shape, NEW x \in Executor, Task(x)
  PROVE  Shape'
<1>1. PhaseShape /\ StoreShape /\ ReaderShape /\ PipeShape /\ PublisherShape
  BY ShapeParts
<1>2. StoreShape' /\ KnownStays
  <2>1. CASE UNCHANGED storeVars
    BY <1>1, <2>1, StoreSame
  <2>2. ASSUME NEW c \in {SetState("PROCESSING"), SetRetry, SetResultPending("work"),
                          SetResultPending("error")},
               StoreOk(task[x].msg, c) \/ StoreThrows(task[x].msg, c)
        PROVE  StoreShape' /\ KnownStays
    <3> DEFINE m == task[x].msg
    <3>1. m \in Msg
      BY TaskEffect
    <3>2. memory[m] \in Entry \cup {Absent} /\ journal[m] \in Entry \cup {Absent}
      BY <1>1, <3>1 DEF StoreShape
    <3>3. "PROCESSING" \in State /\ "work" \in Envelope /\ "error" \in Envelope
      BY DEF State, Envelope
    <3> HIDE DEF m
    <3>4. Changed(c, memory[m]) \in Entry /\ Changed(c, journal[m]) \in Entry
      BY <2>2, <3>2, <3>3, ChangesType
    <3>5. StoreOk(m, c) \/ StoreThrows(m, c)
      BY <2>2 DEF m
    <3>6. QED
      BY <1>1, <3>1, <3>4, <3>5, StoreStep DEF KnownStays
  <2>3. QED
    BY <2>1, <2>2, TaskEffect
<1>3. OnlyTask /\ running' \in {running, FALSE}
  BY TaskEffect
<1>4. PhaseShape'
  BY <1>1, <1>3 DEF PhaseShape, NoThreadsYet, OnlyTask, readerVars, pubVars
<1>5. ReaderShape'
  <2>1. ReaderTypeOK'
    BY <1>1, <1>3 DEF ReaderShape, ReaderTypeOK, OnlyTask, readerVars
  <2>2. reader = "leave" => ~running'
    BY <1>1, <1>3 DEF ReaderShape, ReaderHands
  <2>3. ReaderHands'
    BY <1>1, <1>3, <2>2 DEF ReaderShape, ReaderHands, OnlyTask, readerVars
  <2>4. QED
    BY <2>1, <2>3 DEF ReaderShape
<1>6. PipeShape'
  BY <1>1, <1>3, TaskEffect DEF PipeShape, OnlyTask
<1>7. PublisherShape'
  BY <1>1, <1>2, <1>3, PublisherSame DEF OnlyTask
<1>8. QED
  BY <1>2, <1>4, <1>5, <1>6, <1>7, ShapePartsNext

\* The publisher is at a message of its list, which the store knows.
LEMMA CurrentIs ==
  ASSUME Shape, publisher \in {"enqueue", "checkpoint", "finish"}
  PROVE  /\ pending # <<>> /\ Current \in Msg /\ Current = pending[1] /\ 1 \in 1..Len(pending)
         /\ Known(Current) /\ memory[Current] \in Entry /\ journal[Current] \in Entry
<1>1. PublisherShape /\ StoreShape
  BY ShapeParts
<1>2. pending \in Seq(Msg) /\ pending # <<>>
  BY <1>1 DEF PublisherShape, PublisherHands
<1>3. Current \in Msg /\ Current = pending[1] /\ Len(pending) >= 1 /\ Len(pending) \in Nat
  BY <1>2, Ends, HeadTailProperties DEF Current
<1>4. 1 \in 1..Len(pending)
  BY <1>3
<1>5. Known(Current)
  BY <1>1, <1>3, <1>4 DEF PublisherShape, PublisherHands
<1>6. journal[Current] # Absent
  BY <1>1, <1>3, <1>5 DEF StoreShape, KnownIsInJournal
<1>7. QED
  BY <1>1, <1>2, <1>3, <1>4, <1>5, <1>6 DEF StoreShape, Known

\* What the publisher does to the entry of the current message.
LEMMA PublisherStore ==
  ASSUME Shape, Publisher
  PROVE  /\ StoreShape' /\ KnownStays
         /\ \/ UNCHANGED storeVars
            \/ /\ publisher \in {"checkpoint", "finish"}
               /\ \E c \in {SetPublishedCount(index + 1), SetState("DONE")} :
                     StoreOk(Current, c) \/ StoreThrows(Current, c)
<1>1. StoreShape /\ PublisherShape
  BY ShapeParts
<1>2. \/ UNCHANGED storeVars
      \/ /\ publisher = "checkpoint"
         /\ \/ StoreOk(Current, SetPublishedCount(index + 1))
            \/ StoreThrows(Current, SetPublishedCount(index + 1))
      \/ /\ publisher = "finish"
         /\ StoreOk(Current, SetState("DONE")) \/ StoreThrows(Current, SetState("DONE"))
  BY DEF Publisher, PublisherPolls, PublisherEnqueues, PublisherCheckpoints,
         PublisherFinishes, PublisherCatches, PublisherExits
<1>3. index + 1 \in Nat /\ "DONE" \in State
  BY <1>1 DEF PublisherShape, State
<1>4. ASSUME publisher \in {"checkpoint", "finish"},
             NEW c \in {SetPublishedCount(index + 1), SetState("DONE")},
             StoreOk(Current, c) \/ StoreThrows(Current, c)
      PROVE  StoreShape' /\ KnownStays
  <2> DEFINE m == Current
  <2>1. m \in Msg /\ memory[m] \in Entry /\ journal[m] \in Entry
    BY <1>4, CurrentIs
  <2>2. memory[m] # Absent /\ journal[m] # Absent
    BY <2>1, EntryFields
  <2> HIDE DEF m
  <2>3. Changed(c, memory[m]) \in Entry /\ Changed(c, journal[m]) \in Entry
    BY <1>3, <1>4, <2>1, <2>2, ChangesType
  <2>4. StoreOk(m, c) \/ StoreThrows(m, c)
    BY <1>4 DEF m
  <2>5. QED
    BY <1>1, <2>1, <2>3, <2>4, StoreStep DEF KnownStays
<1>5. UNCHANGED storeVars => StoreShape' /\ KnownStays
  BY <1>1, StoreSame
<1>6. QED
  BY <1>2, <1>4, <1>5

\* A list of pending results is one of known messages.
LEMMA PendingIsKnown ==
  ASSUME StoreShape
  PROVE  /\ InOrder(PendingResults) \in Seq(Msg)
         /\ \A i \in 1..Len(InOrder(PendingResults)) :
               /\ InOrder(PendingResults)[i] \in PendingResults
               /\ Known(InOrder(PendingResults)[i])
<1>1. PendingResults \in SUBSET Msg
  BY DEF PendingResults
<1>2. \A m \in PendingResults : Known(m)
  BY EntryFields DEF PendingResults, Known
<1>3. QED
  BY <1>1, <1>2, InOrderIs

LEMMA PublisherShapeStep ==
  ASSUME Shape, Publisher
  PROVE  PublisherShape'
<1>1. StoreShape /\ PublisherShape /\ KnownStays
  BY ShapeParts, PublisherStore
<1>2. /\ pending \in Seq(Msg) /\ index \in Nat
      /\ published \in [Msg -> Seq([env : Envelope \cup {"none"}, item : Nat])]
      /\ \A i \in 1..Len(pending) : Known(pending[i])
      /\ \A i \in 1..Len(pending) : pending[i] \in Msg
      /\ publisher \in {"enqueue", "checkpoint", "finish"} => pending # <<>>
      /\ publisher = "exit" => pending = <<>>
  BY <1>1, ElementOfSeq DEF PublisherShape, PublisherHands
<1>3. \A m \in Msg : Known(m) => memory[m].publishedCount \in Nat
  BY <1>1, EntryFields DEF StoreShape, Known
<1>4. \A i \in 1..Len(pending) : Known(pending[i])'
        \/ pending' # pending
  BY <1>1, <1>2 DEF KnownStays, Known
<1>5. pending' = <<>> => (\A i \in 1..Len(pending) : Known(pending[i]))'
  OBVIOUS
<1>6. CASE PublisherPolls
  <2> DEFINE list == InOrder(PendingResults)
  <2>1. /\ list \in Seq(Msg) /\ \A i \in 1..Len(list) : Known(list[i])
        /\ \A i \in 1..Len(list) : list[i] \in Msg
    BY <1>1, PendingIsKnown, ElementOfSeq
  <2>2. list # <<>>
    BY <1>6, InOrderIs DEF PublisherPolls, PendingResults
  <2>3. Head(list) \in Msg /\ Head(list) = list[1] /\ 1 \in 1..Len(list)
    <3>1. Head(list) \in Msg /\ Head(list) = list[1] /\ Len(list) >= 1 /\ Len(list) \in Nat
      BY <2>1, <2>2, Ends, HeadTailProperties
    <3>2. QED
      BY <3>1
  <2> HIDE DEF list
  <2>4. /\ pending' = list /\ UNCHANGED <<published, storeVars>>
        /\ publisher' \in {"enqueue", "finish"}
        /\ index' = memory[Head(list)].publishedCount
    BY <1>6, <2>2 DEF PublisherPolls, Selects, FirstStep, list
  <2>5. index' \in Nat
    BY <1>3, <2>1, <2>3, <2>4
  <2>6. PublisherHands'
    BY <1>1, <2>1, <2>2, <2>4 DEF PublisherHands, KnownStays, Known
  <2>7. QED
    BY <1>2, <2>1, <2>4, <2>5, <2>6 DEF PublisherShape
<1>7. CASE PublisherEnqueues
  <2>1. Current \in Msg /\ memory[Current] \in Entry
    BY <1>7, CurrentIs DEF PublisherEnqueues
  <2> DEFINE e == [env |-> memory[Current].result, item |-> index + 1]
             P == [env : Envelope \cup {"none"}, item : Nat]
  <2>2. e \in P
    BY <1>2, <2>1, EntryFields
  <2>3. published' = [published EXCEPT ![Current] = Append(published[Current], e)]
    BY <1>7 DEF PublisherEnqueues
  <2> HIDE DEF e, P
  <2>4. Append(published[Current], e) \in Seq(P)
    BY <1>2, <2>1, <2>2, Ends DEF P
  <2>5. published' \in [Msg -> Seq(P)]
    BY <1>2, <2>1, <2>3, <2>4 DEF P
  <2>6. /\ UNCHANGED <<pending, index, storeVars>> /\ publisher = "enqueue"
        /\ publisher' = "checkpoint"
    BY <1>7 DEF PublisherEnqueues
  <2>7. PublisherHands'
    BY <1>2, <1>4, <2>6 DEF PublisherHands
  <2>8. QED
    BY <1>2, <2>5, <2>6, <2>7 DEF PublisherShape, P
<1>8. CASE PublisherCheckpoints
  <2>1. /\ publisher = "checkpoint" /\ index' = index + 1 /\ UNCHANGED <<pending, published>>
        /\ publisher' \in {"enqueue", "finish"}
    BY <1>8 DEF PublisherCheckpoints
  <2>2. PublisherHands'
    BY <1>2, <1>4, <2>1 DEF PublisherHands
  <2>3. index' \in Nat
    BY <1>2, <2>1
  <2>4. QED
    BY <1>2, <2>1, <2>2, <2>3 DEF PublisherShape
<1>9. CASE PublisherFinishes
  <2> DEFINE t == Tail(pending)
  <2>1. /\ pending' = t /\ UNCHANGED published
        /\ publisher' \in {"poll", "enqueue", "finish"} /\ (t = <<>> => publisher' = "poll")
        /\ index' = IF t = <<>> THEN 0 ELSE memory[Head(t)].publishedCount
    BY <1>9 DEF PublisherFinishes, FirstStep
  <2>2. pending # <<>>
    BY <1>2, <1>9 DEF PublisherFinishes
  <2>3. /\ t \in Seq(Msg) /\ Len(t) = Len(pending) - 1 /\ Len(pending) \in Nat
        /\ \A i \in 1..(Len(pending) - 1) : t[i] = pending[i + 1]
    BY <1>2, <2>2, HeadTailProperties
  <2>4. \A i \in 1..Len(t) : Known(t[i]) /\ t[i] \in Msg
    <3>1. \A i \in 1..Len(t) : i + 1 \in 1..Len(pending) /\ t[i] = pending[i + 1]
      BY <2>3
    <3>2. QED
      BY <1>2, <3>1
  <2>5. t # <<>> => Head(t) \in Msg /\ Known(Head(t))
    <3>1. t # <<>> => Head(t) = t[1] /\ Len(t) >= 1 /\ Len(t) \in Nat
      BY <2>3, Ends, HeadTailProperties
    <3>2. t # <<>> => 1 \in 1..Len(t)
      BY <3>1
    <3>3. QED
      BY <2>4, <3>1, <3>2
  <2> HIDE DEF t
  <2>6. index' \in Nat
    BY <1>3, <2>1, <2>5
  <2>7. \A i \in 1..Len(t) : memory'[t[i]] # Absent
    BY <1>1, <2>4 DEF KnownStays, Known
  <2>8. PublisherHands'
    BY <2>1, <2>7 DEF PublisherHands, Known
  <2>9. QED
    BY <1>2, <2>1, <2>3, <2>6, <2>8 DEF PublisherShape
<1>10. CASE PublisherCatches \/ PublisherExits
  <2>1. pending' = <<>> /\ index' = 0 /\ publisher' \in {"poll", "exit"} /\ UNCHANGED published
    BY <1>10 DEF PublisherCatches, PublisherExits
  <2>2. PublisherHands'
    BY <2>1 DEF PublisherHands
  <2>3. QED
    BY <1>2, <2>1, <2>2, Ends DEF PublisherShape
<1>11. QED
  BY <1>6, <1>7, <1>8, <1>9, <1>10 DEF Publisher

LEMMA PublisherStep ==
  ASSUME Shape, Publisher
  PROVE  Shape'
<1>1. PhaseShape /\ StoreShape /\ ReaderShape /\ PipeShape /\ PublisherShape
  BY ShapeParts
<1>2. StoreShape' /\ PublisherShape'
  BY PublisherStore, PublisherShapeStep
<1>3. OnlyPublisher /\ publisher # "exit"
  BY DEF Publisher, PublisherPolls, PublisherEnqueues, PublisherCheckpoints,
         PublisherFinishes, PublisherCatches, PublisherExits
<1>4. PhaseShape'
  BY <1>1, <1>3 DEF OnlyPublisher, PhaseShape, NoThreadsYet, readerVars
<1>5. ReaderShape'
  BY <1>1, <1>3 DEF OnlyPublisher, ReaderShape, ReaderTypeOK, ReaderHands, readerVars
<1>6. PipeShape'
  BY <1>1, <1>3, PipeSame DEF OnlyPublisher
<1>7. QED
  BY <1>2, <1>4, <1>5, <1>6, ShapePartsNext

LEMMA EndShape ==
  ASSUME Shape, Stop \/ Killed \/ Exits
  PROVE  Shape'
<1>1. PhaseShape /\ StoreShape /\ ReaderShape /\ PipeShape /\ PublisherShape
  BY ShapeParts
<1>2. CASE Stop
  <2>1. StoreShape' /\ KnownStays
    BY <1>1, <1>2, StoreSame DEF Stop
  <2>2. /\ running' = FALSE
        /\ UNCHANGED <<phase, restarts, storeVars, readerVars, agentVars>>
    BY <1>2 DEF Stop
  <2>3. PhaseShape' /\ ReaderShape'
    BY <1>1, <2>2 DEF PhaseShape, NoThreadsYet, ReaderShape, ReaderTypeOK, ReaderHands,
          readerVars, agentVars
  <2>4. PipeShape' /\ PublisherShape'
    BY <1>1, <2>1, <2>2, PipeSame, PublisherSame DEF agentVars, pubVars, workVars
  <2>5. QED
    BY <2>1, <2>3, <2>4, ShapePartsNext
<1>3. CASE ProcessGone
  <2>1. /\ phase' = "down" /\ running' = FALSE /\ restarts' = restarts + 1
        /\ reader' = "exit" /\ publisher' = "exit" /\ dispatcher' = "exit"
        /\ recovering' = <<>> /\ dispatching' = <<>> /\ workQueue' = <<>>
        /\ task' = [x \in Executor |-> Idle]
        /\ pending' = <<>> /\ index' = 0 /\ published' = published
        /\ xa' = NoMsg /\ last' = last /\ wasKnown' = FALSE /\ bundle' = <<>>
        /\ bundleQueue' = <<>>
        /\ memory' = [m \in Msg |-> Absent] /\ broken' = FALSE /\ journal' = journal
    BY <1>3 DEF ProcessGone, ReaderLost, StoreLost
  <2>2. input' \in SUBSET Msg
    <3>1. PICK back \in {{}, {last}} :
             input' = input \cup ((back \cup (IF reader \in {"stage", "commit"}
                                              THEN {xa} ELSE {})) \ {NoMsg})
      BY <1>3 DEF ProcessGone, ReaderLost
    <3>2. input \in SUBSET Msg /\ last \in Msg \cup {NoMsg} /\ xa \in Msg \cup {NoMsg}
      BY <1>1 DEF ReaderShape, ReaderTypeOK
    <3>3. QED
      BY <3>1, <3>2
  <2>3. restarts' \in Nat
    BY <1>1, <2>1 DEF PhaseShape
  <2>4. PhaseShape'
    BY <2>1, <2>3 DEF PhaseShape, NoThreadsYet
  <2>5. StoreShape'
    BY <1>1, <2>1 DEF StoreShape, KnownIsInJournal, Known
  <2>6. ReaderShape'
    <3>1. 0 <= BundleSize /\ 0 <= QueueCapacity /\ Len(<<>>) = 0
      BY Constants, EmptySeq
    <3>2. <<>> \in Seq(Msg) /\ <<>> \in Seq(Seq(Msg)) /\ last \in Msg \cup {NoMsg}
      BY <1>1 DEF ReaderShape, ReaderTypeOK
    <3>3. ReaderTypeOK'
      BY <2>1, <2>2, <3>1, <3>2 DEF ReaderTypeOK
    <3>4. ReaderHands'
      BY <2>1 DEF ReaderHands
    <3>5. QED
      BY <3>3, <3>4 DEF ReaderShape
  <2>7. PipeShape'
    <3>1. 0 \in 0..MaxRetries
      BY Constants
    <3>2. Idle \in TaskType
      BY <3>1 DEF Idle, TaskType
    <3>3. Len(<<>>) = 0 /\ 0 <= WorkQueueCapacity
      BY Constants, EmptySeq
    <3>4. TaskHands'
      BY <2>1 DEF TaskHands
    <3>5. QED
      BY <2>1, <3>2, <3>3, <3>4 DEF PipeShape
  <2>8. PublisherShape'
    <3>1. \A i \in 1..Len(<<>>) : FALSE
      OBVIOUS
    <3>2. PublisherHands'
      BY <2>1, <3>1 DEF PublisherHands
    <3>3. <<>> \in Seq(Msg) /\ 0 \in Nat
      OBVIOUS
    <3>4. published' \in [Msg -> Seq([env : Envelope \cup {"none"}, item : Nat])]
      BY <1>1, <2>1 DEF PublisherShape
    <3>5. QED
      BY <2>1, <3>2, <3>3, <3>4 DEF PublisherShape
  <2>9. QED
    BY <2>4, <2>5, <2>6, <2>7, <2>8, ShapePartsNext
<1>4. QED
  BY <1>2, <1>3 DEF Killed, Exits

LEMMA ShapeInit == Init => Shape
<1> SUFFICES ASSUME Init PROVE Shape
  OBVIOUS
<1>1. PhaseShape
  BY DEF Init, PhaseShape, NoThreadsYet, ReaderInit
<1>2. StoreShape
  BY DEF Init, StoreShape, KnownIsInJournal, Known
<1>3. ReaderShape
  <2>1. 0 <= BundleSize /\ 0 <= QueueCapacity /\ Len(<<>>) = 0
    BY Constants, EmptySeq
  <2>2. <<>> \in Seq(Msg) /\ <<>> \in Seq(Seq(Msg))
    OBVIOUS
  <2>3. ReaderTypeOK
    BY <2>1, <2>2 DEF Init, ReaderInit, ReaderTypeOK
  <2>4. ReaderHands
    BY DEF Init, ReaderInit, ReaderHands
  <2>5. QED
    BY <2>3, <2>4 DEF ReaderShape
<1>4. PipeShape
  <2>1. 0 \in 0..MaxRetries
    BY Constants
  <2>2. Idle \in TaskType
    BY <2>1 DEF Idle, TaskType
  <2>3. Len(<<>>) = 0 /\ 0 <= WorkQueueCapacity
    BY Constants, EmptySeq
  <2>4. QED
    BY <2>2, <2>3 DEF Init, PipeShape, TaskHands
<1>5. PublisherShape
  <2>1. \A i \in 1..Len(<<>>) : FALSE
    OBVIOUS
  <2>2. QED
    BY <2>1 DEF Init, PublisherShape, PublisherHands
<1>6. QED
  BY <1>1, <1>2, <1>3, <1>4, <1>5, ShapeParts

LEMMA ShapeStep == Shape /\ [Next]_vars => Shape'
<1> SUFFICES ASSUME Shape, [Next]_vars PROVE Shape'
  OBVIOUS
<1>1. CASE UNCHANGED vars
  <2>1. PhaseShape /\ StoreShape /\ ReaderShape /\ PipeShape /\ PublisherShape
    BY ShapeParts
  <2>2. StoreShape' /\ KnownStays
    BY <1>1, <2>1, StoreSame DEF vars
  <2>3. PhaseShape' /\ ReaderShape'
    BY <1>1, <2>1 DEF vars, readerVars, agentVars, PhaseShape, NoThreadsYet, ReaderShape,
          ReaderTypeOK, ReaderHands
  <2>4. PipeShape' /\ PublisherShape'
    BY <1>1, <2>1, <2>2, PipeSame, PublisherSame DEF vars, agentVars, pubVars, workVars
  <2>5. QED
    BY <2>2, <2>3, <2>4, ShapePartsNext
<1>2. QED
  BY <1>1, StartupShape, ReadStep, DispatchShape, TaskShape, PublisherStep, EndShape DEF Next

\* All variables of the agent keep their types; the reader, the executors and
\* the publisher hold a message exactly when their place in the code says so.
THEOREM TypeCorrect == Spec => []TypeOK
<1>1. Spec => []Shape
  BY ShapeInit, ShapeStep, PTL DEF Spec
<1>2. Shape => TypeOK
  BY DEF Shape
<1>3. QED
  BY <1>1, <1>2, PTL

-----------------------------------------------------------------------------
(* Where the messages are *)

One(m, e) == IF m = e THEN 1 ELSE 0

LEMMA OneIs ==
  ASSUME NEW m, NEW e
  PROVE  One(m, e) \in {0, 1} /\ (m = e => One(m, e) = 1) /\ (m # e => One(m, e) = 0)
BY DEF One

LEMMA InFacts ==
  ASSUME NEW s \in Seq(Msg), NEW m
  PROVE  /\ In(s, m) \in Nat /\ In(<<>>, m) = 0
         /\ \A e \in Msg : In(Append(s, e), m) = In(s, m) + One(m, e)
         /\ s # <<>> => In(s, m) = In(Tail(s), m) + One(m, Head(s))
<1>1. In(s, m) \in Nat /\ In(<<>>, m) = 0
  BY PositionsAreFinite, PositionsEmpty DEF In
<1>2. ASSUME NEW e \in Msg PROVE In(Append(s, e), m) = In(s, m) + One(m, e)
  <2>1. In(Append(s, e), m) = IF m = e THEN In(s, m) + 1 ELSE In(s, m)
    BY PositionsAppend DEF In
  <2>2. QED
    BY <1>1, <2>1 DEF One
<1>3. ASSUME s # <<>> PROVE In(s, m) = In(Tail(s), m) + One(m, Head(s))
  BY <1>3, PositionsTail DEF In, One
<1>4. QED
  BY <1>1, <1>2, <1>3

LEMMA InAllFacts ==
  ASSUME NEW ss \in Seq(Seq(Msg)), NEW m
  PROVE  /\ InAll(ss, m) \in Nat /\ InAll(<<>>, m) = 0
         /\ \A s \in Seq(Msg) : InAll(Append(ss, s), m) = InAll(ss, m) + In(s, m)
         /\ ss # <<>> => InAll(ss, m) = In(Head(ss), m) + InAll(Tail(ss), m)
BY SpotsAreFinite, SpotsEmpty, SpotsAppend, SpotsTail DEF In, InAll

LEMMA HandsFacts ==
  ASSUME task \in [Executor -> TaskType], NEW m
  PROVE  IsFiniteSet(Holders(m)) /\ Hands(m) \in Nat
<1>1. IsFiniteSet(Holders(m))
  BY Constants, FS_Subset DEF Holders
<1>2. QED
  BY <1>1, FS_CardinalityType DEF Hands

\* Only the task of x changes.
LEMMA HandsChange ==
  ASSUME task \in [Executor -> TaskType], task' \in [Executor -> TaskType],
         NEW x \in Executor, \A y \in Executor : y # x => task'[y] = task[y],
         NEW m
  PROVE  /\ Hands(m) \in Nat /\ Hands(m)' \in Nat
         /\ Hands(m)' + One(m, task[x].msg) = Hands(m) + One(m, task'[x].msg)
<1> DEFINE H == Holders(m)
           G == {y \in Executor : task'[y].msg = m}
<1>1. Holders(m)' = G
  BY DEF Holders
<1>2. IsFiniteSet(H)
  BY HandsFacts
<1>3. H \ {x} = G \ {x}
  BY DEF Holders
<1>4. (x \in H <=> m = task[x].msg) /\ (x \in G <=> m = task'[x].msg)
  BY DEF Holders
<1> HIDE DEF H, G
<1>5. /\ Cardinality(G) \in Nat /\ Cardinality(H) \in Nat
      /\ x \in H /\ x \notin G => Cardinality(H) = Cardinality(G) + 1
      /\ x \notin H /\ x \in G => Cardinality(G) = Cardinality(H) + 1
      /\ (x \in H <=> x \in G) => Cardinality(G) = Cardinality(H)
  BY <1>2, <1>3, SizeButOne
<1>6. Hands(m) = Cardinality(H) /\ Hands(m)' = Cardinality(G)
  BY <1>1 DEF Hands, H
<1>7. CASE m = task[x].msg /\ m = task'[x].msg
  BY <1>4, <1>5, <1>6, <1>7, OneIs
<1>8. CASE m = task[x].msg /\ m # task'[x].msg
  BY <1>4, <1>5, <1>6, <1>8, OneIs
<1>9. CASE m # task[x].msg /\ m = task'[x].msg
  BY <1>4, <1>5, <1>6, <1>9, OneIs
<1>10. CASE m # task[x].msg /\ m # task'[x].msg
  BY <1>4, <1>5, <1>6, <1>10, OneIs
<1>11. QED
  BY <1>7, <1>8, <1>9, <1>10

LEMMA HeldParts ==
  ASSUME Shape, NEW m
  PROVE  /\ In(bundle, m) \in Nat /\ InAll(bundleQueue, m) \in Nat
         /\ InAll(recovering, m) \in Nat /\ In(dispatching, m) \in Nat
         /\ In(workQueue, m) \in Nat /\ Hands(m) \in Nat
         /\ Held(m) \in Nat
<1>1. /\ bundle \in Seq(Msg) /\ bundleQueue \in Seq(Seq(Msg)) /\ recovering \in Seq(Seq(Msg))
      /\ dispatching \in Seq(Msg) /\ workQueue \in Seq(Msg) /\ task \in [Executor -> TaskType]
  BY ShapeParts DEF ReaderShape, ReaderTypeOK, PipeShape
<1>2. /\ In(bundle, m) \in Nat /\ InAll(bundleQueue, m) \in Nat
      /\ InAll(recovering, m) \in Nat /\ In(dispatching, m) \in Nat
      /\ In(workQueue, m) \in Nat /\ Hands(m) \in Nat
  BY <1>1, InFacts, InAllFacts, HandsFacts
<1>3. QED
  BY <1>2 DEF Held

\* The counts are numbers.
HeldIsNumber ==
    \A m \in Msg :
        /\ In(bundle, m) \in Nat /\ InAll(bundleQueue, m) \in Nat
        /\ InAll(recovering, m) \in Nat /\ In(dispatching, m) \in Nat
        /\ In(workQueue, m) \in Nat /\ Hands(m) \in Nat
        /\ Held(m) \in Nat

LEMMA HeldNumbers == Shape => HeldIsNumber
BY HeldParts DEF HeldIsNumber

LEMMA HeldNumbersNext == Shape' => HeldIsNumber'
BY HeldNumbers, PTL

LEMMA HeldSame ==
  ASSUME NEW m, UNCHANGED <<bundle, bundleQueue, recovering, dispatching, workVars>>
  PROVE  Held(m)' = Held(m)
BY DEF Held, Hands, Holders, workVars

\* What the reader does: it holds one message more when it marks it READY,
\* and a bundle moves to the queue or, when the thread ends, may be dropped.
LEMMA ReaderMoves ==
  ASSUME Shape, Read, NEW m \in Msg
  PROVE  /\ ReaderMarksReady => Held(m)' = Held(m) + One(m, xa)
         /\ ReaderExits => Held(m)' <= Held(m)
         /\ ~ReaderMarksReady /\ ~ReaderExits => Held(m)' = Held(m)
<1>1. /\ bundle \in Seq(Msg) /\ bundleQueue \in Seq(Seq(Msg))
      /\ reader = "ready" => xa \in Msg
  BY ShapeParts DEF ReaderShape, ReaderTypeOK, ReaderHands
<1>2. /\ In(bundle, m) \in Nat /\ InAll(bundleQueue, m) \in Nat
      /\ InAll(recovering, m) \in Nat /\ In(dispatching, m) \in Nat
      /\ In(workQueue, m) \in Nat /\ Hands(m) \in Nat
  BY HeldParts
<1>3. UNCHANGED <<recovering, dispatching, workQueue, task>> /\ Reader
  BY DEF Read, agentVars
<1> DEFINE rest == InAll(recovering, m) + In(dispatching, m) + In(workQueue, m) + Hands(m)
<1>4. rest \in Nat
  BY <1>2
<1>a. In(bundle', m) \in Nat /\ InAll(bundleQueue', m) \in Nat
  BY ReadStep, HeldNumbersNext DEF HeldIsNumber
<1>b. Held(m)' = In(bundle', m) + InAll(bundleQueue', m) + InAll(recovering, m)
                   + In(dispatching, m) + In(workQueue, m) + Hands(m)
  BY <1>3 DEF Held, Hands, Holders
<1>5. /\ Held(m) = In(bundle, m) + InAll(bundleQueue, m) + rest
      /\ Held(m)' = In(bundle', m) + InAll(bundleQueue', m) + rest
  BY <1>2, <1>a, <1>b DEF Held
<1> HIDE DEF rest
<1>6. In(<<>>, m) = 0 /\ InAll(Append(bundleQueue, bundle), m) = InAll(bundleQueue, m) + In(bundle, m)
  BY <1>1, InFacts, InAllFacts
<1>7. CASE ReaderMarksReady
  <2>1. bundle' = Append(bundle, xa) /\ bundleQueue' = bundleQueue /\ xa \in Msg
    BY <1>1, <1>7 DEF ReaderMarksReady
  <2>2. In(bundle', m) = In(bundle, m) + One(m, xa)
    BY <1>1, <2>1, InFacts
  <2>3. One(m, xa) \in Nat
    BY OneIs
  <2>4. Held(m)' = Held(m) + One(m, xa)
    BY <1>2, <1>4, <1>5, <2>1, <2>2, <2>3
  <2>5. ~ReaderExits
    BY <1>7 DEF ReaderMarksReady, ReaderExits
  <2>6. QED
    BY <1>7, <2>4, <2>5
<1>8. ASSUME bundle' = <<>>, bundleQueue' = Append(bundleQueue, bundle)
      PROVE  Held(m)' = Held(m)
  BY <1>2, <1>4, <1>5, <1>6, <1>8
<1>9. ASSUME bundle' = <<>>, bundleQueue' = bundleQueue PROVE Held(m)' <= Held(m)
  BY <1>2, <1>4, <1>5, <1>6, <1>9
<1>10. Held(m) <= Held(m)
  BY <1>2, <1>4, <1>5
<1>11. CASE ReaderExits
  <2>1. /\ bundle' = <<>> /\ bundleQueue' \in {bundleQueue, Append(bundleQueue, bundle)}
        /\ ~ReaderMarksReady
    BY <1>11 DEF ReaderExits, ReaderMarksReady
  <2>2. QED
    BY <1>8, <1>9, <1>10, <1>11, <2>1
<1>12. CASE ~ReaderMarksReady /\ ~ReaderExits
  <2>1. \/ bundle' = <<>> /\ bundleQueue' = Append(bundleQueue, bundle)
        \/ bundle' = bundle /\ bundleQueue' = bundleQueue
    BY <1>3, <1>12 DEF Reader, ReaderDequeues, ReaderFlushes, ReaderStages, ReaderCannotStage,
          ReaderCommits, ReaderCannotCommit, ReaderCannotMarkReady, ReaderPuts,
          ReaderLeavesLoop
  <2>2. QED
    BY <1>5, <1>8, <1>12, <2>1
<1>13. QED
  BY <1>7, <1>11, <1>12

LEMMA RequeueMoves ==
  ASSUME Shape, Requeue, NEW m \in Msg
  PROVE  Held(m)' = Held(m)
<1>1. /\ bundleQueue \in Seq(Seq(Msg)) /\ recovering \in Seq(Seq(Msg)) /\ recovering # <<>>
      /\ bundleQueue' = Append(bundleQueue, Head(recovering)) /\ recovering' = Tail(recovering)
      /\ UNCHANGED <<bundle, dispatching, workQueue, task>>
  BY ShapeParts DEF Requeue, ReaderShape, ReaderTypeOK, PipeShape, workVars
<1>2. Head(recovering) \in Seq(Msg)
  BY <1>1, Ends
<1>3. /\ InAll(bundleQueue', m) = InAll(bundleQueue, m) + In(Head(recovering), m)
      /\ InAll(recovering, m) = In(Head(recovering), m) + InAll(recovering', m)
      /\ In(Head(recovering), m) \in Nat
  BY <1>1, <1>2, InFacts, InAllFacts
<1>4. /\ In(bundle, m) \in Nat /\ InAll(bundleQueue, m) \in Nat
      /\ InAll(recovering, m) \in Nat /\ In(dispatching, m) \in Nat
      /\ In(workQueue, m) \in Nat /\ Hands(m) \in Nat
  BY HeldParts
<1>5. InAll(recovering', m) \in Nat
  BY StartupShape, HeldNumbersNext DEF Startup, HeldIsNumber
<1>6. Held(m)' = In(bundle, m) + InAll(bundleQueue', m) + InAll(recovering', m)
                   + In(dispatching, m) + In(workQueue, m) + Hands(m)
  BY <1>1 DEF Held, Hands, Holders
<1>7. QED
  BY <1>3, <1>4, <1>5, <1>6 DEF Held

\* The bundles made at startup hold each recoverable message once.
LEMMA CollectMoves ==
  ASSUME Shape, CollectRecoverable, NEW m \in Msg, Held(m) = 0
  PROVE  Held(m)' = IF m \in Recoverable THEN 1 ELSE 0
<1>1. /\ recovering' = Bundles(Recoverable)
      /\ UNCHANGED <<bundle, bundleQueue, dispatching, workQueue, task>>
  BY DEF CollectRecoverable, workVars, readerVars
<1>2. /\ In(bundle, m) \in Nat /\ InAll(bundleQueue, m) \in Nat
      /\ InAll(recovering, m) \in Nat /\ In(dispatching, m) \in Nat
      /\ In(workQueue, m) \in Nat /\ Hands(m) \in Nat
  BY HeldParts
<1>3. /\ In(bundle, m) = 0 /\ InAll(bundleQueue, m) = 0 /\ In(dispatching, m) = 0
      /\ In(workQueue, m) = 0 /\ Hands(m) = 0
  <2>1. In(bundle, m) + InAll(bundleQueue, m) + InAll(recovering, m) + In(dispatching, m)
          + In(workQueue, m) + Hands(m) = 0
    BY DEF Held
  <2> DEFINE a == In(bundle, m)
             b == InAll(bundleQueue, m)
             c == InAll(recovering, m)
             d == In(dispatching, m)
             e == In(workQueue, m)
             f == Hands(m)
  <2>2. /\ a \in Nat /\ b \in Nat /\ c \in Nat /\ d \in Nat /\ e \in Nat /\ f \in Nat
        /\ a + b + c + d + e + f = 0
    BY <1>2, <2>1
  <2> HIDE DEF a, b, c, d, e, f
  <2>3. a = 0 /\ b = 0 /\ d = 0 /\ e = 0 /\ f = 0
    BY ONLY <2>2
  <2>4. QED
    BY <2>3 DEF a, b, d, e, f
<1>4. InAll(recovering', m) = IF m \in Recoverable THEN 1 ELSE 0
  <2>1. Recoverable \in SUBSET Msg
    BY DEF Recoverable
  <2>2. CASE m \in Recoverable
    <3>1. PICK p : Spots(Bundles(Recoverable), m) = {p}
      BY <2>1, <2>2, BundlesAre
    <3>2. Cardinality(Spots(Bundles(Recoverable), m)) = 1
      BY <3>1, FS_Singleton
    <3>3. QED
      BY <1>1, <2>2, <3>2 DEF InAll
  <2>3. CASE m \notin Recoverable
    <3>1. Spots(Bundles(Recoverable), m) = {}
      BY <2>1, <2>3, BundlesAre
    <3>2. QED
      BY <1>1, <2>3, <3>1, FS_EmptySet DEF InAll
  <2>4. QED
    BY <2>2, <2>3
<1>5. Held(m)' = In(bundle, m) + InAll(bundleQueue, m) + InAll(recovering', m)
                   + In(dispatching, m) + In(workQueue, m) + Hands(m)
  BY <1>1 DEF Held, Hands, Holders
<1>6. QED
  BY <1>3, <1>4, <1>5

\* A message moves on in the pipeline, or is dropped by a pool that is shut
\* down already.
LEMMA DispatchMoves ==
  ASSUME Shape, Dispatch \/ (\E w \in Worker : WorkerTakes(w)), NEW m \in Msg
  PROVE  Held(m)' = Held(m) \/ (~running /\ Held(m)' <= Held(m))
<1>1. /\ bundleQueue \in Seq(Seq(Msg)) /\ dispatching \in Seq(Msg) /\ workQueue \in Seq(Msg)
      /\ task \in [Executor -> TaskType]
  BY ShapeParts DEF ReaderShape, ReaderTypeOK, PipeShape
<1>2. /\ In(bundle, m) \in Nat /\ InAll(bundleQueue, m) \in Nat
      /\ InAll(recovering, m) \in Nat /\ In(dispatching, m) \in Nat
      /\ In(workQueue, m) \in Nat /\ Hands(m) \in Nat
  BY HeldParts
<1>3. /\ In(bundle', m) \in Nat /\ InAll(bundleQueue', m) \in Nat
      /\ InAll(recovering', m) \in Nat /\ In(dispatching', m) \in Nat
      /\ In(workQueue', m) \in Nat /\ Hands(m)' \in Nat
  BY DispatchShape, HeldNumbersNext DEF HeldIsNumber
<1>4. /\ task' \in [Executor -> TaskType]
  BY DispatchShape, ShapePartsNext DEF PipeShape
<1>5. Held(m)' = In(bundle', m) + InAll(bundleQueue', m) + InAll(recovering', m)
                   + In(dispatching', m) + In(workQueue', m) + Hands(m)'
  BY DEF Held
<1>a. Held(m) = In(bundle, m) + InAll(bundleQueue, m) + InAll(recovering, m)
                  + In(dispatching, m) + In(workQueue, m) + Hands(m)
  BY DEF Held
<1>6. UNCHANGED <<bundle, recovering>>
  BY DEF Dispatch, DispatcherPolls, DispatcherExecutes, DispatcherDrops, DispatcherExits,
         WorkerTakes, readerVars
<1>7. \A e : One(m, e) \in {0, 1}
  BY OneIs
<1>8. CASE DispatcherPolls
  <2>1. /\ bundleQueue # <<>> /\ dispatching = <<>> /\ dispatching' = Head(bundleQueue)
        /\ bundleQueue' = Tail(bundleQueue) /\ UNCHANGED <<workQueue, task>>
    BY <1>8 DEF DispatcherPolls, workVars
  <2>2. /\ In(dispatching, m) = 0
        /\ InAll(bundleQueue, m) = In(dispatching', m) + InAll(bundleQueue', m)
    BY <1>1, <2>1, InFacts, InAllFacts
  <2>3. Hands(m)' = Hands(m)
    BY <2>1 DEF Hands, Holders
  <2>4. Held(m)' = Held(m)
    BY <1>2, <1>3, <1>5, <1>6, <2>1, <2>2, <2>3 DEF Held
  <2>5. QED
    BY <2>4
<1>9. CASE DispatcherExecutes
  <2> DEFINE h == Head(dispatching)
  <2>1. /\ dispatching # <<>> /\ dispatching' = Tail(dispatching) /\ bundleQueue' = bundleQueue
        /\ task[Dispatcher] = Idle
        /\ \/ workQueue' = Append(workQueue, h) /\ task' = task
           \/ /\ workQueue' = workQueue
              /\ task' = [task EXCEPT ![Dispatcher] = [at |-> "start", msg |-> h, attempt |-> 0]]
    BY <1>9 DEF DispatcherExecutes, readerVars
  <2>2. h \in Msg /\ In(dispatching, m) = In(dispatching', m) + One(m, h)
    BY <1>1, <2>1, InFacts, Ends
  <2> HIDE DEF h
  <2>3. CASE workQueue' = Append(workQueue, h) /\ task' = task
    <3>1. In(workQueue', m) = In(workQueue, m) + One(m, h) /\ Hands(m)' = Hands(m)
      BY <1>1, <2>2, <2>3, InFacts DEF Hands, Holders
    <3>2. Held(m)' = Held(m)
      <4>1. One(m, h) \in Nat
        BY <1>7
      <4>2. bundleQueue' = bundleQueue
        BY <2>1
      <4>3. In(dispatching, m) = In(dispatching', m) + One(m, h)
        BY <2>2
      <4>4. QED
        BY ONLY <1>2, <1>3, <1>5, <1>6, <1>a, <3>1, <4>1, <4>2, <4>3
    <3>3. QED
      BY <3>2
  <2>4. CASE /\ workQueue' = workQueue
             /\ task' = [task EXCEPT ![Dispatcher] = [at |-> "start", msg |-> h, attempt |-> 0]]
    <3>1. /\ task'[Dispatcher].msg = h /\ task[Dispatcher].msg = NoMsg
          /\ \A y \in Executor : y # Dispatcher => task'[y] = task[y]
      BY <1>1, <2>1, <2>4, Constants DEF Idle
    <3>2. Hands(m)' + One(m, NoMsg) = Hands(m) + One(m, h)
      BY <1>1, <1>4, <3>1, Constants, HandsChange
    <3>3. One(m, NoMsg) = 0
      BY Constants, OneIs
    <3>4. Hands(m)' = Hands(m) + One(m, h)
      BY <1>3, <3>2, <3>3
    <3>5. Held(m)' = Held(m)
      <4>1. One(m, h) \in Nat
        BY <1>7
      <4>2. bundleQueue' = bundleQueue /\ workQueue' = workQueue
        BY <2>1, <2>4
      <4>3. In(dispatching, m) = In(dispatching', m) + One(m, h)
        BY <2>2
      <4>4. QED
        BY ONLY <1>2, <1>3, <1>5, <1>6, <1>a, <3>4, <4>1, <4>2, <4>3
    <3>6. QED
      BY <3>5
  <2>5. QED
    BY <2>1, <2>3, <2>4
<1>10. CASE DispatcherDrops
  <2>1. /\ dispatching # <<>> /\ dispatching' = Tail(dispatching) /\ ~running
        /\ UNCHANGED <<bundleQueue, workQueue, task>>
    BY <1>10 DEF DispatcherDrops, readerVars, workVars
  <2>2. In(dispatching, m) = In(dispatching', m) + One(m, Head(dispatching))
    BY <1>1, <2>1, InFacts
  <2>3. Hands(m)' = Hands(m)
    BY <2>1 DEF Hands, Holders
  <2>4. Held(m)' <= Held(m)
    <3>1. One(m, Head(dispatching)) \in Nat
      BY <1>7
    <3>2. bundleQueue' = bundleQueue /\ workQueue' = workQueue
      BY <2>1
    <3>3. QED
      BY ONLY <1>2, <1>3, <1>5, <1>6, <1>a, <2>2, <2>3, <3>1, <3>2
  <2>5. QED
    BY <2>1, <2>4
<1>11. CASE DispatcherExits
  <2>1. Held(m)' = Held(m)
    BY <1>11, HeldSame DEF DispatcherExits, readerVars
  <2>2. QED
    BY <2>1
<1>12. ASSUME NEW w \in Worker, WorkerTakes(w)
       PROVE  Held(m)' = Held(m)
  <2> DEFINE h == Head(workQueue)
  <2>1. /\ workQueue # <<>> /\ workQueue' = Tail(workQueue)
        /\ UNCHANGED <<bundleQueue, dispatching>> /\ task[w] = Idle
        /\ task' = [task EXCEPT ![w] = [at |-> "start", msg |-> h, attempt |-> 0]]
    BY <1>12 DEF WorkerTakes, readerVars
  <2>2. h \in Msg /\ In(workQueue, m) = In(workQueue', m) + One(m, h)
    BY <1>1, <2>1, InFacts, Ends
  <2> HIDE DEF h
  <2>3. w \in Executor
    BY DEF Executor
  <2>4. /\ task'[w].msg = h /\ task[w].msg = NoMsg
        /\ \A y \in Executor : y # w => task'[y] = task[y]
    BY <1>1, <2>1, <2>3 DEF Idle
  <2>5. Hands(m)' + One(m, NoMsg) = Hands(m) + One(m, h)
    BY <1>1, <1>4, <2>3, <2>4, HandsChange
  <2>6. One(m, NoMsg) = 0
    BY Constants, OneIs
  <2>7. Hands(m)' = Hands(m) + One(m, h)
    BY <1>3, <2>5, <2>6
  <2>8. QED
    <3>1. One(m, h) \in Nat
      BY <1>7
    <3>2. bundleQueue' = bundleQueue /\ dispatching' = dispatching
      BY <2>1
    <3>3. In(workQueue, m) = In(workQueue', m) + One(m, h)
      BY <2>2
    <3>4. QED
      BY ONLY <1>2, <1>3, <1>5, <1>6, <1>a, <2>7, <3>1, <3>2, <3>3
<1>13. QED
  BY <1>8, <1>9, <1>10, <1>11, <1>12 DEF Dispatch

\* An executor keeps its message until it is idle again.
LEMMA TaskMoves ==
  ASSUME Shape, NEW x \in Executor, Task(x), NEW m \in Msg
  PROVE  /\ Held(m)' <= Held(m)
         /\ Held(m)' = Held(m) \/ (task'[x] = Idle /\ m = task[x].msg)
<1>1. task \in [Executor -> TaskType] /\ task' \in [Executor -> TaskType]
  BY ShapeParts, TaskEffect DEF PipeShape
<1>2. /\ \A y \in Executor : y # x => task'[y] = task[y]
      /\ task'[x] = Idle \/ task'[x].msg = task[x].msg
      /\ OnlyTask
  BY TaskEffect
<1>3. /\ Hands(m) \in Nat /\ Hands(m)' \in Nat
      /\ Hands(m)' + One(m, task[x].msg) = Hands(m) + One(m, task'[x].msg)
  BY <1>1, <1>2, HandsChange
<1>4. /\ In(bundle, m) \in Nat /\ InAll(bundleQueue, m) \in Nat
      /\ InAll(recovering, m) \in Nat /\ In(dispatching, m) \in Nat
      /\ In(workQueue, m) \in Nat
  BY HeldParts
<1>5. Held(m)' = In(bundle, m) + InAll(bundleQueue, m) + InAll(recovering, m)
                   + In(dispatching, m) + In(workQueue, m) + Hands(m)'
  BY <1>2 DEF Held, OnlyTask, readerVars
<1>6. CASE task'[x].msg = task[x].msg \/ m # task[x].msg
  <2>1. Hands(m)' <= Hands(m) /\ (task'[x].msg = task[x].msg => Hands(m)' = Hands(m))
    <3>1. task'[x].msg = task[x].msg => Hands(m)' = Hands(m)
      <4>1. One(m, task[x].msg) \in {0, 1}
        BY OneIs
      <4>2. QED
        BY <1>3, <4>1
    <3>2. m # task[x].msg /\ task'[x].msg # task[x].msg => Hands(m)' = Hands(m)
      <4>1. SUFFICES ASSUME m # task[x].msg, task'[x] = Idle PROVE Hands(m)' = Hands(m)
        BY <1>2
      <4>2. One(m, task[x].msg) = 0 /\ One(m, task'[x].msg) = 0
        BY <4>1, Constants, OneIs DEF Idle
      <4>3. QED
        BY <1>3, <4>2
    <3>3. QED
      BY <1>3, <1>6, <3>1, <3>2
  <2>2. Hands(m)' = Hands(m)
    <3>1. CASE task'[x].msg = task[x].msg
      BY <2>1, <3>1
    <3>2. CASE m # task[x].msg /\ task'[x].msg # task[x].msg
      <4>1. task'[x] = Idle
        BY <1>2, <3>2
      <4>2. One(m, task[x].msg) = 0 /\ One(m, task'[x].msg) = 0
        BY <3>2, <4>1, Constants, OneIs DEF Idle
      <4>3. QED
        BY <1>3, <4>2
    <3>3. QED
      BY <1>6, <3>1, <3>2
  <2>3. QED
    BY <1>3, <1>4, <1>5, <2>2 DEF Held
<1>7. CASE task'[x] = Idle /\ m = task[x].msg
  <2>1. One(m, task[x].msg) = 1 /\ One(m, task'[x].msg) = 0
    BY <1>7, Constants, OneIs DEF Idle
  <2>2. Hands(m)' <= Hands(m)
    BY <1>3, <2>1
  <2>3. QED
    BY <1>3, <1>4, <1>5, <1>7, <2>2 DEF Held
<1>8. QED
  BY <1>2, <1>6, <1>7

LEMMA GoneMoves ==
  ASSUME ProcessGone, NEW m \in Msg
  PROVE  Held(m)' = 0
<1>1. /\ bundle' = <<>> /\ bundleQueue' = <<>> /\ recovering' = <<>> /\ dispatching' = <<>>
      /\ workQueue' = <<>> /\ task' = [x \in Executor |-> Idle]
  BY DEF ProcessGone, ReaderLost
<1>2. In(<<>>, m) = 0 /\ InAll(<<>>, m) = 0
  BY PositionsEmpty, SpotsEmpty DEF In, InAll
<1>3. Holders(m)' = {}
  BY <1>1, Constants DEF Holders, Idle
<1>4. Hands(m)' = 0
  BY <1>3, FS_EmptySet DEF Hands
<1>5. QED
  BY <1>1, <1>2, <1>4 DEF Held

-----------------------------------------------------------------------------
(* Every step keeps the flow *)

OwedState == {"READY", "PROCESSING", "RETRY_WAIT"}

LEMMA FlowEmpty ==
  ASSUME \A m \in Msg : Held(m)' = 0, reader' = "exit", phase' \in {"down", "discard"}
  PROVE  Flow'
<1>1. HeldOnce' /\ HeldIsKnown'
  BY DEF HeldOnce, HeldIsKnown
<1>2. NewIsNotHeld' /\ StartsEmpty' /\ OwedIsHeld'
  BY DEF NewIsNotHeld, StartsEmpty, OwedIsHeld
<1>3. QED
  BY <1>1, <1>2 DEF Flow

\* No message is in more places than before, and none is forgotten by the store.
LEMMA FlowLess ==
  ASSUME Shape, Shape', Flow, KnownStays, \A m \in Msg : Held(m)' <= Held(m),
         phase' \in {"down", "discard"} => phase \in {"down", "discard"}
  PROVE  HeldOnce' /\ HeldIsKnown' /\ StartsEmpty'
<1>1. \A m \in Msg : Held(m) \in Nat /\ Held(m)' \in Nat
  BY HeldNumbers, HeldNumbersNext DEF HeldIsNumber
<1>2. HeldOnce'
  BY <1>1 DEF Flow, HeldOnce
<1>3. HeldIsKnown'
  BY <1>1 DEF Flow, HeldIsKnown, KnownStays
<1>4. StartsEmpty'
  BY <1>1 DEF Flow, StartsEmpty
<1>5. QED
  BY <1>2, <1>3, <1>4

LEMMA NewSame ==
  ASSUME Shape, Shape', Flow, \A m \in Msg : Held(m)' <= Held(m),
         UNCHANGED <<xa, wasKnown, reader>>
  PROVE  NewIsNotHeld'
<1>1. \A m \in Msg : Held(m) \in Nat /\ Held(m)' \in Nat
  BY HeldNumbers, HeldNumbersNext DEF HeldIsNumber
<1>2. reader \in {"stage", "commit", "ready"} => xa \in Msg
  BY ShapeParts DEF ReaderShape, ReaderHands
<1>3. reader \in {"stage", "commit", "ready"} /\ ~wasKnown => Held(xa) = 0
  BY DEF Flow, NewIsNotHeld
<1>4. \A m \in Msg : Held(m) = 0 => Held(m)' = 0
  BY <1>1
<1>5. reader \in {"stage", "commit", "ready"} /\ ~wasKnown => Held(xa)' = 0
  <2>1. SUFFICES ASSUME reader \in {"stage", "commit", "ready"}, ~wasKnown PROVE Held(xa)' = 0
    OBVIOUS
  <2>2. PICK m \in Msg : m = xa
    BY <1>2, <2>1
  <2>3. Held(m)' = 0
    BY <1>3, <1>4, <2>1, <2>2
  <2>4. xa' = m
    BY <2>2
  <2>5. QED
    BY <2>3, <2>4 DEF Held, Hands, Holders
<1>6. reader = "ready" => ~wasKnown
  BY DEF Flow, NewIsNotHeld
<1>7. QED
  BY <1>5, <1>6 DEF NewIsNotHeld

LEMMA OwedSame ==
  ASSUME Shape, Shape', Flow,
         phase' \in {"requeue", "run"} /\ running' => phase \in {"requeue", "run"} /\ running,
         \A m \in Msg : phase' \in {"requeue", "run"} /\ running'
                          /\ memory'[m].state \in OwedState =>
            Held(m)' >= 1 \/ (memory[m].state \in OwedState /\ Held(m)' = Held(m))
  PROVE  OwedIsHeld'
BY DEF Flow, OwedIsHeld, OwedState

LEMMA StartupFlow ==
  ASSUME Shape, Flow, Startup
  PROVE  Flow'
<1>0. Shape' /\ (phase # "run" => reader = "exit")
  BY StartupShape, ShapeParts DEF PhaseShape, NoThreadsYet
<1>1. \A m \in Msg : Held(m) \in Nat /\ Held(m)' \in Nat
  BY <1>0, HeldNumbers, HeldNumbersNext DEF HeldIsNumber
<1>2. phase \in {"down", "discard"} => \A m \in Msg : Held(m) = 0
  BY DEF Flow, StartsEmpty
<1>3. CASE Open \/ DiscardUnresolved
  <2>1. /\ phase \in {"down", "discard"} /\ phase' = "discard"
        /\ UNCHANGED <<readerVars, agentVars>>
    BY <1>3 DEF Open, DiscardUnresolved
  <2>2. \A m \in Msg : Held(m)' = 0
    BY <1>2, <2>1, HeldSame DEF readerVars, agentVars, workVars
  <2>3. reader' = "exit"
    BY <1>0, <2>1 DEF readerVars
  <2>4. QED
    BY <2>1, <2>2, <2>3, FlowEmpty
<1>4. CASE CollectRecoverable
  <2>1. phase = "discard" /\ phase' = "requeue" /\ reader' = "exit" /\ memory' = memory
    BY <1>0, <1>4 DEF CollectRecoverable, readerVars, storeVars
  <2>2. \A m \in Msg : Held(m)' = IF m \in Recoverable THEN 1 ELSE 0
    BY <1>2, <1>4, <2>1, CollectMoves
  <2>3. HeldOnce'
    BY <2>2 DEF HeldOnce
  <2>4. HeldIsKnown'
    <3>1. \A m \in Recoverable : memory[m] # Absent
      BY EntryFields DEF Recoverable
    <3>2. QED
      BY <2>1, <2>2, <3>1 DEF HeldIsKnown, Known
  <2>5. NewIsNotHeld' /\ StartsEmpty'
    BY <2>1 DEF NewIsNotHeld, StartsEmpty
  <2>6. OwedIsHeld'
    BY <2>1, <2>2 DEF OwedIsHeld, Recoverable
  <2>7. QED
    BY <2>3, <2>4, <2>5, <2>6 DEF Flow
<1>5. CASE Requeue
  <2>1. /\ phase = "requeue" /\ phase' = "requeue" /\ running' = running /\ memory' = memory
        /\ UNCHANGED <<xa, wasKnown, reader>>
    BY <1>5 DEF Requeue, storeVars
  <2>2. \A m \in Msg : Held(m)' = Held(m)
    BY <1>5, RequeueMoves
  <2>3. \A m \in Msg : Held(m)' <= Held(m)
    BY <1>1, <2>2
  <2>4. KnownStays
    BY <2>1 DEF KnownStays, Known
  <2>5. HeldOnce' /\ HeldIsKnown' /\ StartsEmpty' /\ NewIsNotHeld'
    BY <1>0, <2>1, <2>3, <2>4, FlowLess, NewSame
  <2>6. OwedIsHeld'
    BY <1>0, <2>1, <2>2, OwedSame
  <2>7. QED
    BY <2>5, <2>6 DEF Flow
<1>6. CASE StartThreads
  <2>1. /\ phase = "requeue" /\ phase' = "run" /\ running' = running /\ memory' = memory
        /\ reader' = "dequeue"
        /\ UNCHANGED <<bundle, bundleQueue, recovering, dispatching, workVars>>
    BY <1>6 DEF StartThreads, storeVars
  <2>2. \A m \in Msg : Held(m)' = Held(m)
    BY <2>1, HeldSame
  <2>3. \A m \in Msg : Held(m)' <= Held(m)
    BY <1>1, <2>2
  <2>4. KnownStays
    BY <2>1 DEF KnownStays, Known
  <2>5. HeldOnce' /\ HeldIsKnown' /\ StartsEmpty'
    BY <1>0, <2>1, <2>3, <2>4, FlowLess
  <2>6. NewIsNotHeld'
    BY <2>1 DEF NewIsNotHeld
  <2>7. OwedIsHeld'
    BY <1>0, <2>1, <2>2, OwedSame
  <2>8. QED
    BY <2>5, <2>6, <2>7 DEF Flow
<1>7. QED
  BY <1>3, <1>4, <1>5, <1>6 DEF Startup

\* What the reader does to the entries of messages.
LEMMA ReaderWrites ==
  ASSUME Shape, Reader
  PROVE  /\ \A m \in Msg : m # xa => memory'[m] = memory[m] /\ journal'[m] = journal[m]
         /\ \/ UNCHANGED storeVars
            \/ /\ ReaderStages /\ xa \in Msg
               /\ memory[xa] = Absent /\ memory'[xa].state = "COMMITTING"
               /\ journal'[xa].state = "COMMITTING"
            \/ /\ ReaderCannotStage /\ xa \in Msg
               /\ memory' = memory /\ memory[xa] = Absent
               /\ journal'[xa] = journal[xa] \/ journal'[xa].state = "COMMITTING"
            \/ /\ ReaderMarksReady /\ xa \in Msg
               /\ memory'[xa].state = "READY" /\ journal'[xa].state = "READY"
            \/ /\ ReaderCannotMarkReady /\ xa \in Msg
               /\ memory' = memory
               /\ journal'[xa] = journal[xa] \/ journal'[xa].state = "READY"
<1>1. StoreShape /\ ReaderShape
  BY ShapeParts
<1>2. reader \in {"stage", "commit", "ready"} => xa \in Msg
  BY <1>1 DEF ReaderShape, ReaderHands
<1>3. xa \in Msg => /\ memory[xa] \in Entry \cup {Absent}
                    /\ journal[xa] \in Entry \cup {Absent}
  BY <1>1 DEF StoreShape
<1>4. "READY" \in State
  BY DEF State
<1>5. ASSUME xa \in Msg, NEW e \in Entry \cup {Absent}
      PROVE  /\ Changed(StageIt, e).state = "COMMITTING"
             /\ Changed(SetState("READY"), e).state = "READY"
  BY Changes
<1>6. CASE UNCHANGED storeVars
  BY <1>6 DEF storeVars
<1>7. CASE ReaderStages /\ ~UNCHANGED storeVars
  <2>1. reader = "stage" /\ StoreOk(xa, StageIt) /\ memory[xa] = Absent
    BY <1>7 DEF ReaderStages, Known
  <2>2. xa \in Msg
    BY <1>2, <2>1
  <2>3. Changed(StageIt, memory[xa]) \in Entry /\ Changed(StageIt, journal[xa]) \in Entry
    BY <1>3, <2>2, ChangesType
  <2>4. /\ \A n \in Msg : n # xa => memory'[n] = memory[n] /\ journal'[n] = journal[n]
        /\ memory'[xa] = Changed(StageIt, memory[xa])
        /\ journal'[xa] = Changed(StageIt, journal[xa])
    BY <1>1, <2>1, <2>2, <2>3, StoreStep
  <2>5. QED
    BY <1>3, <1>5, <1>7, <2>1, <2>2, <2>4
<1>8. CASE ReaderCannotStage
  <2>1. reader = "stage" /\ StoreThrows(xa, StageIt) /\ memory[xa] = Absent
    BY <1>8 DEF ReaderCannotStage, Known
  <2>2. xa \in Msg
    BY <1>2, <2>1
  <2>3. Changed(StageIt, memory[xa]) \in Entry /\ Changed(StageIt, journal[xa]) \in Entry
    BY <1>3, <2>2, ChangesType
  <2>4. /\ \A n \in Msg : n # xa => memory'[n] = memory[n] /\ journal'[n] = journal[n]
        /\ memory' = memory
        /\ journal'[xa] \in {journal[xa], Changed(StageIt, journal[xa])}
    BY <1>1, <2>1, <2>2, <2>3, StoreStep
  <2>5. QED
    BY <1>3, <1>5, <1>8, <2>1, <2>2, <2>4
<1>9. CASE ReaderMarksReady \/ ReaderCannotMarkReady
  <2> DEFINE c == SetState("READY")
  <2>1. /\ reader = "ready" /\ (StoreOk(xa, c) \/ StoreThrows(xa, c))
        /\ ReaderMarksReady => StoreOk(xa, c)
        /\ ReaderCannotMarkReady => StoreThrows(xa, c)
    BY <1>9 DEF ReaderMarksReady, ReaderCannotMarkReady
  <2>2. xa \in Msg
    BY <1>2, <1>9 DEF ReaderMarksReady, ReaderCannotMarkReady
  <2>3. Changed(c, memory[xa]) \in Entry /\ Changed(c, journal[xa]) \in Entry
    BY <1>3, <1>4, <2>2, ChangesType
  <2>4. /\ Changed(c, memory[xa]).state = "READY"
        /\ Changed(c, journal[xa]).state = "READY"
    BY <1>3, <1>5, <2>2
  <2> HIDE DEF c
  <2>5. /\ \A n \in Msg : n # xa => memory'[n] = memory[n] /\ journal'[n] = journal[n]
        /\ journal'[xa] \in {journal[xa], Changed(c, journal[xa])}
        /\ StoreOk(xa, c) => /\ memory'[xa] = Changed(c, memory[xa])
                             /\ journal'[xa] = Changed(c, journal[xa])
        /\ StoreThrows(xa, c) => memory' = memory
    BY <1>1, <1>9, <2>1, <2>2, <2>3, StoreStep
  <2>6. QED
    BY <1>9, <2>1, <2>2, <2>4, <2>5
<1>10. QED
  BY <1>6, <1>7, <1>8, <1>9 DEF Reader, ReaderDequeues, ReaderFlushes, ReaderCommits,
        ReaderCannotCommit, ReaderPuts, ReaderLeavesLoop, ReaderExits

\* What the reader does to the message it holds.
LEMMA ReaderTakes ==
  ASSUME Shape, Read
  PROVE  /\ phase = "run" /\ phase' = phase /\ running' \in {running, FALSE}
         /\ reader' \in {"stage", "commit", "ready"} =>
               \/ /\ ReaderDequeues /\ xa' \in Msg /\ wasKnown' = Known(xa')
                  /\ reader' # "ready" /\ memory' = memory /\ journal' = journal
                  /\ reader' = "commit" => xa' \in HealthCheck
               \/ ReaderStages /\ xa' = xa /\ wasKnown' = wasKnown
               \/ /\ ReaderCommits /\ xa' = xa /\ wasKnown' = wasKnown /\ ~wasKnown
                  /\ xa \notin HealthCheck /\ memory' = memory /\ journal' = journal
         /\ running' => ~ReaderExits /\ ~ReaderCannotStage /\ ~ReaderCannotMarkReady
<1>1. Reader /\ UNCHANGED <<phase, restarts, agentVars>>
  BY DEF Read
<1>2. PhaseShape /\ ReaderShape
  BY ShapeParts
<1>3. running' \in {running, FALSE} /\ reader # "exit"
  BY <1>1 DEF Reader, ReaderDequeues, ReaderFlushes, ReaderStages, ReaderCannotStage,
        ReaderCommits, ReaderCannotCommit, ReaderMarksReady, ReaderCannotMarkReady,
        ReaderPuts, ReaderLeavesLoop, ReaderExits
<1>4. phase = "run" /\ phase' = phase
  BY <1>1, <1>2, <1>3 DEF PhaseShape, NoThreadsYet
<1>5. ASSUME reader' \in {"stage", "commit", "ready"}
      PROVE  \/ /\ ReaderDequeues /\ xa' \in Msg /\ wasKnown' = Known(xa')
                /\ reader' # "ready" /\ memory' = memory /\ journal' = journal
                /\ reader' = "commit" => xa' \in HealthCheck
             \/ ReaderStages /\ xa' = xa /\ wasKnown' = wasKnown
             \/ /\ ReaderCommits /\ xa' = xa /\ wasKnown' = wasKnown /\ ~wasKnown
                /\ xa \notin HealthCheck /\ memory' = memory /\ journal' = journal
  <2>1. ReaderDequeues \/ ReaderStages \/ ReaderCommits
    BY <1>1, <1>5 DEF Reader, ReaderFlushes, ReaderCannotStage,
          ReaderCannotCommit, ReaderMarksReady, ReaderCannotMarkReady,
          ReaderPuts, ReaderLeavesLoop, ReaderExits
  <2>2. CASE ReaderDequeues
    <3>1. xa' \in Msg
      BY <1>2, <2>2, EarliestIsThere DEF ReaderDequeues, ReaderShape, ReaderTypeOK
    <3>2. QED
      BY <2>2, <3>1 DEF ReaderDequeues, storeVars
  <2>3. CASE ReaderStages
    BY <2>3 DEF ReaderStages
  <2>4. CASE ReaderCommits
    BY <1>5, <2>4 DEF ReaderCommits, storeVars
  <2>5. QED
    BY <2>1, <2>2, <2>3, <2>4
<1>6. ASSUME running' PROVE ~ReaderExits /\ ~ReaderCannotStage /\ ~ReaderCannotMarkReady
  BY <1>2, <1>3, <1>6 DEF ReaderShape, ReaderHands, ReaderExits, ReaderCannotStage,
     ReaderCannotMarkReady
<1>7. QED
  BY <1>3, <1>4, <1>5, <1>6

LEMMA ReaderFlow ==
  ASSUME Shape, Flow, Read
  PROVE  Flow'
<1>1. Shape' /\ Reader /\ KnownStays
  BY ReadStep, ReaderStore DEF Read
<1>2. /\ phase = "run" /\ phase' = phase /\ running' \in {running, FALSE}
      /\ running' => ~ReaderExits /\ ~ReaderCannotStage /\ ~ReaderCannotMarkReady
  BY ReaderTakes
<1>3. \A m \in Msg : Held(m) \in Nat /\ Held(m)' \in Nat
  BY <1>1, HeldNumbers, HeldNumbersNext DEF HeldIsNumber
<1>4. ASSUME NEW m \in Msg
      PROVE  /\ ReaderMarksReady => Held(m)' = Held(m) + One(m, xa)
             /\ ~ReaderMarksReady => Held(m)' <= Held(m)
             /\ ~ReaderMarksReady /\ ~ReaderExits => Held(m)' = Held(m)
  BY <1>3, ReaderMoves
<1>5. reader \in {"stage", "commit", "ready"} => xa \in Msg
  BY ShapeParts DEF ReaderShape, ReaderHands
<1>6. /\ HeldOnce /\ HeldIsKnown
      /\ reader \in {"stage", "commit", "ready"} /\ ~wasKnown => Held(xa) = 0
      /\ reader = "ready" => ~wasKnown
  BY DEF Flow, NewIsNotHeld
<1>7. ReaderMarksReady => xa \in Msg /\ Held(xa) = 0
  BY <1>5, <1>6 DEF ReaderMarksReady
<1>8. HeldOnce' /\ HeldIsKnown' /\ StartsEmpty'
  <2>1. CASE ReaderMarksReady
    <3>1. \A m \in Msg : IF m = xa THEN Held(m)' = 1 ELSE Held(m)' = Held(m)
      BY <1>3, <1>4, <1>7, <2>1, OneIs
    <3>2. HeldOnce'
      BY <1>6, <3>1 DEF HeldOnce
    <3>3. memory'[xa] # Absent
      <4>1. xa \in Msg /\ memory[xa] \in Entry \cup {Absent}
        BY <1>7, <2>1, ShapeParts DEF StoreShape
      <4>2. Changed(SetState("READY"), memory[xa]).state = "READY"
        BY <4>1, Changes
      <4>3. memory'[xa] = Changed(SetState("READY"), memory[xa])
        <5>1. StoreOk(xa, SetState("READY")) /\ memory \in [Msg -> Entry \cup {Absent}]
          BY <2>1, ShapeParts DEF ReaderMarksReady, StoreShape
        <5>2. QED
          BY <4>1, <5>1 DEF StoreOk
      <4>4. QED
        BY <4>2, <4>3, EntryFields
    <3>4. HeldIsKnown'
      BY <1>1, <1>6, <3>1, <3>3 DEF HeldIsKnown, KnownStays, Known
    <3>5. StartsEmpty'
      BY <1>2 DEF StartsEmpty
    <3>6. QED
      BY <3>2, <3>4, <3>5
  <2>2. CASE ~ReaderMarksReady
    BY <1>1, <1>2, <1>4, <2>2, FlowLess
  <2>3. QED
    BY <2>1, <2>2
<1>9. NewIsNotHeld'
  <2>1. ASSUME reader' \in {"stage", "commit", "ready"}
        PROVE  /\ ~wasKnown' => \E m \in Msg : m = xa' /\ Held(m)' = 0
               /\ reader' = "ready" => ~wasKnown'
    <3>1. CASE ReaderDequeues
      <4>1. xa' \in Msg /\ wasKnown' = Known(xa') /\ reader' # "ready"
        BY <2>1, <3>1, ReaderTakes
           DEF ReaderDequeues, ReaderStages, ReaderCommits
      <4>2. PICK m \in Msg : m = xa'
        BY <4>1
      <4>3. ~ReaderMarksReady /\ ~ReaderExits
        BY <3>1 DEF ReaderDequeues, ReaderMarksReady, ReaderExits
      <4>4. ~wasKnown' => ~Known(m)
        BY <4>1, <4>2
      <4>5. ~Known(m) => ~(Held(m) > 0)
        BY <1>6 DEF HeldIsKnown
      <4>6. ~wasKnown' => Held(m) = 0
        BY <1>3, <4>4, <4>5
      <4>7. QED
        BY <1>4, <4>1, <4>2, <4>3, <4>6
    <3>2. CASE ReaderStages \/ ReaderCommits
      <4>1. xa' = xa /\ wasKnown' = wasKnown /\ (reader' = "ready" => ~wasKnown')
        BY <2>1, <3>2, ReaderTakes DEF ReaderStages, ReaderDequeues, ReaderCommits
      <4>2. ~ReaderMarksReady /\ ~ReaderExits /\ reader \in {"stage", "commit"}
        BY <3>2 DEF ReaderStages, ReaderCommits, ReaderMarksReady, ReaderExits
      <4>3. PICK m \in Msg : m = xa
        BY <1>5, <4>2
      <4>4. ~wasKnown => Held(m) = 0
        BY <1>6, <4>2, <4>3
      <4>5. QED
        BY <1>4, <4>1, <4>2, <4>3, <4>4
    <3>3. QED
      BY <2>1, <3>1, <3>2, ReaderTakes
  <2>2. \A m \in Msg : m = xa' => Held(m)' = Held(xa)'
    BY DEF Held, Hands, Holders
  <2>3. QED
    BY <2>1, <2>2 DEF NewIsNotHeld
<1>10. OwedIsHeld'
  <2>1. ASSUME NEW m \in Msg, running', memory'[m].state \in OwedState
        PROVE  Held(m)' >= 1 \/ (memory[m].state \in OwedState /\ Held(m)' = Held(m))
    <3>1. CASE ReaderMarksReady
      <4>1. m = xa => Held(m)' = 1
        BY <1>4, <1>7, <3>1, OneIs
      <4>2. m # xa => Held(m)' = Held(m) /\ memory'[m] = memory[m]
        BY <1>1, <1>3, <1>4, <3>1, OneIs, ReaderWrites
      <4>3. QED
        BY <2>1, <4>1, <4>2
    <3>2. CASE ~ReaderMarksReady
      <4>1. Held(m)' = Held(m)
        BY <1>2, <1>4, <2>1, <3>2
      <4>2. memory'[m] = memory[m] \/ memory'[m].state = "COMMITTING"
        BY <1>1, <1>2, <2>1, <3>2, ReaderWrites DEF storeVars
      <4>3. QED
        BY <2>1, <4>1, <4>2 DEF OwedState
    <3>3. QED
      BY <3>1, <3>2
  <2>2. \A m \in Msg : phase' \in {"requeue", "run"} /\ running'
                          /\ memory'[m].state \in OwedState =>
            Held(m)' >= 1 \/ (memory[m].state \in OwedState /\ Held(m)' = Held(m))
    BY <2>1
  <2>3. phase' \in {"requeue", "run"} /\ running' => phase \in {"requeue", "run"} /\ running
    BY <1>2
  <2>4. QED
    BY <1>1, <2>2, <2>3, OwedSame
<1>11. QED
  BY <1>8, <1>9, <1>10 DEF Flow

LEMMA DispatchFlow ==
  ASSUME Shape, Flow, Dispatch \/ (\E w \in Worker : WorkerTakes(w))
  PROVE  Flow'
<1>1. Shape'
  BY DispatchShape
<1>2. UNCHANGED <<phase, running, memory, xa, wasKnown, reader>>
  BY DEF Dispatch, DispatcherPolls, DispatcherExecutes, DispatcherDrops, DispatcherExits,
         WorkerTakes, readerVars, storeVars
<1>3. \A m \in Msg : Held(m) \in Nat /\ Held(m)' \in Nat
  BY <1>1, HeldNumbers, HeldNumbersNext DEF HeldIsNumber
<1>4. \A m \in Msg : Held(m)' = Held(m) \/ (~running /\ Held(m)' <= Held(m))
  BY DispatchMoves
<1>5. \A m \in Msg : Held(m)' <= Held(m)
  BY <1>3, <1>4
<1>6. KnownStays
  BY <1>2 DEF KnownStays, Known
<1>7. HeldOnce' /\ HeldIsKnown' /\ StartsEmpty' /\ NewIsNotHeld'
  BY <1>1, <1>2, <1>5, <1>6, FlowLess, NewSame
<1>8. \A m \in Msg : phase' \in {"requeue", "run"} /\ running'
                       /\ memory'[m].state \in OwedState =>
         Held(m)' >= 1 \/ (memory[m].state \in OwedState /\ Held(m)' = Held(m))
  BY <1>2, <1>4
<1>9. phase' \in {"requeue", "run"} /\ running' => phase \in {"requeue", "run"} /\ running
  BY <1>2
<1>10. OwedIsHeld'
  BY <1>1, <1>8, <1>9, OwedSame
<1>11. QED
  BY <1>7, <1>10 DEF Flow

\* What a step of an executor makes of the entry of its message.
LEMMA TaskWrites ==
  ASSUME Shape, NEW x \in Executor, Task(x), NEW m \in Msg, m = task[x].msg
  PROVE  /\ \A n \in Msg : n # m => memory'[n] = memory[n] /\ journal'[n] = journal[n]
         /\ \/ memory' = memory /\ journal' = journal
            \/ \E c \in {SetState("PROCESSING"), SetRetry, SetResultPending("work"),
                         SetResultPending("error")} :
                  \/ memory'[m] = Changed(c, memory[m]) /\ journal'[m] = Changed(c, journal[m])
                  \/ memory' = memory /\ journal'[m] \in {journal[m], Changed(c, journal[m])}
<1>1. StoreShape
  BY ShapeParts
<1>2. memory[m] \in Entry \cup {Absent} /\ journal[m] \in Entry \cup {Absent}
  BY <1>1 DEF StoreShape
<1>3. "PROCESSING" \in State /\ "work" \in Envelope /\ "error" \in Envelope
  BY DEF State, Envelope
<1>4. CASE UNCHANGED storeVars
  BY <1>4 DEF storeVars
<1>5. CASE ~UNCHANGED storeVars
  <2>1. PICK c \in {SetState("PROCESSING"), SetRetry, SetResultPending("work"),
                    SetResultPending("error")} :
           StoreOk(m, c) \/ StoreThrows(m, c)
    BY <1>5, TaskEffect
  <2>2. Changed(c, memory[m]) \in Entry /\ Changed(c, journal[m]) \in Entry
    BY <1>2, <1>3, ChangesType
  <2>3. /\ \A n \in Msg : n # m => memory'[n] = memory[n] /\ journal'[n] = journal[n]
        /\ journal'[m] \in {journal[m], Changed(c, journal[m])}
        /\ StoreOk(m, c) =>
              memory'[m] = Changed(c, memory[m]) /\ journal'[m] = Changed(c, journal[m])
        /\ StoreThrows(m, c) => memory' = memory
    BY <1>1, <2>1, <2>2, StoreStep
  <2>4. QED
    BY <2>1, <2>3
<1>6. QED
  BY <1>4, <1>5

\* An executor lets a message go only when it is finished, or when the agent
\* stops.
LEMMA TaskOwes ==
  ASSUME Shape, NEW x \in Executor, Task(x), NEW m \in Msg, m = task[x].msg
  PROVE  /\ task'[x] = Idle /\ running' => memory'[m].state \in {"ABSENT"} \cup Finished
         /\ /\ task'[x] # Idle
            /\ task[x].at \in {"attempt", "work", "caught"} => memory[m].state \in Unfinished
            => memory'[m].state \in Unfinished
<1>1. StoreShape /\ PipeShape
  BY ShapeParts
<1>2. memory \in [Msg -> Entry \cup {Absent}]
  BY <1>1 DEF StoreShape
<1>3. memory[m] \in Entry \cup {Absent}
  BY <1>2
<1>4. /\ Changed(SetState("PROCESSING"), memory[m]).state = "PROCESSING"
      /\ Changed(SetRetry, memory[m]).state = "RETRY_WAIT"
      /\ \A env : Changed(SetResultPending(env), memory[m]).state = "RESULT_PENDING"
  BY <1>3, Changes
<1>5. ASSUME NEW c, StoreOk(m, c) PROVE memory'[m] = Changed(c, memory[m])
  BY <1>2, <1>5 DEF StoreOk
<1>6. ASSUME NEW c, StoreThrows(m, c) PROVE memory' = memory
  BY <1>6 DEF StoreThrows
<1>7. task[x].at # "idle"
  BY TaskEffect
<1>8. ASSUME NEW a \in {"attempt", "work", "caught"}, Goes(x, a) PROVE task'[x] # Idle
  <2>1. task'[x].at = a
    BY <1>1, <1>7, <1>8, TaskGoes
  <2>2. QED
    BY <2>1 DEF Idle
<1>9. Finishes(x) => task'[x] = Idle
  BY <1>1, TaskFinishes
<1>10. ASSUME task[x].attempt # MaxRetries,
              task' = [task EXCEPT ![x].at = "attempt", ![x].attempt = @ + 1]
       PROVE  task'[x] # Idle
  <2>1. task'[x].at = "attempt"
    BY <1>1, <1>7, <1>10, TaskAgain
  <2>2. QED
    BY <2>1 DEF Idle
<1>11. memory[m].state \in State \cup {"ABSENT"}
  BY <1>3, EntryFields
<1>12. CASE TaskStarts(x)
  <2>1. memory' = memory
    BY <1>12 DEF TaskStarts, storeVars
  <2>2. CASE memory[m].state \in {"ABSENT", "DONE", "RESULT_PENDING"}
    BY <1>9, <1>12, <2>1, <2>2 DEF TaskStarts, Finished
  <2>3. CASE memory[m].state \notin {"ABSENT", "DONE", "RESULT_PENDING"}
    BY <1>8, <1>11, <1>12, <2>1, <2>3 DEF TaskStarts, State, Unfinished
  <2>4. QED
    BY <2>2, <2>3
<1>13. CASE TaskMarksProcessing(x)
  <2>1. task[x].at = "attempt" /\ task'[x] # Idle
    BY <1>8, <1>13 DEF TaskMarksProcessing
  <2>2. memory' = memory \/ memory'[m].state = "PROCESSING"
    BY <1>4, <1>5, <1>6, <1>13 DEF TaskMarksProcessing
  <2>3. QED
    BY <2>1, <2>2 DEF Unfinished
<1>14. CASE TaskSucceeds(x)
  <2>1. CASE StoreOk(m, SetResultPending("work")) /\ Finishes(x)
    BY <1>4, <1>5, <1>9, <2>1 DEF Finished
  <2>2. CASE StoreThrows(m, SetResultPending("work")) /\ Goes(x, "caught")
    BY <1>6, <1>8, <1>14, <2>2 DEF TaskSucceeds
  <2>3. QED
    BY <1>14, <2>1, <2>2 DEF TaskSucceeds
<1>15. CASE TaskFails(x)
  BY <1>8, <1>15 DEF TaskFails, storeVars
<1>16. CASE TaskRetries(x)
  <2> DEFINE change == IF task[x].attempt = MaxRetries THEN SetResultPending("error") ELSE SetRetry
  <2>1. CASE StoreThrows(m, change) /\ Finishes(x) /\ running' = FALSE
    BY <1>9, <2>1
  <2>2. CASE StoreOk(m, change) /\ task[x].attempt = MaxRetries
    BY <1>4, <1>5, <1>9, <1>16, <2>2 DEF TaskRetries, Finished
  <2>3. CASE StoreOk(m, change) /\ task[x].attempt # MaxRetries
    <3>1. memory'[m].state = "RETRY_WAIT"
      BY <1>4, <1>5, <2>3
    <3>2. CASE task' = [task EXCEPT ![x].at = "attempt", ![x].attempt = @ + 1]
      BY <1>10, <2>3, <3>1, <3>2 DEF Unfinished
    <3>3. CASE Finishes(x) /\ running' = FALSE
      BY <1>9, <3>3
    <3>4. QED
      BY <1>16, <2>3, <3>2, <3>3 DEF TaskRetries
  <2>4. QED
    BY <1>16, <2>1, <2>2, <2>3 DEF TaskRetries
<1>17. QED
  BY <1>12, <1>13, <1>14, <1>15, <1>16 DEF Task

\* A message in an executor's hands is held.
LEMMA HolderHolds ==
  ASSUME Shape, NEW x \in Executor, NEW m \in Msg, task[x].msg = m
  PROVE  Hands(m) >= 1 /\ Held(m) >= 1
<1>1. IsFiniteSet(Holders(m)) /\ Hands(m) \in Nat
  BY HandsFacts, ShapeParts DEF PipeShape
<1>2. x \in Holders(m)
  BY DEF Holders
<1>3. Hands(m) # 0
  BY <1>1, <1>2, FS_EmptySet DEF Hands
<1>4. Hands(m) >= 1
  BY <1>1, <1>3
<1>5. /\ In(bundle, m) \in Nat /\ InAll(bundleQueue, m) \in Nat
      /\ InAll(recovering, m) \in Nat /\ In(dispatching, m) \in Nat
      /\ In(workQueue, m) \in Nat
  BY HeldParts
<1>6. QED
  BY <1>1, <1>4, <1>5 DEF Held

LEMMA TaskFlow ==
  ASSUME Shape, Flow, NEW x \in Executor, Task(x)
  PROVE  Flow'
<1>1. Shape'
  BY TaskShape
<1>2. OnlyTask /\ running' \in {running, FALSE}
  BY TaskEffect
<1>3. UNCHANGED <<phase, xa, wasKnown, reader>>
  BY <1>2 DEF OnlyTask, readerVars
<1>4. \A m \in Msg : Held(m)' <= Held(m)
  BY TaskMoves
<1>5. PICK m \in Msg : m = task[x].msg
  BY TaskEffect
<1>6. \A n \in Msg : n # m => memory'[n] = memory[n]
  BY <1>5, TaskWrites
<1>7. KnownStays
  <2>1. Known(m) => Known(m)'
    <3>1. memory[m] \in Entry \cup {Absent} /\ journal[m] \in Entry \cup {Absent}
      BY ShapeParts DEF StoreShape
    <3>2. "PROCESSING" \in State /\ "work" \in Envelope /\ "error" \in Envelope
      BY DEF State, Envelope
    <3>3. \A c \in {SetState("PROCESSING"), SetRetry, SetResultPending("work"),
                    SetResultPending("error")} : Changed(c, memory[m]) # Absent
      BY <3>1, <3>2, ChangesType, EntryFields
    <3>4. memory' = memory \/ memory'[m] # Absent
      BY <1>5, <3>3, TaskWrites
    <3>5. QED
      BY <3>4 DEF Known
  <2>2. QED
    BY <1>6, <2>1 DEF KnownStays, Known
<1>8. HeldOnce' /\ HeldIsKnown' /\ StartsEmpty' /\ NewIsNotHeld'
  BY <1>1, <1>3, <1>4, <1>7, FlowLess, NewSame
<1>9. ASSUME NEW n \in Msg, running', memory'[n].state \in OwedState
      PROVE  Held(n)' >= 1 \/ (memory[n].state \in OwedState /\ Held(n)' = Held(n))
  <2>1. CASE n # m
    BY <1>5, <1>6, <1>9, <2>1, TaskMoves
  <2>2. CASE n = m
    <3>1. task'[x] # Idle
      BY <1>5, <1>9, <2>2, TaskOwes DEF OwedState, Finished
    <3>2. Held(m)' = Held(m)
      BY <1>5, <3>1, TaskMoves
    <3>3. QED
      BY <1>5, <2>2, <3>2, HolderHolds
  <2>3. QED
    BY <2>1, <2>2
<1>10. OwedIsHeld'
  <2>1. \A n \in Msg : phase' \in {"requeue", "run"} /\ running'
                         /\ memory'[n].state \in OwedState =>
           Held(n)' >= 1 \/ (memory[n].state \in OwedState /\ Held(n)' = Held(n))
    BY <1>9
  <2>2. phase' \in {"requeue", "run"} /\ running' => phase \in {"requeue", "run"} /\ running
    BY <1>2, <1>3
  <2>3. QED
    BY <1>1, <2>1, <2>2, OwedSame
<1>11. QED
  BY <1>8, <1>10 DEF Flow

\* What the publisher makes of the entry of the current message.
LEMMA PublisherWrites ==
  ASSUME Shape, Publisher
  PROVE  \/ memory' = memory /\ journal' = journal
         \/ /\ publisher \in {"checkpoint", "finish"} /\ Current \in Msg
            /\ memory[Current] \in Entry /\ journal[Current] \in Entry
            /\ \A n \in Msg : n # Current => memory'[n] = memory[n] /\ journal'[n] = journal[n]
            /\ \E c \in {SetPublishedCount(index + 1), SetState("DONE")} :
                  /\ \/ publisher = "checkpoint" /\ c = SetPublishedCount(index + 1)
                     \/ publisher = "finish" /\ c = SetState("DONE")
                  /\ \/ /\ memory'[Current] = Changed(c, memory[Current])
                        /\ journal'[Current] = Changed(c, journal[Current])
                        /\ PublisherCheckpoints \/ PublisherFinishes
                     \/ /\ memory' = memory
                        /\ journal'[Current] \in {journal[Current], Changed(c, journal[Current])}
                        /\ PublisherCatches
<1>1. StoreShape /\ PublisherShape
  BY ShapeParts
<1>2. \/ UNCHANGED storeVars
      \/ /\ publisher = "checkpoint"
         /\ \/ StoreOk(Current, SetPublishedCount(index + 1)) /\ PublisherCheckpoints
            \/ StoreThrows(Current, SetPublishedCount(index + 1)) /\ PublisherCatches
      \/ /\ publisher = "finish"
         /\ \/ StoreOk(Current, SetState("DONE")) /\ PublisherFinishes
            \/ StoreThrows(Current, SetState("DONE")) /\ PublisherCatches
  BY DEF Publisher, PublisherPolls, PublisherEnqueues, PublisherCheckpoints,
         PublisherFinishes, PublisherCatches, PublisherExits
<1>3. index + 1 \in Nat /\ "DONE" \in State
  BY <1>1 DEF PublisherShape, State
<1>4. CASE UNCHANGED storeVars
  BY <1>4 DEF storeVars
<1>5. CASE ~UNCHANGED storeVars
  <2>1. publisher \in {"checkpoint", "finish"}
    BY <1>2, <1>5
  <2>2. Current \in Msg /\ memory[Current] \in Entry /\ journal[Current] \in Entry
    BY <2>1, CurrentIs
  <2> DEFINE m == Current
             c == IF publisher = "checkpoint" THEN SetPublishedCount(index + 1)
                                              ELSE SetState("DONE")
  <2>3. memory[m] # Absent /\ journal[m] # Absent
    BY <2>2, EntryFields
  <2>4. \/ StoreOk(m, c) /\ (PublisherCheckpoints \/ PublisherFinishes)
        \/ StoreThrows(m, c) /\ PublisherCatches
    BY <1>2, <1>5, <2>1
  <2>5. c \in {SetPublishedCount(index + 1), SetState("DONE")}
    OBVIOUS
  <2>6. \/ publisher = "checkpoint" /\ c = SetPublishedCount(index + 1)
        \/ publisher = "finish" /\ c = SetState("DONE")
    BY <2>1
  <2>7. m \in Msg
    BY <2>2
  <2> HIDE DEF m, c
  <2>8. Changed(c, memory[m]) \in Entry /\ Changed(c, journal[m]) \in Entry
    BY <1>3, <2>2, <2>3, <2>5, ChangesType DEF m
  <2>9. /\ \A n \in Msg : n # m => memory'[n] = memory[n] /\ journal'[n] = journal[n]
        /\ journal'[m] \in {journal[m], Changed(c, journal[m])}
        /\ StoreOk(m, c) =>
              memory'[m] = Changed(c, memory[m]) /\ journal'[m] = Changed(c, journal[m])
        /\ StoreThrows(m, c) => memory' = memory
    BY <1>1, <2>4, <2>7, <2>8, StoreStep
  <2>10. QED
    BY <2>1, <2>2, <2>4, <2>5, <2>6, <2>9 DEF m
<1>6. QED
  BY <1>4, <1>5

LEMMA PublisherFlow ==
  ASSUME Shape, Flow, Publisher
  PROVE  Flow'
<1>1. Shape' /\ KnownStays
  BY PublisherStep, PublisherStore
<1>2. OnlyPublisher
  BY DEF Publisher, PublisherPolls, PublisherEnqueues, PublisherCheckpoints,
         PublisherFinishes, PublisherCatches, PublisherExits
<1>3. /\ UNCHANGED <<phase, running, xa, wasKnown, reader>>
      /\ UNCHANGED <<bundle, bundleQueue, recovering, dispatching, workVars>>
  BY <1>2 DEF OnlyPublisher, readerVars
<1>4. \A m \in Msg : Held(m)' = Held(m)
  BY <1>3, HeldSame
<1>5. \A m \in Msg : Held(m)' <= Held(m)
  BY <1>4, HeldNumbers DEF HeldIsNumber
<1>6. HeldOnce' /\ HeldIsKnown' /\ StartsEmpty' /\ NewIsNotHeld'
  BY <1>1, <1>3, <1>5, FlowLess, NewSame
<1>7. ASSUME NEW m \in Msg, memory'[m].state \in OwedState
      PROVE  memory[m].state \in OwedState
  <2>1. CASE memory' = memory \/ (Current \in Msg /\ m # Current)
    BY <1>7, <2>1, PublisherWrites
  <2>2. CASE m = Current /\ memory' # memory
    <3>1. memory[m] \in Entry
      BY <2>2, PublisherWrites
    <3>2. /\ Changed(SetPublishedCount(index + 1), memory[m]).state = memory[m].state
          /\ Changed(SetState("DONE"), memory[m]).state = "DONE"
      BY <3>1, Changes
    <3>3. memory'[m].state \in {memory[m].state, "DONE"}
      BY <2>2, <3>2, PublisherWrites
    <3>4. QED
      BY <1>7, <3>3 DEF OwedState
  <2>3. QED
    BY <2>1, <2>2, PublisherWrites
<1>8. OwedIsHeld'
  <2>1. \A n \in Msg : phase' \in {"requeue", "run"} /\ running'
                         /\ memory'[n].state \in OwedState =>
           Held(n)' >= 1 \/ (memory[n].state \in OwedState /\ Held(n)' = Held(n))
    BY <1>4, <1>7
  <2>2. phase' \in {"requeue", "run"} /\ running' => phase \in {"requeue", "run"} /\ running
    BY <1>3
  <2>3. QED
    BY <1>1, <2>1, <2>2, OwedSame
<1>9. QED
  BY <1>6, <1>8 DEF Flow

LEMMA EndFlow ==
  ASSUME Shape, Flow, Stop \/ Killed \/ Exits
  PROVE  Flow'
<1>1. CASE Stop
  <2>1. Shape'
    BY <1>1, EndShape
  <2>2. /\ running' = FALSE /\ memory' = memory
        /\ UNCHANGED <<phase, xa, wasKnown, reader>>
        /\ UNCHANGED <<bundle, bundleQueue, recovering, dispatching, workVars>>
    BY <1>1 DEF Stop, storeVars, readerVars, agentVars, workVars
  <2>3. \A m \in Msg : Held(m)' <= Held(m)
    BY <2>2, HeldSame, HeldNumbers DEF HeldIsNumber
  <2>4. KnownStays
    BY <2>2 DEF KnownStays, Known
  <2>5. HeldOnce' /\ HeldIsKnown' /\ StartsEmpty' /\ NewIsNotHeld'
    BY <2>1, <2>2, <2>3, <2>4, FlowLess, NewSame
  <2>6. OwedIsHeld'
    BY <2>2 DEF OwedIsHeld
  <2>7. QED
    BY <2>5, <2>6 DEF Flow
<1>2. CASE ProcessGone
  <2>1. \A m \in Msg : Held(m)' = 0
    BY <1>2, GoneMoves
  <2>2. reader' = "exit" /\ phase' = "down"
    BY <1>2 DEF ProcessGone, ReaderLost
  <2>3. QED
    BY <2>1, <2>2, FlowEmpty
<1>3. QED
  BY <1>1, <1>2 DEF Killed, Exits

LEMMA FlowInit == Init => Flow
<1> SUFFICES ASSUME Init PROVE Flow
  OBVIOUS
<1>1. /\ bundle = <<>> /\ bundleQueue = <<>> /\ recovering = <<>> /\ dispatching = <<>>
      /\ workQueue = <<>> /\ task = [x \in Executor |-> Idle]
      /\ reader = "exit" /\ phase = "down"
  BY DEF Init, ReaderInit
<1>2. ASSUME NEW m \in Msg PROVE Held(m) = 0
  <2>1. In(<<>>, m) = 0 /\ InAll(<<>>, m) = 0
    BY PositionsEmpty, SpotsEmpty DEF In, InAll
  <2>2. Holders(m) = {}
    BY <1>1, Constants DEF Holders, Idle
  <2>3. Hands(m) = 0
    BY <2>2, FS_EmptySet DEF Hands
  <2>4. QED
    BY <1>1, <2>1, <2>3 DEF Held
<1>3. HeldOnce /\ HeldIsKnown /\ NewIsNotHeld /\ StartsEmpty /\ OwedIsHeld
  BY <1>1, <1>2 DEF HeldOnce, HeldIsKnown, NewIsNotHeld, StartsEmpty, OwedIsHeld
<1>4. QED
  BY <1>3 DEF Flow

LEMMA FlowStep == Shape /\ Flow /\ [Next]_vars => Flow'
<1> SUFFICES ASSUME Shape, Flow, [Next]_vars PROVE Flow'
  OBVIOUS
<1>1. CASE UNCHANGED vars
  <2>1. /\ UNCHANGED <<phase, running, memory, xa, wasKnown, reader>>
        /\ UNCHANGED <<bundle, bundleQueue, recovering, dispatching, workVars>>
    BY <1>1 DEF vars, storeVars, readerVars, agentVars, workVars
  <2>2. \A m : Held(m)' = Held(m)
    BY <2>1, HeldSame
  <2>3. (Held(xa))' = Held(xa)
    BY <2>1 DEF Held, Hands, Holders, workVars
  <2>4. HeldOnce' /\ HeldIsKnown' /\ StartsEmpty' /\ OwedIsHeld'
    BY <2>1, <2>2 DEF Flow, HeldOnce, HeldIsKnown, StartsEmpty, OwedIsHeld, Known
  <2>5. NewIsNotHeld'
    BY <2>1, <2>3 DEF Flow, NewIsNotHeld
  <2>6. QED
    BY <2>4, <2>5 DEF Flow
<1>2. QED
  BY <1>1, StartupFlow, ReaderFlow, DispatchFlow, TaskFlow, PublisherFlow, EndFlow DEF Next

\* The places of m in the sense of the properties are as many as Held counts.
LEMMA PlacesAre ==
  ASSUME Shape, NEW m \in Msg
  PROVE  /\ Held(m) >= 1 => Places(m) # {}
         /\ Held(m) <= 1 => \A p, q \in Places(m) : p = q
<1> DEFINE A == Positions(bundle, m)
           B == Spots(bundleQueue, m)
           C == Spots(recovering, m)
           D == Positions(dispatching, m)
           E == Positions(workQueue, m)
           F == Holders(m)
<1>1. /\ bundle \in Seq(Msg) /\ bundleQueue \in Seq(Seq(Msg)) /\ recovering \in Seq(Seq(Msg))
      /\ dispatching \in Seq(Msg) /\ workQueue \in Seq(Msg) /\ task \in [Executor -> TaskType]
  BY ShapeParts DEF ReaderShape, ReaderTypeOK, PipeShape
<1>2. /\ IsFiniteSet(A) /\ IsFiniteSet(B) /\ IsFiniteSet(C) /\ IsFiniteSet(D)
      /\ IsFiniteSet(E) /\ IsFiniteSet(F)
  BY <1>1, PositionsAreFinite, SpotsAreFinite, HandsFacts
<1>3. Held(m) = Cardinality(A) + Cardinality(B) + Cardinality(C) + Cardinality(D)
                  + Cardinality(E) + Cardinality(F)
  BY DEF Held, In, InAll, Hands
<1>4. \A z : z \in Places(m) <=>
         \/ \E i \in A : z = <<"bundle", i>>
         \/ \E p \in B : z = <<"queued", p[1], p[2]>>
         \/ \E p \in C : z = <<"recovering", p[1], p[2]>>
         \/ \E i \in D : z = <<"dispatching", i>>
         \/ \E i \in E : z = <<"waiting", i>>
         \/ \E x \in F : z = <<"task", x>>
  <2>1. \A s : Occurrences(m, s) = Positions(s, m)
    BY DEF Occurrences, Positions
  <2>2. ASSUME NEW ss \in Seq(Seq(Msg))
        PROVE  \A i, j : <<i, j>> \in Spots(ss, m) <=>
                            i \in 1..Len(ss) /\ j \in Occurrences(m, ss[i])
    <3>1. \A p : p \in Spots(ss, m) <=>
             \E i \in 1..Len(ss) : \E j \in Positions(ss[i], m) : p = <<i, j>>
      BY <2>2, SpotsAre
    <3>2. \A i, j, k, l : <<i, j>> = <<k, l>> => i = k /\ j = l
      OBVIOUS
    <3>3. QED
      BY <2>1, <3>1, <3>2
  <2>3. ASSUME NEW z
        PROVE  z \in Places(m) <=>
                 \/ \E i \in Occurrences(m, bundle) : z = <<"bundle", i>>
                 \/ \E i \in 1..Len(bundleQueue) : \E j \in Occurrences(m, bundleQueue[i]) :
                       z = <<"queued", i, j>>
                 \/ \E i \in 1..Len(recovering) : \E j \in Occurrences(m, recovering[i]) :
                       z = <<"recovering", i, j>>
                 \/ \E i \in Occurrences(m, dispatching) : z = <<"dispatching", i>>
                 \/ \E i \in Occurrences(m, workQueue) : z = <<"waiting", i>>
                 \/ \E x \in Holders(m) : z = <<"task", x>>
    <3>1. \A s, name : z \in UNION {{<<name, i, j>> : j \in Occurrences(m, s[i])} :
                                      i \in 1..Len(s)}
             <=> \E i \in 1..Len(s) : \E j \in Occurrences(m, s[i]) : z = <<name, i, j>>
      OBVIOUS
    <3>2. \A S, name : z \in {<<name, i>> : i \in S} <=> \E i \in S : z = <<name, i>>
      OBVIOUS
    <3> DEFINE P1 == {<<"bundle", i>> : i \in Occurrences(m, bundle)}
               P2 == UNION {{<<"queued", i, j>> : j \in Occurrences(m, bundleQueue[i])} :
                              i \in 1..Len(bundleQueue)}
               P3 == UNION {{<<"recovering", i, j>> : j \in Occurrences(m, recovering[i])} :
                              i \in 1..Len(recovering)}
               P4 == {<<"dispatching", i>> : i \in Occurrences(m, dispatching)}
               P5 == {<<"waiting", i>> : i \in Occurrences(m, workQueue)}
               P6 == {<<"task", x>> : x \in Holders(m)}
    <3>3. z \in Places(m) <=>
             z \in P1 \/ z \in P2 \/ z \in P3 \/ z \in P4 \/ z \in P5 \/ z \in P6
      BY DEF Places, Holders
    <3>4. z \in P2 <=> \E i \in 1..Len(bundleQueue) : \E j \in Occurrences(m, bundleQueue[i]) :
                          z = <<"queued", i, j>>
      BY <3>1
    <3>5. z \in P3 <=> \E i \in 1..Len(recovering) : \E j \in Occurrences(m, recovering[i]) :
                          z = <<"recovering", i, j>>
      BY <3>1
    <3>6. z \in P1 <=> \E i \in Occurrences(m, bundle) : z = <<"bundle", i>>
      BY <3>2
    <3>7. z \in P4 <=> \E i \in Occurrences(m, dispatching) : z = <<"dispatching", i>>
      BY <3>2
    <3>8. z \in P5 <=> \E i \in Occurrences(m, workQueue) : z = <<"waiting", i>>
      BY <3>2
    <3>9. z \in P6 <=> \E x \in Holders(m) : z = <<"task", x>>
      BY <3>2
    <3> HIDE DEF P1, P2, P3, P4, P5, P6
    <3>10. QED
      BY <3>3, <3>4, <3>5, <3>6, <3>7, <3>8, <3>9
  <2>4. /\ \A i, j : <<i, j>> \in B <=> i \in 1..Len(bundleQueue)
                                          /\ j \in Occurrences(m, bundleQueue[i])
        /\ \A i, j : <<i, j>> \in C <=> i \in 1..Len(recovering)
                                          /\ j \in Occurrences(m, recovering[i])
    BY <1>1, <2>2
  <2>5. /\ \A p \in B : p = <<p[1], p[2]>>
        /\ \A p \in C : p = <<p[1], p[2]>>
        /\ \A i, j : <<i, j>>[1] = i /\ <<i, j>>[2] = j
    <3>1. ASSUME NEW ss \in Seq(Seq(Msg)), NEW p \in Spots(ss, m)
          PROVE  p = <<p[1], p[2]>>
      <4>1. PICK i \in 1..Len(ss) : \E j \in Positions(ss[i], m) : p = <<i, j>>
        BY <3>1, SpotsAre
      <4>2. PICK j \in Positions(ss[i], m) : p = <<i, j>>
        BY <4>1
      <4>3. QED
        BY <4>2
    <3>2. QED
      BY <1>1, <3>1
  <2>6. Occurrences(m, bundle) = A /\ Occurrences(m, dispatching) = D
        /\ Occurrences(m, workQueue) = E /\ Holders(m) = F
    BY <2>1
  <2> HIDE DEF A, B, C, D, E, F
  <2>7. ASSUME NEW z
        PROVE  /\ (\E i \in 1..Len(bundleQueue) : \E j \in Occurrences(m, bundleQueue[i]) :
                     z = <<"queued", i, j>>) <=> (\E p \in B : z = <<"queued", p[1], p[2]>>)
               /\ (\E i \in 1..Len(recovering) : \E j \in Occurrences(m, recovering[i]) :
                     z = <<"recovering", i, j>>)
                   <=> (\E p \in C : z = <<"recovering", p[1], p[2]>>)
    <3>1. ASSUME NEW i \in 1..Len(bundleQueue), NEW j \in Occurrences(m, bundleQueue[i]),
                 z = <<"queued", i, j>>
          PROVE  \E p \in B : z = <<"queued", p[1], p[2]>>
      BY <2>4, <2>5, <3>1
    <3>2. ASSUME NEW i \in 1..Len(recovering), NEW j \in Occurrences(m, recovering[i]),
                 z = <<"recovering", i, j>>
          PROVE  \E p \in C : z = <<"recovering", p[1], p[2]>>
      BY <2>4, <2>5, <3>2
    <3>3. ASSUME NEW p \in B, z = <<"queued", p[1], p[2]>>
          PROVE  \E i \in 1..Len(bundleQueue) : \E j \in Occurrences(m, bundleQueue[i]) :
                    z = <<"queued", i, j>>
      <4>1. <<p[1], p[2]>> \in B
        BY <2>5, <3>3
      <4>2. p[1] \in 1..Len(bundleQueue) /\ p[2] \in Occurrences(m, bundleQueue[p[1]])
        BY <2>4, <4>1
      <4>3. QED
        BY <3>3, <4>2
    <3>4. ASSUME NEW p \in C, z = <<"recovering", p[1], p[2]>>
          PROVE  \E i \in 1..Len(recovering) : \E j \in Occurrences(m, recovering[i]) :
                    z = <<"recovering", i, j>>
      <4>1. <<p[1], p[2]>> \in C
        BY <2>5, <3>4
      <4>2. p[1] \in 1..Len(recovering) /\ p[2] \in Occurrences(m, recovering[p[1]])
        BY <2>4, <4>1
      <4>3. QED
        BY <3>4, <4>2
    <3>5. QED
      BY <3>1, <3>2, <3>3, <3>4
  <2>8. QED
    BY <2>3, <2>6, <2>7
<1>5. ASSUME NEW S, IsFiniteSet(S)
      PROVE  /\ Cardinality(S) \in Nat
             /\ Cardinality(S) = 0 <=> S = {}
             /\ Cardinality(S) <= 1 => \A p, q \in S : p = q
  BY <1>5, FS_CardinalityType, FS_EmptySet, FS_Singleton
<1> DEFINE a == Cardinality(A)
           b == Cardinality(B)
           c == Cardinality(C)
           d == Cardinality(D)
           e == Cardinality(E)
           f == Cardinality(F)
<1>6. a \in Nat /\ b \in Nat /\ c \in Nat /\ d \in Nat /\ e \in Nat /\ f \in Nat
  BY <1>2, <1>5
<1>7. /\ a = 0 <=> A = {}
      /\ b = 0 <=> B = {}
      /\ c = 0 <=> C = {}
      /\ d = 0 <=> D = {}
      /\ e = 0 <=> E = {}
      /\ f = 0 <=> F = {}
  BY <1>2, <1>5
<1>8. /\ a <= 1 => \A p, q \in A : p = q
      /\ b <= 1 => \A p, q \in B : p = q
      /\ c <= 1 => \A p, q \in C : p = q
      /\ d <= 1 => \A p, q \in D : p = q
      /\ e <= 1 => \A p, q \in E : p = q
      /\ f <= 1 => \A p, q \in F : p = q
  BY <1>2, <1>5
<1>9. Held(m) = a + b + c + d + e + f
  BY <1>3
<1> HIDE DEF a, b, c, d, e, f, A, B, C, D, E, F
<1>10. ASSUME Held(m) >= 1 PROVE Places(m) # {}
  <2>1. a # 0 \/ b # 0 \/ c # 0 \/ d # 0 \/ e # 0 \/ f # 0
    BY <1>6, <1>9, <1>10
  <2>2. A # {} \/ B # {} \/ C # {} \/ D # {} \/ E # {} \/ F # {}
    BY <1>7, <2>1
  <2>3. QED
    BY <1>4, <2>2
<1>11. ASSUME Held(m) <= 1 PROVE \A p, q \in Places(m) : p = q
  <2>1. \/ a <= 1 /\ b = 0 /\ c = 0 /\ d = 0 /\ e = 0 /\ f = 0
        \/ a = 0 /\ b <= 1 /\ c = 0 /\ d = 0 /\ e = 0 /\ f = 0
        \/ a = 0 /\ b = 0 /\ c <= 1 /\ d = 0 /\ e = 0 /\ f = 0
        \/ a = 0 /\ b = 0 /\ c = 0 /\ d <= 1 /\ e = 0 /\ f = 0
        \/ a = 0 /\ b = 0 /\ c = 0 /\ d = 0 /\ e <= 1 /\ f = 0
        \/ a = 0 /\ b = 0 /\ c = 0 /\ d = 0 /\ e = 0 /\ f <= 1
    BY <1>6, <1>9, <1>11
  <2>2. CASE a <= 1 /\ b = 0 /\ c = 0 /\ d = 0 /\ e = 0 /\ f = 0
    BY <1>4, <1>7, <1>8, <2>2
  <2>3. CASE a = 0 /\ b <= 1 /\ c = 0 /\ d = 0 /\ e = 0 /\ f = 0
    BY <1>4, <1>7, <1>8, <2>3
  <2>4. CASE a = 0 /\ b = 0 /\ c <= 1 /\ d = 0 /\ e = 0 /\ f = 0
    BY <1>4, <1>7, <1>8, <2>4
  <2>5. CASE a = 0 /\ b = 0 /\ c = 0 /\ d <= 1 /\ e = 0 /\ f = 0
    BY <1>4, <1>7, <1>8, <2>5
  <2>6. CASE a = 0 /\ b = 0 /\ c = 0 /\ d = 0 /\ e <= 1 /\ f = 0
    BY <1>4, <1>7, <1>8, <2>6
  <2>7. CASE a = 0 /\ b = 0 /\ c = 0 /\ d = 0 /\ e = 0 /\ f <= 1
    BY <1>4, <1>7, <1>8, <2>7
  <2>8. QED
    BY <2>1, <2>2, <2>3, <2>4, <2>5, <2>6, <2>7
<1>12. QED
  BY <1>10, <1>11

LEMMA FlowHolds == Spec => [](Shape /\ Flow)
<1>1. Init => Shape /\ Flow
  BY ShapeInit, FlowInit
<1>2. Shape /\ Flow /\ [Next]_vars => (Shape /\ Flow)'
  BY ShapeStep, FlowStep
<1>3. QED
  BY <1>1, <1>2, PTL DEF Spec

\* A message is in one place of the pipeline at most, whatever is restarted
\* or delivered again: the reader dispatches only what the store did not know
\* (BundleReader.run()), startup only what no thread has (requeueRecoverable()).
THEOREM NoDuplicateWork == Spec => []NeverTwice
<1>1. Shape /\ Flow => NeverTwice
  BY PlacesAre DEF NeverTwice, Flow, HeldOnce
<1>2. QED
  BY <1>1, FlowHolds, PTL

\* While the agent runs, every unfinished message the store has marked READY
\* is in some place of the pipeline.
THEOREM NoWorkForgotten == Spec => []NothingForgotten
<1>1. Shape /\ Flow => NothingForgotten
  BY PlacesAre DEF NothingForgotten, Flow, OwedIsHeld
<1>2. QED
  BY <1>1, FlowHolds, PTL

-----------------------------------------------------------------------------
(* Every step keeps the ownership *)

\* Two executors never have the same message.
LEMMA OneHolder ==
  ASSUME Shape, Flow, NEW x \in Executor, NEW y \in Executor, task[x].msg = task[y].msg,
         task[x] # Idle
  PROVE  x = y
<1>1. task[x].msg \in Msg
  BY DEF Shape, TaskHands
<1> DEFINE m == task[x].msg
<1>2. SUFFICES ASSUME x # y PROVE FALSE
  OBVIOUS
<1>3. IsFiniteSet(Holders(m)) /\ Hands(m) \in Nat
  BY HandsFacts, ShapeParts DEF PipeShape
<1>4. x \in Holders(m) /\ y \in Holders(m)
  BY DEF Holders
<1>5. /\ In(bundle, m) \in Nat /\ InAll(bundleQueue, m) \in Nat
      /\ InAll(recovering, m) \in Nat /\ In(dispatching, m) \in Nat
      /\ In(workQueue, m) \in Nat
  BY HeldParts
<1>6. Held(m) <= 1
  BY <1>1 DEF Flow, HeldOnce
<1>7. Held(m) = In(bundle, m) + InAll(bundleQueue, m) + InAll(recovering, m)
                  + In(dispatching, m) + In(workQueue, m) + Hands(m)
  BY DEF Held
<1> HIDE DEF m
<1>8. Hands(m) <= 1
  BY <1>3, <1>5, <1>6, <1>7
<1>9. Hands(m) = 0 \/ Hands(m) = 1
  BY <1>3, <1>8
<1>10. QED
  BY <1>2, <1>3, <1>4, <1>9, FS_EmptySet, FS_Singleton DEF Hands

\* Before the threads start no executor has a message.
LEMMA IdleAtStart ==
  ASSUME Shape, Flow, phase \in {"down", "discard"}, NEW x \in Executor
  PROVE  task[x] = Idle
<1>1. SUFFICES ASSUME task[x] # Idle PROVE FALSE
  OBVIOUS
<1>2. PICK m \in Msg : m = task[x].msg
  BY <1>1 DEF Shape, TaskHands
<1>3. Held(m) = 0
  BY DEF Flow, StartsEmpty
<1>4. Held(m) >= 1
  BY <1>2, HolderHolds
<1>5. QED
  BY <1>3, <1>4

\* Nothing is stored or published in this step.
LEMMA OwnSame ==
  ASSUME Ownership, UNCHANGED <<memory, journal, published, pending>>,
         ExecutorsAreFirst', ReaderIsFirst', phase' # "down" => phase # "down"
  PROVE  Ownership'
BY DEF Ownership, PublisherIsLast, ResultIsInJournal, PublishedIsFinished,
       PublishedResultIsKept

LEMMA StartupOwn ==
  ASSUME Shape, Flow, Ownership, Startup
  PROVE  Ownership'
<1>1. /\ phase # "run" /\ reader = "exit" /\ publisher = "exit" /\ pending = <<>>
  BY DEF Startup, Open, DiscardUnresolved, CollectRecoverable, Requeue, StartThreads,
         Shape, NoThreadsYet, PublisherHands
<1>2. ASSUME reader' \in {"exit", "dequeue"} PROVE ReaderIsFirst'
  BY <1>2 DEF ReaderIsFirst
<1>3. memory \in [Msg -> Entry \cup {Absent}] /\ journal \in [Msg -> Entry \cup {Absent}]
  BY DEF Shape, TypeOK
<1>4. ASSUME phase \in {"down", "discard"}, task' = task PROVE ExecutorsAreFirst'
  <2>1. \A x \in Executor : task'[x] = Idle
    BY <1>4, IdleAtStart
  <2>2. QED
    BY <2>1 DEF ExecutorsAreFirst, Idle
<1>5. ASSUME pending' = pending PROVE PublisherIsLast'
  <2>1. \A i \in 1..Len(<<>>) : FALSE
    OBVIOUS
  <2>2. NoRepeats(<<>>)
    BY <2>1 DEF NoRepeats
  <2>3. QED
    BY <1>1, <1>5, <2>1, <2>2 DEF PublisherIsLast
<1>6. CASE Open
  <2>1. /\ phase = "down" /\ memory' = journal /\ journal' = journal /\ published' = published
        /\ task' = task /\ pending' = pending /\ reader' = reader
    BY <1>6 DEF Open, StoreOpened, readerVars, agentVars
  <2>2. ExecutorsAreFirst' /\ ReaderIsFirst' /\ PublisherIsLast'
    BY <1>1, <1>2, <1>4, <1>5, <2>1
  <2>3. ResultIsInJournal' /\ PublishedResultIsKept'
    BY <2>1 DEF Ownership, ResultIsInJournal, PublishedResultIsKept
  <2>4. PublishedIsFinished'
    BY <2>1 DEF Ownership, PublishedIsFinished, PublishedResultIsKept, Finished
  <2>5. QED
    BY <2>2, <2>3, <2>4 DEF Ownership
<1>7. CASE DiscardUnresolved
  <2>1. /\ phase = "discard" /\ phase' = phase /\ published' = published
        /\ task' = task /\ pending' = pending /\ reader' = reader
    BY <1>7 DEF DiscardUnresolved, readerVars, agentVars
  <2>2. ExecutorsAreFirst' /\ ReaderIsFirst' /\ PublisherIsLast'
    BY <1>1, <1>2, <1>4, <1>5, <2>1
  <2>3. Unresolved \in SUBSET Msg /\ Unresolved # {}
    BY <1>7 DEF Unresolved, Recoverable, DiscardUnresolved
  <2>4. PICK m \in Unresolved : m = Earliest(Unresolved)
    BY <2>3, EarliestIsThere
  <2>5. m \in Msg /\ memory[m].state = "COMMITTING"
    BY <2>3, <2>4 DEF Unresolved
  <2>6. Changed(DiscardIt, memory[m]) = Absent /\ Changed(DiscardIt, journal[m]) = Absent
    BY <1>3, <2>5, Changes
  <2>7. StoreOk(m, DiscardIt)
    BY <1>7, <2>4 DEF DiscardUnresolved
  <2>8. /\ memory'[m] = Absent /\ journal'[m] = Absent
        /\ \A n \in Msg : n # m => memory'[n] = memory[n] /\ journal'[n] = journal[n]
    BY <1>3, <2>5, <2>6, <2>7 DEF StoreOk
  <2>9. published[m] = <<>>
    BY <2>1, <2>5 DEF Ownership, PublishedIsFinished, Finished
  <2>10. ResultIsInJournal'
    BY <2>8 DEF Ownership, ResultIsInJournal, Finished, Absent
  <2>11. PublishedIsFinished'
    BY <2>1, <2>8, <2>9 DEF Ownership, PublishedIsFinished
  <2>12. PublishedResultIsKept'
    BY <2>1, <2>8, <2>9 DEF Ownership, PublishedResultIsKept
  <2>13. QED
    BY <2>2, <2>10, <2>11, <2>12 DEF Ownership
<1>8. CASE CollectRecoverable \/ Requeue \/ StartThreads
  <2>1. /\ UNCHANGED <<memory, journal, published, pending, task>> /\ phase # "down"
        /\ reader' \in {"exit", "dequeue"}
    BY <1>1, <1>8 DEF CollectRecoverable, Requeue, StartThreads, storeVars, readerVars,
          workVars, pubVars
  <2>2. ExecutorsAreFirst'
    BY <2>1 DEF Ownership, ExecutorsAreFirst
  <2>3. QED
    BY <1>2, <2>1, <2>2, OwnSame
<1>9. QED
  BY <1>6, <1>7, <1>8 DEF Startup

LEMMA DispatchOwn ==
  ASSUME Shape, Flow, Ownership, Dispatch \/ (\E w \in Worker : WorkerTakes(w))
  PROVE  Ownership'
<1>1. /\ UNCHANGED <<phase, memory, journal, published, pending, xa, wasKnown, reader>>
  BY DEF Dispatch, DispatcherPolls, DispatcherExecutes, DispatcherDrops, DispatcherExits,
         WorkerTakes, readerVars, storeVars, pubVars
<1>2. ReaderIsFirst'
  BY <1>1 DEF Ownership, ReaderIsFirst, Known
<1>3. task \in [Executor -> TaskType]
  BY ShapeParts DEF PipeShape
<1>4. ASSUME NEW x \in Executor PROVE task'[x] = task[x] \/ task'[x].at = "start"
  <2>1. \/ task' = task
        \/ \E y, h : task' = [task EXCEPT ![y] = [at |-> "start", msg |-> h, attempt |-> 0]]
    BY DEF Dispatch, DispatcherPolls, DispatcherExecutes, DispatcherDrops, DispatcherExits,
           WorkerTakes, workVars
  <2>2. QED
    BY <1>3, <2>1
<1>5. ExecutorsAreFirst'
  BY <1>1, <1>4 DEF Ownership, ExecutorsAreFirst
<1>6. QED
  BY <1>1, <1>2, <1>5, OwnSame

\* The reader's message is its own while it is new: no executor has it and
\* the publisher is not at it.
LEMMA ReaderIsFirstStays ==
  ASSUME Shape, Flow, Ownership, NEW m \in Msg,
         UNCHANGED <<reader, xa, wasKnown>>,
         \A n \in Msg : n # m => memory'[n] = memory[n] /\ journal'[n] = journal[n],
         journal'[m] # Absent,
         reader \in {"stage", "commit", "ready"} /\ ~wasKnown /\ xa = m => memory'[m] = memory[m]
  PROVE  ReaderIsFirst'
<1>1. /\ reader = "stage" /\ ~wasKnown => ~Known(xa)
      /\ reader = "commit" /\ ~wasKnown /\ xa \notin HealthCheck => memory[xa].state = "COMMITTING"
      /\ reader = "commit" /\ xa \notin HealthCheck => journal[xa] # Absent
      /\ reader = "ready" => memory[xa].state = "COMMITTING"
      /\ reader = "ready" => ~wasKnown
  BY DEF Ownership, ReaderIsFirst, Flow, NewIsNotHeld
<1>2. reader \in {"stage", "commit", "ready"} => xa \in Msg
  BY DEF Shape, ReaderHands
<1>3. reader \in {"stage", "commit", "ready"} => journal'[xa] = journal[xa] \/ journal'[xa] # Absent
  BY <1>2
<1>4. reader \in {"stage", "commit", "ready"} /\ ~wasKnown => memory'[xa] = memory[xa]
  BY <1>2
<1>5. reader' = "stage" /\ ~wasKnown' => ~Known(xa)'
  BY <1>1, <1>4 DEF Known
<1>6. reader' = "commit" /\ ~wasKnown' /\ xa' \notin HealthCheck
        => memory'[xa'].state = "COMMITTING"
  BY <1>1, <1>4
<1>7. reader' = "commit" /\ xa' \notin HealthCheck => journal'[xa'] # Absent
  BY <1>1, <1>3
<1>8. reader' = "ready" => memory'[xa'].state = "COMMITTING"
  BY <1>1, <1>4
<1>9. QED
  BY <1>5, <1>6, <1>7, <1>8 DEF ReaderIsFirst, Known

\* What the changes an executor asks for make of an entry.
LEMMA TaskChanges ==
  ASSUME NEW e \in Entry \cup {Absent},
         NEW c \in {SetState("PROCESSING"), SetRetry, SetResultPending("work"),
                    SetResultPending("error")}
  PROVE  /\ Changed(c, e) \in Entry
         /\ Changed(c, e).state \in {"PROCESSING", "RETRY_WAIT", "RESULT_PENDING"}
         /\ \A f \in Entry \cup {Absent} : Changed(c, e).state \in Finished =>
               Changed(c, f).state \in Finished /\ Changed(c, f).result = Changed(c, e).result
<1>1. "PROCESSING" \in State /\ "work" \in Envelope /\ "error" \in Envelope
  BY DEF State, Envelope
<1>2. Changed(c, e) \in Entry
  BY <1>1, ChangesType
<1>3. \A f \in Entry \cup {Absent} :
         /\ Changed(SetState("PROCESSING"), f).state = "PROCESSING"
         /\ Changed(SetRetry, f).state = "RETRY_WAIT"
         /\ Changed(SetResultPending("work"), f).state = "RESULT_PENDING"
         /\ Changed(SetResultPending("error"), f).state = "RESULT_PENDING"
         /\ Changed(SetResultPending("work"), f).result = "work"
         /\ Changed(SetResultPending("error"), f).result = "error"
  BY Changes
<1>4. QED
  BY <1>2, <1>3 DEF Finished

LEMMA TaskOwn ==
  ASSUME Shape, Flow, Ownership, NEW x \in Executor, Task(x)
  PROVE  Ownership'
<1>1. PICK m \in Msg : m = task[x].msg
  BY TaskEffect
<1>2. /\ OnlyTask /\ task[x].at # "idle"
      /\ task'[x] = Idle \/ (task'[x].msg = task[x].msg /\ task'[x].at # "start")
      /\ \A y \in Executor : y # x => task'[y] = task[y]
      /\ UNCHANGED storeVars \/ task[x].at \in {"attempt", "work", "caught"}
  BY TaskEffect
<1>3. UNCHANGED <<phase, published, pending, xa, wasKnown, reader>>
  BY <1>2 DEF OnlyTask, readerVars, pubVars
<1>4. memory[m] \in Entry \cup {Absent} /\ journal[m] \in Entry \cup {Absent}
  BY DEF Shape, TypeOK
<1>5. /\ \A n \in Msg : n # m => memory'[n] = memory[n] /\ journal'[n] = journal[n]
      /\ \/ memory' = memory /\ journal' = journal
         \/ \E c \in {SetState("PROCESSING"), SetRetry, SetResultPending("work"),
                      SetResultPending("error")} :
               \/ memory'[m] = Changed(c, memory[m]) /\ journal'[m] = Changed(c, journal[m])
               \/ memory' = memory /\ journal'[m] \in {journal[m], Changed(c, journal[m])}
  BY <1>1, TaskWrites
<1>6. task[x] # Idle
  BY <1>2 DEF Idle
<1>7. ExecutorsAreFirst'
  <2>1. ASSUME NEW y \in Executor, task'[y].at \in {"attempt", "work", "caught"}
        PROVE  memory'[task'[y].msg].state \in Unfinished
    <3>1. CASE y = x
      <4>1. task'[x] # Idle /\ task'[x].msg = m
        BY <1>1, <1>2, <2>1, <3>1 DEF Idle
      <4>2. task[x].at \in {"attempt", "work", "caught"} => memory[m].state \in Unfinished
        BY <1>1 DEF Ownership, ExecutorsAreFirst
      <4>3. memory'[m].state \in Unfinished
        BY <1>1, <4>1, <4>2, TaskOwes
      <4>4. QED
        BY <3>1, <4>1, <4>3
    <3>2. CASE y # x
      <4>1. task'[y] = task[y] /\ task[y] # Idle
        BY <1>2, <2>1, <3>2 DEF Idle
      <4>2. task[y].msg \in Msg
        BY <4>1 DEF Shape, TaskHands
      <4>3. task[y].msg # m
        BY <1>1, <1>6, <3>2, OneHolder
      <4>4. memory'[task[y].msg] = memory[task[y].msg]
        BY <1>5, <4>2, <4>3
      <4>5. memory[task[y].msg].state \in Unfinished
        BY <2>1, <4>1 DEF Ownership, ExecutorsAreFirst
      <4>6. QED
        BY <4>1, <4>4, <4>5
    <3>3. QED
      BY <3>1, <3>2
  <2>2. QED
    BY <2>1 DEF ExecutorsAreFirst
<1>8. phase # "down"
  BY <1>6, IdleAtStart
<1>9. CASE UNCHANGED storeVars
  <2>1. memory' = memory /\ journal' = journal
    BY <1>9 DEF storeVars
  <2>2. ReaderIsFirst'
    BY <1>3, <2>1 DEF Ownership, ReaderIsFirst, Known
  <2>3. QED
    BY <1>3, <1>7, <2>1, <2>2, OwnSame
<1>10. CASE ~UNCHANGED storeVars
  <2>1. memory[m].state \in Unfinished
    BY <1>1, <1>2, <1>10 DEF Ownership, ExecutorsAreFirst
  <2>2. published[m] = <<>>
    BY <1>8, <2>1 DEF Ownership, PublishedIsFinished, Unfinished, Finished
  <2>3. Known(m) /\ journal[m] # Absent
    BY <2>1, EntryFields DEF Unfinished, Known, Shape, KnownIsInJournal
  <2>4. journal'[m] # Absent
    BY <1>4, <1>5, <2>3, TaskChanges, EntryFields
  <2>5. ReaderIsFirst'
    <3>1. ASSUME reader \in {"stage", "commit", "ready"}, ~wasKnown, xa = m PROVE FALSE
      <4>1. Held(m) = 0
        BY <3>1 DEF Flow, NewIsNotHeld
      <4>2. Held(m) >= 1
        BY <1>1, HolderHolds
      <4>3. QED
        BY <4>1, <4>2
    <3>2. QED
      BY <1>3, <1>5, <2>4, <3>1, ReaderIsFirstStays
  <2>6. PublisherIsLast'
    <3>1. \A i \in 1..Len(pending) : pending[i] \in Msg /\ pending[i] # m
      <4>1. pending \in Seq(Msg)
        BY DEF Shape, TypeOK
      <4>2. QED
        BY <2>1, <4>1, ElementOfSeq DEF Ownership, PublisherIsLast, Unfinished
    <3>2. \A i \in 1..Len(pending) : memory'[pending[i]] = memory[pending[i]]
      BY <1>5, <3>1
    <3>3. QED
      BY <1>3, <3>2 DEF Ownership, PublisherIsLast
  <2>7. ResultIsInJournal'
    <3>1. memory'[m].state \in Finished =>
             journal'[m].state \in Finished /\ journal'[m].result = memory'[m].result
      <4>1. memory[m].state \notin Finished
        BY <2>1 DEF Unfinished, Finished
      <4>2. SUFFICES ASSUME memory' # memory, memory'[m].state \in Finished
                     PROVE  journal'[m].state \in Finished /\ journal'[m].result = memory'[m].result
        BY <4>1
      <4>3. PICK c \in {SetState("PROCESSING"), SetRetry, SetResultPending("work"),
                        SetResultPending("error")} :
               memory'[m] = Changed(c, memory[m]) /\ journal'[m] = Changed(c, journal[m])
        BY <1>5, <4>2
      <4>4. \A f \in Entry \cup {Absent} : Changed(c, memory[m]).state \in Finished =>
               /\ Changed(c, f).state \in Finished
               /\ Changed(c, f).result = Changed(c, memory[m]).result
        BY <1>4, <4>3, TaskChanges
      <4>5. /\ Changed(c, journal[m]).state \in Finished
            /\ Changed(c, journal[m]).result = Changed(c, memory[m]).result
        BY <1>4, <4>2, <4>3, <4>4
      <4>6. QED
        BY <4>3, <4>5
    <3>2. QED
      BY <1>5, <3>1 DEF Ownership, ResultIsInJournal
  <2>8. PublishedIsFinished'
    BY <1>3, <1>5, <2>2 DEF Ownership, PublishedIsFinished
  <2>9. PublishedResultIsKept'
    BY <1>3, <1>5, <2>2 DEF Ownership, PublishedResultIsKept
  <2>10. QED
    BY <1>7, <2>5, <2>6, <2>7, <2>8, <2>9 DEF Ownership
<1>11. QED
  BY <1>9, <1>10

LEMMA ReadOwn ==
  ASSUME Shape, Flow, Ownership, Read
  PROVE  Ownership'
<1>1. Reader /\ phase = "run" /\ phase' = phase /\ UNCHANGED <<published, pending, task>>
  BY ReaderTakes DEF Read, agentVars
<1>2. \A m \in Msg : m # xa => memory'[m] = memory[m] /\ journal'[m] = journal[m]
  BY <1>1, ReaderWrites
<1>3. reader \in {"stage", "commit", "ready"} => xa \in Msg
  BY DEF Shape, ReaderHands
<1>4. ReaderIsFirst'
  <2>1. CASE reader' \notin {"stage", "commit", "ready"}
    BY <2>1 DEF ReaderIsFirst
  <2>2. CASE reader' \in {"stage", "commit", "ready"} /\ ReaderDequeues
    <3>1. /\ wasKnown' = Known(xa') /\ reader' # "ready" /\ memory' = memory /\ journal' = journal
          /\ reader' = "commit" => xa' \in HealthCheck
      BY <2>2, ReaderTakes DEF ReaderDequeues, ReaderStages, ReaderCommits
    <3>2. ~wasKnown' => memory'[xa'] = Absent
      BY <3>1 DEF Known
    <3>3. QED
      BY <3>1, <3>2 DEF ReaderIsFirst, Known
  <2>3. CASE reader' \in {"stage", "commit", "ready"} /\ ReaderStages
    <3>1. xa' = xa /\ wasKnown' = wasKnown /\ reader = "stage" /\ reader' = "commit" /\ xa \in Msg
      BY <1>3, <2>3 DEF ReaderStages
    <3>2. CASE Known(xa)
      <4>1. wasKnown
        BY <3>1, <3>2 DEF Ownership, ReaderIsFirst
      <4>2. journal'[xa] # Absent
        <5>1. memory' = memory /\ journal' = journal
          BY <2>3, <3>2 DEF ReaderStages, storeVars
        <5>2. QED
          BY <3>1, <3>2, <5>1 DEF Shape, KnownIsInJournal
      <4>3. QED
        BY <3>1, <4>1, <4>2 DEF ReaderIsFirst
    <3>3. CASE ~Known(xa)
      <4>1. StoreOk(xa, StageIt)
        BY <2>3, <3>3 DEF ReaderStages
      <4>2. memory \in [Msg -> Entry \cup {Absent}] /\ journal \in [Msg -> Entry \cup {Absent}]
        BY DEF Shape, TypeOK
      <4>3. /\ memory'[xa] = Changed(StageIt, memory[xa])
            /\ journal'[xa] = Changed(StageIt, journal[xa])
        BY <3>1, <4>1, <4>2 DEF StoreOk
      <4>4. memory'[xa].state = "COMMITTING" /\ journal'[xa].state = "COMMITTING"
        BY <3>1, <4>2, <4>3, Changes
      <4>5. journal'[xa] # Absent
        BY <4>4, EntryFields
      <4>6. QED
        BY <3>1, <4>4, <4>5 DEF ReaderIsFirst
    <3>4. QED
      BY <3>2, <3>3
  <2>4. CASE reader' \in {"stage", "commit", "ready"} /\ ReaderCommits
    <3>1. /\ xa' = xa /\ ~wasKnown /\ xa \notin HealthCheck /\ memory' = memory
          /\ reader = "commit" /\ reader' = "ready"
      BY <2>4, ReaderTakes DEF ReaderCommits, storeVars
    <3>2. memory[xa].state = "COMMITTING"
      BY <3>1 DEF Ownership, ReaderIsFirst
    <3>3. QED
      BY <3>1, <3>2 DEF ReaderIsFirst
  <2>5. QED
    BY <2>1, <2>2, <2>3, <2>4, ReaderTakes
<1>5. CASE memory' = memory /\ journal' = journal
  <2>1. ExecutorsAreFirst'
    BY <1>1, <1>5 DEF Ownership, ExecutorsAreFirst
  <2>2. QED
    BY <1>1, <1>4, <1>5, <2>1, OwnSame
<1>6. CASE ~(memory' = memory /\ journal' = journal)
  <2>1. /\ xa \in Msg
        /\ memory[xa] = Absent \/ reader = "ready"
        /\ memory'[xa] = memory[xa] \/ memory'[xa].state \in {"COMMITTING", "READY"}
        /\ memory' = memory \/ memory'[xa].state \in {"COMMITTING", "READY"}
    BY <1>1, <1>6, ReaderWrites DEF storeVars, ReaderMarksReady, ReaderCannotMarkReady
  <2>2. memory[xa].state \in {"ABSENT", "COMMITTING"}
    BY <2>1, EntryFields DEF Ownership, ReaderIsFirst
  <2>3. published[xa] = <<>>
    BY <1>1, <2>1, <2>2 DEF Ownership, PublishedIsFinished, Finished
  <2>4. ExecutorsAreFirst'
    <3>1. ASSUME NEW y \in Executor, task[y].at \in {"attempt", "work", "caught"}
          PROVE  memory'[task[y].msg].state \in Unfinished
      <4>1. task[y].msg \in Msg
        BY <3>1 DEF Shape, TaskHands, Idle
      <4>2. memory[task[y].msg].state \in Unfinished
        BY <3>1 DEF Ownership, ExecutorsAreFirst
      <4>3. QED
        BY <1>2, <2>1, <4>1, <4>2 DEF Unfinished
    <3>2. QED
      BY <1>1, <3>1 DEF ExecutorsAreFirst
  <2>5. PublisherIsLast'
    <3>1. \A i \in 1..Len(pending) : pending[i] \in Msg /\ pending[i] # xa
      <4>1. pending \in Seq(Msg)
        BY DEF Shape, TypeOK
      <4>2. QED
        BY <2>2, <4>1, ElementOfSeq DEF Ownership, PublisherIsLast
    <3>2. \A i \in 1..Len(pending) : memory'[pending[i]] = memory[pending[i]]
      BY <1>2, <3>1
    <3>3. QED
      BY <1>1, <3>2 DEF Ownership, PublisherIsLast
  <2>6. memory'[xa].state \notin Finished
    BY <2>1, <2>2 DEF Finished
  <2>7. ResultIsInJournal'
    BY <1>2, <2>6 DEF Ownership, ResultIsInJournal
  <2>8. PublishedIsFinished'
    BY <1>1, <1>2, <2>3 DEF Ownership, PublishedIsFinished
  <2>9. PublishedResultIsKept'
    BY <1>1, <1>2, <2>3 DEF Ownership, PublishedResultIsKept
  <2>10. QED
    BY <1>4, <2>4, <2>5, <2>7, <2>8, <2>9 DEF Ownership
<1>7. QED
  BY <1>5, <1>6

\* What the publisher is at is a result, in memory and in the journal.
LEMMA CurrentIsPending ==
  ASSUME Shape, Ownership, publisher \in {"enqueue", "checkpoint", "finish"}
  PROVE  /\ Current \in Msg
         /\ memory[Current].state = "RESULT_PENDING"
         /\ journal[Current].state \in Finished
         /\ journal[Current].result = memory[Current].result
<1>1. Current \in Msg /\ Current = pending[1] /\ 1 \in 1..Len(pending)
  BY CurrentIs
<1>2. memory[Current].state = "RESULT_PENDING"
  BY <1>1 DEF Ownership, PublisherIsLast
<1>3. QED
  BY <1>1, <1>2 DEF Ownership, ResultIsInJournal, Finished

\* The publisher leaves results results and everything else alone.
LEMMA PublisherKeeps ==
  ASSUME Shape, Ownership, Publisher, NEW n \in Msg
  PROVE  /\ memory[n].state \in Finished => memory'[n].state \in Finished
         /\ memory[n].state \notin Finished => memory'[n] = memory[n]
         /\ journal[n].state \in Finished => journal'[n].state \in Finished
         /\ journal[n] # Absent => journal'[n] # Absent
         /\ memory'[n].result = memory[n].result /\ journal'[n].result = journal[n].result
         /\ publisher # "finish" \/ n # Current => memory'[n].state = memory[n].state
<1>1. CASE memory' = memory /\ journal' = journal
  BY <1>1
<1>2. CASE ~(memory' = memory /\ journal' = journal) /\ n # Current
  <2>1. memory'[n] = memory[n] /\ journal'[n] = journal[n]
    BY <1>2, PublisherWrites
  <2>2. QED
    BY <2>1
<1>3. CASE ~(memory' = memory /\ journal' = journal) /\ n = Current
  <2>1. publisher \in {"checkpoint", "finish"} /\ memory[n] \in Entry /\ journal[n] \in Entry
    BY <1>3, PublisherWrites
  <2>2. memory[n].state = "RESULT_PENDING" /\ journal[n].state \in Finished
    BY <1>3, <2>1, CurrentIsPending
  <2>3. \A e \in Entry :
           /\ Changed(SetPublishedCount(index + 1), e).state = e.state
           /\ Changed(SetPublishedCount(index + 1), e).result = e.result
           /\ Changed(SetState("DONE"), e).state = "DONE"
           /\ Changed(SetState("DONE"), e).result = e.result
    BY Changes
  <2>4. /\ memory'[n].state \in {"RESULT_PENDING", "DONE"} /\ memory'[n].result = memory[n].result
        /\ journal'[n].state \in {journal[n].state, "DONE"} /\ journal'[n].result = journal[n].result
        /\ publisher # "finish" => memory'[n].state = "RESULT_PENDING"
    <3>1. CASE publisher = "checkpoint"
      <4>1. /\ \/ memory'[n] = Changed(SetPublishedCount(index + 1), memory[n])
               \/ memory' = memory
            /\ journal'[n] \in {journal[n], Changed(SetPublishedCount(index + 1), journal[n])}
        BY <1>3, <3>1, PublisherWrites
      <4>2. QED
        BY <2>1, <2>2, <2>3, <4>1
    <3>2. CASE publisher = "finish"
      <4>1. /\ \/ memory'[n] = Changed(SetState("DONE"), memory[n])
               \/ memory' = memory
            /\ journal'[n] \in {journal[n], Changed(SetState("DONE"), journal[n])}
        BY <1>3, <3>2, PublisherWrites
      <4>2. QED
        BY <2>1, <2>2, <2>3, <3>2, <4>1
    <3>3. QED
      BY <2>1, <3>1, <3>2
  <2>5. journal'[n] # Absent
    BY <2>2, <2>4, EntryFields DEF Finished
  <2>6. QED
    BY <1>3, <2>1, <2>2, <2>4, <2>5 DEF Finished
<1>4. QED
  BY <1>1, <1>2, <1>3

LEMMA PublisherOwn ==
  ASSUME Shape, Flow, Ownership, Publisher
  PROVE  Ownership'
<1>1. OnlyPublisher
  BY DEF Publisher, PublisherPolls, PublisherEnqueues, PublisherCheckpoints,
         PublisherFinishes, PublisherCatches, PublisherExits
<1>2. UNCHANGED <<phase, xa, wasKnown, reader, task>>
  BY <1>1 DEF OnlyPublisher, readerVars, workVars
<1>3. ExecutorsAreFirst'
  <2>1. ASSUME NEW x \in Executor, task[x].at \in {"attempt", "work", "caught"}
        PROVE  memory'[task[x].msg].state \in Unfinished
    <3>1. task[x].msg \in Msg
      BY <2>1 DEF Shape, TaskHands, Idle
    <3>2. memory[task[x].msg].state \in Unfinished
      BY <2>1 DEF Ownership, ExecutorsAreFirst
    <3>3. memory'[task[x].msg] = memory[task[x].msg]
      BY <3>1, <3>2, PublisherKeeps DEF Unfinished, Finished
    <3>4. QED
      BY <3>2, <3>3
  <2>2. QED
    BY <1>2, <2>1 DEF ExecutorsAreFirst
<1>4. ReaderIsFirst'
  <2>1. reader \in {"stage", "commit", "ready"} => xa \in Msg
    BY DEF Shape, ReaderHands
  <2>2. xa \in Msg => /\ memory[xa].state \in {"ABSENT", "COMMITTING"} => memory'[xa] = memory[xa]
                      /\ journal[xa] # Absent => journal'[xa] # Absent
    BY PublisherKeeps DEF Finished
  <2>3. ~Known(xa) => memory[xa].state = "ABSENT"
    BY EntryFields DEF Known
  <2>4. QED
    BY <1>2, <2>1, <2>2, <2>3 DEF Ownership, ReaderIsFirst, Known
<1>5. ResultIsInJournal'
  <2>1. ASSUME NEW n \in Msg, memory'[n].state \in Finished
        PROVE  journal'[n].state \in Finished /\ journal'[n].result = memory'[n].result
    <3>1. memory[n].state \in Finished
      BY <2>1, PublisherKeeps
    <3>2. journal[n].state \in Finished /\ journal[n].result = memory[n].result
      BY <3>1 DEF Ownership, ResultIsInJournal
    <3>3. QED
      BY <3>2, PublisherKeeps
  <2>2. QED
    BY <2>1 DEF ResultIsInJournal
<1>6. CASE PublisherEnqueues
  <2> DEFINE m == Current
             e == [env |-> memory[m].result, item |-> index + 1]
  <2>1. /\ m \in Msg /\ memory[m].state = "RESULT_PENDING" /\ journal[m].state \in Finished
        /\ journal[m].result = memory[m].result
    BY <1>6, CurrentIsPending DEF PublisherEnqueues
  <2>2. /\ memory' = memory /\ journal' = journal /\ pending' = pending
        /\ published' = [published EXCEPT ![m] = Append(published[m], e)]
    BY <1>6 DEF PublisherEnqueues, storeVars
  <2>3. /\ published \in [Msg -> Seq([env : Envelope \cup {"none"}, item : Nat])]
        /\ memory[m] \in Entry \cup {Absent} /\ index \in Nat
    BY <2>1 DEF Shape, TypeOK
  <2>4. e \in [env : Envelope \cup {"none"}, item : Nat] /\ e.env = memory[m].result
    BY <2>3, EntryFields
  <2> HIDE DEF m, e
  <2>5. /\ published'[m] = Append(published[m], e)
        /\ \A n \in Msg : n # m => published'[n] = published[n]
    BY <2>1, <2>2, <2>3
  <2>6. /\ Len(published'[m]) = Len(published[m]) + 1 /\ Len(published[m]) \in Nat
        /\ \A i \in 1..Len(published[m]) : published'[m][i] = published[m][i]
        /\ published'[m][Len(published[m]) + 1] = e
    BY <2>1, <2>3, <2>4, <2>5, AppendProperties
  <2>7. PublishedIsFinished'
    BY <1>2, <2>1, <2>2, <2>5 DEF Ownership, PublishedIsFinished, Finished
  <2>8. \A i \in 1..Len(published[m]) : published[m][i].env = journal[m].result
    <3>1. \A i \in 1..Len(<<>>) : FALSE
      OBVIOUS
    <3>2. QED
      BY <2>1, <3>1 DEF Ownership, PublishedResultIsKept
  <2>9. \A i \in 1..Len(published'[m]) : published'[m][i].env = journal'[m].result
    <3>1. \A i \in 1..Len(published'[m]) :
             i \in 1..Len(published[m]) \/ i = Len(published[m]) + 1
      BY <2>6
    <3>2. QED
      BY <2>1, <2>2, <2>4, <2>6, <2>8, <3>1
  <2>10. PublishedResultIsKept'
    <3>1. journal'[m].state \in {"RESULT_PENDING", "DONE"}
      BY <2>1, <2>2 DEF Finished
    <3>2. QED
      BY <2>2, <2>5, <2>9, <3>1 DEF Ownership, PublishedResultIsKept
  <2>11. PublisherIsLast'
    BY <2>2 DEF Ownership, PublisherIsLast
  <2>12. QED
    BY <1>3, <1>4, <1>5, <2>7, <2>10, <2>11 DEF Ownership
<1>7. CASE ~PublisherEnqueues
  <2>1. published' = published
    BY <1>7 DEF Publisher, PublisherPolls, PublisherCheckpoints,
           PublisherFinishes, PublisherCatches, PublisherExits
  <2>2. PublishedIsFinished'
    BY <1>2, <2>1, PublisherKeeps DEF Ownership, PublishedIsFinished
  <2>3. PublishedResultIsKept'
    BY <2>1, PublisherKeeps DEF Ownership, PublishedResultIsKept, Finished
  <2>4. pending \in Seq(Msg) /\ \A i \in 1..Len(pending) : pending[i] \in Msg
    BY ElementOfSeq DEF Shape, TypeOK
  <2>5. /\ \A i \in 1..Len(pending) : memory[pending[i]].state = "RESULT_PENDING"
        /\ NoRepeats(pending)
    BY DEF Ownership, PublisherIsLast
  <2>6. PublisherIsLast'
    <3>1. CASE PublisherPolls
      <4> DEFINE list == InOrder(PendingResults)
      <4>1. PendingResults \in SUBSET Msg
        BY DEF PendingResults
      <4>2. pending' = list /\ memory' = memory
        BY <3>1 DEF PublisherPolls, Selects, storeVars
      <4>3. NoRepeats(list) /\ \A i \in 1..Len(list) : list[i] \in PendingResults
        BY <4>1, InOrderIs
      <4>4. QED
        BY <4>2, <4>3 DEF PublisherIsLast, PendingResults
    <3>2. CASE PublisherCheckpoints
      <4>1. pending' = pending /\ publisher # "finish"
        BY <3>2 DEF PublisherCheckpoints
      <4>2. \A i \in 1..Len(pending) : memory'[pending[i]].state = "RESULT_PENDING"
        BY <2>4, <2>5, <4>1, PublisherKeeps
      <4>3. QED
        BY <2>5, <4>1, <4>2 DEF PublisherIsLast
    <3>3. CASE PublisherFinishes
      <4> DEFINE t == Tail(pending)
      <4>1. pending' = t /\ pending # <<>> /\ Current = pending[1]
        BY <3>3, CurrentIs DEF PublisherFinishes
      <4>2. /\ t \in Seq(Msg) /\ Len(t) = Len(pending) - 1 /\ Len(pending) \in Nat
            /\ \A i \in 1..(Len(pending) - 1) : t[i] = pending[i + 1]
        BY <2>4, <4>1, HeadTailProperties
      <4>3. NoRepeats(t)
        BY <2>4, <2>5, <4>1, TailNoRepeats
      <4>4. ASSUME NEW i \in 1..Len(t) PROVE memory'[t[i]].state = "RESULT_PENDING"
        <5>1. i + 1 \in 1..Len(pending) /\ i + 1 # 1 /\ 1 \in 1..Len(pending) /\ t[i] = pending[i + 1]
          BY <4>2
        <5>2. pending[i + 1] # Current
          BY <2>5, <4>1, <5>1 DEF NoRepeats
        <5>3. QED
          BY <2>4, <2>5, <5>1, <5>2, PublisherKeeps
      <4> HIDE DEF t
      <4>5. QED
        BY <4>1, <4>3, <4>4 DEF PublisherIsLast
    <3>4. CASE PublisherCatches \/ PublisherExits
      <4>1. pending' = <<>>
        BY <3>4 DEF PublisherCatches, PublisherExits
      <4>2. \A i \in 1..Len(<<>>) : FALSE
        OBVIOUS
      <4>3. NoRepeats(<<>>)
        BY <4>2 DEF NoRepeats
      <4>4. QED
        BY <4>1, <4>2, <4>3 DEF PublisherIsLast
    <3>5. QED
      BY <1>7, <3>1, <3>2, <3>3, <3>4 DEF Publisher
  <2>7. QED
    BY <1>3, <1>4, <1>5, <2>2, <2>3, <2>6 DEF Ownership
<1>8. QED
  BY <1>6, <1>7

LEMMA EndOwn ==
  ASSUME Shape, Flow, Ownership, Stop \/ Killed \/ Exits
  PROVE  Ownership'
<1>1. CASE Stop
  <2>1. UNCHANGED <<phase, memory, journal, published, pending, task, xa, wasKnown, reader>>
    BY <1>1 DEF Stop, storeVars, readerVars, agentVars, workVars
  <2>2. ExecutorsAreFirst' /\ ReaderIsFirst'
    BY <2>1 DEF Ownership, ExecutorsAreFirst, ReaderIsFirst, Known
  <2>3. QED
    BY <2>1, <2>2, OwnSame
<1>2. CASE ProcessGone
  <2>1. /\ phase' = "down" /\ reader' = "exit" /\ pending' = <<>> /\ published' = published
        /\ task' = [x \in Executor |-> Idle]
        /\ memory' = [m \in Msg |-> Absent] /\ journal' = journal
    BY <1>2 DEF ProcessGone, ReaderLost, StoreLost
  <2>2. \A i \in 1..Len(<<>>) : FALSE
    OBVIOUS
  <2>3. NoRepeats(<<>>)
    BY <2>2 DEF NoRepeats
  <2>4. ExecutorsAreFirst'
    BY <2>1 DEF ExecutorsAreFirst, Idle
  <2>5. ReaderIsFirst'
    BY <2>1 DEF ReaderIsFirst
  <2>6. PublisherIsLast'
    BY <2>1, <2>2, <2>3 DEF PublisherIsLast
  <2>7. ResultIsInJournal'
    BY <2>1 DEF ResultIsInJournal, Absent, Finished
  <2>8. PublishedIsFinished'
    BY <2>1 DEF PublishedIsFinished
  <2>9. PublishedResultIsKept'
    BY <2>1 DEF Ownership, PublishedResultIsKept
  <2>10. QED
    BY <2>4, <2>5, <2>6, <2>7, <2>8, <2>9 DEF Ownership
<1>3. QED
  BY <1>1, <1>2 DEF Killed, Exits

LEMMA OwnInit == Init => Ownership
<1> SUFFICES ASSUME Init PROVE Ownership
  OBVIOUS
<1>1. /\ phase = "down" /\ reader = "exit" /\ pending = <<>>
      /\ published = [m \in Msg |-> <<>>] /\ task = [x \in Executor |-> Idle]
      /\ memory = [m \in Msg |-> Absent] /\ journal = [m \in Msg |-> Absent]
  BY DEF Init, ReaderInit
<1>2. \A i \in 1..Len(<<>>) : FALSE
  OBVIOUS
<1>3. NoRepeats(<<>>)
  BY <1>2 DEF NoRepeats
<1>4. ExecutorsAreFirst /\ ReaderIsFirst
  BY <1>1 DEF ExecutorsAreFirst, ReaderIsFirst, Idle
<1>5. PublisherIsLast
  BY <1>1, <1>2, <1>3 DEF PublisherIsLast
<1>6. ResultIsInJournal /\ PublishedIsFinished /\ PublishedResultIsKept
  BY <1>1 DEF ResultIsInJournal, PublishedIsFinished, PublishedResultIsKept, Absent, Finished
<1>7. QED
  BY <1>4, <1>5, <1>6 DEF Ownership

LEMMA OwnStep == Shape /\ Flow /\ Ownership /\ [Next]_vars => Ownership'
<1> SUFFICES ASSUME Shape, Flow, Ownership, [Next]_vars PROVE Ownership'
  OBVIOUS
<1>1. CASE UNCHANGED vars
  <2>1. UNCHANGED <<phase, memory, journal, published, pending, task, xa, wasKnown, reader>>
    BY <1>1 DEF vars, storeVars, readerVars, agentVars
  <2>2. ExecutorsAreFirst' /\ ReaderIsFirst'
    BY <2>1 DEF Ownership, ExecutorsAreFirst, ReaderIsFirst, Known
  <2>3. QED
    BY <2>1, <2>2, OwnSame
<1>2. QED
  BY <1>1, StartupOwn, ReadOwn, DispatchOwn, TaskOwn, PublisherOwn, EndOwn DEF Next

LEMMA OwnershipHolds == Spec => [](Shape /\ Flow /\ Ownership)
<1>1. Init => Shape /\ Flow /\ Ownership
  BY ShapeInit, FlowInit, OwnInit
<1>2. Shape /\ Flow /\ Ownership /\ [Next]_vars => (Shape /\ Flow /\ Ownership)'
  BY ShapeStep, FlowStep, OwnStep
<1>3. QED
  BY <1>1, <1>2, PTL DEF Spec

\* What was enqueued for a message belongs to the result the journal file
\* holds: no end of a process, at any point, makes the agent publish another
\* one. Nothing is said of a loss of power.
THEOREM PublishedStaysInJournal == Spec => []PublishedResultIsKept
<1>1. Ownership => PublishedResultIsKept
  BY DEF Ownership
<1>2. QED
  BY <1>1, OwnershipHolds, PTL

\* The input queue is told to give a message up only when the journal holds
\* its record ("Persist intent before attempting Commit").
THEOREM RecordedBeforeCommit == Spec => CommitNeedsRecord
<1>1. Shape /\ Ownership /\ [Next]_vars
        => [last' # last /\ last' \notin HealthCheck => journal[last'] # Absent]_vars
  <2> SUFFICES ASSUME Shape, Ownership, Next, last' # last, last' \notin HealthCheck
               PROVE  journal[last'] # Absent
    BY DEF vars
  <2>1. ReaderCommits \/ ReaderCannotCommit
    BY DEF Next, Startup, Open, DiscardUnresolved, CollectRecoverable, Requeue, StartThreads,
           Read, Reader, ReaderDequeues, ReaderFlushes, ReaderStages, ReaderCannotStage,
           ReaderMarksReady, ReaderCannotMarkReady, ReaderPuts, ReaderLeavesLoop, ReaderExits,
           Dispatch, DispatcherPolls, DispatcherExecutes, DispatcherDrops, DispatcherExits,
           WorkerTakes, Task, TaskStarts, TaskMarksProcessing, TaskSucceeds, TaskFails,
           TaskRetries, OnlyTask, Publisher, PublisherPolls, PublisherEnqueues,
           PublisherCheckpoints, PublisherFinishes, PublisherCatches, PublisherExits,
           OnlyPublisher, Stop, Killed, Exits, ProcessGone, ReaderLost, readerVars
  <2>2. last' = xa /\ reader = "commit"
    BY <2>1 DEF ReaderCommits, ReaderCannotCommit
  <2>3. QED
    BY <2>2 DEF Ownership, ReaderIsFirst
<1>2. QED
  BY <1>1, OwnershipHolds, PTL DEF Spec, CommitNeedsRecord

-----------------------------------------------------------------------------
(* Every step keeps the output *)

\* All steps but the publisher's, the opening of the store and the end of a
\* process: they leave results alone and publish nothing.
Quiet ==
    \/ Startup /\ ~Open
    \/ Read \/ Dispatch \/ Stop
    \/ \E w \in Worker : WorkerTakes(w)
    \/ \E x \in Executor : Task(x)

NewResult(e) == e.state = "RESULT_PENDING" /\ e.publishedCount = 0

QuietEntry(n) ==
    /\ memory[n].state \in Finished => memory'[n] = memory[n] /\ journal'[n] = journal[n]
    /\ \/ memory'[n] = memory[n]
       \/ memory'[n].state \notin Finished
       \/ NewResult(memory'[n]) /\ NewResult(journal'[n]) /\ published[n] = <<>>
    /\ \/ journal'[n] = journal[n]
       \/ published[n] = <<>> /\ (journal'[n].state \notin Finished \/ NewResult(journal'[n]))

QuietPublisher ==
    /\ UNCHANGED <<published, pending, index, restarts>>
    /\ publisher' = publisher \/ (publisher = "exit" /\ publisher' = "poll")
    /\ phase' = "down" <=> phase = "down"
    /\ running' => running

LEMMA QuietSame ==
  ASSUME memory' = memory, journal' = journal
  PROVE  \A n \in Msg : QuietEntry(n)
BY DEF QuietEntry

LEMMA QuietReader ==
  ASSUME Shape, Flow, Ownership, Read
  PROVE  QuietPublisher /\ \A n \in Msg : QuietEntry(n)
<1>1. QuietPublisher
  <2>1. UNCHANGED <<published, pending, index, restarts, publisher, phase>>
    BY DEF Read, agentVars, pubVars
  <2>2. running' => running
    BY ReaderTakes
  <2>3. QED
    BY <2>1, <2>2 DEF QuietPublisher
<1>2. Reader /\ phase = "run"
  BY ReaderTakes DEF Read
<1>3. CASE memory' = memory /\ journal' = journal
  BY <1>1, <1>3, QuietSame
<1>4. CASE ~(memory' = memory /\ journal' = journal)
  <2>1. /\ xa \in Msg
        /\ memory[xa] = Absent \/ reader = "ready"
        /\ memory'[xa] = memory[xa] \/ memory'[xa].state \in {"COMMITTING", "READY"}
        /\ journal'[xa] = journal[xa] \/ journal'[xa].state \in {"COMMITTING", "READY"}
        /\ \A n \in Msg : n # xa => memory'[n] = memory[n] /\ journal'[n] = journal[n]
    BY <1>2, <1>4, ReaderWrites DEF storeVars, ReaderMarksReady, ReaderCannotMarkReady
  <2>2. memory[xa].state \in {"ABSENT", "COMMITTING"}
    BY <2>1, EntryFields DEF Ownership, ReaderIsFirst
  <2>3. published[xa] = <<>>
    BY <1>2, <2>1, <2>2 DEF Ownership, PublishedIsFinished, Finished
  <2>4. \A n \in Msg : QuietEntry(n)
    BY <2>1, <2>2, <2>3 DEF QuietEntry, Finished
  <2>5. QED
    BY <1>1, <2>4
<1>5. QED
  BY <1>3, <1>4

LEMMA QuietTask ==
  ASSUME Shape, Flow, Ownership, NEW x \in Executor, Task(x)
  PROVE  QuietPublisher /\ \A n \in Msg : QuietEntry(n)
<1>1. PICK m \in Msg : m = task[x].msg
  BY TaskEffect
<1>2. /\ OnlyTask /\ task[x].at # "idle" /\ running' \in {running, FALSE}
      /\ UNCHANGED storeVars \/ task[x].at \in {"attempt", "work", "caught"}
  BY TaskEffect
<1>3. phase # "down"
  BY <1>2, IdleAtStart DEF Idle
<1>4. QuietPublisher
  <2>1. UNCHANGED <<published, pending, index, restarts, publisher, phase>>
    BY <1>2 DEF OnlyTask, pubVars
  <2>2. running' => running
    BY <1>2
  <2>3. QED
    BY <2>1, <2>2 DEF QuietPublisher
<1>5. CASE UNCHANGED storeVars
  BY <1>4, <1>5, QuietSame DEF storeVars
<1>6. CASE ~UNCHANGED storeVars
  <2>1. memory[m].state \in Unfinished
    BY <1>1, <1>2, <1>6 DEF Ownership, ExecutorsAreFirst
  <2>2. published[m] = <<>>
    BY <1>3, <2>1 DEF Ownership, PublishedIsFinished, Unfinished, Finished
  <2>3. memory[m] \in Entry \cup {Absent} /\ journal[m] \in Entry \cup {Absent}
    BY DEF Shape, TypeOK
  <2>4. ASSUME NEW e \in Entry \cup {Absent},
               NEW c \in {SetState("PROCESSING"), SetRetry, SetResultPending("work"),
                          SetResultPending("error")}
        PROVE  \/ c \in {SetState("PROCESSING"), SetRetry} /\ Changed(c, e).state \notin Finished
               \/ /\ c \in {SetResultPending("work"), SetResultPending("error")}
                  /\ NewResult(Changed(c, e))
    BY <2>4, Changes DEF NewResult, Finished
  <2>5. ASSUME NEW c \in {SetState("PROCESSING"), SetRetry, SetResultPending("work"),
                          SetResultPending("error")}
        PROVE  /\ \/ Changed(c, memory[m]).state \notin Finished
                  \/ NewResult(Changed(c, memory[m])) /\ NewResult(Changed(c, journal[m]))
               /\ Changed(c, journal[m]).state \notin Finished \/ NewResult(Changed(c, journal[m]))
    <3>1. \A e \in Entry \cup {Absent} :
             c \in {SetState("PROCESSING"), SetRetry} => Changed(c, e).state \notin Finished
      BY Changes DEF Finished
    <3>2. \A e \in Entry \cup {Absent} :
             c \in {SetResultPending("work"), SetResultPending("error")}
               => NewResult(Changed(c, e))
      BY Changes DEF NewResult
    <3>3. QED
      BY <2>3, <2>5, <3>1, <3>2
  <2>6. \A n \in Msg : n # m => memory'[n] = memory[n] /\ journal'[n] = journal[n]
    BY <1>1, TaskWrites
  <2>7. QuietEntry(m)
    <3>1. memory[m].state \notin Finished
      BY <2>1 DEF Unfinished, Finished
    <3>2. CASE memory' = memory /\ journal' = journal
      BY <3>2 DEF QuietEntry
    <3>3. CASE ~(memory' = memory /\ journal' = journal)
      <4>1. PICK c \in {SetState("PROCESSING"), SetRetry, SetResultPending("work"),
                        SetResultPending("error")} :
               \/ memory'[m] = Changed(c, memory[m]) /\ journal'[m] = Changed(c, journal[m])
               \/ memory' = memory /\ journal'[m] \in {journal[m], Changed(c, journal[m])}
        BY <1>1, <3>3, TaskWrites
      <4>2. QED
        BY <2>2, <2>5, <3>1, <4>1 DEF QuietEntry
    <3>4. QED
      BY <3>2, <3>3
  <2>8. \A n \in Msg : QuietEntry(n)
    BY <2>6, <2>7 DEF QuietEntry
  <2>9. QED
    BY <1>4, <2>8
<1>7. QED
  BY <1>5, <1>6

LEMMA QuietSteps ==
  ASSUME Shape, Flow, Ownership, Quiet
  PROVE  QuietPublisher /\ \A n \in Msg : QuietEntry(n)
<1>1. CASE Startup /\ ~Open
  <2>1. /\ phase # "run" /\ publisher = "exit"
    BY <1>1 DEF Startup, DiscardUnresolved, CollectRecoverable, Requeue, StartThreads,
           Shape, NoThreadsYet
  <2>2. QuietPublisher
    BY <1>1, <2>1 DEF Startup, DiscardUnresolved, CollectRecoverable, Requeue, StartThreads,
          agentVars, pubVars, QuietPublisher
  <2>3. CASE DiscardUnresolved
    <3>1. Unresolved \in SUBSET Msg /\ Unresolved # {}
      BY <2>3 DEF Unresolved, Recoverable, DiscardUnresolved
    <3>2. PICK m \in Unresolved : m = Earliest(Unresolved)
      BY <3>1, EarliestIsThere
    <3>3. m \in Msg /\ memory[m].state = "COMMITTING"
      BY <3>1, <3>2 DEF Unresolved
    <3>4. memory \in [Msg -> Entry \cup {Absent}] /\ journal \in [Msg -> Entry \cup {Absent}]
      BY DEF Shape, TypeOK
    <3>5. Changed(DiscardIt, memory[m]) = Absent /\ Changed(DiscardIt, journal[m]) = Absent
      BY <3>3, <3>4, Changes
    <3>6. StoreOk(m, DiscardIt) /\ phase = "discard"
      BY <2>3, <3>2 DEF DiscardUnresolved
    <3>7. /\ memory'[m] = Absent /\ journal'[m] = Absent
          /\ \A n \in Msg : n # m => memory'[n] = memory[n] /\ journal'[n] = journal[n]
      BY <3>3, <3>4, <3>5, <3>6 DEF StoreOk
    <3>8. published[m] = <<>>
      BY <3>3, <3>6 DEF Ownership, PublishedIsFinished, Finished
    <3>9. QED
      BY <2>2, <3>3, <3>7, <3>8, EntryFields DEF QuietEntry, Finished
  <2>4. CASE ~DiscardUnresolved
    <3>1. memory' = memory /\ journal' = journal
      BY <1>1, <2>4 DEF Startup, CollectRecoverable, Requeue, StartThreads, storeVars
    <3>2. QED
      BY <2>2, <3>1, QuietSame
  <2>5. QED
    BY <2>3, <2>4
<1>2. CASE Stop
  <2>1. memory' = memory /\ journal' = journal /\ QuietPublisher
    BY <1>2 DEF Stop, storeVars, agentVars, pubVars, QuietPublisher
  <2>2. QED
    BY <2>1, QuietSame
<1>3. CASE Dispatch \/ (\E w \in Worker : WorkerTakes(w))
  <2>1. /\ memory' = memory /\ journal' = journal
        /\ UNCHANGED <<published, pending, index, publisher, phase, running, restarts>>
    BY <1>3 DEF Dispatch, DispatcherPolls, DispatcherExecutes, DispatcherDrops, DispatcherExits,
           WorkerTakes, storeVars, pubVars
  <2>2. QED
    BY <2>1, QuietSame DEF QuietPublisher
<1>4. QED
  BY <1>1, <1>2, <1>3, QuietReader, QuietTask DEF Quiet

LEMMA CountsAre ==
  ASSUME Shape, NEW m \in Msg
  PROVE  /\ memory[m].publishedCount \in Nat /\ journal[m].publishedCount \in Nat /\ index \in Nat
         /\ \A env : ItemCount(m, env) \in Nat
         /\ published[m] \in Seq([env : Envelope \cup {"none"}, item : Nat])
         /\ Len(published[m]) \in Nat
         /\ \A i \in 1..Len(published[m]) : published[m][i].item \in Nat
<1>1. /\ memory[m] \in Entry \cup {Absent} /\ journal[m] \in Entry \cup {Absent} /\ index \in Nat
      /\ published[m] \in Seq([env : Envelope \cup {"none"}, item : Nat])
  BY DEF Shape, TypeOK
<1>2. memory[m].publishedCount \in Nat /\ journal[m].publishedCount \in Nat
  BY <1>1, EntryFields
<1>3. outputCount[m] \in 0..2
  BY Constants
<1>4. \A env : ItemCount(m, env) \in Nat
  BY <1>3 DEF ItemCount
<1>5. \A i \in 1..Len(published[m]) :
         published[m][i] \in [env : Envelope \cup {"none"}, item : Nat]
  BY <1>1, ElementOfSeq
<1>6. QED
  BY <1>1, <1>2, <1>4, <1>5

LEMMA HasNone ==
  ASSUME NEW m
  PROVE  HasAll(m, 0) /\ (published[m] = <<>> => \A k : ~Has(m, k))
<1>1. \A k \in 1..0 : FALSE
  OBVIOUS
<1>2. \A i \in 1..Len(<<>>) : FALSE
  OBVIOUS
<1>3. QED
  BY <1>1, <1>2 DEF HasAll, Has

LEMMA QuietOutput ==
  ASSUME Shape, Ownership, Output, QuietPublisher, \A n \in Msg : QuietEntry(n)
  PROVE  Output'
<1>1. published' = published /\ pending' = pending /\ index' = index
  BY DEF QuietPublisher
<1>2. ASSUME NEW m, NEW n PROVE HasAll(m, n)' = HasAll(m, n)
  BY <1>1 DEF HasAll, Has
<1>3. CheckpointsArePublished'
  <2>1. ASSUME NEW m \in Msg
        PROVE  /\ journal'[m].state \in Finished => HasAll(m, journal'[m].publishedCount)
               /\ memory'[m].state \in Finished => HasAll(m, memory'[m].publishedCount)
    <3>1. /\ journal[m].state \in Finished => HasAll(m, journal[m].publishedCount)
          /\ memory[m].state \in Finished => HasAll(m, memory[m].publishedCount)
      BY DEF Output, CheckpointsArePublished
    <3>2. HasAll(m, 0)
      BY HasNone
    <3>3. QuietEntry(m)
      OBVIOUS
    <3>4. journal'[m].state \in Finished => HasAll(m, journal'[m].publishedCount)
      BY <3>1, <3>2, <3>3 DEF QuietEntry, NewResult
    <3>5. memory'[m].state \in Finished => HasAll(m, memory'[m].publishedCount)
      BY <3>1, <3>2, <3>3 DEF QuietEntry, NewResult
    <3>6. QED
      BY <3>4, <3>5
  <2>2. ASSUME NEW m \in Msg
        PROVE  /\ journal'[m].state \in Finished => HasAll(m, journal[m].publishedCount)'
               /\ memory'[m].state \in Finished => HasAll(m, memory[m].publishedCount)'
    BY <1>1, <2>1 DEF HasAll, Has
  <2>3. QED
    BY <2>2 DEF CheckpointsArePublished
<1>4. PublisherHasAll'
  <2>1. CASE publisher' \notin {"enqueue", "checkpoint", "finish"}
    BY <2>1 DEF PublisherHasAll
  <2>2. CASE publisher' \in {"enqueue", "checkpoint", "finish"}
    <3>1. publisher' = publisher
      BY <2>2 DEF QuietPublisher
    <3>2. Current \in Msg /\ memory[Current].state \in Finished
      BY <2>2, <3>1, CurrentIsPending DEF Finished
    <3>3. memory'[Current] = memory[Current]
      BY <3>2 DEF QuietEntry
    <3>4. Current' = Current
      BY <1>1 DEF Current
    <3>5. /\ publisher \in {"enqueue", "finish"} => HasAll(Current, index)
          /\ publisher = "checkpoint" => HasAll(Current, index + 1)
          /\ publisher = "finish" => index >= ItemCount(Current, memory[Current].result)
      BY DEF Output, PublisherHasAll
    <3>6. HasAll(Current, index)' = HasAll(Current, index)
          /\ HasAll(Current, index + 1)' = HasAll(Current, index + 1)
      BY <1>1, <3>4 DEF HasAll, Has
    <3>7. memory'[Current'].result = memory[Current].result
      BY <3>3, <3>4
    <3>8. QED
      BY <1>1, <3>1, <3>4, <3>5, <3>6, <3>7 DEF PublisherHasAll, ItemCount
  <2>3. QED
    BY <2>1, <2>2
<1>5. ItemsInOrder'
  BY <1>1 DEF Output, ItemsInOrder
<1>6. DoneIsPublished'
  <2>1. ASSUME NEW m \in Msg, journal'[m].state = "DONE" PROVE journal'[m] = journal[m]
    <3>1. QuietEntry(m)
      OBVIOUS
    <3>2. QED
      BY <2>1, <3>1 DEF QuietEntry, NewResult, Finished
  <2>2. QED
    BY <1>1, <2>1 DEF Output, DoneIsPublished, ItemCount
<1>7. QED
  BY <1>3, <1>4, <1>5, <1>6 DEF Output

\* The message after the first of the publisher's list is another one, and
\* its result is still to be published.
LEMMA NextOfList ==
  ASSUME Shape, Ownership, publisher = "finish", Tail(pending) # <<>>
  PROVE  /\ Head(Tail(pending)) \in Msg /\ Head(Tail(pending)) # Current
         /\ memory[Head(Tail(pending))].state = "RESULT_PENDING"
<1> DEFINE t == Tail(pending)
<1>1. pending \in Seq(Msg) /\ pending # <<>> /\ Current = pending[1]
  BY CurrentIs DEF Shape, TypeOK
<1>2. /\ t \in Seq(Msg) /\ Len(t) = Len(pending) - 1 /\ Len(pending) \in Nat
      /\ \A i \in 1..(Len(pending) - 1) : t[i] = pending[i + 1]
  BY <1>1, HeadTailProperties
<1>3. Head(t) = t[1] /\ Head(t) \in Msg /\ Len(t) >= 1
  BY <1>2, Ends, HeadTailProperties
<1>4. Head(t) = pending[2] /\ 2 \in 1..Len(pending) /\ 1 \in 1..Len(pending)
  BY <1>2, <1>3
<1>5. QED
  BY <1>1, <1>3, <1>4 DEF Ownership, PublisherIsLast, NoRepeats

LEMMA PublisherOutput ==
  ASSUME Shape, Flow, Ownership, Output, Publisher
  PROVE  Output'
<1>1. /\ CheckpointsArePublished /\ PublisherHasAll /\ ItemsInOrder /\ DoneIsPublished
  BY DEF Output
<1>2. publisher \in {"enqueue", "checkpoint", "finish"} =>
         /\ Current \in Msg /\ memory[Current].state = "RESULT_PENDING"
         /\ journal[Current].state \in Finished
         /\ journal[Current].result = memory[Current].result
         /\ index \in Nat /\ ItemCount(Current, memory[Current].result) \in Nat
  BY CurrentIsPending, CountsAre
<1>3. CASE PublisherEnqueues
  <2> DEFINE m == Current
             r == memory[m].result
             e == [env |-> r, item |-> index + 1]
             s == published[m]
             t == published'[m]
  <2>1. /\ m \in Msg /\ memory[m].state = "RESULT_PENDING" /\ index \in Nat
        /\ publisher = "enqueue" /\ publisher' = "checkpoint"
        /\ memory' = memory /\ journal' = journal /\ pending' = pending /\ index' = index
        /\ published' = [published EXCEPT ![m] = Append(s, e)]
    BY <1>2, <1>3 DEF PublisherEnqueues, storeVars
  <2>2. HasAll(m, index)
    BY <1>1, <2>1 DEF PublisherHasAll
  <2>3. /\ published \in [Msg -> Seq([env : Envelope \cup {"none"}, item : Nat])]
        /\ memory[m] \in Entry \cup {Absent}
    BY <2>1 DEF Shape, TypeOK
  <2>4. e \in [env : Envelope \cup {"none"}, item : Nat] /\ e.item = index + 1
    BY <2>1, <2>3, EntryFields
  <2>5. m' = m
    BY <2>1 DEF Current
  <2> HIDE DEF m, e, r
  <2>6. /\ t = Append(s, e)
        /\ \A n \in Msg : n # m => published'[n] = published[n]
    BY <2>1, <2>3
  <2>7. /\ Len(t) = Len(s) + 1 /\ Len(s) \in Nat
        /\ \A i \in 1..Len(s) : t[i] = s[i] /\ i \in 1..Len(t)
        /\ t[Len(s) + 1] = e /\ Len(s) + 1 \in 1..Len(t)
        /\ \A i \in 1..Len(t) : i \in 1..Len(s) \/ i = Len(s) + 1
    <3>1. /\ Len(t) = Len(s) + 1 /\ Len(s) \in Nat
          /\ \A i \in 1..Len(s) : t[i] = s[i]
          /\ t[Len(s) + 1] = e
      BY <2>1, <2>3, <2>4, <2>6, AppendProperties
    <3>2. QED
      BY <3>1
  <2>8. ASSUME NEW n \in Msg, NEW k, Has(n, k)
        PROVE  \E i \in 1..Len(published'[n]) : published'[n][i].item = k
    <3>1. CASE n = m
      BY <2>7, <2>8, <3>1 DEF Has
    <3>2. CASE n # m
      BY <2>6, <2>8, <3>2 DEF Has
    <3>3. QED
      BY <3>1, <3>2
  <2>9. ASSUME NEW n \in Msg, NEW k, HasAll(n, k)
        PROVE  \A h \in 1..k : \E i \in 1..Len(published'[n]) : published'[n][i].item = h
    BY <2>8, <2>9 DEF HasAll
  <2>10. CheckpointsArePublished'
    <3>1. ASSUME NEW n \in Msg
          PROVE  /\ journal[n].state \in Finished =>
                      \A h \in 1..journal[n].publishedCount :
                         \E i \in 1..Len(published'[n]) : published'[n][i].item = h
                 /\ memory[n].state \in Finished =>
                      \A h \in 1..memory[n].publishedCount :
                         \E i \in 1..Len(published'[n]) : published'[n][i].item = h
      BY <1>1, <2>9 DEF CheckpointsArePublished
    <3>2. QED
      BY <2>1, <3>1 DEF CheckpointsArePublished, HasAll, Has
  <2>11. PublisherHasAll'
    <3>1. \A h \in 1..index : \E i \in 1..Len(t) : t[i].item = h
      BY <2>1, <2>2, <2>9
    <3>2. \E i \in 1..Len(t) : t[i].item = index + 1
      BY <2>4, <2>7
    <3>3. \A h \in 1..(index + 1) : h \in 1..index \/ h = index + 1
      BY <2>1
    <3>4. \A h \in 1..(index + 1) : \E i \in 1..Len(t) : t[i].item = h
      BY <3>1, <3>2, <3>3
    <3>5. HasAll(m, index + 1)'
      BY <2>1, <2>5, <3>4 DEF HasAll, Has
    <3>6. QED
      BY <2>1, <3>5 DEF PublisherHasAll, m
  <2>12. ItemsInOrder'
    <3>1. ASSUME NEW i \in 1..Len(t), NEW k \in 1..(t[i].item - 1)
          PROVE  \E j \in 1..(i - 1) : t[j].item = k
      <4>1. CASE i \in 1..Len(s)
        <5>1. \E j \in 1..(i - 1) : s[j].item = k
          BY <1>1, <2>1, <2>7, <3>1, <4>1 DEF ItemsInOrder
        <5>2. \A j \in 1..(i - 1) : j \in 1..Len(s)
          BY <2>7, <4>1
        <5>3. QED
          BY <2>7, <5>1, <5>2
      <4>2. CASE i = Len(s) + 1
        <5>1. k \in 1..index
          BY <2>1, <2>4, <2>7, <3>1, <4>2
        <5>2. \E j \in 1..Len(s) : s[j].item = k
          BY <2>2, <5>1 DEF HasAll, Has
        <5>3. \A j \in 1..Len(s) : j \in 1..(i - 1)
          BY <2>7, <4>2
        <5>4. QED
          BY <2>7, <5>2, <5>3
      <4>3. QED
        BY <2>7, <3>1, <4>1, <4>2
    <3>2. ASSUME NEW n \in Msg, n # m, NEW i \in 1..Len(published'[n]),
                 NEW k \in 1..(published'[n][i].item - 1)
          PROVE  \E j \in 1..(i - 1) : published'[n][j].item = k
      BY <1>1, <2>6, <3>2 DEF ItemsInOrder
    <3>3. QED
      BY <3>1, <3>2 DEF ItemsInOrder
  <2>13. DoneIsPublished'
    <3>1. ASSUME NEW n \in Msg, journal[n].state = "DONE",
                 NEW k \in 1..ItemCount(n, journal[n].result)
          PROVE  \E i \in 1..Len(published'[n]) : published'[n][i].item = k
      <4>1. Has(n, k)
        BY <1>1, <3>1 DEF DoneIsPublished, Has
      <4>2. QED
        BY <2>8, <4>1
    <3>2. QED
      BY <2>1, <3>1 DEF DoneIsPublished, ItemCount
  <2>14. QED
    BY <2>10, <2>11, <2>12, <2>13 DEF Output
<1>4. CASE ~PublisherEnqueues
  <2>1. published' = published
    BY <1>4 DEF Publisher, PublisherPolls, PublisherCheckpoints,
           PublisherFinishes, PublisherCatches, PublisherExits
  <2>2. ItemsInOrder'
    BY <1>1, <2>1 DEF ItemsInOrder
  <2>3. publisher = "finish" => HasAll(Current, ItemCount(Current, journal[Current].result))
    <3>1. SUFFICES ASSUME publisher = "finish"
                   PROVE  HasAll(Current, ItemCount(Current, journal[Current].result))
      OBVIOUS
    <3>2. /\ HasAll(Current, index) /\ index >= ItemCount(Current, memory[Current].result)
      BY <1>1, <3>1 DEF PublisherHasAll
    <3>3. \A h \in 1..ItemCount(Current, memory[Current].result) : h \in 1..index
      BY <1>2, <3>1, <3>2
    <3>4. QED
      BY <1>2, <3>1, <3>2, <3>3 DEF HasAll
  <2>4. ASSUME NEW n \in Msg, ~(memory' = memory /\ journal' = journal), n = Current
        PROVE  /\ \/ publisher = "checkpoint"
                  \/ publisher = "finish"
               /\ memory'[n].publishedCount \in {memory[n].publishedCount, index + 1}
               /\ journal'[n].publishedCount \in {journal[n].publishedCount, index + 1}
               /\ publisher = "finish" =>
                     /\ memory'[n].publishedCount = memory[n].publishedCount
                     /\ journal'[n].publishedCount = journal[n].publishedCount
               /\ publisher = "checkpoint" => journal'[n].state = journal[n].state
    <3>1. publisher \in {"checkpoint", "finish"} /\ memory[n] \in Entry /\ journal[n] \in Entry
      BY <2>4, PublisherWrites
    <3>2. \A e \in Entry :
             /\ Changed(SetPublishedCount(index + 1), e).publishedCount = index + 1
             /\ Changed(SetPublishedCount(index + 1), e).state = e.state
             /\ Changed(SetState("DONE"), e).publishedCount = e.publishedCount
      BY Changes
    <3>3. CASE publisher = "checkpoint"
      <4>1. /\ \/ memory'[n] = Changed(SetPublishedCount(index + 1), memory[n])
               \/ memory' = memory
            /\ journal'[n] \in {journal[n], Changed(SetPublishedCount(index + 1), journal[n])}
        BY <2>4, <3>3, PublisherWrites
      <4>2. QED
        BY <3>1, <3>2, <3>3, <4>1
    <3>4. CASE publisher = "finish"
      <4>1. /\ \/ memory'[n] = Changed(SetState("DONE"), memory[n])
               \/ memory' = memory
            /\ journal'[n] \in {journal[n], Changed(SetState("DONE"), journal[n])}
        BY <2>4, <3>4, PublisherWrites
      <4>2. QED
        BY <3>1, <3>2, <3>4, <4>1
    <3>5. QED
      BY <3>1, <3>3, <3>4
  <2>5. ASSUME NEW n \in Msg
        PROVE  /\ journal'[n].state \in Finished => HasAll(n, journal'[n].publishedCount)
               /\ memory'[n].state \in Finished => HasAll(n, memory'[n].publishedCount)
               /\ journal'[n].state = "DONE" =>
                     journal[n].state = "DONE" \/ (publisher = "finish" /\ n = Current)
    <3>1. /\ journal[n].state \in Finished => HasAll(n, journal[n].publishedCount)
          /\ memory[n].state \in Finished => HasAll(n, memory[n].publishedCount)
      BY <1>1 DEF CheckpointsArePublished
    <3>2. CASE memory' = memory /\ journal' = journal
      BY <3>1, <3>2
    <3>3. CASE ~(memory' = memory /\ journal' = journal) /\ n # Current
      <4>1. memory'[n] = memory[n] /\ journal'[n] = journal[n]
        BY <3>3, PublisherWrites
      <4>2. QED
        BY <3>1, <4>1
    <3>4. CASE ~(memory' = memory /\ journal' = journal) /\ n = Current
      <4>1. publisher \in {"checkpoint", "finish"}
        BY <2>4, <3>4
      <4>2. memory[n].state \in Finished /\ journal[n].state \in Finished
        BY <1>2, <3>4, <4>1 DEF Finished
      <4>3. publisher = "checkpoint" => HasAll(n, index + 1)
        BY <1>1, <3>4 DEF PublisherHasAll
      <4>4. QED
        BY <2>4, <3>1, <3>4, <4>1, <4>2, <4>3
    <3>5. QED
      BY <3>2, <3>3, <3>4
  <2>6. CheckpointsArePublished'
    BY <2>1, <2>5 DEF CheckpointsArePublished, HasAll, Has
  <2>7. DoneIsPublished'
    <3>1. ASSUME NEW n \in Msg, journal'[n].state = "DONE"
          PROVE  \A k \in 1..ItemCount(n, journal'[n].result) :
                    \E i \in 1..Len(published[n]) : published[n][i].item = k
      <4>1. journal'[n].result = journal[n].result
        BY PublisherKeeps
      <4>2. CASE journal[n].state = "DONE"
        BY <1>1, <4>1, <4>2 DEF DoneIsPublished
      <4>3. CASE publisher = "finish" /\ n = Current
        BY <2>3, <4>1, <4>3 DEF HasAll, Has
      <4>4. QED
        BY <2>5, <3>1, <4>2, <4>3
    <3>2. QED
      BY <2>1, <3>1 DEF DoneIsPublished, ItemCount
  <2>8. PublisherHasAll'
    <3>1. CASE publisher' \notin {"enqueue", "checkpoint", "finish"}
      BY <3>1 DEF PublisherHasAll
    <3>2. ASSUME publisher' \in {"enqueue", "checkpoint", "finish"}
          PROVE  PublisherPolls \/ PublisherCheckpoints \/ PublisherFinishes
      BY <1>4, <3>2 DEF Publisher, PublisherCatches, PublisherExits
    <3>3. ASSUME NEW m \in Msg, m = Current', publisher' \in {"enqueue", "finish"},
                 HasAll(m, index'),
                 publisher' = "finish" => index' >= ItemCount(m, memory'[m].result)
          PROVE  PublisherHasAll'
      <4>1. HasAll(Current, index)'
        BY <2>1, <3>3 DEF HasAll, Has
      <4>2. publisher' = "finish" => index' >= ItemCount(Current, memory[Current].result)'
        BY <3>3 DEF ItemCount
      <4>3. QED
        BY <3>3, <4>1, <4>2 DEF PublisherHasAll
    <3>4. ASSUME NEW m \in Msg, m = Current', memory[m].state = "RESULT_PENDING",
                 memory'[m] = memory[m],
                 publisher' = FirstStep(m), index' = memory[m].publishedCount
          PROVE  PublisherHasAll'
      <4>1. HasAll(m, index')
        BY <1>1, <3>4 DEF CheckpointsArePublished, Finished
      <4>2. publisher' \in {"enqueue", "finish"}
        BY <3>4 DEF FirstStep
      <4>3. index' \in Nat /\ ItemCount(m, memory[m].result) \in Nat
        BY <3>4, CountsAre
      <4>4. publisher' = "finish" => ~(index' < ItemCount(m, memory[m].result))
        BY <3>4 DEF FirstStep
      <4>5. publisher' = "finish" => index' >= ItemCount(m, memory'[m].result)
        BY <3>4, <4>3, <4>4
      <4>6. QED
        BY <3>3, <3>4, <4>1, <4>2, <4>5
    <3>5. CASE PublisherPolls
      <4> DEFINE list == InOrder(PendingResults)
      <4>1. PendingResults \in SUBSET Msg /\ PendingResults # {} /\ memory' = memory
        BY <3>5 DEF PendingResults, PublisherPolls, storeVars
      <4>2. /\ list \in Seq(Msg) /\ list # <<>>
            /\ \A i \in 1..Len(list) : list[i] \in PendingResults
        BY <4>1, InOrderIs
      <4>3. Head(list) = list[1] /\ Len(list) >= 1 /\ Len(list) \in Nat
        BY <4>2, Ends, HeadTailProperties
      <4>4. 1 \in 1..Len(list)
        BY <4>3
      <4>5. Head(list) \in Msg /\ memory[Head(list)].state = "RESULT_PENDING"
        BY <4>2, <4>3, <4>4 DEF PendingResults
      <4>6. /\ publisher' = FirstStep(Head(list)) /\ index' = memory[Head(list)].publishedCount
            /\ pending' = list
        BY <3>5, <4>2 DEF PublisherPolls, Selects
      <4>7. Current' = Head(list)
        BY <4>6 DEF Current
      <4> HIDE DEF list
      <4>8. QED
        BY <3>4, <4>1, <4>5, <4>6, <4>7
    <3>6. CASE PublisherCheckpoints
      <4>1. /\ publisher = "checkpoint" /\ pending' = pending /\ index' = index + 1
            /\ publisher' = IF index' < ItemCount(Current, memory[Current].result)
                            THEN "enqueue" ELSE "finish"
        BY <3>6 DEF PublisherCheckpoints
      <4>2. PICK m \in Msg : m = Current
        BY <1>2, <4>1
      <4>3. m = Current'
        BY <4>1, <4>2 DEF Current
      <4>4. HasAll(m, index')
        BY <1>1, <4>1, <4>2 DEF PublisherHasAll
      <4>5. memory'[m].result = memory[m].result
        BY PublisherKeeps
      <4>6. index' \in Nat /\ ItemCount(m, memory[m].result) \in Nat
        BY <1>2, <4>1, <4>2
      <4>7. publisher' = "finish" => index' >= ItemCount(m, memory'[m].result)
        BY <4>1, <4>2, <4>5, <4>6
      <4>8. publisher' \in {"enqueue", "finish"}
        BY <4>1
      <4>9. QED
        BY <3>3, <4>3, <4>4, <4>7, <4>8
    <3>7. CASE PublisherFinishes /\ publisher' \in {"enqueue", "checkpoint", "finish"}
      <4> DEFINE n == Head(Tail(pending))
      <4>1. /\ publisher = "finish" /\ pending' = Tail(pending) /\ Tail(pending) # <<>>
            /\ publisher' = FirstStep(n) /\ index' = memory[n].publishedCount
        BY <3>7 DEF PublisherFinishes
      <4>2. n \in Msg /\ n # Current /\ memory[n].state = "RESULT_PENDING"
        BY <4>1, NextOfList
      <4>3. memory'[n] = memory[n]
        BY <4>2, PublisherWrites
      <4>4. Current' = n
        BY <4>1 DEF Current
      <4> HIDE DEF n
      <4>5. QED
        BY <3>4, <4>1, <4>2, <4>3, <4>4
    <3>8. QED
      BY <3>1, <3>2, <3>5, <3>6, <3>7
  <2>9. QED
    BY <2>2, <2>6, <2>7, <2>8 DEF Output
<1>5. QED
  BY <1>3, <1>4

LEMMA OpenOutput ==
  ASSUME Shape, Output, Open
  PROVE  Output'
<1>1. /\ memory' = journal /\ journal' = journal /\ phase = "down"
      /\ UNCHANGED <<published, publisher, pending, index>>
  BY DEF Open, StoreOpened, agentVars, pubVars
<1>2. publisher' = "exit"
  BY <1>1 DEF Shape, NoThreadsYet
<1>3. CheckpointsArePublished'
  BY <1>1 DEF Output, CheckpointsArePublished, HasAll, Has
<1>4. PublisherHasAll'
  BY <1>2 DEF PublisherHasAll
<1>5. ItemsInOrder' /\ DoneIsPublished'
  BY <1>1 DEF Output, ItemsInOrder, DoneIsPublished, ItemCount
<1>6. QED
  BY <1>3, <1>4, <1>5 DEF Output

LEMMA EndOutput ==
  ASSUME Output, Killed \/ Exits
  PROVE  Output'
<1>1. /\ journal' = journal /\ published' = published /\ publisher' = "exit"
      /\ memory' = [m \in Msg |-> Absent]
  BY DEF Killed, Exits, ProcessGone, StoreLost
<1>2. \A m \in Msg : memory'[m].state \notin Finished
  BY <1>1 DEF Absent, Finished
<1>3. CheckpointsArePublished'
  BY <1>1, <1>2 DEF Output, CheckpointsArePublished, HasAll, Has
<1>4. PublisherHasAll'
  BY <1>1 DEF PublisherHasAll
<1>5. ItemsInOrder' /\ DoneIsPublished'
  BY <1>1 DEF Output, ItemsInOrder, DoneIsPublished, ItemCount
<1>6. QED
  BY <1>3, <1>4, <1>5 DEF Output

LEMMA SameOutput ==
  ASSUME Output, UNCHANGED vars
  PROVE  Output'
<1>1. UNCHANGED <<memory, journal, published, publisher, pending, index>>
  BY DEF vars, storeVars, agentVars, pubVars
<1>2. CheckpointsArePublished' /\ PublisherHasAll'
  BY <1>1 DEF Output, CheckpointsArePublished, PublisherHasAll, HasAll, Has, Current, ItemCount
<1>3. ItemsInOrder' /\ DoneIsPublished'
  BY <1>1 DEF Output, ItemsInOrder, DoneIsPublished, ItemCount
<1>4. QED
  BY <1>2, <1>3 DEF Output

LEMMA OutputInit == Init => Output
<1> SUFFICES ASSUME Init PROVE Output
  OBVIOUS
<1>1. /\ publisher = "exit" /\ published = [m \in Msg |-> <<>>]
      /\ memory = [m \in Msg |-> Absent] /\ journal = [m \in Msg |-> Absent]
  BY DEF Init
<1>2. \A i \in 1..Len(<<>>) : FALSE
  OBVIOUS
<1>3. CheckpointsArePublished /\ PublisherHasAll /\ DoneIsPublished
  BY <1>1 DEF CheckpointsArePublished, PublisherHasAll, DoneIsPublished, Absent, Finished
<1>4. ItemsInOrder
  BY <1>1, <1>2 DEF ItemsInOrder
<1>5. QED
  BY <1>3, <1>4 DEF Output

\* What a step can be.
LEMMA NextIs == Next <=> Open \/ Quiet \/ Publisher \/ Killed \/ Exits
BY DEF Next, Quiet, Startup

LEMMA OutputStep == Shape /\ Flow /\ Ownership /\ Output /\ [Next]_vars => Output'
<1> SUFFICES ASSUME Shape, Flow, Ownership, Output, [Next]_vars PROVE Output'
  OBVIOUS
<1>1. CASE UNCHANGED vars
  BY <1>1, SameOutput
<1>2. CASE Quiet
  BY <1>2, QuietSteps, QuietOutput
<1>3. QED
  BY <1>1, <1>2, NextIs, OpenOutput, EndOutput, PublisherOutput

LEMMA OutputHolds == Spec => [](Shape /\ Flow /\ Ownership /\ Output)
<1>1. Init => Shape /\ Flow /\ Ownership /\ Output
  BY ShapeInit, FlowInit, OwnInit, OutputInit
<1>2. Shape /\ Flow /\ Ownership /\ Output /\ [Next]_vars
        => (Shape /\ Flow /\ Ownership /\ Output)'
  BY ShapeStep, FlowStep, OwnStep, OutputStep
<1>3. QED
  BY <1>1, <1>2, PTL DEF Spec

\* The items of a result are enqueued in order and none is skipped, whatever
\* is repeated after a restart.
THEOREM PublishedInOrder == Spec => []ItemsInOrder
<1>1. Output => ItemsInOrder
  BY DEF Output
<1>2. QED
  BY <1>1, OutputHolds, PTL

\* A message is DONE in the journal only when every item of its result was
\* enqueued.
THEOREM NothingDoneEarly == Spec => []DoneIsPublished
<1>1. Output => DoneIsPublished
  BY DEF Output
<1>2. QED
  BY <1>1, OutputHolds, PTL

-----------------------------------------------------------------------------
(* Every step stays within the budget, as long as the journal does not fail *)

LEMMA RepeatedIsFinite ==
  ASSUME NEW T, NEW s \in Seq(T)
  PROVE  IsFiniteSet(Repeated(s)) /\ Cardinality(Repeated(s)) \in Nat
<1>1. Len(s) \in Nat /\ 1 \in Int /\ Len(s) \in Int
  OBVIOUS
<1>2. IsFiniteSet(1..Len(s))
  BY <1>1, FS_Interval
<1>3. Repeated(s) \in SUBSET (1..Len(s))
  BY DEF Repeated
<1>4. IsFiniteSet(Repeated(s))
  BY <1>2, <1>3, FS_Subset
<1>5. QED
  BY <1>4, FS_CardinalityType

\* An item that is appended is a repetition when the sequence has it already.
LEMMA RepeatedAppend ==
  ASSUME NEW T, NEW s \in Seq(T), NEW e \in T
  PROVE  Cardinality(Repeated(Append(s, e))) =
            Cardinality(Repeated(s))
              + IF \E j \in 1..Len(s) : s[j].item = e.item THEN 1 ELSE 0
<1> DEFINE n == Len(s)
           t == Append(s, e)
           old == \E j \in 1..n : s[j].item = e.item
<1>1. /\ Len(t) = n + 1 /\ n \in Nat
      /\ \A i \in 1..n : t[i] = s[i]
      /\ t[n + 1] = e
  BY AppendProperties
<1>2. IsFiniteSet(Repeated(s)) /\ Cardinality(Repeated(s)) \in Nat
  BY RepeatedIsFinite
<1>3. n + 1 \notin Repeated(s)
  BY <1>1 DEF Repeated
<1> HIDE DEF t
<1>4. ASSUME NEW i \in 1..n
      PROVE  i \in Repeated(t) <=> i \in Repeated(s)
  <2>1. i \in 1..Len(t) /\ t[i] = s[i]
    BY <1>1
  <2>2. \A j \in 1..(i - 1) : j \in 1..n /\ t[j] = s[j]
    BY <1>1
  <2>3. QED
    BY <2>1, <2>2 DEF Repeated
<1>5. n + 1 \in Repeated(t) <=> old
  <2>1. n + 1 \in 1..Len(t) /\ t[n + 1] = e /\ (n + 1) - 1 = n
    BY <1>1
  <2>2. n + 1 \in Repeated(t) <=> \E j \in 1..n : t[j].item = e.item
    BY <2>1 DEF Repeated
  <2>3. QED
    BY <1>1, <2>2
<1>6. \A i : i \in Repeated(t) => i \in 1..n \/ i = n + 1
  BY <1>1 DEF Repeated
<1>7. \A i : i \in Repeated(s) => i \in 1..n
  BY DEF Repeated
<1>8. CASE old
  <2>1. Repeated(t) = Repeated(s) \cup {n + 1}
    BY <1>4, <1>5, <1>6, <1>7, <1>8
  <2>2. Cardinality(Repeated(s) \cup {n + 1}) = Cardinality(Repeated(s)) + 1
    BY <1>2, <1>3, FS_AddElement
  <2>3. QED
    BY <1>8, <2>1, <2>2 DEF t
<1>9. CASE ~old
  <2>1. Repeated(t) = Repeated(s)
    BY <1>4, <1>5, <1>6, <1>7, <1>9
  <2>2. QED
    BY <1>2, <1>9, <2>1 DEF t
<1>10. QED
  BY <1>8, <1>9

LEMMA RepeatsAre ==
  ASSUME Shape, NEW m \in Msg
  PROVE  Repeats(m) \in Nat /\ restarts \in Nat
<1>1. published[m] \in Seq([env : Envelope \cup {"none"}, item : Nat]) /\ restarts \in Nat
  BY DEF Shape, TypeOK
<1>2. QED
  BY <1>1, RepeatedIsFinite DEF Repeats

RepeatsAreFew == \A m \in Msg : Repeats(m) <= restarts

LEMMA BudgetParts ==
  Budget <=> ~broken /\ IndexIsCheckpoint /\ OneAhead /\ NextIsPaid /\ RepeatsAreFew
BY DEF Budget, RepeatsOnlyAfterRestart, RepeatsAreFew, Repeats, Repeated

LEMMA BudgetPartsNext ==
  Budget' <=> ~broken' /\ IndexIsCheckpoint' /\ OneAhead' /\ NextIsPaid' /\ RepeatsAreFew'
BY BudgetParts, PTL

\* An operation of the store throws only when the process is ending.
LEMMA ThrowsWhenStopped ==
  ASSUME ~broken, ~JournalMayFail, NEW m, NEW c, StoreThrows(m, c)
  PROVE  ~running /\ ~broken'
BY DEF StoreThrows

LEMMA JournalWorks ==
  ASSUME Shape, ~broken, ~JournalMayFail, Next
  PROVE  ~broken'
<1>1. CASE Read
  BY <1>1, ThrowsWhenStopped DEF Read, Reader, ReaderDequeues, ReaderFlushes, ReaderStages,
     ReaderCannotStage, ReaderCommits, ReaderCannotCommit, ReaderMarksReady,
     ReaderCannotMarkReady, ReaderPuts, ReaderLeavesLoop, ReaderExits, storeVars, StoreOk
<1>2. ASSUME NEW x \in Executor, Task(x) PROVE ~broken'
  <2>1. CASE UNCHANGED storeVars
    BY <2>1 DEF storeVars
  <2>2. CASE ~UNCHANGED storeVars
    <3>1. PICK c \in {SetState("PROCESSING"), SetRetry, SetResultPending("work"),
                      SetResultPending("error")} :
             StoreOk(task[x].msg, c) \/ StoreThrows(task[x].msg, c)
      BY <1>2, <2>2, TaskEffect
    <3>2. QED
      BY <3>1, ThrowsWhenStopped DEF StoreOk
  <2>3. QED
    BY <2>1, <2>2
<1>3. CASE Publisher
  BY <1>3, ThrowsWhenStopped DEF Publisher, PublisherPolls, PublisherEnqueues,
     PublisherCheckpoints, PublisherFinishes, PublisherCatches, PublisherExits, storeVars,
     StoreOk
<1>4. CASE Startup \/ Dispatch \/ (\E w \in Worker : WorkerTakes(w)) \/ Stop
  BY <1>4 DEF Startup, Open, StoreOpened, DiscardUnresolved, StoreOk, CollectRecoverable,
     Requeue, StartThreads, Dispatch, DispatcherPolls, DispatcherExecutes, DispatcherDrops,
     DispatcherExits, WorkerTakes, Stop, storeVars
<1>5. CASE Killed \/ Exits
  BY <1>5 DEF Killed, Exits, ProcessGone, StoreLost
<1>6. QED
  BY <1>1, <1>2, <1>3, <1>4, <1>5 DEF Next

\* Nothing about the repetitions changes while nothing is published.
LEMMA RepeatsSame ==
  ASSUME published' = published
  PROVE  \A m : /\ Repeats(m)' = Repeats(m)
                /\ \A k : (\E i \in 1..Len(published'[m]) : published'[m][i].item = k)
                             <=> Has(m, k)
BY DEF Repeats, Repeated, Has

LEMMA OpenBudget ==
  ASSUME Shape, Budget, Open
  PROVE  IndexIsCheckpoint' /\ OneAhead' /\ NextIsPaid' /\ RepeatsAreFew'
<1>1. /\ memory' = journal /\ journal' = journal /\ phase = "down" /\ phase' = "discard"
      /\ UNCHANGED <<published, publisher, pending, index, restarts>>
  BY DEF Open, StoreOpened, agentVars, pubVars
<1>2. IndexIsCheckpoint'
  BY <1>1 DEF Shape, NoThreadsYet, IndexIsCheckpoint
<1>3. OneAhead'
  <2>1. \A m \in Msg : journal[m].publishedCount \in Nat
    BY CountsAre
  <2>2. QED
    BY <1>1, <2>1 DEF Budget, OneAhead
<1>4. RepeatsAreFew'
  BY <1>1, BudgetParts, RepeatsSame DEF RepeatsAreFew
<1>5. NextIsPaid'
  <2>1. ASSUME NEW m \in Msg, Has(m, journal[m].publishedCount + 1)
        PROVE  Repeats(m) + 1 <= restarts
    <3>1. published[m] # <<>>
      BY <2>1, HasNone
    <3>2. QED
      BY <1>1, <3>1 DEF Budget, NextIsPaid
  <2>2. ASSUME NEW m \in Msg,
               \E i \in 1..Len(published'[m]) :
                  published'[m][i].item = memory'[m].publishedCount + 1
        PROVE  Repeats(m)' + 1 <= restarts'
    BY <1>1, <2>1, <2>2, RepeatsSame
  <2>3. QED
    BY <1>1, <2>2 DEF NextIsPaid, Has
<1>6. QED
  BY <1>2, <1>3, <1>4, <1>5

\* The end of a process pays for one repetition of every message.
LEMMA EndBudget ==
  ASSUME Shape, Budget, Killed \/ Exits
  PROVE  IndexIsCheckpoint' /\ OneAhead' /\ NextIsPaid' /\ RepeatsAreFew'
<1>1. /\ journal' = journal /\ published' = published /\ publisher' = "exit" /\ phase' = "down"
      /\ memory' = [m \in Msg |-> Absent] /\ restarts' = restarts + 1
  BY DEF Killed, Exits, ProcessGone, StoreLost
<1>2. \A m \in Msg : memory'[m].state # "RESULT_PENDING"
  BY <1>1 DEF Absent
<1>3. IndexIsCheckpoint' /\ OneAhead'
  BY <1>1, <1>2 DEF Budget, IndexIsCheckpoint, OneAhead
<1>4. \A m \in Msg : Repeats(m) \in Nat /\ restarts \in Nat /\ Repeats(m) <= restarts
  BY BudgetParts, RepeatsAre DEF RepeatsAreFew
<1>5. \A m \in Msg : Repeats(m)' + 1 <= restarts' /\ Repeats(m)' <= restarts'
  BY <1>1, <1>4, RepeatsSame
<1>6. NextIsPaid' /\ RepeatsAreFew'
  BY <1>1, <1>5 DEF NextIsPaid, RepeatsAreFew
<1>7. QED
  BY <1>3, <1>6

LEMMA QuietBudget ==
  ASSUME Shape, Ownership, Budget, QuietPublisher, \A n \in Msg : QuietEntry(n)
  PROVE  IndexIsCheckpoint' /\ OneAhead' /\ NextIsPaid' /\ RepeatsAreFew'
<1>1. UNCHANGED <<published, pending, index, restarts>> /\ Current' = Current
  BY DEF QuietPublisher, Current
<1>2. IndexIsCheckpoint'
  <2>1. SUFFICES ASSUME publisher' \in {"enqueue", "checkpoint"}
                 PROVE  index' = memory'[Current'].publishedCount
    BY DEF IndexIsCheckpoint
  <2>2. publisher' = publisher
    BY <2>1 DEF QuietPublisher
  <2>3. Current \in Msg /\ memory[Current].state \in Finished
    BY <2>1, <2>2, CurrentIsPending DEF Finished
  <2>4. memory'[Current] = memory[Current]
    BY <2>3 DEF QuietEntry
  <2>5. QED
    BY <1>1, <2>1, <2>2, <2>4 DEF Budget, IndexIsCheckpoint
<1>3. ASSUME NEW m \in Msg, published[m] = <<>>
      PROVE  (\A i \in 1..Len(published[m]) : FALSE) /\ \A k : ~Has(m, k)
  BY <1>3, HasNone DEF Has
<1>4. OneAhead'
  <2>1. ASSUME NEW m \in Msg
        PROVE  /\ journal'[m].state = "RESULT_PENDING" =>
                    \A i \in 1..Len(published[m]) :
                       published[m][i].item <= journal'[m].publishedCount + 1
               /\ memory'[m].state = "RESULT_PENDING" =>
                    \A i \in 1..Len(published[m]) :
                       published[m][i].item <= memory'[m].publishedCount + 1
               /\ memory'[m].state = "RESULT_PENDING" =>
                    memory'[m].publishedCount <= journal'[m].publishedCount
    <3>1. QuietEntry(m)
      OBVIOUS
    <3>2. /\ journal[m].state = "RESULT_PENDING" =>
                \A i \in 1..Len(published[m]) : published[m][i].item <= journal[m].publishedCount + 1
          /\ memory[m].state = "RESULT_PENDING" =>
                \A i \in 1..Len(published[m]) : published[m][i].item <= memory[m].publishedCount + 1
          /\ memory[m].state = "RESULT_PENDING" =>
                memory[m].publishedCount <= journal[m].publishedCount
      BY DEF Budget, OneAhead
    <3>3. journal'[m].state = "RESULT_PENDING" =>
             \A i \in 1..Len(published[m]) : published[m][i].item <= journal'[m].publishedCount + 1
      BY <1>3, <3>1, <3>2 DEF QuietEntry
    <3>4. memory'[m].state = "RESULT_PENDING" =>
             \A i \in 1..Len(published[m]) : published[m][i].item <= memory'[m].publishedCount + 1
      BY <1>3, <3>1, <3>2 DEF QuietEntry, Finished
    <3>5. ASSUME memory'[m].state = "RESULT_PENDING"
          PROVE  memory'[m].publishedCount <= journal'[m].publishedCount
      <4>1. CASE memory[m].state \in Finished
        BY <3>1, <3>2, <3>5, <4>1 DEF QuietEntry
      <4>2. CASE memory[m].state \notin Finished
        <5>1. memory'[m].publishedCount = 0 /\ journal'[m].publishedCount = 0
          BY <3>1, <3>5, <4>2 DEF QuietEntry, NewResult, Finished
        <5>2. QED
          BY <5>1
      <4>3. QED
        BY <4>1, <4>2
    <3>6. QED
      BY <3>3, <3>4, <3>5
  <2>2. QED
    BY <1>1, <2>1 DEF OneAhead
<1>5. RepeatsAreFew'
  BY <1>1, BudgetParts, RepeatsSame DEF RepeatsAreFew
<1>6. NextIsPaid'
  <2>1. ASSUME NEW m \in Msg, phase' # "down", running',
               memory'[m].state = "RESULT_PENDING", Has(m, memory'[m].publishedCount + 1),
               ~(publisher' = "checkpoint" /\ m = Current)
        PROVE  Repeats(m) + 1 <= restarts
    <3>1. published[m] # <<>>
      BY <1>3, <2>1
    <3>2. memory'[m] = memory[m]
      BY <2>1, <3>1 DEF QuietEntry, Finished
    <3>3. phase # "down" /\ running /\ ~(publisher = "checkpoint" /\ m = Current)
      BY <2>1 DEF QuietPublisher
    <3>4. QED
      BY <2>1, <3>2, <3>3 DEF Budget, NextIsPaid
  <2>2. ASSUME NEW m \in Msg, phase' = "down", published[m] # <<>>
        PROVE  Repeats(m) + 1 <= restarts
    BY <2>2 DEF QuietPublisher, Budget, NextIsPaid
  <2>3. ASSUME NEW m \in Msg
        PROVE  /\ phase' = "down" /\ published'[m] # <<>> => Repeats(m)' + 1 <= restarts'
               /\ /\ phase' # "down" /\ running' /\ memory'[m].state = "RESULT_PENDING"
                  /\ \E i \in 1..Len(published'[m]) :
                        published'[m][i].item = memory'[m].publishedCount + 1
                  /\ ~(publisher' = "checkpoint" /\ m = Current')
                  => Repeats(m)' + 1 <= restarts'
    BY <1>1, <2>1, <2>2, RepeatsSame
  <2>4. QED
    BY <2>3 DEF NextIsPaid, Has
<1>7. QED
  BY <1>2, <1>4, <1>5, <1>6

\* An enqueue: when the item was there already, a process that ended between
\* its enqueue and its checkpoint has paid for it.
LEMMA EnqueueBudget ==
  ASSUME Shape, Ownership, Budget, PublisherEnqueues
  PROVE  IndexIsCheckpoint' /\ OneAhead' /\ NextIsPaid' /\ RepeatsAreFew'
<1>0. publisher = "enqueue"
  BY DEF PublisherEnqueues
<1> PICK m \in Msg : m = Current
  BY <1>0, CurrentIsPending
<1> DEFINE e == [env |-> memory[m].result, item |-> index + 1]
           s == published[m]
<1>1. /\ m \in Msg /\ m = Current /\ memory[m].state = "RESULT_PENDING"
      /\ publisher = "enqueue" /\ publisher' = "checkpoint" /\ running
      /\ phase' = phase /\ restarts' = restarts /\ running' = running
      /\ memory' = memory /\ journal' = journal /\ pending' = pending /\ index' = index
      /\ published' = [published EXCEPT ![m] = Append(s, e)]
  BY <1>0, CurrentIsPending DEF PublisherEnqueues, OnlyPublisher, storeVars
<1>2. phase # "down"
  BY <1>1 DEF Shape, NoThreadsYet
<1>3. index = memory[m].publishedCount /\ index \in Nat /\ journal[m].publishedCount \in Nat
  BY <1>1, CountsAre DEF Budget, IndexIsCheckpoint
<1>4. /\ published \in [Msg -> Seq([env : Envelope \cup {"none"}, item : Nat])]
      /\ memory[m] \in Entry \cup {Absent}
  BY <1>1 DEF Shape, TypeOK
<1>5. e \in [env : Envelope \cup {"none"}, item : Nat] /\ e.item = index + 1
  BY <1>3, <1>4, EntryFields
<1>6. Current' = m
  BY <1>1 DEF Current
<1> HIDE DEF e
<1>7. /\ published'[m] = Append(s, e)
      /\ \A n \in Msg : n # m => published'[n] = published[n]
  BY <1>1, <1>4
<1>8. /\ Len(Append(s, e)) = Len(s) + 1 /\ Len(s) \in Nat
      /\ \A i \in 1..Len(s) : Append(s, e)[i] = s[i]
      /\ Append(s, e)[Len(s) + 1] = e
  BY <1>1, <1>4, <1>5, AppendProperties
<1>9. Repeats(m)' = Repeats(m) + IF Has(m, index + 1) THEN 1 ELSE 0
  <2>1. Cardinality(Repeated(Append(s, e))) =
           Cardinality(Repeated(s)) + IF \E j \in 1..Len(s) : s[j].item = e.item THEN 1 ELSE 0
    BY <1>1, <1>4, <1>5, RepeatedAppend
  <2>2. Repeats(m)' = Cardinality(Repeated(published'[m]))
    BY DEF Repeats, Repeated
  <2>3. QED
    BY <1>5, <1>7, <2>1, <2>2 DEF Repeats, Has
<1>10. \A n \in Msg : n # m => Repeats(n)' = Repeats(n)
  BY <1>7 DEF Repeats, Repeated
<1>11. Has(m, index + 1) => Repeats(m) + 1 <= restarts
  BY <1>1, <1>2, <1>3 DEF Budget, NextIsPaid
<1>12. \A n \in Msg : Repeats(n) \in Nat /\ restarts \in Nat /\ Repeats(n) <= restarts
  BY BudgetParts, RepeatsAre DEF RepeatsAreFew
<1>13. RepeatsAreFew'
  <2>1. Repeats(m)' <= restarts
    BY <1>1, <1>9, <1>11, <1>12
  <2>2. QED
    BY <1>1, <1>10, <1>12, <2>1 DEF RepeatsAreFew
<1>14. IndexIsCheckpoint'
  BY <1>1, <1>3, <1>6 DEF IndexIsCheckpoint
<1>15. OneAhead'
  <2>1. ASSUME NEW n \in Msg
        PROVE  /\ journal[n].state = "RESULT_PENDING" =>
                    \A i \in 1..Len(published'[n]) :
                       published'[n][i].item <= journal[n].publishedCount + 1
               /\ memory[n].state = "RESULT_PENDING" =>
                    \A i \in 1..Len(published'[n]) :
                       published'[n][i].item <= memory[n].publishedCount + 1
               /\ memory[n].state = "RESULT_PENDING" =>
                    memory[n].publishedCount <= journal[n].publishedCount
    <3>1. /\ journal[n].state = "RESULT_PENDING" =>
                \A i \in 1..Len(published[n]) : published[n][i].item <= journal[n].publishedCount + 1
          /\ memory[n].state = "RESULT_PENDING" =>
                \A i \in 1..Len(published[n]) : published[n][i].item <= memory[n].publishedCount + 1
          /\ memory[n].state = "RESULT_PENDING" =>
                memory[n].publishedCount <= journal[n].publishedCount
      BY DEF Budget, OneAhead
    <3>2. CASE n # m
      BY <1>7, <3>1, <3>2
    <3>3. CASE n = m
      <4>1. \A i \in 1..(Len(s) + 1) : i \in 1..Len(s) \/ i = Len(s) + 1
        BY <1>8
      <4>2. index + 1 <= journal[m].publishedCount + 1 /\ index + 1 <= memory[m].publishedCount + 1
        BY <1>1, <1>3, <3>1, <3>3
      <4>3. \A i \in 1..Len(published'[m]) :
               (i \in 1..Len(s) /\ published'[m][i] = s[i]) \/ published'[m][i].item = index + 1
        BY <1>5, <1>7, <1>8, <4>1
      <4>4. QED
        BY <3>1, <3>3, <4>2, <4>3
    <3>4. QED
      BY <3>2, <3>3
  <2>2. QED
    BY <1>1, <2>1 DEF OneAhead
<1>16. NextIsPaid'
  <2>1. ASSUME NEW n \in Msg, n # m, running, memory[n].state = "RESULT_PENDING",
               \E i \in 1..Len(published'[n]) :
                  published'[n][i].item = memory[n].publishedCount + 1
        PROVE  Repeats(n)' + 1 <= restarts
    <3>1. Has(n, memory[n].publishedCount + 1)
      BY <1>7, <2>1 DEF Has
    <3>2. QED
      BY <1>1, <1>2, <1>10, <2>1, <3>1 DEF Budget, NextIsPaid
  <2>2. QED
    BY <1>1, <1>2, <1>6, <2>1 DEF NextIsPaid, Has
<1>17. QED
  BY <1>13, <1>14, <1>15, <1>16

\* The other steps of the publisher enqueue nothing.
LEMMA CheckpointBudget ==
  ASSUME Shape, Ownership, Budget, ~JournalMayFail, Publisher, ~PublisherEnqueues
  PROVE  IndexIsCheckpoint' /\ OneAhead' /\ NextIsPaid' /\ RepeatsAreFew'
<1>1. UNCHANGED <<published, phase, running, restarts>>
  BY DEF Publisher, PublisherPolls, PublisherCheckpoints, PublisherFinishes, PublisherCatches,
     PublisherExits, OnlyPublisher
<1>2. RepeatsAreFew'
  BY <1>1, BudgetParts, RepeatsSame DEF RepeatsAreFew
<1>3. publisher \in {"enqueue", "checkpoint", "finish"} =>
         /\ Current \in Msg /\ memory[Current].state = "RESULT_PENDING"
  BY CurrentIsPending
<1>4. \A n \in Msg :
         /\ memory[n].publishedCount \in Nat /\ journal[n].publishedCount \in Nat /\ index \in Nat
         /\ \A i \in 1..Len(published[n]) : published[n][i].item \in Nat
  BY CountsAre
<1>5. \A e \in Entry :
         /\ Changed(SetPublishedCount(index + 1), e).publishedCount = index + 1
         /\ Changed(SetPublishedCount(index + 1), e).state = e.state
         /\ Changed(SetState("DONE"), e).state = "DONE"
  BY Changes
\* What becomes of the entry the publisher works on.
<1>6. ASSUME NEW m \in Msg
      PROVE  \/ memory'[m] = memory[m] /\ journal'[m] = journal[m]
             \/ /\ PublisherCheckpoints /\ m = Current
                /\ memory'[m].publishedCount = index + 1 /\ journal'[m].publishedCount = index + 1
             \/ PublisherFinishes /\ memory'[m].state = "DONE" /\ journal'[m].state = "DONE"
             \/ /\ PublisherCatches /\ ~running /\ memory'[m] = memory[m]
                /\ \/ journal'[m].state = "DONE" /\ journal'[m].publishedCount = journal[m].publishedCount
                   \/ publisher = "checkpoint" /\ m = Current /\ journal'[m].publishedCount = index + 1
  <2>1. CASE (memory' = memory /\ journal' = journal) \/ m # Current
    BY <2>1, PublisherWrites
  <2>2. CASE ~(memory' = memory /\ journal' = journal) /\ m = Current
    <3>1. /\ publisher \in {"checkpoint", "finish"}
          /\ memory[m] \in Entry /\ journal[m] \in Entry
      BY <2>2, PublisherWrites
    <3>2. Changed(SetState("DONE"), journal[m]).publishedCount = journal[m].publishedCount
      BY <3>1, Changes
    <3>3. PublisherCatches => ~running
      BY ThrowsWhenStopped DEF PublisherCatches, Budget
    <3>4. CASE publisher = "checkpoint"
      <4>1. \/ /\ memory'[m] = Changed(SetPublishedCount(index + 1), memory[m])
               /\ journal'[m] = Changed(SetPublishedCount(index + 1), journal[m])
               /\ PublisherCheckpoints \/ PublisherFinishes
            \/ /\ memory' = memory
               /\ journal'[m] \in {journal[m], Changed(SetPublishedCount(index + 1), journal[m])}
               /\ PublisherCatches
        BY <2>2, <3>4, PublisherWrites
      <4>2. ~PublisherFinishes
        BY <3>4 DEF PublisherFinishes
      <4>3. QED
        BY <1>5, <2>2, <3>1, <3>3, <3>4, <4>1, <4>2
    <3>5. CASE publisher = "finish"
      <4>1. \/ /\ memory'[m] = Changed(SetState("DONE"), memory[m])
               /\ journal'[m] = Changed(SetState("DONE"), journal[m])
               /\ PublisherCheckpoints \/ PublisherFinishes
            \/ /\ memory' = memory
               /\ journal'[m] \in {journal[m], Changed(SetState("DONE"), journal[m])}
               /\ PublisherCatches
        BY <2>2, <3>5, PublisherWrites
      <4>2. ~PublisherCheckpoints
        BY <3>5 DEF PublisherCheckpoints
      <4>3. QED
        BY <1>5, <2>2, <3>1, <3>2, <3>3, <3>5, <4>1, <4>2
    <3>6. QED
      BY <3>1, <3>4, <3>5
  <2>3. QED
    BY <2>1, <2>2
<1>7. publisher = "checkpoint" => index = memory[Current].publishedCount
  BY DEF Budget, IndexIsCheckpoint
<1>8. ASSUME NEW m \in Msg
      PROVE  /\ journal[m].state = "RESULT_PENDING" =>
                  \A i \in 1..Len(published[m]) :
                     published[m][i].item <= journal[m].publishedCount + 1
             /\ memory[m].state = "RESULT_PENDING" =>
                  \A i \in 1..Len(published[m]) :
                     published[m][i].item <= memory[m].publishedCount + 1
             /\ memory[m].state = "RESULT_PENDING" =>
                  memory[m].publishedCount <= journal[m].publishedCount
  BY DEF Budget, OneAhead
<1>9. OneAhead'
  <2>1. ASSUME NEW m \in Msg
        PROVE  /\ journal'[m].state = "RESULT_PENDING" =>
                    \A i \in 1..Len(published[m]) :
                       published[m][i].item <= journal'[m].publishedCount + 1
               /\ memory'[m].state = "RESULT_PENDING" =>
                    \A i \in 1..Len(published[m]) :
                       published[m][i].item <= memory'[m].publishedCount + 1
               /\ memory'[m].state = "RESULT_PENDING" =>
                    memory'[m].publishedCount <= journal'[m].publishedCount
    <3>1. CASE memory'[m] = memory[m] /\ journal'[m] = journal[m]
      BY <1>8, <3>1
    <3>2. ASSUME publisher = "checkpoint", m = Current
          PROVE  /\ index = memory[m].publishedCount /\ index \in Nat
                 /\ memory[m].publishedCount <= index + 1
                 /\ \A i \in 1..Len(published[m]) : published[m][i].item <= (index + 1) + 1
      <4>1. index = memory[m].publishedCount /\ index \in Nat
        BY <1>4, <1>7, <3>2
      <4>2. \A i \in 1..Len(published[m]) :
               published[m][i].item \in Nat /\ published[m][i].item <= index + 1
        BY <1>3, <1>4, <1>8, <3>2, <4>1
      <4>3. \A k \in Nat : k <= index + 1 => k <= (index + 1) + 1
        BY <4>1
      <4>4. QED
        BY <4>1, <4>2, <4>3
    <3>3. CASE /\ PublisherCheckpoints /\ m = Current
               /\ memory'[m].publishedCount = index + 1 /\ journal'[m].publishedCount = index + 1
      <4>1. publisher = "checkpoint"
        BY <3>3 DEF PublisherCheckpoints
      <4>2. QED
        BY <3>2, <3>3, <4>1
    <3>4. CASE PublisherFinishes /\ memory'[m].state = "DONE" /\ journal'[m].state = "DONE"
      BY <3>4
    <3>5. CASE /\ memory'[m] = memory[m]
               /\ journal'[m].state = "DONE" /\ journal'[m].publishedCount = journal[m].publishedCount
      BY <1>8, <3>5
    <3>6. CASE /\ memory'[m] = memory[m]
               /\ publisher = "checkpoint" /\ m = Current /\ journal'[m].publishedCount = index + 1
      BY <1>8, <3>2, <3>6
    <3>7. QED
      BY <1>6, <3>1, <3>3, <3>4, <3>5, <3>6
  <2>2. QED
    BY <1>1, <2>1 DEF OneAhead
<1>10. NextIsPaid'
  <2>1. ASSUME NEW m \in Msg, phase # "down", running, memory'[m].state = "RESULT_PENDING",
               Has(m, memory'[m].publishedCount + 1)
        PROVE  Repeats(m) + 1 <= restarts
    <3>1. ~(PublisherCheckpoints /\ m = Current)
      <4>1. SUFFICES ASSUME PublisherCheckpoints, m = Current PROVE FALSE
        OBVIOUS
      <4>2. publisher = "checkpoint"
        BY <4>1 DEF PublisherCheckpoints
      <4>3. \A i \in 1..Len(published[m]) :
               published[m][i].item \in Nat /\ published[m][i].item <= index + 1
        BY <1>3, <1>4, <1>7, <1>8, <4>1, <4>2
      <4>4. memory'[m].publishedCount = index + 1
        <5>1. memory[m] \in Entry
          BY <4>1, <4>2, CurrentIs
        <5>2. memory'[m] = Changed(SetPublishedCount(index + 1), memory[m])
          <6>1. memory \in [Msg -> Entry \cup {Absent}]
            BY DEF Shape, TypeOK
          <6>2. QED
            BY <4>1, <6>1 DEF PublisherCheckpoints, StoreOk
        <5>3. QED
          BY <1>5, <5>1, <5>2
      <4>5. PICK i \in 1..Len(published[m]) : published[m][i].item = (index + 1) + 1
        BY <2>1, <4>4 DEF Has
      <4>6. QED
        BY <1>4, <4>3, <4>5
    <3>2. memory'[m] = memory[m]
      BY <1>6, <2>1, <3>1
    <3>3. ~(publisher = "checkpoint" /\ m = Current)
      <4>1. SUFFICES ASSUME publisher = "checkpoint", m = Current PROVE FALSE
        OBVIOUS
      <4>2. PublisherCatches
        BY <3>1, <4>1 DEF Publisher, PublisherPolls, PublisherEnqueues, PublisherFinishes,
           PublisherExits
      <4>3. ~running
        BY <4>2, ThrowsWhenStopped DEF PublisherCatches, Budget
      <4>4. QED
        BY <2>1, <4>3
    <3>4. QED
      BY <2>1, <3>2, <3>3 DEF Budget, NextIsPaid
  <2>2. ASSUME NEW m \in Msg, phase = "down", published[m] # <<>>
        PROVE  Repeats(m) + 1 <= restarts
    BY <2>2 DEF Budget, NextIsPaid
  <2>3. ASSUME NEW m \in Msg
        PROVE  /\ phase' = "down" /\ published'[m] # <<>> => Repeats(m)' + 1 <= restarts'
               /\ /\ phase' # "down" /\ running' /\ memory'[m].state = "RESULT_PENDING"
                  /\ \E i \in 1..Len(published'[m]) :
                        published'[m][i].item = memory'[m].publishedCount + 1
                  => Repeats(m)' + 1 <= restarts'
    BY <1>1, <2>1, <2>2, RepeatsSame
  <2>4. QED
    BY <2>3 DEF NextIsPaid, Has
<1>11. IndexIsCheckpoint'
  <2>1. SUFFICES ASSUME publisher' \in {"enqueue", "checkpoint"}
                 PROVE  index' = memory'[Current'].publishedCount
    BY DEF IndexIsCheckpoint
  <2>2. PublisherPolls \/ PublisherCheckpoints \/ PublisherFinishes
    BY <2>1 DEF Publisher, PublisherCatches, PublisherExits
  <2>3. CASE PublisherPolls
    <3>1. /\ memory' = memory
          /\ pending' = InOrder(PendingResults) /\ InOrder(PendingResults) # <<>>
          /\ index' = memory[Head(InOrder(PendingResults))].publishedCount
      BY <2>1, <2>3 DEF PublisherPolls, Selects, storeVars
    <3>2. QED
      BY <3>1 DEF Current
  <2>4. CASE PublisherCheckpoints
    <3>1. publisher = "checkpoint" /\ pending' = pending /\ index' = index + 1
      BY <2>4 DEF PublisherCheckpoints
    <3>2. PICK m \in Msg : m = Current
      BY <1>3, <3>1
    <3>3. Current' = m
      BY <3>1, <3>2 DEF Current
    <3>4. memory[m] \in Entry
      BY <3>1, <3>2, CurrentIs
    <3>5. memory'[m] = Changed(SetPublishedCount(index + 1), memory[m])
      <4>1. memory \in [Msg -> Entry \cup {Absent}]
        BY DEF Shape, TypeOK
      <4>2. QED
        BY <2>4, <3>2, <4>1 DEF PublisherCheckpoints, StoreOk
    <3>6. QED
      BY <1>5, <3>1, <3>3, <3>4, <3>5
  <2>5. CASE PublisherFinishes
    <3>1. /\ publisher = "finish" /\ pending' = Tail(pending) /\ Tail(pending) # <<>>
          /\ index' = memory[Head(Tail(pending))].publishedCount
      BY <2>1, <2>5 DEF PublisherFinishes
    <3>2. /\ Head(Tail(pending)) \in Msg /\ Head(Tail(pending)) # Current
      BY <3>1, NextOfList
    <3>3. memory'[Head(Tail(pending))] = memory[Head(Tail(pending))]
      BY <3>2, PublisherWrites
    <3>4. QED
      BY <3>1, <3>3 DEF Current
  <2>6. QED
    BY <2>2, <2>3, <2>4, <2>5
<1>12. QED
  BY <1>2, <1>9, <1>10, <1>11

LEMMA SameBudget ==
  ASSUME Budget, UNCHANGED vars
  PROVE  Budget'
<1>1. UNCHANGED <<phase, running, restarts, memory, journal, broken, published, publisher, pending,
                  index>>
  BY DEF vars, storeVars, agentVars, pubVars
<1>2. IndexIsCheckpoint' /\ OneAhead' /\ NextIsPaid'
  BY <1>1, RepeatsSame DEF Budget, IndexIsCheckpoint, OneAhead, NextIsPaid, Current, Has
<1>3. RepeatsAreFew'
  BY <1>1, BudgetParts, RepeatsSame DEF RepeatsAreFew
<1>4. QED
  BY <1>1, <1>2, <1>3, BudgetPartsNext DEF Budget

LEMMA BudgetInit == Init => Budget
<1> SUFFICES ASSUME Init PROVE Budget
  OBVIOUS
<1>1. /\ ~broken /\ phase = "down" /\ publisher = "exit" /\ restarts = 0
      /\ memory = [m \in Msg |-> Absent] /\ journal = [m \in Msg |-> Absent]
      /\ published = [m \in Msg |-> <<>>]
  BY DEF Init
<1>2. IndexIsCheckpoint /\ OneAhead /\ NextIsPaid
  BY <1>1 DEF IndexIsCheckpoint, OneAhead, NextIsPaid, Absent
<1>3. RepeatsAreFew
  <2>1. \A i \in 1..Len(<<>>) : FALSE
    OBVIOUS
  <2>2. Repeated(<<>>) = {}
    BY <2>1 DEF Repeated
  <2>3. Cardinality({}) = 0
    BY FS_EmptySet
  <2>4. ASSUME NEW m \in Msg PROVE Repeats(m) = 0
    <3>1. published[m] = <<>>
      BY <1>1
    <3>2. QED
      BY <2>2, <2>3, <3>1 DEF Repeats
  <2>5. 0 <= restarts
    BY <1>1
  <2>6. QED
    BY <2>4, <2>5 DEF RepeatsAreFew
<1>4. QED
  BY <1>1, <1>2, <1>3, BudgetParts

Frugal == ~JournalMayFail => Budget

LEMMA BudgetStep ==
  Shape /\ Flow /\ Ownership /\ Frugal /\ [Next]_vars => Frugal'
<1> SUFFICES ASSUME Shape, Flow, Ownership, Budget, [Next]_vars, ~JournalMayFail PROVE Budget'
  BY DEF Frugal
<1>1. CASE UNCHANGED vars
  BY <1>1, SameBudget
<1>2. CASE Next
  <2>1. ~broken'
    BY <1>2, JournalWorks DEF Budget
  <2>2. CASE Quiet
    BY <2>1, <2>2, QuietSteps, QuietBudget, BudgetPartsNext
  <2>3. CASE Open
    BY <2>1, <2>3, OpenBudget, BudgetPartsNext
  <2>4. CASE Killed \/ Exits
    BY <2>1, <2>4, EndBudget, BudgetPartsNext
  <2>5. CASE Publisher
    BY <2>1, <2>5, EnqueueBudget, CheckpointBudget, BudgetPartsNext
  <2>6. QED
    BY <1>2, <2>2, <2>3, <2>4, <2>5, NextIs
<1>3. QED
  BY <1>1, <1>2

\* While the journal does not fail, an item is enqueued again only because a
\* process ended between its enqueue and its checkpoint: a message has at
\* most one repetition for every process that ended.
THEOREM RepetitionsArePaid == Spec => [](~JournalMayFail => RepeatsOnlyAfterRestart)
<1>1. Init => Shape /\ Flow /\ Ownership /\ Frugal
  BY ShapeInit, FlowInit, OwnInit, BudgetInit DEF Frugal
<1>2. Shape /\ Flow /\ Ownership /\ Frugal /\ [Next]_vars
        => (Shape /\ Flow /\ Ownership /\ Frugal)'
  BY ShapeStep, FlowStep, OwnStep, BudgetStep
<1>3. Frugal => (~JournalMayFail => RepeatsOnlyAfterRestart)
  BY DEF Frugal, Budget
<1>4. QED
  BY <1>1, <1>2, <1>3, PTL DEF Spec
=============================================================================
