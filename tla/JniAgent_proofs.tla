--------------------------- MODULE JniAgent_proofs ---------------------------
(***************************************************************************)
(* What is proved of JniAgent for every number and kind of messages and    *)
(* every bound on the restarts.                                            *)
(***************************************************************************)
EXTENDS JniAgent, ProofLemmas

Item == {"ACK", "RESULT", "ERROR"}

\* What a message is owed before it may leave the input queue.
Answered(m) ==
    kind[m] # "health" =>
        \/ Has(m, "ERROR")
        \/ /\ Has(m, "ACK")
           /\ kind[m] = "valid" => Has(m, "RESULT")

\* A message that left the input queue got what it is owed.
GoneIsAnswered == \A m \in Msg \ input : Answered(m)

\* A RESULT directly follows an ACK.
ResultFollowsAck ==
    \A m \in Msg : \A i \in 1..Len(output[m]) :
        output[m][i] = "RESULT" => (i > 1 /\ output[m][i - 1] = "ACK")

Working == at \in {"respond", "ack", "result", "quarantine", "commit"}

\* How far the message under XA is: what process() knows of it, and what has
\* been enqueued since it was taken.
StageOfCurrent ==
    /\ Working => current \in input
    /\ at \in {"respond", "ack"} => kind[current] \in {"rejected", "valid"}
    /\ at = "result" =>
          /\ kind[current] = "valid"
          /\ output[current] # <<>>
          /\ output[current][Len(output[current])] = "ACK"
    /\ at = "commit" => Answered(current)

\* The item has not been enqueued for m since m was last taken.
Fresh(m, item) ==
    /\ m \in input
    /\ \/ current # m
       \/ at \in {"respond", "ack", "quarantine"}
       \/ at = "result" /\ item # "ACK"

Count(m, item) == Cardinality(Positions(output[m], item))

\* Each process enqueues an item for a message at most once.
CountsArePaid ==
    \A m \in Msg, item \in Item :
        /\ Count(m, item) <= restarts + 1
        /\ Fresh(m, item) => Count(m, item) <= restarts

\* The inductive invariant.
IInv ==
    /\ TypeOK
    /\ GoneIsAnswered
    /\ ResultFollowsAck
    /\ StageOfCurrent
    /\ CountsArePaid

-----------------------------------------------------------------------------
(* Lemmas *)

\* deQueueXA() finds a message when there is one.
LEMMA OldestIsInput ==
  ASSUME TypeOK, input # {}
  PROVE  Oldest \in input
<1>1. Msg \subseteq Nat
  BY AgentAssumption DEF Msg
<1>2. input \in SUBSET Nat
  BY <1>1 DEF TypeOK
<1>3. QED
  BY <1>2, LeastIsChosen DEF Oldest

LEMMA NoMsgIsNoMessage == NoMsg \notin Msg
BY AgentAssumption DEF NoMsg, Msg

\* While process() is at work there is a message in hand.
LEMMA CurrentIsMessage ==
  ASSUME TypeOK, at \notin {"down", "loop"}
  PROVE  current \in Msg
BY DEF TypeOK

\* What an enqueue changes.
LEMMA EnqueueEffect ==
  ASSUME TypeOK, current \in Msg, NEW item \in Item, NEW next, Enqueue(item, next)
  PROVE  /\ output' \in [Msg -> Seq(Item)]
         /\ output'[current] = Append(output[current], item)
         /\ output[current] \in Seq(Item)
         /\ \A m \in Msg : m # current => output'[m] = output[m]
<1>1. output \in [Msg -> Seq(Item)]
  BY DEF TypeOK, Item
<1>2. output' = [output EXCEPT ![current] = Append(output[current], item)]
  BY DEF Enqueue
<1>3. Append(output[current], item) \in Seq(Item)
  BY <1>1, AppendProperties
<1>4. QED
  BY <1>1, <1>2, <1>3

\* What has been enqueued for a message stays, and the item joins it.
LEMMA EnqueueHas ==
  ASSUME TypeOK, current \in Msg, NEW item \in Item, NEW next, Enqueue(item, next)
  PROVE  /\ \A m \in Msg : \A x : Has(m, x) => Has(m, x)'
         /\ Has(current, item)'
         /\ output'[current] # <<>>
         /\ output'[current][Len(output'[current])] = item
<1> DEFINE s == output[current]
<1>1. s \in Seq(Item) /\ output'[current] = Append(s, item)
  BY EnqueueEffect
<1>2. /\ Len(Append(s, item)) = Len(s) + 1
      /\ \A i \in 1..Len(s) : Append(s, item)[i] = s[i]
      /\ Append(s, item)[Len(s) + 1] = item
      /\ Len(s) \in Nat
      /\ Append(s, item) # <<>>
  BY <1>1, AppendProperties
<1>3. Len(s) + 1 \in 1..(Len(s) + 1) /\ \A i \in 1..Len(s) : i \in 1..(Len(s) + 1)
  BY <1>2
<1>4. ASSUME NEW m \in Msg, NEW x, Has(m, x) PROVE Has(m, x)'
  <2>1. CASE m = current
    BY <1>1, <1>2, <1>3, <1>4, <2>1 DEF Has
  <2>2. CASE m # current
    BY <1>4, <2>2, EnqueueEffect DEF Has
  <2>3. QED
    BY <2>1, <2>2
<1>5. Has(current, item)'
  <2>1. current' = current
    BY DEF Enqueue
  <2>2. QED
    BY <1>1, <1>2, <1>3, <2>1 DEF Has
<1>6. QED
  BY <1>1, <1>2, <1>4, <1>5

-----------------------------------------------------------------------------
(* Types *)

LEMMA TypeStep == TypeOK /\ [Next]_vars => TypeOK'
<1> SUFFICES ASSUME TypeOK, [Next]_vars PROVE TypeOK'
  OBVIOUS
<1> USE NoMsgIsNoMessage
<1>1. CASE Take
  <2>1. current' \in Msg
    BY <1>1, OldestIsInput DEF Take, TypeOK
  <2>2. at' \in {"commit", "quarantine", "respond"}
    BY <1>1 DEF Take
  <2>3. QED
    BY <1>1, <2>1, <2>2 DEF Take, TypeOK
<1>2. CASE Respond
  BY <1>2 DEF Respond, TypeOK
<1>3. ASSUME NEW item \in Item, NEW next \in {"ack", "result", "commit"},
             at \notin {"down", "loop"}, Enqueue(item, next)
      PROVE  TypeOK'
  <2>1. output' \in [Msg -> Seq(Item)]
    BY <1>3, CurrentIsMessage, EnqueueEffect
  <2>2. QED
    BY <1>3, <2>1 DEF Enqueue, TypeOK, Item
<1>4. CASE EnqueueAck
  BY <1>3, <1>4 DEF EnqueueAck, Item
<1>5. CASE EnqueueResult
  BY <1>3, <1>5 DEF EnqueueResult, Item
<1>6. CASE Quarantine
  BY <1>3, <1>6 DEF Quarantine, Item
<1>7. CASE GiveUp
  BY <1>7 DEF GiveUp, TypeOK
<1>8. CASE Commit
  BY <1>8 DEF Commit, TypeOK
<1>9. CASE CommitFails
  BY <1>9 DEF CommitFails, TypeOK
<1>10. CASE Stop
  BY <1>10 DEF Stop, TypeOK
<1>11. CASE ProcessEnds
  <2>1. restarts \in Nat /\ restarts' = restarts + 1
    BY <1>11 DEF ProcessEnds, TypeOK
  <2>2. restarts' \in Nat
    BY <2>1
  <2>3. QED
    BY <1>11, <2>2 DEF ProcessEnds, TypeOK
<1>12. CASE Start
  BY <1>12 DEF Start, TypeOK
<1>13. CASE UNCHANGED vars
  BY <1>13 DEF vars, TypeOK
<1>14. QED
  BY <1>1, <1>2, <1>4, <1>5, <1>6, <1>7, <1>8, <1>9, <1>10, <1>11, <1>12, <1>13
     DEF Next, Run

LEMMA TypeInit == Init => TypeOK
<1> SUFFICES ASSUME Init PROVE TypeOK
  OBVIOUS
<1>1. output \in [Msg -> Seq({"ACK", "RESULT", "ERROR"})]
  BY DEF Init
<1>2. QED
  BY <1>1 DEF Init, TypeOK

\* All variables hold values of their types, and a message is in hand from
\* deQueueXA() to its end.
THEOREM TypeCorrect == Spec => []TypeOK
<1>1. QED
  BY TypeInit, TypeStep, PTL DEF Spec

-----------------------------------------------------------------------------
(* The answers *)

\* What a step that enqueues nothing leaves as it is.
LEMMA AnsweredStays ==
  ASSUME UNCHANGED output
  PROVE  /\ \A m \in Msg : Answered(m) => Answered(m)'
         /\ ResultFollowsAck => ResultFollowsAck'
BY DEF Answered, Has, ResultFollowsAck

\* A message that is answered stays answered when more is enqueued.
LEMMA AnsweredGrows ==
  ASSUME TypeOK, current \in Msg, NEW item \in Item, NEW next, Enqueue(item, next),
         NEW m \in Msg, Answered(m)
  PROVE  Answered(m)'
BY EnqueueHas DEF Answered

\* An enqueue keeps each RESULT behind its ACK, when a RESULT comes only after
\* an ACK.
LEMMA FollowsStep ==
  ASSUME TypeOK, ResultFollowsAck, current \in Msg, NEW item \in Item, NEW next,
         Enqueue(item, next),
         item = "RESULT" => /\ output[current] # <<>>
                            /\ output[current][Len(output[current])] = "ACK"
  PROVE  ResultFollowsAck'
<1> DEFINE s == output[current]
<1>1. s \in Seq(Item) /\ output'[current] = Append(s, item)
  BY EnqueueEffect
<1>2. /\ Len(Append(s, item)) = Len(s) + 1
      /\ \A i \in 1..Len(s) : Append(s, item)[i] = s[i]
      /\ Append(s, item)[Len(s) + 1] = item
      /\ Len(s) \in Nat
  BY <1>1, AppendProperties
<1>3. SUFFICES ASSUME NEW m \in Msg, NEW i \in 1..Len(output'[m]), output'[m][i] = "RESULT"
               PROVE  i > 1 /\ output'[m][i - 1] = "ACK"
  BY DEF ResultFollowsAck
<1>4. CASE m # current
  BY <1>3, <1>4, EnqueueEffect DEF ResultFollowsAck
<1>5. CASE m = current /\ i \in 1..Len(s)
  <2>1. s[i] = "RESULT"
    BY <1>1, <1>2, <1>3, <1>5
  <2>2. i > 1 /\ s[i - 1] = "ACK"
    BY <1>5, <2>1 DEF ResultFollowsAck
  <2>3. i - 1 \in 1..Len(s)
    BY <1>2, <1>5, <2>2
  <2>4. QED
    BY <1>1, <1>2, <1>5, <2>2, <2>3
<1>6. CASE m = current /\ i \notin 1..Len(s)
  <2>1. i = Len(s) + 1
    BY <1>1, <1>2, <1>6
  <2>2. item = "RESULT"
    BY <1>1, <1>2, <1>3, <1>6, <2>1
  <2>3. s # <<>> /\ s[Len(s)] = "ACK"
    BY <2>2
  <2>4. Len(s) \in 1..Len(s)
    BY <1>1, <2>3, EmptySeq
  <2>5. QED
    BY <1>1, <1>2, <1>6, <2>1, <2>3, <2>4
<1>7. QED
  BY <1>4, <1>5, <1>6

\* Every action keeps the part of the invariant that is about answers.
LEMMA AnswersStep ==
  ASSUME TypeOK, GoneIsAnswered, ResultFollowsAck, StageOfCurrent, [Next]_vars
  PROVE  GoneIsAnswered' /\ ResultFollowsAck' /\ StageOfCurrent'
<1> USE NoMsgIsNoMessage
<1>1. CASE Take
  <2>1. /\ current' \in input /\ current' \in Msg
        /\ input' = input
        /\ at' = CASE kind[current'] = "health"      -> "commit"
                   [] kind[current'] = "unreplyable" -> "quarantine"
                   [] OTHER                          -> "respond"
        /\ UNCHANGED output
    BY <1>1, OldestIsInput DEF Take, TypeOK
  <2>2. kind[current'] \in Kind
    BY <2>1, AgentAssumption
  <2>3. at' = "commit" => Answered(current)'
    BY <2>1 DEF Answered
  <2>4. StageOfCurrent'
    BY <2>1, <2>2, <2>3 DEF StageOfCurrent, Kind, Working
  <2>5. GoneIsAnswered' /\ ResultFollowsAck'
    BY <2>1, AnsweredStays DEF GoneIsAnswered
  <2>6. QED
    BY <2>4, <2>5
<1>2. CASE Respond
  <2>1. GoneIsAnswered' /\ ResultFollowsAck'
    BY <1>2, AnsweredStays DEF GoneIsAnswered, Respond
  <2>2. StageOfCurrent'
    BY <1>2 DEF StageOfCurrent, Respond, Working
  <2>3. QED
    BY <2>1, <2>2
<1>3. ASSUME NEW item \in Item, NEW next, at \notin {"down", "loop"}, Enqueue(item, next),
             item # "RESULT" \/ at = "result"
      PROVE  GoneIsAnswered' /\ ResultFollowsAck'
  <2>1. current \in Msg /\ input' = input
    BY <1>3, CurrentIsMessage DEF Enqueue
  <2>2. ResultFollowsAck'
    BY <1>3, <2>1, FollowsStep DEF StageOfCurrent
  <2>3. GoneIsAnswered'
    BY <1>3, <2>1, AnsweredGrows DEF GoneIsAnswered
  <2>4. QED
    BY <2>2, <2>3
<1>4. CASE EnqueueAck
  <2>1. PICK next \in {"result", "commit"} :
           /\ Enqueue("ACK", next)
           /\ next = IF kind[current] = "valid" THEN "result" ELSE "commit"
    BY <1>4 DEF EnqueueAck
  <2>2. "ACK" \in Item /\ current \in Msg /\ current' = current /\ at' = next /\ input' = input
    BY <1>4, <2>1, CurrentIsMessage DEF EnqueueAck, Enqueue, Item
  <2>3. /\ Has(current, "ACK")'
        /\ output'[current] # <<>>
        /\ output'[current][Len(output'[current])] = "ACK"
    BY <2>1, <2>2, EnqueueHas
  <2>4. kind[current] \in {"rejected", "valid"} /\ current \in input
    BY <1>4 DEF StageOfCurrent, EnqueueAck, Working
  <2>5. StageOfCurrent'
    BY <2>1, <2>2, <2>3, <2>4 DEF StageOfCurrent, Answered
  <2>6. QED
    BY <1>3, <1>4, <2>1, <2>2, <2>5 DEF EnqueueAck
<1>5. CASE EnqueueResult
  <2>1. /\ at = "result" /\ Enqueue("RESULT", "commit")
        /\ "RESULT" \in Item /\ current \in Msg
        /\ current' = current /\ at' = "commit" /\ input' = input
    BY <1>5, CurrentIsMessage DEF EnqueueResult, Enqueue, Item
  <2>2. output[current] \in Seq(Item) /\ output[current] # <<>>
    BY <2>1, EnqueueEffect DEF StageOfCurrent
  <2>3. Len(output[current]) \in 1..Len(output[current])
    BY <2>2, EmptySeq
  <2>4. Has(current, "ACK")
    BY <2>1, <2>3 DEF StageOfCurrent, Has
  <2>5. Has(current, "ACK")' /\ Has(current, "RESULT")'
    BY <2>1, <2>4, EnqueueHas
  <2>6. StageOfCurrent'
    BY <2>1, <2>5 DEF StageOfCurrent, Answered, Working
  <2>7. QED
    BY <1>3, <2>1, <2>6
<1>6. CASE Quarantine
  <2>1. /\ at = "quarantine" /\ Enqueue("ERROR", "commit")
        /\ "ERROR" \in Item /\ current \in Msg
        /\ current' = current /\ at' = "commit" /\ input' = input
    BY <1>6, CurrentIsMessage DEF Quarantine, Enqueue, Item
  <2>2. Has(current, "ERROR")'
    BY <2>1, EnqueueHas
  <2>3. StageOfCurrent'
    BY <2>1, <2>2 DEF StageOfCurrent, Answered, Working
  <2>4. QED
    BY <1>3, <2>1, <2>3
<1>7. CASE GiveUp
  <2>1. GoneIsAnswered' /\ ResultFollowsAck'
    BY <1>7, AnsweredStays DEF GoneIsAnswered, GiveUp
  <2>2. QED
    BY <1>7, <2>1 DEF StageOfCurrent, GiveUp, Working
<1>8. CASE Commit \/ CommitFails
  <2>1. /\ at = "commit" /\ at' \in {"loop", "stopped"}
        /\ input' \in {input, input \ {current}}
        /\ UNCHANGED output
    BY <1>8 DEF Commit, CommitFails
  <2>2. Answered(current)
    BY <2>1 DEF StageOfCurrent
  <2>3. \A m \in Msg \ input' : Answered(m)
    BY <2>1, <2>2 DEF GoneIsAnswered
  <2>4. GoneIsAnswered' /\ ResultFollowsAck'
    BY <2>1, <2>3, AnsweredStays DEF GoneIsAnswered
  <2>5. QED
    BY <2>1, <2>4 DEF StageOfCurrent, Working
<1>9. CASE Stop
  <2>1. GoneIsAnswered' /\ ResultFollowsAck'
    BY <1>9, AnsweredStays DEF GoneIsAnswered, Stop
  <2>2. StageOfCurrent'
    BY <1>9 DEF StageOfCurrent, Stop, Working, Answered, Has
  <2>3. QED
    BY <2>1, <2>2
<1>10. CASE ProcessEnds \/ Start
  <2>1. GoneIsAnswered' /\ ResultFollowsAck'
    BY <1>10, AnsweredStays DEF GoneIsAnswered, ProcessEnds, Start
  <2>2. QED
    BY <1>10, <2>1 DEF StageOfCurrent, ProcessEnds, Start, Working
<1>11. CASE UNCHANGED vars
  BY <1>11 DEF vars, GoneIsAnswered, ResultFollowsAck, StageOfCurrent, Answered, Has, Working
<1>12. QED
  BY <1>1, <1>2, <1>4, <1>5, <1>6, <1>7, <1>8, <1>9, <1>10, <1>11 DEF Next, Run

-----------------------------------------------------------------------------
(* The counts *)

LEMMA CountType ==
  ASSUME TypeOK, NEW m \in Msg, NEW item
  PROVE  Count(m, item) \in Nat
<1>1. output[m] \in Seq(Item)
  BY DEF TypeOK, Item
<1>2. QED
  BY <1>1, PositionsAreFinite DEF Count

\* A step that enqueues nothing, under which no message becomes fresh, and
\* that takes no restart back.
LEMMA CountsStay ==
  ASSUME TypeOK, CountsArePaid, UNCHANGED <<output, restarts>>,
         \A m \in Msg, item \in Item : Fresh(m, item)' => Fresh(m, item)
  PROVE  CountsArePaid'
<1> SUFFICES ASSUME NEW m \in Msg, NEW item \in Item
             PROVE  /\ Count(m, item)' <= restarts' + 1
                    /\ Fresh(m, item)' => Count(m, item)' <= restarts'
  BY DEF CountsArePaid
<1>1. Count(m, item)' = Count(m, item) /\ restarts' = restarts
  BY DEF Count
<1>2. QED
  BY <1>1 DEF CountsArePaid

\* The enqueue of an item that has not been enqueued since the message was
\* taken, after which it has.
LEMMA EnqueueCounts ==
  ASSUME TypeOK, CountsArePaid, current \in Msg, NEW item \in Item, NEW next,
         Enqueue(item, next), Fresh(current, item), ~Fresh(current, item)',
         \A i \in Item : Fresh(current, i)' => Fresh(current, i)
  PROVE  CountsArePaid'
<1> SUFFICES ASSUME NEW m \in Msg, NEW i \in Item
             PROVE  /\ Count(m, i)' <= restarts' + 1
                    /\ Fresh(m, i)' => Count(m, i)' <= restarts'
  BY DEF CountsArePaid
<1>1. /\ restarts' = restarts /\ restarts \in Nat
      /\ input' = input /\ current' = current
      /\ Count(m, i) \in Nat
  BY CountType DEF Enqueue, TypeOK
<1>2. /\ output[current] \in Seq(Item)
      /\ output'[current] = Append(output[current], item)
      /\ m # current => output'[m] = output[m]
  BY EnqueueEffect
<1> DEFINE s == output[current]
<1>a. Cardinality(Positions(Append(s, item), i)) =
         IF i = item THEN Cardinality(Positions(s, i)) + 1 ELSE Cardinality(Positions(s, i))
  <2> s \in Seq(Item)
    BY <1>2
  <2> HIDE DEF s
  <2>1. QED
    BY PositionsAppend
<1>3. CASE m # current
  <2>1. Count(m, i)' = Count(m, i)
    BY <1>2, <1>3 DEF Count
  <2>2. Fresh(m, i)' => Fresh(m, i)
    BY <1>1, <1>3 DEF Fresh
  <2>3. QED
    BY <1>1, <2>1, <2>2 DEF CountsArePaid
<1>4. CASE m = current /\ i = item
  <2>1. Count(m, i)' = Count(m, i) + 1
    BY <1>2, <1>4, <1>a DEF Count
  <2>2. Count(m, i) <= restarts
    BY <1>4 DEF CountsArePaid
  <2>3. ~Fresh(m, i)'
    BY <1>1, <1>4
  <2>4. QED
    BY <1>1, <2>1, <2>2, <2>3
<1>5. CASE m = current /\ i # item
  <2>1. Count(m, i)' = Count(m, i)
    BY <1>2, <1>5, <1>a DEF Count
  <2>2. Fresh(m, i)' => Fresh(m, i)
    BY <1>1, <1>5
  <2>3. QED
    BY <1>1, <2>1, <2>2 DEF CountsArePaid
<1>6. QED
  BY <1>3, <1>4, <1>5

LEMMA CountsStep ==
  ASSUME TypeOK, StageOfCurrent, CountsArePaid, [Next]_vars
  PROVE  CountsArePaid'
<1> USE NoMsgIsNoMessage
<1>1. CASE Take
  <2>1. current = NoMsg /\ input' = input /\ UNCHANGED <<output, restarts>>
    BY <1>1 DEF Take, TypeOK
  <2>2. \A m \in Msg, item \in Item : Fresh(m, item)' => Fresh(m, item)
    BY <2>1 DEF Fresh
  <2>3. QED
    BY <2>1, <2>2, CountsStay
<1>2. CASE Respond
  BY <1>2, CountsStay DEF Respond, Fresh
<1>3. CASE EnqueueAck
  <2>1. PICK next \in {"result", "commit"} : at = "ack" /\ Enqueue("ACK", next)
    BY <1>3 DEF EnqueueAck
  <2>2. current \in Msg /\ current \in input /\ "ACK" \in Item
    BY <2>1, CurrentIsMessage DEF StageOfCurrent, Working, Item
  <2>3. Fresh(current, "ACK") /\ ~Fresh(current, "ACK")'
    BY <2>1, <2>2 DEF Fresh, Enqueue
  <2>4. \A i \in Item : Fresh(current, i)' => Fresh(current, i)
    BY <2>1, <2>2 DEF Fresh, Enqueue
  <2>5. QED
    BY <2>1, <2>2, <2>3, <2>4, EnqueueCounts
<1>4. CASE EnqueueResult
  <2>1. at = "result" /\ Enqueue("RESULT", "commit")
    BY <1>4 DEF EnqueueResult
  <2>2. current \in Msg /\ current \in input /\ "RESULT" \in Item
    BY <2>1, CurrentIsMessage DEF StageOfCurrent, Working, Item
  <2>3. Fresh(current, "RESULT") /\ \A i \in Item : ~Fresh(current, i)'
    BY <2>1, <2>2 DEF Fresh, Enqueue
  <2>4. QED
    BY <2>1, <2>2, <2>3, EnqueueCounts
<1>5. CASE Quarantine
  <2>1. at = "quarantine" /\ Enqueue("ERROR", "commit")
    BY <1>5 DEF Quarantine
  <2>2. current \in Msg /\ current \in input /\ "ERROR" \in Item
    BY <2>1, CurrentIsMessage DEF StageOfCurrent, Working, Item
  <2>3. Fresh(current, "ERROR") /\ \A i \in Item : ~Fresh(current, i)'
    BY <2>1, <2>2 DEF Fresh, Enqueue
  <2>4. QED
    BY <2>1, <2>2, <2>3, EnqueueCounts
<1>6. CASE GiveUp
  BY <1>6, CountsStay DEF GiveUp, Fresh
<1>7. CASE Commit \/ CommitFails
  <2>1. UNCHANGED <<output, restarts>>
    BY <1>7 DEF Commit, CommitFails
  <2>2. \A m \in Msg, item \in Item : Fresh(m, item)' => Fresh(m, item)
    BY <1>7 DEF Commit, CommitFails, Fresh
  <2>3. QED
    BY <2>1, <2>2, CountsStay
<1>8. CASE Stop
  BY <1>8, CountsStay DEF Stop, Fresh
<1>9. CASE ProcessEnds
  <2>1. restarts \in Nat /\ restarts' = restarts + 1 /\ output' = output
    BY <1>9 DEF ProcessEnds, TypeOK
  <2>2. ASSUME NEW m \in Msg, NEW item \in Item
        PROVE  Count(m, item)' \in Nat /\ Count(m, item)' <= restarts'
    BY <2>1, CountType DEF Count, CountsArePaid
  <2>3. QED
    BY <2>1, <2>2 DEF CountsArePaid
<1>10. CASE Start
  <2>1. UNCHANGED <<output, restarts>>
    BY <1>10 DEF Start
  <2>2. \A m \in Msg, item \in Item : Fresh(m, item)' => Fresh(m, item)
    BY <1>10 DEF Start, Fresh, TypeOK
  <2>3. QED
    BY <2>1, <2>2, CountsStay
<1>11. CASE UNCHANGED vars
  BY <1>11, CountsStay DEF vars, Fresh
<1>12. QED
  BY <1>1, <1>2, <1>3, <1>4, <1>5, <1>6, <1>7, <1>8, <1>9, <1>10, <1>11 DEF Next, Run

-----------------------------------------------------------------------------
(* The inductive invariant *)

LEMMA InvInit == Init => IInv
<1> SUFFICES ASSUME Init PROVE IInv
  OBVIOUS
<1>1. TypeOK
  BY TypeInit
<1>2. GoneIsAnswered /\ ResultFollowsAck /\ StageOfCurrent
  BY DEF Init, GoneIsAnswered, ResultFollowsAck, StageOfCurrent, Working
<1>3. ASSUME NEW m \in Msg, NEW item \in Item PROVE Count(m, item) = 0
  <2>1. Positions(output[m], item) = {}
    BY DEF Init, Positions
  <2>2. QED
    BY <2>1, FS_EmptySet DEF Count
<1>4. CountsArePaid
  BY <1>3 DEF Init, CountsArePaid
<1>5. QED
  BY <1>1, <1>2, <1>4 DEF IInv

LEMMA InvStep == IInv /\ [Next]_vars => IInv'
BY TypeStep, AnswersStep, CountsStep DEF IInv

LEMMA InvCorrect == Spec => []IInv
<1>1. QED
  BY InvInit, InvStep, PTL DEF Spec

\* Agent.java never commits an input message before everything the message is
\* owed has been enqueued, and no RESULT is ahead of its ACK, whenever the
\* process ends or commit() fails.
THEOREM NoneCommittedUnanswered == Spec => []CommittedIsAnswered
<1>1. IInv => CommittedIsAnswered
  BY DEF IInv, GoneIsAnswered, Answered, ResultFollowsAck, CommittedIsAnswered
<1>2. QED
  BY <1>1, InvCorrect, PTL

\* A message gets an ACK, a RESULT or an error record a second time only for a
\* process that ended while it had the message.
THEOREM RepeatsArePaid == Spec => []RepeatsArePaidByRestarts
<1>1. IInv => RepeatsArePaidByRestarts
  BY DEF IInv, CountsArePaid, Count, Positions, Item, RepeatsArePaidByRestarts
<1>2. QED
  BY <1>1, InvCorrect, PTL
=============================================================================
