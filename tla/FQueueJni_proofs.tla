--------------------------- MODULE FQueueJni_proofs ---------------------------
(***************************************************************************)
(* What is proved of FQueueJni for every number of Java threads, queues    *)
(* and slots and every bound on the messages.                              *)
(***************************************************************************)
EXTENDS FQueueJni, SequenceTheorems, TLAPS

\* A slot with an XA has a queue open, holds the dequeue lock of that queue
\* and knows the sequence number of its oldest message.
PendingSlotIsLocked ==
    \A i \in SlotId : slot[i].pending =>
        /\ slot[i].queue \in Queue
        /\ lockedBy[slot[i].queue] = i
        /\ stored[slot[i].queue] # <<>>
        /\ slot[i].seq = Head(stored[slot[i].queue])

\* The slot that locks a queue has this queue open and an XA on it.
LockIsPending ==
    \A q \in Queue : lockedBy[q] # NoSlot =>
        slot[lockedBy[q]].pending /\ slot[lockedBy[q]].queue = q

\* A message that a thread builds, or Java holds, is the one its slot has an
\* XA for, unless a used object has resolved such an XA.
HandsArePending ==
    /\ \A t \in JavaThread :
          building[t] # NoToken /\ building[t] \notin reused => Pending(building[t])
    /\ \A tok \in tokens : tok \notin reused => Pending(tok)

\* Under the same premise no message is in two hands.
HandsAreApart ==
    /\ \A t \in JavaThread :
          building[t] # NoToken /\ building[t] \notin reused => building[t] \notin tokens
    /\ \A t, u \in JavaThread :
          /\ building[t] # NoToken /\ building[t] \notin reused
          /\ building[t] = building[u]
          => t = u

\* What an XA is for: the message of a slot that has one.
XA(i) == [slot |-> i, seq |-> slot[i].seq]

\* The message of every XA is in somebody's hands.
XAHasOwner ==
    \A i \in SlotId : slot[i].pending =>
        XA(i) \in tokens \/ \E t \in JavaThread : building[t] = XA(i)

\* A queue is open only while the logger is.
OpenNeedsLogger == \A i \in SlotId : Valid(i) => logger

\* The inductive invariant.
IInv ==
    /\ TypeOK
    /\ PendingSlotIsLocked
    /\ LockIsPending
    /\ HandsArePending
    /\ HandsAreApart
    /\ XAHasOwner
    /\ OpenNeedsLogger

USE DEF objects

-----------------------------------------------------------------------------
(* Lemmas *)

\* The numbers and the values that stand for "none".
LEMMA Constants ==
  /\ NoQueue \notin Queue
  /\ NoSlot \notin SlotId /\ NoToken \notin Token
  /\ Slots \in Nat /\ MaxSeq \in Nat
<1>1. NoQueue \notin Queue /\ Slots \in Nat /\ MaxSeq \in Nat
  BY JniAssumption
<1>2. NoSlot \notin SlotId
  BY <1>1 DEF NoSlot, SlotId
<1>3. NoToken \notin Token
  BY <1>2 DEF NoToken, Token
<1>4. QED
  BY <1>1, <1>2, <1>3

\* A queue that has messages has a first one, of the type of a message, and
\* a rest.
LEMMA OldestMessage ==
  ASSUME TypeOK, NEW q \in Queue, stored[q] # <<>>
  PROVE  /\ Head(stored[q]) \in 1..MaxSeq
         /\ Tail(stored[q]) \in Seq(1..MaxSeq)
<1>1. stored[q] \in Seq(1..MaxSeq)
  BY DEF TypeOK
<1>2. QED
  BY <1>1, HeadTailProperties

\* A token is the XA its slot has, if the slot has it at all.
LEMMA PendingIsXA ==
  ASSUME TypeOK, NEW tok \in Token, Pending(tok)
  PROVE  tok.slot \in SlotId /\ slot[tok.slot].pending /\ tok = XA(tok.slot)
BY DEF Pending, Token, XA

SlotType == [queue : Queue \cup {NoQueue}, pending : BOOLEAN, seq : 0..MaxSeq]

\* One slot changes: what the table is after it.
LEMMA SlotChanges ==
  ASSUME TypeOK, NEW i \in SlotId, NEW r \in SlotType, r.pending <=> r.seq # 0,
         slot' = [slot EXCEPT ![i] = r]
  PROVE  /\ slot' \in [SlotId -> SlotType]
         /\ \A j \in SlotId : slot'[j].pending <=> slot'[j].seq # 0
         /\ slot'[i] = r
         /\ \A j \in SlotId : j # i => slot'[j] = slot[j]
<1>1. slot \in [SlotId -> SlotType]
  BY DEF TypeOK, SlotType
<1>2. /\ slot'[i] = r
      /\ \A j \in SlotId : j # i => slot'[j] = slot[j]
  BY <1>1
<1>3. slot' \in [SlotId -> SlotType]
  BY <1>1
<1>4. \A j \in SlotId : slot'[j].pending <=> slot'[j].seq # 0
  <2>1. \A j \in SlotId : slot[j].pending <=> slot[j].seq # 0
    BY DEF TypeOK
  <2>2. QED
    BY <1>2, <2>1
<1>5. QED
  BY <1>2, <1>3, <1>4

\* A slot without XA.
Emptied(q) == [queue |-> q, pending |-> FALSE, seq |-> 0]

\* A slot in which one field changes, field by field.
LEMMA OneField ==
  ASSUME NEW s \in SlotType, NEW v
  PROVE  /\ [s EXCEPT !.queue = v] = [queue |-> v, pending |-> s.pending, seq |-> s.seq]
         /\ [s EXCEPT !.pending = v] = [queue |-> s.queue, pending |-> v, seq |-> s.seq]
         /\ [s EXCEPT !.seq = v] = [queue |-> s.queue, pending |-> s.pending, seq |-> v]
BY DEF SlotType

LEMMA TwoFields ==
  ASSUME TypeOK, NEW i \in SlotId, NEW b \in BOOLEAN, NEW m
  PROVE  [slot EXCEPT ![i].pending = b, ![i].seq = m] =
            [slot EXCEPT ![i] = [queue |-> slot[i].queue, pending |-> b, seq |-> m]]
<1> DEFINE s == slot[i]
           r == [queue |-> s.queue, pending |-> b, seq |-> s.seq]
<1>1. slot \in [SlotId -> SlotType] /\ s \in SlotType
  BY DEF TypeOK, SlotType
<1>2. [slot EXCEPT ![i].pending = b, ![i].seq = m] =
         [slot EXCEPT ![i] = [[s EXCEPT !.pending = b] EXCEPT !.seq = m]]
  BY <1>1
<1>3. [s EXCEPT !.pending = b] = r
  BY <1>1, OneField
<1>4. r \in SlotType /\ r.queue = s.queue /\ r.pending = b
  BY <1>1 DEF SlotType
<1> HIDE DEF r, s
<1>5. [r EXCEPT !.seq = m] = [queue |-> r.queue, pending |-> r.pending, seq |-> m]
  BY <1>4, OneField
<1>6. QED
  BY <1>2, <1>3, <1>4, <1>5 DEF s

\* A slot that has just been opened for q, or closed, has no XA.
LEMMA OpenedSlot ==
  ASSUME NEW q \in Queue
  PROVE  [Closed EXCEPT !.queue = q] = Emptied(q)
<1>1. Closed \in SlotType /\ Closed.pending = FALSE /\ Closed.seq = 0
  BY Constants DEF Closed, SlotType
<1>2. [Closed EXCEPT !.queue = q] = [queue |-> q, pending |-> Closed.pending, seq |-> Closed.seq]
  BY <1>1, OneField
<1>3. QED
  BY <1>1, <1>2 DEF Emptied

-----------------------------------------------------------------------------
(* Types *)

LEMMA TypeStep == TypeOK /\ PendingSlotIsLocked /\ [Next]_vars => TypeOK'
<1> SUFFICES ASSUME TypeOK, PendingSlotIsLocked, [Next]_vars PROVE TypeOK'
  OBVIOUS
<1> USE Constants
<1>1. CASE OpenLogger
  BY <1>1 DEF OpenLogger, TypeOK
<1>2. CASE CloseLogger
  BY <1>2 DEF CloseLogger, TypeOK
<1>3. ASSUME NEW q \in Queue, OpenQueue(q) PROVE TypeOK'
  <2>1. PICK i \in SlotId : slot' = [slot EXCEPT ![i] = Emptied(q)]
    BY <1>3, OpenedSlot DEF OpenQueue
  <2>2. Emptied(q) \in SlotType /\ (Emptied(q).pending <=> Emptied(q).seq # 0)
    BY DEF SlotType, Emptied
  <2>3. slot' \in [SlotId -> SlotType] /\ \A j \in SlotId : slot'[j].pending <=> slot'[j].seq # 0
    BY <2>1, <2>2, SlotChanges
  <2>4. QED
    BY <1>3, <2>3 DEF OpenQueue, TypeOK, SlotType
<1>4. ASSUME NEW i \in SlotId, CloseQueue(i) PROVE TypeOK'
  <2>1. slot' = [slot EXCEPT ![i] = Emptied(NoQueue)]
    BY <1>4 DEF CloseQueue, Closed, Emptied
  <2>2. Emptied(NoQueue) \in SlotType /\ (Emptied(NoQueue).pending <=> Emptied(NoQueue).seq # 0)
    BY DEF SlotType, Emptied
  <2>3. slot' \in [SlotId -> SlotType] /\ \A j \in SlotId : slot'[j].pending <=> slot'[j].seq # 0
    BY <2>1, <2>2, SlotChanges
  <2>4. QED
    BY <1>4, <2>3 DEF CloseQueue, TypeOK, SlotType
<1>5. ASSUME NEW i \in SlotId, EnQueue(i) PROVE TypeOK'
  <2>1. slot[i].queue \in Queue
    BY <1>5 DEF EnQueue, Valid, TypeOK
  <2>2. PICK q \in Queue :
           /\ lastSeq[q] < MaxSeq
           /\ lastSeq' = [lastSeq EXCEPT ![q] = @ + 1]
           /\ stored' = [stored EXCEPT ![q] = Append(@, lastSeq[q] + 1)]
    BY <1>5, <2>1 DEF EnQueue
  <2>3. lastSeq[q] + 1 \in 1..MaxSeq
    BY <2>2 DEF TypeOK
  <2>4. stored' \in [Queue -> Seq(1..MaxSeq)]
    BY <2>2, <2>3, AppendProperties DEF TypeOK
  <2>5. lastSeq' \in [Queue -> 0..MaxSeq]
    BY <2>2, <2>3 DEF TypeOK
  <2>6. QED
    BY <1>5, <2>4, <2>5 DEF EnQueue, TypeOK
<1>6. ASSUME NEW i \in SlotId, NEW t \in JavaThread, DeQueueXA(t, i) PROVE TypeOK'
  <2> DEFINE q == slot[i].queue
             m == Head(stored[q])
  <2>1. q \in Queue /\ stored[q] # <<>>
    BY <1>6 DEF DeQueueXA, Valid, TypeOK
  <2>2. m \in 1..MaxSeq
    BY <2>1, OldestMessage
  <2>3. /\ lockedBy' = [lockedBy EXCEPT ![q] = i]
        /\ slot' = [slot EXCEPT ![i] = [queue |-> q, pending |-> TRUE, seq |-> m]]
        /\ building' = [building EXCEPT ![t] = [slot |-> i, seq |-> m]]
        /\ UNCHANGED <<logger, stored, lastSeq, objects>>
    BY <1>6, TwoFields DEF DeQueueXA
  <2> HIDE DEF q, m
  <2>4. [slot |-> i, seq |-> m] \in Token
    BY <2>2 DEF Token
  <2>5. /\ slot' \in [SlotId -> SlotType]
        /\ \A j \in SlotId : slot'[j].pending <=> slot'[j].seq # 0
    <3>1. [queue |-> q, pending |-> TRUE, seq |-> m] \in SlotType /\ m # 0
      BY <2>1, <2>2 DEF SlotType
    <3>2. QED
      BY <2>3, <3>1, SlotChanges
  <2>6. QED
    BY <2>1, <2>3, <2>4, <2>5 DEF TypeOK, SlotType
<1>7. ASSUME NEW t \in JavaThread, Deliver(t) PROVE TypeOK'
  BY <1>7 DEF Deliver, TypeOK
<1>8. ASSUME NEW tok \in Token, Resolve(tok)
      PROVE  /\ slot' \in [SlotId -> SlotType]
             /\ \A j \in SlotId : slot'[j].pending <=> slot'[j].seq # 0
             /\ lockedBy' \in [Queue -> SlotId \cup {NoSlot}]
  <2> DEFINE q == slot[tok.slot].queue
  <2>1. tok.slot \in SlotId
    BY DEF Token
  <2>2. slot' = [slot EXCEPT ![tok.slot] = Emptied(q)]
    BY <1>8, <2>1, TwoFields DEF Resolve, Emptied
  <2>3. Emptied(q) \in SlotType /\ (Emptied(q).pending <=> Emptied(q).seq # 0)
    BY <2>1 DEF TypeOK, SlotType, Emptied
  <2>4. lockedBy' \in [Queue -> SlotId \cup {NoSlot}]
    BY <1>8 DEF Resolve, TypeOK
  <2>5. QED
    BY <2>1, <2>2, <2>3, <2>4, SlotChanges
<1>9. ASSUME NEW t \in JavaThread, DeliverFails(t) PROVE TypeOK'
  <2>1. building[t] \in Token
    BY <1>9 DEF DeliverFails, TypeOK
  <2>2. building' \in [JavaThread -> Token \cup {NoToken}]
    BY <1>9 DEF DeliverFails, TypeOK
  <2>3. CASE Pending(building[t])
    BY <1>8, <1>9, <2>1, <2>2, <2>3 DEF DeliverFails, TypeOK, SlotType
  <2>4. CASE ~Pending(building[t])
    BY <1>9, <2>2, <2>4 DEF DeliverFails, TypeOK
  <2>5. QED
    BY <2>3, <2>4
<1>u. ASSUME NEW tok \in Token, FirstUse(tok) \/ SecondUse(tok)
      PROVE  tokens' \subseteq Token /\ spent' \subseteq Token /\ reused' \subseteq spent'
  BY <1>u DEF FirstUse, SecondUse, TypeOK
<1>10. ASSUME NEW tok \in Token, Commit(tok) PROVE TypeOK'
  <2> DEFINE q == slot[tok.slot].queue
  <2>1. q \in Queue /\ stored[q] # <<>>
    BY <1>10 DEF Commit, Pending, PendingSlotIsLocked, Token
  <2>2. Tail(stored[q]) \in Seq(1..MaxSeq)
    BY <2>1, OldestMessage
  <2>3. stored' = stored \/ stored' = [stored EXCEPT ![q] = Tail(@)]
    BY <1>10 DEF Commit
  <2> HIDE DEF q
  <2>4. stored' \in [Queue -> Seq(1..MaxSeq)]
    BY <2>2, <2>3 DEF TypeOK
  <2>5. QED
    BY <1>8, <1>10, <1>u, <2>4 DEF Commit, TypeOK, SlotType
<1>11. ASSUME NEW tok \in Token, Cancel(tok) PROVE TypeOK'
  BY <1>8, <1>11, <1>u DEF Cancel, TypeOK, SlotType
<1>12. ASSUME NEW tok \in Token, Refused(tok) PROVE TypeOK'
  BY <1>12, <1>u DEF Refused, TypeOK
<1>13. CASE UNCHANGED vars
  BY <1>13 DEF vars, TypeOK
<1>14. QED
  BY <1>1, <1>2, <1>3, <1>4, <1>5, <1>6, <1>7, <1>9, <1>10, <1>11, <1>12, <1>13 DEF Next

-----------------------------------------------------------------------------
(* The steps *)

\* A slot without XA is replaced by another one without: a queue is opened
\* or closed.
LEMMA EmptySlotStep ==
  ASSUME IInv, TypeOK', OpenNeedsLogger',
         NEW i \in SlotId, ~slot[i].pending,
         NEW q, Emptied(q) \in SlotType, slot' = [slot EXCEPT ![i] = Emptied(q)],
         UNCHANGED <<stored, lockedBy, building, objects>>
  PROVE  IInv'
<1>1. slot'[i] = Emptied(q) /\ \A j \in SlotId : j # i => slot'[j] = slot[j]
  BY SlotChanges DEF IInv, Emptied
<1>2. ~slot'[i].pending
  BY <1>1 DEF Emptied
<1>3. PendingSlotIsLocked'
  BY <1>1, <1>2 DEF IInv, PendingSlotIsLocked
<1>4. LockIsPending'
  <2>1. ASSUME NEW p \in Queue, lockedBy[p] # NoSlot
        PROVE  slot'[lockedBy[p]].pending /\ slot'[lockedBy[p]].queue = p
    <3>1. lockedBy[p] \in SlotId /\ slot[lockedBy[p]].pending /\ slot[lockedBy[p]].queue = p
      BY <2>1 DEF IInv, TypeOK, LockIsPending
    <3>2. QED
      BY <1>1, <3>1
  <2>2. QED
    BY <2>1 DEF LockIsPending
<1>5. \A tok \in Token : Pending(tok) => Pending(tok)'
  BY <1>1 DEF Pending, Valid, Token
<1>6. HandsArePending'
  BY <1>5 DEF IInv, TypeOK, HandsArePending
<1>7. HandsAreApart'
  BY DEF IInv, HandsAreApart
<1>8. XAHasOwner'
  BY <1>1, <1>2 DEF IInv, XAHasOwner, XA
<1>9. QED
  BY <1>3, <1>4, <1>6, <1>7, <1>8 DEF IInv

\* Only tok may leave hands, and it does not reach any.
LeavesHands(tok) ==
    /\ tokens' = tokens \/ tokens' = tokens \ {tok}
    /\ \A t \in JavaThread :
          building'[t] = building[t] \/ (building[t] = tok /\ building'[t] = NoToken)
    /\ reused \subseteq reused'

\* An XA is resolved, by a used object or because its message leaves the one
\* hand that had it, and only the queue of this message may have changed.
LEMMA ResolveStep ==
  ASSUME IInv, TypeOK', NEW tok \in Token, Pending(tok), Resolve(tok),
         \A q \in Queue : q # slot[tok.slot].queue => stored'[q] = stored[q],
         LeavesHands(tok),
         tok \notin reused' => tok \notin tokens' /\ \A t \in JavaThread : building'[t] # tok,
         UNCHANGED logger
  PROVE  IInv'
<1> DEFINE i == tok.slot
           q == slot[i].queue
<1>1. i \in SlotId /\ slot[i].pending /\ tok = XA(i)
  BY PendingIsXA DEF IInv
<1>2. q \in Queue /\ lockedBy[q] = i
  BY <1>1 DEF IInv, PendingSlotIsLocked
<1>3. slot' = [slot EXCEPT ![i] = Emptied(q)]
  BY <1>1, TwoFields DEF Resolve, IInv, Emptied
<1>4. Emptied(q) \in SlotType /\ ~Emptied(q).pending /\ Emptied(q).seq = 0
      /\ Emptied(q).queue = q
  BY <1>2, Constants DEF Emptied, SlotType
<1>5. slot'[i] = Emptied(q) /\ \A j \in SlotId : j # i => slot'[j] = slot[j]
  BY <1>1, <1>3, <1>4, SlotChanges DEF IInv
<1>6. /\ lockedBy'[q] = NoSlot
      /\ \A p \in Queue : p # q => lockedBy'[p] = lockedBy[p]
  BY <1>2 DEF Resolve, IInv, TypeOK
<1> HIDE DEF q
<1>7. PendingSlotIsLocked'
  <2>1. ASSUME NEW j \in SlotId, slot'[j].pending
        PROVE  /\ slot'[j].queue \in Queue
               /\ lockedBy'[slot'[j].queue] = j
               /\ stored'[slot'[j].queue] # <<>>
               /\ slot'[j].seq = Head(stored'[slot'[j].queue])
    <3>1. j # i /\ slot'[j] = slot[j]
      BY <1>4, <1>5, <2>1
    <3>2. /\ slot[j].queue \in Queue
          /\ lockedBy[slot[j].queue] = j
          /\ stored[slot[j].queue] # <<>>
          /\ slot[j].seq = Head(stored[slot[j].queue])
      BY <2>1, <3>1 DEF IInv, PendingSlotIsLocked
    <3>3. slot[j].queue # q
      BY <1>2, <3>1, <3>2
    <3>4. QED
      BY <1>6, <3>1, <3>2, <3>3 DEF q
  <2>2. QED
    BY <2>1 DEF PendingSlotIsLocked
<1>8. LockIsPending'
  <2>1. ASSUME NEW p \in Queue, lockedBy'[p] # NoSlot
        PROVE  slot'[lockedBy'[p]].pending /\ slot'[lockedBy'[p]].queue = p
    <3>1. p # q /\ lockedBy'[p] = lockedBy[p]
      BY <1>6, <2>1
    <3>2. /\ lockedBy[p] \in SlotId
          /\ slot[lockedBy[p]].pending /\ slot[lockedBy[p]].queue = p
      BY <2>1, <3>1 DEF IInv, TypeOK, LockIsPending
    <3>3. lockedBy[p] # i
      BY <3>1, <3>2 DEF q
    <3>4. QED
      BY <1>5, <3>1, <3>2, <3>3
  <2>2. QED
    BY <2>1 DEF LockIsPending
<1>9. \A other \in Token : other # tok /\ Pending(other) => Pending(other)'
  <2>1. SUFFICES ASSUME NEW other \in Token, other # tok, Pending(other)
                 PROVE  Pending(other)'
    OBVIOUS
  <2>2. other.slot \in SlotId /\ other = XA(other.slot)
    BY <2>1, PendingIsXA DEF IInv
  <2>3. other.slot # i
    BY <1>1, <2>1, <2>2
  <2>4. QED
    BY <1>5, <2>1, <2>2, <2>3 DEF Pending, Valid
<1>10. HandsArePending'
  BY <1>9 DEF IInv, TypeOK, HandsArePending, LeavesHands
<1>11. HandsAreApart'
  BY DEF IInv, HandsAreApart, LeavesHands
<1>12. XAHasOwner'
  <2>1. ASSUME NEW j \in SlotId, slot'[j].pending
        PROVE  XA(j)' \in tokens' \/ \E t \in JavaThread : building'[t] = XA(j)'
    <3>1. j # i /\ slot'[j] = slot[j]
      BY <1>4, <1>5, <2>1
    <3>2. XA(j)' = XA(j) /\ XA(j) # tok
      BY <3>1 DEF XA
    <3>3. XA(j) \in tokens \/ \E t \in JavaThread : building[t] = XA(j)
      BY <2>1, <3>1 DEF IInv, XAHasOwner
    <3>4. QED
      BY <3>2, <3>3 DEF LeavesHands
  <2>2. QED
    BY <2>1 DEF XAHasOwner
<1>13. OpenNeedsLogger'
  <2>1. Valid(i) /\ logger
    BY <1>1, <1>2, Constants DEF IInv, OpenNeedsLogger, Valid, q
  <2>2. QED
    BY <2>1 DEF OpenNeedsLogger
<1>14. QED
  BY <1>7, <1>8, <1>10, <1>11, <1>12, <1>13 DEF IInv

\* A message without XA leaves a hand: an object is refused, or a delivery
\* fails after a used object took its XA.
LEMMA DropStep ==
  ASSUME IInv, NEW tok \in Token, ~Pending(tok), LeavesHands(tok), TypeOK',
         UNCHANGED <<logger, slot, stored, lockedBy>>
  PROVE  IInv'
<1>1. PendingSlotIsLocked' /\ LockIsPending' /\ OpenNeedsLogger'
  BY DEF IInv, PendingSlotIsLocked, LockIsPending, OpenNeedsLogger, Valid
<1>2. \A other \in Token : Pending(other) => Pending(other)'
  BY DEF Pending, Valid
<1>3. HandsArePending' /\ HandsAreApart'
  BY <1>2 DEF IInv, TypeOK, HandsArePending, HandsAreApart, LeavesHands
<1>4. XAHasOwner'
  <2>1. ASSUME NEW j \in SlotId, slot[j].pending
        PROVE  XA(j)' \in tokens' \/ \E t \in JavaThread : building'[t] = XA(j)'
    <3>1. XA(j)' = XA(j) /\ XA(j).slot = j /\ XA(j).seq = slot[j].seq
      BY DEF XA
    <3>2. Valid(j)
      BY <2>1, Constants DEF IInv, PendingSlotIsLocked, Valid
    <3>3. XA(j) # tok
      BY <2>1, <3>1, <3>2 DEF Pending
    <3>4. XA(j) \in tokens \/ \E t \in JavaThread : building[t] = XA(j)
      BY <2>1 DEF IInv, XAHasOwner
    <3>5. QED
      BY <3>1, <3>3, <3>4 DEF LeavesHands
  <2>2. QED
    BY <2>1 DEF XAHasOwner
<1>5. QED
  BY <1>1, <1>3, <1>4 DEF IInv

\* deQueueXA() begins an XA on a slot that had none.
LEMMA DequeueStep ==
  ASSUME IInv, TypeOK', NEW i \in SlotId, NEW t \in JavaThread, DeQueueXA(t, i)
  PROVE  IInv'
<1> DEFINE q == slot[i].queue
           m == Head(stored[q])
<1>1. q \in Queue /\ stored[q] # <<>> /\ lockedBy[q] = NoSlot /\ ~slot[i].pending
      /\ building[t] = NoToken /\ logger
  BY DEF DeQueueXA, Valid, IInv, TypeOK
<1>2. m \in 1..MaxSeq /\ m # 0
  BY <1>1, OldestMessage DEF IInv
<1>3. PICK new \in Token : new = [slot |-> i, seq |-> m]
  BY <1>2 DEF Token
<1>4. /\ lockedBy' = [lockedBy EXCEPT ![q] = i]
      /\ slot' = [slot EXCEPT ![i] = [queue |-> q, pending |-> TRUE, seq |-> m]]
      /\ building' = [building EXCEPT ![t] = new]
      /\ UNCHANGED <<logger, stored, lastSeq, objects>>
  BY <1>3, TwoFields DEF DeQueueXA, IInv
<1>x. m = Head(stored[q]) /\ q = slot[i].queue
  OBVIOUS
<1> HIDE DEF q, m
<1>5. /\ slot'[i] = [queue |-> q, pending |-> TRUE, seq |-> m]
      /\ \A j \in SlotId : j # i => slot'[j] = slot[j]
  <2>1. [queue |-> q, pending |-> TRUE, seq |-> m] \in SlotType
    BY <1>1, <1>2, Constants DEF SlotType
  <2>2. QED
    BY <1>2, <1>4, <2>1, SlotChanges DEF IInv
<1>6. lockedBy'[q] = i /\ \A p \in Queue : p # q => lockedBy'[p] = lockedBy[p]
  BY <1>1, <1>4 DEF IInv, TypeOK
<1>7. /\ building'[t] = new
      /\ \A u \in JavaThread : u # t => building'[u] = building[u]
  BY <1>4 DEF IInv, TypeOK
<1>8. new # NoToken /\ ~Pending(new)
  BY <1>1, <1>3, Constants DEF Pending
<1>9. new \notin reused => new \notin tokens /\ \A u \in JavaThread : building[u] # new
  BY <1>8 DEF IInv, HandsArePending
<1>10. PendingSlotIsLocked'
  <2>1. ASSUME NEW j \in SlotId, slot'[j].pending
        PROVE  /\ slot'[j].queue \in Queue
               /\ lockedBy'[slot'[j].queue] = j
               /\ stored[slot'[j].queue] # <<>>
               /\ slot'[j].seq = Head(stored[slot'[j].queue])
    <3>1. CASE j = i
      BY <1>1, <1>5, <1>6, <1>x, <3>1
    <3>2. CASE j # i
      <4>1. /\ slot'[j] = slot[j]
            /\ slot[j].queue \in Queue
            /\ lockedBy[slot[j].queue] = j
            /\ stored[slot[j].queue] # <<>>
            /\ slot[j].seq = Head(stored[slot[j].queue])
        BY <1>5, <2>1, <3>2 DEF IInv, PendingSlotIsLocked
      <4>2. slot[j].queue # q
        BY <1>1, <4>1, Constants
      <4>3. QED
        BY <1>6, <4>1, <4>2
    <3>3. QED
      BY <3>1, <3>2
  <2>2. QED
    BY <1>4, <2>1 DEF PendingSlotIsLocked
<1>11. LockIsPending'
  <2>1. ASSUME NEW p \in Queue, lockedBy'[p] # NoSlot
        PROVE  slot'[lockedBy'[p]].pending /\ slot'[lockedBy'[p]].queue = p
    <3>1. CASE p = q
      BY <1>5, <1>6, <3>1
    <3>2. CASE p # q
      <4>1. /\ lockedBy'[p] = lockedBy[p] /\ lockedBy[p] \in SlotId
            /\ slot[lockedBy[p]].pending /\ slot[lockedBy[p]].queue = p
        BY <1>6, <2>1, <3>2 DEF IInv, TypeOK, LockIsPending
      <4>2. QED
        BY <1>1, <1>5, <4>1
    <3>3. QED
      BY <3>1, <3>2
  <2>2. QED
    BY <2>1 DEF LockIsPending
<1>12. Pending(new)' /\ \A tok \in Token : Pending(tok) => Pending(tok)'
  <2>1. Pending(new)'
    BY <1>1, <1>5, <1>3, Constants DEF Pending, Valid
  <2>2. \A tok \in Token : Pending(tok) => Pending(tok)'
    BY <1>1, <1>5 DEF Pending, Valid, Token
  <2>3. QED
    BY <2>1, <2>2
<1>13. HandsArePending'
  BY <1>4, <1>7, <1>12 DEF IInv, TypeOK, HandsArePending
<1>14. HandsAreApart'
  BY <1>4, <1>7, <1>9 DEF IInv, HandsAreApart
<1>15. XAHasOwner'
  <2>1. XA(i)' = new
    BY <1>5, <1>3 DEF XA
  <2>2. \A j \in SlotId : j # i => XA(j)' = XA(j) /\ slot'[j] = slot[j]
    BY <1>5 DEF XA
  <2>3. \A j \in SlotId : \A u \in JavaThread : building[u] = XA(j) => u # t
    BY <1>1 DEF XA, NoToken, NoSlot, SlotId, Constants
  <2>4. QED
    BY <1>4, <1>7, <2>1, <2>2, <2>3 DEF IInv, XAHasOwner
<1>16. OpenNeedsLogger'
  BY <1>1, <1>4 DEF OpenNeedsLogger
<1>17. QED
  BY <1>10, <1>11, <1>13, <1>14, <1>15, <1>16 DEF IInv

LEMMA InvStep == IInv /\ TypeOK' /\ [Next]_vars => IInv'
<1> SUFFICES ASSUME IInv, TypeOK', [Next]_vars PROVE IInv'
  OBVIOUS
<1>1. ASSUME UNCHANGED <<slot, stored, lockedBy, building, objects>>, OpenNeedsLogger'
      PROVE  IInv'
  BY <1>1 DEF IInv, PendingSlotIsLocked, LockIsPending, HandsArePending, HandsAreApart,
              XAHasOwner, XA, Pending, Valid
<1>2. CASE OpenLogger
  BY <1>1, <1>2 DEF OpenLogger, OpenNeedsLogger
<1>3. CASE CloseLogger
  BY <1>1, <1>3 DEF CloseLogger, OpenNeedsLogger, Valid
<1>4. ASSUME NEW q \in Queue, OpenQueue(q) PROVE IInv'
  <2>1. PICK i \in SlotId : ~Valid(i) /\ slot' = [slot EXCEPT ![i] = Emptied(q)]
    BY <1>4, OpenedSlot DEF OpenQueue
  <2>2. ~slot[i].pending
    BY <2>1, Constants DEF IInv, PendingSlotIsLocked, Valid
  <2>3. Emptied(q) \in SlotType
    BY Constants DEF Emptied, SlotType
  <2>4. OpenNeedsLogger' /\ UNCHANGED <<stored, lockedBy, building, objects>>
    BY <1>4 DEF OpenQueue, OpenNeedsLogger
  <2>5. QED
    BY <2>1, <2>2, <2>3, <2>4, EmptySlotStep
<1>5. ASSUME NEW i \in SlotId, CloseQueue(i) PROVE IInv'
  <2>1. /\ ~slot[i].pending /\ Valid(i)
        /\ slot' = [slot EXCEPT ![i] = Emptied(NoQueue)]
        /\ UNCHANGED <<logger, stored, lockedBy, building, objects>>
    BY <1>5 DEF CloseQueue, Closed, Emptied
  <2>2. Emptied(NoQueue) \in SlotType
    BY Constants DEF Emptied, SlotType
  <2>3. OpenNeedsLogger'
    BY <2>1 DEF IInv, OpenNeedsLogger
  <2>4. QED
    BY <2>1, <2>2, <2>3, EmptySlotStep
<1>6. ASSUME NEW i \in SlotId, EnQueue(i) PROVE IInv'
  <2> DEFINE q == slot[i].queue
  <2>1. q \in Queue /\ UNCHANGED <<logger, slot, lockedBy, building, objects>>
    BY <1>6 DEF EnQueue, Valid, IInv, TypeOK
  <2>2. /\ lastSeq[q] < MaxSeq
        /\ stored' = [stored EXCEPT ![q] = Append(@, lastSeq[q] + 1)]
    BY <1>6 DEF EnQueue
  <2> HIDE DEF q
  <2>3. lastSeq[q] + 1 \in 1..MaxSeq
    BY <2>1, <2>2, Constants DEF IInv, TypeOK
  <2>4. ASSUME NEW p \in Queue, stored[p] # <<>>
        PROVE  stored'[p] # <<>> /\ Head(stored'[p]) = Head(stored[p])
    <3>1. stored \in [Queue -> Seq(1..MaxSeq)]
      BY DEF IInv, TypeOK
    <3>2. CASE p = q
      <4>1. stored'[p] = Append(stored[p], lastSeq[q] + 1)
        BY <2>2, <3>1, <3>2
      <4>2. QED
        BY <2>3, <2>4, <3>1, <4>1, HeadTailAppend, AppendProperties
    <3>3. CASE p # q
      BY <2>2, <2>4, <3>1, <3>3
    <3>4. QED
      BY <3>2, <3>3
  <2>5. PendingSlotIsLocked'
    BY <2>1, <2>4 DEF IInv, PendingSlotIsLocked
  <2>6. QED
    BY <2>1, <2>5 DEF IInv, LockIsPending, HandsArePending, HandsAreApart, XAHasOwner, XA,
                      OpenNeedsLogger, Pending, Valid
<1>7. ASSUME NEW i \in SlotId, NEW t \in JavaThread, DeQueueXA(t, i) PROVE IInv'
  BY <1>7, DequeueStep
<1>8. ASSUME NEW t \in JavaThread, Deliver(t) PROVE IInv'
  <2>1. /\ building[t] # NoToken
        /\ tokens' = tokens \cup {building[t]}
        /\ building'[t] = NoToken
        /\ \A u \in JavaThread : u # t => building'[u] = building[u]
        /\ UNCHANGED <<logger, slot, stored, lockedBy, reused>>
    BY <1>8 DEF Deliver, IInv, TypeOK
  <2>2. PendingSlotIsLocked' /\ LockIsPending' /\ OpenNeedsLogger'
    BY <2>1 DEF IInv, PendingSlotIsLocked, LockIsPending, OpenNeedsLogger, Valid
  <2>3. HandsArePending'
    BY <2>1 DEF IInv, HandsArePending, Pending, Valid
  <2>4. HandsAreApart'
    BY <2>1 DEF IInv, HandsAreApart
  <2>5. XAHasOwner'
    BY <2>1 DEF IInv, XAHasOwner, XA
  <2>6. QED
    BY <2>2, <2>3, <2>4, <2>5 DEF IInv
<1>9. ASSUME NEW t \in JavaThread, DeliverFails(t) PROVE IInv'
  <2>1. building[t] # NoToken /\ building[t] \in Token
    BY <1>9 DEF DeliverFails, IInv, TypeOK
  <2>2. PICK tok \in Token : tok = building[t]
    BY <2>1
  <2>3. /\ UNCHANGED <<logger, stored, lastSeq, objects>>
        /\ building' = [building EXCEPT ![t] = NoToken]
        /\ IF Pending(tok) THEN Resolve(tok) ELSE UNCHANGED <<slot, lockedBy>>
    BY <1>9, <2>2 DEF DeliverFails
  <2>4. LeavesHands(tok)
    <3>1. building' \in [JavaThread -> Token \cup {NoToken}] /\ building'[t] = NoToken
      BY <2>3 DEF IInv, TypeOK
    <3>2. \A u \in JavaThread : u # t => building'[u] = building[u]
      BY <2>3 DEF IInv, TypeOK
    <3>3. tokens' = tokens /\ reused' = reused
      BY <2>3
    <3>4. QED
      BY <2>2, <3>1, <3>2, <3>3 DEF LeavesHands
  <2>5. tok \notin reused => tok \notin tokens /\ \A u \in JavaThread : building'[u] # tok
    BY <2>1, <2>2, <2>3 DEF IInv, HandsAreApart, TypeOK
  <2>6. CASE Pending(tok)
    BY <2>3, <2>4, <2>5, <2>6, ResolveStep
  <2>7. CASE ~Pending(tok)
    BY <2>3, <2>4, <2>7, DropStep
  <2>8. QED
    BY <2>6, <2>7
<1>10. ASSUME NEW tok \in Token, Commit(tok) \/ Cancel(tok) PROVE IInv'
  <2>1. /\ Pending(tok) /\ Resolve(tok)
        /\ UNCHANGED <<logger, building>>
        /\ FirstUse(tok) \/ SecondUse(tok)
    BY <1>10 DEF Commit, Cancel
  <2>2. \A q \in Queue : q # slot[tok.slot].queue => stored'[q] = stored[q]
    BY <1>10 DEF Commit, Cancel, IInv, TypeOK
  <2>3. LeavesHands(tok)
    <3>1. (tokens' = tokens \/ tokens' = tokens \ {tok}) /\ reused \subseteq reused'
      BY <2>1 DEF FirstUse, SecondUse
    <3>2. QED
      BY <2>1, <3>1, Zenon DEF LeavesHands
  <2>4. CASE FirstUse(tok)
    <3>1. tok \in tokens /\ tok # NoToken /\ reused' = reused /\ tokens' = tokens \ {tok}
      BY <2>4, Constants DEF FirstUse
    <3>2. tok \notin reused => \A u \in JavaThread : building'[u] # tok
      BY <2>1, <3>1 DEF IInv, HandsAreApart
    <3>3. QED
      BY <2>1, <2>2, <2>3, <3>1, <3>2, ResolveStep
  <2>5. CASE SecondUse(tok)
    <3>1. tok \in reused'
      BY <2>5 DEF SecondUse
    <3>2. QED
      BY <2>1, <2>2, <2>3, <3>1, ResolveStep
  <2>6. QED
    BY <2>1, <2>4, <2>5
<1>r. ASSUME NEW tok \in Token, Refused(tok) PROVE IInv'
  <2>1. /\ ~(Pending(tok) /\ logger) /\ UNCHANGED <<logger, slot, stored, lastSeq, lockedBy, building>>
        /\ tokens' = tokens \ {tok} /\ reused' = reused
    BY <1>r DEF Refused, FirstUse
  <2>2. ~Pending(tok)
    BY <2>1 DEF IInv, OpenNeedsLogger, Pending, Token
  <2>3. LeavesHands(tok)
    BY <2>1, Zenon DEF LeavesHands
  <2>4. QED
    BY <2>1, <2>2, <2>3, DropStep
<1>11. CASE UNCHANGED vars
  BY <1>1, <1>11 DEF vars, IInv, OpenNeedsLogger, Valid
<1>12. QED
  BY <1>2, <1>3, <1>4, <1>5, <1>6, <1>7, <1>8, <1>9, <1>10, <1>r, <1>11 DEF Next

LEMMA Invariant == Spec => []IInv
<1>1. Init => IInv
  <2> SUFFICES ASSUME Init PROVE IInv
    OBVIOUS
  <2>1. TypeOK
    <3>1. Closed \in SlotType /\ Closed.pending = FALSE /\ Closed.seq = 0
      BY Constants DEF Closed, SlotType
    <3>2. slot \in [SlotId -> SlotType] /\ \A i \in SlotId : slot[i].pending <=> slot[i].seq # 0
      BY <3>1 DEF Init
    <3>3. stored \in [Queue -> Seq(1..MaxSeq)]
      BY EmptySeq DEF Init
    <3>4. 0 \in 0..MaxSeq
      BY Constants
    <3>5. /\ logger \in BOOLEAN /\ tokens \subseteq Token
          /\ spent \subseteq Token /\ reused \subseteq spent
          /\ lastSeq \in [Queue -> 0..MaxSeq]
          /\ lockedBy \in [Queue -> SlotId \cup {NoSlot}]
          /\ building \in [JavaThread -> Token \cup {NoToken}]
      BY <3>4, Zenon DEF Init
    <3>6. QED
      BY <3>2, <3>3, <3>5 DEF TypeOK, SlotType
  <2>2. \A i \in SlotId : ~slot[i].pending /\ ~Valid(i)
    BY DEF Init, Closed, Valid
  <2>3. PendingSlotIsLocked /\ LockIsPending /\ XAHasOwner /\ OpenNeedsLogger
    BY <2>2 DEF Init, PendingSlotIsLocked, LockIsPending, XAHasOwner, OpenNeedsLogger
  <2>4. HandsArePending /\ HandsAreApart
    BY DEF Init, HandsArePending, HandsAreApart
  <2>5. QED
    BY <2>1, <2>3, <2>4 DEF IInv
<1>2. IInv /\ [Next]_vars => IInv'
  BY TypeStep, InvStep DEF IInv
<1>3. QED
  BY <1>1, <1>2, PTL DEF Spec

-----------------------------------------------------------------------------
(* The theorems *)

\* fqueue_jni.c: the table and the queues keep their types.
THEOREM TypeCorrect == Spec => []TypeOK
<1>1. IInv => TypeOK
  BY DEF IInv
<1>2. QED
  BY <1>1, Invariant, PTL

\* xa_pending of a slot says exactly that FileQueue's dequeue lock is held
\* for this slot, through commits that fail, deliveries that fail and queues
\* open in several slots.
THEOREM PendingIsLock == Spec => []PendingMeansLocked
<1>1. IInv => PendingMeansLocked
  <2> SUFFICES ASSUME IInv, NEW i \in SlotId
               PROVE  slot[i].pending <=> \E q \in Queue : lockedBy[q] = i
    BY DEF PendingMeansLocked
  <2>1. ASSUME slot[i].pending PROVE \E q \in Queue : lockedBy[q] = i
    BY <2>1 DEF IInv, PendingSlotIsLocked
  <2>2. ASSUME NEW q \in Queue, lockedBy[q] = i PROVE slot[i].pending
    BY <2>2, Constants DEF IInv, LockIsPending
  <2>3. QED
    BY <2>1, <2>2
<1>2. QED
  BY <1>1, Invariant, PTL

\* No queue is locked for nobody, and until a used object is used again no
\* message is in two hands.
THEOREM LockIsOwned == Spec => []LockedHasOwner
<1>1. IInv => LockedHasOwner
  <2> SUFFICES ASSUME IInv, NEW q \in Queue, lockedBy[q] # NoSlot,
                      NEW tok, tok = [slot |-> lockedBy[q], seq |-> Head(stored[q])]
               PROVE  /\ tok \in tokens \/ \E t \in JavaThread : building[t] = tok
                      /\ tok \notin reused => \A t, u \in JavaThread :
                            building[t] = tok => tok \notin tokens /\ (building[u] = tok => u = t)
                      /\ \A other \in tokens \ reused :
                            slot[other.slot].queue = q => other = tok
    BY DEF LockedHasOwner
  <2> DEFINE i == lockedBy[q]
  <2>1. i \in SlotId /\ slot[i].pending /\ slot[i].queue = q
    BY DEF IInv, TypeOK, LockIsPending
  <2>2. tok = XA(i)
    BY <2>1 DEF XA, IInv, PendingSlotIsLocked
  <2>3. tok \in tokens \/ \E t \in JavaThread : building[t] = tok
    BY <2>1, <2>2 DEF IInv, XAHasOwner
  <2>4. tok # NoToken
    BY <2>1, <2>2, Constants DEF XA, NoToken
  <2>5. tok \notin reused => \A t, u \in JavaThread :
           building[t] = tok => tok \notin tokens /\ (building[u] = tok => u = t)
    BY <2>4 DEF IInv, HandsAreApart
  <2>6. ASSUME NEW other \in tokens \ reused, slot[other.slot].queue = q PROVE other = tok
    <3>1. other \in Token /\ Pending(other)
      BY DEF IInv, TypeOK, HandsArePending
    <3>2. other.slot \in SlotId /\ slot[other.slot].pending /\ other = XA(other.slot)
      BY <3>1, PendingIsXA DEF IInv
    <3>3. other.slot = i
      BY <2>6, <3>2 DEF IInv, PendingSlotIsLocked
    <3>4. QED
      BY <2>2, <3>2, <3>3
  <2>7. QED
    BY <2>3, <2>5, <2>6
<1>2. QED
  BY <1>1, Invariant, PTL

\* Closing a queue, a delivery that fails and the calls of others take no
\* token from its holder: only an object that is used a second time does.
THEOREM TokensAreTakenByReuse == Spec => []OnlyReuseTakesTokens
<1>1. IInv => OnlyReuseTakesTokens
  <2> SUFFICES ASSUME IInv, NEW tok \in tokens \ reused PROVE Pending(tok) /\ logger
    BY DEF OnlyReuseTakesTokens
  <2>1. Pending(tok) /\ tok.slot \in SlotId
    BY DEF IInv, HandsArePending, TypeOK, Token
  <2>2. QED
    BY <2>1 DEF IInv, OpenNeedsLogger, Pending
<1>2. QED
  BY <1>1, Invariant, PTL
=============================================================================
