---------------------------- MODULE Tools_proofs ----------------------------
(***************************************************************************)
(* Proofs about the programs beside the agents of ver2.0.                  *)
(*   virtual_gw and monitor, on the queues they share, for any number of   *)
(*   queues, any capacity and any number of messages to send;              *)
(*   the field conversions of virtual_gw, for any strings, fields and      *)
(*   codes;                                                                *)
(*   MyAgent and its carrier, for any number of sender threads and         *)
(*   messages and any bound on the faults.                                 *)
(***************************************************************************)
EXTENDS Monitor, FieldConversion, MyAgent, ProofLemmas, TLAPS

-----------------------------------------------------------------------------
(* virtual_gw: one message per iteration *)

GwType ==
    /\ head \in [Queue -> [en : Nat, de : Nat]]
    /\ gwIter \in 0..TestCount

\* A message is composed only while there are messages to send.
GwInv ==
    /\ GwType
    /\ head[GwQueue].en = gwIter
    /\ gwPc \in {"enq", "full"} => gwIter < TestCount
    /\ gwPc = "done" => gwIter = TestCount

\* The counters of the header never fall.
HeadGrows == \A q \in Queue : head[q].en <= head'[q].en /\ head[q].de <= head'[q].de

LEMMA HeadCounts ==
  ASSUME GwType, NEW q \in Queue
  PROVE  head[q].en \in Nat /\ head[q].de \in Nat
BY DEF GwType

LEMMA HeadSame == ASSUME GwType, head' = head PROVE HeadGrows
<1>1. \A q \in Queue : head[q].en \in Nat /\ head[q].de \in Nat
  BY HeadCounts
<1>2. QED
  BY <1>1 DEF HeadGrows

LEMMA GwStep == ASSUME GwInv, GwNext PROVE GwInv' /\ HeadGrows
<1>1. /\ GwQueue \in Queue /\ TestCount \in Nat
      /\ head \in [Queue -> [en : Nat, de : Nat]]
      /\ gwIter \in 0..TestCount
      /\ \A q \in Queue : head[q].en \in Nat /\ head[q].de \in Nat
  BY VirtualGwAssumption, HeadCounts DEF GwInv, GwType
<1>2. CASE GwEnqueues
  <2>1. /\ head' = [head EXCEPT ![GwQueue].en = @ + 1] /\ gwIter' = gwIter + 1
        /\ gwPc = "enq" /\ gwPc' = "loop"
    BY <1>2 DEF GwEnqueues
  <2>2. gwIter < TestCount /\ head[GwQueue].en = gwIter
    BY <2>1 DEF GwInv
  <2>3. gwIter' \in 0..TestCount
    BY <1>1, <2>1, <2>2
  <2>4. /\ head' \in [Queue -> [en : Nat, de : Nat]]
        /\ head'[GwQueue].en = gwIter + 1 /\ head'[GwQueue].de = head[GwQueue].de
        /\ \A q \in Queue : q # GwQueue => head'[q] = head[q]
    BY <1>1, <2>1, <2>2
  <2>5. HeadGrows
    BY <1>1, <2>2, <2>4 DEF HeadGrows
  <2>6. QED
    BY <2>1, <2>3, <2>4, <2>5 DEF GwInv, GwType
<1>3. ASSUME NEW q \in Queue, Consume(q) PROVE GwInv' /\ HeadGrows
  <2>1. /\ head' = [head EXCEPT ![q].de = @ + 1] /\ gwIter' = gwIter /\ gwPc' = gwPc
    BY <1>3 DEF Consume
  <2>2. /\ head' \in [Queue -> [en : Nat, de : Nat]]
        /\ head'[q].en = head[q].en /\ head'[q].de = head[q].de + 1
        /\ \A r \in Queue : r # q => head'[r] = head[r]
    BY <1>1, <2>1
  <2>3. HeadGrows
    BY <1>1, <2>2 DEF HeadGrows
  <2>4. QED
    BY <1>1, <2>1, <2>2, <2>3 DEF GwInv, GwType
<1>4. CASE GwComposes
  <2>1. /\ head' = head /\ gwIter' = gwIter
        /\ gwPc' \in IF gwIter < TestCount THEN {"enq", "failed"} ELSE {"done"}
    BY <1>4 DEF GwComposes
  <2>2. gwPc' \in {"enq", "full"} => gwIter < TestCount
    BY <2>1
  <2>3. gwPc' = "done" => gwIter = TestCount
    BY <1>1, <2>1
  <2>4. QED
    BY <2>1, <2>2, <2>3, HeadSame DEF GwInv, GwType
<1>5. CASE \/ Load_ums_common_conf \/ LoadConf \/ GwOpens \/ GwFull \/ GwRetries \/ GwBreaks
  <2>1. head' = head /\ gwIter' = gwIter /\ gwPc' # "done"
    BY <1>5 DEF Load_ums_common_conf, LoadConf, GwOpens, GwFull, GwRetries, GwBreaks
  <2>2. gwPc' \in {"enq", "full"} => gwPc \in {"enq", "full"}
    BY <1>5 DEF Load_ums_common_conf, LoadConf, GwOpens, GwFull, GwRetries, GwBreaks
  <2>3. QED
    BY <2>1, <2>2, HeadSame DEF GwInv, GwType
<1>6. QED
  BY <1>2, <1>3, <1>4, <1>5 DEF GwNext, Gateway

LEMMA GwStart == GwInit => GwInv
<1>1. SUFFICES ASSUME GwInit PROVE GwInv
  OBVIOUS
<1>2. /\ head = [q \in Queue |-> [en |-> 0, de |-> 0]]
      /\ gwPc = "start" /\ gwIter = 0
  BY <1>1 DEF GwInit
<1>3. GwQueue \in Queue /\ TestCount \in Nat
  BY VirtualGwAssumption
<1>4. QED
  BY <1>2, <1>3 DEF GwInv, GwType

-----------------------------------------------------------------------------
(* The monitor: what its threads have copied *)

MonPcs == {"none", "check", "en_tps", "en_before", "de_tps", "de_before",
           "en_sum", "de_sum", "gone"}

MonType ==
    /\ Qs \in [Queue -> [tps : [Side -> Nat], before : [Side -> Nat], sum : [Side -> Nat]]]
    /\ counted \in [Queue -> [Side -> Nat]]
    /\ obj \in [Queue -> {"none", "open", "closed"}]
    /\ monPc \in [Queue -> MonPcs]
    /\ index \in Nat

\* main_thread opens the queues in order, each with an empty line of Qs[].
OpensInOrder ==
    /\ mainPc \in {"load", "open"} =>
           \A q \in Queue : q >= index => obj[q] = "none"
    /\ \A q \in Queue : obj[q] = "none" =>
           \A s \in Side : /\ counted[q][s] = 0
                           /\ Qs[q].before[s] = 0 /\ Qs[q].sum[s] = 0

\* Everything copied was once in the header.
CopiesAreOld ==
    \A q \in Queue, s \in Side :
        /\ counted[q][s] <= head[q][s]
        /\ Qs[q].before[s] <= head[q][s]
        /\ Qs[q].sum[s] <= head[q][s]

\* A pass adds up a rate and then reads the value it was computed from; the
\* total is read last.
BeforePc == [en |-> "en_before", de |-> "de_before"]
Stale == [en |-> {"de_tps", "de_before", "en_sum"}, de |-> {"en_sum", "de_sum"}]

PassIsInStep ==
    \A q \in Queue, s \in Side : obj[q] = "open" =>
        /\ monPc[q] # BeforePc[s] => counted[q][s] <= Qs[q].before[s]
        /\ monPc[q] \notin Stale[s] => Qs[q].before[s] <= Qs[q].sum[s]

MonInv == MonType /\ OpensInOrder /\ CopiesAreOld /\ PassIsInStep

ToolsInv == GwInv /\ MonInv

\* The numbers behind one line of the table.
LEMMA Numbers ==
  ASSUME GwType, MonType, NEW q \in Queue, NEW s \in Side
  PROVE  /\ head[q][s] \in Nat /\ counted[q][s] \in Nat
         /\ Qs[q].before[s] \in Nat /\ Qs[q].sum[s] \in Nat
<1>1. head[q][s] \in Nat
  BY HeadCounts DEF Side
<1>2. QED
  BY <1>1 DEF MonType

LEMMA NoRates == [s \in Side |-> 0] \in [Side -> Nat]
OBVIOUS

LEMMA EmptyLine ==
  init_Qs \in [tps : [Side -> Nat], before : [Side -> Nat], sum : [Side -> Nat]]
BY NoRates, Zenon DEF init_Qs

LEMMA MonStart == MonInit /\ GwInit => MonInv
<1>1. SUFFICES ASSUME MonInit, GwInit PROVE MonInv
  OBVIOUS
<1>2. /\ Qs = [q \in Queue |-> init_Qs] /\ obj = [q \in Queue |-> "none"]
      /\ monPc = [q \in Queue |-> "none"] /\ mainPc = "load" /\ index = 1
      /\ counted = [q \in Queue |-> [s \in Side |-> 0]]
      /\ head = [q \in Queue |-> [en |-> 0, de |-> 0]]
  BY <1>1 DEF MonInit, GwInit
<1>3. MonType
  <2>1. Qs \in [Queue -> [tps : [Side -> Nat], before : [Side -> Nat], sum : [Side -> Nat]]]
    BY <1>2, EmptyLine
  <2>2. counted \in [Queue -> [Side -> Nat]]
    BY <1>2, NoRates
  <2>3. obj \in [Queue -> {"none", "open", "closed"}] /\ index \in Nat
    BY <1>2
  <2>4. monPc \in [Queue -> MonPcs]
    BY <1>2 DEF MonPcs
  <2>5. QED
    BY <2>1, <2>2, <2>3, <2>4 DEF MonType
<1>4. \A q \in Queue, s \in Side :
          /\ obj[q] = "none" /\ counted[q][s] = 0 /\ head[q][s] = 0
          /\ Qs[q].before[s] = 0 /\ Qs[q].sum[s] = 0
  BY <1>2 DEF init_Qs, Side
<1>5. OpensInOrder
  BY <1>2, <1>4 DEF OpensInOrder
<1>6. CopiesAreOld
  BY <1>4 DEF CopiesAreOld
<1>7. PassIsInStep
  BY <1>4 DEF PassIsInStep
<1>8. QED
  BY <1>3, <1>5, <1>6, <1>7 DEF MonInv

LEMMA EndKeeps ==
  ASSUME ToolsInv, NEW how, ProcessEnds(how) PROVE MonInv'
<1>1. /\ Qs' = [q \in Queue |-> init_Qs] /\ obj' = [q \in Queue |-> "none"]
      /\ monPc' = [q \in Queue |-> "none"] /\ mainPc' = "gone" /\ index' = 1
      /\ counted' = [q \in Queue |-> [s \in Side |-> 0]]
      /\ head' = head
  BY DEF ProcessEnds, gwVars
<1>2. MonType'
  <2>1. Qs' \in [Queue -> [tps : [Side -> Nat], before : [Side -> Nat], sum : [Side -> Nat]]]
    BY <1>1, EmptyLine
  <2>2. counted' \in [Queue -> [Side -> Nat]]
    BY <1>1, NoRates
  <2>3. obj' \in [Queue -> {"none", "open", "closed"}] /\ index' \in Nat
    BY <1>1
  <2>4. monPc' \in [Queue -> MonPcs]
    BY <1>1 DEF MonPcs
  <2>5. QED
    BY <2>1, <2>2, <2>3, <2>4 DEF MonType
<1>3. \A q \in Queue, s \in Side :
          /\ obj'[q] = "none" /\ counted'[q][s] = 0 /\ head'[q][s] \in Nat
          /\ Qs'[q].before[s] = 0 /\ Qs'[q].sum[s] = 0
  <2>1. \A q \in Queue, s \in Side : head'[q][s] \in Nat
    BY <1>1, HeadCounts DEF ToolsInv, GwInv, Side
  <2>2. QED
    BY <1>1, <2>1 DEF init_Qs
<1>4. OpensInOrder'
  BY <1>1, <1>3 DEF OpensInOrder
<1>5. CopiesAreOld'
  BY <1>3 DEF CopiesAreOld
<1>6. PassIsInStep'
  BY <1>3 DEF PassIsInStep
<1>7. QED
  BY <1>2, <1>4, <1>5, <1>6 DEF MonInv

\* A step that neither reads a counter nor opens or closes a queue.
LEMMA QuietKeeps ==
  ASSUME ToolsInv, UNCHANGED <<head, Qs, counted, obj, monPc>>, index' \in Nat,
         mainPc' \in {"load", "open"} => mainPc \in {"load", "open"} /\ index' = index
  PROVE  MonInv'
<1>1. MonType'
  BY DEF ToolsInv, MonInv, MonType
<1>2. OpensInOrder'
  BY DEF ToolsInv, MonInv, OpensInOrder
<1>3. CopiesAreOld'
  BY DEF ToolsInv, MonInv, CopiesAreOld
<1>4. PassIsInStep'
  BY DEF ToolsInv, MonInv, PassIsInStep
<1>5. QED
  BY <1>1, <1>2, <1>3, <1>4 DEF MonInv

\* The counters grow under the monitor.
LEMMA GatewayKeeps ==
  ASSUME ToolsInv, GwInv', HeadGrows, UNCHANGED monVars
  PROVE  MonInv'
<1>1. /\ Qs' = Qs /\ counted' = counted /\ obj' = obj /\ monPc' = monPc
      /\ mainPc' = mainPc /\ index' = index
  BY DEF monVars
<1>2. GwType /\ MonType /\ GwType'
  BY DEF ToolsInv, GwInv, MonInv
<1>3. MonType'
  BY <1>1, <1>2 DEF MonType
<1>4. CopiesAreOld'
  <2>1. SUFFICES ASSUME NEW q \in Queue, NEW s \in Side
                 PROVE  /\ counted[q][s] <= head'[q][s]
                        /\ Qs[q].before[s] <= head'[q][s]
                        /\ Qs[q].sum[s] <= head'[q][s]
    BY <1>1 DEF CopiesAreOld
  <2>2. head[q][s] <= head'[q][s]
    BY DEF HeadGrows, Side
  <2>3. /\ counted[q][s] <= head[q][s] /\ Qs[q].before[s] <= head[q][s]
        /\ Qs[q].sum[s] <= head[q][s]
    BY DEF ToolsInv, MonInv, CopiesAreOld
  <2>4. /\ head[q][s] \in Nat /\ counted[q][s] \in Nat
        /\ Qs[q].before[s] \in Nat /\ Qs[q].sum[s] \in Nat
    BY <1>2, Numbers
  <2>5. head'[q][s] \in Nat
    BY <1>2 DEF GwType, Side
  <2>6. QED
    BY <2>2, <2>3, <2>4, <2>5
<1>5. OpensInOrder' /\ PassIsInStep'
  BY <1>1 DEF ToolsInv, MonInv, OpensInOrder, PassIsInStep
<1>6. QED
  BY <1>3, <1>4, <1>5 DEF MonInv

\* What the mon_thread of an open queue knows of one side of its line.
SideInStep(q, s) ==
    /\ counted[q][s] <= head[q][s]
    /\ Qs[q].before[s] <= head[q][s]
    /\ Qs[q].sum[s] <= head[q][s]
    /\ monPc[q] # BeforePc[s] => counted[q][s] <= Qs[q].before[s]
    /\ monPc[q] \notin Stale[s] => Qs[q].before[s] <= Qs[q].sum[s]

LEMMA PassKeeps ==
  ASSUME ToolsInv, MonType', NEW q \in Queue, obj[q] = "open",
         UNCHANGED <<head, obj, mainPc, index>>,
         \A r \in Queue : r # q => /\ Qs'[r] = Qs[r] /\ counted'[r] = counted[r]
                                   /\ monPc'[r] = monPc[r],
         \A s \in Side : SideInStep(q, s)'
  PROVE  MonInv'
<1>1. OpensInOrder'
  <2>1. \A r \in Queue : obj[r] = "none" => r # q
    OBVIOUS
  <2>2. mainPc \in {"load", "open"} => \A r \in Queue : r >= index => obj[r] = "none"
    BY DEF ToolsInv, MonInv, OpensInOrder
  <2>3. \A r \in Queue : obj[r] = "none" =>
            \A s \in Side : /\ counted'[r][s] = 0
                            /\ Qs'[r].before[s] = 0 /\ Qs'[r].sum[s] = 0
    BY <2>1 DEF ToolsInv, MonInv, OpensInOrder
  <2>4. QED
    BY <2>2, <2>3 DEF OpensInOrder
<1>2. CopiesAreOld'
  <2>1. SUFFICES ASSUME NEW r \in Queue, NEW s \in Side
                 PROVE  /\ counted'[r][s] <= head'[r][s]
                        /\ Qs'[r].before[s] <= head'[r][s]
                        /\ Qs'[r].sum[s] <= head'[r][s]
    BY DEF CopiesAreOld
  <2>2. CASE r = q
    BY <2>2 DEF SideInStep
  <2>3. CASE r # q
    BY <2>3 DEF ToolsInv, MonInv, CopiesAreOld
  <2>4. QED
    BY <2>2, <2>3
<1>3. PassIsInStep'
  <2>1. SUFFICES ASSUME NEW r \in Queue, NEW s \in Side, obj[r] = "open"
                 PROVE  /\ monPc'[r] # BeforePc[s] => counted'[r][s] <= Qs'[r].before[s]
                        /\ monPc'[r] \notin Stale[s] => Qs'[r].before[s] <= Qs'[r].sum[s]
    BY DEF PassIsInStep
  <2>2. CASE r = q
    BY <2>2 DEF SideInStep
  <2>3. CASE r # q
    BY <2>1, <2>3 DEF ToolsInv, MonInv, PassIsInStep
  <2>4. QED
    BY <2>2, <2>3
<1>4. QED
  BY <1>1, <1>2, <1>3 DEF MonInv

\* Where a pass of one side is before and after each of its steps.
TpsPc == [en |-> "en_tps", de |-> "de_tps"]
SumPc == [en |-> "en_sum", de |-> "de_sum"]
ReadPc == [en |-> "de_tps", de |-> "en_sum"]
DonePc == [en |-> "de_sum", de |-> "check"]

LEMMA SideOfLine ==
  ASSUME ToolsInv, NEW q \in Queue, obj[q] = "open", NEW s \in Side
  PROVE  SideInStep(q, s)
BY DEF ToolsInv, MonInv, CopiesAreOld, PassIsInStep, SideInStep

Line == [tps : [Side -> Nat], before : [Side -> Nat], sum : [Side -> Nat]]

LEMMA LineStays ==
  ASSUME NEW L \in Line, NEW s \in Side, NEW n \in Nat
  PROVE  /\ [L EXCEPT !.tps[s] = n] \in Line
         /\ [L EXCEPT !.before[s] = n] \in Line
         /\ [L EXCEPT !.sum[s] = n] \in Line
<1>1. /\ [L.tps EXCEPT ![s] = n] \in [Side -> Nat]
      /\ [L.before EXCEPT ![s] = n] \in [Side -> Nat]
      /\ [L.sum EXCEPT ![s] = n] \in [Side -> Nat]
  BY DEF Line
<1>2. [L EXCEPT !.tps[s] = n] \in Line
  BY <1>1 DEF Line
<1>3. [L EXCEPT !.before[s] = n] \in Line
  BY <1>1 DEF Line
<1>4. [L EXCEPT !.sum[s] = n] \in Line
  BY <1>1 DEF Line
<1>5. QED
  BY <1>2, <1>3, <1>4

LEMMA TpsKeeps ==
  ASSUME ToolsInv, NEW q \in Queue, NEW side \in Side,
         MonReadsTps(q, side, TpsPc[side], BeforePc[side])
  PROVE  MonInv'
<1> DEFINE last == Qs[q].before[side]
           rate == IF last > 0 THEN head[q][side] - last ELSE 0
<1>1. /\ monPc[q] = TpsPc[side] /\ obj[q] = "open"
      /\ Qs' = [Qs EXCEPT ![q].tps[side] = rate]
      /\ counted' = [counted EXCEPT ![q][side] = @ + rate]
      /\ monPc' = [monPc EXCEPT ![q] = BeforePc[side]]
      /\ obj' = obj /\ head' = head /\ mainPc' = mainPc /\ index' = index
  BY DEF MonReadsTps, procVars, gwVars
<1>2. GwType /\ MonType
  BY DEF ToolsInv, GwInv, MonInv
<1>3. /\ head[q][side] \in Nat /\ counted[q][side] \in Nat /\ last \in Nat
      /\ Qs[q].sum[side] \in Nat
  BY <1>2, Numbers
<1>4. SideInStep(q, side) /\ monPc[q] # BeforePc[side]
  BY <1>1, SideOfLine DEF TpsPc, BeforePc, Side
<1>5. rate \in Nat /\ counted[q][side] + rate \in Nat
      /\ counted[q][side] + rate <= head[q][side]
  BY <1>3, <1>4 DEF SideInStep
<1> HIDE DEF rate
<1>6. Qs' = [Qs EXCEPT ![q] = [Qs[q] EXCEPT !.tps[side] = rate]]
  BY <1>1, <1>2 DEF MonType
<1>7. Qs \in [Queue -> Line] /\ counted \in [Queue -> [Side -> Nat]]
  BY <1>2 DEF MonType, Line
<1>8. MonType'
  <2>1. Qs[q] \in Line
    BY <1>7
  <2>2. Qs' \in [Queue -> Line]
    BY <1>5, <1>6, <1>7, <2>1, LineStays
  <2>3. counted' \in [Queue -> [Side -> Nat]]
    BY <1>1, <1>5, <1>7
  <2>4. monPc' \in [Queue -> MonPcs]
    BY <1>1, <1>2 DEF MonType, MonPcs, BeforePc, Side
  <2>5. QED
    BY <1>1, <1>2, <2>2, <2>3, <2>4 DEF MonType, Line
<1>9. ASSUME NEW r \in Queue, r # q
      PROVE  Qs'[r] = Qs[r] /\ counted'[r] = counted[r] /\ monPc'[r] = monPc[r]
  BY <1>1, <1>2, <1>6, <1>9 DEF MonType
<1>10. ASSUME NEW s \in Side PROVE SideInStep(q, s)'
  <2>1. Qs'[q].before[s] = Qs[q].before[s] /\ Qs'[q].sum[s] = Qs[q].sum[s]
    BY <1>6, <1>7 DEF Line
  <2>2. monPc'[q] = BeforePc[side]
    BY <1>1, <1>2 DEF MonType
  <2>3. SideInStep(q, s) /\ head'[q][s] = head[q][s]
    BY <1>1, SideOfLine
  <2>4. CASE s = side
    <3>1. counted'[q][s] = counted[q][s] + rate
      BY <1>1, <1>7, <2>4
    <3>2. counted'[q][s] <= head'[q][s]
      BY <1>5, <2>3, <2>4, <3>1
    <3>3. monPc[q] \notin Stale[s]
      BY <1>1, <2>4 DEF TpsPc, Stale, Side
    <3>4. QED
      BY <2>1, <2>2, <2>3, <2>4, <3>2, <3>3 DEF SideInStep
  <2>5. CASE s # side
    <3>1. counted'[q][s] = counted[q][s]
      BY <1>1, <1>7, <2>5
    <3>2. /\ monPc[q] # BeforePc[s]
          /\ monPc'[q] \notin Stale[s] => monPc[q] \notin Stale[s]
      BY <1>1, <2>2, <2>5 DEF TpsPc, BeforePc, Stale, Side
    <3>3. QED
      BY <2>1, <2>3, <3>1, <3>2 DEF SideInStep
  <2>6. QED
    BY <2>4, <2>5
<1>11. QED
  BY <1>1, <1>8, <1>9, <1>10, PassKeeps

LEMMA BeforeKeeps ==
  ASSUME ToolsInv, NEW q \in Queue, NEW side \in Side,
         MonReadsBefore(q, side, BeforePc[side], ReadPc[side])
  PROVE  MonInv'
<1>1. /\ monPc[q] = BeforePc[side] /\ obj[q] = "open"
      /\ Qs' = [Qs EXCEPT ![q].before[side] = head[q][side]]
      /\ monPc' = [monPc EXCEPT ![q] = ReadPc[side]]
      /\ counted' = counted
      /\ obj' = obj /\ head' = head /\ mainPc' = mainPc /\ index' = index
  BY DEF MonReadsBefore, procVars, gwVars
<1>2. GwType /\ MonType
  BY DEF ToolsInv, GwInv, MonInv
<1>3. head[q][side] \in Nat
  BY <1>2, Numbers
<1>4. Qs' = [Qs EXCEPT ![q] = [Qs[q] EXCEPT !.before[side] = head[q][side]]]
  BY <1>1, <1>2 DEF MonType
<1>5. Qs \in [Queue -> Line]
  BY <1>2 DEF MonType, Line
<1>6. MonType'
  <2>1. Qs[q] \in Line
    BY <1>5
  <2>2. Qs' \in [Queue -> Line]
    BY <1>3, <1>4, <1>5, <2>1, LineStays
  <2>3. monPc' \in [Queue -> MonPcs]
    BY <1>1, <1>2 DEF MonType, MonPcs, ReadPc, Side
  <2>4. QED
    BY <1>1, <1>2, <2>2, <2>3 DEF MonType, Line
<1>7. ASSUME NEW r \in Queue, r # q
      PROVE  Qs'[r] = Qs[r] /\ counted'[r] = counted[r] /\ monPc'[r] = monPc[r]
  BY <1>1, <1>2, <1>4, <1>7 DEF MonType
<1>8. ASSUME NEW s \in Side PROVE SideInStep(q, s)'
  <2>1. Qs'[q].sum[s] = Qs[q].sum[s]
    BY <1>4, <1>5 DEF Line
  <2>2. monPc'[q] = ReadPc[side]
    BY <1>1, <1>2 DEF MonType
  <2>3. /\ SideInStep(q, s) /\ head'[q][s] = head[q][s]
        /\ counted'[q][s] = counted[q][s]
    BY <1>1, SideOfLine
  <2>4. CASE s = side
    <3>1. Qs'[q].before[s] = head[q][s]
      BY <1>4, <1>5, <2>4 DEF Line
    <3>2. monPc'[q] \in Stale[s]
      BY <2>2, <2>4 DEF ReadPc, Stale, Side
    <3>3. head[q][s] \in Nat
      BY <1>3, <2>4
    <3>4. QED
      BY <2>1, <2>3, <3>1, <3>2, <3>3 DEF SideInStep
  <2>5. CASE s # side
    <3>1. Qs'[q].before[s] = Qs[q].before[s]
      BY <1>4, <1>5, <2>5 DEF Line
    <3>2. /\ monPc[q] # BeforePc[s]
          /\ monPc'[q] \notin Stale[s] => monPc[q] \notin Stale[s]
      BY <1>1, <2>2, <2>5 DEF BeforePc, ReadPc, BeforePc, Stale, Side
    <3>3. QED
      BY <2>1, <2>3, <3>1, <3>2 DEF SideInStep
  <2>6. QED
    BY <2>4, <2>5
<1>9. QED
  BY <1>1, <1>6, <1>7, <1>8, PassKeeps

LEMMA SumKeeps ==
  ASSUME ToolsInv, NEW q \in Queue, NEW side \in Side,
         MonReadsSum(q, side, SumPc[side], DonePc[side])
  PROVE  MonInv'
<1>1. /\ monPc[q] = SumPc[side] /\ obj[q] = "open"
      /\ Qs' = [Qs EXCEPT ![q].sum[side] = head[q][side]]
      /\ monPc' = [monPc EXCEPT ![q] = DonePc[side]]
      /\ counted' = counted
      /\ obj' = obj /\ head' = head /\ mainPc' = mainPc /\ index' = index
  BY DEF MonReadsSum, procVars, gwVars
<1>2. GwType /\ MonType
  BY DEF ToolsInv, GwInv, MonInv
<1>3. head[q][side] \in Nat
  BY <1>2, Numbers
<1>4. Qs' = [Qs EXCEPT ![q] = [Qs[q] EXCEPT !.sum[side] = head[q][side]]]
  BY <1>1, <1>2 DEF MonType
<1>5. Qs \in [Queue -> Line]
  BY <1>2 DEF MonType, Line
<1>6. MonType'
  <2>1. Qs[q] \in Line
    BY <1>5
  <2>2. Qs' \in [Queue -> Line]
    BY <1>3, <1>4, <1>5, <2>1, LineStays
  <2>3. monPc' \in [Queue -> MonPcs]
    BY <1>1, <1>2 DEF MonType, MonPcs, DonePc, Side
  <2>4. QED
    BY <1>1, <1>2, <2>2, <2>3 DEF MonType, Line
<1>7. ASSUME NEW r \in Queue, r # q
      PROVE  Qs'[r] = Qs[r] /\ counted'[r] = counted[r] /\ monPc'[r] = monPc[r]
  BY <1>1, <1>2, <1>4, <1>7 DEF MonType
<1>8. ASSUME NEW s \in Side PROVE SideInStep(q, s)'
  <2>1. Qs'[q].before[s] = Qs[q].before[s]
    BY <1>4, <1>5 DEF Line
  <2>2. monPc'[q] = DonePc[side]
    BY <1>1, <1>2 DEF MonType
  <2>3. /\ SideInStep(q, s) /\ head'[q][s] = head[q][s]
        /\ counted'[q][s] = counted[q][s]
    BY <1>1, SideOfLine
  <2>4. CASE s = side
    <3>1. Qs'[q].sum[s] = head[q][s]
      BY <1>4, <1>5, <2>4 DEF Line
    <3>2. monPc[q] # BeforePc[s]
      BY <1>1, <2>4 DEF SumPc, BeforePc, Side
    <3>3. head[q][s] \in Nat
      BY <1>3, <2>4
    <3>4. QED
      BY <2>1, <2>3, <3>1, <3>2, <3>3 DEF SideInStep
  <2>5. CASE s # side
    <3>1. Qs'[q].sum[s] = Qs[q].sum[s]
      BY <1>4, <1>5, <2>5 DEF Line
    <3>2. /\ monPc[q] # BeforePc[s]
          /\ monPc'[q] \notin Stale[s] => monPc[q] \notin Stale[s]
      BY <1>1, <2>2, <2>5 DEF SumPc, DonePc, BeforePc, Stale, Side
    <3>3. QED
      BY <2>1, <2>3, <3>1, <3>2 DEF SideInStep
  <2>6. QED
    BY <2>4, <2>5
<1>9. QED
  BY <1>1, <1>6, <1>7, <1>8, PassKeeps

\* A mon_thread goes on without touching its line.
LEMMA MoveKeeps ==
  ASSUME ToolsInv, NEW q \in Queue, NEW next \in MonPcs,
         UNCHANGED <<head, Qs, counted, obj, mainPc, index>>,
         monPc' = [monPc EXCEPT ![q] = next],
         obj[q] = "open" => monPc[q] = "check" /\ next \in {"en_tps", "gone"}
  PROVE  MonInv'
<1>1. MonType'
  BY DEF ToolsInv, MonInv, MonType
<1>2. OpensInOrder' /\ CopiesAreOld'
  BY DEF ToolsInv, MonInv, OpensInOrder, CopiesAreOld
<1>3. PassIsInStep'
  <2>1. SUFFICES ASSUME NEW r \in Queue, NEW s \in Side, obj[r] = "open"
                 PROVE  /\ monPc'[r] # BeforePc[s] => counted[r][s] <= Qs[r].before[s]
                        /\ monPc'[r] \notin Stale[s] => Qs[r].before[s] <= Qs[r].sum[s]
    BY DEF PassIsInStep
  <2>2. CASE r = q
    <3>1. monPc[r] # BeforePc[s] /\ monPc[r] \notin Stale[s]
      BY <2>1, <2>2 DEF BeforePc, Stale, Side
    <3>2. QED
      BY <2>1, <3>1 DEF ToolsInv, MonInv, PassIsInStep
  <2>3. CASE r # q
    <3>1. monPc'[r] = monPc[r]
      BY <2>3 DEF ToolsInv, MonInv, MonType
    <3>2. QED
      BY <2>1, <3>1 DEF ToolsInv, MonInv, PassIsInStep
  <2>4. QED
    BY <2>2, <2>3
<1>4. QED
  BY <1>1, <1>2, <1>3 DEF MonInv

LEMMA OpenKeeps == ASSUME ToolsInv, MainOpensQueue PROVE MonInv'
<1>1. /\ mainPc = "open" /\ index \in Queue
      /\ obj' = [obj EXCEPT ![index] = "open"]
      /\ monPc' = [monPc EXCEPT ![index] = "check"]
      /\ index' = index + 1 /\ mainPc' = mainPc
      /\ Qs' = Qs /\ counted' = counted /\ head' = head
  BY DEF MainOpensQueue, gwVars
<1>2. MonType /\ OpensInOrder /\ CopiesAreOld /\ PassIsInStep /\ index \in Nat
  BY DEF ToolsInv, MonInv, MonType
<1>3. MonType'
  BY <1>1, <1>2 DEF MonType, MonPcs
<1>4. \A q \in Queue : q # index => obj'[q] = obj[q] /\ monPc'[q] = monPc[q]
  BY <1>1, <1>2 DEF MonType
<1>5. obj'[index] = "open" /\ monPc'[index] = "check"
  BY <1>1, <1>2 DEF MonType
<1>6. OpensInOrder'
  <2>1. \A q \in Queue : q >= index + 1 => obj'[q] = "none"
    <3>1. \A q \in Queue : q \in Nat
      BY VirtualGwAssumption DEF Queue
    <3>2. \A q \in Queue : q >= index + 1 => q # index /\ q >= index
      BY <1>2, <3>1
    <3>3. QED
      BY <1>1, <1>2, <1>4, <3>2 DEF OpensInOrder
  <2>2. \A q \in Queue : obj'[q] = "none" => obj[q] = "none"
    BY <1>4, <1>5
  <2>3. QED
    BY <1>1, <1>2, <2>1, <2>2 DEF OpensInOrder
<1>7. CopiesAreOld'
  BY <1>1, <1>2 DEF CopiesAreOld
<1>8. PassIsInStep'
  <2>1. SUFFICES ASSUME NEW q \in Queue, NEW s \in Side, obj'[q] = "open"
                 PROVE  /\ monPc'[q] # BeforePc[s] => counted[q][s] <= Qs[q].before[s]
                        /\ monPc'[q] \notin Stale[s] => Qs[q].before[s] <= Qs[q].sum[s]
    BY <1>1 DEF PassIsInStep
  <2>2. CASE q = index
    <3>1. index >= index
      BY <1>2
    <3>2. obj[q] = "none"
      BY <1>1, <1>2, <2>2, <3>1 DEF OpensInOrder
    <3>3. counted[q][s] = 0 /\ Qs[q].before[s] = 0 /\ Qs[q].sum[s] = 0
      BY <1>2, <3>2 DEF OpensInOrder
    <3>4. QED
      BY <3>3
  <2>3. CASE q # index
    BY <1>2, <1>4, <2>1, <2>3 DEF PassIsInStep
  <2>4. QED
    BY <2>2, <2>3
<1>9. QED
  BY <1>3, <1>6, <1>7, <1>8 DEF MonInv

LEMMA CloseKeeps == ASSUME ToolsInv, MainClosesQueue PROVE MonInv'
<1>1. /\ mainPc' = "close" /\ index \in Queue /\ index' = index + 1
      /\ obj' = [obj EXCEPT ![index] = "closed"]
      /\ monPc' = monPc /\ Qs' = Qs /\ counted' = counted /\ head' = head
  BY DEF MainClosesQueue, gwVars
<1>2. MonType /\ OpensInOrder /\ CopiesAreOld /\ PassIsInStep
  BY DEF ToolsInv, MonInv
<1>3. MonType'
  BY <1>1, <1>2 DEF MonType
<1>4. \A q \in Queue : obj'[q] \in {"none", "open"} => obj'[q] = obj[q]
  BY <1>1, <1>2 DEF MonType
<1>5. OpensInOrder'
  BY <1>1, <1>2, <1>4 DEF OpensInOrder
<1>6. CopiesAreOld'
  BY <1>1, <1>2 DEF CopiesAreOld
<1>7. PassIsInStep'
  BY <1>1, <1>2, <1>4 DEF PassIsInStep
<1>8. QED
  BY <1>3, <1>5, <1>6, <1>7 DEF MonInv

LEMMA MonThreadKeeps ==
  ASSUME ToolsInv, NEW q \in Queue, MonThread(q) PROVE MonInv'
<1>1. CASE MonChecksFlag(q)
  <2>1. CASE ProcessEnds("crashed")
    BY <2>1, EndKeeps
  <2>2. CASE /\ monPc' = [monPc EXCEPT ![q] = IF quitFlag THEN "gone" ELSE "en_tps"]
             /\ UNCHANGED <<proc, Qs, obj, procVars, counted, gwVars>>
    <3>1. UNCHANGED <<head, Qs, counted, obj, mainPc, index>>
      BY <2>2 DEF procVars, gwVars
    <3>2. monPc[q] = "check"
      BY <1>1 DEF MonChecksFlag
    <3>3. CASE quitFlag
      <4>1. "gone" \in MonPcs /\ monPc' = [monPc EXCEPT ![q] = "gone"]
        BY <2>2, <3>3 DEF MonPcs
      <4>2. QED
        BY <3>1, <3>2, <4>1, MoveKeeps
    <3>4. CASE ~quitFlag
      <4>1. "en_tps" \in MonPcs /\ monPc' = [monPc EXCEPT ![q] = "en_tps"]
        BY <2>2, <3>4 DEF MonPcs
      <4>2. QED
        BY <3>1, <3>2, <4>1, MoveKeeps
    <3>5. QED
      BY <3>3, <3>4
  <2>3. QED
    BY <1>1, <2>1, <2>2 DEF MonChecksFlag
<1>2. CASE \/ MonReadsTps(q, "en", "en_tps", "en_before")
           \/ MonReadsTps(q, "de", "de_tps", "de_before")
  <2>1. PICK side \in Side : MonReadsTps(q, side, TpsPc[side], BeforePc[side])
    BY <1>2 DEF TpsPc, BeforePc, Side
  <2>2. QED
    BY <2>1, TpsKeeps
<1>3. CASE \/ MonReadsBefore(q, "en", "en_before", "de_tps")
           \/ MonReadsBefore(q, "de", "de_before", "en_sum")
  <2>1. PICK side \in Side : MonReadsBefore(q, side, BeforePc[side], ReadPc[side])
    BY <1>3 DEF BeforePc, ReadPc, Side
  <2>2. QED
    BY <2>1, BeforeKeeps
<1>4. CASE \/ MonReadsSum(q, "en", "en_sum", "de_sum")
           \/ MonReadsSum(q, "de", "de_sum", "check")
  <2>1. PICK side \in Side : MonReadsSum(q, side, SumPc[side], DonePc[side])
    BY <1>4 DEF SumPc, DonePc, Side
  <2>2. QED
    BY <2>1, SumKeeps
<1>5. CASE MonReadsClosed(q)
  <2>1. CASE ProcessEnds("crashed")
    BY <2>1, EndKeeps
  <2>2. CASE /\ monPc' = [monPc EXCEPT ![q] = "check"]
             /\ UNCHANGED <<proc, Qs, obj, procVars, counted, gwVars>>
    <3>1. "check" \in MonPcs /\ obj[q] # "open"
      BY <1>5 DEF MonReadsClosed, MonPcs
    <3>2. UNCHANGED <<head, Qs, counted, obj, mainPc, index>>
      BY <2>2 DEF procVars, gwVars
    <3>3. QED
      BY <2>2, <3>1, <3>2, MoveKeeps
  <2>3. QED
    BY <1>5, <2>1, <2>2 DEF MonReadsClosed
<1>6. QED
  BY <1>1, <1>2, <1>3, <1>4, <1>5 DEF MonThread

LEMMA MainThreadKeeps == ASSUME ToolsInv, MainThread PROVE MonInv'
<1>1. index \in Nat
  BY DEF ToolsInv, MonInv, MonType
<1>2. CASE MainOpensQueue
  BY <1>2, OpenKeeps
<1>3. CASE MainClosesQueue
  BY <1>3, CloseKeeps
<1>4. CASE MainLoadsContainer \/ MainCannotOpen \/ MainStartsLoop
  <2>1. /\ UNCHANGED <<head, Qs, counted, obj, monPc, index>>
        /\ mainPc \in {"load", "open"}
    BY <1>4 DEF MainLoadsContainer, MainCannotOpen, MainStartsLoop, gwVars
  <2>2. QED
    BY <1>1, <2>1, QuietKeeps
<1>5. CASE \/ MainSeesFlag \/ MainChecksFlag \/ MainLocks \/ MainDrawsQueue
           \/ MainUnlocks \/ MainClosesLogger \/ MainStops
  <2>1. UNCHANGED <<head, Qs, counted, obj, monPc>>
    BY <1>5 DEF MainSeesFlag, MainChecksFlag, MainLocks, MainDrawsQueue,
                MainUnlocks, MainClosesLogger, MainStops, gwVars
  <2>2. mainPc' \notin {"load", "open"}
    BY <1>5 DEF MainSeesFlag, MainChecksFlag, MainLocks, MainDrawsQueue,
                MainUnlocks, MainClosesLogger, MainStops
  <2>3. index' \in {1, index, index + 1}
    BY <1>5 DEF MainSeesFlag, MainChecksFlag, MainLocks, MainDrawsQueue,
                MainUnlocks, MainClosesLogger, MainStops
  <2>4. index' \in Nat
    BY <1>1, <2>3
  <2>5. QED
    BY <2>1, <2>2, <2>4, QuietKeeps
<1>6. QED
  BY <1>2, <1>3, <1>4, <1>5 DEF MainThread

LEMMA KeyThreadKeeps == ASSUME ToolsInv, KeyThread PROVE MonInv'
<1>1. index \in Nat
  BY DEF ToolsInv, MonInv, MonType
<1>2. CASE KeyHasNoQueue
  BY <1>2, EndKeeps DEF KeyHasNoQueue
<1>3. CASE KeyExits
  BY <1>3, EndKeeps DEF KeyExits
<1>4. CASE KeyPressed \/ KeyQuits \/ KeyOpensPage \/ KeyLeavesPage \/ KeyIsDrawn
  <2>1. UNCHANGED <<head, Qs, counted, obj, monPc, mainPc, index>>
    BY <1>4 DEF KeyPressed, KeyQuits, KeyOpensPage, KeyLeavesPage, KeyIsDrawn, gwVars
  <2>2. QED
    BY <1>1, <2>1, QuietKeeps
<1>5. QED
  BY <1>2, <1>3, <1>4 DEF KeyThread, KeyLocks

LEMMA MonitorKeepsQueues == MonitorNext => UNCHANGED gwVars
<1>1. ASSUME NEW q \in Queue, MonThread(q) PROVE UNCHANGED gwVars
  BY <1>1 DEF MonThread, MonChecksFlag, MonReadsTps, MonReadsBefore, MonReadsSum,
              MonReadsClosed, ProcessEnds
<1>2. MainThread => UNCHANGED gwVars
  BY DEF MainThread, MainLoadsContainer, MainOpensQueue, MainCannotOpen,
         MainStartsLoop, MainSeesFlag, MainChecksFlag, MainLocks, MainDrawsQueue,
         MainUnlocks, MainClosesQueue, MainClosesLogger, MainStops
<1>3. KeyThread \/ MainFatalKey => UNCHANGED gwVars
  BY DEF KeyThread, KeyLocks, KeyPressed, KeyQuits, KeyOpensPage, KeyHasNoQueue,
         KeyLeavesPage, KeyIsDrawn, KeyExits, MainFatalKey, ProcessEnds
<1>4. QED
  BY <1>1, <1>2, <1>3 DEF MonitorNext

LEMMA ToolsInvariant == ToolsSpec => []ToolsInv
<1>1. ToolsInit => ToolsInv
  BY GwStart, MonStart DEF ToolsInit, ToolsInv
<1>2. ToolsInv /\ [ToolsNext]_toolVars => ToolsInv'
  <2>1. SUFFICES ASSUME ToolsInv, [ToolsNext]_toolVars PROVE ToolsInv'
    OBVIOUS
  <2>2. CASE MonitorNext
    <3>1. GwInv'
      BY <2>1, <2>2, MonitorKeepsQueues DEF gwVars, ToolsInv, GwInv, GwType
    <3>2. MonInv'
      BY <2>1, <2>2, MonThreadKeeps, MainThreadKeeps, KeyThreadKeeps, EndKeeps
         DEF MonitorNext, MainFatalKey
    <3>3. QED
      BY <3>1, <3>2 DEF ToolsInv
  <2>3. CASE GwNext /\ UNCHANGED monVars
    <3>1. GwInv' /\ HeadGrows
      BY <2>1, <2>3, GwStep DEF ToolsInv
    <3>2. QED
      BY <2>1, <2>3, <3>1, GatewayKeeps DEF ToolsInv
  <2>4. CASE UNCHANGED toolVars
    <3>1. UNCHANGED gwVars /\ UNCHANGED monVars
      BY <2>4 DEF toolVars
    <3>2. GwInv' /\ head' = head
      BY <2>1, <3>1 DEF gwVars, ToolsInv, GwInv, GwType
    <3>3. HeadGrows
      BY <2>1, <3>2, HeadSame DEF ToolsInv, GwInv
    <3>4. QED
      BY <2>1, <3>1, <3>2, <3>3, GatewayKeeps DEF ToolsInv
  <2>5. QED
    BY <2>1, <2>2, <2>3, <2>4 DEF ToolsNext
<1>3. QED
  BY <1>1, <1>2, PTL DEF ToolsSpec

-----------------------------------------------------------------------------
(* What the programs promise *)

\* virtual_gw: a full queue delays the generator but costs no message, so
\* that a run that ends regularly has enqueued all TEST_COUNT of them.
THEOREM GeneratorLosesNothing == ToolsSpec => []FullCostsNoMessage
<1>1. ToolsInv => FullCostsNoMessage
  BY DEF ToolsInv, GwInv, FullCostsNoMessage
<1>2. QED
  BY <1>1, ToolsInvariant, PTL

\* mon_thread: no message is counted twice in the rates although the counters
\* grow under a pass, main_thread opens and closes the queues meanwhile, and
\* any thread may end the process.
THEOREM RatesAreHonest == ToolsSpec => []RatesNeverOvercount
<1>1. ToolsInv => RatesNeverOvercount
  <2>1. SUFFICES ASSUME ToolsInv, NEW q \in Queue, NEW s \in Side
        PROVE  /\ counted[q][s] <= head[q][s]
               /\ Qs[q].before[s] <= head[q][s]
               /\ Qs[q].sum[s] <= head[q][s]
               /\ monPc[q] = "check" /\ obj[q] = "open" =>
                     /\ counted[q][s] <= Qs[q].before[s]
                     /\ Qs[q].before[s] <= Qs[q].sum[s]
    BY DEF RatesNeverOvercount
  <2>2. /\ counted[q][s] <= head[q][s]
        /\ Qs[q].before[s] <= head[q][s]
        /\ Qs[q].sum[s] <= head[q][s]
    BY <2>1 DEF ToolsInv, MonInv, CopiesAreOld
  <2>3. ASSUME monPc[q] = "check", obj[q] = "open"
        PROVE  SideInStep(q, s) /\ monPc[q] # BeforePc[s] /\ monPc[q] \notin Stale[s]
    BY <2>1, <2>3, SideOfLine DEF BeforePc, Stale, Side
  <2>4. QED
    BY <2>2, <2>3 DEF SideInStep
<1>2. QED
  BY <1>1, ToolsInvariant, PTL

-----------------------------------------------------------------------------
(* The field conversions: what the converters return *)

LEMMA CharsWritten ==
  /\ {"0", "+", "-", "/", "%", Blank, NUL} \subseteq Char
  /\ {"won1", "won2", "dal1", "dal2", "reo1", "reo2", "usd1", "usd2"} \subseteq Char
  /\ \A c \in DOMAIN upperOf : upperOf[c] \in Char
  /\ \A c \in DOMAIN lowerOf : lowerOf[c] \in Char
<1>1. /\ {"0", "+", "-", "/", "%", Blank, NUL} \subseteq Written
      /\ {"won1", "won2", "dal1", "dal2", "reo1", "reo2", "usd1", "usd2"} \subseteq Written
  BY DEF Written, Digit
<1>2. \A c \in DOMAIN upperOf : upperOf[c] \in Written
  BY DEF Written
<1>3. \A c \in DOMAIN lowerOf : lowerOf[c] \in Written
  BY DEF Written
<1>4. QED
  BY <1>1, <1>2, <1>3, FieldConversionAssumption

\* The beginning of a sequence.
LEMMA Beginning ==
  ASSUME NEW T, NEW s \in Seq(T), NEW n \in Nat, n <= Len(s)
  PROVE  SubSeq(s, 1, n) \in Seq(T) /\ Len(SubSeq(s, 1, n)) = n
<1>1. Len(s) \in Nat /\ n \in Int /\ 1 \in Int
  OBVIOUS
<1>2. \A i \in 1..n : s[i] \in T
  BY <1>1, ElementOfSeq
<1>3. /\ SubSeq(s, 1, n) \in Seq(T)
      /\ Len(SubSeq(s, 1, n)) = IF 1 <= n THEN n - 1 + 1 ELSE 0
  BY <1>1, <1>2, SubSeqProperties
<1>4. QED
  BY <1>1, <1>3

\* The rest of a sequence.
LEMMA Rest ==
  ASSUME NEW T, NEW s \in Seq(T), NEW n \in Nat
  PROVE  /\ SubSeq(s, 1 + n, Len(s)) \in Seq(T)
         /\ Len(SubSeq(s, 1 + n, Len(s))) \in Nat
         /\ Len(SubSeq(s, 1 + n, Len(s))) <= Len(s)
<1>1. Len(s) \in Nat /\ Len(s) \in Int /\ 1 + n \in Int
  OBVIOUS
<1>2. \A i \in (1 + n)..Len(s) : s[i] \in T
  BY <1>1, ElementOfSeq
<1>3. /\ SubSeq(s, 1 + n, Len(s)) \in Seq(T)
      /\ Len(SubSeq(s, 1 + n, Len(s))) =
            IF 1 + n <= Len(s) THEN Len(s) - (1 + n) + 1 ELSE 0
  BY <1>1, <1>2, SubSeqProperties
<1>4. QED
  BY <1>1, <1>3

LEMMA Padding ==
  ASSUME NEW c \in Char, NEW n \in Nat
  PROVE  Pad(c, n) \in Seq(Char) /\ Len(Pad(c, n)) = n
BY DEF Pad

LEMMA MappedChars ==
  ASSUME NEW s \in Seq(Char), NEW f, \A c \in DOMAIN f : f[c] \in Char
  PROVE  Mapped(s, f) \in Seq(Char)
<1>1. Len(s) \in Nat /\ \A i \in 1..Len(s) : s[i] \in Char
  BY ElementOfSeq
<1>2. \A i \in 1..Len(s) : (IF s[i] \in DOMAIN f THEN f[s[i]] ELSE s[i]) \in Char
  BY <1>1
<1>3. QED
  BY <1>1, <1>2 DEF Mapped

\* What every converter promises.
Converted(r, src, len) ==
    /\ r.dst \in Seq(Char)
    /\ ~r.ok => \/ r.dst = src
                \/ r.dst = <<>> /\ Len(src) > len

LEMMA FillChars ==
  ASSUME NEW code \in 200..203, NEW src \in Seq(Char), NEW len \in Nat
  PROVE  LET r == fill_chars(code, src, len)
         IN  Converted(r, src, len) /\ Len(r.dst) \in {0, len}
<1> DEFINE ch == IF code = FILL_ZERO_LEFT THEN "0" ELSE Blank
           gap == len - Len(src)
           r == fill_chars(code, src, len)
<1>1. ch \in Char /\ Len(src) \in Nat
  BY CharsWritten
<1>2. r = IF code = FILL_SPACE THEN Result(TRUE, Pad(ch, len))
          ELSE IF Len(src) > len THEN Result(FALSE, <<>>)
          ELSE Result(TRUE, IF code = FILL_SPACE_RIGHT THEN src \o Pad(ch, gap)
                                                       ELSE Pad(ch, gap) \o src)
  BY DEF fill_chars
<1> HIDE DEF ch, r
<1>3. CASE code = FILL_SPACE
  <2>1. r.ok = TRUE /\ r.dst = Pad(ch, len)
    BY <1>2, <1>3 DEF Result
  <2>2. r.dst \in Seq(Char) /\ Len(r.dst) = len
    BY <2>1, <1>1, Padding
  <2>3. QED
    BY <2>1, <2>2 DEF Converted, r
<1>4. CASE code # FILL_SPACE /\ Len(src) > len
  <2>1. r.ok = FALSE /\ r.dst = <<>>
    BY <1>2, <1>4 DEF Result
  <2>2. r.dst \in Seq(Char) /\ Len(r.dst) = 0
    BY <2>1, EmptySeq
  <2>3. QED
    BY <2>1, <2>2, <1>4 DEF Converted, r
<1>5. CASE code # FILL_SPACE /\ ~(Len(src) > len)
  <2>1. /\ r.ok = TRUE
        /\ r.dst = IF code = FILL_SPACE_RIGHT THEN src \o Pad(ch, gap) ELSE Pad(ch, gap) \o src
    BY <1>2, <1>5 DEF Result
  <2>2. gap \in Nat /\ gap + Len(src) = len /\ Len(src) + gap = len
    BY <1>1, <1>5
  <2>3. Pad(ch, gap) \in Seq(Char) /\ Len(Pad(ch, gap)) = gap
    BY <1>1, <2>2, Padding
  <2> HIDE DEF gap
  <2>4. /\ src \o Pad(ch, gap) \in Seq(Char) /\ Pad(ch, gap) \o src \in Seq(Char)
        /\ Len(src \o Pad(ch, gap)) = Len(src) + gap
        /\ Len(Pad(ch, gap) \o src) = gap + Len(src)
    BY <2>3, ConcatProperties
  <2>5. r.dst \in Seq(Char) /\ Len(r.dst) = len
    BY <2>1, <2>2, <2>4
  <2>6. QED
    BY <2>1, <2>5 DEF Converted, r
<1>6. QED
  BY <1>3, <1>4, <1>5

LEMMA FitChars ==
  ASSUME NEW src \in Seq(Char), NEW len \in Nat
  PROVE  LET r == fit_chars(src, len)
         IN  Converted(r, src, len) /\ Len(r.dst) <= len
<1> DEFINE n == Shorter(len, Len(src))
           r == fit_chars(src, len)
<1>1. Len(src) \in Nat /\ n \in Nat /\ n <= Len(src) /\ n <= len
  BY DEF Shorter
<1>2. r.ok = TRUE /\ r.dst = SubSeq(src, 1, n)
  BY DEF fit_chars, Result
<1> HIDE DEF n
<1>3. r.dst \in Seq(Char) /\ Len(r.dst) = n
  BY <1>1, <1>2, Beginning
<1>4. QED
  BY <1>1, <1>2, <1>3 DEF Converted

LEMMA CheckLength ==
  ASSUME NEW code, NEW src \in Seq(Char), NEW len \in Nat
  PROVE  Converted(check_length(code, src, len), src, len)
BY DEF check_length, Result, Converted

LEMMA CheckChars ==
  ASSUME NEW code, NEW src \in Seq(Char), NEW len \in Nat
  PROVE  Converted(check_chars(code, src), src, len)
BY DEF check_chars, Result, Converted

LEMMA ChangeChars ==
  ASSUME NEW src \in Seq(Char), NEW len \in Nat
  PROVE  Converted(change_chars(src), src, len)
<1>1. Len(src) \in Nat /\ \A i \in 1..Len(src) : src[i] \in Char
  BY ElementOfSeq
<1>2. \A i \in 1..Len(src) : (IF src[i] = "+" THEN Blank ELSE src[i]) \in Char
  BY <1>1, CharsWritten
<1>3. [i \in 1..Len(src) |-> IF src[i] = "+" THEN Blank ELSE src[i]] \in Seq(Char)
  BY <1>1, <1>2
<1>4. QED
  BY <1>3 DEF change_chars, Result, Converted

LEMMA UpperAndLower ==
  ASSUME NEW src \in Seq(Char), NEW len \in Nat
  PROVE  Converted(to_upper(src), src, len) /\ Converted(to_lower(src), src, len)
<1>1. Mapped(src, upperOf) \in Seq(Char) /\ Mapped(src, lowerOf) \in Seq(Char)
  BY MappedChars, CharsWritten
<1>2. QED
  BY <1>1 DEF to_upper, to_lower, Result, Converted

LEMMA AddString ==
  ASSUME NEW code \in 500..503, NEW src \in Seq(Char), NEW len \in Nat
  PROVE  Converted(add_string(code, src), src, len)
<1> DEFINE unit == CASE code = ADD_HAN_WON      -> <<"won1", "won2">>
                     [] code = ADD_HAN_DOLLOR   -> <<"dal1", "dal2", "reo1", "reo2">>
                     [] code = ADD_CHAR_DOLLOR  -> <<"usd1", "usd2">>
                     [] code = ADD_CHAR_PERCENT -> <<"%">>
<1>1. /\ <<"won1", "won2">> \in Seq(Char) /\ <<"dal1", "dal2", "reo1", "reo2">> \in Seq(Char)
      /\ <<"usd1", "usd2">> \in Seq(Char) /\ <<"%">> \in Seq(Char)
  BY CharsWritten
<1>2. unit \in {<<"won1", "won2">>, <<"dal1", "dal2", "reo1", "reo2">>,
                <<"usd1", "usd2">>, <<"%">>}
  BY DEF ADD_HAN_WON, ADD_HAN_DOLLOR, ADD_CHAR_DOLLOR, ADD_CHAR_PERCENT
<1> HIDE DEF unit
<1>3. src \o unit \in Seq(Char)
  BY <1>1, <1>2, ConcatProperties
<1>4. add_string(code, src) = Result(TRUE, src \o unit)
  BY DEF add_string, unit
<1>5. QED
  BY <1>3, <1>4 DEF Result, Converted

LEMMA DateChars ==
  ASSUME NEW code, NEW src \in Seq(Char), NEW len \in Nat
  PROVE  Converted(ins_chars_to_date(code, src, len), src, len)
<1> DEFINE ch    == IF code = INS_SLASH_TO_DATE THEN "/" ELSE "-"
           year  == IF len > 4 THEN len - 4 ELSE 0
           at(i) == IF i <= Len(src) THEN src[i] ELSE NUL
           head4 == [i \in 1..year |-> at(i)]
           mid   == IF len > 4 THEN <<ch>> ELSE <<>>
           last  == <<at(year + 1), at(year + 2), ch, at(year + 3), at(year + 4)>>
           all   == head4 \o mid \o last
           ends  == {i \in 1..Len(all): all[i] = NUL}
           first == CHOOSE i \in ends: \A j \in ends: i <= j
           res   == IF ends = {} THEN all ELSE SubSeq(all, 1, first - 1)
<1>1. ins_chars_to_date(code, src, len) = Result(TRUE, res)
  BY DEF ins_chars_to_date
<1>2. ch \in Char /\ year \in Nat /\ NUL \in Char /\ Len(src) \in Nat
  BY CharsWritten
<1> HIDE DEF ch, year
<1>3. \A i \in Nat \ {0} : at(i) \in Char
  <2>1. \A i \in 1..Len(src) : src[i] \in Char
    BY ElementOfSeq
  <2>2. QED
    BY <1>2, <2>1
<1> HIDE DEF at
<1>4. /\ year + 1 \in Nat \ {0} /\ year + 2 \in Nat \ {0}
      /\ year + 3 \in Nat \ {0} /\ year + 4 \in Nat \ {0}
  BY <1>2
<1>5. head4 \in Seq(Char)
  <2>1. \A i \in 1..year : at(i) \in Char
    BY <1>2, <1>3
  <2>2. QED
    BY <1>2, <2>1
<1>6. mid \in Seq(Char)
  BY <1>2
<1>7. last \in Seq(Char)
  <2>1. at(year + 1) \in Char /\ at(year + 2) \in Char /\ at(year + 3) \in Char /\ at(year + 4) \in Char
    BY <1>3, <1>4
  <2>2. QED
    BY <1>2, <2>1
<1> HIDE DEF head4, mid, last
<1>8. all \in Seq(Char)
  BY <1>5, <1>6, <1>7, ConcatProperties
<1> HIDE DEF all
<1>9. res \in Seq(Char)
  <2>1. CASE ends = {}
    BY <2>1, <1>8
  <2>2. CASE ends # {}
    <3>1. ends \in SUBSET Nat /\ \A i \in ends : i \in Nat /\ 1 <= i /\ i <= Len(all)
      BY <1>8
    <3>2. first \in ends
      BY <2>2, <3>1, LeastIsChosen
    <3>3. first - 1 \in Nat /\ first - 1 <= Len(all)
      BY <3>1, <3>2, <1>8
    <3> HIDE DEF first, ends
    <3>4. SubSeq(all, 1, first - 1) \in Seq(Char)
      BY <1>8, <3>3, Beginning
    <3>5. QED
      BY <2>2, <3>4
  <2>3. QED
    BY <2>1, <2>2
<1> HIDE DEF res
<1>10. QED
  BY <1>1, <1>9 DEF Result, Converted

\* Leading characters of a class are left out.
LEMMA LeftOut ==
  ASSUME NEW s \in Seq(Char), NEW class
  PROVE  LET n == Cardinality({i \in 1..Len(s): Consists(SubSeq(s, 1, i), class)})
             t == SubSeq(s, 1 + n, Len(s))
         IN  t \in Seq(Char) /\ Len(t) \in Nat /\ Len(t) <= Len(s)
<1> DEFINE P == {i \in 1..Len(s): Consists(SubSeq(s, 1, i), class)}
<1>1. Len(s) \in Nat
  OBVIOUS
<1>2. IsFiniteSet(1..Len(s))
  BY <1>1, FS_Interval
<1>3. P \subseteq 1..Len(s)
  OBVIOUS
<1> HIDE DEF P
<1>4. Cardinality(P) \in Nat
  BY <1>2, <1>3, FS_Subset, FS_CardinalityType
<1>5. QED
  BY <1>4, Rest DEF P

LEMMA ToNumber ==
  ASSUME NEW src \in Seq(Char), NEW len \in Nat
  PROVE  Converted(to_number(src), src, len)
<1> DEFINE From(s, class) == SubSeq(s, 1 + Cardinality({i \in 1..Len(s):
                                 Consists(SubSeq(s, 1, i), class)}), Len(s))
           text   == From(src, {Blank})
           sign   == IF text # <<>> /\ Head(text) \in {"+", "-"} THEN <<Head(text)>> ELSE <<>>
           after  == SubSeq(text, 1 + Len(sign), Len(text))
           body   == From(after, {"0"})
           n      == Len(body) - Len(From(body, Digit))
           digits == SubSeq(body, 1, n)
           res    == IF digits = <<>> THEN <<"0">>
                     ELSE (IF sign = <<"-">> THEN sign ELSE <<>>) \o digits
<1>1. to_number(src) = Result(TRUE, res)
  BY DEF to_number
<1>2. \A s \in Seq(Char) : \A class :
         From(s, class) \in Seq(Char) /\ Len(From(s, class)) \in Nat /\ Len(From(s, class)) <= Len(s)
  BY LeftOut
<1> HIDE DEF From
<1>3. text \in Seq(Char)
  BY <1>2
<1> HIDE DEF text
<1>4. sign \in Seq(Char) /\ Len(sign) \in Nat
  <2>1. text # <<>> => <<Head(text)>> \in Seq(Char)
    BY <1>3, HeadTailProperties
  <2>2. sign \in Seq(Char)
    BY <2>1
  <2>3. QED
    BY <2>2
<1> HIDE DEF sign
<1>5. after \in Seq(Char)
  BY <1>3, <1>4, Rest
<1> HIDE DEF after
<1>6. body \in Seq(Char) /\ Len(body) \in Nat
  BY <1>2, <1>5
<1> HIDE DEF body
<1>7. n \in Nat /\ n <= Len(body)
  <2>1. Len(From(body, Digit)) \in Nat /\ Len(From(body, Digit)) <= Len(body)
    BY <1>2, <1>6
  <2>2. QED
    BY <2>1, <1>6
<1> HIDE DEF n
<1>8. digits \in Seq(Char)
  BY <1>6, <1>7, Beginning
<1> HIDE DEF digits
<1>9. res \in Seq(Char)
  <2>1. <<"0">> \in Seq(Char)
    BY CharsWritten
  <2>2. (IF sign = <<"-">> THEN sign ELSE <<>>) \in Seq(Char)
    BY <1>4
  <2>3. (IF sign = <<"-">> THEN sign ELSE <<>>) \o digits \in Seq(Char)
    BY <2>2, <1>8, ConcatProperties
  <2>4. QED
    BY <2>1, <2>3
<1> HIDE DEF res
<1>10. QED
  BY <1>1, <1>9 DEF Result, Converted

\* g[i] is what is left of the first i characters without the blanks.
Unblanked(g, src, n) ==
    /\ g \in [0..n -> Seq(Char)]
    /\ \A i \in 0..n : g[i] = IF i = 0 THEN <<>>
                              ELSE IF src[i] = Blank THEN g[i - 1] ELSE Append(g[i - 1], src[i])

LEMMA UnblankedExists ==
  ASSUME NEW src \in Seq(Char)
  PROVE  \A n \in 0..Len(src) : \E g : Unblanked(g, src, n)
<1> DEFINE Without == {n \in 0..Len(src) : ~ \E g : Unblanked(g, src, n)}
<1> SUFFICES ASSUME Without # {} PROVE FALSE
  OBVIOUS
<1>1. Len(src) \in Nat /\ \A i \in 1..Len(src) : src[i] \in Char
  BY ElementOfSeq
<1>2. Without \in SUBSET Nat
  BY <1>1
<1>3. PICK n \in Without : \A m \in Without : n <= m
  BY <1>2, LeastOfNaturals
<1>4. n \in 0..Len(src) /\ n \in Nat /\ ~ \E g : Unblanked(g, src, n)
  BY <1>1, <1>3
<1>5. CASE n = 0
  <2> DEFINE g == [i \in 0..0 |-> <<>>]
  <2>1. g \in [0..0 -> Seq(Char)] /\ \A i \in 0..0 : i = 0 /\ g[i] = <<>>
    BY EmptySeq
  <2> HIDE DEF g
  <2>2. Unblanked(g, src, 0)
    BY <2>1 DEF Unblanked
  <2>3. QED
    BY <2>2, <1>4, <1>5
<1>6. CASE n # 0
  <2>1. n - 1 \in 0..Len(src) /\ n - 1 \in Nat /\ ~(n <= n - 1) /\ n \in 1..Len(src)
    BY <1>1, <1>4, <1>6
  <2>2. PICK h : Unblanked(h, src, n - 1)
    BY <1>3, <2>1
  <2> DEFINE new == IF src[n] = Blank THEN h[n - 1] ELSE Append(h[n - 1], src[n])
             g == [i \in 0..n |-> IF i = n THEN new ELSE h[i]]
  <2>3. h \in [0..(n - 1) -> Seq(Char)] /\ h[n - 1] \in Seq(Char)
    BY <2>1, <2>2 DEF Unblanked
  <2>4. new \in Seq(Char)
    BY <1>1, <2>1, <2>3, AppendProperties
  <2> HIDE DEF new
  <2>5. /\ g \in [0..n -> Seq(Char)]
        /\ g[n] = new
        /\ \A i \in 0..(n - 1) : g[i] = h[i]
    BY <1>4, <2>1, <2>3, <2>4
  <2> HIDE DEF g
  <2>6. ASSUME NEW i \in 0..n
        PROVE  g[i] = IF i = 0 THEN <<>>
                      ELSE IF src[i] = Blank THEN g[i - 1] ELSE Append(g[i - 1], src[i])
    <3>1. CASE i = n
      <4>1. g[i - 1] = h[n - 1] /\ i # 0 /\ g[i] = new
        BY <3>1, <2>1, <2>5, <1>6
      <4>2. QED
        BY <4>1, <3>1 DEF new
    <3>2. CASE i # n
      <4>1. i \in 0..(n - 1)
        BY <3>2, <1>4
      <4>2. g[i] = h[i] /\ (i # 0 => g[i - 1] = h[i - 1])
        BY <4>1, <2>5, <1>4
      <4>3. h[i] = IF i = 0 THEN <<>>
                   ELSE IF src[i] = Blank THEN h[i - 1] ELSE Append(h[i - 1], src[i])
        BY <4>1, <2>2 DEF Unblanked
      <4>4. QED
        BY <4>2, <4>3
    <3>3. QED
      BY <3>1, <3>2
  <2>7. Unblanked(g, src, n)
    BY <2>5, <2>6 DEF Unblanked
  <2>8. QED
    BY <2>7, <1>4
<1>7. QED
  BY <1>5, <1>6

LEMMA DelChars ==
  ASSUME NEW src \in Seq(Char), NEW len \in Nat
  PROVE  Converted(del_chars(src), src, len)
<1> DEFINE step(f, i) == IF i = 0 THEN <<>>
                         ELSE IF src[i] = Blank THEN f[i - 1] ELSE Append(f[i - 1], src[i])
           kept == CHOOSE f : f = [i \in 0..Len(src) |-> step(f, i)]
<1>1. del_chars(src) = Result(TRUE, kept[Len(src)])
  BY DEF del_chars
<1>2. Len(src) \in Nat /\ Len(src) \in 0..Len(src) /\ \A i \in 1..Len(src) : src[i] \in Char
  BY ElementOfSeq
<1>3. PICK g : Unblanked(g, src, Len(src))
  BY <1>2, UnblankedExists
<1>4. g = [i \in 0..Len(src) |-> step(g, i)]
  BY <1>3 DEF Unblanked
<1>5. kept = [i \in 0..Len(src) |-> step(kept, i)]
  BY <1>4
<1> HIDE DEF kept
<1>6. \A i \in 0..Len(src) : kept[i] = step(kept, i)
  BY <1>5
<1> DEFINE Bad == {i \in 0..Len(src) : kept[i] \notin Seq(Char)}
<1>7. Bad = {}
  <2> SUFFICES ASSUME Bad # {} PROVE FALSE
    OBVIOUS
  <2>1. Bad \in SUBSET Nat
    BY <1>2
  <2>2. PICK i \in Bad : \A j \in Bad : i <= j
    BY <2>1, LeastOfNaturals
  <2>3. i \in 0..Len(src) /\ i \in Nat /\ kept[i] \notin Seq(Char)
    BY <1>2, <2>2
  <2>4. i # 0
    <3>1. CASE i = 0
      BY <3>1, <2>3, <1>6, EmptySeq
    <3>2. QED
      BY <3>1
  <2>5. i - 1 \in 0..Len(src) /\ ~(i <= i - 1) /\ i \in 1..Len(src)
    BY <2>3, <2>4, <1>2
  <2>6. kept[i - 1] \in Seq(Char)
    BY <2>2, <2>5
  <2>7. kept[i] = IF src[i] = Blank THEN kept[i - 1] ELSE Append(kept[i - 1], src[i])
    BY <1>6, <2>3, <2>4
  <2>8. Append(kept[i - 1], src[i]) \in Seq(Char)
    BY <2>5, <2>6, <1>2, AppendProperties
  <2>9. QED
    BY <2>3, <2>6, <2>7, <2>8
<1>8. kept[Len(src)] \in Seq(Char)
  BY <1>2, <1>7
<1>9. QED
  BY <1>1, <1>8 DEF Result, Converted

\* A converter that fails leaves the value, or refuses one that is too long
\* with nothing in the buffer; padding gives the field its length.
LEMMA Conversions ==
  ASSUME NEW code \in Nat, NEW src \in Seq(Char), NEW len \in Nat
  PROVE  LET r == do_convert_local(code, src, len)
         IN  /\ Converted(r, src, len)
             /\ code \in FILL_SPACE..FILL_ZERO_LEFT => Len(r.dst) \in {0, len}
             /\ code = FIT_LEFT => Len(r.dst) <= len
<1> DEFINE r == do_convert_local(code, src, len)
<1> DEFINE ofLength == code \in CHECK_LENGTH \cup {CHECK_FIELD_LENGTH}
           ofChars  == code \in {CHECK_NUMERIC_ONLY, CHECK_ALPHA_ONLY}
           fills    == code \in FILL_SPACE..FILL_ZERO_LEFT
           deletes  == code = DEL_SPACE
           changes  == code = CHG_PLUS_TO_SPACE
           adds     == code \in ADD_HAN_WON..ADD_CHAR_PERCENT
           dates    == code \in {INS_SLASH_TO_DATE, INS_HYPHEN_TO_DATE}
           uppers   == code = TO_UPPER
           lowers   == code = TO_LOWER
           numbers  == code = TO_NUMBER
           fits     == code = FIT_LEFT
<1>1. r = CASE ofLength -> check_length(code, src, len)
            [] ofChars  -> check_chars(code, src)
            [] fills    -> fill_chars(code, src, len)
            [] deletes  -> del_chars(src)
            [] changes  -> change_chars(src)
            [] adds     -> add_string(code, src)
            [] dates    -> ins_chars_to_date(code, src, len)
            [] uppers   -> to_upper(src)
            [] lowers   -> to_lower(src)
            [] numbers  -> to_number(src)
            [] fits     -> fit_chars(src, len)
            [] OTHER    -> Result(FALSE, src)
  BY DEF do_convert_local
<1>2. /\ ofLength => ~(ofChars \/ fills \/ deletes \/ changes \/ adds
                        \/ dates \/ uppers \/ lowers \/ numbers \/ fits)
      /\ ofChars => ~(fills \/ deletes \/ changes \/ adds \/ dates
                       \/ uppers \/ lowers \/ numbers \/ fits)
      /\ fills => ~(deletes \/ changes \/ adds \/ dates \/ uppers
                     \/ lowers \/ numbers \/ fits)
      /\ deletes => ~(changes \/ adds \/ dates \/ uppers \/ lowers
                       \/ numbers \/ fits)
      /\ changes => ~(adds \/ dates \/ uppers \/ lowers \/ numbers \/ fits)
      /\ adds => ~(dates \/ uppers \/ lowers \/ numbers \/ fits)
      /\ dates => ~(uppers \/ lowers \/ numbers \/ fits)
      /\ uppers => ~(lowers \/ numbers \/ fits)
      /\ lowers => ~(numbers \/ fits)
      /\ numbers => ~fits
  BY DEF CHECK_LENGTH, CHECK_FIELD_LENGTH, CHECK_NUMERIC_ONLY, CHECK_ALPHA_ONLY,
           FILL_SPACE, FILL_ZERO_LEFT, DEL_SPACE, CHG_PLUS_TO_SPACE, ADD_HAN_WON,
           ADD_CHAR_PERCENT, INS_SLASH_TO_DATE, INS_HYPHEN_TO_DATE, TO_UPPER,
           TO_LOWER, TO_NUMBER, FIT_LEFT
<1>3. /\ fills => code \in 200..203
      /\ adds => code \in 500..503
  BY DEF FILL_SPACE, FILL_ZERO_LEFT, ADD_HAN_WON, ADD_CHAR_PERCENT
<1> HIDE DEF ofLength, ofChars, fills, deletes, changes, adds, dates, uppers,
             lowers, numbers, fits, r
<1>4. CASE ofLength
  <2>1. r = check_length(code, src, len)
    BY <1>1, <1>2, <1>4
  <2>2. QED
    BY <2>1, <1>4, <1>2, CheckLength DEF fills, fits, r
<1>5. CASE ofChars
  <2>1. r = check_chars(code, src)
    BY <1>1, <1>2, <1>5
  <2>2. QED
    BY <2>1, <1>5, <1>2, CheckChars DEF fills, fits, r
<1>6. CASE fills
  <2>1. r = fill_chars(code, src, len)
    BY <1>1, <1>2, <1>6
  <2>2. QED
    BY <2>1, <1>6, <1>2, <1>3, FillChars DEF fills, fits, r
<1>7. CASE deletes
  <2>1. r = del_chars(src)
    BY <1>1, <1>2, <1>7
  <2>2. QED
    BY <2>1, <1>7, <1>2, DelChars DEF fills, fits, r
<1>8. CASE changes
  <2>1. r = change_chars(src)
    BY <1>1, <1>2, <1>8
  <2>2. QED
    BY <2>1, <1>8, <1>2, ChangeChars DEF fills, fits, r
<1>9. CASE adds
  <2>1. r = add_string(code, src)
    BY <1>1, <1>2, <1>9
  <2>2. QED
    BY <2>1, <1>9, <1>2, <1>3, AddString DEF fills, fits, r
<1>10. CASE dates
  <2>1. r = ins_chars_to_date(code, src, len)
    BY <1>1, <1>2, <1>10
  <2>2. QED
    BY <2>1, <1>10, <1>2, DateChars DEF fills, fits, r
<1>11. CASE uppers
  <2>1. r = to_upper(src)
    BY <1>1, <1>2, <1>11
  <2>2. QED
    BY <2>1, <1>11, <1>2, UpperAndLower DEF fills, fits, r
<1>12. CASE lowers
  <2>1. r = to_lower(src)
    BY <1>1, <1>2, <1>12
  <2>2. QED
    BY <2>1, <1>12, <1>2, UpperAndLower DEF fills, fits, r
<1>13. CASE numbers
  <2>1. r = to_number(src)
    BY <1>1, <1>2, <1>13
  <2>2. QED
    BY <2>1, <1>13, <1>2, ToNumber DEF fills, fits, r
<1>14. CASE fits
  <2>1. r = fit_chars(src, len)
    BY <1>1, <1>2, <1>14
  <2>2. QED
    BY <2>1, <1>14, <1>2, FitChars DEF fills, fits, r
<1>15. CASE ~(ofLength \/ ofChars \/ fills \/ deletes \/ changes \/ adds
            \/ dates \/ uppers \/ lowers \/ numbers \/ fits)
  <2>1. r = Result(FALSE, src)
    BY <1>1, <1>15
  <2>2. QED
    BY <2>1, <1>15 DEF fills, fits, r, Result, Converted
<1>16. QED
  BY <1>4, <1>5, <1>6, <1>7, <1>8, <1>9, <1>10, <1>11, <1>12, <1>13, <1>14, <1>15

-----------------------------------------------------------------------------
(* The loop over the codes *)

\* What the last converter run leaves in the buffer.
Fits(d) ==
    \A j \in 1..(k - 1) : LastRun(j) =>
        /\ Codes[j] \in FILL_SPACE..FILL_ZERO_LEFT => Len(d) \in {0, field.len}
        /\ Codes[j] = FIT_LEFT => Len(d) <= field.len

\* While the codes are run the buffer holds the value, unless a converter has
\* just refused one that is too long; k is 1 as long as none was run.
ConvInv ==
    /\ field \in Fields
    /\ value \in Seq(Char) /\ dst \in Seq(Char)
    /\ k \in Nat \ {0}
    /\ convPc = "fill" => k = 1
    /\ convPc = "convert" => \/ dst = value
                             \/ dst = <<>> /\ Len(value) > field.len
    /\ convPc = "done" => k = 1 \/ value = dst
    /\ Fits(dst)

LEMMA CodesAreNumbers ==
  ASSUME field \in Fields
  PROVE  /\ Len(Codes) \in Nat
         /\ \A i \in 1..Len(Codes) : Codes[i] \in Nat
<1>1. field.conv \in Seq(Nat)
  BY FieldConversionAssumption
<1>2. Len(field.conv) \in Nat
  BY <1>1
<1>3. /\ Shorter(MAX_MULTI_CONVERSION, Len(field.conv)) \in Nat
      /\ Shorter(MAX_MULTI_CONVERSION, Len(field.conv)) <= Len(field.conv)
  BY <1>2 DEF Shorter, MAX_MULTI_CONVERSION
<1>4. Codes \in Seq(Nat)
  BY <1>1, <1>3, Beginning DEF Codes, parse_codeseq_local
<1>5. QED
  BY <1>4, ElementOfSeq

LEMMA ConvStarts == ConvInit => ConvInv
<1> SUFFICES ASSUME ConvInit PROVE ConvInv
  OBVIOUS
<1>1. field.deflt \in Seq(Char)
  BY FieldConversionAssumption DEF ConvInit
<1>2. QED
  BY <1>1, EmptySeq DEF ConvInit, ConvInv, Fits

LEMMA ConvStep == ConvInv /\ [ConvNext]_convVars => ConvInv'
<1> SUFFICES ASSUME ConvInv, [ConvNext]_convVars PROVE ConvInv'
  OBVIOUS
<1>1. /\ field \in Fields /\ value \in Seq(Char) /\ dst \in Seq(Char) /\ k \in Nat \ {0}
      /\ field.len \in Nat
      /\ Fits(dst)
  BY FieldConversionAssumption DEF ConvInv
<1>2. Len(Codes) \in Nat /\ \A i \in 1..Len(Codes) : Codes[i] \in Nat
  BY <1>1, CodesAreNumbers
<1>3. CASE Fill
  <2>1. /\ convPc = "fill" /\ k = 1 /\ k' = k /\ field' = field
        /\ value' \in Given \cup {value} /\ dst' = value'
        /\ convPc' # "fill"
    BY <1>3 DEF Fill, ConvInv
  <2>2. value' \in Seq(Char)
    BY <1>1, <2>1, FieldConversionAssumption
  <2>3. Fits(dst)'
    BY <2>1 DEF Fits
  <2>4. QED
    BY <1>1, <2>1, <2>2, <2>3 DEF ConvInv
<1>4. CASE Skip
  <2>1. /\ convPc = "convert" /\ k' = k + 1 /\ Codes[k] \in Skipped
        /\ field' = field /\ value' = value /\ dst' = dst /\ convPc' = convPc
    BY <1>4 DEF Skip
  <2>2. Codes' = Codes
    BY <2>1 DEF Codes
  <2>3. Fits(dst)'
    <3>1. ASSUME NEW j \in 1..(k' - 1), LastRun(j)'
          PROVE  /\ Codes[j] \in FILL_SPACE..FILL_ZERO_LEFT => Len(dst) \in {0, field.len}
                 /\ Codes[j] = FIT_LEFT => Len(dst) <= field.len
      <4>1. /\ j \in 1..k /\ Codes[j] \notin Skipped
            /\ \A i \in (j + 1)..k : Codes[i] \in Skipped
        BY <3>1, <2>1, <2>2, <1>1 DEF LastRun, Skipped
      <4>2. j # k
        BY <4>1, <2>1
      <4>3. j \in 1..(k - 1) /\ \A i \in (j + 1)..(k - 1) : i \in (j + 1)..k
        BY <4>1, <4>2, <1>1
      <4>4. LastRun(j)
        BY <4>1, <4>3 DEF LastRun
      <4>5. QED
        BY <4>3, <4>4, <1>1 DEF Fits
    <3>2. QED
      BY <3>1, <2>1, <2>2 DEF Fits
  <2>4. QED
    BY <1>1, <2>1, <2>3 DEF ConvInv
<1>5. CASE Convert
  <2> DEFINE r == do_convert_local(Codes[k], value, field.len)
  <2>1. /\ convPc = "convert" /\ k <= Len(Codes) /\ Codes[k] \notin Skipped
        /\ dst' = r.dst /\ value' = (IF r.ok THEN r.dst ELSE value)
        /\ k' = k + 1 /\ field' = field /\ convPc' = convPc
    BY <1>5 DEF Convert
  <2>2. Codes' = Codes
    BY <2>1 DEF Codes
  <2>3. k \in 1..Len(Codes) /\ Codes[k] \in Nat
    BY <1>1, <1>2, <2>1
  <2>4. /\ Converted(r, value, field.len)
        /\ Codes[k] \in FILL_SPACE..FILL_ZERO_LEFT => Len(r.dst) \in {0, field.len}
        /\ Codes[k] = FIT_LEFT => Len(r.dst) <= field.len
    BY <1>1, <2>3, Conversions
  <2> HIDE DEF r
  <2>5. /\ value' \in Seq(Char) /\ dst' \in Seq(Char)
        /\ \/ dst' = value'
           \/ dst' = <<>> /\ Len(value') > field.len
    BY <1>1, <2>1, <2>4 DEF Converted
  <2>6. Fits(dst)'
    <3>1. ASSUME NEW j \in 1..(k' - 1), LastRun(j)'
          PROVE  /\ Codes[j] \in FILL_SPACE..FILL_ZERO_LEFT => Len(dst') \in {0, field.len}
                 /\ Codes[j] = FIT_LEFT => Len(dst') <= field.len
      <4>1. /\ j \in 1..k
            /\ \A i \in (j + 1)..k : Codes[i] \in Skipped
        BY <3>1, <2>1, <2>2, <1>1 DEF LastRun, Skipped
      <4>2. j = k
        <5>1. CASE j # k
          <6>1. k \in (j + 1)..k
            BY <5>1, <4>1, <1>1
          <6>2. QED
            BY <6>1, <4>1, <2>1
        <5>2. QED
          BY <5>1
      <4>3. QED
        BY <4>2, <2>1, <2>4
    <3>2. QED
      BY <3>1, <2>1, <2>2 DEF Fits
  <2>7. QED
    BY <1>1, <2>1, <2>5, <2>6 DEF ConvInv
<1>6. CASE Finish
  <2>1. /\ value' = dst /\ convPc' = "done"
        /\ field' = field /\ dst' = dst /\ k' = k
    BY <1>6 DEF Finish
  <2>2. Codes' = Codes
    BY <2>1 DEF Codes
  <2>3. Fits(dst)'
    BY <1>1, <2>1, <2>2 DEF Fits, LastRun, Skipped
  <2>4. QED
    BY <1>1, <2>1, <2>3 DEF ConvInv
<1>7. CASE UNCHANGED convVars
  <2>1. /\ value' = value /\ convPc' = convPc
        /\ field' = field /\ dst' = dst /\ k' = k
    BY <1>7 DEF convVars
  <2>2. Codes' = Codes
    BY <2>1 DEF Codes
  <2>3. Fits(dst)'
    BY <1>1, <2>1, <2>2 DEF Fits, LastRun, Skipped
  <2>4. QED
    BY <1>1, <2>1, <2>3 DEF ConvInv
<1>8. QED
  BY <1>3, <1>4, <1>5, <1>6, <1>7 DEF ConvNext

LEMMA ConvInvariant == ConvSpec => []ConvInv
<1>1. QED
  BY ConvStarts, ConvStep, PTL DEF ConvSpec

(***************************************************************************)
(* A conversion that fails leaves the value of the field as it was, except *)
(* that padding erases a value that is too long (check_length_local() to   *)
(* fit_chars_local() and the last assignment of                            *)
(* format_conversion_local()).                                             *)
(***************************************************************************)
THEOREM FailuresErase == ConvSpec => FailureErasesOnlyOverlong
<1>1. ASSUME ConvInv, ConvNext, convPc = "convert", convPc' = "done"
      PROVE  value' = value \/ (value' = <<>> /\ Len(value) > field.len)
  <2>1. value' = dst
    BY <1>1 DEF ConvNext, Fill, Skip, Convert, Finish
  <2>2. QED
    BY <1>1, <2>1 DEF ConvInv
<1>2. ConvInv /\ [ConvNext]_convVars =>
         [convPc = "convert" /\ convPc' = "done" =>
             \/ value' = value
             \/ value' = <<>> /\ Len(value) > field.len]_convVars
  BY <1>1
<1>3. QED
  BY <1>2, ConvInvariant, PTL DEF ConvSpec, FailureErasesOnlyOverlong

(***************************************************************************)
(* Whatever codes a field has, one whose last conversion was a padding has *)
(* its length or nothing, and one whose last conversion was FIT_LEFT fits. *)
(***************************************************************************)
THEOREM FilledFieldsFit == ConvSpec => []FilledFieldHasItsLength
<1>1. ConvInv => FilledFieldHasItsLength
  BY DEF ConvInv, FilledFieldHasItsLength, Fits
<1>2. QED
  BY <1>1, ConvInvariant, PTL

-----------------------------------------------------------------------------
(* MyAgent and its carrier: the shape of the state *)

Frame == Seq(Msg) \ {<<>>}

MyType ==
    /\ request \in Seq(Msg)
    /\ pc \in [Sender -> {"connect", "recover", "read", "backup", "commit", "send",
                          "ack", "delete", "ended"}]
    /\ hand \in [Sender -> Msg \cup {NoMsg}]
    /\ conn \in [Sender -> BOOLEAN]
    /\ toSim \in [Sender -> Seq(Frame)] /\ toAgent \in [Sender -> Seq(Msg)]
    /\ file \in [Sender -> Seq(Msg)]
    /\ received \in [Msg -> Nat]
    /\ breaks \in Nat /\ crashes \in Nat

\* A connection that is gone carries nothing; a thread between its read and
\* its commit has the XA and works on the head of the queue.
ThreadShape(s) ==
    /\ ~conn[s] => toSim[s] = <<>> /\ toAgent[s] = <<>>
    /\ pc[s] = "connect" => ~conn[s]
    /\ pc[s] = "recover" => file[s] # <<>>
    /\ pc[s] \in {"backup", "commit"} =>
          xa = {s} /\ request # <<>> /\ hand[s] = Head(request)
    /\ pc[s] \in {"send", "ack", "delete"} => hand[s] \in Msg

AgentShape ==
    /\ MyType
    /\ \A s \in Sender : ThreadShape(s)

\* Before a file is sent again it holds the message in work, or nothing; the
\* ACK that comes is the ACK of that message.
ThreadKeeps(s) ==
    /\ pc[s] \in {"read", "backup"} => file[s] = <<>>
    /\ pc[s] \in {"read", "backup", "commit", "send", "delete"} =>
          toSim[s] = <<>> /\ toAgent[s] = <<>>
    /\ pc[s] \in {"commit", "send", "ack", "delete"} => ToSet(file[s]) \subseteq {hand[s]}
    /\ pc[s] = "commit" => hand[s] \in ToSet(file[s]) \/ hand[s] \in unsaved
    /\ pc[s] = "ack" =>
          \/ ~conn[s]
          \/ toSim[s] = << <<hand[s]>> >> /\ toAgent[s] = <<>>
          \/ toSim[s] = <<>> /\ toAgent[s] = <<hand[s]>> /\ received[hand[s]] > 0
    /\ pc[s] = "delete" => kind[hand[s]] # "valid" \/ received[hand[s]] > 0

Kept ==
    ~recovered => /\ NothingLostBeforeRecovery
                  /\ \A s \in Sender : ThreadKeeps(s)

(* Faults pay for repeats *)

\* The frames under way that begin with m, and the threads about to send it.
InFlight(m) ==
    {p \in Sender \X Nat : p[2] \in 1..Len(toSim[p[1]]) /\ Head(toSim[p[1]][p[2]]) = m}
Sends(m) == {s \in Sender : pc[s] = "send" /\ hand[s] = m}
Waits(m) == IF m \in ToSet(request) THEN 1 ELSE 0

\* The threads that may have a file to send again.
Owing ==
    {s \in Sender : \/ pc[s] = "recover"
                    \/ /\ ~conn[s] /\ pc[s] # "ended"
                       /\ pc[s] = "connect" => file[s] # <<>>}

Paid(m) ==
    received[m] + Cardinality(InFlight(m)) + Waits(m) + Cardinality(Sends(m))
        + Cardinality(Owing) <= 1 + breaks + Cardinality(Sender) * crashes

RepeatInv ==
    /\ NoRepeats(request)
    /\ \A m \in Msg : IsFiniteSet(InFlight(m)) /\ Paid(m)

\* A step of the carrier, of the result connection or of nobody.
Elsewhere ==
    /\ UNCHANGED <<request, xa, pc, hand, file, unsaved, recovered, wireVars, received, crashes, kind>>
    /\ breaks' \in {breaks, breaks + 1}

LEMMA StepsElsewhere ==
  ASSUME Carrier \/ BreakResult \/ Restart \/ UNCHANGED myVars, breaks \in Nat
  PROVE  Elsewhere
<1>1. ASSUME Carrier PROVE Elsewhere
  BY <1>1 DEF Carrier, SimSendsResult, SimCommits, SimThrowsAway, SimStops, SimRefused,
              ConfirmResult, ConnectResult, agentVars, faultVars, Elsewhere
<1>2. ASSUME BreakResult PROVE Elsewhere
  BY <1>2 DEF BreakResult, agentVars, Elsewhere
<1>3. ASSUME Restart PROVE Elsewhere
  BY <1>3 DEF Restart, simVars, faultVars, Elsewhere
<1>4. ASSUME UNCHANGED myVars PROVE Elsewhere
  BY <1>4 DEF myVars, agentVars, simVars, faultVars, Elsewhere
<1>5. QED
  BY <1>1, <1>2, <1>3, <1>4

LEMMA MyStarts == MyInit => AgentShape
<1> SUFFICES ASSUME MyInit PROVE AgentShape
  OBVIOUS
<1>1. NumMsgs \in Nat
  BY MyAgentAssumption
<1>2. [i \in Msg |-> i] \in Seq(Msg)
  BY <1>1 DEF Msg
<1>3. MyType
  BY <1>1, <1>2, EmptySeq DEF MyInit, MyType
<1>4. QED
  BY <1>3 DEF MyInit, AgentShape, ThreadShape

\* What the carrier takes it has received.
LEMMA TakenCounts ==
  ASSUME received \in [Msg -> Nat], NEW fs, Len(fs) \in Nat, Taken(fs)
  PROVE  /\ received' \in [Msg -> Nat]
         /\ \A m \in Msg :
               LET c == Cardinality({i \in 1..Len(fs) : Head(fs[i]) = m})
               IN  c \in Nat /\ received'[m] = received[m] + c
<1>1. \A m \in Msg : Cardinality({i \in 1..Len(fs) : Head(fs[i]) = m}) \in Nat
  <2>1. IsFiniteSet(1..Len(fs))
    BY FS_Interval
  <2>2. QED
    BY <2>1, FS_Subset, FS_CardinalityType
<1>2. received' = [m \in Msg |-> received[m] + Cardinality({i \in 1..Len(fs) : Head(fs[i]) = m})]
  BY DEF Taken
<1>3. QED
  BY <1>1, <1>2

\* The messages at the head of the first n frames of a connection.
Arrived(s, n, m) == {i \in 1..n : Head(toSim[s][i]) = m}

LEMMA DroppedCounts ==
  ASSUME MyType, NEW s \in Sender, Dropped(s)
  PROVE  /\ received' \in [Msg -> Nat]
         /\ \E n \in 0..Len(toSim[s]) : \A m \in Msg :
               /\ Cardinality(Arrived(s, n, m)) \in Nat
               /\ received'[m] = received[m] + Cardinality(Arrived(s, n, m))
<1>1. toSim[s] \in Seq(Frame) /\ Len(toSim[s]) \in Nat /\ received \in [Msg -> Nat]
  BY DEF MyType
<1>2. PICK n \in 0..Len(toSim[s]) : Taken(SubSeq(toSim[s], 1, n))
  BY DEF Dropped
<1>3. n \in Nat /\ n <= Len(toSim[s])
  BY <1>1
<1> DEFINE fs == SubSeq(toSim[s], 1, n)
<1>4. Len(fs) = n
  BY <1>1, <1>3, Beginning
<1>5. \A i \in 1..n : fs[i] = toSim[s][i]
  BY <1>1, <1>3
<1>6. \A m \in Msg : {i \in 1..Len(fs) : Head(fs[i]) = m} = Arrived(s, n, m)
  BY <1>4, <1>5 DEF Arrived
<1> HIDE DEF fs
<1>7. Taken(fs) /\ Len(fs) \in Nat
  BY <1>2, <1>3, <1>4 DEF fs
<1>8. /\ received' \in [Msg -> Nat]
      /\ \A m \in Msg : /\ Cardinality({i \in 1..Len(fs) : Head(fs[i]) = m}) \in Nat
                        /\ received'[m] = received[m] + Cardinality({i \in 1..Len(fs) : Head(fs[i]) = m})
  BY <1>1, <1>7, TakenCounts
<1>9. \A m \in Msg : /\ Cardinality(Arrived(s, n, m)) \in Nat
                     /\ received'[m] = received[m] + Cardinality(Arrived(s, n, m))
  BY <1>6, <1>8
<1>10. QED
  BY <1>8, <1>9

\* What the carrier has still read when the process ends.
LEMMA FramesOf ==
  ASSUME NEW n \in [Sender -> 0..(NumMsgs + 1)]
  PROVE  LET frames == {p \in Sender \X (1..(NumMsgs + 1)) : p[2] <= n[p[1]]}
         IN  IsFiniteSet(frames) /\ Cardinality(frames) \in Nat
<1>1. NumMsgs \in Nat /\ IsFiniteSet(Sender)
  BY MyAgentAssumption
<1>2. IsFiniteSet(1..(NumMsgs + 1))
  BY <1>1, FS_Interval
<1>3. IsFiniteSet(Sender \X (1..(NumMsgs + 1)))
  BY <1>1, <1>2, FS_Product
<1>4. QED
  BY <1>3, FS_Subset, FS_CardinalityType

LEMMA CrashCounts ==
  ASSUME MyType, Crash
  PROVE  /\ received' \in [Msg -> Nat]
         /\ \E n \in [Sender -> 0..(NumMsgs + 1)] : \E fs \in Arrivals(n) :
               /\ \A s \in Sender : n[s] <= Len(toSim[s])
               /\ Len(fs) \in Nat
               /\ \A m \in Msg :
                     LET c == Cardinality({i \in 1..Len(fs) : Head(fs[i]) = m})
                     IN  c \in Nat /\ received'[m] = received[m] + c
<1>1. PICK n \in [Sender -> 0..(NumMsgs + 1)] :
         /\ \A s \in Sender : n[s] <= Len(toSim[s])
         /\ \E fs \in Arrivals(n) : Taken(fs)
  BY DEF Crash
<1>2. PICK fs \in Arrivals(n) : Taken(fs)
  BY <1>1
<1> DEFINE frames == {p \in Sender \X (1..(NumMsgs + 1)) : p[2] <= n[p[1]]}
           N == Cardinality(frames)
<1>3. N \in Nat
  BY FramesOf
<1>4. PICK f \in [1..N -> frames] : fs = [i \in 1..N |-> toSim[f[i][1]][f[i][2]]]
  BY DEF Arrivals
<1> HIDE DEF frames, N
<1>5. Len(fs) = N
  BY <1>3, <1>4
<1>6. received \in [Msg -> Nat]
  BY DEF MyType
<1>7. /\ received' \in [Msg -> Nat]
      /\ \A m \in Msg :
            LET c == Cardinality({i \in 1..Len(fs) : Head(fs[i]) = m})
            IN  c \in Nat /\ received'[m] = received[m] + c
  BY <1>2, <1>3, <1>5, <1>6, TakenCounts
<1>8. QED
  BY <1>1, <1>3, <1>5, <1>7

\* A thread whose own variables stay keeps its shape when the XA and the
\* request queue stay too, or are not its own.
LEMMA OthersStay ==
  ASSUME NEW t \in Sender, ThreadShape(t), pc'[t] = pc[t], hand'[t] = hand[t],
         conn'[t] = conn[t], toSim'[t] = toSim[t], toAgent'[t] = toAgent[t],
         file'[t] = file[t],
         pc[t] \in {"backup", "commit"} => xa' = xa /\ request' = request
  PROVE  ThreadShape(t)'
BY DEF ThreadShape

LEMMA ShapeOfThread ==
  ASSUME MyType, NEW s \in Sender
  PROVE  /\ request \in Seq(Msg) /\ (request # <<>> => Head(request) \in Msg /\ Tail(request) \in Seq(Msg))
         /\ pc[s] \in {"connect", "recover", "read", "backup", "commit", "send",
                       "ack", "delete", "ended"}
         /\ hand[s] \in Msg \cup {NoMsg} /\ conn[s] \in BOOLEAN
         /\ toSim[s] \in Seq(Frame) /\ toAgent[s] \in Seq(Msg) /\ file[s] \in Seq(Msg)
         /\ received \in [Msg -> Nat] /\ breaks \in Nat /\ crashes \in Nat
<1>1. request \in Seq(Msg)
  BY DEF MyType
<1>2. request # <<>> => Head(request) \in Msg /\ Tail(request) \in Seq(Msg)
  BY <1>1, HeadTailProperties
<1>3. QED
  BY <1>1, <1>2 DEF MyType

LEMMA ThreadsKeepShape ==
  ASSUME AgentShape, NEW s \in Sender,
         processMessageThread(s) \/ BackupFails(s) \/ CommitFails(s)
  PROVE  AgentShape'
<1>1. MyType /\ \A t \in Sender : ThreadShape(t)
  BY DEF AgentShape
<1>2. /\ request \in Seq(Msg) /\ (request # <<>> => Head(request) \in Msg /\ Tail(request) \in Seq(Msg))
      /\ pc[s] \in {"connect", "recover", "read", "backup", "commit", "send",
                    "ack", "delete", "ended"}
      /\ hand[s] \in Msg \cup {NoMsg} /\ conn[s] \in BOOLEAN
      /\ toSim[s] \in Seq(Frame) /\ toAgent[s] \in Seq(Msg) /\ file[s] \in Seq(Msg)
  BY <1>1, ShapeOfThread
<1>3. CASE Connect(s)
  <2>1. /\ pc[s] = "connect"
        /\ conn' = [conn EXCEPT ![s] = TRUE]
        /\ pc' = [pc EXCEPT ![s] = IF file[s] = <<>> THEN "read" ELSE "recover"]
        /\ request' = request /\ xa' = xa /\ hand' = hand /\ toSim' = toSim
        /\ toAgent' = toAgent /\ file' = file /\ received' = received
        /\ breaks' = breaks /\ crashes' = crashes
    BY <1>3 DEF Connect, Goto, wireVars, simVars, faultVars
  <2>4. MyType'
    BY <1>1, <1>2, <2>1 DEF MyType
  <2>5. ASSUME NEW t \in Sender PROVE ThreadShape(t)'
    <3>1. CASE t = s
      <4>1. /\ pc'[s] = (IF file[s] = <<>> THEN "read" ELSE "recover")
            /\ conn'[s] = TRUE
        BY <1>1, <2>1 DEF MyType
      <4>2. ThreadShape(s)
        BY <1>1
      <4>3. QED
        BY <3>1, <1>2, <2>1, <4>1, <4>2 DEF ThreadShape
    <3>2. CASE t # s
      <4>1. /\ pc'[t] = pc[t] /\ hand'[t] = hand[t] /\ conn'[t] = conn[t]
            /\ toSim'[t] = toSim[t] /\ toAgent'[t] = toAgent[t] /\ file'[t] = file[t]
        BY <3>2, <1>1, <2>1 DEF MyType
      <4>2. xa' = xa /\ request' = request
        BY <2>1
      <4>3. QED
        BY <1>1, <4>1, <4>2, OthersStay
    <3>3. QED
      BY <3>1, <3>2
  <2>6. QED
    BY <2>4, <2>5 DEF AgentShape
<1>4. CASE RecoveryMessage(s)
  <2>1. /\ pc[s] = "recover" /\ conn[s]
        /\ toSim' = [toSim EXCEPT ![s] = Append(toSim[s], file[s])]
        /\ pc' = [pc EXCEPT ![s] = "read"]
        /\ request' = request /\ xa' = xa /\ hand' = hand /\ conn' = conn
        /\ toAgent' = toAgent /\ file' = file /\ received' = received
        /\ breaks' = breaks /\ crashes' = crashes
    BY <1>4 DEF RecoveryMessage, Goto, wireVars, simVars, faultVars
  <2>2. file[s] \in Frame
    BY <1>1, <1>2, <2>1 DEF ThreadShape, Frame
  <2>3. Append(toSim[s], file[s]) \in Seq(Frame)
    BY <1>2, <2>2, AppendProperties
  <2>4. MyType'
    BY <1>1, <1>2, <2>1, <2>2, <2>3 DEF MyType
  <2>5. ASSUME NEW t \in Sender PROVE ThreadShape(t)'
    <3>1. CASE t = s
      <4>1. /\ pc'[s] = "read"
            /\ toSim'[s] = Append(toSim[s], file[s])
        BY <1>1, <2>1 DEF MyType
      <4>2. ThreadShape(s)
        BY <1>1
      <4>3. QED
        BY <3>1, <1>2, <2>1, <2>2, <2>3, <4>1, <4>2 DEF ThreadShape
    <3>2. CASE t # s
      <4>1. /\ pc'[t] = pc[t] /\ hand'[t] = hand[t] /\ conn'[t] = conn[t]
            /\ toSim'[t] = toSim[t] /\ toAgent'[t] = toAgent[t] /\ file'[t] = file[t]
        BY <3>2, <1>1, <2>1 DEF MyType
      <4>2. xa' = xa /\ request' = request
        BY <2>1
      <4>3. QED
        BY <1>1, <4>1, <4>2, OthersStay
    <3>3. QED
      BY <3>1, <3>2
  <2>6. QED
    BY <2>4, <2>5 DEF AgentShape
<1>5. CASE RecoveryFails(s)
  <2>1. /\ pc[s] = "recover"
        /\ pc' = [pc EXCEPT ![s] = "ended"]
        /\ request' = request /\ xa' = xa /\ hand' = hand /\ conn' = conn
        /\ toSim' = toSim /\ toAgent' = toAgent /\ file' = file
        /\ received' = received /\ breaks' = breaks /\ crashes' = crashes
    BY <1>5 DEF RecoveryFails, Goto, wireVars, simVars, faultVars
  <2>4. MyType'
    BY <1>1, <1>2, <2>1 DEF MyType
  <2>5. ASSUME NEW t \in Sender PROVE ThreadShape(t)'
    <3>1. CASE t = s
      <4>1. /\ pc'[s] = "ended"
        BY <1>1, <2>1 DEF MyType
      <4>2. ThreadShape(s)
        BY <1>1
      <4>3. QED
        BY <3>1, <1>2, <2>1, <4>1, <4>2 DEF ThreadShape
    <3>2. CASE t # s
      <4>1. /\ pc'[t] = pc[t] /\ hand'[t] = hand[t] /\ conn'[t] = conn[t]
            /\ toSim'[t] = toSim[t] /\ toAgent'[t] = toAgent[t] /\ file'[t] = file[t]
        BY <3>2, <1>1, <2>1 DEF MyType
      <4>2. xa' = xa /\ request' = request
        BY <2>1
      <4>3. QED
        BY <1>1, <4>1, <4>2, OthersStay
    <3>3. QED
      BY <3>1, <3>2
  <2>6. QED
    BY <2>4, <2>5 DEF AgentShape
<1>6. CASE readXA(s)
  <2>1. /\ pc[s] = "read" /\ xa \subseteq {s} /\ request # <<>>
        /\ xa' = {s}
        /\ hand' = [hand EXCEPT ![s] = Head(request)]
        /\ pc' = [pc EXCEPT ![s] = "backup"]
        /\ request' = request /\ conn' = conn /\ toSim' = toSim
        /\ toAgent' = toAgent /\ file' = file /\ received' = received
        /\ breaks' = breaks /\ crashes' = crashes
    BY <1>6 DEF readXA, Goto, wireVars, simVars, faultVars
  <2>4. MyType'
    BY <1>1, <1>2, <2>1 DEF MyType
  <2>5. ASSUME NEW t \in Sender PROVE ThreadShape(t)'
    <3>1. CASE t = s
      <4>1. /\ pc'[s] = "backup"
            /\ hand'[s] = Head(request)
        BY <1>1, <2>1 DEF MyType
      <4>2. ThreadShape(s)
        BY <1>1
      <4>3. QED
        BY <3>1, <1>2, <2>1, <4>1, <4>2 DEF ThreadShape
    <3>2. CASE t # s
      <4>1. /\ pc'[t] = pc[t] /\ hand'[t] = hand[t] /\ conn'[t] = conn[t]
            /\ toSim'[t] = toSim[t] /\ toAgent'[t] = toAgent[t] /\ file'[t] = file[t]
        BY <3>2, <1>1, <2>1 DEF MyType
      <4>2. pc[t] \notin {"backup", "commit"}
        BY <3>2, <1>1, <2>1 DEF ThreadShape
      <4>3. QED
        BY <1>1, <4>1, <4>2, OthersStay
    <3>3. QED
      BY <3>1, <3>2
  <2>6. QED
    BY <2>4, <2>5 DEF AgentShape
<1>7. CASE writeMessageToFile(s)
  <2>1. /\ pc[s] = "backup"
        /\ file' = [file EXCEPT ![s] = Append(file[s], hand[s])]
        /\ pc' = [pc EXCEPT ![s] = "commit"]
        /\ request' = request /\ xa' = xa /\ hand' = hand /\ conn' = conn
        /\ toSim' = toSim /\ toAgent' = toAgent /\ received' = received
        /\ breaks' = breaks /\ crashes' = crashes
    BY <1>7 DEF writeMessageToFile, Goto, wireVars, simVars, faultVars
  <2>2. hand[s] \in Msg
    BY <1>1, <1>2, <2>1 DEF ThreadShape
  <2>3. Append(file[s], hand[s]) \in Seq(Msg)
    BY <1>2, <2>2, AppendProperties
  <2>4. MyType'
    BY <1>1, <1>2, <2>1, <2>2, <2>3 DEF MyType
  <2>5. ASSUME NEW t \in Sender PROVE ThreadShape(t)'
    <3>1. CASE t = s
      <4>1. /\ pc'[s] = "commit"
            /\ file'[s] = Append(file[s], hand[s])
        BY <1>1, <2>1 DEF MyType
      <4>2. ThreadShape(s)
        BY <1>1
      <4>3. QED
        BY <3>1, <1>2, <2>1, <2>2, <2>3, <4>1, <4>2 DEF ThreadShape
    <3>2. CASE t # s
      <4>1. /\ pc'[t] = pc[t] /\ hand'[t] = hand[t] /\ conn'[t] = conn[t]
            /\ toSim'[t] = toSim[t] /\ toAgent'[t] = toAgent[t] /\ file'[t] = file[t]
        BY <3>2, <1>1, <2>1 DEF MyType
      <4>2. xa' = xa /\ request' = request
        BY <2>1
      <4>3. QED
        BY <1>1, <4>1, <4>2, OthersStay
    <3>3. QED
      BY <3>1, <3>2
  <2>6. QED
    BY <2>4, <2>5 DEF AgentShape
<1>8. CASE BackupFails(s)
  <2>1. /\ pc[s] = "backup"
        /\ breaks' = breaks + 1
        /\ pc' = [pc EXCEPT ![s] = "commit"]
        /\ request' = request /\ xa' = xa /\ hand' = hand /\ conn' = conn
        /\ toSim' = toSim /\ toAgent' = toAgent /\ file' = file
        /\ received' = received /\ crashes' = crashes
    BY <1>8 DEF BackupFails, Goto, wireVars, simVars, faultVars
  <2>2. hand[s] \in Msg
    BY <1>1, <1>2, <2>1 DEF ThreadShape
  <2>4. MyType'
    BY <1>1, <1>2, <2>1, <2>2 DEF MyType
  <2>5. ASSUME NEW t \in Sender PROVE ThreadShape(t)'
    <3>1. CASE t = s
      <4>1. /\ pc'[s] = "commit"
        BY <1>1, <2>1 DEF MyType
      <4>2. ThreadShape(s)
        BY <1>1
      <4>3. QED
        BY <3>1, <1>2, <2>1, <2>2, <4>1, <4>2 DEF ThreadShape
    <3>2. CASE t # s
      <4>1. /\ pc'[t] = pc[t] /\ hand'[t] = hand[t] /\ conn'[t] = conn[t]
            /\ toSim'[t] = toSim[t] /\ toAgent'[t] = toAgent[t] /\ file'[t] = file[t]
        BY <3>2, <1>1, <2>1 DEF MyType
      <4>2. xa' = xa /\ request' = request
        BY <2>1
      <4>3. QED
        BY <1>1, <4>1, <4>2, OthersStay
    <3>3. QED
      BY <3>1, <3>2
  <2>6. QED
    BY <2>4, <2>5 DEF AgentShape
<1>9. CASE commitXA(s)
  <2>1. /\ pc[s] = "commit"
        /\ request' = Tail(request)
        /\ xa' = {}
        /\ pc' = [pc EXCEPT ![s] = IF kind[hand[s]] = "valid" THEN "send" ELSE "delete"]
        /\ hand' = hand /\ conn' = conn /\ toSim' = toSim
        /\ toAgent' = toAgent /\ file' = file /\ received' = received
        /\ breaks' = breaks /\ crashes' = crashes
    BY <1>9 DEF commitXA, Goto, wireVars, simVars, faultVars, AfterCommit
  <2>2. request # <<>> /\ hand[s] \in Msg
    BY <1>1, <1>2, <2>1 DEF ThreadShape
  <2>3. Tail(request) \in Seq(Msg)
    BY <1>2, <2>2, HeadTailProperties
  <2>4. MyType'
    BY <1>1, <1>2, <2>1, <2>2, <2>3 DEF MyType
  <2>5. ASSUME NEW t \in Sender PROVE ThreadShape(t)'
    <3>1. CASE t = s
      <4>1. /\ pc'[s] = (IF kind[hand[s]] = "valid" THEN "send" ELSE "delete")
        BY <1>1, <2>1 DEF MyType
      <4>2. ThreadShape(s)
        BY <1>1
      <4>3. QED
        BY <3>1, <1>2, <2>1, <2>2, <2>3, <4>1, <4>2 DEF ThreadShape
    <3>2. CASE t # s
      <4>1. /\ pc'[t] = pc[t] /\ hand'[t] = hand[t] /\ conn'[t] = conn[t]
            /\ toSim'[t] = toSim[t] /\ toAgent'[t] = toAgent[t] /\ file'[t] = file[t]
        BY <3>2, <1>1, <2>1 DEF MyType
      <4>2. pc[t] \notin {"backup", "commit"}
        BY <3>2, <1>1, <2>1 DEF ThreadShape
      <4>3. QED
        BY <1>1, <4>1, <4>2, OthersStay
    <3>3. QED
      BY <3>1, <3>2
  <2>6. QED
    BY <2>4, <2>5 DEF AgentShape
<1>10. CASE Send(s)
  <2>1. /\ pc[s] = "send" /\ conn[s]
        /\ toSim' = [toSim EXCEPT ![s] = Append(toSim[s], <<hand[s]>>)]
        /\ pc' = [pc EXCEPT ![s] = "ack"]
        /\ request' = request /\ xa' = xa /\ hand' = hand /\ conn' = conn
        /\ toAgent' = toAgent /\ file' = file /\ received' = received
        /\ breaks' = breaks /\ crashes' = crashes
    BY <1>10 DEF Send, Goto, wireVars, simVars, faultVars
  <2>2. <<hand[s]>> \in Frame
    BY <1>1, <1>2, <2>1 DEF ThreadShape, Frame
  <2>3. Append(toSim[s], <<hand[s]>>) \in Seq(Frame)
    BY <1>2, <2>2, AppendProperties
  <2>4. MyType'
    BY <1>1, <1>2, <2>1, <2>2, <2>3 DEF MyType
  <2>5. ASSUME NEW t \in Sender PROVE ThreadShape(t)'
    <3>1. CASE t = s
      <4>1. /\ pc'[s] = "ack"
            /\ toSim'[s] = Append(toSim[s], <<hand[s]>>)
        BY <1>1, <2>1 DEF MyType
      <4>2. ThreadShape(s)
        BY <1>1
      <4>3. QED
        BY <3>1, <1>2, <2>1, <2>2, <2>3, <4>1, <4>2 DEF ThreadShape
    <3>2. CASE t # s
      <4>1. /\ pc'[t] = pc[t] /\ hand'[t] = hand[t] /\ conn'[t] = conn[t]
            /\ toSim'[t] = toSim[t] /\ toAgent'[t] = toAgent[t] /\ file'[t] = file[t]
        BY <3>2, <1>1, <2>1 DEF MyType
      <4>2. xa' = xa /\ request' = request
        BY <2>1
      <4>3. QED
        BY <1>1, <4>1, <4>2, OthersStay
    <3>3. QED
      BY <3>1, <3>2
  <2>6. QED
    BY <2>4, <2>5 DEF AgentShape
<1>11. CASE ReadAck(s)
  <2>1. /\ pc[s] = "ack" /\ toAgent[s] # <<>>
        /\ toAgent' = [toAgent EXCEPT ![s] = Tail(toAgent[s])]
        /\ pc' = [pc EXCEPT ![s] = "delete"]
        /\ request' = request /\ xa' = xa /\ hand' = hand /\ conn' = conn
        /\ toSim' = toSim /\ file' = file /\ received' = received
        /\ breaks' = breaks /\ crashes' = crashes
    BY <1>11 DEF ReadAck, Goto, wireVars, simVars, faultVars
  <2>2. toAgent[s] # <<>>
    BY <2>1
  <2>3. Tail(toAgent[s]) \in Seq(Msg)
    BY <1>2, <2>2, HeadTailProperties
  <2>4. MyType'
    BY <1>1, <1>2, <2>1, <2>2, <2>3 DEF MyType
  <2>5. ASSUME NEW t \in Sender PROVE ThreadShape(t)'
    <3>1. CASE t = s
      <4>1. /\ pc'[s] = "delete"
            /\ toAgent'[s] = Tail(toAgent[s])
        BY <1>1, <2>1 DEF MyType
      <4>2. ThreadShape(s)
        BY <1>1
      <4>3. QED
        BY <3>1, <1>2, <2>1, <2>2, <2>3, <4>1, <4>2 DEF ThreadShape
    <3>2. CASE t # s
      <4>1. /\ pc'[t] = pc[t] /\ hand'[t] = hand[t] /\ conn'[t] = conn[t]
            /\ toSim'[t] = toSim[t] /\ toAgent'[t] = toAgent[t] /\ file'[t] = file[t]
        BY <3>2, <1>1, <2>1 DEF MyType
      <4>2. xa' = xa /\ request' = request
        BY <2>1
      <4>3. QED
        BY <1>1, <4>1, <4>2, OthersStay
    <3>3. QED
      BY <3>1, <3>2
  <2>6. QED
    BY <2>4, <2>5 DEF AgentShape
<1>12. CASE deleteFile(s)
  <2>1. /\ pc[s] = "delete"
        /\ file' = [file EXCEPT ![s] = <<>>]
        /\ hand' = [hand EXCEPT ![s] = NoMsg]
        /\ pc' = [pc EXCEPT ![s] = "read"]
        /\ request' = request /\ xa' = xa /\ conn' = conn /\ toSim' = toSim
        /\ toAgent' = toAgent /\ received' = received /\ breaks' = breaks
        /\ crashes' = crashes
    BY <1>12 DEF deleteFile, Goto, wireVars, simVars, faultVars
  <2>4. MyType'
    BY <1>1, <1>2, <2>1 DEF MyType
  <2>5. ASSUME NEW t \in Sender PROVE ThreadShape(t)'
    <3>1. CASE t = s
      <4>1. /\ pc'[s] = "read"
            /\ hand'[s] = NoMsg
            /\ file'[s] = <<>>
        BY <1>1, <2>1 DEF MyType
      <4>2. ThreadShape(s)
        BY <1>1
      <4>3. QED
        BY <3>1, <1>2, <2>1, <4>1, <4>2 DEF ThreadShape
    <3>2. CASE t # s
      <4>1. /\ pc'[t] = pc[t] /\ hand'[t] = hand[t] /\ conn'[t] = conn[t]
            /\ toSim'[t] = toSim[t] /\ toAgent'[t] = toAgent[t] /\ file'[t] = file[t]
        BY <3>2, <1>1, <2>1 DEF MyType
      <4>2. xa' = xa /\ request' = request
        BY <2>1
      <4>3. QED
        BY <1>1, <4>1, <4>2, OthersStay
    <3>3. QED
      BY <3>1, <3>2
  <2>6. QED
    BY <2>4, <2>5 DEF AgentShape
<1>13. CASE SocketFails(s)
  <2>1. /\ pc[s] \in {"send", "ack"} /\ ~conn[s]
        /\ hand' = [hand EXCEPT ![s] = NoMsg]
        /\ pc' = [pc EXCEPT ![s] = "connect"]
        /\ request' = request /\ xa' = xa \ {s} /\ conn' = conn /\ toSim' = toSim
        /\ toAgent' = toAgent /\ file' = file /\ received' = received
        /\ breaks' = breaks /\ crashes' = crashes
    BY <1>13 DEF SocketFails, Goto, wireVars, simVars, faultVars
  <2>4. MyType'
    BY <1>1, <1>2, <2>1 DEF MyType
  <2>5. ASSUME NEW t \in Sender PROVE ThreadShape(t)'
    <3>1. CASE t = s
      <4>1. /\ pc'[s] = "connect"
            /\ hand'[s] = NoMsg
        BY <1>1, <2>1 DEF MyType
      <4>2. ThreadShape(s)
        BY <1>1
      <4>3. QED
        BY <3>1, <1>2, <2>1, <4>1, <4>2 DEF ThreadShape
    <3>2. CASE t # s
      <4>1. /\ pc'[t] = pc[t] /\ hand'[t] = hand[t] /\ conn'[t] = conn[t]
            /\ toSim'[t] = toSim[t] /\ toAgent'[t] = toAgent[t] /\ file'[t] = file[t]
        BY <3>2, <1>1, <2>1 DEF MyType
      <4>2. pc[t] \in {"backup", "commit"} => xa' = xa /\ request' = request
        BY <3>2, <1>1, <2>1 DEF ThreadShape
      <4>3. QED
        BY <1>1, <4>1, <4>2, OthersStay
    <3>3. QED
      BY <3>1, <3>2
  <2>6. QED
    BY <2>4, <2>5 DEF AgentShape
<1>14. CASE CommitFails(s)
  <2>1. /\ pc[s] = "commit"
        /\ request' = request /\ breaks' = breaks + 1
        /\ pc' = [pc EXCEPT ![s] = IF kind[hand[s]] = "valid" THEN "send" ELSE "delete"]
        /\ hand' = hand /\ conn' = conn /\ toSim' = toSim
        /\ toAgent' = toAgent /\ file' = file /\ received' = received
        /\ crashes' = crashes
    BY <1>14 DEF CommitFails, Goto, wireVars, simVars, faultVars, AfterCommit
  <2>2. request # <<>> /\ hand[s] \in Msg
    BY <1>1, <1>2, <2>1 DEF ThreadShape
  <2>3. xa = {s}
    BY <1>1, <2>1 DEF ThreadShape
  <2>4. MyType'
    BY <1>1, <1>2, <2>1, <2>2, <2>3 DEF MyType
  <2>5. ASSUME NEW t \in Sender PROVE ThreadShape(t)'
    <3>1. CASE t = s
      <4>1. /\ pc'[s] = (IF kind[hand[s]] = "valid" THEN "send" ELSE "delete")
        BY <1>1, <2>1 DEF MyType
      <4>2. ThreadShape(s)
        BY <1>1
      <4>3. QED
        BY <3>1, <1>2, <2>1, <2>2, <2>3, <4>1, <4>2 DEF ThreadShape
    <3>2. CASE t # s
      <4>1. /\ pc'[t] = pc[t] /\ hand'[t] = hand[t] /\ conn'[t] = conn[t]
            /\ toSim'[t] = toSim[t] /\ toAgent'[t] = toAgent[t] /\ file'[t] = file[t]
        BY <3>2, <1>1, <2>1 DEF MyType
      <4>2. pc[t] \notin {"backup", "commit"}
        BY <3>2, <1>1, <2>3 DEF ThreadShape
      <4>3. QED
        BY <1>1, <4>1, <4>2, OthersStay
    <3>3. QED
      BY <3>1, <3>2
  <2>6. QED
    BY <2>4, <2>5 DEF AgentShape
<1>15. QED
  BY <1>3, <1>4, <1>5, <1>6, <1>7, <1>8, <1>9, <1>10, <1>11, <1>12, <1>13, <1>14 DEF processMessageThread

\* What a connection that ends takes with it.
LEMMA DroppedShape ==
  ASSUME AgentShape, NEW s \in Sender, Dropped(s)
  PROVE  /\ conn' = [conn EXCEPT ![s] = FALSE]
         /\ toSim' = [toSim EXCEPT ![s] = <<>>] /\ toAgent' = [toAgent EXCEPT ![s] = <<>>]
         /\ conn' \in [Sender -> BOOLEAN]
         /\ toSim' \in [Sender -> Seq(Frame)] /\ toAgent' \in [Sender -> Seq(Msg)]
         /\ received' \in [Msg -> Nat]
         /\ ~conn'[s] /\ toSim'[s] = <<>> /\ toAgent'[s] = <<>>
         /\ \A t \in Sender : t # s =>
               conn'[t] = conn[t] /\ toSim'[t] = toSim[t] /\ toAgent'[t] = toAgent[t]
<1>1. MyType
  BY DEF AgentShape
<1>2. /\ conn' = [conn EXCEPT ![s] = FALSE]
      /\ toSim' = [toSim EXCEPT ![s] = <<>>] /\ toAgent' = [toAgent EXCEPT ![s] = <<>>]
  BY DEF Dropped
<1>3. <<>> \in Seq(Frame) /\ <<>> \in Seq(Msg)
  BY EmptySeq
<1>4. received' \in [Msg -> Nat]
  BY <1>1, DroppedCounts
<1>5. QED
  BY <1>1, <1>2, <1>3, <1>4 DEF MyType

LEMMA QueueFailsShape ==
  ASSUME AgentShape, NEW s \in Sender, QueueFails(s)
  PROVE  AgentShape'
<1>1. MyType /\ \A t \in Sender : ThreadShape(t)
  BY DEF AgentShape
<1>2. /\ hand' = [hand EXCEPT ![s] = NoMsg] /\ pc' = [pc EXCEPT ![s] = "connect"]
      /\ breaks' = breaks + 1 /\ Dropped(s) /\ pc[s] \in {"read", "ack"}
      /\ xa' \in {xa, xa \ {s}} /\ request' = request /\ file' = file /\ crashes' = crashes
  BY DEF QueueFails, Goto
<1>3. MyType'
  BY <1>1, <1>2, DroppedShape DEF MyType
<1>4. ASSUME NEW t \in Sender PROVE ThreadShape(t)'
  <2>1. CASE t = s
    <3>1. pc'[s] = "connect" /\ ~conn'[s] /\ toSim'[s] = <<>> /\ toAgent'[s] = <<>>
      BY <1>1, <1>2, DroppedShape DEF MyType
    <3>2. QED
      BY <2>1, <3>1 DEF ThreadShape
  <2>2. CASE t # s
    <3>1. /\ pc'[t] = pc[t] /\ hand'[t] = hand[t] /\ conn'[t] = conn[t]
          /\ toSim'[t] = toSim[t] /\ toAgent'[t] = toAgent[t] /\ file'[t] = file[t]
      BY <2>2, <1>1, <1>2, DroppedShape DEF MyType
    <3>2. pc[t] \in {"backup", "commit"} => xa' = xa /\ request' = request
      BY <2>2, <1>1, <1>2 DEF ThreadShape
    <3>3. QED
      BY <1>1, <3>1, <3>2, OthersStay
  <2>3. QED
    BY <2>1, <2>2
<1>5. QED
  BY <1>3, <1>4 DEF AgentShape

LEMMA BreakShape ==
  ASSUME AgentShape, NEW s \in Sender, Break(s)
  PROVE  AgentShape'
<1>1. MyType /\ \A t \in Sender : ThreadShape(t)
  BY DEF AgentShape
<1>2. /\ hand' = hand /\ pc' = pc /\ conn[s] /\ pc[s] # "connect"
      /\ breaks' = breaks + 1 /\ Dropped(s)
      /\ request' = request /\ xa' = xa /\ file' = file /\ crashes' = crashes
  BY <1>1 DEF Break, agentVars, ThreadShape
<1>3. MyType'
  BY <1>1, <1>2, DroppedShape DEF MyType
<1>4. ASSUME NEW t \in Sender PROVE ThreadShape(t)'
  <2>1. CASE t = s
    <3>1. ~conn'[s] /\ toSim'[s] = <<>> /\ toAgent'[s] = <<>>
      BY <1>2, DroppedShape
    <3>2. QED
      BY <2>1, <3>1, <1>1, <1>2 DEF ThreadShape
  <2>2. CASE t # s
    <3>1. /\ conn'[t] = conn[t] /\ toSim'[t] = toSim[t] /\ toAgent'[t] = toAgent[t]
      BY <2>2, <1>2, DroppedShape
    <3>2. QED
      BY <1>1, <1>2, <3>1, OthersStay
  <2>3. QED
    BY <2>1, <2>2
<1>5. QED
  BY <1>3, <1>4 DEF AgentShape

LEMMA SimTakesShape ==
  ASSUME AgentShape, NEW s \in Sender, SimTakes(s)
  PROVE  AgentShape'
<1>1. MyType /\ \A t \in Sender : ThreadShape(t)
  BY DEF AgentShape
<1>2. /\ toSim[s] # <<>> /\ Taken(<<Head(toSim[s])>>)
      /\ toAgent' = [toAgent EXCEPT ![s] = Append(toAgent[s], Head(Head(toSim[s])))]
      /\ toSim' = [toSim EXCEPT ![s] = Tail(toSim[s])]
      /\ request' = request /\ xa' = xa /\ pc' = pc /\ hand' = hand /\ conn' = conn
      /\ file' = file /\ breaks' = breaks /\ crashes' = crashes
  BY DEF SimTakes, agentVars, faultVars
<1>3. toSim[s] \in Seq(Frame) /\ toAgent[s] \in Seq(Msg)
  BY <1>1 DEF MyType
<1>4. Head(toSim[s]) \in Frame /\ Tail(toSim[s]) \in Seq(Frame)
  BY <1>2, <1>3, HeadTailProperties
<1>5. Head(Head(toSim[s])) \in Msg
  BY <1>4, HeadTailProperties DEF Frame
<1>6. Append(toAgent[s], Head(Head(toSim[s]))) \in Seq(Msg)
  BY <1>3, <1>5, AppendProperties
<1>7. received' \in [Msg -> Nat]
  <2>1. Len(<<Head(toSim[s])>>) \in Nat
    OBVIOUS
  <2>2. QED
    BY <1>1, <1>2, <2>1, TakenCounts DEF MyType
<1>8. MyType'
  BY <1>1, <1>2, <1>4, <1>6, <1>7 DEF MyType
<1>9. ASSUME NEW t \in Sender PROVE ThreadShape(t)'
  <2>1. CASE t = s
    <3>1. conn[s]
      BY <1>1, <1>2 DEF ThreadShape
    <3>2. QED
      BY <2>1, <3>1, <1>1, <1>2 DEF ThreadShape
  <2>2. CASE t # s
    <3>1. /\ toSim'[t] = toSim[t] /\ toAgent'[t] = toAgent[t]
      BY <2>2, <1>1, <1>2 DEF MyType
    <3>2. QED
      BY <1>1, <1>2, <3>1, OthersStay
  <2>3. QED
    BY <2>1, <2>2
<1>10. QED
  BY <1>8, <1>9 DEF AgentShape

LEMMA CrashShape ==
  ASSUME AgentShape, Crash
  PROVE  AgentShape'
<1>1. MyType
  BY DEF AgentShape
<1>2. /\ pc' = [t \in Sender |-> "connect"] /\ hand' = [t \in Sender |-> NoMsg]
      /\ conn' = [t \in Sender |-> FALSE]
      /\ toSim' = [t \in Sender |-> <<>>] /\ toAgent' = [t \in Sender |-> <<>>]
      /\ crashes' = crashes + 1 /\ breaks' = breaks /\ request' = request /\ file' = file
  BY DEF Crash
<1>3. received' \in [Msg -> Nat]
  BY <1>1, CrashCounts
<1>4. MyType'
  BY <1>1, <1>2, <1>3, EmptySeq DEF MyType
<1>5. \A t \in Sender : ThreadShape(t)'
  BY <1>2 DEF ThreadShape
<1>6. QED
  BY <1>4, <1>5 DEF AgentShape

LEMMA ElsewhereShape ==
  ASSUME AgentShape, Elsewhere
  PROVE  AgentShape'
<1>1. /\ request' = request /\ xa' = xa /\ pc' = pc /\ hand' = hand /\ conn' = conn
      /\ toSim' = toSim /\ toAgent' = toAgent
      /\ file' = file /\ breaks' \in {breaks, breaks + 1} /\ crashes' = crashes
      /\ received' = received
  BY DEF Elsewhere, wireVars
<1>2. MyType'
  BY <1>1 DEF AgentShape, MyType
<1>3. \A t \in Sender : ThreadShape(t)'
  BY <1>1 DEF AgentShape, ThreadShape
<1>4. QED
  BY <1>2, <1>3 DEF AgentShape

\* Every step is one of these.
LEMMA MySteps ==
  ASSUME [MyNext]_myVars, breaks \in Nat
  PROVE  \/ \E s \in Sender : \/ processMessageThread(s) \/ BackupFails(s) \/ CommitFails(s)
                              \/ QueueFails(s) \/ Break(s) \/ SimTakes(s)
         \/ Crash
         \/ Elsewhere
<1>1. CASE MyNext
  <2>1. CASE Carrier \/ BreakResult \/ Restart
    BY <2>1, StepsElsewhere
  <2>2. CASE ~(Carrier \/ BreakResult \/ Restart)
    BY <1>1, <2>2 DEF MyNext, Faults
  <2>3. QED
    BY <2>1, <2>2
<1>2. CASE UNCHANGED myVars
  BY <1>2, StepsElsewhere
<1>3. QED
  BY <1>1, <1>2

LEMMA MyShapeStep == AgentShape /\ [MyNext]_myVars => AgentShape'
<1> SUFFICES ASSUME AgentShape, [MyNext]_myVars PROVE AgentShape'
  OBVIOUS
<1>1. \/ \E s \in Sender : \/ processMessageThread(s) \/ BackupFails(s) \/ CommitFails(s)
                           \/ QueueFails(s) \/ Break(s) \/ SimTakes(s)
      \/ Crash
      \/ Elsewhere
  BY MySteps DEF AgentShape, MyType
<1>2. QED
  BY <1>1, ThreadsKeepShape, QueueFailsShape, BreakShape, SimTakesShape, CrashShape,
     ElsewhereShape

-----------------------------------------------------------------------------
(* MyAgent: nothing is lost before a file is sent again *)

LEMMA ToSetIsRange == \A q : ToSet(q) = Range(q)
BY DEF ToSet, Range

\* Nothing that is kept is lost in a step that only adds.
LEMMA StillKept ==
  ASSUME MyType, NothingLostBeforeRecovery, ~recovered, kind' = kind,
         unsaved \subseteq unsaved',
         ToSet(request) \subseteq ToSet(request'),
         \A s \in Sender : ToSet(file[s]) \subseteq ToSet(file'[s]),
         \A m \in Msg : received'[m] \in Nat /\ received[m] <= received'[m]
  PROVE  NothingLostBeforeRecovery'
<1>1. \A m \in Msg : received[m] \in Nat /\ (received[m] > 0 => received'[m] > 0)
  BY DEF MyType
<1>2. QED
  BY <1>1 DEF NothingLostBeforeRecovery

LEMMA OthersKeep ==
  ASSUME MyType, NEW t \in Sender, ThreadKeeps(t), ThreadShape(t), kind' = kind,
         pc'[t] = pc[t], hand'[t] = hand[t], conn'[t] = conn[t],
         toSim'[t] = toSim[t], toAgent'[t] = toAgent[t], file'[t] = file[t],
         unsaved \subseteq unsaved',
         \A m \in Msg : received'[m] \in Nat /\ received[m] <= received'[m]
  PROVE  ThreadKeeps(t)'
<1>1. \A m \in Msg : received[m] \in Nat /\ (received[m] > 0 => received'[m] > 0)
  BY DEF MyType
<1>2. QED
  BY <1>1 DEF ThreadKeeps, ThreadShape

LEMMA ThreadsKeep ==
  ASSUME AgentShape, Kept, ~recovered', NEW s \in Sender,
         processMessageThread(s) \/ BackupFails(s) \/ CommitFails(s)
  PROVE  Kept'
<1>1. MyType /\ \A t \in Sender : ThreadShape(t)
  BY DEF AgentShape
<1>2. /\ request \in Seq(Msg) /\ (request # <<>> => Head(request) \in Msg /\ Tail(request) \in Seq(Msg))
      /\ pc[s] \in {"connect", "recover", "read", "backup", "commit", "send",
                    "ack", "delete", "ended"}
      /\ hand[s] \in Msg \cup {NoMsg} /\ conn[s] \in BOOLEAN
      /\ toSim[s] \in Seq(Frame) /\ toAgent[s] \in Seq(Msg) /\ file[s] \in Seq(Msg)
      /\ \A m \in Msg : received[m] \in Nat
  BY <1>1, ShapeOfThread
<1>3. ~recovered
  BY DEF processMessageThread, BackupFails, CommitFails, Connect, RecoveryMessage, RecoveryFails, readXA,
         writeMessageToFile, commitXA, Send, ReadAck, deleteFile, SocketFails
<1>4. /\ NothingLostBeforeRecovery
      /\ \A t \in Sender : ThreadKeeps(t) /\ ThreadShape(t)
  BY <1>1, <1>3 DEF Kept
<1>5. CASE Connect(s)
  <2>1. /\ pc[s] = "connect"
        /\ conn' = [conn EXCEPT ![s] = TRUE]
        /\ pc' = [pc EXCEPT ![s] = IF file[s] = <<>> THEN "read" ELSE "recover"]
        /\ request' = request /\ xa' = xa /\ hand' = hand /\ toSim' = toSim
        /\ toAgent' = toAgent /\ file' = file /\ received' = received
        /\ kind' = kind /\ recovered' = recovered /\ unsaved' = unsaved
    BY <1>5 DEF Connect, Goto, wireVars, simVars, faultVars
  <2>2. /\ pc'[s] = (IF file[s] = <<>> THEN "read" ELSE "recover")
        /\ conn'[s] = TRUE
    BY <1>1, <2>1 DEF MyType
  <2>3. ThreadKeeps(s) /\ ThreadShape(s)
    BY <1>4
  <2>6. ThreadKeeps(s)'
    BY <1>2, <2>1, <2>2, <2>3 DEF ThreadKeeps, ThreadShape
  <2>7. ASSUME NEW t \in Sender PROVE ThreadKeeps(t)'
    <3>1. CASE t = s
      BY <3>1, <2>6
    <3>2. CASE t # s
      <4>1. /\ pc'[t] = pc[t] /\ hand'[t] = hand[t] /\ conn'[t] = conn[t]
            /\ toSim'[t] = toSim[t] /\ toAgent'[t] = toAgent[t] /\ file'[t] = file[t]
        BY <3>2, <1>1, <2>1 DEF MyType
      <4>2. /\ unsaved \subseteq unsaved' /\ kind' = kind
            /\ \A m \in Msg : received'[m] \in Nat /\ received[m] <= received'[m]
        BY <1>2, <2>1
      <4>3. QED
        BY <1>1, <1>4, <4>1, <4>2, OthersKeep
    <3>3. QED
      BY <3>1, <3>2
  <2>8. \A t \in Sender : ToSet(file[t]) \subseteq ToSet(file'[t])
    BY <2>1
  <2>9. /\ unsaved \subseteq unsaved' /\ kind' = kind
        /\ ToSet(request) \subseteq ToSet(request')
        /\ \A m \in Msg : received'[m] \in Nat /\ received[m] <= received'[m]
    BY <1>2, <2>1
  <2>10. NothingLostBeforeRecovery'
    BY <1>1, <1>3, <1>4, <2>8, <2>9, StillKept
  <2>11. QED
    BY <2>7, <2>10 DEF Kept
<1>6. CASE RecoveryMessage(s)
  BY <1>6 DEF RecoveryMessage
<1>7. CASE RecoveryFails(s)
  <2>1. /\ pc[s] = "recover"
        /\ pc' = [pc EXCEPT ![s] = "ended"]
        /\ request' = request /\ xa' = xa /\ hand' = hand /\ conn' = conn
        /\ toSim' = toSim /\ toAgent' = toAgent /\ file' = file
        /\ received' = received /\ kind' = kind /\ recovered' = recovered
        /\ unsaved' = unsaved
    BY <1>7 DEF RecoveryFails, Goto, wireVars, simVars, faultVars
  <2>2. /\ pc'[s] = "ended"
    BY <1>1, <2>1 DEF MyType
  <2>3. ThreadKeeps(s) /\ ThreadShape(s)
    BY <1>4
  <2>6. ThreadKeeps(s)'
    BY <1>2, <2>1, <2>2, <2>3 DEF ThreadKeeps, ThreadShape
  <2>7. ASSUME NEW t \in Sender PROVE ThreadKeeps(t)'
    <3>1. CASE t = s
      BY <3>1, <2>6
    <3>2. CASE t # s
      <4>1. /\ pc'[t] = pc[t] /\ hand'[t] = hand[t] /\ conn'[t] = conn[t]
            /\ toSim'[t] = toSim[t] /\ toAgent'[t] = toAgent[t] /\ file'[t] = file[t]
        BY <3>2, <1>1, <2>1 DEF MyType
      <4>2. /\ unsaved \subseteq unsaved' /\ kind' = kind
            /\ \A m \in Msg : received'[m] \in Nat /\ received[m] <= received'[m]
        BY <1>2, <2>1
      <4>3. QED
        BY <1>1, <1>4, <4>1, <4>2, OthersKeep
    <3>3. QED
      BY <3>1, <3>2
  <2>8. \A t \in Sender : ToSet(file[t]) \subseteq ToSet(file'[t])
    BY <2>1
  <2>9. /\ unsaved \subseteq unsaved' /\ kind' = kind
        /\ ToSet(request) \subseteq ToSet(request')
        /\ \A m \in Msg : received'[m] \in Nat /\ received[m] <= received'[m]
    BY <1>2, <2>1
  <2>10. NothingLostBeforeRecovery'
    BY <1>1, <1>3, <1>4, <2>8, <2>9, StillKept
  <2>11. QED
    BY <2>7, <2>10 DEF Kept
<1>8. CASE readXA(s)
  <2>1. /\ pc[s] = "read" /\ xa \subseteq {s} /\ request # <<>>
        /\ xa' = {s}
        /\ hand' = [hand EXCEPT ![s] = Head(request)]
        /\ pc' = [pc EXCEPT ![s] = "backup"]
        /\ request' = request /\ conn' = conn /\ toSim' = toSim
        /\ toAgent' = toAgent /\ file' = file /\ received' = received
        /\ kind' = kind /\ recovered' = recovered /\ unsaved' = unsaved
    BY <1>8 DEF readXA, Goto, wireVars, simVars, faultVars
  <2>2. /\ pc'[s] = "backup"
        /\ hand'[s] = Head(request)
    BY <1>1, <2>1 DEF MyType
  <2>3. ThreadKeeps(s) /\ ThreadShape(s)
    BY <1>4
  <2>6. ThreadKeeps(s)'
    BY <1>2, <2>1, <2>2, <2>3 DEF ThreadKeeps, ThreadShape
  <2>7. ASSUME NEW t \in Sender PROVE ThreadKeeps(t)'
    <3>1. CASE t = s
      BY <3>1, <2>6
    <3>2. CASE t # s
      <4>1. /\ pc'[t] = pc[t] /\ hand'[t] = hand[t] /\ conn'[t] = conn[t]
            /\ toSim'[t] = toSim[t] /\ toAgent'[t] = toAgent[t] /\ file'[t] = file[t]
        BY <3>2, <1>1, <2>1 DEF MyType
      <4>2. /\ unsaved \subseteq unsaved' /\ kind' = kind
            /\ \A m \in Msg : received'[m] \in Nat /\ received[m] <= received'[m]
        BY <1>2, <2>1
      <4>3. QED
        BY <1>1, <1>4, <4>1, <4>2, OthersKeep
    <3>3. QED
      BY <3>1, <3>2
  <2>8. \A t \in Sender : ToSet(file[t]) \subseteq ToSet(file'[t])
    BY <2>1
  <2>9. /\ unsaved \subseteq unsaved' /\ kind' = kind
        /\ ToSet(request) \subseteq ToSet(request')
        /\ \A m \in Msg : received'[m] \in Nat /\ received[m] <= received'[m]
    BY <1>2, <2>1
  <2>10. NothingLostBeforeRecovery'
    BY <1>1, <1>3, <1>4, <2>8, <2>9, StillKept
  <2>11. QED
    BY <2>7, <2>10 DEF Kept
<1>9. CASE writeMessageToFile(s)
  <2>1. /\ pc[s] = "backup"
        /\ file' = [file EXCEPT ![s] = Append(file[s], hand[s])]
        /\ pc' = [pc EXCEPT ![s] = "commit"]
        /\ request' = request /\ xa' = xa /\ hand' = hand /\ conn' = conn
        /\ toSim' = toSim /\ toAgent' = toAgent /\ received' = received
        /\ kind' = kind /\ recovered' = recovered /\ unsaved' = unsaved
    BY <1>9 DEF writeMessageToFile, Goto, wireVars, simVars, faultVars
  <2>2. /\ pc'[s] = "commit"
        /\ file'[s] = Append(file[s], hand[s])
    BY <1>1, <2>1 DEF MyType
  <2>3. ThreadKeeps(s) /\ ThreadShape(s)
    BY <1>4
  <2>4. file[s] = <<>> /\ file'[s] = <<hand[s]>> /\ ToSet(file'[s]) = {hand[s]}
    <3>1. file[s] = <<>>
      BY <2>1, <2>3 DEF ThreadKeeps
    <3>2. file'[s] = <<hand[s]>>
      BY <2>2, <3>1
    <3>3. QED
      BY <3>1, <3>2 DEF ToSet
  <2>6. ThreadKeeps(s)'
    BY <1>2, <2>1, <2>2, <2>3, <2>4 DEF ThreadKeeps, ThreadShape
  <2>7. ASSUME NEW t \in Sender PROVE ThreadKeeps(t)'
    <3>1. CASE t = s
      BY <3>1, <2>6
    <3>2. CASE t # s
      <4>1. /\ pc'[t] = pc[t] /\ hand'[t] = hand[t] /\ conn'[t] = conn[t]
            /\ toSim'[t] = toSim[t] /\ toAgent'[t] = toAgent[t] /\ file'[t] = file[t]
        BY <3>2, <1>1, <2>1 DEF MyType
      <4>2. /\ unsaved \subseteq unsaved' /\ kind' = kind
            /\ \A m \in Msg : received'[m] \in Nat /\ received[m] <= received'[m]
        BY <1>2, <2>1
      <4>3. QED
        BY <1>1, <1>4, <4>1, <4>2, OthersKeep
    <3>3. QED
      BY <3>1, <3>2
  <2>8. \A t \in Sender : ToSet(file[t]) \subseteq ToSet(file'[t])
    <3>1. ToSet(file[s]) = {}
      BY <2>4 DEF ToSet
    <3>2. \A t \in Sender : t # s => file'[t] = file[t]
      BY <1>1, <2>1 DEF MyType
    <3>3. QED
      BY <3>1, <3>2
  <2>9. /\ unsaved \subseteq unsaved' /\ kind' = kind
        /\ ToSet(request) \subseteq ToSet(request')
        /\ \A m \in Msg : received'[m] \in Nat /\ received[m] <= received'[m]
    BY <1>2, <2>1
  <2>10. NothingLostBeforeRecovery'
    BY <1>1, <1>3, <1>4, <2>8, <2>9, StillKept
  <2>11. QED
    BY <2>7, <2>10 DEF Kept
<1>10. CASE BackupFails(s)
  <2>1. /\ pc[s] = "backup"
        /\ pc' = [pc EXCEPT ![s] = "commit"]
        /\ unsaved' = unsaved \cup {hand[s]}
        /\ request' = request /\ xa' = xa /\ hand' = hand /\ conn' = conn
        /\ toSim' = toSim /\ toAgent' = toAgent /\ file' = file
        /\ received' = received /\ kind' = kind /\ recovered' = recovered
    BY <1>10 DEF BackupFails, Goto, wireVars, simVars, faultVars
  <2>2. /\ pc'[s] = "commit"
    BY <1>1, <2>1 DEF MyType
  <2>3. ThreadKeeps(s) /\ ThreadShape(s)
    BY <1>4
  <2>4. file[s] = <<>> /\ ToSet(file[s]) = {}
    <3>1. file[s] = <<>>
      BY <2>1, <2>3 DEF ThreadKeeps
    <3>2. QED
      BY <3>1 DEF ToSet
  <2>6. ThreadKeeps(s)'
    BY <1>2, <2>1, <2>2, <2>3, <2>4 DEF ThreadKeeps, ThreadShape
  <2>7. ASSUME NEW t \in Sender PROVE ThreadKeeps(t)'
    <3>1. CASE t = s
      BY <3>1, <2>6
    <3>2. CASE t # s
      <4>1. /\ pc'[t] = pc[t] /\ hand'[t] = hand[t] /\ conn'[t] = conn[t]
            /\ toSim'[t] = toSim[t] /\ toAgent'[t] = toAgent[t] /\ file'[t] = file[t]
        BY <3>2, <1>1, <2>1 DEF MyType
      <4>2. /\ unsaved \subseteq unsaved' /\ kind' = kind
            /\ \A m \in Msg : received'[m] \in Nat /\ received[m] <= received'[m]
        BY <1>2, <2>1
      <4>3. QED
        BY <1>1, <1>4, <4>1, <4>2, OthersKeep
    <3>3. QED
      BY <3>1, <3>2
  <2>8. \A t \in Sender : ToSet(file[t]) \subseteq ToSet(file'[t])
    BY <2>1
  <2>9. /\ unsaved \subseteq unsaved' /\ kind' = kind
        /\ ToSet(request) \subseteq ToSet(request')
        /\ \A m \in Msg : received'[m] \in Nat /\ received[m] <= received'[m]
    BY <1>2, <2>1
  <2>10. NothingLostBeforeRecovery'
    BY <1>1, <1>3, <1>4, <2>8, <2>9, StillKept
  <2>11. QED
    BY <2>7, <2>10 DEF Kept
<1>11. CASE commitXA(s)
  <2>1. /\ pc[s] = "commit"
        /\ request' = Tail(request)
        /\ xa' = {}
        /\ pc' = [pc EXCEPT ![s] = IF kind[hand[s]] = "valid" THEN "send" ELSE "delete"]
        /\ hand' = hand /\ conn' = conn /\ toSim' = toSim
        /\ toAgent' = toAgent /\ file' = file /\ received' = received
        /\ kind' = kind /\ recovered' = recovered /\ unsaved' = unsaved
    BY <1>11 DEF commitXA, Goto, wireVars, simVars, faultVars, AfterCommit
  <2>2. /\ pc'[s] = (IF kind[hand[s]] = "valid" THEN "send" ELSE "delete")
    BY <1>1, <2>1 DEF MyType
  <2>3. ThreadKeeps(s) /\ ThreadShape(s)
    BY <1>4
  <2>4. hand[s] = Head(request) /\ request # <<>>
    BY <2>1, <2>3 DEF ThreadShape
  <2>5. ToSet(request) = {hand[s]} \cup ToSet(request')
    BY <1>2, <2>1, <2>4, RangeTail, ToSetIsRange
  <2>6. ThreadKeeps(s)'
    BY <1>2, <2>1, <2>2, <2>3, <2>4 DEF ThreadKeeps, ThreadShape
  <2>7. ASSUME NEW t \in Sender PROVE ThreadKeeps(t)'
    <3>1. CASE t = s
      BY <3>1, <2>6
    <3>2. CASE t # s
      <4>1. /\ pc'[t] = pc[t] /\ hand'[t] = hand[t] /\ conn'[t] = conn[t]
            /\ toSim'[t] = toSim[t] /\ toAgent'[t] = toAgent[t] /\ file'[t] = file[t]
        BY <3>2, <1>1, <2>1 DEF MyType
      <4>2. /\ unsaved \subseteq unsaved' /\ kind' = kind
            /\ \A m \in Msg : received'[m] \in Nat /\ received[m] <= received'[m]
        BY <1>2, <2>1
      <4>3. QED
        BY <1>1, <1>4, <4>1, <4>2, OthersKeep
    <3>3. QED
      BY <3>1, <3>2
  <2>8. NothingLostBeforeRecovery'
    <3> SUFFICES ASSUME NEW m \in Msg, kind[m] = "valid", m \notin unsaved
                 PROVE  \/ m \in ToSet(request')
                        \/ \E t \in Sender : m \in ToSet(file[t])
                        \/ received[m] > 0
      BY <2>1 DEF NothingLostBeforeRecovery
    <3>1. \/ m \in ToSet(request)
          \/ \E t \in Sender : m \in ToSet(file[t])
          \/ received[m] > 0
      BY <1>3, <1>4 DEF NothingLostBeforeRecovery
    <3>2. hand[s] \in ToSet(file[s]) \/ hand[s] \in unsaved
      BY <2>1, <2>3 DEF ThreadKeeps
    <3>3. QED
      BY <3>1, <3>2, <2>5
  <2>11. QED
    BY <2>7, <2>8 DEF Kept
<1>12. CASE Send(s)
  <2>1. /\ pc[s] = "send" /\ conn[s]
        /\ toSim' = [toSim EXCEPT ![s] = Append(toSim[s], <<hand[s]>>)]
        /\ pc' = [pc EXCEPT ![s] = "ack"]
        /\ request' = request /\ xa' = xa /\ hand' = hand /\ conn' = conn
        /\ toAgent' = toAgent /\ file' = file /\ received' = received
        /\ kind' = kind /\ recovered' = recovered /\ unsaved' = unsaved
    BY <1>12 DEF Send, Goto, wireVars, simVars, faultVars
  <2>2. /\ pc'[s] = "ack"
        /\ toSim'[s] = Append(toSim[s], <<hand[s]>>)
    BY <1>1, <2>1 DEF MyType
  <2>3. ThreadKeeps(s) /\ ThreadShape(s)
    BY <1>4
  <2>4. toSim'[s] = << <<hand[s]>> >> /\ toAgent[s] = <<>>
    <3>1. toSim[s] = <<>> /\ toAgent[s] = <<>>
      BY <2>1, <2>3 DEF ThreadKeeps
    <3>2. Append(<<>>, <<hand[s]>>) = << <<hand[s]>> >>
      OBVIOUS
    <3>3. QED
      BY <2>2, <3>1, <3>2
  <2>6. ThreadKeeps(s)'
    BY <1>2, <2>1, <2>2, <2>3, <2>4 DEF ThreadKeeps, ThreadShape
  <2>7. ASSUME NEW t \in Sender PROVE ThreadKeeps(t)'
    <3>1. CASE t = s
      BY <3>1, <2>6
    <3>2. CASE t # s
      <4>1. /\ pc'[t] = pc[t] /\ hand'[t] = hand[t] /\ conn'[t] = conn[t]
            /\ toSim'[t] = toSim[t] /\ toAgent'[t] = toAgent[t] /\ file'[t] = file[t]
        BY <3>2, <1>1, <2>1 DEF MyType
      <4>2. /\ unsaved \subseteq unsaved' /\ kind' = kind
            /\ \A m \in Msg : received'[m] \in Nat /\ received[m] <= received'[m]
        BY <1>2, <2>1
      <4>3. QED
        BY <1>1, <1>4, <4>1, <4>2, OthersKeep
    <3>3. QED
      BY <3>1, <3>2
  <2>8. \A t \in Sender : ToSet(file[t]) \subseteq ToSet(file'[t])
    BY <2>1
  <2>9. /\ unsaved \subseteq unsaved' /\ kind' = kind
        /\ ToSet(request) \subseteq ToSet(request')
        /\ \A m \in Msg : received'[m] \in Nat /\ received[m] <= received'[m]
    BY <1>2, <2>1
  <2>10. NothingLostBeforeRecovery'
    BY <1>1, <1>3, <1>4, <2>8, <2>9, StillKept
  <2>11. QED
    BY <2>7, <2>10 DEF Kept
<1>13. CASE ReadAck(s)
  <2>1. /\ pc[s] = "ack" /\ toAgent[s] # <<>>
        /\ toAgent' = [toAgent EXCEPT ![s] = Tail(toAgent[s])]
        /\ pc' = [pc EXCEPT ![s] = "delete"]
        /\ request' = request /\ xa' = xa /\ hand' = hand /\ conn' = conn
        /\ toSim' = toSim /\ file' = file /\ received' = received
        /\ kind' = kind /\ recovered' = recovered /\ unsaved' = unsaved
    BY <1>13 DEF ReadAck, Goto, wireVars, simVars, faultVars
  <2>2. /\ pc'[s] = "delete"
        /\ toAgent'[s] = Tail(toAgent[s])
    BY <1>1, <2>1 DEF MyType
  <2>3. ThreadKeeps(s) /\ ThreadShape(s)
    BY <1>4
  <2>4. toSim[s] = <<>> /\ toAgent'[s] = <<>> /\ received[hand[s]] > 0
    <3>1. conn[s]
      BY <2>1, <2>3 DEF ThreadShape
    <3>2. toSim[s] = <<>> /\ toAgent[s] = <<hand[s]>> /\ received[hand[s]] > 0
      BY <2>1, <2>3, <3>1 DEF ThreadKeeps
    <3>3. QED
      BY <2>2, <3>2
  <2>6. ThreadKeeps(s)'
    BY <1>2, <2>1, <2>2, <2>3, <2>4 DEF ThreadKeeps, ThreadShape
  <2>7. ASSUME NEW t \in Sender PROVE ThreadKeeps(t)'
    <3>1. CASE t = s
      BY <3>1, <2>6
    <3>2. CASE t # s
      <4>1. /\ pc'[t] = pc[t] /\ hand'[t] = hand[t] /\ conn'[t] = conn[t]
            /\ toSim'[t] = toSim[t] /\ toAgent'[t] = toAgent[t] /\ file'[t] = file[t]
        BY <3>2, <1>1, <2>1 DEF MyType
      <4>2. /\ unsaved \subseteq unsaved' /\ kind' = kind
            /\ \A m \in Msg : received'[m] \in Nat /\ received[m] <= received'[m]
        BY <1>2, <2>1
      <4>3. QED
        BY <1>1, <1>4, <4>1, <4>2, OthersKeep
    <3>3. QED
      BY <3>1, <3>2
  <2>8. \A t \in Sender : ToSet(file[t]) \subseteq ToSet(file'[t])
    BY <2>1
  <2>9. /\ unsaved \subseteq unsaved' /\ kind' = kind
        /\ ToSet(request) \subseteq ToSet(request')
        /\ \A m \in Msg : received'[m] \in Nat /\ received[m] <= received'[m]
    BY <1>2, <2>1
  <2>10. NothingLostBeforeRecovery'
    BY <1>1, <1>3, <1>4, <2>8, <2>9, StillKept
  <2>11. QED
    BY <2>7, <2>10 DEF Kept
<1>14. CASE deleteFile(s)
  <2>1. /\ pc[s] = "delete"
        /\ file' = [file EXCEPT ![s] = <<>>]
        /\ hand' = [hand EXCEPT ![s] = NoMsg]
        /\ pc' = [pc EXCEPT ![s] = "read"]
        /\ request' = request /\ xa' = xa /\ conn' = conn /\ toSim' = toSim
        /\ toAgent' = toAgent /\ received' = received /\ kind' = kind
        /\ recovered' = recovered /\ unsaved' = unsaved
    BY <1>14 DEF deleteFile, Goto, wireVars, simVars, faultVars
  <2>2. /\ pc'[s] = "read"
        /\ hand'[s] = NoMsg
        /\ file'[s] = <<>>
    BY <1>1, <2>1 DEF MyType
  <2>3. ThreadKeeps(s) /\ ThreadShape(s)
    BY <1>4
  <2>6. ThreadKeeps(s)'
    BY <1>2, <2>1, <2>2, <2>3 DEF ThreadKeeps, ThreadShape
  <2>7. ASSUME NEW t \in Sender PROVE ThreadKeeps(t)'
    <3>1. CASE t = s
      BY <3>1, <2>6
    <3>2. CASE t # s
      <4>1. /\ pc'[t] = pc[t] /\ hand'[t] = hand[t] /\ conn'[t] = conn[t]
            /\ toSim'[t] = toSim[t] /\ toAgent'[t] = toAgent[t] /\ file'[t] = file[t]
        BY <3>2, <1>1, <2>1 DEF MyType
      <4>2. /\ unsaved \subseteq unsaved' /\ kind' = kind
            /\ \A m \in Msg : received'[m] \in Nat /\ received[m] <= received'[m]
        BY <1>2, <2>1
      <4>3. QED
        BY <1>1, <1>4, <4>1, <4>2, OthersKeep
    <3>3. QED
      BY <3>1, <3>2
  <2>8. NothingLostBeforeRecovery'
    <3> SUFFICES ASSUME NEW m \in Msg, kind[m] = "valid", m \notin unsaved
                 PROVE  \/ m \in ToSet(request)
                        \/ \E t \in Sender : m \in ToSet(file'[t])
                        \/ received[m] > 0
      BY <2>1 DEF NothingLostBeforeRecovery
    <3>1. \/ m \in ToSet(request)
          \/ \E t \in Sender : m \in ToSet(file[t])
          \/ received[m] > 0
      BY <1>3, <1>4 DEF NothingLostBeforeRecovery
    <3>2. ASSUME m \in ToSet(file[s]) PROVE received[m] > 0
      <4>1. m = hand[s]
        BY <3>2, <2>1, <2>3 DEF ThreadKeeps
      <4>2. QED
        BY <4>1, <2>1, <2>3 DEF ThreadKeeps
    <3>3. \A t \in Sender : t # s => file'[t] = file[t]
      BY <1>1, <2>1 DEF MyType
    <3>4. QED
      BY <3>1, <3>2, <3>3
  <2>11. QED
    BY <2>7, <2>8 DEF Kept
<1>15. CASE SocketFails(s)
  <2>1. /\ pc[s] \in {"send", "ack"} /\ ~conn[s]
        /\ hand' = [hand EXCEPT ![s] = NoMsg]
        /\ pc' = [pc EXCEPT ![s] = "connect"]
        /\ request' = request /\ conn' = conn /\ toSim' = toSim
        /\ toAgent' = toAgent /\ file' = file /\ received' = received
        /\ kind' = kind /\ recovered' = recovered /\ unsaved' = unsaved
    BY <1>15 DEF SocketFails, Goto, wireVars, simVars, faultVars
  <2>2. /\ pc'[s] = "connect"
        /\ hand'[s] = NoMsg
    BY <1>1, <2>1 DEF MyType
  <2>3. ThreadKeeps(s) /\ ThreadShape(s)
    BY <1>4
  <2>6. ThreadKeeps(s)'
    BY <1>2, <2>1, <2>2, <2>3 DEF ThreadKeeps, ThreadShape
  <2>7. ASSUME NEW t \in Sender PROVE ThreadKeeps(t)'
    <3>1. CASE t = s
      BY <3>1, <2>6
    <3>2. CASE t # s
      <4>1. /\ pc'[t] = pc[t] /\ hand'[t] = hand[t] /\ conn'[t] = conn[t]
            /\ toSim'[t] = toSim[t] /\ toAgent'[t] = toAgent[t] /\ file'[t] = file[t]
        BY <3>2, <1>1, <2>1 DEF MyType
      <4>2. /\ unsaved \subseteq unsaved' /\ kind' = kind
            /\ \A m \in Msg : received'[m] \in Nat /\ received[m] <= received'[m]
        BY <1>2, <2>1
      <4>3. QED
        BY <1>1, <1>4, <4>1, <4>2, OthersKeep
    <3>3. QED
      BY <3>1, <3>2
  <2>8. \A t \in Sender : ToSet(file[t]) \subseteq ToSet(file'[t])
    BY <2>1
  <2>9. /\ unsaved \subseteq unsaved' /\ kind' = kind
        /\ ToSet(request) \subseteq ToSet(request')
        /\ \A m \in Msg : received'[m] \in Nat /\ received[m] <= received'[m]
    BY <1>2, <2>1
  <2>10. NothingLostBeforeRecovery'
    BY <1>1, <1>3, <1>4, <2>8, <2>9, StillKept
  <2>11. QED
    BY <2>7, <2>10 DEF Kept
<1>16. CASE CommitFails(s)
  <2>1. /\ pc[s] = "commit"
        /\ request' = request
        /\ pc' = [pc EXCEPT ![s] = IF kind[hand[s]] = "valid" THEN "send" ELSE "delete"]
        /\ hand' = hand /\ conn' = conn /\ toSim' = toSim
        /\ toAgent' = toAgent /\ file' = file /\ received' = received
        /\ kind' = kind /\ recovered' = recovered /\ unsaved' = unsaved
    BY <1>16 DEF CommitFails, Goto, wireVars, simVars, faultVars, AfterCommit
  <2>2. /\ pc'[s] = (IF kind[hand[s]] = "valid" THEN "send" ELSE "delete")
    BY <1>1, <2>1 DEF MyType
  <2>3. ThreadKeeps(s) /\ ThreadShape(s)
    BY <1>4
  <2>6. ThreadKeeps(s)'
    BY <1>2, <2>1, <2>2, <2>3 DEF ThreadKeeps, ThreadShape
  <2>7. ASSUME NEW t \in Sender PROVE ThreadKeeps(t)'
    <3>1. CASE t = s
      BY <3>1, <2>6
    <3>2. CASE t # s
      <4>1. /\ pc'[t] = pc[t] /\ hand'[t] = hand[t] /\ conn'[t] = conn[t]
            /\ toSim'[t] = toSim[t] /\ toAgent'[t] = toAgent[t] /\ file'[t] = file[t]
        BY <3>2, <1>1, <2>1 DEF MyType
      <4>2. /\ unsaved \subseteq unsaved' /\ kind' = kind
            /\ \A m \in Msg : received'[m] \in Nat /\ received[m] <= received'[m]
        BY <1>2, <2>1
      <4>3. QED
        BY <1>1, <1>4, <4>1, <4>2, OthersKeep
    <3>3. QED
      BY <3>1, <3>2
  <2>8. \A t \in Sender : ToSet(file[t]) \subseteq ToSet(file'[t])
    BY <2>1
  <2>9. /\ unsaved \subseteq unsaved' /\ kind' = kind
        /\ ToSet(request) \subseteq ToSet(request')
        /\ \A m \in Msg : received'[m] \in Nat /\ received[m] <= received'[m]
    BY <1>2, <2>1
  <2>10. NothingLostBeforeRecovery'
    BY <1>1, <1>3, <1>4, <2>8, <2>9, StillKept
  <2>11. QED
    BY <2>7, <2>10 DEF Kept
<1>17. QED
  BY <1>5, <1>6, <1>7, <1>8, <1>9, <1>10, <1>11, <1>12, <1>13, <1>14, <1>15, <1>16 DEF processMessageThread

LEMMA DroppedKeeps ==
  ASSUME AgentShape, Kept, ~recovered, NEW s \in Sender, Dropped(s), kind' = kind,
         request' = request, file' = file, unsaved' = unsaved,
         \/ pc' = pc /\ hand' = hand
         \/ /\ pc' = [pc EXCEPT ![s] = "connect"]
            /\ hand' = [hand EXCEPT ![s] = NoMsg]
  PROVE  Kept'
<1>1. MyType /\ \A t \in Sender : ThreadShape(t)
  BY DEF AgentShape
<1>2. /\ NothingLostBeforeRecovery
      /\ \A t \in Sender : ThreadKeeps(t)
  BY DEF Kept
<1>3. \A m \in Msg : received'[m] \in Nat /\ received[m] <= received'[m]
  <2>1. \A m \in Msg : received[m] \in Nat
    BY <1>1 DEF MyType
  <2>2. PICK n \in 0..Len(toSim[s]) : \A m \in Msg :
               /\ Cardinality(Arrived(s, n, m)) \in Nat
               /\ received'[m] = received[m] + Cardinality(Arrived(s, n, m))
    BY <1>1, DroppedCounts
  <2>3. QED
    BY <2>1, <2>2
<1>4. ASSUME NEW t \in Sender PROVE ThreadKeeps(t)'
  <2>1. CASE t = s
    <3>1. ~conn'[s] /\ toSim'[s] = <<>> /\ toAgent'[s] = <<>>
      BY DroppedShape
    <3>2. CASE pc' = pc /\ hand' = hand
      <4>1. \A m \in Msg : received[m] \in Nat /\ (received[m] > 0 => received'[m] > 0)
        BY <1>1, <1>3 DEF MyType
      <4>2. QED
        BY <2>1, <3>1, <3>2, <4>1, <1>1, <1>2 DEF ThreadKeeps, ThreadShape
    <3>3. CASE pc' = [pc EXCEPT ![s] = "connect"]
      <4>1. pc'[s] = "connect"
        BY <3>3, <1>1 DEF MyType
      <4>2. QED
        BY <2>1, <4>1 DEF ThreadKeeps
    <3>4. QED
      BY <3>2, <3>3
  <2>2. CASE t # s
    <3>1. /\ pc'[t] = pc[t] /\ hand'[t] = hand[t] /\ conn'[t] = conn[t]
          /\ toSim'[t] = toSim[t] /\ toAgent'[t] = toAgent[t] /\ file'[t] = file[t]
      BY <2>2, <1>1, DroppedShape DEF MyType
    <3>2. QED
      BY <1>1, <1>2, <1>3, <3>1, OthersKeep
  <2>3. QED
    BY <2>1, <2>2
<1>5. NothingLostBeforeRecovery'
  BY <1>1, <1>2, <1>3, StillKept
<1>6. QED
  BY <1>4, <1>5 DEF Kept

LEMMA SimTakesKeeps ==
  ASSUME AgentShape, Kept, ~recovered', NEW s \in Sender, SimTakes(s)
  PROVE  Kept'
<1>1. MyType /\ \A t \in Sender : ThreadShape(t)
  BY DEF AgentShape
<1>2. /\ toSim[s] # <<>> /\ Taken(<<Head(toSim[s])>>)
      /\ toAgent' = [toAgent EXCEPT ![s] = Append(toAgent[s], Head(Head(toSim[s])))]
      /\ toSim' = [toSim EXCEPT ![s] = Tail(toSim[s])]
      /\ request' = request /\ pc' = pc /\ hand' = hand /\ conn' = conn
      /\ file' = file /\ kind' = kind /\ unsaved' = unsaved /\ recovered' = recovered
  BY DEF SimTakes, agentVars, faultVars
<1>3. /\ NothingLostBeforeRecovery
      /\ \A t \in Sender : ThreadKeeps(t)
  BY <1>2 DEF Kept
<1> DEFINE fs == <<Head(toSim[s])>>
<1>4. Len(fs) = 1 /\ Len(fs) \in Nat /\ fs[1] = Head(toSim[s]) /\ 1..1 = {1}
  OBVIOUS
<1> HIDE DEF fs
<1>5. Taken(fs)
  BY <1>2 DEF fs
<1> DEFINE count(m) == Cardinality({i \in 1..Len(fs) : Head(fs[i]) = m})
<1>6. \A m \in Msg : received[m] \in Nat /\ count(m) \in Nat /\ received'[m] = received[m] + count(m)
  <2>1. received \in [Msg -> Nat]
    BY <1>1 DEF MyType
  <2>2. \A m \in Msg : count(m) \in Nat /\ received'[m] = received[m] + count(m)
    BY <1>4, <1>5, <2>1, TakenCounts
  <2>3. QED
    BY <2>1, <2>2
<1>7. ASSUME NEW m \in Msg, m = Head(Head(toSim[s])) PROVE count(m) = 1
  <2>1. {i \in 1..Len(fs) : Head(fs[i]) = m} = {1}
    BY <1>4, <1>7
  <2>2. Cardinality({1}) = 1
    BY FS_Singleton
  <2>3. QED
    BY <2>1, <2>2
<1> HIDE DEF count
<1>8. /\ \A m \in Msg : received'[m] \in Nat /\ received[m] <= received'[m]
      /\ \A m \in Msg : m = Head(Head(toSim[s])) => received'[m] > 0
  BY <1>6, <1>7
<1>9. ThreadKeeps(s)'
  <2>1. ThreadKeeps(s) /\ ThreadShape(s) /\ pc[s] \in {"recover", "ack", "ended"}
    <3>1. ThreadKeeps(s) /\ ThreadShape(s)
      BY <1>1, <1>3
    <3>2. QED
      BY <3>1, <1>1, <1>2 DEF ThreadKeeps, ThreadShape, MyType
  <2>2. CASE pc[s] # "ack"
    BY <2>1, <2>2, <1>2 DEF ThreadKeeps
  <2>3. CASE pc[s] = "ack"
    <3>1. conn[s] /\ hand[s] \in Msg
      BY <2>1, <2>3, <1>2 DEF ThreadShape
    <3>2. toSim[s] = << <<hand[s]>> >> /\ toAgent[s] = <<>>
      BY <2>1, <2>3, <3>1, <1>2 DEF ThreadKeeps
    <3>3. /\ Head(toSim[s]) = <<hand[s]>> /\ Head(<<hand[s]>>) = hand[s]
          /\ Tail(toSim[s]) = <<>>
          /\ Append(<<>>, hand[s]) = <<hand[s]>>
      BY <3>2
    <3>4. toSim'[s] = <<>> /\ toAgent'[s] = <<hand[s]>>
      BY <1>1, <1>2, <3>2, <3>3 DEF MyType
    <3>5. received'[hand[s]] > 0
      BY <3>1, <3>3, <1>8
    <3>6. ToSet(file[s]) \subseteq {hand[s]}
      BY <2>1, <2>3 DEF ThreadKeeps
    <3>7. QED
      BY <2>3, <3>4, <3>5, <3>6, <1>2 DEF ThreadKeeps
  <2>4. QED
    BY <2>2, <2>3
<1>10. ASSUME NEW t \in Sender PROVE ThreadKeeps(t)'
  <2>1. CASE t = s
    BY <2>1, <1>9
  <2>2. CASE t # s
    <3>1. /\ toSim'[t] = toSim[t] /\ toAgent'[t] = toAgent[t]
      BY <2>2, <1>1, <1>2 DEF MyType
    <3>2. QED
      BY <1>1, <1>2, <1>3, <1>8, <3>1, OthersKeep
  <2>3. QED
    BY <2>1, <2>2
<1>11. NothingLostBeforeRecovery'
  BY <1>1, <1>2, <1>3, <1>8, StillKept
<1>12. QED
  BY <1>10, <1>11 DEF Kept

LEMMA CrashKeeps ==
  ASSUME AgentShape, Kept, ~recovered', Crash
  PROVE  Kept'
<1>1. MyType
  BY DEF AgentShape
<1>2. /\ pc' = [t \in Sender |-> "connect"] /\ request' = request /\ file' = file
      /\ kind' = kind /\ unsaved' = unsaved /\ recovered' = recovered
  BY DEF Crash
<1>3. NothingLostBeforeRecovery
  BY <1>2 DEF Kept
<1>4. \A m \in Msg : received'[m] \in Nat /\ received[m] <= received'[m]
  <2>1. \A m \in Msg : received[m] \in Nat
    BY <1>1 DEF MyType
  <2>2. \A m \in Msg : \E c \in Nat : received'[m] = received[m] + c
    BY <1>1, CrashCounts
  <2>3. QED
    BY <2>1, <2>2
<1>5. NothingLostBeforeRecovery'
  BY <1>1, <1>2, <1>3, <1>4, StillKept
<1>6. \A t \in Sender : ThreadKeeps(t)'
  BY <1>2 DEF ThreadKeeps
<1>7. QED
  BY <1>5, <1>6 DEF Kept

LEMMA KeptStep == AgentShape /\ Kept /\ [MyNext]_myVars => Kept'
<1> SUFFICES ASSUME AgentShape, Kept, [MyNext]_myVars PROVE Kept'
  OBVIOUS
<1>1. CASE recovered'
  BY <1>1 DEF Kept
<1>2. CASE ~recovered'
  <2>1. \/ \E s \in Sender : \/ processMessageThread(s) \/ BackupFails(s) \/ CommitFails(s)
                             \/ QueueFails(s) \/ Break(s) \/ SimTakes(s)
        \/ Crash
        \/ Elsewhere
    BY MySteps DEF AgentShape, MyType
  <2>2. ASSUME NEW s \in Sender, QueueFails(s) PROVE Kept'
    <3>1. /\ hand' = [hand EXCEPT ![s] = NoMsg] /\ pc' = [pc EXCEPT ![s] = "connect"]
          /\ Dropped(s) /\ request' = request /\ file' = file /\ unsaved' = unsaved
          /\ recovered' = recovered /\ kind' = kind
      BY <2>2 DEF QueueFails, Goto
    <3>2. QED
      BY <1>2, <3>1, DroppedKeeps
  <2>3. ASSUME NEW s \in Sender, Break(s) PROVE Kept'
    <3>1. /\ hand' = hand /\ pc' = pc
          /\ Dropped(s) /\ request' = request /\ file' = file /\ unsaved' = unsaved
          /\ recovered' = recovered /\ kind' = kind
      BY <2>3 DEF Break, agentVars
    <3>2. QED
      BY <1>2, <3>1, DroppedKeeps
  <2>4. ASSUME Elsewhere PROVE Kept'
    BY <2>4 DEF Elsewhere, wireVars, Kept, NothingLostBeforeRecovery, ThreadKeeps
  <2>5. QED
    BY <1>2, <2>1, <2>2, <2>3, <2>4, ThreadsKeep, SimTakesKeeps, CrashKeeps
<1>3. QED
  BY <1>1, <1>2

LEMMA KeptStarts == MyInit => Kept
<1> SUFFICES ASSUME MyInit PROVE Kept
  OBVIOUS
<1>1. NumMsgs \in Nat
  BY MyAgentAssumption
<1>2. ToSet(request) = Msg
  BY <1>1 DEF MyInit, ToSet, Msg
<1>3. NothingLostBeforeRecovery
  BY <1>2 DEF NothingLostBeforeRecovery
<1>4. \A s \in Sender : ThreadKeeps(s)
  BY DEF MyInit, ThreadKeeps
<1>5. QED
  BY <1>3, <1>4 DEF Kept

(***************************************************************************)
(* As long as no backup file was sent again, every valid message that      *)
(* could be backed up is in the request queue, in a backup file or with    *)
(* the carrier (MyAgent.processMessageThread()).                           *)
(***************************************************************************)
THEOREM NothingIsLost == MySpec => []NothingLostBeforeRecovery
<1>1. MyInit => AgentShape /\ Kept
  BY MyStarts, KeptStarts
<1>2. AgentShape /\ Kept /\ [MyNext]_myVars => (AgentShape /\ Kept)'
  BY MyShapeStep, KeptStep
<1>3. AgentShape /\ Kept => NothingLostBeforeRecovery
  BY DEF Kept, NothingLostBeforeRecovery
<1>4. QED
  BY <1>1, <1>2, <1>3, PTL DEF MySpec

-----------------------------------------------------------------------------
(* MyAgent: faults pay for repeats *)

Bit(b) == IF b THEN 1 ELSE 0

LEMMA Injects ==
  ASSUME NEW S, NEW T, NEW f \in [S -> T], IsFiniteSet(T),
         \A a, b \in S : f[a] = f[b] => a = b
  PROVE  IsFiniteSet(S) /\ Cardinality(S) \in Nat /\ Cardinality(S) <= Cardinality(T)
<1>1. f \in Injection(S, T)
  BY DEF Injection, IsInjective
<1>2. QED
  BY <1>1, FS_Injection, FS_CardinalityType

LEMMA CountsAreNumbers ==
  ASSUME NEW m \in Msg
  PROVE  /\ IsFiniteSet(Sends(m)) /\ Cardinality(Sends(m)) \in Nat
         /\ IsFiniteSet(Owing) /\ Cardinality(Owing) \in Nat
         /\ Cardinality(Owing) <= Cardinality(Sender)
         /\ Waits(m) \in {0, 1} /\ Cardinality(Sender) \in Nat
<1>1. IsFiniteSet(Sender)
  BY MyAgentAssumption
<1>2. Sends(m) \in SUBSET Sender /\ Owing \in SUBSET Sender
  BY DEF Sends, Owing
<1>3. QED
  BY <1>1, <1>2, FS_Subset, FS_CardinalityType DEF Waits

\* A step of one thread changes the counts by that thread only.
LEMMA LocalCounts ==
  ASSUME NEW s \in Sender, NEW m \in Msg,
         \A t \in Sender : t # s => /\ pc'[t] = pc[t] /\ hand'[t] = hand[t]
                                    /\ conn'[t] = conn[t] /\ file'[t] = file[t]
  PROVE  /\ Cardinality(Sends(m)') \in Nat /\ Cardinality(Owing') \in Nat
         /\ Cardinality(Sends(m)') + Bit(s \in Sends(m)) =
               Cardinality(Sends(m)) + Bit(s \in Sends(m)')
         /\ Cardinality(Owing') + Bit(s \in Owing) = Cardinality(Owing) + Bit(s \in Owing')
<1>1. Sends(m) \ {s} = Sends(m)' \ {s}
  BY DEF Sends
<1>2. Owing \ {s} = Owing' \ {s}
  BY DEF Owing
<1>3. IsFiniteSet(Sends(m)) /\ IsFiniteSet(Owing)
  BY CountsAreNumbers
<1> DEFINE H == Sends(m)  G == Sends(m)'
<1>4. /\ Cardinality(G) \in Nat /\ Cardinality(H) \in Nat
      /\ s \in H /\ s \notin G => Cardinality(H) = Cardinality(G) + 1
      /\ s \notin H /\ s \in G => Cardinality(G) = Cardinality(H) + 1
      /\ (s \in H <=> s \in G) => Cardinality(G) = Cardinality(H)
  BY <1>1, <1>3, SizeButOne
<1>5. Cardinality(G) + Bit(s \in H) = Cardinality(H) + Bit(s \in G)
  <2> HIDE DEF H, G
  <2>1. QED
    BY <1>4 DEF Bit
<1> DEFINE U == Owing  V == Owing'
<1>6. /\ Cardinality(V) \in Nat /\ Cardinality(U) \in Nat
      /\ s \in U /\ s \notin V => Cardinality(U) = Cardinality(V) + 1
      /\ s \notin U /\ s \in V => Cardinality(V) = Cardinality(U) + 1
      /\ (s \in U <=> s \in V) => Cardinality(V) = Cardinality(U)
  BY <1>2, <1>3, SizeButOne
<1>7. Cardinality(V) + Bit(s \in U) = Cardinality(U) + Bit(s \in V)
  <2> HIDE DEF U, V
  <2>1. QED
    BY <1>6 DEF Bit
<1>8. QED
  BY <1>4, <1>5, <1>6, <1>7

\* What a step of a thread adds to the frames under way, to the queue, to the
\* messages about to be sent and to the files owed is what it takes away, or
\* a fault pays for it.
LEMMA LocalPaid ==
  ASSUME AgentShape, NEW s \in Sender, NEW m \in Msg, Paid(m), IsFiniteSet(InFlight(m)),
         \A t \in Sender : t # s => /\ pc'[t] = pc[t] /\ hand'[t] = hand[t]
                                    /\ conn'[t] = conn[t] /\ file'[t] = file[t],
         received' = received, crashes' = crashes, breaks' \in Nat,
         NEW more \in Nat, Cardinality(InFlight(m)') = Cardinality(InFlight(m)) + more,
         more + Waits(m)' + breaks + Bit(s \in Sends(m)') + Bit(s \in Owing')
            <= Waits(m) + breaks' + Bit(s \in Sends(m)) + Bit(s \in Owing)
  PROVE  Paid(m)'
<1> DEFINE I == Cardinality(InFlight(m))  S == Cardinality(Sends(m))  O == Cardinality(Owing)
           C == Cardinality(Sender)  W == Waits(m)
           s1 == Bit(s \in Sends(m))  o1 == Bit(s \in Owing)
           I2 == Cardinality(InFlight(m)')  S2 == Cardinality(Sends(m)')
           O2 == Cardinality(Owing')  W2 == Waits(m)'
           s2 == Bit(s \in Sends(m)')  o2 == Bit(s \in Owing')
<1>1. /\ received[m] \in Nat /\ breaks \in Nat /\ crashes \in Nat
      /\ received'[m] = received[m]
  BY DEF AgentShape, MyType
<1>2. I \in Nat
  BY FS_CardinalityType
<1>3. S \in Nat /\ O \in Nat /\ C \in Nat /\ W \in Nat
  BY CountsAreNumbers
<1>4. S2 \in Nat /\ O2 \in Nat /\ S2 + s1 = S + s2 /\ O2 + o1 = O + o2
  BY LocalCounts
<1>5. s1 \in Nat /\ o1 \in Nat /\ s2 \in Nat /\ o2 \in Nat /\ W2 \in Nat
  BY DEF Bit, Waits
<1>6. I2 \in Nat /\ I2 = I + more
  BY <1>2
<1>7. more + W2 + breaks + s2 + o2 <= W + breaks' + s1 + o1
  OBVIOUS
<1> DEFINE P == C * crashes
<1>8. received[m] + I + W + S + O <= 1 + breaks + P
  BY DEF Paid
<1>9. P \in Nat
  BY <1>1, <1>3
<1>a. C * crashes' = P
  OBVIOUS
<1> HIDE DEF I, S, O, C, W, s1, o1, I2, S2, O2, W2, s2, o2, P
<1>10. received[m] + I2 + W2 + S2 + O2 <= 1 + breaks' + P
  <2> DEFINE r == received[m]
             b1 == breaks
             b2 == breaks'
  <2>1. /\ r \in Nat /\ b1 \in Nat /\ b2 \in Nat
        /\ r + I + W + S + O <= 1 + b1 + P
        /\ more + W2 + b1 + s2 + o2 <= W + b2 + s1 + o1
    BY <1>1, <1>7, <1>8
  <2> HIDE DEF r, b1, b2
  <2>2. r + I2 + W2 + S2 + O2 <= 1 + b2 + P
    <3>1. I2 + S2 + O2 + s1 + o1 = I + S + O + more + s2 + o2
      BY <1>2, <1>3, <1>4, <1>5, <1>6
    <3>2. r + I + W + S + O + more + W2 + b1 + s2 + o2 <= 1 + b1 + P + W + b2 + s1 + o1
      BY <2>1, <1>2, <1>3, <1>4, <1>5, <1>6, <1>9
    <3>3. QED
      BY <3>1, <3>2, <2>1, <1>2, <1>3, <1>4, <1>5, <1>6, <1>9
  <2>3. QED
    BY <2>2 DEF r, b2
<1>11. received'[m] + I2 + W2 + S2 + O2 <= 1 + breaks' + C * crashes'
  BY <1>1, <1>a, <1>10
<1>12. QED
  BY <1>11 DEF Paid, I, S, O, C, W, I2, S2, O2, W2

\* A frame that is sent.
LEMMA SentCounts ==
  ASSUME MyType, NEW s \in Sender, NEW m \in Msg, IsFiniteSet(InFlight(m)),
         NEW fr \in Frame, toSim' = [toSim EXCEPT ![s] = Append(toSim[s], fr)]
  PROVE  /\ IsFiniteSet(InFlight(m)')
         /\ Cardinality(InFlight(m)') = Cardinality(InFlight(m)) + Bit(Head(fr) = m)
<1> DEFINE q == toSim[s]
           new == <<s, Len(q) + 1>>
<1>1. q \in Seq(Frame) /\ Len(q) \in Nat /\ Len(q) + 1 \in Nat
  BY DEF MyType
<1>2. toSim'[s] = Append(q, fr) /\ \A t \in Sender : t # s => toSim'[t] = toSim[t]
  BY DEF MyType
<1>3. /\ Len(Append(q, fr)) = Len(q) + 1 /\ Append(q, fr)[Len(q) + 1] = fr
      /\ \A i \in 1..Len(q) : Append(q, fr)[i] = q[i]
  BY <1>1, AppendProperties
<1>4. new \notin InFlight(m)
  BY <1>1 DEF InFlight
<1>5. InFlight(m)' = IF Head(fr) = m THEN InFlight(m) \cup {new} ELSE InFlight(m)
  <2>1. ASSUME NEW t \in Sender, NEW i \in Nat
        PROVE  <<t, i>> \in InFlight(m)' <=>
                  \/ <<t, i>> \in InFlight(m)
                  \/ <<t, i>> = new /\ Head(fr) = m
    <3>1. /\ <<t, i>> \in InFlight(m)' <=> i \in 1..Len(toSim'[t]) /\ Head(toSim'[t][i]) = m
          /\ <<t, i>> \in InFlight(m) <=> i \in 1..Len(toSim[t]) /\ Head(toSim[t][i]) = m
      BY DEF InFlight
    <3>2. CASE t # s
      BY <3>1, <3>2, <1>2
    <3>3. CASE t = s
      <4>1. CASE i = Len(q) + 1
        BY <3>1, <3>3, <4>1, <1>1, <1>2, <1>3
      <4>2. CASE i # Len(q) + 1
        <5>1. i \in 1..Len(toSim'[t]) <=> i \in 1..Len(q)
          BY <3>3, <4>2, <1>1, <1>2, <1>3
        <5>2. QED
          BY <3>1, <3>3, <4>2, <5>1, <1>2, <1>3
      <4>3. QED
        BY <4>1, <4>2
    <3>4. QED
      BY <3>2, <3>3
  <2>2. /\ InFlight(m) \subseteq Sender \X Nat /\ InFlight(m)' \subseteq Sender \X Nat
        /\ new \in Sender \X Nat
    BY <1>1 DEF InFlight
  <2>3. ASSUME NEW p
        PROVE  p \in InFlight(m)' <=> \/ p \in InFlight(m)
                                      \/ p = new /\ Head(fr) = m
    <3>1. CASE p \in Sender \X Nat
      <4>1. PICK t \in Sender : \E i \in Nat : p = <<t, i>>
        BY <3>1
      <4>2. PICK i \in Nat : p = <<t, i>>
        BY <4>1
      <4>3. QED
        BY <4>2, <2>1
    <3>2. CASE p \notin Sender \X Nat
      BY <3>2, <2>2
    <3>3. QED
      BY <3>1, <3>2
  <2> HIDE DEF new
  <2>4. QED
    BY <2>3
<1> HIDE DEF new
<1>6. CASE Head(fr) = m
  <2>1. InFlight(m)' = InFlight(m) \cup {new}
    BY <1>5, <1>6
  <2>2. QED
    BY <2>1, <1>4, <1>6, FS_AddElement DEF Bit
<1>7. CASE Head(fr) # m
  <2>1. InFlight(m)' = InFlight(m) /\ Bit(Head(fr) = m) = 0
    BY <1>5, <1>7 DEF Bit
  <2>2. Cardinality(InFlight(m)) \in Nat
    BY FS_CardinalityType
  <2>3. QED
    BY <2>1, <2>2
<1>8. QED
  BY <1>6, <1>7

\* The queue without its first message.
LEMMA WaitsNoMore ==
  ASSUME NoRepeats(request), request \in Seq(Msg), request # <<>>,
         request' = Tail(request), NEW m \in Msg
  PROVE  Waits(m) = Waits(m)' + Bit(m = Head(request))
<1>1. ToSet(request) = {Head(request)} \cup ToSet(request')
  BY RangeTail, ToSetIsRange
<1>2. Head(request) \notin ToSet(request')
  BY TailNoRepeats, ToSetIsRange
<1>3. QED
  BY <1>1, <1>2 DEF Waits, Bit

LEMMA ThreadsPay ==
  ASSUME AgentShape, NEW m \in Msg, NoRepeats(request), IsFiniteSet(InFlight(m)), Paid(m),
         NEW s \in Sender, processMessageThread(s) \/ BackupFails(s) \/ CommitFails(s)
  PROVE  IsFiniteSet(InFlight(m)') /\ Paid(m)'
<1>1. MyType /\ \A t \in Sender : ThreadShape(t)
  BY DEF AgentShape
<1>2. /\ request \in Seq(Msg)
      /\ pc[s] \in {"connect", "recover", "read", "backup", "commit", "send",
                    "ack", "delete", "ended"}
      /\ hand[s] \in Msg \cup {NoMsg} /\ conn[s] \in BOOLEAN
      /\ file[s] \in Seq(Msg) /\ breaks \in Nat
  BY <1>1, ShapeOfThread
<1>3. /\ Cardinality(InFlight(m)) \in Nat /\ Waits(m) \in Nat
      /\ (toSim' = toSim => /\ IsFiniteSet(InFlight(m)')
                           /\ Cardinality(InFlight(m)') = Cardinality(InFlight(m)) + 0)
  <2>1. Cardinality(InFlight(m)) \in Nat
    BY FS_CardinalityType
  <2>2. toSim' = toSim => InFlight(m)' = InFlight(m)
    BY DEF InFlight
  <2>3. QED
    BY <2>1, <2>2 DEF Waits
<1>4. CASE Connect(s)
  <2>1. /\ pc[s] = "connect"
        /\ conn' = [conn EXCEPT ![s] = TRUE]
        /\ pc' = [pc EXCEPT ![s] = IF file[s] = <<>> THEN "read" ELSE "recover"]
        /\ request' = request /\ hand' = hand /\ toSim' = toSim
        /\ file' = file /\ received' = received /\ breaks' = breaks
        /\ crashes' = crashes
    BY <1>4 DEF Connect, Goto, wireVars, simVars, faultVars
  <2>2. /\ pc'[s] = (IF file[s] = <<>> THEN "read" ELSE "recover")
        /\ hand'[s] = hand[s]
        /\ conn'[s] = TRUE
        /\ file'[s] = file[s]
        /\ \A t \in Sender : t # s => /\ pc'[t] = pc[t] /\ hand'[t] = hand[t]
                                       /\ conn'[t] = conn[t] /\ file'[t] = file[t]
    BY <1>1, <2>1 DEF MyType
  <2>3. ThreadShape(s)
    BY <1>1
  <2>5. /\ IsFiniteSet(InFlight(m)')
        /\ Cardinality(InFlight(m)') = Cardinality(InFlight(m)) + 0
    BY <1>3, <2>1
  <2>6. /\ s \notin Sends(m)'
        /\ s \in Owing' => s \in Owing
    BY <1>2, <2>1, <2>2, <2>3 DEF Sends, Owing, ThreadShape
  <2>7. Waits(m)' = Waits(m)
    BY <2>1 DEF Waits
  <2>8. /\ 0 \in Nat /\ breaks' \in Nat
        /\ 0 + Waits(m)' + breaks + Bit(s \in Sends(m)') + Bit(s \in Owing')
              <= Waits(m) + breaks' + Bit(s \in Sends(m)) + Bit(s \in Owing)
    BY <1>2, <1>3, <2>1, <2>6, <2>7 DEF Bit
  <2>9. QED
    BY <2>1, <2>2, <2>5, <2>8, LocalPaid
<1>5. CASE RecoveryMessage(s)
  <2>1. /\ pc[s] = "recover" /\ conn[s]
        /\ toSim' = [toSim EXCEPT ![s] = Append(toSim[s], file[s])]
        /\ pc' = [pc EXCEPT ![s] = "read"]
        /\ request' = request /\ hand' = hand /\ conn' = conn /\ file' = file
        /\ received' = received /\ breaks' = breaks /\ crashes' = crashes
    BY <1>5 DEF RecoveryMessage, Goto, wireVars, simVars, faultVars
  <2>2. /\ pc'[s] = "read"
        /\ hand'[s] = hand[s]
        /\ conn'[s] = conn[s]
        /\ file'[s] = file[s]
        /\ \A t \in Sender : t # s => /\ pc'[t] = pc[t] /\ hand'[t] = hand[t]
                                       /\ conn'[t] = conn[t] /\ file'[t] = file[t]
    BY <1>1, <2>1 DEF MyType
  <2>3. ThreadShape(s)
    BY <1>1
  <2>4. file[s] \in Frame
    BY <1>2, <2>1, <2>3 DEF ThreadShape, Frame
  <2>5. /\ IsFiniteSet(InFlight(m)')
        /\ Cardinality(InFlight(m)') = Cardinality(InFlight(m)) + Bit(Head(file[s]) = m)
    BY <1>1, <2>1, <2>4, SentCounts
  <2>6. /\ s \notin Sends(m)'
        /\ s \in Owing
        /\ s \notin Owing'
    BY <1>2, <2>1, <2>2, <2>3 DEF Sends, Owing, ThreadShape
  <2>7. Waits(m)' = Waits(m)
    BY <2>1 DEF Waits
  <2>8. /\ Bit(Head(file[s]) = m) \in Nat /\ breaks' \in Nat
        /\ Bit(Head(file[s]) = m) + Waits(m)' + breaks + Bit(s \in Sends(m)') + Bit(s \in Owing')
              <= Waits(m) + breaks' + Bit(s \in Sends(m)) + Bit(s \in Owing)
    BY <1>2, <1>3, <2>1, <2>6, <2>7 DEF Bit
  <2>9. QED
    BY <2>1, <2>2, <2>5, <2>8, LocalPaid
<1>6. CASE RecoveryFails(s)
  <2>1. /\ pc[s] = "recover"
        /\ pc' = [pc EXCEPT ![s] = "ended"]
        /\ request' = request /\ hand' = hand /\ conn' = conn
        /\ toSim' = toSim /\ file' = file /\ received' = received
        /\ breaks' = breaks /\ crashes' = crashes
    BY <1>6 DEF RecoveryFails, Goto, wireVars, simVars, faultVars
  <2>2. /\ pc'[s] = "ended"
        /\ hand'[s] = hand[s]
        /\ conn'[s] = conn[s]
        /\ file'[s] = file[s]
        /\ \A t \in Sender : t # s => /\ pc'[t] = pc[t] /\ hand'[t] = hand[t]
                                       /\ conn'[t] = conn[t] /\ file'[t] = file[t]
    BY <1>1, <2>1 DEF MyType
  <2>3. ThreadShape(s)
    BY <1>1
  <2>5. /\ IsFiniteSet(InFlight(m)')
        /\ Cardinality(InFlight(m)') = Cardinality(InFlight(m)) + 0
    BY <1>3, <2>1
  <2>6. /\ s \notin Sends(m)'
        /\ s \in Owing' => s \in Owing
    BY <1>2, <2>1, <2>2, <2>3 DEF Sends, Owing, ThreadShape
  <2>7. Waits(m)' = Waits(m)
    BY <2>1 DEF Waits
  <2>8. /\ 0 \in Nat /\ breaks' \in Nat
        /\ 0 + Waits(m)' + breaks + Bit(s \in Sends(m)') + Bit(s \in Owing')
              <= Waits(m) + breaks' + Bit(s \in Sends(m)) + Bit(s \in Owing)
    BY <1>2, <1>3, <2>1, <2>6, <2>7 DEF Bit
  <2>9. QED
    BY <2>1, <2>2, <2>5, <2>8, LocalPaid
<1>7. CASE readXA(s)
  <2>1. /\ pc[s] = "read" /\ xa \subseteq {s} /\ request # <<>>
        /\ hand' = [hand EXCEPT ![s] = Head(request)]
        /\ pc' = [pc EXCEPT ![s] = "backup"]
        /\ request' = request /\ conn' = conn /\ toSim' = toSim
        /\ file' = file /\ received' = received /\ breaks' = breaks
        /\ crashes' = crashes
    BY <1>7 DEF readXA, Goto, wireVars, simVars, faultVars
  <2>2. /\ pc'[s] = "backup"
        /\ hand'[s] = Head(request)
        /\ conn'[s] = conn[s]
        /\ file'[s] = file[s]
        /\ \A t \in Sender : t # s => /\ pc'[t] = pc[t] /\ hand'[t] = hand[t]
                                       /\ conn'[t] = conn[t] /\ file'[t] = file[t]
    BY <1>1, <2>1 DEF MyType
  <2>3. ThreadShape(s)
    BY <1>1
  <2>5. /\ IsFiniteSet(InFlight(m)')
        /\ Cardinality(InFlight(m)') = Cardinality(InFlight(m)) + 0
    BY <1>3, <2>1
  <2>6. /\ s \notin Sends(m)'
        /\ s \in Owing' => s \in Owing
    BY <1>2, <2>1, <2>2, <2>3 DEF Sends, Owing, ThreadShape
  <2>7. Waits(m)' = Waits(m)
    BY <2>1 DEF Waits
  <2>8. /\ 0 \in Nat /\ breaks' \in Nat
        /\ 0 + Waits(m)' + breaks + Bit(s \in Sends(m)') + Bit(s \in Owing')
              <= Waits(m) + breaks' + Bit(s \in Sends(m)) + Bit(s \in Owing)
    BY <1>2, <1>3, <2>1, <2>6, <2>7 DEF Bit
  <2>9. QED
    BY <2>1, <2>2, <2>5, <2>8, LocalPaid
<1>8. CASE writeMessageToFile(s)
  <2>1. /\ pc[s] = "backup"
        /\ file' = [file EXCEPT ![s] = Append(file[s], hand[s])]
        /\ pc' = [pc EXCEPT ![s] = "commit"]
        /\ request' = request /\ hand' = hand /\ conn' = conn
        /\ toSim' = toSim /\ received' = received /\ breaks' = breaks
        /\ crashes' = crashes
    BY <1>8 DEF writeMessageToFile, Goto, wireVars, simVars, faultVars
  <2>2. /\ pc'[s] = "commit"
        /\ hand'[s] = hand[s]
        /\ conn'[s] = conn[s]
        /\ file'[s] = Append(file[s], hand[s])
        /\ \A t \in Sender : t # s => /\ pc'[t] = pc[t] /\ hand'[t] = hand[t]
                                       /\ conn'[t] = conn[t] /\ file'[t] = file[t]
    BY <1>1, <2>1 DEF MyType
  <2>3. ThreadShape(s)
    BY <1>1
  <2>5. /\ IsFiniteSet(InFlight(m)')
        /\ Cardinality(InFlight(m)') = Cardinality(InFlight(m)) + 0
    BY <1>3, <2>1
  <2>6. /\ s \notin Sends(m)'
        /\ s \in Owing' => s \in Owing
    BY <1>2, <2>1, <2>2, <2>3 DEF Sends, Owing, ThreadShape
  <2>7. Waits(m)' = Waits(m)
    BY <2>1 DEF Waits
  <2>8. /\ 0 \in Nat /\ breaks' \in Nat
        /\ 0 + Waits(m)' + breaks + Bit(s \in Sends(m)') + Bit(s \in Owing')
              <= Waits(m) + breaks' + Bit(s \in Sends(m)) + Bit(s \in Owing)
    BY <1>2, <1>3, <2>1, <2>6, <2>7 DEF Bit
  <2>9. QED
    BY <2>1, <2>2, <2>5, <2>8, LocalPaid
<1>9. CASE BackupFails(s)
  <2>1. /\ pc[s] = "backup"
        /\ breaks' = breaks + 1
        /\ pc' = [pc EXCEPT ![s] = "commit"]
        /\ request' = request /\ hand' = hand /\ conn' = conn
        /\ toSim' = toSim /\ file' = file /\ received' = received
        /\ crashes' = crashes
    BY <1>9 DEF BackupFails, Goto, wireVars, simVars, faultVars
  <2>2. /\ pc'[s] = "commit"
        /\ hand'[s] = hand[s]
        /\ conn'[s] = conn[s]
        /\ file'[s] = file[s]
        /\ \A t \in Sender : t # s => /\ pc'[t] = pc[t] /\ hand'[t] = hand[t]
                                       /\ conn'[t] = conn[t] /\ file'[t] = file[t]
    BY <1>1, <2>1 DEF MyType
  <2>3. ThreadShape(s)
    BY <1>1
  <2>5. /\ IsFiniteSet(InFlight(m)')
        /\ Cardinality(InFlight(m)') = Cardinality(InFlight(m)) + 0
    BY <1>3, <2>1
  <2>6. /\ s \notin Sends(m)'
        /\ s \in Owing' => s \in Owing
    BY <1>2, <2>1, <2>2, <2>3 DEF Sends, Owing, ThreadShape
  <2>7. Waits(m)' = Waits(m)
    BY <2>1 DEF Waits
  <2>8. /\ 0 \in Nat /\ breaks' \in Nat
        /\ 0 + Waits(m)' + breaks + Bit(s \in Sends(m)') + Bit(s \in Owing')
              <= Waits(m) + breaks' + Bit(s \in Sends(m)) + Bit(s \in Owing)
    BY <1>2, <1>3, <2>1, <2>6, <2>7 DEF Bit
  <2>9. QED
    BY <2>1, <2>2, <2>5, <2>8, LocalPaid
<1>10. CASE commitXA(s)
  <2>1. /\ pc[s] = "commit"
        /\ request' = Tail(request)
        /\ pc' = [pc EXCEPT ![s] = IF kind[hand[s]] = "valid" THEN "send" ELSE "delete"]
        /\ hand' = hand /\ conn' = conn /\ toSim' = toSim /\ file' = file
        /\ received' = received /\ breaks' = breaks /\ crashes' = crashes
    BY <1>10 DEF commitXA, Goto, wireVars, simVars, faultVars, AfterCommit
  <2>2. /\ pc'[s] = (IF kind[hand[s]] = "valid" THEN "send" ELSE "delete")
        /\ hand'[s] = hand[s]
        /\ conn'[s] = conn[s]
        /\ file'[s] = file[s]
        /\ \A t \in Sender : t # s => /\ pc'[t] = pc[t] /\ hand'[t] = hand[t]
                                       /\ conn'[t] = conn[t] /\ file'[t] = file[t]
    BY <1>1, <2>1 DEF MyType
  <2>3. ThreadShape(s)
    BY <1>1
  <2>5. /\ IsFiniteSet(InFlight(m)')
        /\ Cardinality(InFlight(m)') = Cardinality(InFlight(m)) + 0
    BY <1>3, <2>1
  <2>6. /\ s \in Sends(m)' => m = hand[s]
        /\ s \in Owing' => s \in Owing
    BY <1>2, <2>1, <2>2, <2>3 DEF Sends, Owing, ThreadShape
  <2>7. Waits(m) = Waits(m)' + Bit(m = hand[s]) /\ Waits(m)' \in Nat
    <3>1. request # <<>> /\ hand[s] = Head(request)
      BY <2>1, <2>3 DEF ThreadShape
    <3>2. Waits(m) = Waits(m)' + Bit(m = hand[s])
      BY <1>2, <2>1, <3>1, WaitsNoMore
    <3>3. QED
      BY <3>2 DEF Waits
  <2>8. /\ 0 \in Nat /\ breaks' \in Nat
        /\ 0 + Waits(m)' + breaks + Bit(s \in Sends(m)') + Bit(s \in Owing')
              <= Waits(m) + breaks' + Bit(s \in Sends(m)) + Bit(s \in Owing)
    BY <1>2, <1>3, <2>1, <2>6, <2>7 DEF Bit
  <2>9. QED
    BY <2>1, <2>2, <2>5, <2>8, LocalPaid
<1>11. CASE Send(s)
  <2>1. /\ pc[s] = "send" /\ conn[s]
        /\ toSim' = [toSim EXCEPT ![s] = Append(toSim[s], <<hand[s]>>)]
        /\ pc' = [pc EXCEPT ![s] = "ack"]
        /\ request' = request /\ hand' = hand /\ conn' = conn /\ file' = file
        /\ received' = received /\ breaks' = breaks /\ crashes' = crashes
    BY <1>11 DEF Send, Goto, wireVars, simVars, faultVars
  <2>2. /\ pc'[s] = "ack"
        /\ hand'[s] = hand[s]
        /\ conn'[s] = conn[s]
        /\ file'[s] = file[s]
        /\ \A t \in Sender : t # s => /\ pc'[t] = pc[t] /\ hand'[t] = hand[t]
                                       /\ conn'[t] = conn[t] /\ file'[t] = file[t]
    BY <1>1, <2>1 DEF MyType
  <2>3. ThreadShape(s)
    BY <1>1
  <2>4. <<hand[s]>> \in Frame /\ Head(<<hand[s]>>) = hand[s]
    BY <2>1, <2>3 DEF ThreadShape, Frame
  <2>5. /\ IsFiniteSet(InFlight(m)')
        /\ Cardinality(InFlight(m)') = Cardinality(InFlight(m)) + Bit(Head(<<hand[s]>>) = m)
    BY <1>1, <2>1, <2>4, SentCounts
  <2>6. /\ s \in Sends(m) <=> hand[s] = m
        /\ s \notin Sends(m)'
        /\ s \in Owing' => s \in Owing
    BY <1>2, <2>1, <2>2, <2>3 DEF Sends, Owing, ThreadShape
  <2>7. Waits(m)' = Waits(m)
    BY <2>1 DEF Waits
  <2>8. /\ Bit(Head(<<hand[s]>>) = m) \in Nat /\ breaks' \in Nat
        /\ Bit(Head(<<hand[s]>>) = m) + Waits(m)' + breaks + Bit(s \in Sends(m)') + Bit(s \in Owing')
              <= Waits(m) + breaks' + Bit(s \in Sends(m)) + Bit(s \in Owing)
    BY <1>2, <1>3, <2>1, <2>4, <2>6, <2>7 DEF Bit
  <2>9. QED
    BY <2>1, <2>2, <2>5, <2>8, LocalPaid
<1>12. CASE ReadAck(s)
  <2>1. /\ pc[s] = "ack" /\ toAgent[s] # <<>>
        /\ pc' = [pc EXCEPT ![s] = "delete"]
        /\ request' = request /\ hand' = hand /\ conn' = conn
        /\ toSim' = toSim /\ file' = file /\ received' = received
        /\ breaks' = breaks /\ crashes' = crashes
    BY <1>12 DEF ReadAck, Goto, wireVars, simVars, faultVars
  <2>2. /\ pc'[s] = "delete"
        /\ hand'[s] = hand[s]
        /\ conn'[s] = conn[s]
        /\ file'[s] = file[s]
        /\ \A t \in Sender : t # s => /\ pc'[t] = pc[t] /\ hand'[t] = hand[t]
                                       /\ conn'[t] = conn[t] /\ file'[t] = file[t]
    BY <1>1, <2>1 DEF MyType
  <2>3. ThreadShape(s)
    BY <1>1
  <2>5. /\ IsFiniteSet(InFlight(m)')
        /\ Cardinality(InFlight(m)') = Cardinality(InFlight(m)) + 0
    BY <1>3, <2>1
  <2>6. /\ s \notin Sends(m)'
        /\ s \in Owing' => s \in Owing
    BY <1>2, <2>1, <2>2, <2>3 DEF Sends, Owing, ThreadShape
  <2>7. Waits(m)' = Waits(m)
    BY <2>1 DEF Waits
  <2>8. /\ 0 \in Nat /\ breaks' \in Nat
        /\ 0 + Waits(m)' + breaks + Bit(s \in Sends(m)') + Bit(s \in Owing')
              <= Waits(m) + breaks' + Bit(s \in Sends(m)) + Bit(s \in Owing)
    BY <1>2, <1>3, <2>1, <2>6, <2>7 DEF Bit
  <2>9. QED
    BY <2>1, <2>2, <2>5, <2>8, LocalPaid
<1>13. CASE deleteFile(s)
  <2>1. /\ pc[s] = "delete"
        /\ file' = [file EXCEPT ![s] = <<>>]
        /\ hand' = [hand EXCEPT ![s] = NoMsg]
        /\ pc' = [pc EXCEPT ![s] = "read"]
        /\ request' = request /\ conn' = conn /\ toSim' = toSim
        /\ received' = received /\ breaks' = breaks /\ crashes' = crashes
    BY <1>13 DEF deleteFile, Goto, wireVars, simVars, faultVars
  <2>2. /\ pc'[s] = "read"
        /\ hand'[s] = NoMsg
        /\ conn'[s] = conn[s]
        /\ file'[s] = <<>>
        /\ \A t \in Sender : t # s => /\ pc'[t] = pc[t] /\ hand'[t] = hand[t]
                                       /\ conn'[t] = conn[t] /\ file'[t] = file[t]
    BY <1>1, <2>1 DEF MyType
  <2>3. ThreadShape(s)
    BY <1>1
  <2>5. /\ IsFiniteSet(InFlight(m)')
        /\ Cardinality(InFlight(m)') = Cardinality(InFlight(m)) + 0
    BY <1>3, <2>1
  <2>6. /\ s \notin Sends(m)'
        /\ s \in Owing' => s \in Owing
    BY <1>2, <2>1, <2>2, <2>3 DEF Sends, Owing, ThreadShape
  <2>7. Waits(m)' = Waits(m)
    BY <2>1 DEF Waits
  <2>8. /\ 0 \in Nat /\ breaks' \in Nat
        /\ 0 + Waits(m)' + breaks + Bit(s \in Sends(m)') + Bit(s \in Owing')
              <= Waits(m) + breaks' + Bit(s \in Sends(m)) + Bit(s \in Owing)
    BY <1>2, <1>3, <2>1, <2>6, <2>7 DEF Bit
  <2>9. QED
    BY <2>1, <2>2, <2>5, <2>8, LocalPaid
<1>14. CASE SocketFails(s)
  <2>1. /\ pc[s] \in {"send", "ack"} /\ ~conn[s]
        /\ hand' = [hand EXCEPT ![s] = NoMsg]
        /\ pc' = [pc EXCEPT ![s] = "connect"]
        /\ request' = request /\ conn' = conn /\ toSim' = toSim
        /\ file' = file /\ received' = received /\ breaks' = breaks
        /\ crashes' = crashes
    BY <1>14 DEF SocketFails, Goto, wireVars, simVars, faultVars
  <2>2. /\ pc'[s] = "connect"
        /\ hand'[s] = NoMsg
        /\ conn'[s] = conn[s]
        /\ file'[s] = file[s]
        /\ \A t \in Sender : t # s => /\ pc'[t] = pc[t] /\ hand'[t] = hand[t]
                                       /\ conn'[t] = conn[t] /\ file'[t] = file[t]
    BY <1>1, <2>1 DEF MyType
  <2>3. ThreadShape(s)
    BY <1>1
  <2>5. /\ IsFiniteSet(InFlight(m)')
        /\ Cardinality(InFlight(m)') = Cardinality(InFlight(m)) + 0
    BY <1>3, <2>1
  <2>6. /\ s \notin Sends(m)'
        /\ s \in Owing' => s \in Owing
    BY <1>2, <2>1, <2>2, <2>3 DEF Sends, Owing, ThreadShape
  <2>7. Waits(m)' = Waits(m)
    BY <2>1 DEF Waits
  <2>8. /\ 0 \in Nat /\ breaks' \in Nat
        /\ 0 + Waits(m)' + breaks + Bit(s \in Sends(m)') + Bit(s \in Owing')
              <= Waits(m) + breaks' + Bit(s \in Sends(m)) + Bit(s \in Owing)
    BY <1>2, <1>3, <2>1, <2>6, <2>7 DEF Bit
  <2>9. QED
    BY <2>1, <2>2, <2>5, <2>8, LocalPaid
<1>15. CASE CommitFails(s)
  <2>1. /\ pc[s] = "commit"
        /\ request' = request /\ breaks' = breaks + 1
        /\ pc' = [pc EXCEPT ![s] = IF kind[hand[s]] = "valid" THEN "send" ELSE "delete"]
        /\ hand' = hand /\ conn' = conn /\ toSim' = toSim /\ file' = file
        /\ received' = received /\ crashes' = crashes
    BY <1>15 DEF CommitFails, Goto, wireVars, simVars, faultVars, AfterCommit
  <2>2. /\ pc'[s] = (IF kind[hand[s]] = "valid" THEN "send" ELSE "delete")
        /\ hand'[s] = hand[s]
        /\ conn'[s] = conn[s]
        /\ file'[s] = file[s]
        /\ \A t \in Sender : t # s => /\ pc'[t] = pc[t] /\ hand'[t] = hand[t]
                                       /\ conn'[t] = conn[t] /\ file'[t] = file[t]
    BY <1>1, <2>1 DEF MyType
  <2>3. ThreadShape(s)
    BY <1>1
  <2>5. /\ IsFiniteSet(InFlight(m)')
        /\ Cardinality(InFlight(m)') = Cardinality(InFlight(m)) + 0
    BY <1>3, <2>1
  <2>6. s \in Owing' => s \in Owing
    BY <1>2, <2>1, <2>2, <2>3 DEF Sends, Owing, ThreadShape
  <2>7. Waits(m)' = Waits(m)
    BY <2>1 DEF Waits
  <2>8. /\ 0 \in Nat /\ breaks' \in Nat
        /\ 0 + Waits(m)' + breaks + Bit(s \in Sends(m)') + Bit(s \in Owing')
              <= Waits(m) + breaks' + Bit(s \in Sends(m)) + Bit(s \in Owing)
    BY <1>2, <1>3, <2>1, <2>6, <2>7 DEF Bit
  <2>9. QED
    BY <2>1, <2>2, <2>5, <2>8, LocalPaid
<1>16. QED
  BY <1>4, <1>5, <1>6, <1>7, <1>8, <1>9, <1>10, <1>11, <1>12, <1>13, <1>14, <1>15 DEF processMessageThread

\* A connection ends: what the carrier has still read was under way, and one
\* fault pays for the file that is now owed.
LEMMA DroppedPays ==
  ASSUME AgentShape, NEW m \in Msg, IsFiniteSet(InFlight(m)), Paid(m),
         NEW s \in Sender, Dropped(s), request' = request, file' = file,
         breaks' = breaks + 1, crashes' = crashes,
         \/ pc' = pc /\ hand' = hand
         \/ /\ pc' = [pc EXCEPT ![s] = "connect"]
            /\ hand' = [hand EXCEPT ![s] = NoMsg]
  PROVE  IsFiniteSet(InFlight(m)') /\ Paid(m)'
<1>1. MyType
  BY DEF AgentShape
<1>2. PICK n \in 0..Len(toSim[s]) :
         /\ Cardinality(Arrived(s, n, m)) \in Nat
         /\ received'[m] = received[m] + Cardinality(Arrived(s, n, m))
  BY <1>1, DroppedCounts
<1> DEFINE F == InFlight(m)
           F2 == InFlight(m)'
           A == Arrived(s, n, m)
           f == [i \in A |-> <<s, i>>]
<1>3. F2 = {p \in F : p[1] # s}
  <2>1. toSim'[s] = <<>> /\ Len(toSim'[s]) = 0 /\ \A t \in Sender : t # s => toSim'[t] = toSim[t]
    BY DroppedShape
  <2>2. QED
    BY <2>1 DEF InFlight
<1>4. F2 \subseteq F /\ F \cap F2 = F2
  BY <1>3
<1>5. /\ IsFiniteSet(F2) /\ Cardinality(F2) \in Nat /\ Cardinality(F) \in Nat
      /\ IsFiniteSet(F \ F2) /\ Cardinality(F \ F2) = Cardinality(F) - Cardinality(F2)
  <2>1. IsFiniteSet(F2) /\ IsFiniteSet(F \ F2)
    BY <1>4, FS_Subset
  <2>2. Cardinality(F \ F2) = Cardinality(F) - Cardinality(F \cap F2)
    BY FS_Difference
  <2>3. QED
    BY <2>1, <2>2, <1>4, FS_CardinalityType
<1>6. Cardinality(A) \in Nat /\ Cardinality(A) <= Cardinality(F \ F2)
  <2>1. Len(toSim[s]) \in Nat
    BY <1>1 DEF MyType
  <2>2. ASSUME NEW i \in A PROVE <<s, i>> \in F \ F2
    <3>1. i \in 1..Len(toSim[s]) /\ i \in Nat /\ Head(toSim[s][i]) = m
      BY <2>1 DEF Arrived
    <3>2. <<s, i>> \in F
      BY <3>1 DEF InFlight
    <3>3. QED
      BY <3>2, <1>3
  <2>3. f \in [A -> F \ F2]
    BY <2>2
  <2>4. \A a, b \in A : f[a] = f[b] => a = b
    OBVIOUS
  <2> HIDE DEF f, A, F, F2
  <2>5. QED
    BY <2>3, <2>4, <1>5, Injects
<1>7. /\ Cardinality(Sends(m)') \in Nat /\ Cardinality(Sends(m)') <= Cardinality(Sends(m))
      /\ Cardinality(Sends(m)) \in Nat
  <2>1. Sends(m)' \subseteq Sends(m)
    BY <1>1 DEF Sends, MyType
  <2>2. QED
    BY <2>1, CountsAreNumbers, FS_Subset, FS_CardinalityType
<1>8. /\ Cardinality(Owing') \in Nat /\ Cardinality(Owing') <= Cardinality(Owing) + 1
      /\ Cardinality(Owing) \in Nat
  <2>1. \A t \in Sender : t # s => conn'[t] = conn[t] /\ pc'[t] = pc[t]
    BY <1>1, DroppedShape DEF MyType
  <2>2. Owing' \subseteq Owing \cup {s}
    BY <2>1 DEF Owing
  <2>3. IsFiniteSet(Owing) /\ Cardinality(Owing) \in Nat
    BY CountsAreNumbers
  <2>4. /\ IsFiniteSet(Owing \cup {s}) /\ Cardinality(Owing \cup {s}) \in Nat
        /\ Cardinality(Owing \cup {s}) <= Cardinality(Owing) + 1
    <3>1. /\ IsFiniteSet(Owing \cup {s})
          /\ Cardinality(Owing \cup {s}) =
                IF s \in Owing THEN Cardinality(Owing) ELSE Cardinality(Owing) + 1
      BY <2>3, FS_AddElement
    <3>2. QED
      BY <2>3, <3>1
  <2>5. /\ Cardinality(Owing') \in Nat
        /\ Cardinality(Owing') <= Cardinality(Owing \cup {s})
    BY <2>2, <2>4, FS_Subset, FS_CardinalityType
  <2>6. QED
    BY <2>3, <2>4, <2>5
<1>9. Waits(m)' = Waits(m) /\ Waits(m) \in Nat
  BY DEF Waits
<1> DEFINE r == received[m]  a == Cardinality(A)  x == Cardinality(F)  x2 == Cardinality(F2)
           w == Waits(m)  y == Cardinality(Sends(m))  y2 == Cardinality(Sends(m)')
           o == Cardinality(Owing)  o2 == Cardinality(Owing')
           P == Cardinality(Sender) * crashes
           d == Cardinality(F \ F2)
<1>10. r \in Nat /\ breaks \in Nat /\ crashes \in Nat
  BY <1>1 DEF MyType
<1>11. P \in Nat
  BY <1>10, CountsAreNumbers
<1>12. r + x + w + y + o <= 1 + breaks + P
  BY DEF Paid
<1>13. /\ a \in Nat /\ x \in Nat /\ x2 \in Nat /\ d \in Nat /\ a <= d /\ d = x - x2
       /\ w \in Nat /\ y \in Nat /\ y2 \in Nat /\ y2 <= y
       /\ o \in Nat /\ o2 \in Nat /\ o2 <= o + 1
  BY <1>5, <1>6, <1>7, <1>8, <1>9, FS_CardinalityType
<1> DEFINE b1 == breaks
<1>14. r \in Nat /\ b1 \in Nat /\ r + x + w + y + o <= 1 + b1 + P
  BY <1>10, <1>12
<1> HIDE DEF r, a, x, x2, w, y, y2, o, o2, P, d, b1
<1>15. r + a + x2 + w + y2 + o2 <= 1 + (b1 + 1) + P
  <2>1. a + x2 <= x
    BY <1>13
  <2>2. a + x2 + y2 + o2 <= x + y + o + 1
    BY <2>1, <1>13
  <2>3. QED
    BY <2>2, <1>11, <1>13, <1>14
<1>16. /\ received'[m] = r + a /\ breaks' = b1 + 1 /\ Cardinality(Sender) * crashes' = P
       /\ Waits(m)' = w
  BY <1>2, <1>9 DEF r, a, b1, P, w
<1>17. received'[m] + x2 + Waits(m)' + y2 + o2 <= 1 + breaks' + Cardinality(Sender) * crashes'
  BY <1>15, <1>16
<1>18. QED
  BY <1>5, <1>17 DEF Paid, x2, y2, o2

LEMMA SimTakesPays ==
  ASSUME AgentShape, NEW m \in Msg, IsFiniteSet(InFlight(m)), Paid(m),
         NEW s \in Sender, SimTakes(s)
  PROVE  IsFiniteSet(InFlight(m)') /\ Paid(m)'
<1>1. MyType
  BY DEF AgentShape
<1>2. /\ toSim[s] # <<>> /\ Taken(<<Head(toSim[s])>>)
      /\ toSim' = [toSim EXCEPT ![s] = Tail(toSim[s])]
      /\ request' = request /\ pc' = pc /\ hand' = hand /\ conn' = conn
      /\ file' = file /\ breaks' = breaks /\ crashes' = crashes
  BY DEF SimTakes, agentVars, faultVars
<1> DEFINE q == toSim[s]
           fs == <<Head(q)>>
           got == {i \in 1..Len(fs) : Head(fs[i]) = m}
           F == InFlight(m)
           F2 == InFlight(m)'
           old == <<s, 1>>
           f == [p \in F2 |-> IF p[1] = s THEN <<s, p[2] + 1>> ELSE p]
<1>3. q \in Seq(Frame) /\ Len(q) \in Nat /\ Len(q) >= 1 /\ Head(q) = q[1]
  BY <1>1, <1>2 DEF MyType
<1>4. /\ Len(Tail(q)) = Len(q) - 1
      /\ \A i \in 1..Len(Tail(q)) : Tail(q)[i] = q[i + 1]
  BY <1>2, <1>3, HeadTailProperties
<1>5. toSim'[s] = Tail(q) /\ \A t \in Sender : t # s => toSim'[t] = toSim[t]
  BY <1>1, <1>2 DEF MyType
<1>6. received'[m] = received[m] + Cardinality(got) /\ Cardinality(got) = Bit(old \in F)
  <2>1. Len(fs) = 1 /\ Len(fs) \in Nat /\ fs[1] = Head(q) /\ 1..1 = {1}
    OBVIOUS
  <2>2. received \in [Msg -> Nat]
    BY <1>1 DEF MyType
  <2>3. received'[m] = received[m] + Cardinality(got)
    BY <1>2, <2>1, <2>2, TakenCounts
  <2>4. old \in F <=> Head(Head(q)) = m
    <3>1. 1 \in 1..Len(q) /\ 1 \in Nat
      BY <1>3
    <3>2. QED
      BY <3>1, <1>3 DEF InFlight
  <2>5. CASE Head(Head(q)) = m
    <3>1. got = {1}
      BY <2>1, <2>5
    <3>2. Cardinality({1}) = 1
      BY FS_Singleton
    <3> HIDE DEF got, old, F
    <3>3. QED
      BY <2>3, <2>4, <2>5, <3>1, <3>2 DEF Bit
  <2>6. CASE Head(Head(q)) # m
    <3>1. got = {}
      BY <2>1, <2>6
    <3>2. Cardinality({}) = 0
      BY FS_EmptySet
    <3> HIDE DEF got, old, F
    <3>3. QED
      BY <2>3, <2>4, <2>6, <3>1, <3>2 DEF Bit
  <2>7. QED
    BY <2>5, <2>6
<1>7. ASSUME NEW t \in Sender, NEW i \in Nat, <<t, i>> \in F2
      PROVE  (IF t = s THEN <<s, i + 1>> ELSE <<t, i>>) \in F \ {old}
  <2>1. i \in 1..Len(toSim'[t]) /\ Head(toSim'[t][i]) = m
    BY <1>7 DEF InFlight
  <2>2. CASE t = s
    <3>1. i + 1 \in Nat /\ i + 1 \in 1..Len(q) /\ i + 1 # 1 /\ Head(q[i + 1]) = m
      BY <2>1, <2>2, <1>3, <1>4, <1>5
    <3>2. QED
      BY <3>1, <2>2 DEF InFlight
  <2>3. CASE t # s
    BY <2>1, <2>3, <1>5 DEF InFlight
  <2>4. QED
    BY <2>2, <2>3
<1>8. F2 \subseteq Sender \X Nat
  BY DEF InFlight
<1>9. /\ f \in [F2 -> F \ {old}]
      /\ \A a, b \in F2 : f[a] = f[b] => a = b
  <2>1. ASSUME NEW p \in F2
        PROVE  /\ (IF p[1] = s THEN <<s, p[2] + 1>> ELSE p) \in F \ {old}
               /\ p = <<p[1], p[2]>> /\ p[1] \in Sender /\ p[2] \in Nat
    <3>1. p = <<p[1], p[2]>> /\ p[1] \in Sender /\ p[2] \in Nat
      BY <1>8
    <3>2. QED
      BY <3>1, <1>7
  <2>2. f \in [F2 -> F \ {old}]
    BY <2>1
  <2>3. ASSUME NEW a \in F2, NEW b \in F2, f[a] = f[b] PROVE a = b
    <3>1. /\ a = <<a[1], a[2]>> /\ a[2] \in Nat
          /\ b = <<b[1], b[2]>> /\ b[2] \in Nat
      BY <2>1
    <3>2. /\ f[a] = IF a[1] = s THEN <<s, a[2] + 1>> ELSE a
          /\ f[b] = IF b[1] = s THEN <<s, b[2] + 1>> ELSE b
      OBVIOUS
    <3>3. f[a][1] = a[1] /\ f[b][1] = b[1]
      BY <3>1, <3>2
    <3>4. CASE a[1] = s
      <4>1. a[2] + 1 = b[2] + 1 /\ a[1] = b[1]
        BY <2>3, <3>2, <3>3, <3>4
      <4>2. a[2] = b[2]
        BY <3>1, <4>1
      <4>3. QED
        BY <3>1, <4>1, <4>2
    <3>5. CASE a[1] # s
      BY <2>3, <3>2, <3>3, <3>5
    <3>6. QED
      BY <3>4, <3>5
  <2>4. QED
    BY <2>2, <2>3
<1>10. /\ IsFiniteSet(F2) /\ Cardinality(F2) \in Nat /\ Cardinality(F) \in Nat
       /\ Cardinality(F2) + Bit(old \in F) <= Cardinality(F)
  <2> HIDE DEF f, F, F2, old
  <2>1. /\ IsFiniteSet(F \ {old}) /\ Cardinality(F) \in Nat
        /\ Cardinality(F \ {old}) = IF old \in F THEN Cardinality(F) - 1 ELSE Cardinality(F)
    BY FS_RemoveElement, FS_CardinalityType DEF F
  <2>2. IsFiniteSet(F2) /\ Cardinality(F2) \in Nat /\ Cardinality(F2) <= Cardinality(F \ {old})
    BY <1>9, <2>1, Injects
  <2>3. QED
    BY <2>1, <2>2 DEF Bit
<1>11. Sends(m)' = Sends(m) /\ Owing' = Owing /\ Waits(m)' = Waits(m)
  BY <1>2 DEF Sends, Owing, Waits
<1> DEFINE r == received[m]  a == Bit(old \in F)  x == Cardinality(F)  x2 == Cardinality(F2)
           w == Waits(m)  y == Cardinality(Sends(m))  o == Cardinality(Owing)
           P == Cardinality(Sender) * crashes  b1 == breaks
<1>12. r \in Nat /\ b1 \in Nat /\ crashes \in Nat /\ a \in Nat
  BY <1>1 DEF MyType, Bit
<1>13. P \in Nat /\ w \in Nat /\ y \in Nat /\ o \in Nat
  BY <1>12, CountsAreNumbers DEF Waits
<1>14. r + x + w + y + o <= 1 + b1 + P
  BY DEF Paid
<1>15. x \in Nat /\ x2 \in Nat /\ x2 + a <= x
  BY <1>10
<1>16. received'[m] = r + a
  BY <1>6
<1> HIDE DEF r, a, x, x2, w, y, o, P, b1
<1>17. (r + a) + x2 + w + y + o <= 1 + b1 + P
  BY <1>12, <1>13, <1>14, <1>15
<1>18. received'[m] + x2 + w + y + o <= 1 + b1 + P
  BY <1>16, <1>17
<1>19. QED
  BY <1>2, <1>10, <1>11, <1>18 DEF Paid, x2, w, y, o, P, b1

LEMMA CrashPays ==
  ASSUME AgentShape, NEW m \in Msg, IsFiniteSet(InFlight(m)), Paid(m), Crash
  PROVE  IsFiniteSet(InFlight(m)') /\ Paid(m)'
<1>1. MyType
  BY DEF AgentShape
<1>2. /\ pc' = [t \in Sender |-> "connect"] /\ toSim' = [t \in Sender |-> <<>>]
      /\ crashes' = crashes + 1 /\ breaks' = breaks /\ request' = request
  BY DEF Crash
<1>3. PICK n \in [Sender -> 0..(NumMsgs + 1)] :
         \E gs \in Arrivals(n) :
            /\ \A s \in Sender : n[s] <= Len(toSim[s])
            /\ Len(gs) \in Nat
            /\ LET c == Cardinality({i \in 1..Len(gs) : Head(gs[i]) = m})
               IN  c \in Nat /\ received'[m] = received[m] + c
  BY <1>1, CrashCounts
<1>4. PICK fs \in Arrivals(n) :
         /\ \A s \in Sender : n[s] <= Len(toSim[s])
         /\ Len(fs) \in Nat
         /\ LET c == Cardinality({i \in 1..Len(fs) : Head(fs[i]) = m})
            IN  c \in Nat /\ received'[m] = received[m] + c
  BY <1>3
<1> DEFINE frames == {p \in Sender \X (1..(NumMsgs + 1)) : p[2] <= n[p[1]]}
           N == Cardinality(frames)
           F == InFlight(m)
           got == {i \in 1..Len(fs) : Head(fs[i]) = m}
<1>5. N \in Nat
  BY FramesOf
<1>6. PICK f \in [1..N -> frames] :
         /\ \A i, j \in 1..N : i < j /\ f[i][1] = f[j][1] => f[i][2] < f[j][2]
         /\ fs = [i \in 1..N |-> toSim[f[i][1]][f[i][2]]]
  BY DEF Arrivals
<1>7. Len(fs) = N /\ \A i \in 1..N : fs[i] = toSim[f[i][1]][f[i][2]]
  <2> HIDE DEF N, frames
  <2>1. QED
    BY <1>5, <1>6
<1>8. \A i \in 1..N : /\ f[i] = <<f[i][1], f[i][2]>> /\ f[i][1] \in Sender /\ f[i][2] \in Nat
                      /\ f[i][2] \in 1..Len(toSim[f[i][1]])
  <2>1. ASSUME NEW p \in frames
        PROVE  /\ p = <<p[1], p[2]>> /\ p[1] \in Sender /\ p[2] \in Nat
               /\ p[2] \in 1..Len(toSim[p[1]])
    <3>1. NumMsgs \in Nat
      BY MyAgentAssumption
    <3>2. p = <<p[1], p[2]>> /\ p[1] \in Sender /\ p[2] \in 1..(NumMsgs + 1) /\ p[2] <= n[p[1]]
      OBVIOUS
    <3>3. n[p[1]] \in Nat /\ n[p[1]] <= Len(toSim[p[1]]) /\ Len(toSim[p[1]]) \in Nat
      BY <1>1, <1>4, <3>1, <3>2 DEF MyType
    <3>4. QED
      BY <3>1, <3>2, <3>3
  <2> HIDE DEF frames, N
  <2>2. QED
    BY <1>6, <2>1
<1> HIDE DEF frames, N
<1> DEFINE g == [i \in got |-> f[i]]
<1>9. \A i \in got : i \in 1..N /\ i \in Nat /\ f[i] \in F
  <2> SUFFICES ASSUME NEW i \in got PROVE i \in 1..N /\ i \in Nat /\ f[i] \in F
    OBVIOUS
  <2>1. i \in 1..N /\ i \in Nat /\ Head(fs[i]) = m
    BY <1>7
  <2>2. f[i] = <<f[i][1], f[i][2]>> /\ <<f[i][1], f[i][2]>> \in F
    BY <2>1, <1>7, <1>8 DEF InFlight
  <2>3. QED
    BY <2>1, <2>2
<1>10. g \in [got -> F] /\ \A a, b \in got : g[a] = g[b] => a = b
  <2>1. g \in [got -> F]
    BY <1>9
  <2>2. ASSUME NEW a \in got, NEW b \in got, g[a] = g[b] PROVE a = b
    <3>1. /\ a \in 1..N /\ b \in 1..N /\ a \in Nat /\ b \in Nat /\ f[a] = f[b]
          /\ f[a][2] \in Nat /\ f[b][2] \in Nat
      BY <1>8, <1>9, <2>2
    <3>2. ~(a < b) /\ ~(b < a)
      BY <3>1, <1>6
    <3>3. QED
      BY <3>1, <3>2
  <2>3. QED
    BY <2>1, <2>2
<1>11. Cardinality(got) \in Nat /\ Cardinality(got) <= Cardinality(F) /\ Cardinality(F) \in Nat
  <2> HIDE DEF g, got, F
  <2>1. QED
    BY <1>10, Injects, FS_CardinalityType DEF F
<1>12. InFlight(m)' = {} /\ Sends(m)' = {}
  BY <1>2 DEF InFlight, Sends
<1>13. /\ IsFiniteSet(InFlight(m)') /\ Cardinality(InFlight(m)') = 0
       /\ Cardinality(Sends(m)') = 0
  BY <1>12, FS_EmptySet
<1>14. Cardinality(Owing') \in Nat /\ Cardinality(Owing') <= Cardinality(Sender)
  <2>1. IsFiniteSet(Sender) /\ Owing' \subseteq Sender
    BY MyAgentAssumption DEF Owing
  <2>2. QED
    BY <2>1, FS_Subset, FS_CardinalityType
<1> DEFINE r == received[m]  a == Cardinality(got)  x == Cardinality(F)
           w == Waits(m)  y == Cardinality(Sends(m))
           o == Cardinality(Owing)  o2 == Cardinality(Owing')
           C == Cardinality(Sender)  P == C * crashes  b1 == breaks
<1>15. r \in Nat /\ b1 \in Nat /\ crashes \in Nat
  BY <1>1 DEF MyType
<1>16. /\ P \in Nat /\ C \in Nat /\ w \in Nat /\ y \in Nat /\ o \in Nat /\ o2 \in Nat
       /\ o2 <= C
  BY <1>14, <1>15, CountsAreNumbers DEF Waits
<1>17. C * (crashes + 1) = P + C
  BY <1>15, <1>16
<1>18. r + x + w + y + o <= 1 + b1 + P
  BY DEF Paid
<1>19. a \in Nat /\ x \in Nat /\ a <= x
  BY <1>11
<1>20. received'[m] = r + a
  BY <1>4
<1>21. Waits(m)' = w /\ breaks' = b1
  BY <1>2 DEF Waits
<1> DEFINE R == P + C
<1>22. R = P + C
  OBVIOUS
<1> HIDE DEF r, a, x, w, y, o, o2, C, P, b1, R
<1>23. (r + a) + 0 + w + 0 + o2 <= 1 + b1 + R
  BY <1>15, <1>16, <1>18, <1>19, <1>22
<1>24. Cardinality(Sender) * crashes' = R
  BY <1>2, <1>17, <1>22 DEF C
<1>25. QED
  BY <1>13, <1>20, <1>21, <1>23, <1>24 DEF Paid, o2

LEMMA ElsewherePays ==
  ASSUME AgentShape, NEW m \in Msg, IsFiniteSet(InFlight(m)), Paid(m), Elsewhere
  PROVE  IsFiniteSet(InFlight(m)') /\ Paid(m)'
<1>1. /\ request' = request /\ pc' = pc /\ hand' = hand /\ conn' = conn /\ toSim' = toSim
      /\ file' = file /\ received' = received /\ crashes' = crashes
      /\ breaks' \in {breaks, breaks + 1}
  BY DEF Elsewhere, wireVars
<1>2. /\ InFlight(m)' = InFlight(m) /\ Sends(m)' = Sends(m) /\ Owing' = Owing
      /\ Waits(m)' = Waits(m)
  BY <1>1 DEF InFlight, Sends, Owing, Waits
<1> DEFINE X == received[m] + Cardinality(InFlight(m)) + Waits(m)
                   + Cardinality(Sends(m)) + Cardinality(Owing)
           P == Cardinality(Sender) * crashes
<1>3. received[m] \in Nat /\ breaks \in Nat /\ crashes \in Nat
  BY DEF AgentShape, MyType
<1>4. X \in Nat /\ P \in Nat
  BY <1>3, CountsAreNumbers, FS_CardinalityType
<1>5. X <= 1 + breaks + P
  BY DEF Paid
<1> HIDE DEF P
<1>6. X <= 1 + breaks' + P
  <2> DEFINE b1 == breaks
             b2 == breaks'
  <2>1. b1 \in Nat /\ b2 \in {b1, b1 + 1} /\ X <= 1 + b1 + P
    BY <1>1, <1>3, <1>5
  <2> HIDE DEF X, b1, b2
  <2>2. X <= 1 + b2 + P
    BY <2>1, <1>4
  <2>3. QED
    BY <2>2 DEF b2
<1>7. Paid(m)'
  BY <1>1, <1>2, <1>6 DEF Paid, P
<1>8. QED
  BY <1>2, <1>7

LEMMA RepeatsStart == MyInit => RepeatInv
<1> SUFFICES ASSUME MyInit PROVE RepeatInv
  OBVIOUS
<1>1. NumMsgs \in Nat /\ Msg = 1..NumMsgs
  BY MyAgentAssumption DEF Msg
<1>2. NoRepeats(request)
  BY <1>1 DEF MyInit, NoRepeats
<1>3. ASSUME NEW m \in Msg PROVE IsFiniteSet(InFlight(m)) /\ Paid(m)
  <2>1. InFlight(m) = {} /\ Sends(m) = {} /\ Owing = {}
    BY DEF MyInit, InFlight, Sends, Owing
  <2>2. IsFiniteSet({}) /\ Cardinality({}) = 0
    BY FS_EmptySet
  <2>3. received[m] = 0 /\ breaks = 0 /\ crashes = 0
    BY DEF MyInit
  <2>4. Waits(m) \in {0, 1} /\ Cardinality(Sender) \in Nat /\ Cardinality(Sender) * 0 = 0
    BY CountsAreNumbers
  <2>5. QED
    BY <2>1, <2>2, <2>3, <2>4 DEF Paid
<1>4. QED
  BY <1>2, <1>3 DEF RepeatInv

LEMMA RepeatsStep == AgentShape /\ RepeatInv /\ [MyNext]_myVars => RepeatInv'
<1> SUFFICES ASSUME AgentShape, RepeatInv, [MyNext]_myVars PROVE RepeatInv'
  OBVIOUS
<1>1. \/ \E s \in Sender : \/ processMessageThread(s) \/ BackupFails(s) \/ CommitFails(s)
                           \/ QueueFails(s) \/ Break(s) \/ SimTakes(s)
      \/ Crash
      \/ Elsewhere
  BY MySteps DEF AgentShape, MyType
<1>2. NoRepeats(request) /\ request \in Seq(Msg)
  BY DEF RepeatInv, AgentShape, MyType
<1>3. \/ request' = request
      \/ request # <<>> /\ request' = Tail(request)
  <2>1. ASSUME NEW s \in Sender, commitXA(s)
        PROVE  request # <<>> /\ request' = Tail(request)
    BY <2>1 DEF commitXA, AgentShape, ThreadShape
  <2>2. ASSUME NEW s \in Sender, processMessageThread(s), ~commitXA(s) PROVE request' = request
    BY <2>2 DEF processMessageThread, Connect, RecoveryMessage, RecoveryFails, readXA,
         writeMessageToFile, Send, ReadAck, deleteFile, SocketFails
  <2>3. ASSUME NEW s \in Sender, \/ BackupFails(s) \/ CommitFails(s) \/ QueueFails(s)
                                 \/ Break(s) \/ SimTakes(s)
        PROVE  request' = request
    BY <2>3 DEF BackupFails, CommitFails, QueueFails, Break, SimTakes, agentVars
  <2>4. Crash \/ Elsewhere => request' = request
    BY DEF Crash, Elsewhere
  <2>5. QED
    BY <1>1, <2>1, <2>2, <2>3, <2>4
<1>4. NoRepeats(request')
  BY <1>2, <1>3, TailNoRepeats
<1>5. ASSUME NEW m \in Msg PROVE IsFiniteSet(InFlight(m)') /\ Paid(m)'
  <2>1. IsFiniteSet(InFlight(m)) /\ Paid(m)
    BY DEF RepeatInv
  <2>2. ASSUME NEW s \in Sender, QueueFails(s) PROVE IsFiniteSet(InFlight(m)') /\ Paid(m)'
    <3>1. /\ hand' = [hand EXCEPT ![s] = NoMsg] /\ pc' = [pc EXCEPT ![s] = "connect"]
          /\ Dropped(s) /\ request' = request /\ file' = file
          /\ breaks' = breaks + 1 /\ crashes' = crashes
      BY <2>2 DEF QueueFails, Goto
    <3>2. QED
      BY <2>1, <3>1, DroppedPays
  <2>3. ASSUME NEW s \in Sender, Break(s) PROVE IsFiniteSet(InFlight(m)') /\ Paid(m)'
    <3>1. /\ hand' = hand /\ pc' = pc
          /\ Dropped(s) /\ request' = request /\ file' = file
          /\ breaks' = breaks + 1 /\ crashes' = crashes
      BY <2>3 DEF Break, agentVars
    <3>2. QED
      BY <2>1, <3>1, DroppedPays
  <2>4. ASSUME NEW s \in Sender, processMessageThread(s) \/ BackupFails(s) \/ CommitFails(s)
        PROVE  IsFiniteSet(InFlight(m)') /\ Paid(m)'
    BY <1>2, <2>1, <2>4, ThreadsPay
  <2>5. ASSUME NEW s \in Sender, SimTakes(s) PROVE IsFiniteSet(InFlight(m)') /\ Paid(m)'
    BY <2>1, <2>5, SimTakesPays
  <2>6. QED
    BY <1>1, <2>1, <2>2, <2>3, <2>4, <2>5, CrashPays, ElsewherePays
<1>6. QED
  BY <1>4, <1>5 DEF RepeatInv

LEMMA RepeatsBounded ==
  ASSUME AgentShape, RepeatInv
  PROVE  RepeatsArePaidByFaults
<1> SUFFICES ASSUME NEW m \in Msg
             PROVE  received[m] <= 1 + breaks + Cardinality(Sender) * crashes
  BY DEF RepeatsArePaidByFaults
<1>1. Paid(m) /\ IsFiniteSet(InFlight(m))
  BY DEF RepeatInv
<1> DEFINE r == received[m]  x == Cardinality(InFlight(m))  w == Waits(m)
           y == Cardinality(Sends(m))  o == Cardinality(Owing)
           Y == 1 + breaks + Cardinality(Sender) * crashes
<1>2. r \in Nat /\ breaks \in Nat /\ crashes \in Nat
  BY DEF AgentShape, MyType
<1>3. x \in Nat /\ w \in Nat /\ y \in Nat /\ o \in Nat /\ Y \in Nat
  BY <1>1, <1>2, CountsAreNumbers, FS_CardinalityType DEF Waits
<1>4. r + x + w + y + o <= Y
  BY <1>1 DEF Paid
<1> HIDE DEF r, x, w, y, o, Y
<1>5. r <= Y
  <2>1. r \in Nat
    BY <1>2
  <2>2. QED
    BY <2>1, <1>3, <1>4
<1>6. QED
  BY <1>5 DEF r, Y

(***************************************************************************)
(* The carrier gets no message more often than once and once more for      *)
(* every failure (of a connection, a queue, a backup or a commit), and for *)
(* every thread at every crash: what is under way, in the request queue,   *)
(* about to be sent, or in a file that is owed to the carrier counts       *)
(* against the same bound.                                                 *)
(***************************************************************************)
THEOREM RepeatsArePaid == MySpec => []RepeatsArePaidByFaults
<1>1. MyInit => AgentShape /\ RepeatInv
  BY MyStarts, RepeatsStart
<1>2. AgentShape /\ RepeatInv /\ [MyNext]_myVars => (AgentShape /\ RepeatInv)'
  BY MyShapeStep, RepeatsStep
<1>3. AgentShape /\ RepeatInv => RepeatsArePaidByFaults
  BY RepeatsBounded
<1>4. QED
  BY <1>1, <1>2, <1>3, PTL DEF MySpec

-----------------------------------------------------------------------------
(* MyAgent: a result that is not reported yet stays in the carrier's queue *)

ResultInv ==
    /\ simQ \in Seq(Frame)
    /\ ReceivedIsNeverLost
    /\ resPc = "stored" => simQ # <<>> /\ First \in reported

\* The carrier takes frames behind those it has.
TakesFrames == \E fs \in Seq(Frame) : Taken(fs)

LEMMA TakesKeepsResults ==
  ASSUME AgentShape, ResultInv, TakesFrames, kind' = kind, reported' = reported,
         resPc' \in {resPc, "down"}
  PROVE  ResultInv'
<1>1. PICK fs \in Seq(Frame) : Taken(fs)
  BY DEF TakesFrames
<1>2. simQ \in Seq(Frame) /\ simQ' = simQ \o fs /\ Len(fs) \in Nat /\ Len(simQ) \in Nat
  BY <1>1 DEF ResultInv, Taken
<1>3. /\ simQ' \in Seq(Frame) /\ Len(simQ') = Len(simQ) + Len(fs)
      /\ \A i \in 1..Len(simQ) : simQ'[i] = simQ[i]
      /\ \A i \in 1..Len(fs) : simQ'[Len(simQ) + i] = fs[i]
  BY <1>2, ConcatProperties
<1>4. received \in [Msg -> Nat]
  BY DEF AgentShape, MyType
<1>5. ASSUME NEW m \in Msg, received'[m] > 0, kind'[m] # "invalid"
      PROVE  m \in reported' \/ \E i \in 1..Len(simQ') : Head(simQ'[i]) = m
  <2> DEFINE came == {i \in 1..Len(fs) : Head(fs[i]) = m}
  <2>1. received'[m] = received[m] + Cardinality(came)
    BY <1>1, <1>2, <1>4, TakenCounts
  <2>2. CASE came = {}
    <3>1. Cardinality(came) = 0
      BY <2>2, FS_EmptySet
    <3>2. received[m] > 0
      BY <2>1, <3>1, <1>4, <1>5
    <3>3. m \in reported \/ \E i \in 1..Len(simQ) : Head(simQ[i]) = m
      BY <3>2, <1>5 DEF ResultInv, ReceivedIsNeverLost
    <3>4. CASE m \in reported
      BY <3>4
    <3>5. ASSUME NEW i \in 1..Len(simQ), Head(simQ[i]) = m
          PROVE  \E j \in 1..Len(simQ') : Head(simQ'[j]) = m
      <4>1. i \in 1..Len(simQ') /\ simQ'[i] = simQ[i]
        BY <1>2, <1>3
      <4>2. QED
        BY <3>5, <4>1
    <3>6. QED
      BY <3>3, <3>4, <3>5
  <2>3. CASE came # {}
    <3>1. PICK i \in 1..Len(fs) : Head(fs[i]) = m
      BY <2>3
    <3>2. Len(simQ) + i \in 1..Len(simQ') /\ simQ'[Len(simQ) + i] = fs[i]
      BY <1>2, <1>3
    <3>3. QED
      BY <3>1, <3>2
  <2>4. QED
    BY <2>2, <2>3
<1>6. resPc' = "stored" => simQ' # <<>> /\ First' \in reported'
  <2> SUFFICES ASSUME resPc' = "stored" PROVE simQ' # <<>> /\ First' \in reported'
    OBVIOUS
  <2>1. simQ # <<>> /\ First \in reported
    BY DEF ResultInv
  <2>2. 1 \in 1..Len(simQ) /\ Head(simQ) = simQ[1]
    BY <2>1, <1>2
  <2>3. simQ' # <<>> /\ Head(simQ') = simQ[1]
    BY <2>2, <1>2, <1>3
  <2>4. QED
    BY <2>1, <2>2, <2>3 DEF First
<1>7. QED
  BY <1>3, <1>5, <1>6 DEF ResultInv, ReceivedIsNeverLost

LEMMA SimTakesFrames ==
  ASSUME AgentShape, NEW s \in Sender, SimTakes(s)
  PROVE  TakesFrames
<1>1. toSim[s] \in Seq(Frame) /\ toSim[s] # <<>> /\ Taken(<<Head(toSim[s])>>)
  BY DEF SimTakes, AgentShape, MyType
<1>2. Head(toSim[s]) \in Frame
  BY <1>1, HeadTailProperties
<1>3. <<Head(toSim[s])>> \in Seq(Frame)
  BY <1>2
<1>4. QED
  BY <1>1, <1>3 DEF TakesFrames

LEMMA DroppedFrames ==
  ASSUME AgentShape, NEW s \in Sender, Dropped(s)
  PROVE  TakesFrames /\ reported' = reported /\ resPc' = resPc
<1>1. toSim[s] \in Seq(Frame)
  BY DEF AgentShape, MyType
<1>2. PICK n \in 0..Len(toSim[s]) : Taken(SubSeq(toSim[s], 1, n))
  BY DEF Dropped
<1>3. SubSeq(toSim[s], 1, n) \in Seq(Frame)
  BY <1>1
<1>4. reported' = reported /\ resPc' = resPc
  BY DEF Dropped
<1>5. QED
  BY <1>2, <1>3, <1>4 DEF TakesFrames

LEMMA CrashFrames ==
  ASSUME AgentShape, Crash
  PROVE  TakesFrames
<1>1. PICK n \in [Sender -> 0..(NumMsgs + 1)] :
         /\ \A s \in Sender: n[s] <= Len(toSim[s])
         /\ \E fs \in Arrivals(n) : Taken(fs)
  BY DEF Crash
<1>2. PICK fs \in Arrivals(n) : Taken(fs)
  BY <1>1
<1> DEFINE frames == {p \in Sender \X (1..(NumMsgs + 1)) : p[2] <= n[p[1]]}
           N == Cardinality(frames)
<1>3. N \in Nat
  BY FramesOf
<1>4. ASSUME NEW p \in frames PROVE toSim[p[1]][p[2]] \in Frame
  <2>1. p[1] \in Sender /\ p[2] \in 1..(NumMsgs + 1) /\ p[2] <= n[p[1]]
    OBVIOUS
  <2>2. toSim[p[1]] \in Seq(Frame) /\ n[p[1]] <= Len(toSim[p[1]]) /\ n[p[1]] \in 0..(NumMsgs + 1)
    BY <2>1, <1>1 DEF AgentShape, MyType
  <2>3. p[2] \in 1..Len(toSim[p[1]])
    <3> DEFINE i == p[2]
               k1 == n[p[1]]
               l == Len(toSim[p[1]])
    <3>1. /\ i \in 1..(NumMsgs + 1) /\ k1 \in 0..(NumMsgs + 1) /\ l \in Nat
          /\ i <= k1 /\ k1 <= l /\ NumMsgs \in Nat
      BY <2>1, <2>2, MyAgentAssumption
    <3> HIDE DEF i, k1, l
    <3>2. i \in 1..l
      BY <3>1
    <3>3. QED
      BY <3>2 DEF i, l
  <2>4. QED
    BY <2>2, <2>3
<1>5. PICK f \in [1..N -> frames] : fs = [i \in 1..N |-> toSim[f[i][1]][f[i][2]]]
  BY <1>2 DEF Arrivals
<1> HIDE DEF frames, N
<1>6. \A i \in 1..N : toSim[f[i][1]][f[i][2]] \in Frame
  BY <1>4, <1>5
<1>7. fs \in Seq(Frame)
  BY <1>3, <1>5, <1>6
<1>8. QED
  BY <1>2, <1>7 DEF TakesFrames

\* A message of which nothing is owed any more leaves the carrier's queue.
LEMMA CommitKeepsResults ==
  ASSUME AgentShape, ResultInv, SimCommits, simQ # <<>>,
         First \in reported \/ kind[First] = "invalid",
         kind' = kind, reported' = reported, received' = received, resPc' = "idle"
  PROVE  ResultInv'
<1>1. simQ \in Seq(Frame) /\ Len(simQ) \in Nat
  BY DEF ResultInv
<1>2. simQ' = simQ \/ simQ' = Tail(simQ)
  BY DEF SimCommits
<1>3. /\ Tail(simQ) \in Seq(Frame) /\ Len(Tail(simQ)) = Len(simQ) - 1
      /\ \A i \in 1..Len(Tail(simQ)) : Tail(simQ)[i] = simQ[i + 1]
  BY <1>1
<1>4. simQ' \in Seq(Frame)
  BY <1>1, <1>2, <1>3
<1>5. ASSUME NEW m \in Msg, received[m] > 0, kind[m] # "invalid", m \notin reported
      PROVE  \E i \in 1..Len(simQ') : Head(simQ'[i]) = m
  <2>1. PICK i \in 1..Len(simQ) : Head(simQ[i]) = m
    BY <1>5 DEF ResultInv, ReceivedIsNeverLost
  <2>2. CASE simQ' = simQ
    BY <2>1, <2>2
  <2>3. CASE simQ' = Tail(simQ)
    <3>1. Head(simQ) = simQ[1]
      BY <1>1
    <3>2. i # 1
      BY <2>1, <3>1, <1>5 DEF First
    <3>3. i - 1 \in 1..Len(Tail(simQ)) /\ i = (i - 1) + 1
      BY <2>1, <3>2, <1>1, <1>3
    <3>4. Tail(simQ)[i - 1] = simQ[i]
      BY <3>3, <1>3
    <3>5. QED
      BY <2>1, <2>3, <3>3, <3>4
  <2>4. QED
    BY <1>2, <2>2, <2>3
<1>6. QED
  BY <1>4, <1>5 DEF ResultInv, ReceivedIsNeverLost

LEMMA ResultStep == AgentShape /\ ResultInv /\ [MyNext]_myVars => ResultInv'
<1> SUFFICES ASSUME AgentShape, ResultInv, [MyNext]_myVars PROVE ResultInv'
  OBVIOUS
<1>1. ASSUME NEW s \in Sender, SimTakes(s) PROVE ResultInv'
  <2>1. kind' = kind /\ reported' = reported /\ resPc' = resPc
    BY <1>1 DEF SimTakes, faultVars
  <2>2. QED
    BY <1>1, <2>1, SimTakesFrames, TakesKeepsResults
<1>2. ASSUME NEW s \in Sender, QueueFails(s) \/ Break(s) PROVE ResultInv'
  <2>1. kind' = kind /\ Dropped(s)
    BY <1>2 DEF QueueFails, Break
  <2>2. QED
    BY <2>1, DroppedFrames, TakesKeepsResults
<1>3. ASSUME Crash PROVE ResultInv'
  <2>1. kind' = kind /\ reported' = reported /\ resPc' = "down"
    BY <1>3 DEF Crash
  <2>2. QED
    BY <1>3, <2>1, CrashFrames, TakesKeepsResults
<1>4. ASSUME SimSendsResult PROVE ResultInv'
  BY <1>4 DEF SimSendsResult, First, faultVars, ResultInv, ReceivedIsNeverLost
<1>5. ASSUME SimThrowsAway PROVE ResultInv'
  <2>1. /\ simQ # <<>> /\ kind[First] = "invalid" /\ SimCommits /\ resPc = "idle"
        /\ kind' = kind /\ reported' = reported /\ received' = received /\ resPc' = resPc
    BY <1>5 DEF SimThrowsAway
  <2>2. QED
    BY <2>1, CommitKeepsResults
<1>6. ASSUME ConfirmResult PROVE ResultInv'
  <2>1. /\ resPc = "stored" /\ SimCommits /\ resPc' = "idle"
        /\ kind' = kind /\ reported' = reported /\ received' = received
    BY <1>6 DEF ConfirmResult
  <2>2. simQ # <<>> /\ First \in reported
    BY <2>1 DEF ResultInv
  <2>3. QED
    BY <2>1, <2>2, CommitKeepsResults
<1>7. ASSUME /\ UNCHANGED <<kind, simQ, reported, received>>
             /\ resPc' \in {resPc, "down", "idle"}
      PROVE  ResultInv'
  BY <1>7 DEF First, ResultInv, ReceivedIsNeverLost
<1>8. ASSUME SimStops \/ SimRefused \/ ConnectResult \/ BreakResult PROVE ResultInv'
  BY <1>7, <1>8 DEF SimStops, SimRefused, ConnectResult, BreakResult, faultVars
<1>9. ASSUME Restart \/ UNCHANGED myVars PROVE ResultInv'
  BY <1>7, <1>9 DEF Restart, myVars, simVars, faultVars
<1>10. ASSUME NEW s \in Sender, processMessageThread(s) \/ BackupFails(s) \/ CommitFails(s)
       PROVE  ResultInv'
  <2>1. UNCHANGED simVars /\ kind' = kind
    BY <1>10 DEF processMessageThread, BackupFails, CommitFails, Connect, RecoveryMessage,
         RecoveryFails, readXA, writeMessageToFile, commitXA, Send, ReadAck, deleteFile,
         SocketFails, faultVars
  <2>2. QED
    BY <1>7, <2>1 DEF simVars
<1>11. QED
  BY <1>1, <1>2, <1>3, <1>4, <1>5, <1>6, <1>8, <1>9, <1>10 DEF MyNext, Faults, Carrier

(***************************************************************************)
(* A message the carrier has taken is reported to the agent or first in a  *)
(* frame of the carrier's queue still, whatever breaks, fails or is left   *)
(* open (handleMessageClient(), processResultReceiverThread()).            *)
(***************************************************************************)
THEOREM ReportsAreKept == MySpec => []ReceivedIsNeverLost
<1>1. MyInit => AgentShape /\ ResultInv
  <2> SUFFICES ASSUME MyInit PROVE ResultInv
    BY MyStarts
  <2>1. simQ = <<>> /\ resPc = "down" /\ \A m \in Msg : received[m] = 0
    BY DEF MyInit
  <2>2. QED
    BY <2>1, EmptySeq DEF ResultInv, ReceivedIsNeverLost
<1>2. AgentShape /\ ResultInv /\ [MyNext]_myVars => (AgentShape /\ ResultInv)'
  BY MyShapeStep, ResultStep
<1>3. AgentShape /\ ResultInv => ReceivedIsNeverLost
  BY DEF ResultInv
<1>4. QED
  BY <1>1, <1>2, <1>3, PTL DEF MySpec
=============================================================================
