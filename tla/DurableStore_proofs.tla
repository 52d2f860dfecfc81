------------------------- MODULE DurableStore_proofs -------------------------
(***************************************************************************)
(* What is proved of DurableStore for every set of threads, ids, results   *)
(* and records, every assignment of ids to stripes and every bound: the    *)
(* map in memory and every possible rest of the journal agree.             *)
(*                                                                         *)
(* The argument is about one sequence, Whole: the file, followed by what   *)
(* is on the way to it.  The journal thread only moves records within it,  *)
(* an operation appends to it, and a failure cuts it back to the file.     *)
(***************************************************************************)
EXTENDS DurableStore, Journal_proofs, ProofLemmas

-----------------------------------------------------------------------------
(* Definitions *)

\* The records of the file that do not belong to the batch being written.
Base == Len(file) - written

Requests == Len(batch) + Len(queue)

\* The requests on the way to the file, those of the batch first.
Req == [i \in 1..Requests |-> IF i <= Len(batch) THEN batch[i] ELSE queue[i - Len(batch)]]

Whole == [i \in 1..Submitted |-> IF i <= Base THEN file[i] ELSE Req[i - Base].rec]

\* The constructor's work on any sequence of records.
Blank == [ok |-> TRUE, messages |-> [id \in Id |-> Absent]]

ReplayOf(recs) ==
    CHOOSE f : f = [n \in Nat |-> IF n = 0 THEN Blank ELSE ReplayRecord(f[n - 1], recs[n])]

\* How much of Whole is safe from a crash, as far as this process wrote it.
From == IF forced >= loaded THEN forced ELSE loaded

Works(t, id) == op[t] # NoOp /\ op[t].id = id
Free(id) == \A t \in Thread : ~Works(t, id)

-----------------------------------------------------------------------------
(* The inductive invariant *)

\* A thread holds a lock exactly while it is in append(), one thread a stripe,
\* and none once the process is gone; the entry it has looked up stays.
Locks ==
    /\ \A t \in Thread : call[t] = "idle" <=> op[t] = NoOp
    /\ \A t, u \in Thread :
          op[t] # NoOp /\ op[u] # NoOp /\ stripeOf[op[t].id] = stripeOf[op[u].id] => t = u
    /\ ~up => \A t \in Thread : op[t] = NoOp
    /\ \A t \in Thread : op[t] # NoOp /\ op[t].event \notin {"STAGE", "DISCARD"} => Known(op[t].id)

\* What replaying j records gives for id: the entry in memory until the
\* record of the operation under way, and its effect from there on.
Agrees(id, j, m) ==
    /\ Free(id) => m = messages[id]
    /\ \A t \in Thread : Works(t, id) =>
          /\ call[t] = "done" => m = Effect(op[t], messages[id])
          /\ call[t] = "error" => m \in {messages[id], Effect(op[t], messages[id])}
          /\ call[t] = "await" => \A i \in 1..Requests : Req[i].by = t =>
                m = IF j < Base + i THEN messages[id] ELSE Effect(op[t], messages[id])

Agreement ==
    up => \A id \in Id : uncertain[id] = {} =>
             \A j \in From..Submitted :
                 ReplayOf(Whole)[j].ok => Agrees(id, j, ReplayOf(Whole)[j].messages[id])

NoDiscardUncertain == \A id \in Id : "DISCARD" \notin uncertain[id]

\* The map after the whole of it.
End == ReplayOf(Whole)[Submitted]

\* No record names an id the replay does not know by then; for that, an id
\* known in memory is known at the end.
Readable ==
    up /\ NoDiscardUncertain =>
        /\ End.ok
        /\ ~failure =>
              /\ \A id \in Id : Known(id) /\ Free(id) => End.messages[id] # Absent
              /\ \A t \in Thread : op[t] # NoOp /\ op[t].event # "DISCARD" =>
                    End.messages[op[t].id] # Absent

StoreInv ==
    /\ RefInv
    /\ StoreTypeOK
    /\ Locks
    /\ Agreement
    /\ Readable

-----------------------------------------------------------------------------
(* Replaying a sequence of records *)

\* The beginning of a replay.
Begun(g, n, recs) ==
    g = [k \in 0..n |-> IF k = 0 THEN Blank ELSE ReplayRecord(g[k - 1], recs[k])]

LEMMA Begins == ASSUME NEW recs, NEW n \in Nat PROVE \E g : Begun(g, n, recs)
<1> DEFINE Bad == {k \in Nat : ~ \E g : Begun(g, k, recs)}
<1>1. SUFFICES ASSUME n \in Bad PROVE FALSE
  OBVIOUS
<1>2. PICK m \in Bad : \A k \in Bad : m <= k
  BY <1>1, LeastOfNaturals
<1>3. m \in Nat /\ ~ \E g : Begun(g, m, recs)
  BY <1>2
<1>4. CASE m = 0
  <2> DEFINE g == [k \in 0..0 |-> Blank]
  <2>1. g = [k \in 0..0 |-> IF k = 0 THEN Blank ELSE ReplayRecord(g[k - 1], recs[k])]
    OBVIOUS
  <2>2. Begun(g, 0, recs)
    BY <2>1 DEF Begun
  <2>3. QED
    BY <1>3, <1>4, <2>2
<1>5. CASE m # 0
  <2>1. m - 1 \in Nat /\ m - 1 \notin Bad
    BY <1>2, <1>3, <1>5
  <2>2. PICK g : Begun(g, m - 1, recs)
    BY <2>1
  <2>3. /\ g = [k \in 0..(m - 1) |-> IF k = 0 THEN Blank ELSE ReplayRecord(g[k - 1], recs[k])]
    BY <2>2 DEF Begun
  <2> DEFINE h == [k \in 0..m |-> IF k = m THEN ReplayRecord(g[m - 1], recs[m]) ELSE g[k]]
  <2>4. ASSUME NEW k \in 0..m
        PROVE  h[k] = IF k = 0 THEN Blank ELSE ReplayRecord(h[k - 1], recs[k])
    <3>1. CASE k = m
      <4>1. m - 1 \in 0..m /\ m - 1 # m
        BY <1>3, <1>5
      <4>2. h[m - 1] = g[m - 1]
        BY <4>1
      <4>3. QED
        BY <1>5, <3>1, <4>2
    <3>2. CASE k # m
      <4>1. k \in 0..(m - 1)
        BY <1>3, <3>2
      <4>2. h[k] = g[k]
        BY <3>2
      <4>3. k # 0 => k - 1 \in 0..m /\ k - 1 # m
        BY <1>3, <4>1
      <4>4. k # 0 => h[k - 1] = g[k - 1]
        BY <4>3
      <4>5. g[k] = IF k = 0 THEN Blank ELSE ReplayRecord(g[k - 1], recs[k])
        BY <2>3, <4>1
      <4>6. QED
        BY <4>2, <4>4, <4>5
    <3>3. QED
      BY <3>1, <3>2
  <2>5. h = [k \in 0..m |-> IF k = 0 THEN Blank ELSE ReplayRecord(h[k - 1], recs[k])]
    <3>1. h = [k \in 0..m |-> h[k]]
      OBVIOUS
    <3> HIDE DEF h
    <3>2. QED
      BY <2>4, <3>1
  <2>6. Begun(h, m, recs)
    BY <2>5 DEF Begun
  <2>7. QED
    BY <1>3, <2>6
<1>6. QED
  BY <1>4, <1>5

LEMMA BeginningsAgree ==
  ASSUME NEW recs, NEW n \in Nat, NEW m \in Nat, NEW g, NEW h,
         Begun(g, n, recs), Begun(h, m, recs), n <= m
  PROVE  \A k \in 0..n : g[k] = h[k]
<1> DEFINE Bad == {k \in 0..n : g[k] # h[k]}
<1>1. SUFFICES ASSUME Bad # {} PROVE FALSE
  OBVIOUS
<1>2. Bad \in SUBSET Nat
  OBVIOUS
<1>3. PICK k \in Bad : \A j \in Bad : k <= j
  BY <1>1, <1>2, LeastOfNaturals
<1>4. k \in 0..n /\ g[k] # h[k] /\ k \in 0..m
  BY <1>3
<1>5. /\ g[k] = IF k = 0 THEN Blank ELSE ReplayRecord(g[k - 1], recs[k])
      /\ h[k] = IF k = 0 THEN Blank ELSE ReplayRecord(h[k - 1], recs[k])
  BY <1>4 DEF Begun
<1>6. k # 0
  BY <1>4, <1>5
<1>7. k - 1 \in 0..n /\ ~(k <= k - 1)
  BY <1>4, <1>6
<1>8. g[k - 1] = h[k - 1]
  BY <1>3, <1>7
<1>9. QED
  BY <1>4, <1>5, <1>8

\* The recursive definition has a solution.
LEMMA ReplayExists ==
  ASSUME NEW recs
  PROVE  \E f : f = [n \in Nat |-> IF n = 0 THEN Blank ELSE ReplayRecord(f[n - 1], recs[n])]
<1> DEFINE start(n) == CHOOSE g : Begun(g, n, recs)
           f == [n \in Nat |-> start(n)[n]]
<1>1. \A n \in Nat : Begun(start(n), n, recs)
  BY Begins
<1> HIDE DEF start
<1>2. ASSUME NEW n \in Nat
      PROVE  f[n] = IF n = 0 THEN Blank ELSE ReplayRecord(f[n - 1], recs[n])
  <2>1. start(n)[n] = IF n = 0 THEN Blank ELSE ReplayRecord(start(n)[n - 1], recs[n])
    BY <1>1 DEF Begun
  <2>2. CASE n = 0
    BY <2>1, <2>2
  <2>3. CASE n # 0
    <3>1. n - 1 \in Nat /\ n - 1 <= n /\ n - 1 \in 0..(n - 1)
      BY <2>3
    <3>2. start(n - 1)[n - 1] = start(n)[n - 1]
      BY <1>1, <3>1, BeginningsAgree
    <3>3. QED
      BY <2>1, <2>3, <3>1, <3>2
  <2>4. QED
    BY <2>2, <2>3
<1>3. f = [n \in Nat |-> IF n = 0 THEN Blank ELSE ReplayRecord(f[n - 1], recs[n])]
  <2>1. f = [n \in Nat |-> f[n]]
    OBVIOUS
  <2> HIDE DEF f
  <2>2. QED
    BY <1>2, <2>1
<1>4. QED
  BY <1>3

LEMMA ReplaySteps ==
  ASSUME NEW recs
  PROVE  /\ ReplayOf(recs)[0] = Blank
         /\ \A n \in Nat : ReplayOf(recs)[n + 1] = ReplayRecord(ReplayOf(recs)[n], recs[n + 1])
<1> DEFINE f == ReplayOf(recs)
<1>1. f = [n \in Nat |-> IF n = 0 THEN Blank ELSE ReplayRecord(f[n - 1], recs[n])]
  BY ReplayExists DEF ReplayOf
<1> HIDE DEF f
<1>2. f[0] = Blank
  BY <1>1
<1>3. ASSUME NEW n \in Nat PROVE f[n + 1] = ReplayRecord(f[n], recs[n + 1])
  <2>1. n + 1 \in Nat /\ n + 1 # 0 /\ n + 1 - 1 = n
    OBVIOUS
  <2>2. QED
    BY <1>1, <2>1
<1>4. QED
  BY <1>2, <1>3 DEF f

LEMMA FileReplay == Replayed = ReplayOf(file)
BY DEF Replayed, ReplayOf, Blank

\* What is replayed depends on the records up to there only.
LEMMA SamePrefix ==
  ASSUME NEW recs, NEW others, NEW n \in Nat, \A i \in 1..n : recs[i] = others[i]
  PROVE  \A k \in 0..n : ReplayOf(recs)[k] = ReplayOf(others)[k]
<1> DEFINE Bad == {k \in 0..n : ReplayOf(recs)[k] # ReplayOf(others)[k]}
<1>1. SUFFICES ASSUME Bad # {} PROVE FALSE
  OBVIOUS
<1>2. Bad \in SUBSET Nat
  OBVIOUS
<1>3. PICK k \in Bad : \A j \in Bad : k <= j
  BY <1>1, <1>2, LeastOfNaturals
<1>4. k \in 0..n /\ ReplayOf(recs)[k] # ReplayOf(others)[k]
  BY <1>3
<1>5. k # 0
  BY <1>4, ReplaySteps
<1>6. k - 1 \in Nat /\ k - 1 \in 0..n /\ ~(k <= k - 1) /\ k \in 1..n /\ k - 1 + 1 = k
  BY <1>4, <1>5
<1>7. ReplayOf(recs)[k - 1] = ReplayOf(others)[k - 1]
  BY <1>3, <1>6
<1>8. /\ ReplayOf(recs)[k] = ReplayRecord(ReplayOf(recs)[k - 1], recs[k])
      /\ ReplayOf(others)[k] = ReplayRecord(ReplayOf(others)[k - 1], others[k])
  BY <1>6, ReplaySteps
<1>9. QED
  BY <1>4, <1>6, <1>7, <1>8

Recovered == [ok : BOOLEAN, messages : [Id -> Entry \cup {Absent}]]

LEMMA RecordShape ==
  ASSUME NEW r \in Record
  PROVE  /\ r.id \in Id /\ r.event \in Event
         /\ r.event = "STATE" => r.state \in SettableState
         /\ r.event \in {"RETRY", "PUBLISHED"} => r.count \in Nat
         /\ r.event = "RESULT" => r.result \in Result
<1>1. r \in StoreRecord(Nat \ {0})
  BY StoreAssumption
<1>2. CASE r \in [event : {"STAGE", "DISCARD"}, id : Id]
  BY <1>2 DEF Event
<1>3. CASE r \in [event : {"STATE"}, id : Id, state : SettableState]
  BY <1>3 DEF Event
<1>4. CASE r \in [event : {"RETRY", "PUBLISHED"}, id : Id, count : Nat \ {0}]
  BY <1>4 DEF Event
<1>5. CASE r \in [event : {"RESULT"}, id : Id, result : Result]
  BY <1>5 DEF Event
<1>6. QED
  BY <1>1, <1>2, <1>3, <1>4, <1>5 DEF StoreRecord

LEMMA AbsentIsNoEntry == Absent \notin Entry /\ NewEntry \in Entry
<1>1. NewEntry \in Entry
  BY DEF NewEntry, Entry, State
<1>2. ASSUME Absent \in Entry PROVE FALSE
  <2>1. Absent.state \in State
    BY <1>2 DEF Entry
  <2>2. QED
    BY <2>1 DEF Absent, State
<1>3. QED
  BY <1>1, <1>2

\* An operation needs an entry or makes one, and leaves one unless it
\* discards it.
LEMMA EffectOf ==
  ASSUME NEW r \in Record, NEW m \in Entry \cup {Absent},
         r.event \in {"STAGE", "DISCARD"} \/ m # Absent
  PROVE  /\ r.event = "DISCARD" => Effect(r, m) = Absent
         /\ r.event # "DISCARD" => Effect(r, m) \in Entry
         /\ Effect(r, m) \in Entry \cup {Absent}
<1>1. CASE r.event = "STAGE"
  BY <1>1, AbsentIsNoEntry DEF Effect
<1>2. CASE r.event = "DISCARD"
  BY <1>2 DEF Effect
<1>3. ASSUME r.event \notin {"STAGE", "DISCARD"} PROVE m \in Entry
  BY <1>3
<1>4. CASE r.event = "STATE"
  <2>1. r.state \in State /\ m \in Entry
    BY <1>3, <1>4, RecordShape DEF SettableState, State
  <2>2. [m EXCEPT !.state = r.state] \in Entry
    BY <2>1 DEF Entry
  <2>3. QED
    BY <1>4, <2>2 DEF Effect
<1>5. CASE r.event = "RETRY"
  <2>1. r.count \in Nat /\ m \in Entry /\ "RETRY_WAIT" \in State
    BY <1>3, <1>5, RecordShape DEF State
  <2>2. [m EXCEPT !.retryCount = r.count, !.state = "RETRY_WAIT"] \in Entry
    BY <2>1 DEF Entry
  <2>3. QED
    BY <1>5, <2>2 DEF Effect
<1>6. CASE r.event = "RESULT"
  <2>1. r.result \in Result /\ m \in Entry /\ "RESULT_PENDING" \in State /\ 0 \in Nat
    BY <1>3, <1>6, RecordShape DEF State
  <2>2. [m EXCEPT !.result = r.result, !.publishedCount = 0,
                  !.state = "RESULT_PENDING"] \in Entry
    BY <2>1 DEF Entry
  <2>3. QED
    BY <1>6, <2>2 DEF Effect
<1>7. CASE r.event = "PUBLISHED"
  <2>1. r.count \in Nat /\ m \in Entry
    BY <1>3, <1>7, RecordShape
  <2>2. [m EXCEPT !.publishedCount = r.count] \in Entry
    BY <2>1 DEF Entry
  <2>3. QED
    BY <1>7, <2>2 DEF Effect
<1>8. QED
  BY <1>1, <1>2, <1>4, <1>5, <1>6, <1>7, RecordShape DEF Event

\* The constructor does to the map what the operation did.
LEMMA ReplayIsEffect ==
  ASSUME NEW prev \in Recovered, NEW r \in Record
  PROVE  LET next == ReplayRecord(prev, r)
             m == prev.messages[r.id]
         IN  /\ next \in Recovered
             /\ next.ok <=> prev.ok /\ (r.event \in {"STAGE", "DISCARD"} \/ m # Absent)
             /\ next.ok => /\ next.messages[r.id] = Effect(r, m)
                           /\ \A id \in Id : id # r.id => next.messages[id] = prev.messages[id]
<1> DEFINE m == prev.messages[r.id]
           new == CASE r.event = "STAGE"     -> NewEntry
                    [] r.event = "STATE"     -> [m EXCEPT !.state = r.state]
                    [] r.event = "RETRY"     -> [m EXCEPT !.retryCount = r.count,
                                                          !.state = "RETRY_WAIT"]
                    [] r.event = "RESULT"    -> [m EXCEPT !.result = r.result,
                                                          !.state = "RESULT_PENDING",
                                                          !.publishedCount = 0]
                    [] r.event = "PUBLISHED" -> [m EXCEPT !.publishedCount = r.count]
                    [] r.event = "DISCARD"   -> Absent
           legal == r.event \in {"STAGE", "DISCARD"} \/ m # Absent
<1>1. r.id \in Id /\ r.event \in Event /\ m \in Entry \cup {Absent}
  BY RecordShape DEF Recovered
<1>2. ReplayRecord(prev, r) = IF ~prev.ok \/ ~legal
                              THEN [prev EXCEPT !.ok = FALSE]
                              ELSE [prev EXCEPT !.messages[r.id] = new]
  BY <1>1 DEF ReplayRecord, Event
<1>3. ASSUME legal PROVE new = Effect(r, m)
  <2>1. CASE r.event = "RESULT"
    <3>1. m \in Entry
      BY <1>1, <1>3, <2>1
    <3>2. [m EXCEPT !.result = r.result, !.state = "RESULT_PENDING", !.publishedCount = 0]
            = [m EXCEPT !.result = r.result, !.publishedCount = 0, !.state = "RESULT_PENDING"]
      BY <3>1 DEF Entry
    <3>3. QED
      BY <2>1, <3>2 DEF Effect
  <2>2. CASE r.event # "RESULT"
    BY <1>1, <2>2 DEF Effect, Event
  <2>3. QED
    BY <2>1, <2>2
<1>4. ASSUME legal PROVE Effect(r, m) \in Entry \cup {Absent}
  BY <1>1, <1>4, EffectOf
<1> HIDE DEF m, new, legal
<1>5. CASE ~prev.ok \/ ~legal
  <2>1. ReplayRecord(prev, r) = [prev EXCEPT !.ok = FALSE]
    BY <1>2, <1>5
  <2>2. [prev EXCEPT !.ok = FALSE] \in Recovered /\ [prev EXCEPT !.ok = FALSE].ok = FALSE
    BY DEF Recovered
  <2>3. QED
    BY <1>5, <2>1, <2>2 DEF legal, m
<1>6. CASE prev.ok /\ legal
  <2>1. ReplayRecord(prev, r) = [prev EXCEPT !.messages[r.id] = Effect(r, m)]
    BY <1>2, <1>3, <1>6
  <2>2. Effect(r, m) \in Entry \cup {Absent}
    BY <1>4, <1>6
  <2> DEFINE e == Effect(r, m)
             map == [prev.messages EXCEPT ![r.id] = e]
  <2> HIDE DEF e
  <2>3. /\ map \in [Id -> Entry \cup {Absent}] /\ map[r.id] = e
        /\ \A id \in Id : id # r.id => map[id] = prev.messages[id]
    BY <1>1, <2>2 DEF Recovered, e
  <2>4. [prev EXCEPT !.messages[r.id] = e] = [ok |-> prev.ok, messages |-> map]
    BY DEF Recovered
  <2> HIDE DEF map
  <2>5. [ok |-> prev.ok, messages |-> map] \in Recovered
    BY <2>3 DEF Recovered
  <2>6. QED
    BY <1>6, <2>1, <2>3, <2>4, <2>5 DEF e, m, legal
<1>7. QED
  BY <1>5, <1>6

LEMMA ReplayTypes ==
  ASSUME NEW recs, NEW n \in Nat, \A i \in 1..n : recs[i] \in Record
  PROVE  \A k \in 0..n : ReplayOf(recs)[k] \in Recovered
<1> DEFINE Bad == {k \in 0..n : ReplayOf(recs)[k] \notin Recovered}
<1>1. SUFFICES ASSUME Bad # {} PROVE FALSE
  OBVIOUS
<1>2. Bad \in SUBSET Nat
  OBVIOUS
<1>3. PICK k \in Bad : \A j \in Bad : k <= j
  BY <1>1, <1>2, LeastOfNaturals
<1>4. k \in 0..n /\ ReplayOf(recs)[k] \notin Recovered
  BY <1>3
<1>5. k # 0
  <2>1. Blank \in Recovered
    BY DEF Blank, Recovered
  <2>2. QED
    BY <1>4, <2>1, ReplaySteps
<1>6. k - 1 \in Nat /\ k - 1 \in 0..n /\ ~(k <= k - 1) /\ k \in 1..n /\ k - 1 + 1 = k
  BY <1>4, <1>5
<1>7. ReplayOf(recs)[k - 1] \in Recovered
  BY <1>3, <1>6
<1>8. ReplayOf(recs)[k] = ReplayRecord(ReplayOf(recs)[k - 1], recs[k])
  BY <1>6, ReplaySteps
<1>9. QED
  BY <1>4, <1>6, <1>7, <1>8, ReplayIsEffect

\* A replay that has failed stays failed.
LEMMA ReplayOk ==
  ASSUME NEW recs, NEW n \in Nat, \A i \in 1..n : recs[i] \in Record,
         ReplayOf(recs)[n].ok
  PROVE  \A k \in 0..n : ReplayOf(recs)[k].ok
<1> DEFINE Bad == {d \in 0..n : ~ReplayOf(recs)[n - d].ok}
<1>1. SUFFICES ASSUME Bad # {} PROVE FALSE
  <2>1. \A k \in 0..n : n - k \in 0..n /\ n - (n - k) = k
    OBVIOUS
  <2>2. QED
    BY <1>1, <2>1
<1>2. Bad \in SUBSET Nat
  OBVIOUS
<1>3. PICK d \in Bad : \A j \in Bad : d <= j
  BY <1>1, <1>2, LeastOfNaturals
<1>4. d \in 0..n /\ ~ReplayOf(recs)[n - d].ok
  BY <1>3
<1>5. d # 0
  <2>1. n - 0 = n
    OBVIOUS
  <2>2. QED
    BY <1>4, <2>1
<1>6. /\ d - 1 \in 0..n /\ ~(d <= d - 1) /\ n - d \in 0..n /\ n - d + 1 \in 1..n
      /\ n - (d - 1) = n - d + 1
  BY <1>4, <1>5
<1>7. ReplayOf(recs)[n - d + 1].ok
  BY <1>3, <1>6
<1>8. ReplayOf(recs)[n - d + 1] = ReplayRecord(ReplayOf(recs)[n - d], recs[n - d + 1])
  BY <1>6, ReplaySteps
<1>9. ReplayOf(recs)[n - d] \in Recovered
  BY <1>6, ReplayTypes
<1>10. QED
  BY <1>4, <1>6, <1>7, <1>8, <1>9, ReplayIsEffect

-----------------------------------------------------------------------------
(* The steps of the journal seen from Whole *)

WholeShape ==
    /\ Len(file) \in Nat /\ Len(batch) \in Nat /\ Len(queue) \in Nat
    /\ Base \in Nat /\ Requests \in Nat /\ Submitted \in Nat
    /\ Submitted = Base + Requests
    /\ Base <= Len(file) /\ Len(file) <= Submitted
    /\ \A i \in 1..Requests : Req[i] \in Request /\ Whole[Base + i] = Req[i].rec
    /\ \A i \in 1..Submitted : Whole[i] \in Record
    /\ \A i \in 1..Len(file) : Whole[i] = file[i]

LEMMA ShapeOfWhole == RefInv => WholeShape
<1> SUFFICES ASSUME RefInv PROVE WholeShape
  OBVIOUS
<1>1. /\ Len(file) \in Nat /\ Len(batch) \in Nat /\ Len(queue) \in Nat
      /\ written \in 0..Len(batch) /\ FileEndsInBatch
      /\ file \in Seq(Record) /\ batch \in Seq(Request) /\ queue \in Seq(Request)
      /\ writer \in {"poll", "write", "ack", "exit"}
  BY Counters DEF RefInv, TypeOK
<1>2. written <= Len(file) /\ \A i \in 1..written : file[Base + i] = batch[i].rec
  BY <1>1 DEF FileEndsInBatch, Base
<1>3. /\ Base \in Nat /\ Requests \in Nat /\ Submitted \in Nat
      /\ Submitted = Base + Requests
      /\ Base <= Len(file) /\ Len(file) <= Submitted
  BY <1>1, <1>2 DEF Base, Requests, Submitted
<1>4. ASSUME NEW i \in 1..Requests PROVE Req[i] \in Request /\ Whole[Base + i] = Req[i].rec
  <2>1. Req[i] \in Request
    <3>1. CASE i <= Len(batch)
      <4>1. i \in 1..Len(batch)
        BY <1>1, <1>3, <3>1
      <4>2. QED
        BY <1>1, <3>1, <4>1, ElementOfSeq DEF Req
    <3>2. CASE ~(i <= Len(batch))
      <4>1. i - Len(batch) \in 1..Len(queue)
        BY <1>1, <1>3, <3>2 DEF Requests
      <4>2. QED
        BY <1>1, <3>2, <4>1, ElementOfSeq DEF Req
    <3>3. QED
      BY <3>1, <3>2
  <2>2. Base + i \in 1..Submitted /\ ~(Base + i <= Base) /\ Base + i - Base = i
    BY <1>3
  <2>3. \A k \in 1..Submitted : Whole[k] = IF k <= Base THEN file[k] ELSE Req[k - Base].rec
    BY DEF Whole
  <2>4. Whole[Base + i] = Req[i].rec
    BY <1>3, <2>2, <2>3
  <2>5. QED
    BY <2>1, <2>4
<1>5. ASSUME NEW i \in 1..Submitted PROVE Whole[i] \in Record
  <2>1. CASE i <= Base
    <3>1. i \in 1..Len(file)
      BY <1>3, <2>1
    <3>2. QED
      BY <1>1, <2>1, <3>1, ElementOfSeq DEF Whole
  <2>2. CASE ~(i <= Base)
    <3>1. i - Base \in 1..Requests /\ Base + (i - Base) = i
      BY <1>3, <2>2
    <3>2. Whole[i] = Req[i - Base].rec /\ Req[i - Base] \in Request
      BY <1>4, <3>1
    <3>3. QED
      BY <3>2 DEF Request
  <2>3. QED
    BY <2>1, <2>2
<1>6. ASSUME NEW i \in 1..Len(file) PROVE Whole[i] = file[i]
  <2>1. CASE i <= Base
    BY <1>3, <2>1 DEF Whole
  <2>2. CASE ~(i <= Base)
    <3>1. i - Base \in 1..written /\ Base + (i - Base) = i /\ i - Base <= Len(batch)
      BY <1>1, <1>3, <2>2 DEF Base
    <3>2. i - Base \in 1..Requests
      BY <1>1, <3>1 DEF Requests
    <3>3. Whole[i] = Req[i - Base].rec
      BY <1>4, <3>1, <3>2
    <3>4. Req[i - Base] = batch[i - Base]
      BY <3>1, <3>2 DEF Req
    <3>5. file[i] = batch[i - Base].rec
      BY <1>2, <3>1
    <3>6. QED
      BY <3>3, <3>4, <3>5
  <2>3. QED
    BY <2>1, <2>2
<1>7. QED
  BY <1>1, <1>3, <1>4, <1>5, <1>6 DEF WholeShape

LEMMA ShapeOfWholeNext == RefInv' => WholeShape'
BY ShapeOfWhole, PTL

LEMMA WholeReplay ==
  ASSUME RefInv
  PROVE  /\ \A k \in 0..Len(file) : Replayed[k] = ReplayOf(Whole)[k]
         /\ \A k \in 0..Submitted : ReplayOf(Whole)[k] \in Recovered
         /\ \A j \in 0..Submitted : ReplayOf(Whole)[j].ok =>
               \A k \in 0..j : ReplayOf(Whole)[k].ok
<1>1. WholeShape
  BY ShapeOfWhole
<1>2. \A k \in 0..Len(file) : Replayed[k] = ReplayOf(Whole)[k]
  <2>1. Len(file) \in Nat /\ \A i \in 1..Len(file) : file[i] = Whole[i]
    BY <1>1 DEF WholeShape
  <2>2. QED
    BY <2>1, SamePrefix, FileReplay
<1>3. \A k \in 0..Submitted : ReplayOf(Whole)[k] \in Recovered
  BY <1>1, ReplayTypes DEF WholeShape
<1>4. ASSUME NEW j \in 0..Submitted, ReplayOf(Whole)[j].ok
      PROVE  \A k \in 0..j : ReplayOf(Whole)[k].ok
  <2>1. j \in Nat /\ \A i \in 1..j : Whole[i] \in Record
    BY <1>1 DEF WholeShape
  <2>2. QED
    BY <1>4, <2>1, ReplayOk
<1>5. QED
  BY <1>2, <1>3, <1>4

\* The journal thread moves d requests into the file, or none.
Carried(d) ==
    /\ Base' = Base + d /\ Requests' = Requests - d
    /\ \A i \in 1..Requests' : /\ Req'[i].rec = Req[i + d].rec
                               /\ Req'[i].by \in {Req[i + d].by, Nobody}
    /\ \A i \in 1..Base' : file'[i] = Whole[i]

LEMMA CarriedWhole ==
  ASSUME RefInv, RefInv', NEW d \in Nat, Carried(d)
  PROVE  /\ Submitted' = Submitted
         /\ \A i \in 1..Submitted : Whole'[i] = Whole[i]
         /\ \A k \in 0..Submitted : ReplayOf(Whole)'[k] = ReplayOf(Whole)[k]
<1>1. WholeShape /\ WholeShape'
  BY ShapeOfWhole, ShapeOfWholeNext
<1>2. /\ Base \in Nat /\ Requests \in Nat /\ Base' \in Nat /\ Requests' \in Nat
      /\ Submitted = Base + Requests /\ Submitted' = Base' + Requests'
      /\ Base' = Base + d /\ Requests' = Requests - d /\ Base' <= Len(file')
      /\ Len(file') \in Nat
  BY <1>1 DEF WholeShape, Carried
<1>3. Submitted' = Submitted
  BY <1>2
<1>4. ASSUME NEW i \in 1..Submitted PROVE Whole'[i] = Whole[i]
  <2>1. CASE i <= Base'
    <3>1. i \in 1..Base' /\ i \in 1..Len(file')
      BY <1>2, <2>1
    <3>2. Whole'[i] = file'[i]
      BY <1>1, <3>1 DEF WholeShape
    <3>3. QED
      BY <3>1, <3>2 DEF Carried
  <2>2. CASE ~(i <= Base')
    <3> DEFINE j == i - Base'
    <3>1. j \in 1..Requests' /\ Base' + j = i /\ j + d \in 1..Requests /\ Base + (j + d) = i
      BY <1>2, <1>3, <2>2
    <3> HIDE DEF j
    <3>2. Whole'[i] = Req'[j].rec
      BY <1>1, <3>1 DEF WholeShape
    <3>3. Whole[i] = Req[j + d].rec
      BY <1>1, <3>1 DEF WholeShape
    <3>4. Req'[j].rec = Req[j + d].rec
      BY <3>1 DEF Carried
    <3>5. QED
      BY <3>2, <3>3, <3>4
  <2>3. QED
    BY <2>1, <2>2
<1>5. \A k \in 0..Submitted : ReplayOf(Whole')[k] = ReplayOf(Whole)[k]
  <2>1. Submitted \in Nat
    BY <1>1 DEF WholeShape
  <2>2. QED
    BY <1>4, <2>1, SamePrefix
<1>6. QED
  BY <1>3, <1>4, <1>5 DEF ReplayOf, ReplayRecord

LEMMA SameRequests ==
  ASSUME RefInv, UNCHANGED <<file, batch, queue, written>>
  PROVE  Carried(0)
<1>1. WholeShape
  BY ShapeOfWhole
<1>2. Base' = Base /\ Requests' = Requests /\ Req' = Req
  BY DEF Base, Requests, Req
<1>3. /\ Base \in Nat /\ Requests \in Nat
      /\ \A i \in 1..Base : i \in 1..Len(file)
  BY <1>1 DEF WholeShape
<1>4. \A i \in 1..Base : file[i] = Whole[i]
  BY <1>1, <1>3 DEF WholeShape
<1>5. \A i \in 1..Requests : i + 0 = i
  BY <1>3
<1>6. QED
  BY <1>2, <1>3, <1>4, <1>5 DEF Carried

LEMMA GatherCarries == ASSUME RefInv, Gather PROVE Carried(0)
<1>1. WholeShape /\ queue \in Seq(Request) /\ FileEndsInBatch
  BY ShapeOfWhole, Counters DEF RefInv
<1>2. batch = <<>> /\ written = 0 /\ writer = "poll"
  BY <1>1 DEF Gather, FileEndsInBatch
<1>3. PICK n \in 1..Least(BatchMax, Len(queue)) :
         batch' = SubSeq(queue, 1, n) /\ queue' = SubSeq(queue, n + 1, Len(queue))
  BY DEF Gather
<1>4. /\ n \in 1..Len(queue) /\ Len(queue) \in Nat
      /\ Len(batch') = n /\ \A i \in 1..n : batch'[i] = queue[i]
      /\ Len(queue') = Len(queue) - n
      /\ \A i \in 1..(Len(queue) - n) : queue'[i] = queue[n + i]
  BY <1>1, <1>3, GatherTypes DEF WholeShape
<1>5. file' = file /\ written' = 0
  BY DEF Gather, disk
<1>6. Len(batch) = 0
  BY <1>2, EmptySeq
<1>7. /\ Base = Len(file) /\ Base' = Base /\ Base \in Nat
      /\ Requests = Len(queue) /\ Requests' = Requests /\ Requests \in Nat
  BY <1>1, <1>2, <1>4, <1>5, <1>6 DEF Base, Requests, WholeShape
<1>8. ASSUME NEW i \in 1..Requests PROVE Req'[i] = Req[i + 0]
  <2>1. i + 0 = i /\ ~(i <= 0) /\ i - 0 = i
    BY <1>7
  <2>2. Req[i] = queue[i]
    BY <1>6, <2>1 DEF Req
  <2>3. CASE i <= n
    <3>1. i \in 1..n
      BY <1>4, <1>7, <2>3
    <3>2. Req'[i] = batch'[i]
      BY <1>4, <1>7, <2>3 DEF Req
    <3>3. QED
      BY <1>4, <2>1, <2>2, <3>1, <3>2
  <2>4. CASE ~(i <= n)
    <3>1. i - n \in 1..(Len(queue) - n) /\ n + (i - n) = i
      BY <1>4, <1>7, <2>4
    <3>2. Req'[i] = queue'[i - n]
      BY <1>4, <1>7, <2>4 DEF Req
    <3>3. QED
      BY <1>4, <2>1, <2>2, <3>1, <3>2
  <2>5. QED
    BY <2>3, <2>4
<1>9. \A i \in 1..Base : file[i] = Whole[i]
  BY <1>1, <1>7 DEF WholeShape
<1>10. QED
  BY <1>5, <1>7, <1>8, <1>9 DEF Carried

LEMMA WriteCarries == ASSUME RefInv, WriteRecord PROVE Carried(0) /\ Len(file') = Len(file) + 1
<1>1. WholeShape /\ file \in Seq(Record) /\ batch \in Seq(Request) /\ written \in 0..Len(batch)
  BY ShapeOfWhole, Counters
<1>2. /\ UNCHANGED <<batch, queue>> /\ written' = written + 1
      /\ file' = Append(file, batch[written + 1].rec) /\ written + 1 \in 1..Len(batch)
  BY <1>1 DEF WriteRecord, WholeShape
<1>3. batch[written + 1].rec \in Record
  <2>1. batch[written + 1] \in Request
    BY <1>1, <1>2, ElementOfSeq
  <2>2. QED
    BY <2>1 DEF Request
<1>4. Len(file') = Len(file) + 1 /\ \A i \in 1..Len(file) : file'[i] = file[i]
  BY <1>1, <1>2, <1>3, AppendProperties
<1>5. /\ Base' = Base /\ Requests' = Requests /\ Req' = Req
      /\ Base \in Nat /\ Requests \in Nat
      /\ \A i \in 1..Base : i \in 1..Len(file)
  BY <1>1, <1>2, <1>4 DEF Base, Requests, Req, WholeShape
<1>6. \A i \in 1..Base : file'[i] = Whole[i]
  BY <1>1, <1>4, <1>5 DEF WholeShape
<1>7. \A i \in 1..Requests : i + 0 = i
  BY <1>5
<1>8. QED
  BY <1>4, <1>5, <1>6, <1>7 DEF Carried

LEMMA AckCarries ==
  ASSUME RefInv, Ack
  PROVE  /\ Carried(Len(batch)) /\ Len(batch) \in Nat
         /\ Base + Len(batch) = forced /\ forced \in Nat
         /\ \A i \in 1..Len(batch) : i \in 1..Requests /\ Req[i] = batch[i]
<1>1. WholeShape /\ FileEndsInBatch /\ written \in 0..Len(batch) /\ forced \in 0..Len(file)
  BY ShapeOfWhole, Counters DEF RefInv
<1>2. /\ writer = "ack" /\ UNCHANGED <<file, queue>> /\ batch' = <<>> /\ written' = 0
      /\ Len(batch') = 0
  BY EmptySeq DEF Ack, disk
<1>3. written = Len(batch) /\ forced = Len(file) /\ Len(batch) \in Nat
  BY <1>1, <1>2 DEF FileEndsInBatch, WholeShape
<1>4. /\ Base \in Nat /\ Requests \in Nat /\ Len(queue) \in Nat /\ Len(file) \in Nat
      /\ Base' = Len(file) /\ Base + Len(batch) = Len(file) /\ Requests' = Len(queue)
      /\ Requests = Len(batch) + Len(queue)
  BY <1>1, <1>2, <1>3 DEF Base, Requests, WholeShape
<1>5. ASSUME NEW i \in 1..Requests' PROVE Req'[i] = Req[i + Len(batch)]
  <2>1. /\ i + Len(batch) \in 1..Requests /\ ~(i + Len(batch) <= Len(batch))
        /\ i + Len(batch) - Len(batch) = i /\ i \in 1..Requests' /\ ~(i <= 0) /\ i - 0 = i
    BY <1>3, <1>4
  <2>2. Req[i + Len(batch)] = queue[i]
    BY <2>1 DEF Req
  <2>3. Req'[i] = queue'[i]
    BY <1>2, <2>1 DEF Req
  <2>4. QED
    BY <1>2, <2>2, <2>3
<1>6. \A i \in 1..Base' : file'[i] = Whole[i]
  BY <1>1, <1>2, <1>4 DEF WholeShape
<1>7. \A i \in 1..Len(batch) : i \in 1..Requests /\ Req[i] = batch[i]
  <2>1. \A i \in 1..Len(batch) : i \in 1..Requests /\ i <= Len(batch)
    BY <1>3, <1>4
  <2>2. QED
    BY <2>1 DEF Req
<1>8. QED
  BY <1>1, <1>3, <1>4, <1>5, <1>6, <1>7 DEF Carried

LEMMA DisownCarries ==
  ASSUME RefInv, NEW t \in Thread, ThrowInterrupted(t)
  PROVE  Carried(0)
<1>1. WholeShape /\ batch \in Seq(Request) /\ queue \in Seq(Request)
  BY ShapeOfWhole, Counters
<1>2. /\ batch' = Disown(t, batch) /\ queue' = Disown(t, queue) /\ UNCHANGED <<file, written>>
  BY DEF ThrowInterrupted, disk
<1>3. ASSUME NEW reqs \in Seq(Request), NEW i \in 1..Len(reqs)
      PROVE  /\ Disown(t, reqs)[i].rec = reqs[i].rec
             /\ Disown(t, reqs)[i].by \in {reqs[i].by, Nobody}
  <2>1. reqs[i] \in Request
    BY ElementOfSeq
  <2>2. [reqs[i] EXCEPT !.by = Nobody].by = Nobody
    BY <2>1 DEF Request
  <2>3. Disown(t, reqs)[i].rec = reqs[i].rec
    BY DisownedRecords
  <2>4. Disown(t, reqs)[i] = [reqs[i] EXCEPT !.by = Nobody] \/ Disown(t, reqs)[i] = reqs[i]
    BY DisownProperties
  <2>5. QED
    BY <2>2, <2>3, <2>4
<1>4. Len(batch') = Len(batch) /\ Len(queue') = Len(queue)
  BY <1>1, <1>2, DisownProperties
<1>5. Base' = Base /\ Requests' = Requests /\ Base \in Nat /\ Requests \in Nat
  BY <1>1, <1>2, <1>4 DEF Base, Requests, WholeShape
<1>6. ASSUME NEW i \in 1..Requests
      PROVE  Req'[i].rec = Req[i].rec /\ Req'[i].by \in {Req[i].by, Nobody}
  <2>0. Len(batch) \in Nat /\ Len(queue) \in Nat /\ Requests = Len(batch) + Len(queue)
    BY <1>1 DEF WholeShape, Requests
  <2>1. CASE i <= Len(batch)
    <3>1. Req'[i] = batch'[i] /\ Req[i] = batch[i]
      BY <1>4, <1>5, <2>1 DEF Req
    <3>2. i \in 1..Len(batch)
      BY <1>5, <2>0, <2>1
    <3>3. QED
      BY <1>1, <1>2, <1>3, <3>1, <3>2
  <2>2. CASE ~(i <= Len(batch))
    <3>1. Req'[i] = queue'[i - Len(batch)] /\ Req[i] = queue[i - Len(batch)]
      BY <1>4, <1>5, <2>2 DEF Req
    <3>2. i - Len(batch) \in 1..Len(queue)
      BY <1>5, <2>0, <2>2
    <3>3. QED
      BY <1>1, <1>2, <1>3, <3>1, <3>2
  <2>3. QED
    BY <2>1, <2>2
<1>7. \A i \in 1..Requests : i + 0 = i
  BY <1>5
<1>8. \A i \in 1..Base : file'[i] = Whole[i]
  <2>1. \A i \in 1..Base : i \in 1..Len(file)
    BY <1>1 DEF WholeShape
  <2>2. QED
    BY <1>1, <1>2, <2>1 DEF WholeShape
<1>9. QED
  BY <1>5, <1>6, <1>7, <1>8 DEF Carried

\* A submitted record is the next one of Whole.
Appended(r, by) ==
    /\ Base' = Base /\ Requests' = Requests + 1
    /\ \A i \in 1..Requests : Req'[i] = Req[i]
    /\ Req'[Requests + 1] = [rec |-> r, by |-> by]
    /\ Submitted' = Submitted + 1
    /\ \A i \in 1..Submitted : Whole'[i] = Whole[i]
    /\ Whole'[Submitted + 1] = r
    /\ \A k \in 0..Submitted : ReplayOf(Whole')[k] = ReplayOf(Whole)[k]
    /\ ReplayOf(Whole')[Submitted + 1] = ReplayRecord(ReplayOf(Whole)[Submitted], r)

LEMMA SubmitAppends ==
  ASSUME RefInv, RefInv', NEW t \in Thread, NEW r \in Record, Submit(t, r)
  PROVE  Appended(r, IF interrupted[t] THEN Nobody ELSE t)
<1> DEFINE by == IF interrupted[t] THEN Nobody ELSE t
           q == [rec |-> r, by |-> by]
<1>1. WholeShape /\ WholeShape' /\ queue \in Seq(Request)
  BY ShapeOfWhole, ShapeOfWholeNext, Counters
<1>2. queue' = Append(queue, q) /\ UNCHANGED <<file, batch, written>>
  BY DEF Submit, disk
<1>3. q \in Request
  BY DEF Request
<1> HIDE DEF q
<1>4. /\ Len(queue') = Len(queue) + 1
      /\ \A i \in 1..Len(queue) : queue'[i] = queue[i]
      /\ queue'[Len(queue) + 1] = q
  BY <1>1, <1>2, <1>3, AppendProperties
<1>5. /\ Base' = Base /\ Requests' = Requests + 1 /\ Submitted' = Submitted + 1
      /\ Base \in Nat /\ Requests \in Nat /\ Submitted \in Nat /\ Submitted = Base + Requests
      /\ Len(batch) \in Nat /\ Len(queue) \in Nat /\ Requests = Len(batch) + Len(queue)
      /\ Base <= Len(file) /\ Len(file) \in Nat
  BY <1>1, <1>2, <1>4 DEF WholeShape, Base, Requests
<1>6. ASSUME NEW i \in 1..Requests PROVE Req'[i] = Req[i]
  <2>0. i \in 1..Requests'
    BY <1>5
  <2>1. CASE i <= Len(batch)
    BY <1>2, <2>0, <2>1 DEF Req
  <2>2. CASE ~(i <= Len(batch))
    <3>1. Req'[i] = queue'[i - Len(batch)] /\ Req[i] = queue[i - Len(batch)]
      BY <1>2, <2>0, <2>2 DEF Req
    <3>2. i - Len(batch) \in 1..Len(queue)
      BY <1>5, <2>2
    <3>3. QED
      BY <1>4, <3>1, <3>2
  <2>3. QED
    BY <2>1, <2>2
<1>7. Req'[Requests + 1] = q
  <2>1. /\ Requests + 1 \in 1..Requests' /\ ~(Requests + 1 <= Len(batch))
        /\ Requests + 1 - Len(batch) = Len(queue) + 1
    BY <1>5
  <2>2. \A k \in 1..Requests' :
           Req'[k] = IF k <= Len(batch') THEN batch'[k] ELSE queue'[k - Len(batch')]
    BY DEF Req
  <2>3. Req'[Requests + 1] = queue'[Len(queue) + 1]
    BY <1>2, <1>5, <2>1, <2>2
  <2>4. QED
    BY <1>4, <2>3
<1>8. ASSUME NEW i \in 1..Submitted PROVE Whole'[i] = Whole[i]
  <2>1. CASE i <= Base
    <3>1. i \in 1..Len(file)
      BY <1>5, <2>1
    <3>2. QED
      BY <1>1, <1>2, <3>1 DEF WholeShape
  <2>2. CASE ~(i <= Base)
    <3>1. i - Base \in 1..Requests /\ i - Base \in 1..(Requests + 1) /\ Base + (i - Base) = i
      BY <1>5, <2>2
    <3>2. Whole[i] = Req[i - Base].rec
      BY <1>1, <3>1 DEF WholeShape
    <3>3. Whole'[i] = Req'[i - Base].rec
      BY <1>1, <1>5, <3>1 DEF WholeShape
    <3>4. QED
      BY <1>6, <3>1, <3>2, <3>3
  <2>3. QED
    BY <2>1, <2>2
<1>9. Whole'[Submitted + 1] = r
  <2>1. Requests + 1 \in 1..Requests' /\ Base' + (Requests + 1) = Submitted + 1
    BY <1>5
  <2>2. Whole'[Submitted + 1] = Req'[Requests + 1].rec
    BY <1>1, <2>1 DEF WholeShape
  <2>3. QED
    BY <1>7, <2>2 DEF q
<1>10. \A k \in 0..Submitted : ReplayOf(Whole')[k] = ReplayOf(Whole)[k]
  <2>1. Submitted \in Nat /\ \A i \in 1..Submitted : Whole'[i] = Whole[i]
    BY <1>5, <1>8
  <2>2. QED
    BY <2>1, SamePrefix
<1>11. ReplayOf(Whole')[Submitted + 1] = ReplayRecord(ReplayOf(Whole)[Submitted], r)
  <2>1. Submitted \in 0..Submitted
    BY <1>5
  <2>2. ReplayOf(Whole')[Submitted + 1]
          = ReplayRecord(ReplayOf(Whole')[Submitted], Whole'[Submitted + 1])
    BY <1>5, ReplaySteps
  <2>3. QED
    BY <1>9, <1>10, <2>1, <2>2
<1>12. QED
  BY <1>5, <1>6, <1>7, <1>8, <1>9, <1>10, <1>11 DEF Appended, q

\* Only the file is left, as after a failure and in a new process.
OnlyFile ==
    /\ Requests' = 0
    /\ Submitted' = Len(file')
    /\ \A k \in 0..Len(file') : ReplayOf(Whole')[k] = ReplayOf(file')[k]

LEMMA OnlyFileLeft ==
  ASSUME RefInv', batch' = <<>>, queue' = <<>>, written' = 0
  PROVE  OnlyFile
<1>1. WholeShape'
  BY ShapeOfWholeNext
<1>2. Len(batch') = 0 /\ Len(queue') = 0
  BY EmptySeq
<1>3. Len(file') \in Nat
  BY <1>1 DEF WholeShape
<1>4. Requests' = 0 /\ Submitted' = Len(file')
  BY <1>2, <1>3 DEF Requests, Submitted
<1>5. \A i \in 1..Len(file') : Whole'[i] = file'[i]
  BY <1>1 DEF WholeShape
<1>6. \A k \in 0..Len(file') : ReplayOf(Whole')[k] = ReplayOf(file')[k]
  BY <1>3, <1>5, SamePrefix
<1>7. QED
  BY <1>4, <1>6 DEF OnlyFile

-----------------------------------------------------------------------------
(* The steps of the store *)

\* The journal moves on; nothing of what an operation depends on changes.
Still ==
    /\ Carried(0)
    /\ forced <= forced' /\ Len(file) <= Len(file')
    /\ UNCHANGED <<up, failure, call, messages, op, uncertain, loaded>>

\* An operation enters append(), its checks passed.
Enters(t, r) ==
    /\ Begin(t, r)
    /\ r.event \notin {"STAGE", "DISCARD"} => Known(r.id)

LEMMA OperationEnters ==
  ASSUME NEW t \in Thread, NEW id \in Id, Operation(t, id)
  PROVE  \E r \in Record : Enters(t, r)
<1>1. CASE Stage(t, id)
  <2> DEFINE r == [event |-> "STAGE", id |-> id]
  <2>1. Begin(t, r) /\ r.event = "STAGE"
    BY <1>1 DEF Stage
  <2>2. QED
    BY <2>1 DEF Enters, Begin
<1>2. CASE \E s \in SettableState : SetState(t, id, s)
  <2>1. PICK s \in SettableState : SetState(t, id, s)
    BY <1>2
  <2> DEFINE r == [event |-> "STATE", id |-> id, state |-> s]
  <2>2. Begin(t, r) /\ r.id = id /\ Known(id)
    BY <2>1 DEF SetState
  <2>3. QED
    BY <2>2 DEF Enters, Begin
<1>3. CASE Discard(t, id)
  <2> DEFINE r == [event |-> "DISCARD", id |-> id]
  <2>1. Begin(t, r) /\ r.event = "DISCARD"
    BY <1>3 DEF Discard
  <2>2. QED
    BY <2>1 DEF Enters, Begin
<1>4. CASE SetRetry(t, id)
  <2> DEFINE r == [event |-> "RETRY", id |-> id, count |-> messages[id].retryCount + 1]
  <2>1. Begin(t, r) /\ r.id = id /\ Known(id)
    BY <1>4 DEF SetRetry
  <2>2. QED
    BY <2>1 DEF Enters, Begin
<1>5. CASE \E res \in Result : SetResultPending(t, id, res)
  <2>1. PICK res \in Result : SetResultPending(t, id, res)
    BY <1>5
  <2> DEFINE r == [event |-> "RESULT", id |-> id, result |-> res]
  <2>2. Begin(t, r) /\ r.id = id /\ Known(id)
    BY <2>1 DEF SetResultPending
  <2>3. QED
    BY <2>2 DEF Enters, Begin
<1>6. CASE \E n \in 1..MaxRecords : SetPublishedCount(t, id, n)
  <2>1. PICK n \in 1..MaxRecords : SetPublishedCount(t, id, n)
    BY <1>6
  <2> DEFINE r == [event |-> "PUBLISHED", id |-> id, count |-> n]
  <2>2. Begin(t, r) /\ r.id = id /\ Known(id)
    BY <2>1 DEF SetPublishedCount
  <2>3. QED
    BY <2>2 DEF Enters, Begin
<1>7. QED
  BY <1>1, <1>2, <1>3, <1>4, <1>5, <1>6 DEF Operation

LEMMA StillSteps ==
  ASSUME RefInv,
         \/ \E t \in Thread : Interrupt(t) /\ Quiet
         \/ (Gather \/ WriteRecord \/ ForceBatch \/ WriterExits) /\ Quiet
         \/ (BeginClose \/ EndClose) /\ Quiet
         \/ UNCHANGED storeVars
  PROVE  Still
<1>1. /\ forced \in Nat /\ Len(file) \in Nat /\ forced <= Len(file)
  <2>1. forced \in 0..Len(file) /\ Len(file) \in Nat
    BY Counters
  <2>2. QED
    BY <2>1
<1>2. UNCHANGED <<messages, op, uncertain, loaded>>
  BY DEF Quiet, storeVars
<1>3. UNCHANGED <<up, failure, call>>
  BY Zenon DEF Interrupt, Gather, WriteRecord, ForceBatch, WriterExits, BeginClose, EndClose,
               life, storeVars, vars
<1>4. forced <= forced'
  <2>1. forced' = forced \/ forced' = Len(file)
    BY Zenon DEF Interrupt, Gather, WriteRecord, ForceBatch, WriterExits, BeginClose, EndClose,
                 disk, storeVars, vars
  <2>2. QED
    BY <1>1, <2>1
<1>5. Carried(0) /\ Len(file) <= Len(file')
  <2>1. CASE Gather
    BY <1>1, <2>1, GatherCarries DEF Gather, disk
  <2>2. CASE WriteRecord
    BY <1>1, <2>2, WriteCarries
  <2>3. CASE ~Gather /\ ~WriteRecord
    <3>1. UNCHANGED <<file, batch, queue, written>>
      BY <2>3, Zenon DEF Interrupt, ForceBatch, WriterExits, BeginClose, EndClose,
                         disk, pipe, storeVars, vars
    <3>2. QED
      BY <1>1, <3>1, SameRequests
  <2>4. QED
    BY <2>1, <2>2, <2>3
<1>6. QED
  BY <1>2, <1>3, <1>4, <1>5 DEF Still

LEMMA StoreCases ==
  ASSUME RefInv, [StoreNext]_storeVars
  PROVE  \/ \E t \in Thread : \E r \in Record : Enters(t, r)
         \/ \E t \in Thread : Complete(t) \/ Abort(t)
         \/ Still
         \/ (Ack \/ WriterFails) /\ Quiet
         \/ RecoverStore \/ RecoverThrows \/ Crash
<1>1. CASE \E t \in Thread : \E id \in Id : Operation(t, id)
  BY <1>1, OperationEnters
<1>2. CASE \E t \in Thread : Complete(t) \/ Abort(t)
  BY <1>2
<1>3. CASE \E t \in Thread : Interrupt(t) /\ Quiet
  BY <1>3, StillSteps
<1>4. CASE Writer /\ Quiet
  BY <1>4, StillSteps DEF Writer
<1>5. CASE (BeginClose \/ EndClose) /\ Quiet
  BY <1>5, StillSteps
<1>6. CASE UNCHANGED storeVars
  BY <1>6, StillSteps
<1>7. QED
  BY <1>1, <1>2, <1>3, <1>4, <1>5, <1>6 DEF StoreNext

\* A constructor that throws leaves the journal as it should be.
LEMMA ThrowsKeeps == RefInv /\ RecoverThrows => RefInv'
<1> SUFFICES ASSUME RefInv, RecoverThrows PROVE RefInv'
  OBVIOUS
<1>1. /\ UNCHANGED <<up, file, queue, batch, written, writer, failure, closing, closed, call,
                     interrupted, acked>>
      /\ ~up /\ torn' = FALSE /\ forced' = Len(file)
  BY DEF RecoverThrows
<1>2. TypeOK'
  <2>1. forced' \in 0..Len(file')
    BY <1>1, Counters
  <2>2. QED
    BY <1>1, <2>1 DEF RefInv, TypeOK
<1>3. writer = "exit"
  BY <1>1 DEF RefInv, WriterAlive
<1>4. WriterAlive' /\ FileEndsInBatch'
  BY <1>1, <1>3 DEF RefInv, WriterAlive, FileEndsInBatch
<1>5. WaiterInv'
  BY <1>1 DEF RefInv, WaiterInv, WaiterHasOneRequest, WriterClean, Claimed, AtMostOnce
<1>6. QED
  BY <1>2, <1>4, <1>5 DEF RefInv

LEMMA JournalKeeps == RefInv /\ [StoreNext]_storeVars => RefInv'
<1> SUFFICES ASSUME RefInv, [StoreNext]_storeVars PROVE RefInv'
  OBVIOUS
<1>1. CASE RecoverThrows
  BY <1>1, ThrowsKeeps
<1>2. CASE ~RecoverThrows
  <2>1. CASE \E t \in Thread : \E id \in Id : Operation(t, id)
    <3>1. PICK t \in Thread : \E id \in Id : Operation(t, id)
      BY <2>1
    <3>2. PICK r \in Record : Enters(t, r)
      BY <3>1, OperationEnters
    <3>3. Caller(t)
      BY <3>2 DEF Enters, Begin, Caller
    <3>4. QED
      BY <3>3, RefStep DEF Next
  <2>2. CASE \E t \in Thread : Complete(t) \/ Abort(t)
    <3>1. PICK t \in Thread : Complete(t) \/ Abort(t)
      BY <2>2
    <3>2. Caller(t)
      BY <3>1 DEF Complete, Abort, Caller
    <3>3. QED
      BY <3>2, RefStep DEF Next
  <2>3. CASE UNCHANGED storeVars
    <3>1. UNCHANGED vars
      BY <2>3, Zenon DEF storeVars
    <3>2. QED
      BY <3>1, RefStep
  <2>4. CASE \/ \E t \in Thread : Interrupt(t)
             \/ Writer \/ BeginClose \/ EndClose \/ RecoverStore \/ Crash
    <3>1. Next
      BY <2>4 DEF RecoverStore, Crash, Next
    <3>2. QED
      BY <3>1, RefStep
  <2>5. QED
    BY <1>2, <2>1, <2>2, <2>3, <2>4 DEF StoreNext
<1>3. QED
  BY <1>1, <1>2

-----------------------------------------------------------------------------
(* Locks *)

\* Who waits is in an operation, and has one request under way.
LEMMA Waiting ==
  ASSUME RefInv, NEW t \in Thread
  PROVE  /\ call[t] = "await" <=> \E i \in 1..Requests : Req[i].by = t
         /\ Claimed(t, batch) \/ Claimed(t, queue) <=> call[t] = "await"
<1>1. WholeShape /\ WaiterHasOneRequest
  BY ShapeOfWhole DEF RefInv, WaiterInv
<1>2. call[t] = "await" <=> Claimed(t, batch) \/ Claimed(t, queue)
  BY <1>1 DEF WaiterHasOneRequest
<1>3. Len(batch) \in Nat /\ Len(queue) \in Nat /\ Requests = Len(batch) + Len(queue)
  BY <1>1 DEF WholeShape, Requests
<1>4. ASSUME Claimed(t, batch) PROVE \E i \in 1..Requests : Req[i].by = t
  <2>1. PICK i \in 1..Len(batch) : batch[i].by = t
    BY <1>4 DEF Claimed
  <2>2. i \in 1..Requests /\ i <= Len(batch)
    BY <1>3
  <2>3. Req[i] = batch[i]
    BY <2>2 DEF Req
  <2>4. QED
    BY <2>1, <2>2, <2>3
<1>5. ASSUME Claimed(t, queue) PROVE \E i \in 1..Requests : Req[i].by = t
  <2>1. PICK i \in 1..Len(queue) : queue[i].by = t
    BY <1>5 DEF Claimed
  <2>2. PICK k \in 1..Requests : k = Len(batch) + i
    BY <1>3
  <2>3. ~(k <= Len(batch)) /\ k - Len(batch) = i
    BY <1>3, <2>2
  <2>4. Req[k] = queue[i]
    BY <2>3 DEF Req
  <2>5. QED
    BY <2>1, <2>4
<1>6. ASSUME NEW i \in 1..Requests, Req[i].by = t
      PROVE  Claimed(t, batch) \/ Claimed(t, queue)
  <2>1. CASE i <= Len(batch)
    <3>1. i \in 1..Len(batch) /\ Req[i] = batch[i]
      BY <1>3, <2>1 DEF Req
    <3>2. QED
      BY <1>6, <3>1 DEF Claimed
  <2>2. CASE ~(i <= Len(batch))
    <3>1. i - Len(batch) \in 1..Len(queue)
      BY <1>3, <2>2
    <3>2. Req[i] = queue[i - Len(batch)]
      BY <2>2 DEF Req
    <3>3. QED
      BY <1>6, <3>1, <3>2 DEF Claimed
  <2>3. QED
    BY <2>1, <2>2
<1>7. QED
  BY <1>2, <1>4, <1>5, <1>6

LEMMA StoreTypeStep ==
  RefInv /\ RefInv' /\ StoreTypeOK /\ Locks /\ [StoreNext]_storeVars => StoreTypeOK'
<1> SUFFICES ASSUME RefInv, RefInv', StoreTypeOK, Locks, [StoreNext]_storeVars
             PROVE  StoreTypeOK'
  OBVIOUS
<1>1. /\ messages \in [Id -> Entry \cup {Absent}]
      /\ op \in [Thread -> Record \cup {NoOp}]
      /\ loaded \in 0..Len(file)
      /\ uncertain \in [Id -> SUBSET Event]
      /\ call \in [Thread -> {"idle", "await", "done", "error"}]
      /\ TypeOK' /\ Len(file) \in Nat /\ Len(file') \in Nat
  <2>1. WholeShape /\ WholeShape'
    BY ShapeOfWhole, ShapeOfWholeNext
  <2>2. QED
    BY <2>1 DEF StoreTypeOK, TypeOK, RefInv, WholeShape
<1>2. ASSUME UNCHANGED <<messages, op, loaded, uncertain>>, Len(file) <= Len(file')
      PROVE  StoreTypeOK'
  <2>1. loaded' \in 0..Len(file')
    BY <1>1, <1>2
  <2>2. QED
    BY <1>1, <1>2, <2>1 DEF StoreTypeOK
<1>3. ASSUME NEW t \in Thread, call[t] # "idle"
      PROVE  /\ op[t] \in Record /\ op[t].id \in Id /\ op[t].event \in Event
             /\ messages[op[t].id] \in Entry \cup {Absent}
             /\ op[t].event \in {"STAGE", "DISCARD"} \/ messages[op[t].id] # Absent
  <2>1. op[t] # NoOp /\ op[t] \in Record
    BY <1>1, <1>3 DEF Locks
  <2>2. op[t].id \in Id /\ op[t].event \in Event
    BY <2>1, RecordShape
  <2>3. QED
    BY <1>1, <2>1, <2>2 DEF Locks, Known
<1>4. ASSUME NEW t \in Thread, NEW r \in Record, Enters(t, r) PROVE StoreTypeOK'
  <2>1. r.id \in Id /\ r.event \in Event
    BY RecordShape
  <2>2. UNCHANGED <<messages, loaded, file>>
    BY <1>4 DEF Enters, Begin, Submit, disk
  <2>3. op' \in [Thread -> Record \cup {NoOp}]
    <3>1. op' = op \/ op' = [op EXCEPT ![t] = r]
      BY <1>4 DEF Enters, Begin
    <3>2. QED
      BY <1>1, <3>1
  <2>4. uncertain' \in [Id -> SUBSET Event]
    <3>1. uncertain' = uncertain \/ uncertain' = [uncertain EXCEPT ![r.id] = @ \cup {r.event}]
      BY <1>4 DEF Enters, Begin
    <3>2. QED
      BY <1>1, <2>1, <3>1
  <2>5. QED
    BY <1>1, <2>2, <2>3, <2>4 DEF StoreTypeOK
<1>5. ASSUME NEW t \in Thread, Complete(t) PROVE StoreTypeOK'
  <2>1. /\ UNCHANGED <<loaded, uncertain, file>> /\ call[t] # "idle"
        /\ messages' = [messages EXCEPT ![op[t].id] = Effect(op[t], @)]
        /\ op' = [op EXCEPT ![t] = NoOp]
    BY <1>5 DEF Complete, Return, disk
  <2>2. Effect(op[t], messages[op[t].id]) \in Entry \cup {Absent}
    BY <1>3, <2>1, EffectOf
  <2>3. messages' \in [Id -> Entry \cup {Absent}]
    BY <1>1, <2>1, <2>2
  <2>4. op' \in [Thread -> Record \cup {NoOp}]
    BY <1>1, <2>1
  <2>5. QED
    BY <1>1, <2>1, <2>3, <2>4 DEF StoreTypeOK
<1>6. ASSUME NEW t \in Thread, Abort(t) PROVE StoreTypeOK'
  <2>1. /\ UNCHANGED <<loaded, messages, file>> /\ call[t] # "idle"
        /\ op' = [op EXCEPT ![t] = NoOp]
        /\ uncertain' = [uncertain EXCEPT ![op[t].id] = @ \cup {op[t].event}]
    BY <1>6 DEF Abort, Return, ThrowInterrupted, disk
  <2>2. uncertain' \in [Id -> SUBSET Event]
    BY <1>1, <1>3, <2>1
  <2>3. op' \in [Thread -> Record \cup {NoOp}]
    BY <1>1, <2>1
  <2>4. QED
    BY <1>1, <2>1, <2>2, <2>3 DEF StoreTypeOK
<1>7. CASE Still
  BY <1>2, <1>7 DEF Still
<1>8. CASE (Ack \/ WriterFails) /\ Quiet
  BY <1>1, <1>2, <1>8 DEF Ack, WriterFails, Quiet, disk
<1>9. CASE RecoverStore
  <2>1. /\ messages' = Replayed[Len(file)].messages /\ loaded' = Len(file)
        /\ UNCHANGED <<op, uncertain, file>>
    BY <1>9 DEF RecoverStore, Recover
  <2>2. Replayed[Len(file)] \in Recovered
    <3>1. Len(file) \in 0..Len(file) /\ Len(file) \in 0..Submitted
      BY <1>1, ShapeOfWhole DEF WholeShape
    <3>2. QED
      BY <3>1, WholeReplay
  <2>3. messages' \in [Id -> Entry \cup {Absent}]
    BY <2>1, <2>2 DEF Recovered
  <2>4. QED
    BY <1>1, <2>1, <2>3 DEF StoreTypeOK
<1>10. CASE RecoverThrows
  BY <1>1, <1>2, <1>10 DEF RecoverThrows
<1>11. CASE Crash
  <2>1. messages' \in [Id -> Entry \cup {Absent}]
    BY <1>11, Zenon DEF Crash
  <2>2. op' \in [Thread -> Record \cup {NoOp}]
    BY <1>11, Zenon DEF Crash
  <2>3. uncertain' \in [Id -> SUBSET Event]
    BY <1>11 DEF Crash
  <2>4. loaded' \in 0..Len(file')
    BY <1>1, <1>11 DEF Crash
  <2>5. QED
    BY <1>1, <2>1, <2>2, <2>3, <2>4 DEF StoreTypeOK
<1>12. QED
  BY <1>4, <1>5, <1>6, <1>7, <1>8, <1>9, <1>10, <1>11, StoreCases

LEMMA LocksStep ==
  RefInv /\ RefInv' /\ StoreTypeOK /\ Locks /\ [StoreNext]_storeVars => Locks'
<1> SUFFICES ASSUME RefInv, RefInv', StoreTypeOK, Locks, [StoreNext]_storeVars
             PROVE  Locks'
  OBVIOUS
<1>1. /\ op \in [Thread -> Record \cup {NoOp}]
      /\ messages \in [Id -> Entry \cup {Absent}]
      /\ call \in [Thread -> {"idle", "await", "done", "error"}]
      /\ NoOp \notin Record
  BY StoreAssumption DEF StoreTypeOK, TypeOK
<1>2. ASSUME UNCHANGED <<op, messages, up>>,
             \A t \in Thread : call'[t] = "idle" <=> call[t] = "idle"
      PROVE  Locks'
  BY <1>2 DEF Locks, Known
<1>3. ASSUME NEW t \in Thread, NEW r \in Record, Enters(t, r) PROVE Locks'
  <2>1. /\ op[t] = NoOp /\ call[t] = "idle" /\ LockFree(r.id) /\ up /\ up' = up
        /\ messages' = messages /\ r # NoOp
        /\ r.event \notin {"STAGE", "DISCARD"} => Known(r.id)
    BY <1>1, <1>3 DEF Enters, Begin, Submit, life
  <2>2. CASE interrupted[t]
    <3>1. op' = op /\ call' = call
      BY <1>3, <2>2 DEF Enters, Begin, Submit
    <3>2. QED
      BY <1>2, <2>1, <3>1
  <2>3. CASE ~interrupted[t]
    <3>1. op' = [op EXCEPT ![t] = r] /\ call' = [call EXCEPT ![t] = "await"]
      BY <1>3, <2>3 DEF Enters, Begin, Submit
    <3>2. /\ op'[t] = r /\ call'[t] = "await"
          /\ \A u \in Thread \ {t} : op'[u] = op[u] /\ call'[u] = call[u]
      BY <1>1, <3>1
    <3>3. \A u \in Thread : call'[u] = "idle" <=> op'[u] = NoOp
      BY <2>1, <3>2 DEF Locks
    <3>4. ASSUME NEW u \in Thread, NEW v \in Thread, op'[u] # NoOp, op'[v] # NoOp,
                 stripeOf[op'[u].id] = stripeOf[op'[v].id]
          PROVE  u = v
      BY <2>1, <3>2, <3>4 DEF Locks, LockFree
    <3>5. ASSUME NEW u \in Thread, op'[u] # NoOp, op'[u].event \notin {"STAGE", "DISCARD"}
          PROVE  Known(op'[u].id)
      BY <2>1, <3>2, <3>5 DEF Locks
    <3>6. QED
      BY <2>1, <3>3, <3>4, <3>5 DEF Locks, Known
  <2>4. QED
    BY <2>2, <2>3
<1>4. ASSUME NEW t \in Thread, Complete(t) \/ Abort(t) PROVE Locks'
  <2>1. /\ call[t] # "idle" /\ op' = [op EXCEPT ![t] = NoOp]
        /\ call' = [call EXCEPT ![t] = "idle"] /\ up' = up
        /\ messages' = messages \/ messages' = [messages EXCEPT ![op[t].id] = Effect(op[t], @)]
    BY <1>4, Zenon DEF Complete, Abort, Return, ThrowInterrupted, life
  <2>2. /\ op'[t] = NoOp /\ call'[t] = "idle" /\ op[t] # NoOp
        /\ \A u \in Thread \ {t} : op'[u] = op[u] /\ call'[u] = call[u]
    BY <1>1, <2>1 DEF Locks
  <2>3. ASSUME NEW u \in Thread, op'[u] # NoOp
        PROVE  op'[u] = op[u] /\ op[u] # NoOp /\ messages'[op[u].id] = messages[op[u].id]
    <3>1. u # t /\ op'[u] = op[u]
      BY <2>2, <2>3
    <3>2. op[u].id # op[t].id
      BY <2>2, <2>3, <3>1 DEF Locks
    <3>3. op[u].id \in Id /\ op[t].id \in Id
      BY <1>1, <2>2, <2>3, <3>1, RecordShape
    <3>4. messages'[op[u].id] = messages[op[u].id]
      BY <1>1, <2>1, <3>2, <3>3
    <3>5. QED
      BY <2>3, <3>1, <3>4
  <2>4. QED
    BY <2>1, <2>2, <2>3 DEF Locks, Known
<1>5. CASE Still
  BY <1>2, <1>5 DEF Still
<1>6. CASE (Ack \/ WriterFails) /\ Quiet
  <2>1. UNCHANGED <<op, messages, up>>
    BY <1>6 DEF Ack, WriterFails, FailJournal, Quiet, life
  <2>2. ASSUME NEW t \in Thread PROVE call'[t] = "idle" <=> call[t] = "idle"
    <3>1. \/ call'[t] = call[t]
          \/ (Claimed(t, batch) \/ Claimed(t, queue)) /\ call'[t] \in {"done", "error"}
      BY <1>6 DEF Ack, WriterFails, FailJournal
    <3>2. QED
      BY <3>1, Waiting
  <2>3. QED
    BY <1>2, <2>1, <2>2
<1>7. CASE RecoverStore
  <2>1. UNCHANGED <<op, call>> /\ up' = TRUE /\ ~up
    BY <1>7 DEF RecoverStore, Recover
  <2>2. QED
    BY <2>1 DEF Locks
<1>8. CASE RecoverThrows
  BY <1>2, <1>8 DEF RecoverThrows
<1>9. CASE Crash
  <2>1. LoseProcess
    BY <1>9 DEF Crash, ProcessDies, PowerLoss
  <2>2. \A t \in Thread : op'[t] = NoOp
    BY <1>9, Zenon DEF Crash
  <2>3. \A t \in Thread : call'[t] = "idle"
    BY <2>1, LostMemory
  <2>4. QED
    BY <2>2, <2>3 DEF Locks
<1>10. QED
  BY <1>3, <1>4, <1>5, <1>6, <1>7, <1>8, <1>9, StoreCases

-----------------------------------------------------------------------------
(* The end of Whole *)

\* One more operation on the replayed map.
LEMMA OneMore ==
  ASSUME RefInv, NEW r \in Record
  PROVE  LET next == ReplayRecord(End, r)
         IN  /\ r.id \in Id
             /\ next.ok <=> End.ok /\ (r.event \in {"STAGE", "DISCARD"} \/ End.messages[r.id] # Absent)
             /\ next.ok => /\ next.messages[r.id] = Effect(r, End.messages[r.id])
                           /\ r.event # "DISCARD" => next.messages[r.id] # Absent
                           /\ \A id \in Id : id # r.id => next.messages[id] = End.messages[id]
<1> DEFINE next == ReplayRecord(End, r)
<1>1. End \in Recovered
  <2>1. Submitted \in 0..Submitted
    BY ShapeOfWhole DEF WholeShape
  <2>2. QED
    BY <2>1, WholeReplay DEF End
<1>2. /\ next.ok <=> End.ok /\ (r.event \in {"STAGE", "DISCARD"} \/ End.messages[r.id] # Absent)
      /\ next.ok => /\ next.messages[r.id] = Effect(r, End.messages[r.id])
                    /\ \A id \in Id : id # r.id => next.messages[id] = End.messages[id]
  BY <1>1, ReplayIsEffect
<1>3. r.id \in Id /\ End.messages[r.id] \in Entry \cup {Absent}
  BY <1>1, RecordShape DEF Recovered
<1>4. ASSUME next.ok, r.event # "DISCARD" PROVE next.messages[r.id] # Absent
  <2>1. Effect(r, End.messages[r.id]) \in Entry
    BY <1>2, <1>3, <1>4, EffectOf
  <2>2. QED
    BY <1>2, <1>4, <2>1, AbsentIsNoEntry
<1>5. QED
  BY <1>2, <1>3, <1>4

\* Moving requests into the file does not change what the whole amounts to.
LEMMA CarriedEnd ==
  ASSUME RefInv, RefInv', NEW d \in Nat, Carried(d)
  PROVE  End' = End
<1>1. Submitted' = Submitted /\ Submitted \in Nat
  BY CarriedWhole, ShapeOfWhole DEF WholeShape
<1>2. Submitted \in 0..Submitted
  BY <1>1
<1>3. ReplayOf(Whole)'[Submitted] = ReplayOf(Whole)[Submitted]
  BY <1>2, CarriedWhole
<1>4. QED
  BY <1>1, <1>3 DEF End

LEMMA ReadableStep ==
  RefInv /\ RefInv' /\ StoreTypeOK /\ Locks /\ Readable /\ [StoreNext]_storeVars => Readable'
<1> SUFFICES ASSUME RefInv, RefInv', StoreTypeOK, Locks, Readable, [StoreNext]_storeVars
             PROVE  Readable'
  OBVIOUS
<1>1. /\ op \in [Thread -> Record \cup {NoOp}]
      /\ messages \in [Id -> Entry \cup {Absent}]
      /\ uncertain \in [Id -> SUBSET Event]
      /\ call \in [Thread -> {"idle", "await", "done", "error"}]
      /\ NoOp \notin Record /\ up \in BOOLEAN /\ failure \in BOOLEAN
  BY StoreAssumption DEF StoreTypeOK, TypeOK
<1>2. CASE Still
  <2>1. End' = End
    BY <1>2, CarriedEnd DEF Still
  <2>2. QED
    BY <1>2, <2>1 DEF Still, Readable, NoDiscardUncertain, Known, Free, Works
<1>3. ASSUME NEW t \in Thread, Complete(t) \/ Abort(t) PROVE Readable'
  <2>1. /\ call[t] # "idle" /\ op' = [op EXCEPT ![t] = NoOp]
        /\ UNCHANGED <<up, failure>>
    BY <1>3, Zenon DEF Complete, Abort, Return, ThrowInterrupted, life
  <2>2. /\ op'[t] = NoOp /\ op[t] # NoOp /\ op[t] \in Record /\ op[t].id \in Id
        /\ \A u \in Thread \ {t} : op'[u] = op[u]
    <3>1. op[t] # NoOp
      BY <2>1 DEF Locks
    <3>2. QED
      BY <1>1, <2>1, <3>1, RecordShape
  <2>3. End' = End
    <3>1. CASE ThrowInterrupted(t)
      BY <3>1, DisownCarries, CarriedEnd
    <3>2. CASE Return(t)
      <4>1. Carried(0)
        BY <3>2, SameRequests DEF Return, disk, pipe
      <4>2. QED
        BY <4>1, CarriedEnd
    <3>3. QED
      BY <1>3, <3>1, <3>2 DEF Complete, Abort
  <2>4. ASSUME up', NoDiscardUncertain' PROVE NoDiscardUncertain
    <3>1. \A id \in Id : uncertain[id] \subseteq uncertain'[id]
      BY <1>1, <1>3, <2>2 DEF Complete, Abort
    <3>2. QED
      BY <2>4, <3>1 DEF NoDiscardUncertain
  <2>5. ASSUME NEW id \in Id, id # op[t].id, Known(id)', Free(id)'
        PROVE  Known(id) /\ Free(id)
    <3>1. messages'[id] = messages[id]
      BY <1>1, <1>3, <2>2, <2>5 DEF Complete, Abort
    <3>2. Known(id)
      BY <2>5, <3>1 DEF Known
    <3>3. Free(id)
      BY <2>2, <2>5 DEF Free, Works
    <3>4. QED
      BY <3>2, <3>3
  <2>6. ASSUME up', NoDiscardUncertain', messages'[op[t].id] # Absent PROVE op[t].event # "DISCARD"
    <3>1. CASE Complete(t)
      <4>1. messages'[op[t].id] = Effect(op[t], messages[op[t].id])
        BY <1>1, <2>2, <3>1 DEF Complete
      <4>2. QED
        BY <2>6, <4>1 DEF Effect
    <3>2. CASE Abort(t)
      <4>1. op[t].event \in uncertain'[op[t].id]
        BY <1>1, <2>2, <3>2 DEF Abort
      <4>2. QED
        BY <2>2, <2>6, <4>1 DEF NoDiscardUncertain
    <3>3. QED
      BY <1>3, <3>1, <3>2
  <2>7. ASSUME up', NoDiscardUncertain'
        PROVE  /\ End'.ok
               /\ ~failure' =>
                     /\ \A id \in Id : Known(id)' /\ Free(id)' => End'.messages[id] # Absent
                     /\ \A u \in Thread : op'[u] # NoOp /\ op'[u].event # "DISCARD" =>
                           End'.messages[op'[u].id] # Absent
    <3>1. /\ End.ok
          /\ ~failure =>
                /\ \A id \in Id : Known(id) /\ Free(id) => End.messages[id] # Absent
                /\ \A u \in Thread : op[u] # NoOp /\ op[u].event # "DISCARD" =>
                      End.messages[op[u].id] # Absent
      BY <2>1, <2>4, <2>7 DEF Readable
    <3>2. ASSUME ~failure, NEW id \in Id, Known(id)', Free(id)' PROVE End.messages[id] # Absent
      <4>1. CASE id = op[t].id
        BY <2>2, <2>6, <2>7, <3>1, <3>2, <4>1 DEF Known
      <4>2. CASE id # op[t].id
        BY <2>5, <3>1, <3>2, <4>2
      <4>3. QED
        BY <4>1, <4>2
    <3>3. ASSUME ~failure, NEW u \in Thread, op'[u] # NoOp, op'[u].event # "DISCARD"
          PROVE  End.messages[op'[u].id] # Absent
      BY <2>2, <3>1, <3>3
    <3>4. QED
      BY <2>1, <2>3, <3>1, <3>2, <3>3
  <2>8. QED
    BY <2>7 DEF Readable
<1>4. CASE (Ack \/ WriterFails) /\ Quiet
  <2>1. UNCHANGED <<messages, op, uncertain, up>>
    BY <1>4 DEF Ack, WriterFails, FailJournal, Quiet, life
  <2>2. CASE Ack
    <3>1. End' = End
      BY <2>2, AckCarries, CarriedEnd
    <3>2. failure' = failure
      BY <2>2 DEF Ack, life
    <3>3. QED
      BY <2>1, <3>1, <3>2 DEF Readable, NoDiscardUncertain, Known, Free, Works
  <2>3. CASE WriterFails
    <3>1. failure' = TRUE /\ file' = file /\ batch' = <<>> /\ queue' = <<>> /\ written' = 0
      BY <2>3 DEF WriterFails, FailJournal
    <3>2. OnlyFile /\ WholeShape
      BY <3>1, OnlyFileLeft, ShapeOfWhole
    <3>3. Len(file) \in 0..Len(file) /\ Len(file) \in 0..Submitted /\ Submitted \in 0..Submitted
      BY <3>2 DEF WholeShape
    <3>4. End' = ReplayOf(Whole)[Len(file)]
      BY <3>1, <3>2, <3>3, WholeReplay, FileReplay DEF OnlyFile, End
    <3>5. End.ok => ReplayOf(Whole)[Len(file)].ok
      BY <3>3, WholeReplay DEF End
    <3>6. QED
      BY <2>1, <3>1, <3>4, <3>5 DEF Readable, NoDiscardUncertain
  <2>4. QED
    BY <1>4, <2>2, <2>3
<1>5. CASE RecoverStore
  <2>1. /\ ~up /\ Replayed[Len(file)].ok /\ messages' = Replayed[Len(file)].messages
        /\ UNCHANGED <<op, file, queue, batch, written>>
    BY <1>5 DEF RecoverStore, Recover
  <2>2. writer = "exit"
    BY <2>1 DEF RefInv, WriterAlive
  <2>3. batch = <<>> /\ queue = <<>> /\ written = 0
    BY <2>2 DEF RefInv, WaiterInv, WriterClean, FileEndsInBatch
  <2>4. OnlyFile /\ WholeShape
    BY <2>1, <2>3, OnlyFileLeft, ShapeOfWhole
  <2>5. End' = Replayed[Len(file)]
    <3>1. Len(file) \in 0..Len(file)
      BY <2>4 DEF WholeShape
    <3>2. QED
      BY <2>1, <2>4, <3>1, FileReplay DEF OnlyFile, End
  <2>6. \A t \in Thread : op'[t] = NoOp
    BY <2>1 DEF Locks
  <2>7. QED
    BY <2>1, <2>5, <2>6 DEF Readable, Known
<1>6. CASE RecoverThrows \/ Crash
  <2>1. ~up'
    BY <1>6, LostMemory DEF RecoverThrows, Crash, ProcessDies, PowerLoss
  <2>2. QED
    BY <2>1 DEF Readable
<1>7. ASSUME NEW t \in Thread, NEW r \in Record, Enters(t, r) PROVE Readable'
  <2>1. /\ op[t] = NoOp /\ LockFree(r.id) /\ Submit(t, r) /\ ~failure
        /\ UNCHANGED <<messages, up, failure>> /\ r \in Record /\ r # NoOp
        /\ r.event \notin {"STAGE", "DISCARD"} => Known(r.id)
    BY <1>1, <1>7 DEF Enters, Begin, Submit, Refusing, life
  <2>2. End' = ReplayRecord(End, r)
    BY <2>1, SubmitAppends DEF Appended, End
  <2>3. Free(r.id)
    BY <2>1, RecordShape DEF LockFree, Free, Works
  <2>4. \/ op' = op /\ uncertain' = [uncertain EXCEPT ![r.id] = @ \cup {r.event}]
        \/ op' = [op EXCEPT ![t] = r] /\ uncertain' = uncertain
    BY <1>7 DEF Enters, Begin
  <2>5. \A id \in Id : uncertain[id] \subseteq uncertain'[id]
    BY <1>1, <2>4
  <2>6. ASSUME up', NoDiscardUncertain'
        PROVE  /\ End'.ok
               /\ \A id \in Id : Known(id)' /\ Free(id)' => End'.messages[id] # Absent
               /\ \A u \in Thread : op'[u] # NoOp /\ op'[u].event # "DISCARD" =>
                     End'.messages[op'[u].id] # Absent
    <3>1. up /\ NoDiscardUncertain
      BY <2>1, <2>5, <2>6 DEF NoDiscardUncertain
    <3>2. /\ End.ok
          /\ \A id \in Id : Known(id) /\ Free(id) => End.messages[id] # Absent
          /\ \A u \in Thread : op[u] # NoOp /\ op[u].event # "DISCARD" =>
                End.messages[op[u].id] # Absent
      BY <2>1, <3>1 DEF Readable
    <3>3. r.id \in Id
      BY RecordShape
    <3>4. r.event \in {"STAGE", "DISCARD"} \/ End.messages[r.id] # Absent
      BY <2>1, <2>3, <3>2, <3>3
    <3>5. /\ End'.ok
          /\ r.event # "DISCARD" => End'.messages[r.id] # Absent
          /\ \A id \in Id : id # r.id => End'.messages[id] = End.messages[id]
      BY <2>2, <3>2, <3>4, OneMore
    <3>6. CASE op' = op /\ uncertain' = [uncertain EXCEPT ![r.id] = @ \cup {r.event}]
      <4>1. r.event # "DISCARD"
        BY <1>1, <2>6, <3>3, <3>6 DEF NoDiscardUncertain
      <4>2. \A id \in Id : Known(id)' /\ Free(id)' => Known(id) /\ Free(id)
        BY <2>1, <3>6 DEF Known, Free, Works
      <4>3. \A u \in Thread : op[u] # NoOp => op[u].id # r.id /\ op[u].id \in Id
        BY <1>1, <2>3, RecordShape DEF Free, Works
      <4>4. QED
        BY <3>2, <3>5, <3>6, <4>1, <4>2, <4>3
    <3>7. CASE op' = [op EXCEPT ![t] = r]
      <4>1. op'[t] = r /\ \A u \in Thread \ {t} : op'[u] = op[u]
        BY <1>1, <3>7
      <4>2. ASSUME NEW id \in Id, Known(id)', Free(id)'
            PROVE  id # r.id /\ Known(id) /\ Free(id)
        <5>1. id # r.id
          BY <2>1, <4>1, <4>2 DEF Free, Works
        <5>2. QED
          BY <2>1, <4>1, <4>2, <5>1 DEF Known, Free, Works
      <4>3. ASSUME NEW u \in Thread, op'[u] # NoOp, op'[u].event # "DISCARD"
            PROVE  End'.messages[op'[u].id] # Absent
        <5>1. CASE u = t
          BY <3>5, <4>1, <4>3, <5>1
        <5>2. CASE u # t
          <6>1. op'[u] = op[u] /\ op[u] # NoOp /\ op[u].id \in Id /\ op[u].id # r.id
            BY <1>1, <2>3, <4>1, <4>3, <5>2, RecordShape DEF Free, Works
          <6>2. QED
            BY <3>2, <3>5, <4>3, <6>1
        <5>3. QED
          BY <5>1, <5>2
      <4>4. QED
        BY <3>2, <3>5, <4>2, <4>3
    <3>8. QED
      BY <2>4, <3>6, <3>7
  <2>7. QED
    BY <2>1, <2>6 DEF Readable
<1>8. QED
  BY <1>2, <1>3, <1>4, <1>5, <1>6, <1>7, StoreCases

-----------------------------------------------------------------------------
(* Agreement *)

FromShape ==
    /\ From \in Nat /\ forced \in Nat /\ Submitted \in Nat
    /\ forced <= From /\ loaded <= From /\ From <= Submitted
    /\ From \in {forced, loaded} /\ From \in 0..Len(file)

LEMMA FromBounds == RefInv /\ StoreTypeOK => FromShape
<1> SUFFICES ASSUME RefInv, StoreTypeOK PROVE FromShape
  OBVIOUS
<1>1. /\ forced \in 0..Len(file) /\ Len(file) \in Nat /\ Submitted \in Nat
      /\ Len(file) <= Submitted /\ loaded \in 0..Len(file)
  BY Counters, ShapeOfWhole DEF WholeShape, StoreTypeOK
<1>2. QED
  BY <1>1 DEF From, FromShape

LEMMA FromBoundsNext == RefInv' /\ StoreTypeOK' => FromShape'
BY FromBounds, PTL

\* An id keeps its agreement when requests move into the file: threads may
\* have been told of the requests that moved, if those are safe.
LEMMA AgreesCarried ==
  ASSUME RefInv, RefInv', NEW d \in Nat, Carried(d), NEW id \in Id, NEW j \in Nat,
         d = 0 \/ Base + d <= j,
         messages'[id] = messages[id],
         \A t \in Thread : Works(t, id) => op'[t] = op[t],
         \A t \in Thread : op'[t] # NoOp /\ op'[t].id = id =>
            /\ Works(t, id)
            /\ \/ call'[t] = call[t]
               \/ /\ call[t] = "await" /\ call'[t] = "done"
                  /\ \E i \in 1..d : i \in 1..Requests /\ Req[i].by = t,
         NEW m, Agrees(id, j, m)
  PROVE  /\ Free(id)' => m = messages'[id]
         /\ \A t \in Thread : Works(t, id)' =>
               /\ call'[t] = "done" => m = Effect(op'[t], messages'[id])
               /\ call'[t] = "error" => m \in {messages'[id], Effect(op'[t], messages'[id])}
               /\ call'[t] = "await" => \A i \in 1..Requests' : Req'[i].by = t =>
                     m = IF j < Base' + i THEN messages'[id] ELSE Effect(op'[t], messages'[id])
<1>1. /\ Base \in Nat /\ Requests \in Nat /\ Base' = Base + d /\ Requests' = Requests - d
      /\ \A i \in 1..Requests' : Req'[i].by \in {Req[i + d].by, Nobody}
  BY ShapeOfWhole DEF WholeShape, Carried
<1>2. Nobody \notin Thread
  BY JournalAssumption
<1>3. Free(id)' => m = messages'[id]
  <2>1. Free(id)' => Free(id)
    BY DEF Free, Works
  <2>2. QED
    BY <2>1 DEF Agrees
<1>4. ASSUME NEW t \in Thread, Works(t, id)'
      PROVE  /\ call'[t] = "done" => m = Effect(op'[t], messages'[id])
             /\ call'[t] = "error" => m \in {messages'[id], Effect(op'[t], messages'[id])}
             /\ call'[t] = "await" => \A i \in 1..Requests' : Req'[i].by = t =>
                   m = IF j < Base' + i THEN messages'[id] ELSE Effect(op'[t], messages'[id])
  <2>1. /\ Works(t, id) /\ op'[t] = op[t]
        /\ \/ call'[t] = call[t]
           \/ /\ call[t] = "await" /\ call'[t] = "done"
              /\ \E i \in 1..d : i \in 1..Requests /\ Req[i].by = t
    BY <1>4 DEF Works
  <2>2. /\ call[t] = "done" => m = Effect(op[t], messages[id])
        /\ call[t] = "error" => m \in {messages[id], Effect(op[t], messages[id])}
        /\ call[t] = "await" => \A i \in 1..Requests : Req[i].by = t =>
              m = IF j < Base + i THEN messages[id] ELSE Effect(op[t], messages[id])
    BY <2>1 DEF Agrees
  <2>3. CASE call'[t] = call[t]
    <3>1. ASSUME call[t] = "await", NEW i \in 1..Requests', Req'[i].by = t
          PROVE  m = IF j < Base' + i THEN messages[id] ELSE Effect(op[t], messages[id])
      <4>1. i + d \in 1..Requests /\ Base + (i + d) = Base' + i
        BY <1>1
      <4>2. Req[i + d].by = t
        BY <1>1, <1>2, <3>1
      <4>3. m = IF j < Base + (i + d) THEN messages[id] ELSE Effect(op[t], messages[id])
        BY <2>2, <3>1, <4>1, <4>2
      <4>4. QED
        BY <4>1, <4>3
    <3>2. QED
      BY <2>1, <2>2, <2>3, <3>1
  <2>4. CASE /\ call[t] = "await" /\ call'[t] = "done"
             /\ \E i \in 1..d : i \in 1..Requests /\ Req[i].by = t
    <3>1. PICK i \in 1..d : i \in 1..Requests /\ Req[i].by = t
      BY <2>4
    <3>2. ~(j < Base + i)
      BY <1>1, <3>1
    <3>3. m = Effect(op[t], messages[id])
      BY <2>2, <2>4, <3>1, <3>2
    <3>4. QED
      BY <2>1, <2>4, <3>3
  <2>5. QED
    BY <2>1, <2>3, <2>4
<1>5. QED
  BY <1>3, <1>4

\* The same for all ids and positions: what is left to show of a step that
\* moves requests.
LEMMA AgreementCarried ==
  ASSUME RefInv, RefInv', StoreTypeOK, StoreTypeOK', Agreement, NEW d \in Nat, Carried(d), up' => up,
         From <= From', d = 0 \/ Base + d <= From', NEW id \in Id,
         up', uncertain'[id] = {}, uncertain[id] = {},
         messages'[id] = messages[id],
         \A t \in Thread : Works(t, id) => op'[t] = op[t],
         \A t \in Thread : op'[t] # NoOp /\ op'[t].id = id =>
            /\ Works(t, id)
            /\ \/ call'[t] = call[t]
               \/ /\ call[t] = "await" /\ call'[t] = "done"
                  /\ \E i \in 1..d : i \in 1..Requests /\ Req[i].by = t
  PROVE  \A j \in From'..Submitted' : ReplayOf(Whole)'[j].ok =>
            Agrees(id, j, ReplayOf(Whole)[j].messages[id])'
<1>1. /\ From \in Nat /\ Submitted \in Nat /\ From' \in Nat /\ Submitted' = Submitted
      /\ \A k \in 0..Submitted : ReplayOf(Whole)'[k] = ReplayOf(Whole)[k]
      /\ Base \in Nat
  BY FromBounds, FromBoundsNext, CarriedWhole, ShapeOfWhole DEF FromShape, WholeShape
<1>2. ASSUME NEW j \in From'..Submitted', ReplayOf(Whole)'[j].ok
      PROVE  Agrees(id, j, ReplayOf(Whole)[j].messages[id])'
  <2>1. j \in Nat /\ j \in From..Submitted /\ j \in 0..Submitted /\ (d = 0 \/ Base + d <= j)
    BY <1>1
  <2>2. ReplayOf(Whole)'[j] = ReplayOf(Whole)[j]
    BY <1>1, <2>1
  <2>3. Agrees(id, j, ReplayOf(Whole)[j].messages[id])
    BY <1>2, <2>1, <2>2 DEF Agreement
  <2> DEFINE m == ReplayOf(Whole)[j].messages[id]
  <2> HIDE DEF m
  <2>4. Agrees(id, j, m)
    BY <2>3 DEF m
  <2>5. /\ Free(id)' => m = messages'[id]
        /\ \A t \in Thread : Works(t, id)' =>
              /\ call'[t] = "done" => m = Effect(op'[t], messages'[id])
              /\ call'[t] = "error" => m \in {messages'[id], Effect(op'[t], messages'[id])}
              /\ call'[t] = "await" => \A i \in 1..Requests' : Req'[i].by = t =>
                    m = IF j < Base' + i THEN messages'[id] ELSE Effect(op'[t], messages'[id])
    BY <2>1, <2>4, AgreesCarried
  <2>6. m = ReplayOf(Whole)'[j].messages[id]
    BY <2>2 DEF m
  <2>7. QED
    BY <2>5, <2>6 DEF Agrees
<1>3. QED
  BY <1>2

LEMMA AgreementMoves ==
  ASSUME RefInv, RefInv', StoreTypeOK, StoreTypeOK', Agreement, Still \/ (Ack /\ Quiet)
  PROVE  Agreement'
<1>1. SUFFICES ASSUME up', NEW id \in Id, uncertain'[id] = {}
               PROVE  \A j \in From'..Submitted' : ReplayOf(Whole)'[j].ok =>
                         Agrees(id, j, ReplayOf(Whole)[j].messages[id])'
  BY DEF Agreement
<1>2. FromShape /\ FromShape' /\ Len(batch) \in Nat
  BY FromBounds, FromBoundsNext, ShapeOfWhole DEF WholeShape
<1>3. CASE Still
  <2>1. From <= From'
    BY <1>2, <1>3 DEF Still, FromShape
  <2>2. QED
    BY <1>1, <1>3, <2>1, AgreementCarried DEF Still, Works
<1>4. CASE Ack /\ Quiet
  <2>1. UNCHANGED <<messages, op, uncertain, up, forced, loaded>>
    BY <1>4 DEF Ack, Quiet, life, disk
  <2>2. From' = From
    BY <2>1 DEF From
  <2>3. /\ Carried(Len(batch)) /\ Base + Len(batch) <= From'
        /\ \A i \in 1..Len(batch) : i \in 1..Requests /\ Req[i] = batch[i]
    BY <1>2, <1>4, <2>2, AckCarries DEF FromShape
  <2>4. ASSUME NEW t \in Thread
        PROVE  \/ call'[t] = call[t]
               \/ /\ call[t] = "await" /\ call'[t] = "done"
                  /\ \E i \in 1..Len(batch) : i \in 1..Requests /\ Req[i].by = t
    <3>1. call'[t] = IF Claimed(t, batch) THEN "done" ELSE call[t]
      BY <1>4 DEF Ack
    <3>2. Claimed(t, batch) => \E i \in 1..Len(batch) : i \in 1..Requests /\ Req[i].by = t
      BY <2>3 DEF Claimed
    <3>3. QED
      BY <3>1, <3>2, Waiting
  <2>5. From <= From'
    BY <1>2, <2>2 DEF FromShape
  <2>6. QED
    BY <1>1, <1>2, <2>1, <2>3, <2>4, <2>5, AgreementCarried DEF Works
<1>5. QED
  BY <1>3, <1>4

\* An operation leaves append(): the map changes with it, or its outcome is
\* unknown.
LEMMA AgreementLeaves ==
  ASSUME RefInv, RefInv', StoreTypeOK, StoreTypeOK', Locks, Agreement,
         NEW t \in Thread, Complete(t) \/ Abort(t)
  PROVE  Agreement'
<1>1. SUFFICES ASSUME up', NEW id \in Id, uncertain'[id] = {}
               PROVE  \A j \in From'..Submitted' : ReplayOf(Whole)'[j].ok =>
                         Agrees(id, j, ReplayOf(Whole)[j].messages[id])'
  BY DEF Agreement
<1>2. /\ op \in [Thread -> Record \cup {NoOp}]
      /\ messages \in [Id -> Entry \cup {Absent}]
      /\ uncertain \in [Id -> SUBSET Event]
      /\ call \in [Thread -> {"idle", "await", "done", "error"}]
  BY DEF StoreTypeOK, TypeOK
<1>3. /\ call[t] # "idle" /\ op' = [op EXCEPT ![t] = NoOp]
      /\ call' = [call EXCEPT ![t] = "idle"] /\ UNCHANGED <<up, forced, loaded, file>>
  BY Zenon DEF Complete, Abort, Return, ThrowInterrupted, life, disk
<1>4. /\ op'[t] = NoOp /\ op[t] # NoOp /\ op[t] \in Record /\ op[t].id \in Id
      /\ \A u \in Thread \ {t} : op'[u] = op[u] /\ call'[u] = call[u]
  <2>1. op[t] # NoOp
    BY <1>3 DEF Locks
  <2>2. QED
    BY <1>2, <1>3, <2>1, RecordShape
<1>5. Carried(0)
  <2>1. CASE ThrowInterrupted(t)
    BY <2>1, DisownCarries
  <2>2. CASE Return(t)
    BY <2>2, SameRequests DEF Return, disk, pipe
  <2>3. QED
    BY <2>1, <2>2 DEF Complete, Abort
<1>6. FromShape /\ From' = From
  BY <1>3, FromBounds DEF From
<1>7. \A u \in Thread : Works(u, op[t].id) => u = t
  BY <1>4 DEF Works, Locks
<1>8. CASE id # op[t].id
  <2>1. messages'[id] = messages[id] /\ uncertain[id] = {}
    BY <1>1, <1>2, <1>4, <1>8 DEF Complete, Abort
  <2>2. \A u \in Thread : Works(u, id) => op'[u] = op[u]
    BY <1>4, <1>8 DEF Works
  <2>3. \A u \in Thread : op'[u] # NoOp /\ op'[u].id = id => Works(u, id) /\ call'[u] = call[u]
    BY <1>4, <1>8 DEF Works
  <2>4. From <= From'
    BY <1>6 DEF FromShape
  <2>5. QED
    BY <1>1, <1>3, <1>5, <2>1, <2>2, <2>3, <2>4, AgreementCarried
<1>9. CASE id = op[t].id
  <2>1. Complete(t)
    <3>1. ASSUME Abort(t) PROVE FALSE
      <4>1. op[t].event \in uncertain'[id]
        BY <1>2, <1>4, <1>9, <3>1 DEF Abort
      <4>2. QED
        BY <1>1, <4>1
    <3>2. QED
      BY <3>1
  <2>2. /\ call[t] = "done" /\ uncertain' = uncertain
        /\ messages'[id] = Effect(op[t], messages[id])
    BY <1>2, <1>4, <1>9, <2>1 DEF Complete
  <2>3. Works(t, id) /\ \A u \in Thread : ~(op'[u] # NoOp /\ op'[u].id = id)
    BY <1>4, <1>7, <1>9 DEF Works
  <2>4. /\ Submitted' = Submitted
        /\ \A k \in 0..Submitted : ReplayOf(Whole)'[k] = ReplayOf(Whole)[k]
    BY <1>5, CarriedWhole
  <2>5. ASSUME NEW j \in From'..Submitted', ReplayOf(Whole)'[j].ok
        PROVE  Agrees(id, j, ReplayOf(Whole)[j].messages[id])'
    <3>1. j \in From..Submitted /\ j \in 0..Submitted
      BY <1>6, <2>4 DEF FromShape
    <3>2. ReplayOf(Whole)'[j] = ReplayOf(Whole)[j]
      BY <2>4, <3>1
    <3>3. Agrees(id, j, ReplayOf(Whole)[j].messages[id])
      BY <1>1, <1>3, <2>2, <2>5, <3>1, <3>2 DEF Agreement
    <3>4. ReplayOf(Whole)'[j].messages[id] = messages'[id]
      BY <2>2, <2>3, <3>2, <3>3 DEF Agrees
    <3>5. QED
      BY <2>3, <3>4 DEF Agrees, Works
  <2>6. QED
    BY <2>5
<1>10. QED
  BY <1>8, <1>9

\* An operation enters append(): its record is behind everything else.
LEMMA AgreementEnters ==
  ASSUME RefInv, RefInv', StoreTypeOK, StoreTypeOK', Locks, Agreement,
         NEW t \in Thread, NEW r \in Record, Enters(t, r)
  PROVE  Agreement'
<1>1. SUFFICES ASSUME up', NEW id \in Id, uncertain'[id] = {}
               PROVE  \A j \in From'..Submitted' : ReplayOf(Whole)'[j].ok =>
                         Agrees(id, j, ReplayOf(Whole)[j].messages[id])'
  BY DEF Agreement
<1>2. /\ op \in [Thread -> Record \cup {NoOp}]
      /\ messages \in [Id -> Entry \cup {Absent}]
      /\ uncertain \in [Id -> SUBSET Event]
      /\ call \in [Thread -> {"idle", "await", "done", "error"}]
      /\ NoOp \notin Record /\ Nobody \notin Thread
      /\ r.id \in Id
  BY StoreAssumption, JournalAssumption, RecordShape DEF StoreTypeOK, TypeOK
<1>3. /\ op[t] = NoOp /\ call[t] = "idle" /\ LockFree(r.id) /\ Submit(t, r)
      /\ UNCHANGED <<messages, up, forced, loaded, file>> /\ r # NoOp
  BY <1>2 DEF Enters, Begin, Submit, life, disk
<1>4. /\ FromShape /\ From' = From /\ Base \in Nat /\ Requests \in Nat
      /\ Submitted = Base + Requests
  BY <1>3, FromBounds, ShapeOfWhole DEF From, WholeShape
<1>5. Appended(r, IF interrupted[t] THEN Nobody ELSE t)
  BY <1>3, SubmitAppends
<1>6. Free(r.id)
  BY <1>2, <1>3 DEF LockFree, Free, Works
<1>7. ASSUME NEW u \in Thread \ {t} PROVE op'[u] = op[u] /\ call'[u] = call[u]
  BY <1>2, <1>7 DEF Enters, Begin, Submit
<1>8. CASE id # r.id
  \* A later operation on another id.
  <2>1. uncertain[id] = {}
    BY <1>1, <1>2, <1>8 DEF Enters, Begin
  <2>2. ~Works(t, id) /\ ~(op'[t] # NoOp /\ op'[t].id = id)
    BY <1>2, <1>3, <1>8 DEF Works, Enters, Begin
  <2>3. ASSUME NEW j \in From..Submitted, NEW k \in {j, Submitted + 1},
               j = k \/ j = Submitted, NEW m, Agrees(id, j, m)
        PROVE  /\ Free(id)' => m = messages'[id]
               /\ \A u \in Thread : Works(u, id)' =>
                     /\ call'[u] = "done" => m = Effect(op'[u], messages'[id])
                     /\ call'[u] = "error" => m \in {messages'[id], Effect(op'[u], messages'[id])}
                     /\ call'[u] = "await" => \A i \in 1..Requests' : Req'[i].by = u =>
                           m = IF k < Base' + i THEN messages'[id]
                                                ELSE Effect(op'[u], messages'[id])
    <3>1. Free(id)' => m = messages'[id]
      <4>1. Free(id)' => Free(id)
        BY <1>7, <2>2 DEF Free, Works
      <4>2. QED
        BY <1>3, <2>3, <4>1 DEF Agrees
    <3>2. ASSUME NEW u \in Thread, Works(u, id)'
          PROVE  /\ call'[u] = "done" => m = Effect(op'[u], messages'[id])
                 /\ call'[u] = "error" => m \in {messages'[id], Effect(op'[u], messages'[id])}
                 /\ call'[u] = "await" => \A i \in 1..Requests' : Req'[i].by = u =>
                       m = IF k < Base' + i THEN messages'[id]
                                            ELSE Effect(op'[u], messages'[id])
      <4>1. u # t /\ Works(u, id) /\ op'[u] = op[u] /\ call'[u] = call[u]
        BY <1>7, <2>2, <3>2 DEF Works
      <4>2. /\ call[u] = "done" => m = Effect(op[u], messages[id])
            /\ call[u] = "error" => m \in {messages[id], Effect(op[u], messages[id])}
            /\ call[u] = "await" => \A i \in 1..Requests : Req[i].by = u =>
                  m = IF j < Base + i THEN messages[id] ELSE Effect(op[u], messages[id])
        BY <2>3, <4>1 DEF Agrees
      <4>3. ASSUME call[u] = "await", NEW i \in 1..Requests', Req'[i].by = u
            PROVE  m = IF k < Base + i THEN messages[id] ELSE Effect(op[u], messages[id])
        <5>1. i # Requests + 1
          BY <1>2, <1>5, <4>1, <4>3 DEF Appended
        <5>2. i \in 1..Requests /\ Req'[i] = Req[i]
          BY <1>4, <1>5, <5>1 DEF Appended
        <5>3. m = IF j < Base + i THEN messages[id] ELSE Effect(op[u], messages[id])
          BY <4>2, <4>3, <5>2
        <5>4. j < Base + i <=> k < Base + i
          BY <1>4, <2>3, <5>2 DEF FromShape
        <5>5. QED
          BY <5>3, <5>4
      <4>4. Base' = Base
        BY <1>5 DEF Appended
      <4>5. QED
        BY <1>3, <4>1, <4>2, <4>3, <4>4
    <3>3. QED
      BY <3>1, <3>2
  <2>4. ASSUME NEW k \in From'..Submitted', ReplayOf(Whole)'[k].ok
        PROVE  Agrees(id, k, ReplayOf(Whole)[k].messages[id])'
    <3>1. PICK j \in From..Submitted : (j = k \/ k = Submitted + 1) /\ (j = k \/ j = Submitted)
      <4>1. k \in From..(Submitted + 1) /\ Submitted \in From..Submitted
        BY <1>4, <1>5 DEF Appended, FromShape
      <4>2. k \in From..Submitted \/ k = Submitted + 1
        BY <1>4, <4>1 DEF FromShape
      <4>3. QED
        BY <4>1, <4>2
    <3>2. /\ ReplayOf(Whole)[j].ok
          /\ ReplayOf(Whole)'[k].messages[id] = ReplayOf(Whole)[j].messages[id]
      <4>1. j \in 0..Submitted
        BY <1>4, <3>1 DEF FromShape
      <4>2. CASE k = j
        BY <1>5, <2>4, <4>1, <4>2 DEF Appended
      <4>3. CASE k = Submitted + 1 /\ j = Submitted
        <5>1. ReplayOf(Whole)'[k] = ReplayRecord(End, r) /\ End = ReplayOf(Whole)[j]
          BY <1>5, <4>3 DEF Appended, End
        <5>2. QED
          BY <1>8, <2>4, <5>1, OneMore
      <4>4. QED
        BY <3>1, <4>2, <4>3
    <3>3. Agrees(id, j, ReplayOf(Whole)[j].messages[id])
      BY <1>1, <1>3, <2>1, <3>1, <3>2 DEF Agreement
    <3> DEFINE m == ReplayOf(Whole)[j].messages[id]
    <3> HIDE DEF m
    <3>4. Agrees(id, j, m) /\ m = ReplayOf(Whole)'[k].messages[id]
      BY <3>2, <3>3 DEF m
    <3>5. /\ Free(id)' => m = messages'[id]
          /\ \A u \in Thread : Works(u, id)' =>
                /\ call'[u] = "done" => m = Effect(op'[u], messages'[id])
                /\ call'[u] = "error" => m \in {messages'[id], Effect(op'[u], messages'[id])}
                /\ call'[u] = "await" => \A i \in 1..Requests' : Req'[i].by = u =>
                      m = IF k < Base' + i THEN messages'[id]
                                           ELSE Effect(op'[u], messages'[id])
      BY <2>3, <3>1, <3>4
    <3>6. QED
      BY <3>4, <3>5 DEF Agrees
  <2>5. QED
    BY <2>4
<1>9. CASE id = r.id
  <2>1. ~interrupted[t]
    <3>1. ASSUME interrupted[t] PROVE FALSE
      <4>1. r.event \in uncertain'[id]
        BY <1>2, <1>9, <3>1 DEF Enters, Begin
      <4>2. QED
        BY <1>1, <4>1
    <3>2. QED
      BY <3>1
  <2>2. op'[t] = r /\ call'[t] = "await" /\ uncertain' = uncertain
    BY <1>2, <2>1 DEF Enters, Begin, Submit
  <2>3. /\ Works(t, id)' /\ ~Free(id)'
        /\ \A u \in Thread : Works(u, id)' => u = t
    BY <1>3, <1>6, <1>7, <1>9, <2>2 DEF Free, Works
  <2>4. \A i \in 1..Requests' : Req'[i].by = t => i = Requests + 1
    <3>1. \A i \in 1..Requests : Req[i].by # t
      BY <1>3, Waiting
    <3>2. QED
      BY <1>4, <1>5, <3>1 DEF Appended
  <2>5. ASSUME NEW j \in From'..Submitted', ReplayOf(Whole)'[j].ok
        PROVE  ReplayOf(Whole)'[j].messages[id] =
                  IF j < Base' + (Requests + 1) THEN messages'[id] ELSE Effect(r, messages'[id])
    <3>1. j \in From..Submitted \/ j = Submitted + 1
      BY <1>4, <1>5 DEF Appended, FromShape
    <3>2. CASE j \in From..Submitted
      <4>1. j \in 0..Submitted /\ j < Base' + (Requests + 1)
        BY <1>4, <1>5, <3>2 DEF Appended, FromShape
      <4>2. ReplayOf(Whole)'[j] = ReplayOf(Whole)[j]
        BY <1>5, <4>1 DEF Appended
      <4>3. Agrees(id, j, ReplayOf(Whole)[j].messages[id])
        BY <1>1, <1>3, <2>2, <2>5, <3>2, <4>2 DEF Agreement
      <4>4. QED
        BY <1>3, <1>6, <1>9, <4>1, <4>2, <4>3 DEF Agrees
    <3>3. CASE j = Submitted + 1
      <4>1. ~(j < Base' + (Requests + 1)) /\ Submitted \in From..Submitted
        BY <1>4, <1>5, <3>3 DEF Appended, FromShape
      <4>2. ReplayOf(Whole)'[j] = ReplayRecord(End, r) /\ End = ReplayOf(Whole)[Submitted]
        BY <1>5, <3>3 DEF Appended, End
      <4>3. /\ End.ok
            /\ ReplayOf(Whole)'[j].messages[id] = Effect(r, End.messages[id])
        BY <1>9, <2>5, <4>2, OneMore
      <4>4. Agrees(id, Submitted, End.messages[id])
        BY <1>1, <1>3, <2>2, <4>1, <4>2, <4>3 DEF Agreement
      <4>5. End.messages[id] = messages[id]
        BY <1>6, <1>9, <4>4 DEF Agrees
      <4>6. QED
        BY <1>3, <4>1, <4>3, <4>5
    <3>4. QED
      BY <3>1, <3>2, <3>3
  <2>6. ASSUME NEW j \in From'..Submitted', ReplayOf(Whole)'[j].ok
        PROVE  Agrees(id, j, ReplayOf(Whole)[j].messages[id])'
    <3> DEFINE m == ReplayOf(Whole)'[j].messages[id]
    <3>1. m = IF j < Base' + (Requests + 1) THEN messages'[id] ELSE Effect(r, messages'[id])
      BY <2>5, <2>6
    <3> HIDE DEF m
    <3>2. \A u \in Thread : Works(u, id)' =>
             /\ call'[u] = "done" => m = Effect(op'[u], messages'[id])
             /\ call'[u] = "error" => m \in {messages'[id], Effect(op'[u], messages'[id])}
             /\ call'[u] = "await" => \A i \in 1..Requests' : Req'[i].by = u =>
                   m = IF j < Base' + i THEN messages'[id] ELSE Effect(op'[u], messages'[id])
      BY <2>2, <2>3, <2>4, <3>1
    <3>3. QED
      BY <2>3, <3>2 DEF Agrees, m
  <2>7. QED
    BY <2>6
<1>10. QED
  BY <1>8, <1>9

\* The journal fails: what is not in the file is given up, and its callers
\* are told so.
LEMMA AgreementFails ==
  ASSUME RefInv, RefInv', StoreTypeOK, StoreTypeOK', Agreement, WriterFails, Quiet
  PROVE  Agreement'
<1>1. SUFFICES ASSUME up', NEW id \in Id, uncertain'[id] = {}
               PROVE  \A j \in From'..Submitted' : ReplayOf(Whole)'[j].ok =>
                         Agrees(id, j, ReplayOf(Whole)[j].messages[id])'
  BY DEF Agreement
<1>2. /\ UNCHANGED <<messages, op, uncertain, loaded, up, file, forced>>
      /\ batch' = <<>> /\ queue' = <<>> /\ written' = 0
      /\ call' = [t \in Thread |->
                    IF Claimed(t, batch) \/ Claimed(t, queue) THEN "error" ELSE call[t]]
  BY DEF WriterFails, FailJournal, Quiet
<1>3. OnlyFile /\ FromShape /\ From' = From /\ WholeShape
  BY <1>2, OnlyFileLeft, FromBounds, ShapeOfWhole DEF From
<1>4. ASSUME NEW t \in Thread
      PROVE  call'[t] = IF call[t] = "await" THEN "error" ELSE call[t]
  BY <1>2, Waiting
<1>5. ASSUME NEW j \in From'..Submitted', ReplayOf(Whole)'[j].ok
      PROVE  Agrees(id, j, ReplayOf(Whole)[j].messages[id])'
  <2>1. j \in From..Submitted /\ j \in 0..Len(file)
    BY <1>2, <1>3 DEF OnlyFile, FromShape, WholeShape
  <2>2. ReplayOf(Whole)'[j] = ReplayOf(Whole)[j]
    BY <1>2, <1>3, <2>1, WholeReplay, FileReplay DEF OnlyFile
  <2>3. Agrees(id, j, ReplayOf(Whole)[j].messages[id])
    BY <1>1, <1>2, <1>5, <2>1, <2>2 DEF Agreement
  <2> DEFINE m == ReplayOf(Whole)[j].messages[id]
  <2> HIDE DEF m
  <2>4. Agrees(id, j, m) /\ m = ReplayOf(Whole)'[j].messages[id]
    BY <2>2, <2>3 DEF m
  <2>5. Free(id)' => m = messages'[id]
    BY <1>2, <2>4 DEF Agrees, Free, Works
  <2>6. ASSUME NEW t \in Thread, Works(t, id)'
        PROVE  /\ call'[t] = "done" => m = Effect(op'[t], messages'[id])
               /\ call'[t] = "error" => m \in {messages'[id], Effect(op'[t], messages'[id])}
               /\ call'[t] # "await"
    <3>1. Works(t, id) /\ op'[t] = op[t] /\ messages'[id] = messages[id]
      BY <1>2, <2>6 DEF Works
    <3>2. /\ call[t] = "done" => m = Effect(op[t], messages[id])
          /\ call[t] = "error" => m \in {messages[id], Effect(op[t], messages[id])}
          /\ call[t] = "await" => \A i \in 1..Requests : Req[i].by = t =>
                m = IF j < Base + i THEN messages[id] ELSE Effect(op[t], messages[id])
      BY <2>4, <3>1 DEF Agrees
    <3>3. call[t] = "await" => m \in {messages[id], Effect(op[t], messages[id])}
      BY <3>2, Waiting
    <3>4. QED
      BY <1>4, <3>1, <3>2, <3>3
  <2>7. QED
    BY <2>4, <2>5, <2>6 DEF Agrees
<1>6. QED
  BY <1>5

\* The constructor: the map is what it read.
LEMMA AgreementRecovers ==
  ASSUME RefInv, RefInv', StoreTypeOK, StoreTypeOK', Locks, RecoverStore
  PROVE  Agreement'
<1>1. /\ ~up /\ messages' = Replayed[Len(file)].messages /\ loaded' = Len(file)
      /\ UNCHANGED <<op, file, queue, batch, written>>
  BY DEF RecoverStore, Recover
<1>2. batch = <<>> /\ queue = <<>> /\ written = 0
  BY <1>1 DEF RefInv, WriterAlive, WaiterInv, WriterClean, FileEndsInBatch
<1>3. OnlyFile /\ FromShape' /\ Len(file) \in Nat
  BY <1>1, <1>2, OnlyFileLeft, FromBoundsNext, Counters
<1>4. \A j \in From'..Submitted' : j = Len(file)
  BY <1>1, <1>3 DEF OnlyFile, FromShape
<1>5. ReplayOf(Whole)'[Len(file)] = Replayed[Len(file)]
  <2>1. Len(file) \in 0..Len(file)
    BY <1>3
  <2>2. QED
    BY <1>1, <1>3, <2>1, FileReplay DEF OnlyFile
<1>6. \A t \in Thread : op'[t] = NoOp
  BY <1>1 DEF Locks
<1>7. ASSUME NEW id \in Id, NEW j \in From'..Submitted'
      PROVE  Agrees(id, j, ReplayOf(Whole)[j].messages[id])'
  <2>1. ReplayOf(Whole)'[j].messages[id] = messages'[id]
    BY <1>1, <1>4, <1>5
  <2>2. QED
    BY <1>6, <2>1 DEF Agrees, Works
<1>8. QED
  BY <1>7 DEF Agreement

LEMMA AgreementStep ==
  /\ RefInv /\ RefInv' /\ StoreTypeOK /\ StoreTypeOK' /\ Locks /\ Agreement
  /\ [StoreNext]_storeVars
  => Agreement'
<1> SUFFICES ASSUME RefInv, RefInv', StoreTypeOK, StoreTypeOK', Locks, Agreement,
                    [StoreNext]_storeVars
             PROVE  Agreement'
  OBVIOUS
<1>1. CASE RecoverThrows \/ Crash
  <2>1. ~up'
    BY <1>1, LostMemory DEF RecoverThrows, Crash, ProcessDies, PowerLoss
  <2>2. QED
    BY <2>1 DEF Agreement
<1>2. QED
  BY <1>1, StoreCases, AgreementEnters, AgreementLeaves, AgreementMoves, AgreementFails,
     AgreementRecovers

-----------------------------------------------------------------------------
(* The theorems *)

LEMMA StoreStep == StoreInv /\ [StoreNext]_storeVars => StoreInv'
BY JournalKeeps, StoreTypeStep, LocksStep, AgreementStep, ReadableStep DEF StoreInv

LEMMA StoreStart == StoreInit => StoreInv
<1> SUFFICES ASSUME StoreInit PROVE StoreInv
  OBVIOUS
<1>1. /\ Init /\ ~up /\ file = <<>>
      /\ call = [t \in Thread |-> "idle"]
      /\ messages = [id \in Id |-> Absent]
      /\ op = [t \in Thread |-> NoOp]
      /\ loaded = 0
      /\ uncertain = [id \in Id |-> {}]
  BY DEF StoreInit, Init
<1>2. RefInv
  BY <1>1, RefInit
<1>3. loaded \in 0..Len(file)
  BY <1>1, EmptySeq
<1>4. StoreTypeOK
  BY <1>1, <1>2, <1>3 DEF StoreTypeOK, RefInv
<1>5. Locks
  BY <1>1 DEF Locks
<1>6. QED
  BY <1>1, <1>2, <1>4, <1>5 DEF StoreInv, Agreement, Readable

LEMMA StoreInvariant == StoreSpec => []StoreInv
BY StoreStart, StoreStep, PTL DEF StoreSpec

\* The fields of the store and of its entries hold values of their types: a
\* record's effect is only ever applied to an entry that is there.
THEOREM StoreTypeCorrect == StoreSpec => []StoreTypeOK
<1>1. StoreInv => StoreTypeOK
  BY DEF StoreInv
<1>2. QED
  BY <1>1, StoreInvariant, PTL

\* Every point a crash can cut the journal at is one of Whole that Agreement
\* is about.
LEMMA CrashPointsCovered ==
  ASSUME StoreInv, NEW k \in CrashPoints
  PROVE  /\ k \in From..Submitted /\ Replayed[k] = ReplayOf(Whole)[k]
<1>1. FromShape /\ WholeShape
  BY FromBounds, ShapeOfWhole DEF StoreInv
<1>2. k \in From..Len(file)
  BY DEF CrashPoints, From
<1>3. k \in From..Submitted /\ k \in 0..Len(file)
  BY <1>1, <1>2 DEF FromShape, WholeShape
<1>4. QED
  BY <1>3, WholeReplay DEF StoreInv

\* Wherever a crash cuts the journal, replaying it gives the entry in memory
\* or that entry after the operation under way.
THEOREM MemoryIsInTheJournal == StoreSpec => []JournalAgreesWithMemory
<1>1. ASSUME StoreInv PROVE JournalAgreesWithMemory
  <2>1. SUFFICES ASSUME up, NEW id \in Id, uncertain[id] = {}, NEW k \in CrashPoints,
                        Replayed[k].ok
                 PROVE  Replayed[k].messages[id] \in Expected(id)
    BY DEF JournalAgreesWithMemory
  <2>2. Agrees(id, k, Replayed[k].messages[id])
    BY <1>1, <2>1, CrashPointsCovered DEF StoreInv, Agreement
  <2>3. CASE Free(id)
    BY <2>2, <2>3 DEF Agrees, Expected
  <2>4. CASE ~Free(id)
    <3>1. PICK t \in Thread : Works(t, id)
      BY <2>4 DEF Free
    <3>2. call[t] \in {"await", "done", "error"}
      BY <1>1, <3>1 DEF StoreInv, StoreTypeOK, TypeOK, Locks, Works
    <3>3. \/ call[t] \in {"done", "error"}
          \/ call[t] = "await" /\ \E i \in 1..Requests : Req[i].by = t
      BY <1>1, <3>2, Waiting DEF StoreInv
    <3>4. Replayed[k].messages[id] \in {messages[id], Effect(op[t], messages[id])}
      BY <2>2, <3>1, <3>3 DEF Agrees
    <3>5. QED
      BY <3>1, <3>4 DEF Expected, Works
  <2>5. QED
    BY <2>3, <2>4
<1>2. QED
  BY <1>1, StoreInvariant, PTL

\* What append() is about to report as done is in every replay a crash can
\* leave.
THEOREM SuccessSurvives == StoreSpec => []SuccessIsDurable
<1>1. ASSUME StoreInv PROVE SuccessIsDurable
  <2>1. SUFFICES ASSUME NEW t \in Thread, call[t] = "done", uncertain[op[t].id] = {},
                        NEW k \in CrashPoints, Replayed[k].ok
                 PROVE  Replayed[k].messages[op[t].id] = Effect(op[t], messages[op[t].id])
    BY DEF SuccessIsDurable
  <2>2. op[t] # NoOp /\ up
    BY <1>1, <2>1 DEF StoreInv, Locks
  <2>3. op[t] \in Record /\ op[t].id \in Id
    BY <1>1, <2>2, RecordShape DEF StoreInv, StoreTypeOK
  <2>4. Agrees(op[t].id, k, Replayed[k].messages[op[t].id])
    BY <1>1, <2>1, <2>2, <2>3, CrashPointsCovered DEF StoreInv, Agreement
  <2>5. QED
    BY <2>1, <2>2, <2>4 DEF Agrees, Works
<1>2. QED
  BY <1>1, StoreInvariant, PTL

\* No crash leaves a journal the constructor refuses, unless a discard() of
\* unknown outcome came before.
THEOREM ConstructorSucceeds == StoreSpec => []JournalCanBeReplayed
<1>1. ASSUME StoreInv PROVE JournalCanBeReplayed
  <2>1. SUFFICES ASSUME up, NoDiscardUncertain, NEW k \in forced..Len(file)
                 PROVE  Replayed[k].ok
    BY DEF JournalCanBeReplayed, NoDiscardUncertain
  <2>2. FromShape /\ WholeShape /\ RefInv
    BY <1>1, FromBounds, ShapeOfWhole DEF StoreInv
  <2>3. k \in 0..Len(file) /\ k \in 0..Submitted /\ Submitted \in 0..Submitted
    BY <2>2 DEF FromShape, WholeShape
  <2>4. ReplayOf(Whole)[Submitted].ok
    BY <1>1, <2>1 DEF StoreInv, Readable, End
  <2>5. ReplayOf(Whole)[k].ok
    BY <2>2, <2>3, <2>4, WholeReplay
  <2>6. QED
    BY <2>2, <2>3, <2>5, WholeReplay
<1>2. QED
  BY <1>1, StoreInvariant, PTL
=============================================================================
