---------------------------- MODULE WriteAheadLog ----------------------------
(***************************************************************************)
(* What the journal of DurableStore.java promises to the threads that call *)
(* append(): one durable log that only grows, in the order in which the    *)
(* records were submitted, and a success reply only for a record that is   *)
(* in it.  Batches, the writer thread, the file and force() are Journal's  *)
(* way of keeping the promise; Journal is shown to implement this module.  *)
(***************************************************************************)
EXTENDS Naturals, Sequences

CONSTANTS
    Thread,         \* the threads that call append()
    Record,         \* the journal records, opaque here
    Nobody          \* no thread: nobody waits for the request any more

VARIABLES
    log,            \* the records that no crash can take back
    tail,           \* submitted requests whose fate is open, oldest first
    call            \* call[t]: where thread t is in append()

vars == <<log, tail, call>>

Request == [rec : Record, by : Thread \cup {Nobody}]

\* The records of a sequence of requests.
Records(reqs) == [i \in 1..Len(reqs) |-> reqs[i].rec]

\* The same requests with nobody waiting for them any more.
Unclaimed(reqs) == [i \in 1..Len(reqs) |-> [rec |-> reqs[i].rec, by |-> Nobody]]

\* The same requests after thread t has stopped waiting.
Without(t, reqs) ==
    [i \in 1..Len(reqs) |->
        IF reqs[i].by = t THEN [reqs[i] EXCEPT !.by = Nobody] ELSE reqs[i]]

Waits(t) == \E i \in 1..Len(tail) : tail[i].by = t

Init ==
    /\ log = <<>>
    /\ tail = <<>>
    /\ call = [t \in Thread |-> "idle"]

Submit(t, r) ==
    /\ call[t] = "idle"
    /\ \/ /\ call' = [call EXCEPT ![t] = "await"]
          /\ tail' = Append(tail, [rec |-> r, by |-> t])
       \/ /\ call' = call
          /\ tail' = Append(tail, [rec |-> r, by |-> Nobody])
    /\ UNCHANGED log

\* The oldest n open records become durable.
Harden(n) ==
    /\ log' = log \o Records(SubSeq(tail, 1, n))
    /\ tail' = SubSeq(tail, n + 1, Len(tail))
    /\ UNCHANGED call

\* Success is reported to waiting threads whose records are in the log.
Reply ==
    /\ \E S \in SUBSET {t \in Thread : call[t] = "await" /\ ~Waits(t)} :
          call' = [t \in Thread |-> IF t \in S THEN "done" ELSE call[t]]
    /\ UNCHANGED <<log, tail>>

\* Every open request is told that it failed; a prefix may still be found
\* in the log by a later run.
Fail(n) ==
    /\ tail' = Unclaimed(SubSeq(tail, 1, n))
    /\ call' = [t \in Thread |-> IF Waits(t) THEN "error" ELSE call[t]]
    /\ UNCHANGED log

Return(t) ==
    /\ call[t] \in {"done", "error"}
    /\ call' = [call EXCEPT ![t] = "idle"]
    /\ UNCHANGED <<log, tail>>

\* An interrupted thread leaves without knowing what became of its record.
Abandon(t) ==
    /\ call[t] # "idle"
    /\ call' = [call EXCEPT ![t] = "idle"]
    /\ tail' = Without(t, tail)
    /\ UNCHANGED log

\* A crash keeps some prefix of the open records, and of that prefix some
\* part is durable at once.
Crash(n, m) ==
    /\ log' = log \o Records(SubSeq(tail, 1, n))
    /\ tail' = Unclaimed(SubSeq(tail, n + 1, m))
    /\ call' = [t \in Thread |-> "idle"]

Next ==
    \/ \E t \in Thread : (\E r \in Record : Submit(t, r)) \/ Return(t) \/ Abandon(t)
    \/ Reply
    \/ \E n \in 0..Len(tail) : Harden(n) \/ Fail(n) \/ \E m \in n..Len(tail) : Crash(n, m)

Spec == Init /\ [][Next]_vars
=============================================================================
