---------------------------- MODULE MessageStore ----------------------------
(***************************************************************************)
(* The durable store as BundleReader and BundleAgent see it: a message has *)
(* an entry in memory and an entry the journal would give back, and an     *)
(* operation either changes both or throws.  One that throws leaves memory *)
(* alone, and may or may not have reached the journal: its thread was      *)
(* interrupted in append(), or the journal thread failed.  Module          *)
(* DurableStore is the detailed account of the same operations.            *)
(*                                                                         *)
(* Processes end here, the machine does not: what is in the journal file   *)
(* stays there, forced or not.  A loss of power takes back what was not,   *)
(* also a record that a process has loaded and acted on; that is the       *)
(* subject of DurableStore (SuccessIsDurable, ResultIsDurable).            *)
(***************************************************************************)
EXTENDS Naturals, Sequences, FiniteSets

CONSTANTS
    NumMsgs,            \* bound of the model: input messages
    MaxRestarts,        \* bound of the model: processes that end or fail
    JournalMayFail      \* whether the journal thread may fail

ASSUME MessageStoreAssumption ==
    /\ NumMsgs \in Nat /\ MaxRestarts \in Nat
    /\ JournalMayFail \in BOOLEAN

\* A message is its sequence number in the input queue.
Msg == 1..NumMsgs

VARIABLES
    phase,      \* "down", main() at "discard", "requeue", or "run"
    running,    \* BundleAgent.running
    restarts,   \* how many processes have ended
    memory,     \* memory[m]: the entry of m in the map, or Absent
    journal,    \* journal[m]: the entry a replay of the journal file gives, or Absent
    broken      \* the journal thread has failed

storeVars == <<memory, journal, broken>>

Absent == [state |-> "ABSENT", result |-> "none", publishedCount |-> 0]

\* The two kinds of result processMessage() stores: the envelope made by
\* auditAndDoWork() and the one made by makeErrorResult().
Envelope == {"work", "error"}

Entry == [state : {"COMMITTING", "READY", "PROCESSING", "RETRY_WAIT", "RESULT_PENDING", "DONE"},
          result : Envelope \cup {"none"},
          publishedCount : Nat]

Known(m) == memory[m] # Absent

\* The changes the agent asks of the store, named by the journal's events.
StageIt == [event |-> "STAGE"]
SetState(s) == [event |-> "STATE", state |-> s]
SetResultPending(env) == [event |-> "RESULT", result |-> env]
SetPublishedCount(n) == [event |-> "PUBLISHED", count |-> n]
SetRetry == [event |-> "RETRY"]
DiscardIt == [event |-> "DISCARD"]

\* What a change makes of an entry, in memory and when the journal is replayed.
\* retryCount is left out: nothing reads it.
Changed(c, e) ==
    CASE c.event = "STAGE"     -> [state |-> "COMMITTING", result |-> "none",
                                   publishedCount |-> 0]
      [] c.event = "STATE"     -> [e EXCEPT !.state = c.state]
      [] c.event = "RETRY"     -> [e EXCEPT !.state = "RETRY_WAIT"]
      [] c.event = "RESULT"    -> [state |-> "RESULT_PENDING", result |-> c.result,
                                   publishedCount |-> 0]
      [] c.event = "PUBLISHED" -> [e EXCEPT !.publishedCount = c.count]
      [] c.event = "DISCARD"   -> Absent

\* The messages of S in the order of the store's LinkedHashMap.
InOrder(S) ==
    CHOOSE s \in [1..Cardinality(S) -> S] :
        \A i, j \in 1..Cardinality(S) : i < j => s[i] < s[j]

Recoverable ==
    {m \in Msg : memory[m].state \in {"COMMITTING", "READY", "PROCESSING", "RETRY_WAIT"}}

PendingResults == {m \in Msg : memory[m].state = "RESULT_PENDING"}

\* A failure of any kind is one that a restart can still follow.
MayFail == restarts < MaxRestarts

\* Fault: the journal record is left out.
StoreInMemory(m, c) ==
    /\ ~broken
    /\ memory' = [memory EXCEPT ![m] = Changed(c, @)]
    /\ UNCHANGED <<journal, broken>>

\* The operation returns normally.
StoreOk(m, c) ==
    /\ ~broken
    /\ memory' = [memory EXCEPT ![m] = Changed(c, @)]
    /\ journal' = [journal EXCEPT ![m] = Changed(c, @)]
    /\ UNCHANGED broken

\* The operation throws.  Interrupted during shutdown, or in the batch that
\* broke the journal, its record may have reached the file all the same;
\* after that it is refused.
StoreThrows(m, c) ==
    /\ MayFail
    /\ UNCHANGED memory
    /\ \/ broken /\ UNCHANGED <<journal, broken>>
       \/ /\ ~broken
          /\ \/ ~running /\ UNCHANGED broken
             \/ JournalMayFail /\ broken' = TRUE
          /\ journal' \in {journal, [journal EXCEPT ![m] = Changed(c, @)]}

\* The process is gone, and with it the map.
StoreLost ==
    /\ memory' = [m \in Msg |-> Absent]
    /\ broken' = FALSE
    /\ UNCHANGED journal

\* The constructor of the next process.
StoreOpened ==
    /\ memory' = journal
    /\ UNCHANGED <<journal, broken>>
=============================================================================
