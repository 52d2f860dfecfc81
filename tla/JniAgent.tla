------------------------------ MODULE JniAgent ------------------------------
(***************************************************************************)
(* Agent.java: one thread that takes a message under XA, answers it with   *)
(* an ACK and a RESULT, or puts it into the error queue, and only then     *)
(* commits it.  The three queues are FileQueue's and external; the process *)
(* can end anywhere, and an uncommitted message is delivered again.        *)
(***************************************************************************)
EXTENDS Naturals, Sequences, FiniteSets

CONSTANTS
    NumMsgs,        \* bound of the model: input messages, numbered in order
    kind,           \* kind[m]: what process() finds in m
    MaxRestarts     \* bound of the model: processes that end or fail

Kind == {"health", "unreplyable", "rejected", "valid"}

Msg == 1..NumMsgs

ASSUME AgentAssumption ==
    /\ NumMsgs \in Nat /\ MaxRestarts \in Nat
    /\ kind \in [Msg -> Kind]

VARIABLES
    running,        \* RUNNING
    input,          \* messages not committed
    current,        \* the message under XA, 0 when there is none
    at,             \* where run() and process() are
    output,         \* output[m]: what was enqueued for m, in order
    restarts

vars == <<running, input, current, at, output, restarts>>

NoMsg == 0

Oldest == CHOOSE m \in input : \A n \in input : m <= n

MayFail == restarts < MaxRestarts

\* deQueueXA() and the checks of process() up to the first output.
Take ==
    /\ at = "loop" /\ running
    /\ input # {}
    /\ current' = Oldest
    /\ at' = CASE kind[current'] = "health"      -> "commit"
               [] kind[current'] = "unreplyable" -> "quarantine"
               [] OTHER                          -> "respond"
    /\ UNCHANGED <<running, input, output, restarts>>

\* ACK and RESULT are built; when that throws, the input is quarantined.
Respond ==
    /\ at = "respond"
    /\ at' \in {"ack", "quarantine"}
    /\ UNCHANGED <<running, input, current, output, restarts>>

Enqueue(item, next) ==
    /\ running
    /\ output' = [output EXCEPT ![current] = Append(@, item)]
    /\ at' = next
    /\ UNCHANGED <<running, input, current, restarts>>

\* Fault: an enqueue that succeeded is retried.
EnqueueAckAgain ==
    /\ at = "ack"
    /\ \/ Enqueue("ACK", IF kind[current] = "valid" THEN "result" ELSE "commit")
       \/ Enqueue("ACK", "ack")

EnqueueAck ==
    /\ at = "ack"
    /\ Enqueue("ACK", IF kind[current] = "valid" THEN "result" ELSE "commit")

EnqueueResult ==
    /\ at = "result"
    /\ Enqueue("RESULT", "commit")

Quarantine ==
    /\ at = "quarantine"
    /\ Enqueue("ERROR", "commit")

\* Fault: the XA is committed although an output is missing.
GiveUpAndCommit ==
    /\ at \in {"ack", "result", "quarantine"}
    /\ ~running
    /\ at' = "commit"
    /\ UNCHANGED <<running, input, current, output, restarts>>

\* enqueueBytesWithRetry() gives up when the agent is told to stop; the XA
\* stays unresolved.
GiveUp ==
    /\ at \in {"ack", "result", "quarantine"}
    /\ ~running
    /\ at' = "stopped"
    /\ UNCHANGED <<running, input, current, output, restarts>>

\* Fault: a health check is not committed.
CommitSkipsHealthCheck ==
    /\ at = "commit"
    /\ input' = IF kind[current] = "health" THEN input ELSE input \ {current}
    /\ current' = NoMsg
    /\ at' = "loop"
    /\ UNCHANGED <<running, output, restarts>>

Commit ==
    /\ at = "commit"
    /\ input' = input \ {current}
    /\ current' = NoMsg
    /\ at' = "loop"
    /\ UNCHANGED <<running, output, restarts>>

\* commit() returns an error, whether or not the queue dropped the message.
CommitFails ==
    /\ at = "commit"
    /\ MayFail
    /\ input' \in {input, input \ {current}}
    /\ running' = FALSE
    /\ at' = "stopped"
    /\ UNCHANGED <<current, output, restarts>>

\* The shutdown hook.
Stop ==
    /\ at # "down"
    /\ running
    /\ MayFail
    /\ running' = FALSE
    /\ UNCHANGED <<input, current, at, output, restarts>>

RunEnded == at = "stopped" \/ (at = "loop" /\ ~running)

\* The process is killed, or run() has ended.
ProcessEnds ==
    /\ at # "down"
    /\ MayFail \/ RunEnded
    /\ at' = "down"
    /\ running' = FALSE
    /\ current' = NoMsg
    /\ restarts' = restarts + 1
    /\ UNCHANGED <<input, output>>

Start ==
    /\ at = "down"
    /\ at' = "loop"
    /\ running' = TRUE
    /\ UNCHANGED <<input, current, output, restarts>>

Init ==
    /\ running = FALSE
    /\ input = Msg
    /\ current = NoMsg
    /\ at = "down"
    /\ output = [m \in Msg |-> <<>>]
    /\ restarts = 0

Run == Take \/ Respond \/ EnqueueAck \/ EnqueueResult \/ Quarantine \/ GiveUp \/ Commit

Next == Run \/ CommitFails \/ Stop \/ ProcessEnds \/ Start

Spec == Init /\ [][Next]_vars

\* The agent's thread keeps running, the queues take what is enqueued in the
\* end, and an agent that has stopped is started again.
FairSpec ==
    Spec /\ WF_vars(Run) /\ WF_vars(Start)
         /\ WF_vars(RunEnded /\ ProcessEnds)

-----------------------------------------------------------------------------
(* Properties *)

\* All variables hold values of their types; a message is in hand exactly
\* from deQueueXA() to its end.
TypeOK ==
    /\ running \in BOOLEAN
    /\ input \subseteq Msg
    /\ current \in Msg \cup {NoMsg}
    /\ at \in {"down", "loop", "respond", "ack", "result", "quarantine", "commit", "stopped"}
    /\ current = NoMsg <=> at \in {"down", "loop"}
    /\ output \in [Msg -> Seq({"ACK", "RESULT", "ERROR"})]
    /\ restarts \in Nat

Has(m, item) == \E i \in 1..Len(output[m]) : output[m][i] = item

\* "Never commit after a failed output enqueue": a message leaves the input
\* queue only when everything it is owed was enqueued, however often the
\* process ended on the way; and no RESULT is ahead of the ACK of the same
\* delivery, also where a process that ended left one of them behind.
CommittedIsAnswered ==
    /\ \A m \in Msg \ input : kind[m] # "health" =>
          \/ Has(m, "ERROR")
          \/ /\ Has(m, "ACK")
             /\ kind[m] = "valid" => Has(m, "RESULT")
    /\ \A m \in Msg : \A i \in 1..Len(output[m]) :
          output[m][i] = "RESULT" => (i > 1 /\ output[m][i - 1] = "ACK")

\* "ACK may be duplicated after crash", and only then: each process that
\* ended with the message unresolved accounts for one repetition.
RepeatsArePaidByRestarts ==
    \A m \in Msg, item \in {"ACK", "RESULT", "ERROR"} :
        Cardinality({i \in 1..Len(output[m]) : output[m][i] = item}) <= restarts + 1

\* A message that cannot be answered does not block the ones behind it: the
\* input queue is emptied in the end.
InputIsDrained == <>[](input = {})
=============================================================================
