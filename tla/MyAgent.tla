------------------------------ MODULE MyAgent ------------------------------
(* MyAgent and the carrier it talks to, for which the simulator of the     *)
(* repository stands (ClangSimulatorDualFunctionTcpServer).  Each sender   *)
(* thread takes messages from the request queue under XA, appends them to  *)
(* a backup file of its own, commits, sends them over its connection and   *)
(* waits for an ACK; then it deletes the file.  A thread that connects     *)
(* sends what the file holds, as one frame, before anything else.  The     *)
(* carrier puts frames into a queue of its own, acknowledges them, and     *)
(* reports on the queue's messages over a connection to the agent's result *)
(* thread.  ACKs and results end in the result queue.  A full queue only   *)
(* delays its writer and is left out.                                      *)
(* FileQueueJNI is not part of the repository.  A readXA() through a queue *)
(* object whose own XA is still open is taken to give the same message     *)
(* again or to fail, and an XA to end only with a commit, a cancel or its  *)
(* process.                                                                *)
EXTENDS Naturals, Sequences, FiniteSets, SequencesExt

CONSTANTS
    Sender,     \* the sender threads
    NumMsgs,    \* messages 1..NumMsgs wait in the request queue
    Kinds,      \* what the messages may be: valid, health check, or invalid
    MaxFaults   \* bound on the faults of a behaviour

Msg == 1..NumMsgs
NoMsg == 0

ASSUME MyAgentAssumption ==
    /\ IsFiniteSet(Sender)
    /\ NumMsgs \in Nat /\ MaxFaults \in Nat
    /\ Kinds \subseteq [Msg -> {"valid", "health", "invalid"}]

VARIABLES
    kind,      \* kind[m]: what message m is (invalid: not JSON)
    running,   \* is there an agent process?
    request,   \* the request queue
    xa,        \* the threads with an open XA on it, one at most
    pc, hand,  \* per sender thread: where it is, the message it works on
    conn,      \* per sender thread: is its connection intact?
    toSim,     \* per connection: frames under way, sequences of messages
    toAgent,   \* per connection: ACKs under way
    file,      \* thread_<id>.dat, per sender thread
    simQ,      \* interThreadComQueue: the frames the carrier has taken
    stopFlag,  \* an ACK could not be written
    simXA,     \* has the carrier an XA open on that queue?
    resPc,     \* the result connection: down, idle, stored
    received,  \* history: how often a message came first in a frame
    reported,  \* history: the messages whose result went into the result queue
    breaks, crashes,  \* history: failed operations and connections; processes
    recovered, \* history: has a backup file been sent?
    unsaved    \* history: messages whose backup could not be written

agentVars == <<running, request, xa, pc, hand, file, unsaved, recovered>>
wireVars == <<conn, toSim, toAgent>>
simVars == <<simQ, simXA, stopFlag, resPc, received, reported>>
faultVars == <<breaks, crashes, kind>>
myVars == <<agentVars, wireVars, simVars, faultVars>>

FaultLeft == breaks + crashes < MaxFaults

Goto(s, there) == pc' = [pc EXCEPT ![s] = there]

(* What the carrier has after taking the frames fs: JsonParserAndVerify()  *)
(* and the ACK see only the first message of a frame.                      *)
Taken(fs) ==
    /\ simQ' = simQ \o fs
    /\ received' = [m \in Msg |-> received[m] +
                       Cardinality({i \in 1..Len(fs): Head(fs[i]) = m})]

(* The orders in which the carrier may take the first n[s] frames of each  *)
(* connection.                                                             *)
Arrivals(n) ==
    LET frames == {p \in Sender \X (1..(NumMsgs + 1)): p[2] <= n[p[1]]}
        N == Cardinality(frames)
        orders == {f \in [1..N -> frames]:
                      \A i, j \in 1..N: i < j /\ f[i][1] = f[j][1] => f[i][2] < f[j][2]}
    IN  {[i \in 1..N |-> toSim[f[i][1]][f[i][2]]]: f \in orders}

(* A connection ends: the carrier has still read some of the frames under  *)
(* way, cannot acknowledge them, and its thread may count up stopFlag.     *)
Dropped(s) ==
    /\ \E n \in 0..Len(toSim[s]):
          /\ Taken(SubSeq(toSim[s], 1, n))
          /\ stopFlag' \in {stopFlag, stopFlag \/ n > 0}
    /\ conn' = [conn EXCEPT ![s] = FALSE]
    /\ toSim' = [toSim EXCEPT ![s] = <<>>]
    /\ toAgent' = [toAgent EXCEPT ![s] = <<>>]
    /\ UNCHANGED <<simXA, resPc, reported>>

-----------------------------------------------------------------------------
(* processMessageThread                                                    *)

Connect(s) ==
    /\ pc[s] = "connect"
    /\ conn' = [conn EXCEPT ![s] = TRUE]
    /\ Goto(s, IF file[s] = <<>> THEN "read" ELSE "recover")
    /\ UNCHANGED <<running, request, xa, hand, file, unsaved, recovered, toSim,
                   toAgent, simVars, faultVars>>

(* The whole file as one frame.  Its ACK is not waited for here and the    *)
(* file is not deleted.                                                    *)
RecoveryMessage(s) ==
    /\ pc[s] = "recover" /\ conn[s]
    /\ toSim' = [toSim EXCEPT ![s] = Append(@, file[s])]
    /\ recovered' = TRUE
    /\ Goto(s, "read")
    /\ UNCHANGED <<running, request, xa, hand, file, unsaved, conn, toAgent,
                   simVars, faultVars>>

(* A failed recovery ends the thread for good.                             *)
RecoveryFails(s) ==
    /\ pc[s] = "recover" /\ ~conn[s]
    /\ Goto(s, "ended")
    /\ UNCHANGED <<running, request, xa, hand, file, unsaved, recovered,
                   wireVars, simVars, faultVars>>

(* An XA of the thread's own is open still if a commit left it so.         *)
readXA(s) ==
    /\ pc[s] = "read" /\ xa \subseteq {s} /\ request # <<>>
    /\ xa' = {s}
    /\ hand' = [hand EXCEPT ![s] = Head(request)]
    /\ Goto(s, "backup")
    /\ UNCHANGED <<running, request, file, unsaved, recovered, wireVars,
                   simVars, faultVars>>

writeMessageToFile(s) ==
    /\ pc[s] = "backup"
    /\ file' = [file EXCEPT ![s] = Append(@, hand[s])]
    /\ Goto(s, "commit")
    /\ UNCHANGED <<running, request, xa, hand, unsaved, recovered, wireVars,
                   simVars, faultVars>>

(* An IOException is logged, and the message committed all the same.       *)
BackupFails(s) ==
    /\ FaultLeft
    /\ pc[s] = "backup"
    /\ unsaved' = unsaved \cup {hand[s]}
    /\ breaks' = breaks + 1
    /\ Goto(s, "commit")
    /\ UNCHANGED <<running, request, xa, hand, file, recovered, wireVars,
                   simVars, crashes, kind>>

(* DoMessage() returns true at once for what is not sent.                  *)
AfterCommit(s) == Goto(s, IF kind[hand[s]] = "valid" THEN "send" ELSE "delete")

(* Fault: cancelXA() stands where commitXA() belongs.                      *)
CancelsInstead(s) ==
    /\ pc[s] = "commit"
    /\ xa' = {}
    /\ AfterCommit(s)
    /\ UNCHANGED <<running, request, hand, file, unsaved, recovered, wireVars,
                   simVars, faultVars>>

commitXA(s) ==
    /\ pc[s] = "commit"
    /\ request' = Tail(request)
    /\ xa' = {}
    /\ AfterCommit(s)
    /\ UNCHANGED <<running, hand, file, unsaved, recovered, wireVars, simVars,
                   faultVars>>

(* Nobody looks at what commitXA() returns: if it fails, the message stays *)
(* in the queue and is sent all the same.                                  *)
CommitFails(s) ==
    /\ FaultLeft
    /\ pc[s] = "commit"
    /\ xa' \in {{}, xa}
    /\ breaks' = breaks + 1
    /\ AfterCommit(s)
    /\ UNCHANGED <<running, request, hand, file, unsaved, recovered, wireVars,
                   simVars, crashes, kind>>

(* Fault: the backup is deleted once the message is written to the socket. *)
SendAndDelete(s) ==
    /\ pc[s] = "send" /\ conn[s]
    /\ toSim' = [toSim EXCEPT ![s] = Append(@, <<hand[s]>>)]
    /\ file' = [file EXCEPT ![s] = <<>>]
    /\ Goto(s, "ack")
    /\ UNCHANGED <<running, request, xa, hand, unsaved, recovered, conn,
                   toAgent, simVars, faultVars>>

Send(s) ==
    /\ pc[s] = "send" /\ conn[s]
    /\ toSim' = [toSim EXCEPT ![s] = Append(@, <<hand[s]>>)]
    /\ Goto(s, "ack")
    /\ UNCHANGED <<running, request, xa, hand, file, unsaved, recovered, conn,
                   toAgent, simVars, faultVars>>

(* Whatever ACK comes next is taken for the ACK of this message.           *)
ReadAck(s) ==
    /\ pc[s] = "ack" /\ toAgent[s] # <<>>
    /\ toAgent' = [toAgent EXCEPT ![s] = Tail(@)]
    /\ Goto(s, "delete")
    /\ UNCHANGED <<running, request, xa, hand, file, unsaved, recovered, conn,
                   toSim, simVars, faultVars>>

deleteFile(s) ==
    /\ pc[s] = "delete"
    /\ file' = [file EXCEPT ![s] = <<>>]
    /\ hand' = [hand EXCEPT ![s] = NoMsg]
    /\ Goto(s, "read")
    /\ UNCHANGED <<running, request, xa, unsaved, recovered, wireVars, simVars,
                   faultVars>>

(* The socket is found broken, writing or reading: cancelXA() finds an XA  *)
(* to cancel only if the commit has failed, the thread connects again.     *)
SocketFails(s) ==
    /\ pc[s] \in {"send", "ack"} /\ ~conn[s]
    /\ xa' = xa \ {s}
    /\ hand' = [hand EXCEPT ![s] = NoMsg]
    /\ Goto(s, "connect")
    /\ UNCHANGED <<running, request, file, unsaved, recovered, wireVars,
                   simVars, faultVars>>

(* A queue refuses, readXA() or the write of the ACK: the thread closes    *)
(* its socket, after the ACK with a cancelXA() first, and connects again.  *)
QueueFails(s) ==
    /\ FaultLeft
    /\ \/ pc[s] = "read" /\ xa' = xa
       \/ pc[s] = "ack" /\ toAgent[s] # <<>> /\ xa' = xa \ {s}
    /\ hand' = [hand EXCEPT ![s] = NoMsg]
    /\ Goto(s, "connect")
    /\ breaks' = breaks + 1
    /\ Dropped(s)
    /\ UNCHANGED <<running, request, file, unsaved, recovered, crashes, kind>>

processMessageThread(s) ==
    /\ running
    /\ \/ Connect(s)
       \/ RecoveryMessage(s)
       \/ RecoveryFails(s)
       \/ readXA(s)
       \/ writeMessageToFile(s)
       \/ commitXA(s)
       \/ Send(s)
       \/ ReadAck(s)
       \/ deleteFile(s)
       \/ SocketFails(s)

-----------------------------------------------------------------------------
(* The carrier and the agent's result thread                               *)

(* handleAckClientThread: one frame into the queue, one ACK back.          *)
SimTakes(s) ==
    /\ toSim[s] # <<>>
    /\ Taken(<<Head(toSim[s])>>)
    /\ toAgent' = [toAgent EXCEPT ![s] = Append(@, Head(Head(toSim[s])))]
    /\ toSim' = [toSim EXCEPT ![s] = Tail(@)]
    /\ UNCHANGED <<conn, simXA, stopFlag, resPc, reported, agentVars, faultVars>>

First == Head(Head(simQ))

(* Fault: the message is committed once its result is written to the       *)
(* socket, whether or not the agent gets and stores it.                    *)
SimCommitsFirst ==
    /\ resPc = "idle" /\ ~stopFlag /\ simQ # <<>> /\ kind[First] # "invalid"
    /\ simQ' = Tail(simQ) /\ simXA' = FALSE
    /\ reported' \in {reported, reported \cup {First}}
    /\ UNCHANGED <<stopFlag, resPc, received, agentVars, wireVars, faultVars>>

(* handleMessageClient sends the result of the first message of the frame  *)
(* and processResultReceiverThread puts it into the result queue.          *)
SimSendsResult ==
    /\ resPc = "idle" /\ ~stopFlag /\ simQ # <<>> /\ kind[First] # "invalid"
    /\ simXA' = TRUE
    /\ reported' = reported \cup {First}
    /\ resPc' = "stored"
    /\ UNCHANGED <<simQ, stopFlag, received, agentVars, wireVars, faultVars>>

(* The carrier does not look at what its commitXA() returns either.        *)
SimCommits ==
    \/ /\ simQ' = Tail(simQ) /\ simXA' = FALSE
       /\ UNCHANGED breaks
    \/ /\ FaultLeft
       /\ simXA' \in BOOLEAN
       /\ breaks' = breaks + 1
       /\ UNCHANGED simQ

SimThrowsAway ==
    /\ resPc = "idle" /\ ~stopFlag /\ simQ # <<>> /\ kind[First] = "invalid"
    /\ SimCommits
    /\ UNCHANGED <<stopFlag, resPc, received, reported, agentVars, wireVars,
                   crashes, kind>>

(* stopFlag ends the carrier's side of the result connection at the head   *)
(* of its loop.                                                            *)
SimStops ==
    /\ resPc = "idle" /\ stopFlag
    /\ resPc' = "down" /\ stopFlag' = FALSE
    /\ UNCHANGED <<simQ, simXA, received, reported, agentVars, wireVars, faultVars>>

(* readXA() fails because a handler before this one left its XA open.      *)
SimRefused ==
    /\ resPc = "idle" /\ ~stopFlag /\ simXA
    /\ resPc' = "down"
    /\ UNCHANGED <<simQ, simXA, stopFlag, received, reported, agentVars,
                   wireVars, faultVars>>

(* The stored result is confirmed, upon which the carrier commits.         *)
ConfirmResult ==
    /\ running /\ resPc = "stored"
    /\ SimCommits
    /\ resPc' = "idle"
    /\ UNCHANGED <<stopFlag, received, reported, agentVars, wireVars, crashes,
                   kind>>

ConnectResult ==
    /\ running /\ resPc = "down"
    /\ resPc' = "idle"
    /\ UNCHANGED <<simQ, simXA, stopFlag, received, reported, agentVars,
                   wireVars, faultVars>>

Carrier ==
    \/ SimSendsResult
    \/ SimThrowsAway
    \/ SimStops
    \/ SimRefused
    \/ ConfirmResult
    \/ ConnectResult

-----------------------------------------------------------------------------
(* Faults                                                                  *)

Break(s) ==
    /\ FaultLeft /\ conn[s]
    /\ breaks' = breaks + 1
    /\ Dropped(s)
    /\ UNCHANGED <<agentVars, crashes, kind>>

(* A handler that ends cancels nothing: its XA stays open on the queue     *)
(* object that the next one shares.  An idle one may just have read.       *)
SimXALeft ==
    simXA' \in {simXA, simXA \/ (resPc = "idle" /\ simQ' # <<>>)}

(* The carrier's handler clears stopFlag when it ends, for whatever reason. *)
BreakResult ==
    /\ FaultLeft /\ resPc # "down"
    /\ breaks' = breaks + 1
    /\ resPc' = "down" /\ stopFlag' = FALSE
    /\ UNCHANGED <<simQ, received, reported, agentVars, wireVars, crashes, kind>>
    /\ SimXALeft

(* The process ends anywhere, System.exit() of the result thread included. *)
(* The agent's own XA is undone with it, the files stay.                   *)
Crash ==
    /\ FaultLeft /\ running
    /\ running' = FALSE
    /\ crashes' = crashes + 1
    /\ xa' = {}
    /\ pc' = [s \in Sender |-> "connect"]
    /\ hand' = [s \in Sender |-> NoMsg]
    /\ conn' = [s \in Sender |-> FALSE]
    /\ toAgent' = [s \in Sender |-> <<>>]
    /\ resPc' = "down"
    /\ \E n \in [Sender -> 0..(NumMsgs + 1)]:
          /\ \A s \in Sender: n[s] <= Len(toSim[s])
          /\ \E fs \in Arrivals(n): Taken(fs)
          /\ LET kept == stopFlag /\ resPc = "down"
             IN  stopFlag' \in {kept, kept \/ \E s \in Sender: n[s] > 0}
    /\ SimXALeft
    /\ toSim' = [s \in Sender |-> <<>>]
    /\ UNCHANGED <<request, file, unsaved, recovered, reported, breaks,
                   kind>>

Restart ==
    /\ ~running
    /\ running' = TRUE
    /\ UNCHANGED <<request, xa, pc, hand, file, unsaved, recovered, wireVars,
                   simVars, faultVars>>

Faults ==
    \/ \E s \in Sender: Break(s) \/ BackupFails(s) \/ CommitFails(s) \/ QueueFails(s)
    \/ BreakResult
    \/ Crash

-----------------------------------------------------------------------------
MyInit ==
    /\ kind \in Kinds
    /\ running = TRUE
    /\ request = [i \in Msg |-> i]
    /\ xa = {}
    /\ pc = [s \in Sender |-> "connect"]
    /\ hand = [s \in Sender |-> NoMsg]
    /\ conn = [s \in Sender |-> FALSE]
    /\ toSim = [s \in Sender |-> <<>>]
    /\ toAgent = [s \in Sender |-> <<>>]
    /\ file = [s \in Sender |-> <<>>]
    /\ simQ = <<>> /\ simXA = FALSE
    /\ stopFlag = FALSE
    /\ resPc = "down"
    /\ received = [m \in Msg |-> 0]
    /\ reported = {}
    /\ breaks = 0 /\ crashes = 0
    /\ recovered = FALSE
    /\ unsaved = {}

MyNext ==
    \/ \E s \in Sender: processMessageThread(s) \/ SimTakes(s)
    \/ Carrier
    \/ Faults
    \/ Restart

MySpec == MyInit /\ [][MyNext]_myVars

-----------------------------------------------------------------------------
(* As long as no backup file had to be sent again, no valid message is     *)
(* lost, whatever breaks: it is still in the request queue, in the backup  *)
(* file of a thread, or the carrier has it.  ("The commit was performed    *)
(* immediately" since "the message was securely stored"; a message whose   *)
(* backup could not be written is the exception.)  Once a file has been    *)
(* sent again this no longer holds: see the README.                        *)
NothingLostBeforeRecovery ==
    ~recovered =>
        \A m \in Msg: kind[m] = "valid" /\ m \notin unsaved =>
            \/ m \in ToSet(request)
            \/ \E s \in Sender: m \in ToSet(file[s])
            \/ received[m] > 0

(* The carrier gets a message once and once more for everything that has   *)
(* failed: a connection, a call of a queue, a commit or a backup whose     *)
(* failure nobody notices; and once per thread for each crash.             *)
RepeatsArePaidByFaults ==
    \A m \in Msg: received[m] <= 1 + breaks + Cardinality(Sender) * crashes

(* What the carrier has taken is reported or still first in a frame of the *)
(* carrier's queue: neither an XA that ends with its connection, nor one   *)
(* left open to the next handler, nor a commit that fails takes a message  *)
(* away before its result is in the result queue.                          *)
ReceivedIsNeverLost ==
    \A m \in Msg: received[m] > 0 /\ kind[m] # "invalid" =>
        m \in reported \/ \E i \in 1..Len(simQ): Head(simQ[i]) = m
=============================================================================
