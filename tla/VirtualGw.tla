----------------------------- MODULE VirtualGw -----------------------------
(* virtual_gw, the load generator: it reads two configuration files, opens *)
(* one file queue and enqueues TEST_COUNT messages made from a template.   *)
(* The queue itself is the FileQueue library and external; what all its    *)
(* processes share is the mapped header, of which the counters of messages *)
(* put in (en_sum) and taken out (de_sum) are kept here.  They are also    *)
(* what the monitor shows (module Monitor).                                *)
EXTENDS Naturals, FiniteSets

CONSTANTS
    NumQueues,  \* the file queues of the installation
    GwQueue,    \* the one virtual_gw writes to
    TestCount,  \* TEST_COUNT of its configuration
    Capacity    \* max_rec_cnt of every queue

Queue == 1..NumQueues

ASSUME VirtualGwAssumption ==
    /\ NumQueues \in Nat \ {0}
    /\ GwQueue \in Queue
    /\ TestCount \in Nat
    /\ Capacity \in Nat \ {0}

VARIABLES
    head,   \* head[q]: the counters in the mapped header of queue q
    gwPc,   \* where main() is
    gwIter  \* i of its loop

gwVars == <<head, gwPc, gwIter>>

InQueue(q) == head[q].en - head[q].de

-----------------------------------------------------------------------------
(* Each of the two configurations has all its settings, or main() returns  *)
(* -1 before anything was opened.                                          *)
Load_ums_common_conf ==
    /\ gwPc = "start"
    /\ gwPc' \in {"conf", "failed"}
    /\ UNCHANGED <<head, gwIter>>

LoadConf ==
    /\ gwPc = "conf"
    /\ gwPc' \in {"open", "failed"}
    /\ UNCHANGED <<head, gwIter>>

(* Logger, queue and template; CHECK() ends the process.                   *)
GwOpens ==
    /\ gwPc = "open"
    /\ gwPc' \in {"loop", "failed"}
    /\ UNCHANGED <<head, gwIter>>

(* The head of the loop, and the message made by gssi_proc().              *)
GwComposes ==
    /\ gwPc = "loop"
    /\ gwPc' \in IF gwIter < TestCount THEN {"enq", "failed"} ELSE {"done"}
    /\ UNCHANGED <<head, gwIter>>

GwEnqueues ==
    /\ gwPc = "enq"
    /\ InQueue(GwQueue) < Capacity
    /\ head' = [head EXCEPT ![GwQueue].en = @ + 1]
    /\ gwIter' = gwIter + 1
    /\ gwPc' = "loop"

(* Fault: uchar_enQ() hands "full" up to main(), whose branch for it goes  *)
(* on with the next message.                                               *)
GwFullReturned ==
    /\ gwPc = "enq"
    /\ InQueue(GwQueue) = Capacity
    /\ gwIter' = gwIter + 1
    /\ gwPc' = "loop"
    /\ UNCHANGED head

(* EQ_FULL_RETURN_VALUE: uchar_enQ() sleeps and tries the same message     *)
(* again; main() never sees it, so its own branch for 0 is dead.           *)
GwFull ==
    /\ gwPc = "enq"
    /\ InQueue(GwQueue) = Capacity
    /\ gwPc' = "full"
    /\ UNCHANGED <<head, gwIter>>

GwRetries ==
    /\ gwPc = "full"
    /\ gwPc' = "enq"
    /\ UNCHANGED <<head, gwIter>>

(* on_en() fails, for instance because a manager disabled the queue: the   *)
(* loop ends and main() returns 0 all the same.                            *)
GwBreaks ==
    /\ gwPc = "enq"
    /\ gwPc' = "broken"
    /\ UNCHANGED <<head, gwIter>>

(* Some other process dequeues.                                            *)
Consume(q) ==
    /\ InQueue(q) > 0
    /\ head' = [head EXCEPT ![q].de = @ + 1]
    /\ UNCHANGED <<gwPc, gwIter>>

GwInit ==
    /\ head = [q \in Queue |-> [en |-> 0, de |-> 0]]
    /\ gwPc = "start"
    /\ gwIter = 0

Gateway ==
    \/ Load_ums_common_conf
    \/ LoadConf
    \/ GwOpens
    \/ GwComposes
    \/ GwEnqueues
    \/ GwFull
    \/ GwRetries
    \/ GwBreaks

GwNext == Gateway \/ \E q \in Queue: Consume(q)

-----------------------------------------------------------------------------
(* A full queue delays the generator but costs no message: every iteration *)
(* that is over put one message into the queue, so that a run that ends    *)
(* regularly has enqueued all TEST_COUNT of them, and a run that breaks    *)
(* off exactly those before the failure.                                   *)
FullCostsNoMessage ==
    /\ head[GwQueue].en = gwIter
    /\ gwPc = "done" => gwIter = TestCount
=============================================================================
