------------------------------ MODULE Monitor ------------------------------
(* The queue monitor (monitor.c): one mon_thread() per queue copies        *)
(* counters of the mapped header into Qs[], main_thread() draws them once  *)
(* a second, waiting_key_thread() serves the keyboard.  A global mutex     *)
(* keeps the two drawing threads apart; each Qs[i] has a mutex of its own, *)
(* which only its mon_thread ever takes and which is left out for that.    *)
(* Lines, columns and colours are left out: nothing reads the screen back. *)
EXTENDS VirtualGw

Nobody == "nobody"
NoKey == [does |-> "nothing", at |-> 0]

(* A hotkey names an index of Qs[], also one that no queue was opened for. *)
HotKey == [does: {"detail"}, at: 1..(NumQueues + 1)]
Key == HotKey \cup [does: {"quit", "help", "other"}, at: {0}]

VARIABLES
    proc,      \* the process: up, ended by exit(), or crashed
    Qs,        \* Qs[q]: what mon_thread has copied
    obj,       \* Qs[q].obj: none (NULL), open, or closed and NULL again
    monPc,     \* the mon_thread of each queue
    mainPc,    \* main_thread()
    index,     \* the queue it opens, draws or closes next
    keyPc,     \* waiting_key_thread()
    key,       \* the key it has read
    mutex,     \* the thread that holds the global mutex
    quitFlag,  \* user_quit_flag
    logOpen,   \* the file logger of main_thread(), used by all mon_threads
    counted    \* sums of all rates ever computed (history)

procVars == <<mainPc, index, keyPc, key, mutex, quitFlag, logOpen>>
monVars == <<proc, Qs, obj, monPc, mainPc, index, keyPc, key, mutex, quitFlag,
             logOpen, counted>>
toolVars == <<gwVars, monVars>>

Side == {"en", "de"}

(* Queues_t: the rate, the count it starts from, the total.                *)
init_Qs == LET zero == [s \in Side |-> 0]
           IN  [tps |-> zero, before |-> zero, sum |-> zero]

(* The globals and main().                                                 *)
MonInit ==
    /\ proc = "up"
    /\ Qs = [q \in Queue |-> init_Qs]
    /\ obj = [q \in Queue |-> "none"]
    /\ monPc = [q \in Queue |-> "none"]
    /\ mainPc = "load"
    /\ index = 1
    /\ keyPc = "getch" /\ key = NoKey
    /\ mutex = Nobody
    /\ quitFlag = FALSE
    /\ logOpen = TRUE
    /\ counted = [q \in Queue |-> [s \in Side |-> 0]]

(* The end of the process, from whichever thread: its memory is gone.      *)
ProcessEnds(how) ==
    /\ proc' = how
    /\ Qs' = [q \in Queue |-> init_Qs]
    /\ obj' = [q \in Queue |-> "none"]
    /\ monPc' = [q \in Queue |-> "none"]
    /\ mainPc' = "gone" /\ index' = 1
    /\ keyPc' = "gone" /\ key' = NoKey
    /\ mutex' = Nobody
    /\ quitFlag' = FALSE
    /\ logOpen' = FALSE
    /\ counted' = [q \in Queue |-> [s \in Side |-> 0]]
    /\ UNCHANGED gwVars

-----------------------------------------------------------------------------
(* mon_thread                                                              *)

MonReads(q) == monPc[q] \in {"en_tps", "en_before", "de_tps", "de_before",
                             "en_sum", "de_sum"}

(* The head of the loop.  A thread that sees the flag writes a last line   *)
(* to the logger, which main_thread may have closed.                       *)
MonChecksFlag(q) ==
    /\ proc = "up" /\ monPc[q] = "check"
    /\ \/ /\ monPc' = [monPc EXCEPT ![q] = IF quitFlag THEN "gone" ELSE "en_tps"]
          /\ UNCHANGED <<proc, Qs, obj, procVars, counted, gwVars>>
       \/ quitFlag /\ ~logOpen /\ ProcessEnds("crashed")

(* Fault: the rate is counted from the first value seen.                   *)
MonKeepsBefore(q, side, here, next) ==
    /\ proc = "up" /\ monPc[q] = here /\ obj[q] = "open"
    /\ Qs' = [Qs EXCEPT ![q].before[side] =
                  IF @ = 0 THEN head[q][side] ELSE @]
    /\ monPc' = [monPc EXCEPT ![q] = next]
    /\ UNCHANGED <<proc, obj, procVars, counted, gwVars>>

(* before_en or before_de is read from the header, after the rate.         *)
MonReadsBefore(q, side, here, next) ==
    /\ proc = "up" /\ monPc[q] = here /\ obj[q] = "open"
    /\ Qs' = [Qs EXCEPT ![q].before[side] = head[q][side]]
    /\ monPc' = [monPc EXCEPT ![q] = next]
    /\ UNCHANGED <<proc, obj, procVars, counted, gwVars>>

(* The rate is what came since the last pass, or 0 while nothing was seen. *)
MonReadsTps(q, side, here, next) ==
    LET last == Qs[q].before[side]
        rate == IF last > 0 THEN head[q][side] - last ELSE 0
    IN  /\ proc = "up" /\ monPc[q] = here /\ obj[q] = "open"
        /\ Qs' = [Qs EXCEPT ![q].tps[side] = rate]
        /\ counted' = [counted EXCEPT ![q][side] = @ + rate]
        /\ monPc' = [monPc EXCEPT ![q] = next]
        /\ UNCHANGED <<proc, obj, procVars, gwVars>>

MonReadsSum(q, side, here, next) ==
    /\ proc = "up" /\ monPc[q] = here /\ obj[q] = "open"
    /\ Qs' = [Qs EXCEPT ![q].sum[side] = head[q][side]]
    /\ monPc' = [monPc EXCEPT ![q] = next]
    /\ UNCHANGED <<proc, obj, procVars, counted, gwVars>>

(* main_thread has closed the queue under a thread that is reading it: the *)
(* mapping is gone and the object freed.  The process dies of it, or reads *)
(* values that nobody will draw.                                           *)
MonReadsClosed(q) ==
    /\ proc = "up" /\ MonReads(q) /\ obj[q] = "closed"
    /\ \/ ProcessEnds("crashed")
       \/ /\ monPc' = [monPc EXCEPT ![q] = "check"]
          /\ UNCHANGED <<proc, Qs, obj, procVars, counted, gwVars>>

MonThread(q) ==
    \/ MonChecksFlag(q)
    \/ MonReadsTps(q, "en", "en_tps", "en_before")
    \/ MonReadsBefore(q, "en", "en_before", "de_tps")
    \/ MonReadsTps(q, "de", "de_tps", "de_before")
    \/ MonReadsBefore(q, "de", "de_before", "en_sum")
    \/ MonReadsSum(q, "en", "en_sum", "de_sum")
    \/ MonReadsSum(q, "de", "de_sum", "check")
    \/ MonReadsClosed(q)

-----------------------------------------------------------------------------
(* main_thread                                                             *)

(* The logger and the list of queues, which may not be there.              *)
MainLoadsContainer ==
    /\ proc = "up" /\ mainPc = "load"
    /\ mainPc' \in {"open", "stop"}
    /\ UNCHANGED <<proc, Qs, obj, monPc, index, keyPc, key, mutex, quitFlag,
                   logOpen, counted, gwVars>>

MainOpensQueue ==
    /\ proc = "up" /\ mainPc = "open" /\ index \in Queue
    /\ obj' = [obj EXCEPT ![index] = "open"]
    /\ monPc' = [monPc EXCEPT ![index] = "check"]
    /\ index' = index + 1
    /\ UNCHANGED <<proc, Qs, mainPc, keyPc, key, mutex, quitFlag, logOpen,
                   counted, gwVars>>

(* One queue cannot be opened: the others stay open, the program ends.     *)
MainCannotOpen ==
    /\ proc = "up" /\ mainPc = "open" /\ index \in Queue
    /\ mainPc' = "stop"
    /\ UNCHANGED <<proc, Qs, obj, monPc, index, keyPc, key, mutex, quitFlag,
                   logOpen, counted, gwVars>>

MainStartsLoop ==
    /\ proc = "up" /\ mainPc = "open" /\ index \notin Queue
    /\ mainPc' = "loop"
    /\ UNCHANGED <<proc, Qs, obj, monPc, index, keyPc, key, mutex, quitFlag,
                   logOpen, counted, gwVars>>

MainSeesFlag ==
    /\ proc = "up" /\ mainPc = "loop" /\ quitFlag
    /\ mainPc' = "close" /\ index' = 1
    /\ UNCHANGED <<proc, Qs, obj, monPc, keyPc, key, mutex, quitFlag, logOpen,
                   counted, gwVars>>

MainChecksFlag ==
    /\ proc = "up" /\ mainPc = "loop" /\ ~quitFlag
    /\ mainPc' = "lock" /\ index' = 1
    /\ UNCHANGED <<proc, Qs, obj, monPc, keyPc, key, mutex, quitFlag, logOpen,
                   counted, gwVars>>

MainLocks ==
    /\ proc = "up" /\ mainPc = "lock" /\ mutex = Nobody
    /\ mutex' = "main"
    /\ mainPc' = "draw"
    /\ UNCHANGED <<proc, Qs, obj, monPc, index, keyPc, key, quitFlag, logOpen,
                   counted, gwVars>>

(* One line of the table, from Qs[index] as it is, without its mutex.      *)
MainDrawsQueue ==
    /\ proc = "up" /\ mainPc = "draw" /\ index \in Queue /\ obj[index] = "open"
    /\ index' = index + 1
    /\ UNCHANGED <<proc, Qs, obj, monPc, mainPc, keyPc, key, mutex, quitFlag,
                   logOpen, counted, gwVars>>

(* Fault: the frame is refreshed and the mutex kept.                       *)
MainKeepsMutex ==
    /\ proc = "up" /\ mainPc = "draw" /\ index \notin Queue
    /\ mainPc' = "loop"
    /\ UNCHANGED <<proc, Qs, obj, monPc, index, keyPc, key, mutex, quitFlag,
                   logOpen, counted, gwVars>>

(* refresh(), unlock, and a second of sleep without the mutex.             *)
MainUnlocks ==
    /\ proc = "up" /\ mainPc = "draw" /\ index \notin Queue
    /\ mutex' = Nobody
    /\ mainPc' = "loop"
    /\ UNCHANGED <<proc, Qs, obj, monPc, index, keyPc, key, quitFlag, logOpen,
                   counted, gwVars>>

MainClosesQueue ==
    /\ proc = "up" /\ mainPc = "close" /\ index \in Queue
    /\ obj' = [obj EXCEPT ![index] = "closed"]
    /\ index' = index + 1
    /\ UNCHANGED <<proc, Qs, monPc, mainPc, keyPc, key, mutex, quitFlag,
                   logOpen, counted, gwVars>>

MainClosesLogger ==
    /\ proc = "up" /\ mainPc = "close" /\ index \notin Queue
    /\ logOpen' = FALSE
    /\ mainPc' = "stop"
    /\ UNCHANGED <<proc, Qs, obj, monPc, index, keyPc, key, mutex, quitFlag,
                   counted, gwVars>>

(* The label stop: after a quit the thread ends, otherwise the user is     *)
(* told to press a key.                                                    *)
MainStops ==
    /\ proc = "up" /\ mainPc = "stop"
    /\ mainPc' = IF quitFlag THEN "gone" ELSE "fatal"
    /\ UNCHANGED <<proc, Qs, obj, monPc, index, keyPc, key, mutex, quitFlag,
                   logOpen, counted, gwVars>>

(* That key arrives here and not in waiting_key_thread().                  *)
MainFatalKey ==
    /\ proc = "up" /\ mainPc = "fatal"
    /\ ProcessEnds("ended")

MainThread ==
    \/ MainLoadsContainer
    \/ MainOpensQueue
    \/ MainCannotOpen
    \/ MainStartsLoop
    \/ MainSeesFlag
    \/ MainChecksFlag
    \/ MainLocks
    \/ MainDrawsQueue
    \/ MainUnlocks
    \/ MainClosesQueue
    \/ MainClosesLogger
    \/ MainStops

-----------------------------------------------------------------------------
(* waiting_key_thread                                                      *)

KeyPressed ==
    /\ proc = "up" /\ keyPc = "getch"
    /\ key' \in Key
    /\ keyPc' = "got"
    /\ UNCHANGED <<proc, Qs, obj, monPc, mainPc, index, mutex, quitFlag,
                   logOpen, counted, gwVars>>

(* 'q': flag, unlock, one second of sleep.                                 *)
KeyQuits ==
    /\ proc = "up" /\ keyPc = "got" /\ key.does = "quit" /\ mutex = Nobody
    /\ quitFlag' = TRUE
    /\ keyPc' = "quitting"
    /\ UNCHANGED <<proc, Qs, obj, monPc, mainPc, index, key, mutex, logOpen,
                   counted, gwVars>>

(* help() and detail_view() wait for a key with the mutex held.            *)
KeyOpensPage ==
    /\ proc = "up" /\ keyPc = "got" /\ mutex = Nobody
    /\ \/ key.does = "help"
       \/ key.at \in Queue /\ obj[key.at] = "open"
    /\ mutex' = "key"
    /\ keyPc' = "page"
    /\ UNCHANGED <<proc, Qs, obj, monPc, mainPc, index, key, quitFlag, logOpen,
                   counted, gwVars>>

(* detail_view() of an index without a queue follows a null pointer.       *)
KeyHasNoQueue ==
    /\ proc = "up" /\ keyPc = "got" /\ mutex = Nobody
    /\ key \in HotKey
    /\ key.at \in Queue => obj[key.at] # "open"
    /\ ProcessEnds("crashed")

KeyLeavesPage ==
    /\ proc = "up" /\ keyPc = "page"
    /\ mutex' = Nobody
    /\ keyPc' = "getch" /\ key' = NoKey
    /\ UNCHANGED <<proc, Qs, obj, monPc, mainPc, index, quitFlag, logOpen,
                   counted, gwVars>>

(* 'r' clears the screen, any other key is reported: lock, draw, unlock.   *)
KeyIsDrawn ==
    /\ proc = "up" /\ keyPc = "got" /\ key.does = "other" /\ mutex = Nobody
    /\ keyPc' = "getch" /\ key' = NoKey
    /\ UNCHANGED <<proc, Qs, obj, monPc, mainPc, index, mutex, quitFlag,
                   logOpen, counted, gwVars>>

KeyExits ==
    /\ proc = "up" /\ keyPc = "quitting"
    /\ ProcessEnds("ended")

KeyLocks == KeyQuits \/ KeyOpensPage \/ KeyHasNoQueue \/ KeyIsDrawn

KeyThread == KeyPressed \/ KeyLocks \/ KeyLeavesPage \/ KeyExits

-----------------------------------------------------------------------------
MonitorNext ==
    \/ \E q \in Queue: MonThread(q)
    \/ MainThread
    \/ MainFatalKey
    \/ KeyThread

ToolsInit == GwInit /\ MonInit

ToolsNext ==
    \/ MonitorNext
    \/ GwNext /\ UNCHANGED monVars

ToolsSpec == ToolsInit /\ [][ToolsNext]_toolVars

(* The threads of the monitor run.  main_thread sleeps for a second after  *)
(* each unlock, so that a key thread waiting for the mutex gets it: strong *)
(* fairness for taking the mutex, and none for what the user does.         *)
MonFairness ==
    /\ WF_toolVars(MainThread)
    /\ SF_toolVars(KeyLocks)
    /\ WF_toolVars(KeyExits)

-----------------------------------------------------------------------------
(* No message is counted twice in the rates: what all passes together have *)
(* shown per second is at most the last value read, which is at most the   *)
(* counter in the header; and after a pass the shown total is not behind   *)
(* the value its rate was computed for.  (Messages between the two reads   *)
(* of a pass are in no rate at all.)                                       *)
RatesNeverOvercount ==
    \A q \in Queue, s \in Side:
        /\ counted[q][s] <= head[q][s]
        /\ Qs[q].before[s] <= head[q][s]
        /\ Qs[q].sum[s] <= head[q][s]
        /\ monPc[q] = "check" /\ obj[q] = "open" =>
              /\ counted[q][s] <= Qs[q].before[s]
              /\ Qs[q].before[s] <= Qs[q].sum[s]

(* Every key that was read takes effect although the drawing thread and    *)
(* the key thread compete for the mutex, and 'q' ends the process.         *)
KeysAreHandled ==
    keyPc \in {"got", "quitting"} ~> keyPc \in {"getch", "page", "gone"}
=============================================================================
