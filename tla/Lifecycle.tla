------------------------------ MODULE Lifecycle ------------------------------
(***************************************************************************)
(* Start and stop of the orchestrator's threads.  main() creates the       *)
(* manage and the update thread and shares one word with each: the thread  *)
(* drives its state machine with it (0 setup, 1 running, -1 stop asked,    *)
(* -2, -99 stopping) and main() writes -1 to it to stop the thread.  Both  *)
(* sides read the word in one step and write it in another.  The manage    *)
(* thread owns the fTrace threads, the update thread the Docker link       *)
(* (module DockerLink; here only whether it runs).  All but the Docker     *)
(* link take dataMutex for their work on the node list.                    *)
(***************************************************************************)
EXTENDS Integers, Sequences, FiniteSets

CONSTANTS
  Cpus,               \* CPUs with a tracing thread
  Ftrace,             \* prgset->ftrace at the start
  Runtime,            \* prgset->runtime is set: the update thread ends the run
  Faults,             \* system calls that may fail
  DataFlows           \* environment: every trace pipe has data again and again

ASSUME LifecycleAssumption ==
  /\ IsFiniteSet(Cpus) /\ {Ftrace, Runtime, DataFlows} \subseteq BOOLEAN
  /\ Faults \subseteq {"create", "clock", "config", "trace", "open"}
  /\ Cpus \cap {"free", "manage", "update"} = {}

VARIABLES
  t_stat1, t_stat2,   \* the words of the manage and of the update thread
  mpc, gpc, upc,      \* positions of main(), thread_manage(), thread_update()
  main_stop,          \* set by inthand()
  armed,              \* main() has installed inthand()
  killed,             \* a signal found no handler and ended the process
  mutex,              \* owner of dataMutex
  ftrace,             \* prgset->ftrace
  elist_thead,        \* the list of tracing threads, last created first
  trace,              \* position of each tracing thread
  ftrace_stop,        \* set by ftrace_inthand()
  quitarmed,          \* a tracing thread has installed ftrace_inthand()
  dlink,              \* the Docker link thread
  stop                \* local of thread_update(): SIGTERM was raised

words   == <<t_stat1, t_stat2>>
signals == <<main_stop, armed, killed>>
tracers == <<ftrace, elist_thead, trace, ftrace_stop, quitarmed>>
vars    == <<words, mpc, gpc, upc, signals, mutex, tracers, dlink, stop>>

Init ==
  /\ t_stat1 = 0 /\ t_stat2 = 0
  /\ mpc = "create1" /\ gpc = "none" /\ upc = "none"
  /\ main_stop = 0 /\ armed = 0 /\ killed = 0
  /\ mutex = "free"
  /\ ftrace = IF Ftrace THEN 1 ELSE 0
  /\ elist_thead = <<>> /\ trace = [c \in Cpus |-> "none"]
  /\ ftrace_stop = 0 /\ quitarmed = 0
  /\ dlink = "off" /\ stop = 0

Alive == killed = 0
MayFail(call) == call \in Faults

-----------------------------------------------------------------------------
(* main() *)

mainframe == <<gpc, upc, mutex, tracers, dlink, stop>>

CreateManage ==
  /\ Alive /\ mpc = "create1" /\ mpc' = "create2"
  /\ \/ gpc' = "clock" /\ t_stat1' = t_stat1
     \/ MayFail("create") /\ gpc' = gpc /\ t_stat1' = -1
  /\ UNCHANGED <<t_stat2, upc, signals, mutex, tracers, dlink, stop>>

CreateUpdate ==
  /\ Alive /\ mpc = "create2" /\ mpc' = "handlers"
  /\ \/ upc' = "clock" /\ t_stat2' = t_stat2
     \/ MayFail("create") /\ upc' = upc /\ t_stat2' = -1
  /\ UNCHANGED <<t_stat1, gpc, signals, mutex, tracers, dlink, stop>>

InstallHandlers ==
  /\ Alive /\ mpc = "handlers" /\ mpc' = "loop" /\ armed' = 1
  /\ UNCHANGED <<words, main_stop, killed, mainframe>>

(* The loop test, a read at a time; between two rounds main() sleeps. *)
LoopTest ==
  /\ Alive
  /\ \/ mpc = "loop" /\ main_stop = 1 /\ mpc' = "test1"
     \/ mpc = "loop" /\ main_stop = 0 /\ t_stat1 <= -1 /\ mpc' = "loop2"
     \/ mpc = "loop2" /\ mpc' = IF t_stat2 <= -1 THEN "test1" ELSE "loop"
  /\ UNCHANGED <<words, signals, mainframe>>

(* "only if not already done internally": the test, then the write. *)
StopTest ==
  /\ Alive
  /\ \/ mpc = "test1" /\ mpc' = IF -1 < t_stat1 THEN "write1" ELSE "test2"
     \/ mpc = "test2" /\ mpc' = IF -1 < t_stat2 THEN "write2" ELSE "join1"
  /\ UNCHANGED <<words, signals, mainframe>>

StopWrite ==
  /\ Alive
  /\ \/ mpc = "write1" /\ mpc' = "test2" /\ t_stat1' = -1 /\ t_stat2' = t_stat2
     \/ mpc = "write2" /\ mpc' = "join1" /\ t_stat2' = -1 /\ t_stat1' = t_stat1
  /\ UNCHANGED <<signals, mainframe>>

Ended(pc) == pc \in {"none", "gone"}

Join_first ==
  /\ Alive
  /\ \/ mpc = "join1" /\ Ended(gpc) /\ mpc' = "cleanup"
     \/ mpc = "join2" /\ Ended(upc) /\ mpc' = "cleanup"
  /\ UNCHANGED <<words, signals, mainframe>>

Join ==
  /\ Alive
  /\ \/ mpc = "join1" /\ Ended(gpc) /\ mpc' = "join2"
     \/ mpc = "join2" /\ Ended(upc) /\ mpc' = "cleanup"
  /\ UNCHANGED <<words, signals, mainframe>>

Cleanup ==
  /\ Alive /\ mpc = "cleanup" /\ mpc' = "done"
  /\ UNCHANGED <<words, signals, mainframe>>

Main == \/ CreateManage \/ CreateUpdate \/ InstallHandlers \/ LoopTest
        \/ StopTest \/ StopWrite \/ Join \/ Cleanup

(* SIGINT or SIGTERM, from outside or by raise(): inthand() if main() has  *)
(* got that far, else the default, the end of the process.                 *)
Terminate ==
  /\ IF armed = 1 THEN main_stop' = 1 /\ killed' = killed
                  ELSE killed' = 1 /\ main_stop' = main_stop
  /\ armed' = armed

UserStop ==
  /\ Alive /\ mpc # "done" /\ main_stop = 0 /\ Terminate
  /\ UNCHANGED <<words, mpc, mainframe>>

-----------------------------------------------------------------------------
(* thread_manage() *)

manageframe == <<t_stat2, mpc, upc, dlink, stop>>

(* The clock is read before the loop; a failure asks for the thread's end. *)
ManageClock ==
  /\ Alive /\ gpc = "clock" /\ gpc' = "switch"
  /\ t_stat1' \in {t_stat1} \cup (IF MayFail("clock") THEN {-1} ELSE {})
  /\ UNCHANGED <<signals, mutex, tracers, manageframe>>

ManageSwitch ==
  /\ Alive /\ gpc = "switch"
  /\ gpc' = CASE t_stat1 = 0  -> "setup"
              [] t_stat1 = 1  -> "stats"
              [] t_stat1 = -1 -> "stopping"
              [] t_stat1 = -2 -> "halt"
              [] OTHER        -> "tail"
  /\ UNCHANGED <<t_stat1, signals, mutex, tracers, manageframe>>

ManageSetup ==
  /\ Alive /\ gpc = "setup" /\ t_stat1' = 1
  /\ gpc' = IF ftrace = 1 THEN "configure" ELSE "stats"
  /\ UNCHANGED <<signals, mutex, tracers, manageframe>>

(* configureTracers(); without the kernel's tracers the thread goes on. *)
Configure ==
  /\ Alive /\ gpc = "configure"
  /\ \/ gpc' = "start" /\ ftrace' = ftrace
     \/ MayFail("config") /\ gpc' = "stats" /\ ftrace' = 0
  /\ UNCHANGED <<t_stat1, signals, mutex, elist_thead, trace, ftrace_stop, quitarmed, manageframe>>

(* startTraceRead(): one thread after the other, failed ones stay listed. *)
StartTrace ==
  /\ Alive /\ gpc = "start"
  /\ \E c \in Cpus :
       /\ trace[c] = "none"
       /\ elist_thead' = <<c>> \o elist_thead
       /\ \/ trace' = [trace EXCEPT ![c] = "handler"]
          \/ MayFail("trace") /\ trace' = [trace EXCEPT ![c] = "failed"]
  /\ UNCHANGED <<t_stat1, gpc, signals, mutex, ftrace, ftrace_stop, quitarmed, manageframe>>

TraceStarted ==
  /\ Alive /\ gpc = "start" /\ \A c \in Cpus : trace[c] # "none"
  /\ gpc' = IF \E c \in Cpus : trace[c] = "failed" THEN "raise" ELSE "stats"
  /\ UNCHANGED <<t_stat1, signals, mutex, tracers, manageframe>>

ManageRaise ==
  /\ Alive /\ gpc = "raise" /\ gpc' = "stats" /\ Terminate
  /\ UNCHANGED <<t_stat1, mutex, tracers, manageframe>>

(* updateStats() and manageSched(), under dataMutex; the latter only now   *)
(* and then.                                                               *)
ManageLock ==
  /\ Alive /\ mutex = "free" /\ mutex' = "manage"
  /\ \/ gpc = "stats" /\ gpc' = "stats_locked"
     \/ gpc = "sched" /\ gpc' = "sched_locked"
  /\ UNCHANGED <<t_stat1, signals, tracers, manageframe>>

ManageUnlock ==
  /\ Alive /\ mutex' = "free"
  /\ \/ gpc = "stats_locked" /\ gpc' \in {"tail", "rewrite"}
     \/ gpc = "sched_locked" /\ gpc' = "tail"
  /\ UNCHANGED <<t_stat1, signals, tracers, manageframe>>

(* "case 2": the word is set to 1 whatever it holds by now. *)
Rewrite ==
  /\ Alive /\ gpc = "rewrite" /\ gpc' = "sched" /\ t_stat1' = 1
  /\ UNCHANGED <<signals, mutex, tracers, manageframe>>

ManageStopping ==
  /\ Alive /\ gpc = "stopping" /\ gpc' = "dump" /\ t_stat1' = -2
  /\ UNCHANGED <<signals, mutex, tracers, manageframe>>

DumpStats_keeplock ==
  /\ Alive /\ gpc = "dump" /\ mutex = "free" /\ gpc' = "halt" /\ mutex' = "manage"
  /\ UNCHANGED <<t_stat1, signals, tracers, manageframe>>

(* dumpStats() walks the node list without dataMutex. *)
DumpStats ==
  /\ Alive /\ gpc = "dump" /\ gpc' = "halt"
  /\ UNCHANGED <<t_stat1, signals, mutex, tracers, manageframe>>

ManageHalt_count ==
  /\ Alive /\ gpc = "halt" /\ t_stat1' = t_stat1 - 1
  /\ gpc' = IF ftrace = 1 THEN "kill" ELSE "tail"
  /\ UNCHANGED <<signals, mutex, tracers, manageframe>>

ManageHalt ==
  /\ Alive /\ gpc = "halt" /\ t_stat1' = -99
  /\ gpc' = IF ftrace = 1 THEN "kill" ELSE "tail"
  /\ UNCHANGED <<signals, mutex, tracers, manageframe>>

KillTrace_noflag ==
  /\ Alive /\ gpc = "kill" /\ elist_thead # <<>>
  /\ LET c == Head(elist_thead)
     IN  /\ trace[c] # "failed" /\ gpc' = "join"
         /\ trace' = [trace EXCEPT ![c] = IF @ = "read" THEN "check" ELSE @]
  /\ UNCHANGED <<t_stat1, signals, mutex, ftrace, elist_thead, ftrace_stop, quitarmed, manageframe>>

(* stopTraceRead().  A listed thread that was never started is left where  *)
(* it is and the loop starts over.  SIGQUIT interrupts a blocked read.     *)
KillTrace ==
  /\ Alive /\ gpc = "kill" /\ elist_thead # <<>>
  /\ LET c == Head(elist_thead)
     IN  /\ trace[c] # "failed"
         /\ gpc' = "join"
         /\ IF trace[c] = "gone" THEN UNCHANGED <<trace, ftrace_stop, killed>>
            ELSE IF quitarmed = 0 THEN killed' = 1 /\ UNCHANGED <<trace, ftrace_stop>>
            ELSE /\ ftrace_stop' = 1 /\ killed' = killed
                 /\ trace' = [trace EXCEPT ![c] = IF @ = "read" THEN "check" ELSE @]
  /\ UNCHANGED <<t_stat1, main_stop, armed, mutex, ftrace, elist_thead, quitarmed, manageframe>>

JoinTrace ==
  /\ Alive /\ gpc = "join" /\ trace[Head(elist_thead)] = "gone"
  /\ elist_thead' = Tail(elist_thead) /\ gpc' = "kill"
  /\ UNCHANGED <<t_stat1, signals, mutex, ftrace, trace, ftrace_stop, quitarmed, manageframe>>

(* The list is empty: resetTracers(). *)
TraceStopped ==
  /\ Alive /\ gpc = "kill" /\ elist_thead = <<>> /\ gpc' = "tail"
  /\ UNCHANGED <<t_stat1, signals, mutex, tracers, manageframe>>

ManageTail ==
  /\ Alive /\ gpc = "tail" /\ gpc' = IF t_stat1 = -99 THEN "gone" ELSE "switch"
  /\ UNCHANGED <<t_stat1, signals, mutex, tracers, manageframe>>

Manage == \/ ManageClock \/ ManageSwitch \/ ManageSetup \/ Configure \/ StartTrace
          \/ TraceStarted \/ ManageRaise \/ ManageUnlock \/ Rewrite \/ ManageStopping
          \/ DumpStats \/ ManageHalt \/ KillTrace \/ JoinTrace \/ TraceStopped \/ ManageTail

-----------------------------------------------------------------------------
(* thread_ftrace() on CPU c *)

traceframe == <<words, mpc, gpc, upc, signals, ftrace, elist_thead, dlink, stop>>

GoesTo(c, from, to) == trace[c] = from /\ trace' = [trace EXCEPT ![c] = to]

TraceHandler(c) ==
  /\ Alive /\ GoesTo(c, "handler", "open") /\ quitarmed' = 1
  /\ UNCHANGED <<mutex, ftrace_stop, traceframe>>

TraceOpen(c) ==
  /\ Alive
  /\ \/ GoesTo(c, "open", "check")
     \/ MayFail("open") /\ GoesTo(c, "open", "gone")
  /\ UNCHANGED <<mutex, ftrace_stop, quitarmed, traceframe>>

TraceCheck(c) ==
  /\ Alive /\ GoesTo(c, "check", IF ftrace_stop = 1 THEN "close" ELSE "enter")
  /\ UNCHANGED <<mutex, ftrace_stop, quitarmed, traceframe>>

(* Into fread(): only from here on does a signal interrupt it. *)
TraceEnter(c) ==
  /\ Alive /\ GoesTo(c, "enter", "read")
  /\ UNCHANGED <<mutex, ftrace_stop, quitarmed, traceframe>>

(* fread() returns with a page of events. *)
TraceData(c) ==
  /\ Alive /\ GoesTo(c, "read", "parse")
  /\ UNCHANGED <<mutex, ftrace_stop, quitarmed, traceframe>>

(* An event more: its handler takes dataMutex and gives it back. *)
TraceLock(c) ==
  /\ Alive /\ ftrace_stop = 0 /\ mutex = "free" /\ mutex' = c
  /\ GoesTo(c, "parse", "event")
  /\ UNCHANGED <<ftrace_stop, quitarmed, traceframe>>

TraceUnlock(c) ==
  /\ Alive /\ mutex' = "free" /\ GoesTo(c, "event", "parse")
  /\ UNCHANGED <<ftrace_stop, quitarmed, traceframe>>

TraceParsed(c) ==
  /\ Alive /\ GoesTo(c, "parse", "check")
  /\ UNCHANGED <<mutex, ftrace_stop, quitarmed, traceframe>>

TraceClose(c) ==
  /\ Alive /\ GoesTo(c, "close", "gone")
  /\ UNCHANGED <<mutex, ftrace_stop, quitarmed, traceframe>>

Trace(c) == \/ TraceHandler(c) \/ TraceOpen(c) \/ TraceCheck(c) \/ TraceEnter(c) \/ TraceLock(c)
            \/ TraceUnlock(c) \/ TraceParsed(c) \/ TraceClose(c)

-----------------------------------------------------------------------------
(* thread_update() *)

updateframe == <<t_stat1, mpc, gpc, tracers>>

UpdateClock ==
  /\ Alive /\ upc = "clock" /\ upc' = "switch"
  /\ t_stat2' \in {t_stat2} \cup (IF MayFail("clock") THEN {-1} ELSE {})
  /\ UNCHANGED <<signals, mutex, dlink, stop, updateframe>>

UpdateSwitch ==
  /\ Alive /\ upc = "switch"
  /\ upc' = CASE t_stat2 = 0  -> "setup"
              [] t_stat2 = 1  -> "docker"
              [] t_stat2 = -1 -> "stopping"
              [] t_stat2 = -2 -> "halt"
              [] OTHER        -> "tail"
  /\ UNCHANGED <<t_stat2, signals, mutex, dlink, stop, updateframe>>

UpdateSetup ==
  /\ Alive /\ upc = "setup" /\ upc' = "ticks" /\ t_stat2' = -1
  /\ UNCHANGED <<signals, mutex, dlink, stop, updateframe>>

(* sysconf() for the clock ticks, then startDockerThread(). *)
StartDlink ==
  /\ Alive /\ upc = "ticks"
  /\ \/ MayFail("clock") /\ upc' = "tail" /\ dlink' = dlink
     \/ MayFail("create") /\ upc' = "ready" /\ dlink' = dlink
     \/ upc' = "ready" /\ dlink' = "on"
  /\ UNCHANGED <<t_stat2, signals, mutex, stop, updateframe>>

UpdateReady ==
  /\ Alive /\ upc = "ready" /\ upc' = "docker" /\ t_stat2' = 1
  /\ UNCHANGED <<signals, mutex, dlink, stop, updateframe>>

(* updateDocker() ends in a scan if there was an event; after that, every  *)
(* loops-th round has a scan of its own.                                   *)
UpdateDocker ==
  /\ Alive
  /\ \/ upc = "docker" /\ dlink = "on" /\ upc' = "event"
     \/ upc \in {"docker", "round"} /\ upc' \in {"scan", "tail"}
  /\ UNCHANGED <<t_stat2, signals, mutex, dlink, stop, updateframe>>

ScanLock ==
  /\ Alive /\ mutex = "free" /\ mutex' = "update"
  /\ \/ upc = "event" /\ upc' = "event_locked"
     \/ upc = "scan"  /\ upc' = "scan_locked"
  /\ UNCHANGED <<t_stat2, signals, dlink, stop, updateframe>>

ScanUnlock ==
  /\ Alive /\ mutex' = "free"
  /\ \/ upc = "event_locked" /\ upc' = "round"
     \/ upc = "scan_locked"  /\ upc' = "tail"
  /\ UNCHANGED <<t_stat2, signals, dlink, stop, updateframe>>

UpdateStopping ==
  /\ Alive /\ upc = "stopping" /\ upc' = "halt" /\ t_stat2' = -2
  /\ UNCHANGED <<signals, mutex, dlink, stop, updateframe>>

UpdateHalt ==
  /\ Alive /\ upc = "halt" /\ t_stat2' = -99
  /\ upc' = IF dlink = "off" THEN "tail" ELSE "hup"
  /\ UNCHANGED <<signals, mutex, dlink, stop, updateframe>>

(* stopDockerThread(); that the link ends when told so is the matter of    *)
(* module DockerLink.  A signal to a thread that was joined before is      *)
(* undefined: it may end the process.                                      *)
Hup ==
  /\ Alive /\ upc = "hup" /\ upc' = "join"
  /\ dlink' = IF dlink = "on" THEN "told" ELSE dlink
  /\ killed' \in IF dlink = "gone" THEN {0, 1} ELSE {killed}
  /\ UNCHANGED <<t_stat2, main_stop, armed, mutex, stop, updateframe>>

DlinkEnds ==
  /\ Alive /\ dlink = "told" /\ dlink' = "gone"
  /\ UNCHANGED <<t_stat2, upc, signals, mutex, stop, updateframe>>

JoinDlink ==
  /\ Alive /\ upc = "join" /\ dlink = "gone" /\ upc' = "tail"
  /\ UNCHANGED <<t_stat2, signals, mutex, dlink, stop, updateframe>>

(* The end of the round: out, or sleep, look at the run time and go on.    *)
(* Left out is the error exit of pthread_yield(), which cannot fail on     *)
(* Linux (with the deadline policy it takes the place of the sleep).       *)
UpdateTail ==
  /\ Alive /\ upc = "tail"
  /\ IF t_stat2 = -99 THEN upc' = "gone" /\ UNCHANGED <<t_stat2, stop, signals>>
     ELSE /\ upc' = "switch"
          /\ t_stat2' \in {t_stat2} \cup (IF Runtime /\ MayFail("clock") THEN {-1} ELSE {})
          /\ \/ Runtime /\ stop = 0 /\ stop' = 1 /\ Terminate
             \/ UNCHANGED <<stop, signals>>
  /\ UNCHANGED <<mutex, dlink, updateframe>>

Update == \/ UpdateClock \/ UpdateSwitch \/ UpdateSetup \/ StartDlink \/ UpdateReady
          \/ UpdateDocker \/ ScanUnlock \/ UpdateStopping \/ UpdateHalt \/ Hup
          \/ JoinDlink \/ UpdateTail

-----------------------------------------------------------------------------
Next ==
  \/ Main \/ UserStop \/ Manage \/ ManageLock \/ Update \/ ScanLock \/ DlinkEnds
  \/ \E c \in Cpus : Trace(c) \/ TraceData(c)

Spec == Init /\ [][Next]_vars

(* Every thread runs on; a thread that wants dataMutex gets it in the end  *)
(* if it becomes free again and again.                                     *)
FairSpec ==
  /\ Spec
  /\ WF_vars(Main) /\ WF_vars(Manage) /\ WF_vars(Update) /\ WF_vars(DlinkEnds)
  /\ SF_vars(ManageLock) /\ SF_vars(ScanLock)
  /\ \A c \in Cpus : WF_vars(Trace(c)) /\ SF_vars(TraceParsed(c))
  /\ DataFlows => \A c \in Cpus : WF_vars(TraceData(c))

-----------------------------------------------------------------------------
Word == {-99, -2, -1, 0, 1}

(* The variables have their types. *)
TypeOK ==
  /\ t_stat1 \in Word /\ t_stat2 \in Word
  /\ mpc \in {"create1", "create2", "handlers", "loop", "loop2", "test1", "write1",
              "test2", "write2", "join1", "join2", "cleanup", "done"}
  /\ gpc \in {"none", "clock", "switch", "setup", "configure", "start", "raise", "stats",
              "stats_locked", "rewrite", "sched", "sched_locked", "stopping", "dump",
              "halt", "kill", "join", "tail", "gone"}
  /\ upc \in {"none", "clock", "switch", "setup", "ticks", "ready", "docker", "event",
              "event_locked", "round", "scan", "scan_locked", "stopping", "halt", "hup",
              "join", "tail", "gone"}
  /\ {main_stop, armed, killed, ftrace, ftrace_stop, quitarmed, stop} \subseteq {0, 1}
  /\ mutex \in {"free", "manage", "update"} \cup Cpus
  /\ elist_thead \in Seq(Cpus) /\ (gpc = "join" => elist_thead # <<>>)
  /\ trace \in [Cpus -> {"none", "failed", "handler", "open", "check", "enter", "read", "parse",
                         "event", "close", "gone"}]
  /\ dlink \in {"off", "on", "told", "gone"}

(* dataMutex is held by the thread that is inside one of its sections and  *)
(* by no other (update.c:452-540, manage.c:1450-1478, 1504-1628, 915-1008).*)
MutexInv ==
  /\ mutex = "manage" <=> gpc \in {"stats_locked", "sched_locked"}
  /\ mutex = "update" <=> upc \in {"event_locked", "scan_locked"}
  /\ \A c \in Cpus : mutex = c <=> trace[c] = "event"

(* cleanupEnvironment() gives the CPUs back to the system only when every  *)
(* thread that sets affinities is gone: main() joined the two it created,  *)
(* and they had joined theirs (orchestrator.c:693-701).                    *)
CleanupAlone ==
  mpc \in {"cleanup", "done"} =>
    /\ Ended(gpc) /\ Ended(upc)
    /\ dlink \in {"off", "gone"}
    /\ \A c \in Cpus : trace[c] \in {"none", "gone"}

(* orchestrator.c:688 and :690 "only if not already done internally".      *)
(* main() asks a thread to stop only if it has not begun to by itself: the *)
(* word of a thread that stops, -2 or less, only goes down (no second      *)
(* dumpStats(), no second signal to a Docker link that was joined).        *)
StopsOnce ==
  [][/\ t_stat1 <= -2 => t_stat1' <= t_stat1
     /\ t_stat2 <= -2 => t_stat2' <= t_stat2]_vars

(* The threads have been told to stop and cannot miss it: neither stands   *)
(* where it is about to overwrite its word.  A tracing thread that was     *)
(* listed but never started is excepted: stopTraceRead() spins on it       *)
(* (manage.c:540).                                                         *)
Told ==
  /\ mpc = "join1" /\ t_stat1 <= -1 /\ t_stat2 <= -1
  /\ gpc \notin {"setup", "configure", "start", "raise", "stats", "stats_locked", "rewrite"}
  /\ upc \notin {"setup", "ticks", "ready"}
  /\ \A c \in Cpus : trace[c] # "failed"

(* Then both joins return and the environment is restored, also if a       *)
(* thread was sent back to -1 while it stopped (orchestrator.c:695-701).   *)
ToldThreadsEnd == Told ~> (mpc = "done" \/ killed = 1)

(* manageTest.c:143 "Stop manage thread when setting status to -1".        *)
(* A manage thread in its normal loop whose word is -1 ends.               *)
ManageObeys ==
  (/\ mpc = "join1" /\ t_stat1 = -1
   /\ gpc \in {"switch", "stats", "stats_locked", "rewrite", "sched", "sched_locked", "tail"})
     ~> Ended(gpc) \/ killed = 1
=============================================================================
