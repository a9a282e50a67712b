------------------------------ MODULE Startup ------------------------------
(***************************************************************************)
(* From the command line to the start of the threads: process_options() in *)
(* orchestrator.c, then prepareEnvironment() in prepare.c, which turns off *)
(* SMT siblings, sets the CPUs up, moves interrupts, kernel threads and    *)
(* system tasks away from the CPUs for real-time tasks, and gives those    *)
(* to docker.  One thread; the steps are the parts of the two functions.   *)
(*                                                                         *)
(* Writes to the kernel may fail where the kernel refuses them (module     *)
(* Kernel), and MaxFaults times anywhere.                                  *)
(***************************************************************************)
EXTENDS Options

CONSTANTS Inputs,      \* systems to start on
          Files,       \* configuration files; Unset: the file has no global section
          NoFile,      \* there is no file
          Ranges, Masks, Priorities, Intervals, Slices, Clocks,   \* arguments of options
          Known,       \* containers the file names by their full ID
          MaxOptions, MaxFaults

(* The entries of a section "global"; Unset for those it has not. *)
Sections == [policy : Policies \cup {Unset}, priority : Int \cup {Unset},
             interval : Int \cup {Unset}, clocksel : Int \cup {Unset},
             rrtime : Nat \cup {Unset}, lock_pages : BOOLEAN \cup {Unset},
             setaffinity : {"user", "numa", "all", "unspecified", Unset},
             affinity : (SUBSET CPUs) \cup {Unset}]

(* Without SMT no two CPUs that are online share a core. *)
Split(q) == q.smt \in {"off", "unsupported"} => \A c \in q.online : Siblings(q, c) = {}

ASSUME StartupAssumption ==
  /\ IsFiniteSet(Containers) /\ Known \subseteq Containers
  /\ Inputs \subseteq Kernels /\ \A q \in Inputs : Split(q)
  /\ Files \subseteq Sections \cup {Unset}
  /\ Ranges \subseteq SUBSET CPUs /\ Masks \subseteq SUBSET DryBits
  /\ Priorities \cup Intervals \cup Clocks \subseteq Int /\ Slices \subseteq Nat
  /\ MaxOptions \in Nat /\ MaxFaults \in Nat

VARIABLES stage,    \* where the program is
          set,      \* the settings
          k,        \* the kernel
          earlier,  \* the kernel before the start, for the properties
          conf,     \* the configuration file
          options,  \* options read
          error,    \* the settings are not valid
          cpu,      \* the CPU prepareEnvironment() is at
          todo,     \* containers it has still to deal with
          after,    \* stage after the containers
          cpuretry, \* retries left
          naff,     \* naffinity: CPUs of the system
          counted,  \* history: the tasks of docker's containers could be counted
          faults    \* failures left

vars == <<stage, set, k, earlier, conf, options, error, cpu, todo, after, cpuretry, naff, counted, faults>>

(* "failed": err_exit(); "help": display_help(1); "quit": display_help(0). *)
Over == {"running", "failed", "help", "quit", "crashed"}

Stages == {"options", "file", "affinity", "checks", "smt", "siblings", "whole", "online", "cpus",
           "detect", "throttle", "again", "slice", "threads", "offline", "back",
           "free", "open", "widen", "place", "close", "configured",
           "system", "seal", "tasks", "lock"} \cup Over

Init == /\ stage = "options" /\ set = Default /\ k \in Inputs /\ earlier = k /\ conf \in Files \cup {NoFile}
        /\ options = 0 /\ error = FALSE /\ cpu = 0 /\ todo = {} /\ after = "again"
        /\ cpuretry = 1 /\ naff = {} /\ counted = TRUE
        /\ faults = MaxFaults

(* Of the accesses S, those that fail without the kernel refusing them. *)
Faulty(S) == {bad \in SUBSET S : Cardinality(bad) <= faults}
Failing(bad) == faults' = faults - Cardinality(bad)

(* What only the beginning and the work on the containers change. *)
settled == <<earlier, conf, options, counted>>
work    == <<todo, after>>

Goto(s) == stage' = s

(***************************************************************************)
(* Options.                                                                *)
(***************************************************************************)
Getopt(s) == /\ stage = "options" /\ options < MaxOptions
             /\ options' = options + 1 /\ set' = s
             /\ UNCHANGED <<work, stage, k, earlier, conf, error, cpu, cpuretry, naff, counted, faults>>

OptRange     == \E r \in Ranges : Getopt([set EXCEPT !.affinity = r, !.setaffinity = "user"])
OptAll       == Getopt([set EXCEPT !.affinity = 0 .. Cardinality(k.online) - 1, !.setaffinity = "all"])
OptDetection == \E d \in Detections : Getopt([set EXCEPT !.use_cgroup = d])
OptPolicy    == \E p \in Policies : Getopt([set EXCEPT !.policy = p])
OptPriority  == \E p \in Priorities : Getopt(Prioritised(set, p))
OptInterval  == \E i \in Intervals : Getopt([set EXCEPT !.interval = i])
OptSlice     == \E r \in Slices : Getopt([set EXCEPT !.rrtime = r])
OptClock     == \E c \in Clocks : Getopt([set EXCEPT !.clocksel = c])
OptLock      == Getopt([set EXCEPT !.lock_pages = TRUE])
OptForce     == Getopt([set EXCEPT !.force = TRUE])
OptBlind     == Getopt([set EXCEPT !.blindrun = TRUE])
OptDry       == \E m \in Masks \cup {DryBits} : Getopt([set EXCEPT !.dryrun = m])

OptHelp == /\ stage = "options" /\ options < MaxOptions /\ Goto("quit")
           /\ UNCHANGED <<settled, work, set, k, error, cpu, cpuretry, naff, faults>>

EndOptions == /\ stage = "options" /\ Goto("file")
              /\ UNCHANGED <<settled, work, set, k, error, cpu, cpuretry, naff, faults>>

ReadFile ==
  /\ stage = "file"
  /\ IF conf = NoFile
     THEN /\ error' = TRUE /\ Goto("affinity") /\ UNCHANGED set
     ELSE /\ UNCHANGED error
          /\ IF InvalidFile(set, conf)
             THEN Goto("failed") /\ UNCHANGED set
             ELSE Goto("affinity") /\ set' = WithFile(set, conf)
  /\ UNCHANGED <<settled, work, k, cpu, cpuretry, naff, faults>>

(* All the online CPUs but the first, which is for the system. *)
DefaultAffinity == k.online \ {Min(k.online)}

(* resetCPUonline(): SMT on, then CPU by CPU.  What is tested for every CPU
   is the directory of docker: if that exists, no CPU is switched. *)
CPUsOn(bad) == IF k.grp["docker"].here THEN SMTOn(k)
               ELSE Online(SMTOn(k), {c \in CPUs \ {0} : <<"online", c>> \notin bad})
CanResetOnline(bad) == CanSwitchSMT(k) /\ <<"smt", 0>> \notin bad
OnlineWrites == {<<"smt", 0>>} \cup ({"online"} \X CPUs)

(* With -a alone, resetCPUonline() reads the size of a mask nobody has made
   yet, once SMT is on; a blind run returns before. *)
UseAll ==
  \/ /\ set.blindrun
     /\ set' = [set EXCEPT !.affinity = CPUs, !.affinity_mask = CPUs]
     /\ Goto("checks") /\ UNCHANGED <<k, faults>>
  \/ /\ ~set.blindrun /\ UNCHANGED set
     /\ \E bad \in Faulty({<<"smt", 0>>}) :
          /\ Failing(bad)
          /\ IF conf = NoFile \/ ~CanResetOnline(bad) THEN Goto("failed") /\ UNCHANGED k
             ELSE Goto("crashed") /\ k' = SMTOn(k)

UseRange ==
  /\ LET list == IF set.affinity = Unset THEN CPUList(DefaultAffinity) ELSE set.affinity
     IN IF set.affinity = Unset /\ (conf = NoFile \/ DefaultAffinity = {})
        THEN Goto("failed") /\ UNCHANGED set
        ELSE /\ set' = [set EXCEPT !.affinity = list, !.affinity_mask = ParseCPUMask(list),
                                   !.setaffinity = "user"]
             /\ Goto(IF ParseCPUMask(list) = Unset THEN "help" ELSE "checks")
  /\ UNCHANGED <<k, faults>>

SetDefaultAffinity ==
  /\ stage = "affinity"
  /\ CASE set.setaffinity = "all"  -> UseAll
       [] set.setaffinity = "numa" -> Goto("failed") /\ UNCHANGED <<set, k, faults>>
       [] OTHER                    -> UseRange
  /\ UNCHANGED <<settled, work, error, cpu, cpuretry, naff>>

CheckSettings ==
  /\ stage = "checks"
  /\ error' = (error \/ InvalidSettings(set)) /\ set' = Checked(set)
  /\ Goto(IF error' THEN "help" ELSE "smt")
  /\ UNCHANGED <<settled, work, k, cpu, cpuretry, naff, faults>>

(***************************************************************************)
(* prepareEnvironment(): CPUs.                                             *)
(***************************************************************************)
(* testSMT() *)
SMTStatus == IF set.blindrun \/ k.smt = "unknown" THEN "unknown"
             ELSE IF k.smt = "on" THEN "on" ELSE "off"

CheckSMT ==
  /\ stage = "smt" /\ cpu' = 0
  /\ Goto(IF SMTStatus = "off" THEN "online" ELSE "siblings")
  /\ UNCHANGED <<settled, work, set, k, error, cpuretry, naff, faults>>

(* Mutant of Leaving: the first thread of a core stays. *)
Leaving_first(i) == {j \in Siblings(k, i) : i < j}

(* CPU i is for real-time tasks: of the threads of its core those above it
   go, and it goes itself if there is one below, unless it is the last. *)
Leaving(i) ==
  {j \in Siblings(k, i) : i < j}
    \cup {c \in {i} : (\E j \in Siblings(k, i) : j < i) /\ Cardinality(set.affinity_mask) > 1}

(* disableCPUsibling(), one CPU after the other.  Any dry run keeps the
   threads online.  It ends at the first CPU without topology, with what it
   has done by then. *)
HotplugSibling ==
  /\ cpu \in k.online /\ cpu \in set.affinity_mask /\ cpu' = cpu + 1
  /\ set' = [set EXCEPT !.affinity_mask = @ \ Leaving(cpu)]
  /\ \E bad \in Faulty(Leaving(cpu)) :
       /\ Failing(bad)
       /\ k' = IF set.dryrun # {} THEN k ELSE Offline(k, Leaving(cpu) \ bad)
  /\ UNCHANGED stage

NoTopology == /\ cpu \notin k.online /\ cpu \in set.affinity_mask /\ Goto("whole")
              /\ UNCHANGED <<set, k, cpu, faults>>

OtherCPU == /\ cpu \notin set.affinity_mask /\ cpu' = cpu + 1
            /\ UNCHANGED <<stage, set, k, faults>>

DisableCPUsibling ==
  /\ stage = "siblings" /\ cpu < N /\ (HotplugSibling \/ NoTopology \/ OtherCPU)
  /\ UNCHANGED <<settled, work, error, cpuretry, naff>>

(* Its end: resetCPUstring() *)
SiblingsOff ==
  /\ stage = "siblings" /\ cpu = N /\ Goto("online")
  /\ set' = [set EXCEPT !.affinity = CPUList(set.affinity_mask)]
  /\ UNCHANGED <<settled, work, k, error, cpu, cpuretry, naff, faults>>

(* resetCPUmask() *)
ResetCPUmask(online) ==
  LET mask == set.affinity_mask \cap online
  IN /\ set' = [set EXCEPT !.affinity_mask = mask,
                           !.affinity = IF mask \notin {set.affinity_mask, {}} THEN CPUList(mask) ELSE @]
     /\ Goto(IF mask # set.affinity_mask /\ mask = {} THEN "help" ELSE "online")

DisableSMT ==
  /\ stage = "whole"
  /\ IF "SMTOFF" \in set.dryrun THEN Goto("online") /\ UNCHANGED <<set, k, faults>>
     ELSE \E bad \in Faulty({"smt"}) :
            /\ Failing(bad)
            /\ IF ~set.force \/ ~CanSwitchSMT(k) \/ bad # {}
               THEN Goto("failed") /\ UNCHANGED <<set, k>>
               ELSE k' = SMTOff(k) /\ ResetCPUmask(SMTOff(k).online)
  /\ UNCHANGED <<settled, work, error, cpu, cpuretry, naff>>

ReadOnline ==
  /\ stage = "online"
  /\ \E bad \in Faulty({"read"}) :
       /\ Failing(bad)
       /\ Goto(IF bad = {} THEN "cpus" ELSE "failed")
  /\ cpu' = 0 /\ naff' = {}
  /\ UNCHANGED <<settled, work, set, k, error, cpuretry>>

(* setCPUgovernor(), adjustCPUfreq() and setCPUpowerQos() of one CPU; bad are
   the writes that fail.  Without -f the first and the last end the program. *)
Suppressed == set.blindrun \/ "CPUGOV" \in set.dryrun
Demanded(done) == cpu \notin done /\ ~Suppressed
TuneFails(bad) == \/ Demanded(k.gov) /\ (~set.force \/ "gov" \in bad)
                  \/ Demanded(k.qos) /\ (~set.force \/ "qos" \in bad)

Tuned(bad) ==
  [k EXCEPT !.gov = IF Demanded(@) THEN @ \cup {cpu} ELSE @,
            !.turbo = @ /\ "turbo" \in bad,
            !.freq = IF Demanded(@) /\ set.force /\ "freq" \notin bad THEN @ \cup {cpu} ELSE @,
            !.qos = IF Demanded(@) THEN @ \cup {cpu} ELSE @]

TuneCPU ==
  /\ cpu \in k.online
  /\ \E bad \in Faulty({"gov", "freq", "qos", "turbo"}) :
       /\ Failing(bad)
       /\ IF TuneFails(bad) THEN Goto("failed") /\ UNCHANGED <<k, cpu, naff>>
          ELSE /\ k' = Tuned(bad) /\ cpu' = cpu + 1 /\ UNCHANGED stage
               /\ naff' = IF cpu \in set.affinity_mask THEN naff ELSE naff \cup {cpu}
  /\ UNCHANGED <<settled, work, set, error, cpuretry>>

SkipCPU ==
  /\ cpu \notin k.online /\ cpu \notin set.affinity_mask
  /\ cpu' = cpu + 1
  /\ UNCHANGED <<settled, work, stage, set, k, error, cpuretry, naff, faults>>

(* Mutant of RetryOnline: the retry is not counted. *)
RetryOnline_uncounted ==
  /\ cpu \notin k.online /\ cpu \in set.affinity_mask
  /\ \E bad \in Faulty(OnlineWrites) :
       /\ Failing(bad)
       /\ IF ~set.force \/ (~set.blindrun /\ ~CanResetOnline(bad)) THEN Goto("failed") /\ UNCHANGED k
          ELSE /\ Goto("smt") /\ k' = IF set.blindrun THEN k ELSE CPUsOn(bad)
  /\ UNCHANGED <<settled, work, set, error, cpu, cpuretry, naff>>

(* A CPU for real-time tasks is not online: all are switched on and the
   function starts again, once. *)
RetryOnline ==
  /\ cpu \notin k.online /\ cpu \in set.affinity_mask
  /\ \E bad \in Faulty(OnlineWrites) :
       /\ Failing(bad)
       /\ IF ~set.force \/ cpuretry = 0 THEN Goto("failed") /\ UNCHANGED <<k, cpuretry>>
          ELSE /\ cpuretry' = cpuretry - 1
               /\ IF ~set.blindrun /\ ~CanResetOnline(bad) THEN Goto("failed") /\ UNCHANGED k
                  ELSE Goto("smt") /\ k' = IF set.blindrun THEN k ELSE CPUsOn(bad)
  /\ UNCHANGED <<settled, work, set, error, cpu, naff>>

(* Mutant of ConfigureCPU: the loop runs once too often. *)
ConfigureCPU_beyond == stage = "cpus" /\ cpu <= N /\ (TuneCPU \/ SkipCPU \/ RetryOnline)

ConfigureCPU == stage = "cpus" /\ cpu < N /\ (TuneCPU \/ SkipCPU \/ RetryOnline)

(* The orchestrator gives way too: getCapMask(), then its own affinity. *)
MoveSelf ==
  /\ stage = "cpus" /\ cpu = N
  /\ naff' = IF set.setaffinity = "all" THEN set.affinity_mask ELSE naff
  /\ IF set.blindrun \/ {"NICE", "RESOURCE"} \subseteq k.caps
     THEN \E bad \in Faulty({"own"}) :
            /\ Failing(bad)
            /\ k' = IF bad = {} /\ naff' # {} THEN [k EXCEPT !.own = naff'] ELSE k
            /\ Goto("detect")
     ELSE Goto("failed") /\ UNCHANGED <<k, faults>>
  /\ UNCHANGED <<settled, work, set, error, cpu, cpuretry>>

(***************************************************************************)
(* prepareEnvironment(): docker's group and the kernel's settings.         *)
(***************************************************************************)
(* Without docker's CPU set: make it (-f), or look for PIDs instead. *)
NoGroup(bad) ==
  IF set.force
  THEN IF bad = {} THEN k' = MakeGroup(k, "docker") /\ Goto("throttle") /\ UNCHANGED set
       ELSE Goto("failed") /\ UNCHANGED <<set, k>>
  ELSE IF set.use_cgroup = "CGRP" /\ set.policy = "DEADLINE"
       THEN Goto("failed") /\ UNCHANGED <<set, k>>
       ELSE /\ set' = [set EXCEPT !.use_cgroup = IF @ = "CGRP" THEN "CNTPID" ELSE @]
            /\ Goto("throttle") /\ UNCHANGED k

DetectCGroup ==
  /\ stage = "detect"
  /\ IF k.grp["docker"].here THEN Goto("throttle") /\ UNCHANGED <<set, k, faults>>
     ELSE \E bad \in Faulty({"mkdir"}) :
            faults' = faults - Cardinality(bad) /\ NoGroup(bad)
  /\ UNCHANGED <<settled, work, error, cpu, cpuretry, naff>>

(* setkernvar() of a CPU set: cpus or the exclusive flag, unless a dry run
   suppresses it; bad is what fails of it by itself. *)
WriteCpus(q, g, cpus, bad) == IF bad # {} \/ "AFTY" \in set.dryrun THEN q ELSE SetCpus(q, g, cpus)
WriteExcl(q, g, excl, bad) == IF bad # {} \/ "CGRPRT" \in set.dryrun THEN q ELSE SetExcl(q, g, excl)

SetGroups(q) == k' = q /\ UNCHANGED <<settled, set, error, cpu, cpuretry, naff>>

(* resetRTthrottle(set, -1); if it fails, once more after the CPU sets. *)
ResetRTthrottle ==
  /\ stage = "throttle"
  /\ \E bad \in Faulty({"rt"}) :
       /\ Failing(bad)
       /\ IF "RTTHRT" \in set.dryrun \/ bad = {}
          THEN /\ k' = IF "RTTHRT" \in set.dryrun THEN k ELSE [k EXCEPT !.rt = "unlimited"]
               /\ Goto("slice")
          ELSE Goto("free") /\ UNCHANGED k
  /\ UNCHANGED <<settled, work, set, error, cpu, cpuretry, naff>>

RetryRTthrottle ==
  /\ stage = "again" /\ Goto("slice")
  /\ \E bad \in Faulty({"rt"}) :
       Failing(bad) /\ k' = IF bad = {} THEN [k EXCEPT !.rt = "unlimited"] ELSE k
  /\ UNCHANGED <<settled, work, set, error, cpu, cpuretry, naff>>

(* The containers free are no longer exclusive. *)
Freed(q, free) == [q EXCEPT !.grp = [g \in Groups |->
                     IF g \in free THEN [q.grp[g] EXCEPT !.excl = FALSE] ELSE q.grp[g]]]

(* Mutant of FreeContainers: the containers keep their exclusive flag. *)
FreeContainers_none == stage = "free" /\ Goto("open") /\ SetGroups(k) /\ UNCHANGED <<work, faults>>

(* resetContCGroups(): no exclusive CPU set, all the CPUs for docker; or the
   ones it is to have, if these are refused. *)
FreeContainers ==
  /\ stage = "free" /\ Goto("open")
  /\ \E bad \in Faulty(Children(k, "docker")) :
       /\ Failing(bad)
       /\ SetGroups(IF "CGRPRT" \in set.dryrun THEN k ELSE Freed(k, Children(k, "docker") \ bad))
  /\ UNCHANGED work

OpenDocker ==
  /\ stage = "open" /\ Goto("widen")
  /\ \E bad \in Faulty({"excl"}) :
       Failing(bad) /\ SetGroups(WriteExcl(k, "docker", FALSE, bad))
  /\ UNCHANGED work

WidenDocker ==
  /\ stage = "widen" /\ Goto("place")
  /\ \E bad \in Faulty({"all", "own"}) :
       /\ Failing(bad)
       /\ SetGroups(IF "all" \notin bad /\ CanSetCpus(k, "docker", k.online)
                    THEN WriteCpus(k, "docker", k.online, {})
                    ELSE WriteCpus(k, "docker", set.affinity, bad \cap {"own"}))
  /\ todo' = Children(k, "docker") /\ UNCHANGED after

(* setContCGroups(): containers in any order, then docker, which becomes
   exclusive. *)
PlaceContainer ==
  /\ stage = "place" /\ UNCHANGED <<stage, after>>
  /\ \E c \in todo : \E bad \in Faulty({"cpus"}) :
       /\ Failing(bad) /\ todo' = todo \ {c}
       /\ SetGroups(WriteCpus(k, c, set.affinity, bad))

ConfineDocker ==
  /\ stage = "place" /\ todo = {} /\ Goto("close")
  /\ \E bad \in Faulty({"cpus"}) :
       Failing(bad) /\ SetGroups(WriteCpus(k, "docker", set.affinity, bad))
  /\ UNCHANGED work

CloseDocker ==
  /\ stage = "close" /\ Goto(after)
  /\ \E bad \in Faulty({"excl"}) :
       /\ Failing(bad)
       /\ SetGroups(IF set.setaffinity = "all" THEN k ELSE WriteExcl(k, "docker", TRUE, bad))
  /\ todo' = Known /\ UNCHANGED after

(* getRRslice(): write the slice, or read it; 100 ms if it can not be read. *)
GetRRslice ==
  /\ stage = "slice" /\ Goto("threads")
  /\ \E bad \in Faulty({"slice"}) :
       /\ Failing(bad)
       /\ IF set.policy = "RR" /\ set.rrtime > 0
          THEN /\ k' = IF bad # {} \/ "RTTHRT" \in set.dryrun THEN k ELSE [k EXCEPT !.rr = set.rrtime]
               /\ UNCHANGED set
          ELSE /\ set' = [set EXCEPT !.rrtime = IF bad = {} THEN k.rr ELSE 100]
               /\ UNCHANGED k
  /\ UNCHANGED <<settled, work, error, cpu, cpuretry, naff>>

(* setPidMask() for the interrupt and RCU threads; then, if docker's set is
   there and no container runs, pushCPUirqs().  If countCGroupTasks() cannot
   read the tasks of a container it is the same as if there were some. *)
MoveThreads ==
  /\ stage = "threads"
  /\ after' = "configured" /\ UNCHANGED todo
  /\ \E bad \in Faulty({"threads", "count"}) :
       /\ Failing(bad)
       /\ counted' = ("count" \notin bad)
       /\ Goto(IF k.grp["docker"].here /\ k.busy = {} /\ counted' THEN "offline" ELSE "free")
       /\ k' = IF "threads" \notin bad /\ "KTRDAF" \notin set.dryrun /\ naff # {}
               THEN [k EXCEPT !.threads = naff] ELSE k
  /\ UNCHANGED <<earlier, conf, options, set, error, cpu, cpuretry, naff>>

(* Mutant of PushOffline: one CPU at a time goes and comes back. *)
PushOffline_single ==
  /\ stage = "offline" /\ Goto("back")
  /\ k' = FoldSet(LAMBDA c, q : Online(Offline(q, {c}), {c}), k, set.affinity_mask \ {0})
  /\ UNCHANGED <<settled, work, set, error, cpu, cpuretry, naff, faults>>

(* pushCPUirqs(): all the CPUs for real-time tasks go, then they come back,
   without their interrupts.  A dry or a blind run says "skipped" here, and
   goes on. *)
PushOffline ==
  /\ stage = "offline"
  /\ \E bad \in Faulty(set.affinity_mask \ {0}) :
       LET off == {c \in set.affinity_mask \ {0} : \A b \in bad : b < c}
       IN /\ Failing(bad)
          /\ k' = Offline(k, off)
          /\ Goto(IF bad = {} THEN "back" ELSE "failed")
  /\ UNCHANGED <<settled, work, set, error, cpu, cpuretry, naff>>

PushOnline ==
  /\ stage = "back"
  /\ \E bad \in Faulty(set.affinity_mask \ {0}) :
       LET on == {c \in set.affinity_mask \ {0} : \A b \in bad : c < b}
       IN /\ Failing(bad)
          /\ k' = Online(k, on)
          /\ Goto(IF bad = {} THEN "free" ELSE "failed")
  /\ UNCHANGED <<settled, work, set, error, cpu, cpuretry, naff>>

(* CPU sets of containers that may come, known by their full ID. *)
CreateConfigured ==
  /\ stage = "configured" /\ UNCHANGED <<stage, after>>
  /\ \E c \in todo : \E bad \in Faulty({"mkdir", "cpus"}) :
       /\ Failing(bad) /\ todo' = todo \ {c}
       /\ SetGroups(IF "mkdir" \in bad \/ ~CanMakeGroup(k, c) THEN k
                    ELSE WriteCpus(MakeGroup(k, c), c, set.affinity, bad \cap {"cpus"}))

AllConfigured == /\ stage = "configured" /\ todo = {} /\ Goto("system")
                 /\ UNCHANGED <<settled, work, set, k, error, cpu, cpuretry, naff, faults>>

(* A CPU set of the rest of the CPUs for all the tasks of the root set. *)
CreateSystem ==
  /\ stage = "system"
  /\ \E bad \in Faulty({"mkdir", "cpus"}) :
       /\ Failing(bad)
       /\ IF "mkdir" \in bad THEN Goto("lock") /\ SetGroups(k)
          ELSE /\ Goto("seal")
               /\ SetGroups(WriteCpus(MakeGroup(k, "system"), "system", CPUList(naff), bad \cap {"cpus"}))
  /\ UNCHANGED work

SealSystem ==
  /\ stage = "seal" /\ Goto("tasks")
  /\ \E bad \in Faulty({"excl"}) :
       /\ Failing(bad)
       /\ SetGroups(IF set.setaffinity = "all" THEN k ELSE WriteExcl(k, "system", TRUE, bad))
  /\ UNCHANGED work

(* Tasks do not move into a set without CPUs. *)
MoveTasks ==
  /\ stage = "tasks" /\ Goto("lock")
  /\ \E bad \in Faulty({"tasks"}) :
       /\ Failing(bad)
       /\ k' = [k EXCEPT !.moved = @ \/ (bad = {} /\ "TSKPSH" \notin set.dryrun
                                         /\ k.grp["system"].cpus # {})]
  /\ UNCHANGED <<settled, work, set, error, cpu, cpuretry, naff>>

(* getCapMask() clears bits of a mask that is empty: future memory is never
   locked. *)
CapMask == {}

LockMemory ==
  /\ stage = "lock"
  /\ IF ~set.lock_pages THEN Goto("running") /\ UNCHANGED <<k, faults>>
     ELSE \E bad \in Faulty({"lock"}) :
            /\ Failing(bad)
            /\ IF bad = {} THEN /\ k' = [k EXCEPT !.locked = IF "IPC_LOCK" \in CapMask THEN "future" ELSE "current"]
                                /\ Goto("running")
               ELSE Goto("failed") /\ UNCHANGED k
  /\ UNCHANGED <<settled, work, set, error, cpu, cpuretry, naff>>

Options_ == \/ OptRange \/ OptAll \/ OptDetection \/ OptPolicy \/ OptPriority \/ OptInterval
            \/ OptSlice \/ OptClock \/ OptLock \/ OptForce \/ OptBlind \/ OptDry \/ OptHelp
            \/ EndOptions

Groups_ == \/ FreeContainers \/ OpenDocker \/ WidenDocker \/ PlaceContainer \/ ConfineDocker
           \/ CloseDocker \/ CreateConfigured \/ AllConfigured \/ CreateSystem \/ SealSystem

Prepare == \/ CheckSMT \/ DisableCPUsibling \/ SiblingsOff \/ DisableSMT \/ ReadOnline
           \/ ConfigureCPU \/ MoveSelf \/ DetectCGroup \/ ResetRTthrottle \/ RetryRTthrottle
           \/ GetRRslice \/ MoveThreads \/ PushOffline \/ PushOnline \/ Groups_ \/ MoveTasks
           \/ LockMemory

Next == Options_ \/ ReadFile \/ SetDefaultAffinity \/ CheckSettings \/ Prepare

Spec == Init /\ [][Next]_vars

(* One sequential program: it goes on as long as it can. *)
FairSpec == Spec /\ WF_vars(Next)

-----------------------------------------------------------------------------

(* The variables have their types. *)
TypeOK == /\ stage \in Stages /\ set \in Settings /\ {k, earlier} \subseteq Kernels
          /\ conf \in Files \cup {NoFile} /\ options \in 0 .. MaxOptions /\ error \in BOOLEAN
          /\ cpu \in 0 .. N /\ todo \subseteq Containers /\ after \in {"again", "configured"}
          /\ cpuretry \in 0 .. 1 /\ naff \subseteq CPUs /\ counted \in BOOLEAN /\ faults \in 0 .. MaxFaults

(* Whatever the options, the file and the fallback at run time make of them:
   the threads start with a priority exactly if the policy has priorities,
   and with the deadline policy only where processes are found by CGroup
   (orchestrator.c "deadline does not allow fork!", prepare.c:1084). *)
PolicyConsistent ==
  stage = "running" =>
    /\ set.priority \in 0 .. 99
    /\ set.priority # 0 <=> set.policy \in RealTime
    /\ set.policy = "DEADLINE" => set.use_cgroup = "CGRP"

(* Nothing failed and nothing was held back. *)
Undisturbed == faults = MaxFaults /\ set.dryrun = {}

(* No core has more than two threads. *)
PairsOfThreads(q) ==
  \A c, d, e \in CPUs : q.core[c] = q.core[d] /\ q.core[c] = q.core[e] => c = d \/ c = e \/ d = e

(* Once the threads start, the CPUs for real-time tasks are online and not
   the system's; and, unless there is only one or a write failed, no CPU on
   one of their cores is online (prepareEnvironment() after a retry, SMT
   switched by CPU or as a whole).  There is at least one, too, if cores have
   two threads; with three, of the mask 1-2 on the core 0-2 CPU 1 goes for 0,
   below it, and CPU 2 for CPU 1, in one step (prepare.c:387). *)
Isolated ==
  stage = "running" /\ set.setaffinity = "user" /\ Undisturbed =>
    LET mask == set.affinity_mask
    IN /\ mask \subseteq k.online /\ mask \cap naff = {}
       /\ PairsOfThreads(k) => mask # {}
       /\ Cardinality(mask) > 1 => \A c \in mask : Siblings(k, c) = {}

(* pushCPUirqs() leaves no interrupt on the CPUs for real-time tasks that can
   be switched, if no container ran when the program started and that could
   be read (countCGroupTasks()), whatever else failed on the way.  Dry and
   blind runs promise to leave the CPUs alone (orchestrator.c:140). *)
IrqsAway ==
  /\ stage = "running" /\ k.grp["docker"].here /\ k.busy = {} /\ counted
  /\ ~set.blindrun /\ "CPUPSH" \notin set.dryrun
  => k.irq \cap (set.affinity_mask \ {0}) = {}

(* The CPUs end up divided as planned: docker's set and those of the
   containers have the CPUs for real-time tasks, the system the others, both
   exclusive, and the tasks have been moved.  The kernel refuses every write
   that breaks its rules on the way (resetContCGroups() makes room first).
   If an earlier run has left its CPU sets, it was for the same CPUs: nobody
   opens the exclusive set of the system again, and it is in the way of any
   other division. *)
SameDivision(q, mask) == q.grp["system"].here =>
  /\ q.grp["docker"].cpus = mask /\ q.grp["system"].cpus \cap mask = {}

Partition ==
  stage = "running" /\ set.setaffinity = "user" /\ Undisturbed
    /\ set.affinity_mask # {} /\ naff # {} /\ k.grp["docker"].here
    /\ SameDivision(earlier, set.affinity_mask) =>
    /\ k.grp["docker"].cpus = set.affinity_mask /\ k.grp["docker"].excl
    /\ \A c \in Children(k, "docker") : k.grp[c].cpus = set.affinity_mask
    /\ k.grp["system"].cpus = naff /\ k.grp["system"].excl /\ k.moved

(* The start comes to an end: the threads start or the program says why not
   (one retry with all the CPUs online). *)
Decides == <>(stage \in Over)
=============================================================================
