# TLA+ models of the real-time container orchestrator

The orchestrator (`src/orchestrator`, with `src/lib` and `src/include`) watches the
processes of docker containers on a real-time Linux host, gives them scheduling
parameters, places them on CPUs and, in its dynamic modes, moves them at run time.
It is a C program of a handful of threads that share a linked list of PIDs, a list
of resource tracers, one mailbox, and a few status words that are read and written
without a lock. This directory holds TLA+ models of those parts that are hard to
test, the TLC configurations that check them, and TLAPS proofs about them.

All paths below are relative to `src/src/` of the repository.

## 1 Inventory

| Component | Source | State | Operations | Module |
|---|---|---|---|---|
| main thread | `orchestrator/orchestrator.c` | `main_stop`, one status word per thread | create threads, install handlers, watch and write the words, join, clean up | Lifecycle |
| update thread | `orchestrator/update.c` | its word, `nhead`, the Docker link | scan the system, merge into the list, consume docker events, end the run | Lifecycle, PidList, DockerLink |
| manage thread | `orchestrator/manage.c` | its word, the list of tracing threads | start and stop tracing, statistics, new estimates, moving of tasks | Lifecycle, Realloc |
| fTrace threads, one per CPU | `orchestrator/manage.c` | `ftrace_stop`, a kernel buffer | read and parse trace events, update the node, move tasks | Lifecycle, Realloc |
| Docker link thread | `lib/dockerlink.c` | `pstate`, the mailbox `containerEvent`, `containerMutex`, `dlink_stop` | run `docker events`, read a line, fill the mailbox | DockerLink |
| PID list | `update.c`, `resmgnt.c`, `lib/orchdata.c` | `nhead`, nodes with PID (negative: deactivated), flags and measurements | merge, retire, drop, flag siblings, regroup | PidList |
| resource tracers | `orchestrator/resmgnt.c` | `rHead`: hyper-period, used time, harmonic flag of each CPU | book, recompute, choose a CPU | ResTracer |
| reallocation at run time | `manage.c`, `resmgnt.c` | assignment, affinity, estimates | first assignment, relief of a full CPU, move of a container, undo | Realloc |
| run-time monitoring | `manage.c` | of each task: run time of its period, start, deadline | account an event, close a period, set the next deadline | Periods |
| parameters | `resmgnt.c`, `orchdata.c`, `lib/parse_config.c` | lists of images, containers, PIDs and their settings | parse, find or create a match, duplicate, refresh, write to the kernel, retry | ConfigStore |
| static and adaptive planning | `orchestrator/adaptive.c` | one list of sections, their masks, the tracers | prepare, plan, execute | Planning |
| preparation of the host | `orchestrator/prepare.c`, `resmgnt.c` | `/proc`, `/sys`, CGroups | masks, SMT, hot-plug, governor, IRQs, CPU sets | Startup, Kernel |
| options and files | `orchestrator.c`, `lib/parse_config.c` | settings | read, check, override | Options, Startup |
| kernel utilities | `lib/kernutil.c` | none | bit masks, files, pipes | Options, Startup (masks, failures) |
| statistics | `lib/runstats.c` | GSL histograms | floating point fits | not modelled |
| ring buffer reader | `lib/kbuffer.c` | | third-party code | not modelled |
| plug-in, measurements, scripts | `check_dockerRT`, `test-monitor`, `tools` | | one-shot log read-out, data | not modelled |

### Who talks to whom

* `main()` and each of its two threads share one word: the thread drives its own
  state machine with it, `main()` writes -1 to stop it. Nothing guards the word.
* update, manage and all fTrace threads take `dataMutex` for the PID list and the
  tracers. The Docker link does not; `dumpStats()` forgets to.
* The Docker link fills a one-slot mailbox under `containerMutex`; the update thread
  reads and clears the slot without it.
* SIGHUP stops the Docker link, SIGQUIT the fTrace threads: both only set a flag that
  is tested before a blocking read. SIGTERM is raised by either worker to stop `main()`.
* The kernel reports what runs where through trace events, which come late, and moves
  tasks when their affinity is set, which fails if the process has ended.

### What makes each component correct

* **Docker link**: container events reach the update thread in order, none lost or
  repeated; the thread never leaves with the mutex; the join after a stop returns.
* **PID list**: the merge depends on both lists being sorted at each step; to a reader
  under the lock a scan is one atomic refresh; `nhead` can be followed whenever
  somebody follows it; siblings know of each other; between two scans docker's CGroup is
  exclusive if nodes are listed and no longer once the list has run empty.
* **Life cycle**: every thread told to stop ends; the host is restored only
  after the last thread that changes affinities is gone; one owner of `dataMutex`.
* **Reallocation**: a container that is pinned to one CPU moves as a whole or stays, in the
  kernel as in the list of PIDs, however late the events come; a failed move is undone; the cached load of a CPU is the
  load of its tasks.
* **Run-time monitoring**: the run time recorded of a period is what the task ran in it,
  however late events come; after a loss it is right again with the next whole period;
  the deadline kept lies ahead, by one period and not by two.
* **Parameters**: the links between the lists stay consistent; each block of settings has
  one owner; a process has no settings of another's container; what is known only becomes
  more specific; a write of a CPU set that failed is repeated until it succeeds.
* **Planning**: no CPU is booked beyond what it can do; what is booked covers what was put
  there; the masks nest as the CPU sets of the kernel must.
* **Preparation**: the start ends; if it succeeds, the settings go together, the CPUs for
  real-time tasks are there, alone on their cores and free of interrupts, and the CPU
  sets divide the CPUs as planned, although the kernel refuses any intermediate state
  that breaks its rules.

What is hard in all of them: unlocked words and flags, blocking reads, half-done
moves, values cached across handlers, lists changed while they are walked. The
`hazards` of `PROJECT.json` name each place.

## 2 Plan

1. EventQueue, DockerLink, ThreadsProofs - done.
2. PidRegistry, PidList, PidListProofs - done.
3. Lifecycle, ThreadsProofs - done.
4. ResTracer, Realloc, ResTracerProofs, ReallocProofs - done.
5. ConfigStore, ConfigStoreProofs - done.
6. Planning (on ResTracer; with `qsortll()` of `orchdata.c`), PlanningProofs - done.
7. Options, Kernel, Startup, StartupProofs - done; the restoring of the host
   (`cleanupEnvironment()`) and CGroup v2 may follow.
8. Periods, PeriodsProofs - done; tasks that change their CPU, whose events then come in
   the wrong order, may follow, if the code is changed to cope with them.

Composition: Lifecycle sees the Docker link as on, told or gone, which is what
DockerLink's positions come to; DockerLink implements EventQueue, PidList implements
PidRegistry; Realloc and Planning use ResTracer; Realloc takes from PidList only that PIDs appear and
disappear. Startup uses Options for the settings and Kernel for what writing a file does.
ConfigStore and Planning start from the same configuration: Planning reads its sections,
ConfigStore builds the lists that point at them.

## 3 The modules

### DockerLink (and EventQueue)

`dlink_thread_watch()` is a loop over `switch (pstate)`. The model keeps `pstate` as it
is and adds the position `at` in a pass of the loop; a pass of case 1 is split at the
loop test of `read_pipe()`, at the entry of `fgets()` and at the blocking read, because a
SIGHUP does something else in each. One step is what another thread cannot observe the
middle of: `CheckSlot` (case 2: lock, test), `Store` (case 3: store, unlock), and on the
other side `Poll`, `Take`, `Clear`, `Handle` of `updateDocker()`, which hold no lock.
A line of docker is its number and one of four kinds (`start`, `kill`, other JSON, not
JSON); `DockerExit` closes the pipe. Where the code leaves the thread
by EOF or by bad JSON the model does. `EventQueue` says what is promised, without any mechanism: a queue
with delivery in order, and in the end, while it is open. `Queue` in DockerLink is the
refinement; `open` is "the link thread is there and nobody waits for it to end".
Names that Lifecycle has too begin with `Link` here (`LinkInit`, `LinkTypeOK`): ThreadsProofs
uses both modules.

### PidList (and PidRegistry)

`scanNew()` merges a sorted list of what it found (`lnew`) into the list, node by node.
The list is `done \o rest`, cut at the node `tail` stands on; `head` is the node `nhead` points
to, which the code updates in some branches only. Each branch of the loop is an action
(`Insert`, `Revive`, `SkipRetired`, `Retire`, `Drop`, `Keep`, `DropRest`, `AppendNew`).
Nobody else runs in between (it is all under `dataMutex`); the steps are there because
`setPidResources()`, called for every new node, walks the half-merged list from `nhead`
(`Splice`, `From`, `Reached`). `PidRegistry` says what a scan is to the other threads:
a look at the processes of the machine and, later, one step that makes what it found the active
PIDs, retires or forgets those that left, and keeps what was measured. The processes
and the CGroup directory, which may be lost, are part of it, so that what is found is
not any set. Parsing `ps` and the CGroup files is abstracted to the set of PIDs
found; parameters to a fixed container for each PID.

`Regroup` is the part of the scan after the unlock. `group` records the flag of docker's
CGroup (`excl`), whether the last write was refused, which is only warned about, and
whether anything was listed before. `Prepared` are the ways `prepareEnvironment()` may leave it,
as module Startup shows them: exclusive already, if that write was accepted, unless `AFFINITY_USEALL`
is set. `partition` says which of the two holds, or that the run is dry and nothing is written.

### Lifecycle

One position variable per thread; the words, flags and signals are those of the code. The read of
a word (`LoopTest`, `StopTest`) and the write (`StopWrite`, `Rewrite`, `UpdateReady`)
are steps of their own, as are lock and unlock of `dataMutex`, a raise, each
`pthread_kill()` and each join. System calls that may fail are named by `Faults`
(`create`: `pthread_create` in `main()`; `trace`: of an fTrace thread; `open`: its pipe;
`config`, `clock`). `clock_gettime()` failing in the middle of the update thread's loop makes it stop
by itself; `pthread_yield()`, whose failure the code tests for too (`update.c:777`), cannot
fail on Linux. What a thread computes under the lock is left out, the order of its
calls is not.

### ResTracer and Realloc

ResTracer translates the arithmetic of `resmgnt.c` to operators: `checkUvalue()` (split
into `Book` and `Score`), `recomputeTimes()`, `checkPeriod()`, `findPeriodMatch()`. The
float `U` is never computed: comparisons are multiplied out, which is the code up to the
rounding of a float at the very boundary.

Realloc makes one action of each handler that runs under `dataMutex`. Handlers call each
other deeply (an event relieves a CPU, which tries task after task, each of which moves
a container, which may fail half way), so they are operators from a record of the
variables to such a record, in the order of the code; `Once(v, F)` makes TLC work out an
intermediate record once. The environment is the kernel: processes end at any time, after which
setting their affinity fails (`Refused`). A `sched_switch` event comes from a CPU of the task's
CPU set. Each CPU has a thread that reads its events, and nothing orders the threads: an event
may be read after the task has been moved away, and the handler takes it for new
(`manage.c:927`). `late` records, for the properties only, the tasks of the event at hand for which that
was so. Deadlines are not modelled: `pickPidInfoW()` sets one for FIFO and RR tasks
as well (`manage.c:1062-1066`), so the tasks that `manage.c:629` skips may be any (`DueBefore`).

### ConfigStore

An entry of the lists of images, containers and PIDs is a record and its index a pointer;
`Push` keeps the order of the code's lists, in which the newest entry is found first. The
attributes and resources of an entry are one block, known by the place it was allocated
for (`at`) and the section its values come from (`val`), so that shared, copied and freed
settings can be told apart. `Parse` is `parse_config()`; `Detect` a new process through
`setPidResources()` and `findPidParameters()`, `DockerStart` an event through
`updateDocker()`, with `duplicateOrRefreshContainer()`; `UpdateCmdline`, `Retry` and
`Vanish` the later life of the node. `Write` is `setPidResources_u()`: in CGroup mode it
marks the node as done if the CPU set of its container was written; this needs a mask in
the settings (`MaskOf`), which `adaptPrepareSchedule()` does not give to containers within an image.
Outside of the CGroup mode the mark says little: two failures cancel out
(`resmgnt.c:156`) and the affinity is only set if it is that already (`resmgnt.c:101`). `Freed` is a string whose memory is gone: a later
search may read any command line from it.

Each search of a list is `First` or `Newest` of the entries that match. `ForEach` applies
an operator for the elements of a list in order; it and `Once` are written as functions
and choices, so that proofs can follow them. `NamesAssumption` says that no container has
for its name the ID of one: IDs are 64 hexadecimal digits. `SetsAssumption` lets a section be known by
its `set`.

### Planning

`Prepare` visits the sections in the order of `adaptPrepareSchedule()`, once when it starts
with a section and once when it has seen those inside (`met` are the sections visited, `open`
those of which it has not seen the end); `Sort` is the quick sort of `qsortll()`, longest
period first, then highest utilisation, `Place` and `Gather` take one section in one of the three loops of
`adaptPlanSchedule()` (known, partly known, unknown demand), `Execute` is `adaptExecute()`.
A section without attributes or resources of its own uses those of the one it stands in
(`AttrOf`, `Owner`).

### Options, Kernel and Startup

Options holds the settings, the masks as sets, and what the command line, the file and the
checks make of them. Kernel is external: CPU hot-plug, SMT control and the rules of
CGroup v1 (a set lies within its parent, covers its children, overlaps no exclusive set
beside it, and is exclusive only below one that is; a CPU that goes off-line leaves every
set for good); it follows from how `prepare.c` and `resmgnt.c` use the files. `Kernels` are
the systems these rules allow; the start may find any of them in `Inputs`.

Startup has one action for each part of `process_options()` and `prepareEnvironment()`, in
the order of the code (`stage`). The loops of `disableCPUsibling()` and over the online CPUs
take a step for each CPU (`cpu`), those of `resetContCGroups()`, `setContCGroups()` and of
the configured containers (`todo`) for each container, in any order. The retry with all the
CPUs online begins again at `smt`; the retry of `resetRTthrottle()` passes through the same
steps on the CPU sets early, and `after` says where they lead. A write the kernel accepts
may fail all the same: an action takes the set `bad` of its accesses that do, and `faults`
counts down from `MaxFaults`. `earlier` is the system as it was found, and `counted` that
`countCGroupTasks()` could read the tasks of all containers, for the properties only: if it could
not, containers are taken to be running and the interrupts stay (`prepare.c:284-288`).

* `Isolated`: a core with three threads can lose them all. Of the mask 1-2 on the core
  0-2 both go in the step of CPU 1: CPU 1 itself because 0 is below it (`prepare.c:387`),
  and CPU 2 because it is above CPU 1, which no longer stays. The start goes on with an
  empty mask. So only with at most two threads on a core (`PairsOfThreads`) is there always
  a CPU left.
* `Partition` assumes that CPU sets an earlier run has left were for the same CPUs
  (`SameDivision`): nobody opens the exclusive set of the system again, and the kernel then
  refuses any other division.

### Periods

The kernel's part (`Tick`, `Wake`, `Replenish`, `Switch`) runs the tasks and writes events,
`Lose` drops the oldest one, and `Read` is the thread of the CPU: `pickPidInfoS()` with
`pickPidConsolidatePeriod()`, or `pickPidInfoW()`. `mon` is what the code keeps; `ran`, carried in
the event, is the truth the recorded run time is compared with; `ended`, `tainted`,
`regular` and `wrong` are history. `get_sched_info()` reads `/proc`, which may be ahead of the
events, or fails.

Operators that pass a record on (`ForEach`, `Once` in ConfigStore, Realloc, Startup) exist
because TLC evaluates a definition at each use; they change no meaning.

## 4 The runs

| Run | Shows | Bounds |
|---|---|---|
| docker_link | mailbox protocol: `LockInv`, `OrderInv`, `NoOverwrite`, implements EventQueue with its liveness, `JoinReturns` | 3 lines: one in the slot, one held by the thread, one in the pipe; all kinds of line; stop, EOF at any time |
| pid_list | `SortedInv`, `HeadInv`, implements PidRegistry, `Tracked`; with `trackpids` and without | 3 PIDs: before, at and behind the cut of the merge; two containers |
| pid_list_siblings | `SiblingsMarked` while PIDs grow and detection is by CGroup; `GroupInv` with each treatment of the CGroup and writes of its flag that fail; with `trackpids` and without | 4 PIDs: two containers of two |
| lifecycle | `MutexInv`, `CleanupAlone`, `ToldThreadsEnd` with every failure; trace data flow | 1 traced CPU |
| realloc | `Together`, `Traced`; any event may be late | 3 CPUs: a task can run on one, its container go to another and a third be relieved in one event; a container of a deadline and a FIFO task, a fixed FIFO task; any two fit on a CPU, all three do not; one task of the container may end |
| config | `LinksAgree`, `BlocksOwned`, `RightContainer`, `OnlyMoreSpecific`, `SettingsWritten` | 2 processes of 2 containers of one image, nine files, detection by CGroup and by command line, one change of a command line, processes detected while there are fewer than 4 PID entries |
| startup | `PolicyConsistent`, `Isolated`, `IrqsAway`, `Partition`, `Decides` | 4 CPUs on two or four cores or one of three threads, nine systems, six files or none, 2 options, 1 failing write |
| planning | `NotOverbooked`, `Accounted`, `Nested` | 2 CPUs, three sections in four shapes, six demands (harmonic, not harmonic, partly known, unknown), own or shared, four affinities |
| periods | `Measured`, `Ahead` | a deadline and a FIFO task on one CPU, 2 events unread, 2 lost, 6 units of time |
| manage_stop_lost | violated: `ManageObeys` | no traced CPU |
| stops_twice | violated: `StopsOnce` | no traced CPU; only the clock fails |
| realloc_undo | violated: `UndoRestores` | as realloc, on 2 CPUs; a second task may end |

The violated runs check what a comment or a test of the repository says and what the
code does not do:

* `main()` stops the manage thread by writing -1; if that falls into the pass in which
  `updateStats()` returns 1, `manage.c:1762` writes 1 over it and the join never returns.
* `main()` tests the word of a thread and then writes -1 if it is not negative yet ("only if not
  already shut down", `orchestrator.c:688`, `:690`). If the clock fails in the thread between the two
  (`update.c:809`), it has begun to stop by itself, and the -1 sends it back to
  its first stopping state. It ends all the same (`ToldThreadsEnd`).
* The undo of a failed move puts every sibling moved so far to the CPU of the task that
  triggered the move, not to where it was (`manage.c:592-597`). `Together` holds
  nevertheless: it speaks of containers that are on one CPU. `UndoRestores` is stated of events that
  are not late, so the undo alone breaks it.

Seen in runs that are not kept because they repeat one of these, take a step or two, or
contradict no line of the repository. They are the reason for the conditions in the
properties.

Threads:
* a -1 written while the update thread is in its set-up is overwritten (`update.c:727`);
* a SIGHUP or SIGQUIT between the test of the flag and the blocking read is lost
  (`dockerlink.c:93`, `manage.c:1179`);
* SIGTERM raised before the handler is installed kills the process (`orchestrator.c:658`);
* a tracing thread that could not be created stays on the list that `stopTraceRead()` pops
  only started ones from: it spins (`manage.c:540`); `ToldThreadsEnd` excepts it;
* `dumpStats()` walks the list unlocked (`manage.c:1643`).

PID list and reallocation:
* a removed container's PIDs are never dropped: two strings are compared by address
  (`update.c:396`);
* on the first scan with detection by command line no sibling is flagged, as `nhead` is
  still null (`update.c:533`); a new PID between two listed ones misses the siblings
  behind it (`resmgnt.c:395`); after the loss of the CGroup directory every scan is
  empty (`update.c:158`);
* a late event sets `mon.assigned` to a CPU the task has left (`manage.c:927`), so that the list and
  the kernel disagree about it, and a move of its container then comes from several CPUs,
  of which two are recomputed. `Together` and `Traced` except the step that takes such an
  event of a task of the container; that the kernel keeps a container together holds with it too;
* after a move only two CPUs are recomputed (`manage.c:604-605`): a sibling taken from a
  third one stays booked there. `Traced` is claimed once each container is whole (`Settled`);
* in one event a task that shows up on a CPU makes its old CPU be relieved, which may move its
  container, and then its sibling is taken for running on the CPU of the event
  (`manage.c:917-936`): until its next event the list says one CPU and the kernel has it
  pinned to another. It takes three CPUs and a container that is not whole, so the
  agreement of the two is part of `Together` and not an invariant of its own.

Parameters:
* a container configured by name is hidden by the entry made when its processes are
  found before docker tells the name (`resmgnt.c:1237`, `:1242`); for the same reason
  `duplicateOrRefreshContainer()` never refreshes anything (`resmgnt.c:1156-1161`, `:1183-1193`): an entry
  made at run time is newer than any named one, so the search by ID has found it
  and the function is not called. The lemma `DuplicateGood` relies on it, and proves it
  for any file;
* of a container that the file names by ID and by name, the copy made of the name is
  newer and hides what the file says of the ID (`resmgnt.c:1242`); `OnlyMoreSpecific`
  excepts it for what a new process would get (`NamedTwice`);
* a PID configured for a container inside an image is put into the list of the image
  when the container starts (`resmgnt.c:1212`), where processes of its other containers
  find it; `RightContainer` excepts such files (`NestedPids`);
* `updatePidCmdline()` frees a string the configuration still points at
  (`resmgnt.c:501`);
* outside of the CGroup mode a task counts as set up if both writes failed (`resmgnt.c:156`), and its
  affinity is set only if it is equal already (`resmgnt.c:101`): the comparison is the wrong way round.
  `SettingsWritten` is about the CGroup mode;
* a container configured within an image with resources of its own has no mask: if the file
  has its ID the write fails in every loop (`resmgnt.c:225`), if its name the copy has an empty
  mask (`orchdata.c:167`), which clears the CPU set; `SettingsWritten` excepts it (`Settable`);
* an entry made at run time that learns its image from an event has new settings, but the marks
  of its processes stay (`resmgnt.c:1326-1346`): if the one write of the event fails the
  CPU set keeps the old ones. `SettingsWritten` does not say which settings were written;
* outside of the CGroup mode, a start event of a configured container ends the program
  (`resmgnt.c:334`, `:152`).

Planning:
* containers inside an image are not planned (`adaptive.c:289`, `:315`); a section that uses the
  global resources narrows the global mask (`adaptive.c:328`);
* a parent fixed on one CPU and a PID fixed on another give an empty mask, and the PID is
  placed without a check; sections that are refused are assigned all the same, unbooked;
* `checkPeriod()` does not look at masks: an assigned CPU may lie outside of the section's;
  what is booked on one CPU may be set to run on another; `adaptScramble()` is never called.

Preparation:
* dry and blind runs still write some settings, and push the interrupts away although they print
  "skipped" and the help says so (`prepare.c:214-215`, `orchestrator.c:140`); `IrqsAway` promises
  nothing for them; a restart with another range fails, as nobody opens the exclusive
  set of the system again; settings of the file override the command line where they
  are numbers; `capMask` is always 0, so future memory is never locked.

Monitoring:
* the loss of a switch-out and the next switch-in makes a run time of several periods,
  from which the deadline is moved too far (`manage.c:760`). So does a real overrun if `/proc` was read
  late: what it said had moved on already, and `pickPidConsolidatePeriod()` moves on for the same
  overrun again. `Ahead` bounds the deadline from above only while no overrun was seen since it was read
  (`regular`); then losses do no harm;
* events of one task from two CPUs may be read in the wrong order; the unsigned time
  between them wraps, and the loop at `manage.c:772` then runs for ever in practice.

### Fairness

* DockerLink: weak fairness of the link thread, of signal delivery and of the update
  thread, which the kernel's scheduler gives. Nothing is assumed of docker.
* PidList: weak fairness of the scan as a whole; the update thread scans for ever.
* Lifecycle: weak fairness of each thread; strong fairness of taking `dataMutex`, since
  each holder sleeps or reads between two of its sections and a pthread mutex that
  becomes free again and again is then obtained. Strong fairness of `TraceParsed` says
  that a page of trace data has an end. Data on a trace pipe is assumed only where
  `DataFlows` says so; without it a reader may sleep for ever.
* ConfigStore: strong fairness of a successful `Retry` of each process: the manage thread
  tries in every loop, and the kernel does not refuse a CPU set for ever. In between
  the process may vanish or its command line may change, so weak fairness is not enough.
* Startup: weak fairness of `Next`; it is one thread and nothing blocks.
* Realloc, Planning, Periods: no liveness is claimed. The code may move tasks back and
  forth; the plan is a loop over a finite list; a thread without data sleeps.

### Bounds

`MaxEvents` caps the lines of docker, and with it all sequences of DockerLink; the
mailbox, the thread and the pipe each hold one. `Pids` caps PidList and Realloc, and is
reused after exit; `Mortal` says which processes of Realloc may end. Lifecycle has no counter; one traced CPU is enough to meet every failure and every stop of a
tracing thread, and that the clean-up comes last with any number is proved (`CleanupIsLast`). Estimates, configured values and `PDefault`
of Realloc are small numbers with a common multiple so that all cases of the score occur
(unused, equal, divisor, multiple).

The CGroup's flag, which no merge reads, is left as it is in pid_list (`Partitions`,
`WritesMayFail`); its own run has all the cases. In realloc one process that ends is enough to make a move fail
half way; the undo run needs no third CPU.

ConfigStore: two containers of one image are enough for settings to be taken from the wrong
sibling, and four PID entries for processes to come back to the entry made for them. Startup: four CPUs are two
cores with two threads, the least for which taking a sibling off leaves more than one CPU,
and enough for a core with three threads beside another; two containers, one of them known
by the file, meet in both orders, and one failing write reaches every error path of the code;
two options show each order of two, and a third only repeats the override of the first.
Planning: three sections give each nesting of the file format (image, container, PID).
`Int32Max` is small so that the comparison's remainder occurs. Periods: tasks keep their
CPU, and a second one would repeat the first. `Running` is empty, as a switch-in before
the tracing is no different from one that is lost. The period of the deadline task is
two units and three of them pass; with two lost events a run time grows into an overrun that was
none, with fewer it does not.

Deadlock checking is off in DockerLink, Lifecycle, ConfigStore, Startup, Planning and Periods: they
end when everything has stopped, when the start or the plan is done, when the program
has died of a null pointer, or at the bound of the clock. In PidList and Realloc
something can always happen.

## 5 The proofs

Checked by TLAPS for every value of the constants under the assumptions named in the
modules (`MaxEventsAssumption`, `NoneAssumption`, `PidListAssumption`,
`LifecycleAssumption`, `PeriodsAssumption`, `ResTracerAssumption`, `PlanningAssumption`,
`ReallocAssumption`, `KernelAssumption`, `StartupAssumption`, `ConfigAssumption`,
`NamesAssumption`, `FilesAssumption`; `SetsAssumption` is only used by the runs).

ThreadsProofs, on DockerLink
* `LinkTypeCorrect`, `LockDiscipline`: `SlotInv` is `LinkTypeOK /\ LockInv`, which is inductive:
  `LockInv` names, for every position, what the mutex, the slot and `pending` are. That
  the slot stays free between the test and the store needs the update thread's part,
  "it takes and clears only a full slot".
* `NeverOverwrites`: from `SlotInv`, for each action that writes the slot.
* `EventsInOrder`: `OrderInv` lists the places an event passes and orders neighbours; it
  is inductive together with `SlotInv`. The lemmas on `Elements` and `Increasing` say
  what appending and taking the head do to them.
* `NothingLost`: `FlowInv` says that what docker emitted is what was handled and what is
  in one of the places an event passes, and that what was handled is a prefix of it. With
  `OrderInv` the event in hand is the next one (`InHandIsNext`): an older one is
  in no other place.
* `RefinesQueue`: hence taking an event from the mailbox and handling it is `Queue!Deliver`,
  a line of docker that is relevant `Queue!Emit`, the end of the link `Queue!Close`, and
  every other step a stutter. That the queue also delivers in the end is left to TLC.

PidListProofs
* `SortedAlways`: for any set of PIDs. `SortedInv` is not inductive; `MergeInv` adds that
  the merged half is above the old list still to come, each half in order by itself, that the new
  nodes are active, and that the old half is used up when the loop is left. Each branch
  of the loop either takes the head of the old list (`TakeOld`) or splices the head of
  the new one (`TakeNew`); flagging siblings changes no name (`MarkKeeps`).
* `HeadAlways`: `HeadIInv` follows `nhead` through the merge as one of the names of the
  two halves. `Insert` does not move `nhead`; `Drop` and `Revive`, which free a node,
  do. It needs `rest = <<>>` outside the loop from `MergeInv`.

* `RefinesRegistry`: `PidList` implements `PidRegistry`. A list matters to the registry by three
  sets of names: listed, active, measured; the lemmas say what appending a node, taking the first,
  flagging and splicing do to these. `RefInv` states in the middle of a merge what the list
  will show: `before` is the list as the scan found it, `Handled` the names that
  the merge has passed; of these the new list holds those found as active and, with
  `trackpids`, the others as retired with their data; the rest is as it was. At `MergeDone`
  all are handled and the step is `Registry!Refresh`, to what `Look` has seen; the branches of the
  loop are stutters, and what processes and directory do is the registry's `Start`, `Exit`
  and `Lose` (`MachineStep`).
* `GroupAlways`: `GroupFor(used)` is what the CGroup is like while the list is seen to have nodes, or
  not. `GroupIInv` states it with what `wasEmpty` remembers while the merge is under way and after
  the unlock, until `Regroup`, and with the list in between. Before anything is listed the
  flag is the one `prepareEnvironment()` set; after a refused write it is open.
* `SiblingsAlways`: assumes `GrowingPids` (a new PID is above all used so far) and
  detection by CGroup, as the run does; section 4 says what happens without.
  `Linked(s, T, S)` says that of a container the active nodes of a list are flagged if
  another is. `LinkedInv` keeps it for the merged half and for the old one
  separately, and for pairs across the cut: no retired node comes back (`NoneBack`), every new
  node is above all old ones (`Young`), so the whole list is behind the splice and is walked,
  and what was met in this scan (`Met`) is already in its place.
* `PidListTypes`: with `HeadIInv` and `MergeInv` for `nhead` and the merged list.

ThreadsProofs, on Lifecycle
* `TypeCorrect`: inductive as it stands, with frame lemmas that say which variables each
  thread leaves alone.
* `MutualExclusion`: with `CreateOrder` (a thread not yet created is at no position).
* `CleanupIsLast`: `MutexInv` does not help here. What is needed is an order: `main()` is past a
  join only if that thread is gone (`MainOrder`); the manage thread is past its joins
  only if its tracing threads are (`ManageOrder`, with `TraceListed`: every one that may
  still run is on the list); the same for the update thread and the Docker link
  (`UpdateOrder`). It holds whatever fails, since the joins are skipped for a thread that
  was never started.

ResTracerProofs
* Lemmas about the arithmetic, for any values. What a definition by recursion computes is proved
  over the sets of the numbers, or sizes, for which it is right: `SetInduction` comes from the
  well-foundedness of `<`, and `Recursion` shows that a definition whose arguments get smaller
  has a value. With it `gcd` divides its arguments and `lcm` is a multiple of both (`LcmFacts`),
  sums over finite sets may be taken in any order and scaled (`SumTake`, `SumScale`).
* `BookFacts`: after a booking the hyper-period is a multiple of the old one and of the period
  booked, and the time used is at least the old time, scaled, and what the task needs: the
  integer divisions lose nothing. `FitsOne`, `BestFits`: a CPU that `checkPeriod()` offers is
  not over-utilised, unless it was set for the task.
* Loops over the finite list of PIDs: `LoopExists` says that a fold that takes the least PID last
  has a value, `LoopInduction` that what each round keeps holds at the end. With them
  `recomputeTimes()` yields a tracer (`RecomputeFacts`), and with `PowerNat` the period that
  `findPeriodMatch()` chooses is a number.

PlanningProofs (on ResTracerProofs)
* `NotOverbookedAlways`: `PlanInv` follows the masks. A section that is closed without a CPU
  although its affinity names one has an empty mask (`Unplaced`): masks only shrink, and of a mask in
  `{cpu}` (`Fixed`) either the CPU is left and is booked, or nothing. Only for those
  `checkPeriod()` returns a CPU unchecked. That `qsortll()` neither loses nor doubles a
  section (`SortKeeps`) is shown along its recursion.
* `PlanTypes`, `AccountedAlways`: `BookInv` adds that all sections are visited (`Visits`), that a
  section gets a CPU once (`Fresh`), and that what two loops leave without a CPU is refused
  or has nothing to book (`Tried`): the last loop, which books nothing, takes only those. The books
  themselves are `Books`, kept by every booking (`BookKeeps`, from `BookFacts`).
* `NestedAlways`: `Boxed` says where the mask of a section lies until the one above is closed, and
  after: in the mask above if it had no CPU set, in `below` in any case. It needs
  that sections are closed from the inside out, that only PIDs stand in a section
  of the plan (`InnerPid`), and that a CPU which is set and not the orchestrator's ends the program.

ReallocProofs (on ResTracerProofs)
* `TypeCorrect`, `TogetherAlways`, `TracedAlways`: for any tasks, containers, CPUs, demands and
  estimates. The handlers are operators on a record, so the argument follows the record through
  the calls: `Kept(s, z, K, L, E, c, Q)` says of a record `s` on its way from `z` in an
  event of CPU `c` that its fields have their types, that the containers `K` are whole, those
  of `L` still on `c`, that a task of `Q` awaiting its first assignment is on `c` if its
  container is whole, and that the tracer of a CPU whose tasks changed is up to date, except
  on the CPUs `E`. Each operator has a lemma that it keeps this (`FitKept`, `MoveAllKept`,
  `ReallocKept`, `TryAllKept`, `PickKept`, `RelievedKept`, `ArriveKept`, `FirstKept`); moving adds
  two CPUs to `E` and the two recomputations take them out again.
* The undo of a move is right because it puts the tasks where the one that triggered
  the move was, and of a whole container all are there; no task it puts back is refused by the
  kernel, as its mask lies in its CPU set. `L` is what keeps the relief of another CPU from
  touching the containers of the two tasks of the event. The loop of `pickPidReallocCPU()` is
  followed with `LoopInduction`, whatever order and whatever `near`.
* Late events need no assumption. The promise of the kernel alone, `AsOne(s, z)`: what kept a
  movable container on one CPU (`OneMask`) in `z` does so in `s`, is part of `Kept` and does not depend on
  where the list has a task: a move that cannot fail ends with all masks alike. The other half
  is shown for the containers whose tasks the event did not find moved away (`OnTime`).

StartupProofs
* For any number of CPUs and containers, any topology, options and file, and any failures.
  `StartupAssumption` says that the systems to start on obey the rules of the kernel (and,
  if SMT is off, have one CPU of each core online), and gives the arguments of options their
  types. A first part is about the operators of Options and Kernel: `ListMeansMask` (the list
  `parse_bitmask()` writes means the mask it was made of), and for each write to the
  kernel what it changes and that its rules are kept (`OfflineFacts`, `SMTOffFacts`,
  `SetChanged`, `SetCpusFacts`, `SetExclFacts`, `MakeGroupFacts`, `FreedFacts`).
* `TypesAlways`: `TypeInv` adds that from the checks on the mask is known. The kernel's rules
  are in the type `Kernels`, so this is also that no order of writes, failures and
  hot-plug leads out of them.
* `PolicyAlways`: before the checks anything may
  be set; `CheckedConsistent` says what the checks leave, and `PolicyInv` that no later
  step undoes it. The one that could is the fallback of `DetectCGroup`, which changes the
  detection mode: with the deadline policy it ends the program instead. That the settings keep their fields
  (`DOMAIN set`) is the part that makes it inductive.
* `IsolatedAlways`: `IsoInv` follows the loops: the CPUs of the mask that
  `disableCPUsibling()` has passed are online and alone (`SiblingsGone`), the loop over the
  online CPUs finds the others not online and retries or ends, and what both leave stays
  (`Spread`). While `pushCPUirqs()` has CPUs off-line the invariant is about `Used`. That SMT
  which is off leaves one CPU of a core (`Split`) is needed because nothing is then
  switched, and the retry, which switches SMT on, begins again before the test of SMT.
* `IrqsAlways`: after `PushOffline` no CPU of the mask has an interrupt, and `Late` names the
  stages from there on; a count of the tasks that failed leads past it and is excepted (`counted`). `AfterInv` is needed to tell the early pass through the CPU sets,
  after `resetRTthrottle()` failed, from the later one.
* `PartitionAlways`: `BeforeInv` says that until docker's set is widened no CPU set has more
  CPUs than it was found with, and `DivInv` what the sets are like at each stage.
  Both are about starts nothing disturbed; `SetFits` is what the kernel asks of a write,
  and each step shows that the one before it has made room: no container is exclusive, so
  docker can be opened; all the CPUs or, beside the system's set of an earlier run, those
  of the mask can be docker's; those of the mask are then in it for every container, and
  docker's set can shrink to them and be closed.

PeriodsProofs
* `MeasuredAlways`: what is unread in a buffer says how the run time of a task has come about.
  `Accounted` says there is a sequence of moments, each the run time in the period and
  the time since which the task has the CPU, that starts with what the thread knows
  (`Known`), if it has missed nothing, follows the events (`Step`) and ends with what the
  kernel has (`Present`). Writing an event adds a moment (`AccountAppend`), reading or losing
  one takes the first (`AccountTail`), and the reader learns what that moment says
  (`SwitchLearns`). It needs that a task has run only since it was seen to start (`SeenStart`), and that its
  events are in the buffer of its CPU (`EventsHome`).
* `DeadlineAfterSeen`: `AfterSeen`, the lower half of `Ahead`, for any tasks, periods, buffers
  and losses. `NextIsAhead` follows `pickPidConsolidatePeriod()` from whatever deadline it
  starts with or `/proc` returns: `ReachAfter` says that moving on by whole periods
  ends at or after the time of the event, and the last step adds a period. The
  invariant adds the types of what the deadline is computed from; the run time may be any
  integer, which is what makes it hold after losses.
* `AheadAlways`: the upper half. The times in a buffer do not fall and lie between the last end seen and
  the clock (`InOrder`, `EndsBefore`), so that each end follows the one before. `ReachBefore`: moving on
  ends less than a period after the event, and `NextIsClose`: each path through
  `pickPidConsolidatePeriod()` other than that of an overrun then keeps what is `Close`, whatever
  `/proc` returns.

ConfigStoreProofs
* For any files, any containers and processes, and any number of PID entries. The state is one
  structure that each step only extends, so the proof is about that structure. `Good(j, c)`
  says of lists `c` read from the file `j`: pointers lead to entries (`ConfOK`); a block
  is the global one or that of an entry which owns it (`Owning`); entries made at run time
  are for IDs and newer than all that came of the file (`Origins`); the links agree (`Linking`,
  unless there are PIDs outside of images and containers); and what is in the list of
  a container or an image belongs there (`Placing`, unless a container of an image has
  PIDs). `Kept` says what no step takes back: entries keep their place, a PID its
  settings, a container all but global ones.
* The lists change in four ways: a PID comes (`PidAdded`), a container comes (`ContAdded`),
  an image comes (`ImgAdded`), an image learns of a container (`ImgLearnt`). For each a lemma says that
  every part of `Good` is kept, and each operator of the model is shown to be made of these:
  reading a file (`ParseGood`, along the sections), duplication (`DuplicateGood`), search for an
  event (`FindStartedGood`) and for a process (`FindPidGood`). A loop over a list
  of any length is a function of the round (`Rounds`), and `RoundsKeep` says that what every
  round keeps holds at the end; the induction is over the set of rounds where it does.
* `Inv` adds what the run-time list has (`NodeOK`): a signature shared with the configuration
  is that of the node's own parameters, and in CGroup mode the parameters are for the container of the
  process (`Fits`). Each action keeps it (`DetectKeeps`, `DockerStartKeeps`, ...).
* `TypesAlways`, `LinksAlways`, `BlocksAlways`, `RightContainerAlways` follow from `Inv`.
  Ownership takes both halves of `Owning`: an owner's block is its own, so that none is
  freed twice, and a block in use has an owner, who frees it.
* `OnlyMoreSpecificAlways`: each step of the invariant is also shown to keep what is known
  (`StepKeeps`). A search by ID finds the newest entry, and no entry with an ID that is
  there already is added (`Unseen`), unless the file names the container twice; that entry
  loses its block only if this is the global one (`Kept`). A process keeps its parameters
  (`ParamKept`), and these keep their settings.

Model-checked only: all liveness (`JoinReturns`, `ToldThreadsEnd`, `Tracked`,
`SettingsWritten`, `Decides`, the delivery the queue promises), which is beyond the prover.
Every invariant and every action property that the passing runs check is a theorem.

## 6 Not modelled

* Memory management other than which node or string is meant.
* The final restoring of the host (`cleanupEnvironment()`) other than that it comes last
  (Lifecycle), and CGroup v2.
* `rt-sched.c`, `error.c`, most of `kernutil.c`, the JSON reader: input, output and text.
* Matching of names and command lines is equality; trace event formats are not parsed.
* `adaptScramble()`, which nothing calls.
* `runstats.c`: floating point over GSL; Realloc takes its results from a set.
* `kbuffer.c`, `check_dockerRT`, `test-monitor`: third-party, separate, or data.
* Run times and deadlines of a task whose events come from several CPUs: Periods keeps each task on
  its CPU. Realloc lets any event be late, but has no run times.
* The failure of `pthread_yield()` (`update.c:777-780`): glibc's never fails.
* Where a mask that the plan computes is empty (section 4): ConfigStore takes these to have CPUs.
* The RR slice of `checkUvalue()` is in ResTracer but no instance has an RR task.
