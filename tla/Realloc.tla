------------------------------- MODULE Realloc ------------------------------
(***************************************************************************)
(* Moving PIDs between CPUs at run time (orchestrator/manage.c): the       *)
(* kernel's sched_switch events (pickPidInfoS), run-time overruns of       *)
(* deadline tasks (pickPidConsolidatePeriod) and new estimates of run time *)
(* and period (manageSched) make pidReallocAndTest() move all PIDs of a    *)
(* container to another CPU, or put them back if one cannot be moved.      *)
(* Every handler runs under dataMutex and is one step here.                *)
(*                                                                         *)
(* The handlers compute on a record s of the variables they change, in the *)
(* order of the code.  The kernel refuses to move a process that has ended *)
(* and one whose cpuset lacks the CPU.                                     *)
(***************************************************************************)
EXTENDS ResTracer

CONSTANTS
  Pids,               \* PIDs that may be listed, positive numbers
  Containers, NoCont, \* container parameters, and the lack of them
  ContOf,             \* the container of each PID
  Policy,             \* the scheduling policy of each PID
  Affinity,           \* rscs->affinity of each PID: a CPU, or negative
  Config,             \* attr of each PID in the configuration, period and run time
  Mode,               \* prgset->sched_mode
  Estimates,          \* periods and run times manageSched() may come up with
  Cpuset,             \* the CPUs of the CGroup of each PID
  Mortal              \* bound: PIDs whose process may end

SM_PADAPTIVE == 2
SM_DYNSIMPLE == 3

ASSUME ReallocAssumption ==
  /\ Pids \subseteq Nat \ {0} /\ IsFiniteSet(Pids)
  /\ NoCont \notin Containers /\ ContOf \in [Pids -> Containers \cup {NoCont}]
  /\ Policy \in [Pids -> {"DEADLINE", "FIFO", "RR", "NORMAL"}]
  /\ Affinity \in [Pids -> Int]
  /\ Config \in [Pids -> [period : Nat, runtime : Nat]]
  /\ Mode \in 0..4 /\ Estimates \subseteq [period : Nat, runtime : Nat]
  /\ Cpuset \in [Pids -> SUBSET Cpus]

VARIABLES
  listed,             \* PIDs with an active node in the list
  alive,              \* those of them whose process has not ended
  est,                \* cdf_period and cdf_runtime; of a deadline task its attr
  assigned,           \* mon.assigned, -1 if unknown
  mask,               \* the CPUs the kernel lets the task run on
  naff,               \* MSK_STATNAFF: seen running before it was assigned
  trc,                \* the resource tracer of each CPU
  late                \* history: tasks of the event at hand that had left its CPU

vars == <<listed, alive, est, assigned, mask, naff, trc, late>>
state == [est |-> est, assigned |-> assigned, mask |-> mask, naff |-> naff, trc |-> trc]
Becomes(s) == /\ est' = s.est /\ assigned' = s.assigned /\ mask' = s.mask
              /\ naff' = s.naff /\ trc' = s.trc

Init ==
  /\ listed = {} /\ alive = {}
  /\ est = [p \in Pids |-> Config[p]]
  /\ assigned = [p \in Pids |-> -1]
  /\ mask = Cpuset
  /\ naff = [p \in Pids |-> FALSE]
  /\ trc = [c \in Cpus |-> Free(TRUE)]
  /\ late = {}

(* The PIDs of p's container, p included; none if it has no container.     *)
Members(p) == {q \in listed : ContOf[q] = ContOf[p] /\ ContOf[p] # NoCont}

Refused(p, c) == p \notin alive \/ c \notin Cpuset[p]

-----------------------------------------------------------------------------
(* The demand of a task: of a deadline task its parameters, of any other   *)
(* the estimates.                                                          *)
Demand(e, p) ==
  [policy  |-> Policy[p], runtime |-> e[p].runtime,
   period  |-> IF Policy[p] = "DEADLINE" THEN e[p].period ELSE findPeriodMatch(e[p].period)]

Load(s, c, skip) ==
  recomputeTimes(s.trc[c], [p \in {q \in listed \ skip : s.assigned[q] = c} |-> Demand(s.est, p)])

(* recomputeCPUTimes_u() for a CPU, skipping some task. *)
Recomputed(s, c, skip) ==
  IF c \in Cpus THEN [s EXCEPT !.trc[c] = Load(s, c, skip).res] ELSE s

(* setPidAffinityAssinged() *)
SetAffinity(s, p) ==
  [s EXCEPT !.mask[p] = {s.assigned[p]}, !.naff[p] = FALSE]

(* checkPeriod_R(): the CPU that fits best and the tracers it leaves.  All *)
(* is judged without the task unless it is included.                       *)
checkPeriod_R(s, p, include) ==
  LET c == s.assigned[p]
      fits(trcs) == checkPeriod(trcs, Demand(s.est, p), Affinity[p], c)
  IN  IF c < 0 THEN [to |-> None, s |-> s]
      ELSE IF include THEN [to |-> fits(s.trc), s |-> s]
      ELSE Once(Recomputed(s, c, {p}), LAMBDA without :
             [to |-> fits(without.trc), s |-> Recomputed(without, c, {})])

(* The PIDs of a container are moved one after the other. If one cannot be *)
(* moved, it and those before it are assigned to the origin again.         *)
Stuck(p, to) == {q \in Members(p) : Refused(q, to)}
First(S) == CHOOSE p \in S : \A q \in S : p >= q
Reached(p, to) == {q \in Members(p) : \A r \in Stuck(p, to) : q > r}

Moved(s, before, touched, to, goal) ==
  [s EXCEPT !.assigned = [q \in Pids |-> IF q \in touched THEN goal ELSE @[q]],
            !.mask     = [q \in Pids |-> IF q \notin before THEN @[q]
                                         ELSE IF Refused(q, goal) THEN {to} ELSE {goal}],
            !.naff     = [q \in Pids |-> @[q] /\ q \notin before]]

(* Mutant: those moved before stay there. *)
MoveAll_noundo(s, p, to, from) ==
  IF Stuck(p, to) = {} THEN [ok |-> TRUE, s |-> Moved(s, Members(p), Members(p), to, to)]
  ELSE [ok |-> FALSE, s |-> Moved(s, Reached(p, to), Reached(p, to), to, to)]

MoveAll(s, p, to, from) ==
  IF Stuck(p, to) = {} THEN [ok |-> TRUE, s |-> Moved(s, Members(p), Members(p), to, to)]
  ELSE [ok |-> FALSE,
        s  |-> Moved(s, Reached(p, to), Reached(p, to) \cup {First(Stuck(p, to))},
                     to, IF from # None THEN from ELSE to)]

(* Mutant: the CPU the tasks move to is not computed anew. *)
pidReallocAndTest_staleto(s, to, from, p) ==
  IF to \in {None, from} THEN [ret |-> 1, s |-> s]
  ELSE Once(MoveAll(s, p, to, from), LAMBDA moved :
         IF ~moved.ok THEN [ret |-> -1, s |-> moved.s]
         ELSE [ret |-> IF from # None /\ Load(moved.s, from, {}).over THEN -2 ELSE 0,
               s   |-> Recomputed(moved.s, from, {})])

(* pidReallocAndTest(): 1 no change, -1 failed, -2 moved but the origin is *)
(* still full, 0 success.                                                  *)
pidReallocAndTest(s, to, from, p) ==
  IF to \in {None, from} THEN [ret |-> 1, s |-> s]
  ELSE Once(MoveAll(s, p, to, from), LAMBDA moved :
         IF ~moved.ok THEN [ret |-> -1, s |-> moved.s]
         ELSE Once(Recomputed(moved.s, to, {}), LAMBDA s1 :
                [ret |-> IF from # None /\ Load(s1, from, {}).over THEN -2 ELSE 0,
                 s   |-> Recomputed(s1, from, {})]))

(* pickPidReallocCPU(): the first task of CPU c whose move relieves it,    *)
(* looking first without and then with the task itself. `near` are those   *)
(* whose deadline is within the period that counts.  The list is in        *)
(* descending order of PIDs (module PidList).                              *)
TryMove(acc, p, c, near, include) ==
  Once(acc, LAMBDA a :
    IF a.done \/ p \notin near \/ a.s.assigned[p] # c THEN a
    ELSE Once(checkPeriod_R(a.s, p, include), LAMBDA fit :
           Once(pidReallocAndTest(fit.s, fit.to, getTracer(c), p), LAMBDA r :
             [done |-> r.ret = 0, s |-> r.s])))

TryAll(start, c, near, include) ==
  LET tried[S \in SUBSET listed] ==
        IF S = {} THEN start
        ELSE TryMove(tried[S \ {Min(S)}], Min(S), c, near, include)
  IN  tried[listed]

pickPidReallocCPU(s, c, near) ==
  Once(TryAll([done |-> FALSE, s |-> s], c, near, FALSE), LAMBDA first :
    TryAll(first, c, near, TRUE)).s

-----------------------------------------------------------------------------
(* pickPidInfoS(): a sched_switch event of CPU c, from task prev to next   *)
(* (0 for tasks that are not listed).                                      *)

(* A listed task shows up on c; if it came from elsewhere that CPU is      *)
(* computed anew, and relieved if it is still full.                        *)
Relieved(s, c) ==
  IF c \in Cpus /\ Load(s, c, {}).over /\ Mode >= SM_DYNSIMPLE
    THEN Once(Recomputed(s, c, {}), LAMBDA s1 : pickPidReallocCPU(s1, c, listed))
    ELSE Recomputed(s, c, {})

Arrive(s, c, p) ==
  IF s.assigned[p] = c THEN s
  ELSE Once([s EXCEPT !.assigned[p] = c, !.naff[p] = @ \/ s.assigned[p] < 0],
            LAMBDA s1 : Relieved(s1, s.assigned[p]))

(* The task that leaves gets its first assignment if it had none: deadline *)
(* tasks to the CPU that fits, any other to the one it is on.              *)
FirstAssignment(s, c, p) ==
  IF p = 0 \/ Mode < SM_PADAPTIVE THEN s
  ELSE IF ~s.naff[p] THEN s
  ELSE IF Policy[p] = "DEADLINE"
         THEN Once(checkPeriod_R(s, p, FALSE),
                   LAMBDA fit : pidReallocAndTest(fit.s, fit.to, c, p).s)
  ELSE IF Cardinality(s.mask[p]) > 1 /\ ~Refused(p, s.assigned[p])
         THEN SetAffinity(s, p)
  ELSE [s EXCEPT !.naff[p] = FALSE]

(* A deadline task that used more than its estimate and has no buffer left *)
(* relieves its CPU of tasks that are due before it.  A deadline is kept   *)
(* for any task, from its last wake-up on (pickPidInfoW()) or, of deadline *)
(* tasks, by the end of periods: any others may be due before.  (The code  *)
(* also waits for a first estimate of the run time.)                       *)
MayOverrun(s, p) ==
  p # 0 /\ Mode >= SM_DYNSIMPLE /\ Policy[p] = "DEADLINE" /\ s.est[p].runtime # 0

DueBefore(p) == SUBSET (listed \ {p})

(* Where an event may come from: there is a reader for each CPU, and it    *)
(* may be late, so that the task has been moved since.  The process may    *)
(* have ended, too.                                                        *)
Runs(p, c) == p # 0 => c \in Cpuset[p]
Left(S, c) == {p \in S \ {0} : c \notin mask[p]}

Seen(s, c, p) == IF p \in listed THEN Arrive(s, c, p) ELSE s

Handled(c, prev, next) ==
  LET high == IF prev > next THEN prev ELSE next
      low  == IF prev > next THEN next ELSE prev
  IN  Once(Seen(state, c, high), LAMBDA s1 : Once(Seen(s1, c, low), LAMBDA s2 :
        Once(Relieved(s2, c), LAMBDA s3 : FirstAssignment(s3, c, prev))))

pickPidInfoS(c, prev, next) ==
  /\ prev # next /\ Runs(prev, c) /\ Runs(next, c)
  /\ \E s \in {Handled(c, prev, next)} :
       \/ Becomes(s)
       \/ /\ MayOverrun(s, prev)
          /\ \E near \in DueBefore(prev) :
               \E s1 \in {pickPidReallocCPU(s, s.assigned[prev], near)} : Becomes(s1)
  /\ late' = Left({prev, next}, c)
  /\ UNCHANGED <<listed, alive>>

-----------------------------------------------------------------------------
(* manageSched(): new estimates of p.  A change of the matching period by  *)
(* more than 5% makes updateSiblings() look for a better CPU, if p is the  *)
(* fastest of its container.  (The loop over all PIDs is a step for each.) *)

Realtime(p) == Policy[p] # "NORMAL"

(* The period p counts with: 0 if it is to be ignored.                     *)
Pace(e, p) == IF Realtime(p) THEN e[p].period ELSE 0

IsMain(e, p) ==
  LET paced == {q \in Members(p) : /\ Policy[q] = "DEADLINE" \/ 0 < Pace(e, q)
                                   /\ Pace(e, q) < PDefault}
      first == {q \in paced : \A r \in paced : Pace(e, q) < Pace(e, r)
                                               \/ (Pace(e, q) = Pace(e, r) /\ q >= r)}
  IN  paced = {} \/ Cardinality(Members(p)) < 2 \/ p \in first

Changed(old, new) ==
  /\ findPeriodMatch(old.period) # findPeriodMatch(new.period)
  /\ new.period > old.runtime
  /\ old.period * 95 > new.period * 100 \/ old.period * 105 < new.period * 100

updateSiblings(s, p) ==
  Once(checkPeriod_R(s, p, FALSE), LAMBDA fit :
    pidReallocAndTest(fit.s, fit.to, getTracer(s.assigned[p]), p).s)

(* Period first, then run time.  In the progressive adaptive mode the run  *)
(* time of a deadline task stays below twice the configured one.           *)
WCET(p, new) ==
  IF Policy[p] = "DEADLINE" /\ Mode < SM_DYNSIMPLE /\ Config[p].runtime > 0 /\ new > 2 * Config[p].runtime
    THEN 2 * Config[p].runtime ELSE new

manageSched(p) ==
  /\ Mode >= SM_PADAPTIVE /\ p \in listed
  /\ \E new \in Estimates :
       \E s1 \in {IF Policy[p] = "DEADLINE" THEN state
                  ELSE [state EXCEPT !.est[p].period = new.period]} :
       \E s2 \in {IF Policy[p] # "DEADLINE" /\ Changed(est[p], new) /\ IsMain(s1.est, p)
                    THEN updateSiblings(s1, p) ELSE s1} :
         Becomes(IF new.runtime = 0 THEN s2
                 ELSE [s2 EXCEPT !.est[p].runtime = WCET(p, new.runtime)])
  /\ late' = {} /\ UNCHANGED <<listed, alive>>

(* A new node (setPidResources(), detection by CGroup): a fixed CPU of the *)
(* configuration is assigned right away, and the estimates start with the  *)
(* configured values.                                                      *)
NewPid(p) ==
  /\ p \notin listed /\ listed' = listed \cup {p} /\ alive' = alive \cup {p}
  /\ LET fixed == Affinity[p] >= 0
           s == [state EXCEPT
                   !.est[p] = IF fixed \/ Policy[p] = "DEADLINE" THEN Config[p]
                              ELSE [period |-> 0, runtime |-> 0],
                   !.assigned[p] = IF fixed THEN Affinity[p] ELSE -1]
       IN  Becomes(IF fixed /\ Affinity[p] \in Cpuset[p] THEN SetAffinity(s, p) ELSE s)
  /\ late' = {}

ProcExit(p) ==
  /\ p \in alive \cap Mortal /\ alive' = alive \ {p}
  /\ late' = {} /\ UNCHANGED <<listed, est, assigned, mask, naff, trc>>

(* Mutant: the scan drops the node of a process that runs on. *)
GonePid_running(p) ==
  /\ p \in listed /\ listed' = listed \ {p}
  /\ est' = [est EXCEPT ![p] = Config[p]]
  /\ assigned' = [assigned EXCEPT ![p] = -1]
  /\ mask' = [mask EXCEPT ![p] = Cpuset[p]]
  /\ naff' = [naff EXCEPT ![p] = FALSE]
  /\ late' = {} /\ UNCHANGED <<alive, trc>>

(* A scan has dropped or retired the node; the tracers are not touched.    *)
GonePid(p) ==
  /\ p \in listed \ alive /\ listed' = listed \ {p}
  /\ est' = [est EXCEPT ![p] = Config[p]]
  /\ assigned' = [assigned EXCEPT ![p] = -1]
  /\ mask' = [mask EXCEPT ![p] = Cpuset[p]]
  /\ naff' = [naff EXCEPT ![p] = FALSE]
  /\ late' = {} /\ UNCHANGED <<alive, trc>>

Next ==
  \/ \E c \in Cpus, prev, next \in listed \cup {0} : pickPidInfoS(c, prev, next)
  \/ \E p \in Pids : manageSched(p) \/ NewPid(p) \/ ProcExit(p) \/ GonePid(p)

Spec == Init /\ [][Next]_vars

-----------------------------------------------------------------------------
(* The variables have their types; the kernel runs a task nowhere but on the *)
(* CPUs of its CGroup, and only a fixed CPU can be one without a tracer.   *)
TypeOK ==
  /\ alive \subseteq listed /\ listed \subseteq Pids
  /\ est \in [Pids -> [period : Nat, runtime : Nat]]
  /\ assigned \in [Pids -> Int] /\ mask \in [Pids -> SUBSET Cpus]
  /\ \A p \in Pids : assigned[p] \in Cpus \cup {-1, Affinity[p]} /\ mask[p] \subseteq Cpuset[p]
  /\ naff \in [Pids -> BOOLEAN]
  /\ trc \in [Cpus -> Tracer] /\ late \subseteq Pids

Pinned(p, c)      == assigned[p] = c /\ mask[p] = {c}
ListedOf(k)       == {p \in listed : ContOf[p] = k}
OnOneCPU(k, c)    == \A p \in ListedOf(k) : Pinned(p, c)

(* A container that the kernel keeps on one CPU is moved as a whole.  With *)
(* processes that live and may run anywhere that is so whatever CPU the    *)
(* trace events come from, late ones included, which leave wrong CPUs in   *)
(* the list of PIDs.  If it is pinned in the list of PIDs as well, also    *)
(* processes that have ended and moves that fail half way leave list and   *)
(* kernel in agreement, though the two are written one after the other,    *)
(* for one process after the other, and rolled back (pidReallocAndTest()); *)
(* only an event from a CPU that a task of the container has left parts    *)
(* the two.                                                                *)
KeptOn(k, c) == \A p \in ListedOf(k) : mask[p] = {c}
Movable(k)   == \A p \in ListedOf(k) : p \in alive /\ Cpus \subseteq Cpuset[p]
Together ==
  [][\A k \in Containers, c \in Cpus :
       /\ KeptOn(k, c) /\ Movable(k) =>
            \E d \in Cpus : \A p \in ListedOf(k) \cap listed' : mask'[p] = {d}
       /\ OnOneCPU(k, c) /\ (\A p \in late' : ContOf[p] # k) =>
            \E d \in Cpus : \A p \in ListedOf(k) \cap listed' : Pinned(p, d)']_vars

(* If a step changes which tasks are on a CPU, the bookings of this CPU    *)
(* are those of its tasks when the step is over, whatever was recomputed   *)
(* and moved on the way (pickPidInfoS()).  New estimates count from the    *)
(* next event of the CPU on; and a container that is moved from several    *)
(* CPUs, as after a late event of one of its tasks, leaves the bookings of *)
(* all of them but one behind.                                             *)
On(c) == {p \in listed : assigned[p] = c}
Settled == \A k \in Containers : \E c \in Cpus : OnOneCPU(k, c)
Traced ==
  [][listed' = listed /\ est' = est /\ Settled /\ (\A p \in late' : ContOf[p] = NoCont) =>
       \A c \in Cpus : On(c) # On(c)' => trc'[c] = Load(state', c, {}).res]_vars

(* "Reallocate did not work, undo if possible" (pidReallocAndTest()): with *)
(* a process of the container that has ended no move works, so its         *)
(* siblings stay where they are, also if no event was ever late.           *)
UndoRestores ==
  [][\A k \in Containers, q \in alive, c \in Cpus :
       /\ listed' = listed /\ q \in ListedOf(k) /\ Pinned(q, c)
       /\ ListedOf(k) \ alive # {}
       /\ late' = {} /\ \A p \in listed : assigned[p] \in mask[p] \cup {-1}
       => Pinned(q, c)']_vars
=============================================================================
