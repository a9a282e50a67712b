------------------------------- MODULE Periods ------------------------------
(***************************************************************************)
(* What the tracing threads learn of a task from the kernel's events       *)
(* (orchestrator/manage.c): the run time of each of its periods and, for   *)
(* deadline tasks, the next deadline (pickPidInfoS, pickPidInfoW,          *)
(* pickPidConsolidatePeriod).                                              *)
(*                                                                         *)
(* The kernel runs the tasks and writes an event of each switch and each   *)
(* wake-up into the ring buffer of the CPU.  One thread per CPU reads its  *)
(* buffer, late, and in no order with the threads of other CPUs; events    *)
(* are lost when the buffer runs over or a page is dropped as malformed.   *)
(* Tasks keep their CPU and are woken on it; moving them is Realloc's, and *)
(* so is what an overrun sets off.  Statistics that are only printed are   *)
(* left out (jitter, minima, counters).                                    *)
(***************************************************************************)
EXTENDS Integers, Sequences, FiniteSets

CONSTANTS
  Cpus, Tasks,
  Cpu,               \* the CPU of each task
  Deadline,          \* the tasks that are SCHED_DEADLINE, the others are FIFO
  Period,            \* attr.sched_period of each
  CdfPeriod,         \* cdf_period, the estimate manageSched() has made, or 0
  Idle,              \* no task of the list
  Running,           \* tasks that may be running when the tracing starts
  MaxTime,           \* bound: the clock of the trace
  MaxBuffer,         \* bound: events in a ring buffer
  MaxLost            \* bound: events lost

ASSUME PeriodsAssumption ==
  /\ Idle \notin Tasks /\ Deadline \subseteq Tasks /\ Running \subseteq Tasks
  /\ Cpu \in [Tasks -> Cpus] /\ Period \in [Tasks -> Nat \ {0}]
  /\ {MaxTime, MaxBuffer, MaxLost} \subseteq Nat
  /\ CdfPeriod \in [Tasks -> Nat] /\ \A p \in Deadline : CdfPeriod[p] = 0

VARIABLES
  now,               \* the clock
  on,                \* the task each CPU runs
  switched,          \* the CPUs that have switched at this time
  st,                \* "asleep", "ready", "running", "throttled"
  kdl,               \* the deadline the kernel has set a task
  ran,               \* time the task has run in its period
  buffer,            \* the events of each CPU not yet read
  lost,              \* how many events were lost
  mon,               \* node_t: rt, last_ts, deadline, MSK_STATNPRD; last_tsP is not 0
  ended,             \* when the last period of a deadline task ended, of those seen
  tainted,           \* tasks some event of whose present period is lost
  regular,           \* deadline tasks that were not seen to overrun since their deadline was read
  wrong              \* tasks a wrong run time was recorded of, with no event lost

vars == <<now, on, switched, st, kdl, ran, buffer, lost, mon, ended, tainted, regular, wrong>>
kernel == <<now, on, switched, st, kdl, ran>>
orchestrator == <<mon, ended, regular, wrong>>

NewMon == [rt |-> 0, last_ts |-> 0, last_tsP |-> FALSE, deadline |-> 0, nprd |-> FALSE]

Init ==
  /\ now = 1
  /\ on \in {f \in [Cpus -> Running \cup {Idle}] : \A c \in Cpus : f[c] # Idle => Cpu[f[c]] = c}
  /\ switched = {}
  /\ st = [p \in Tasks |-> IF on[Cpu[p]] = p THEN "running" ELSE "asleep"]
  /\ kdl = [p \in Tasks |-> Period[p]] /\ ran = [p \in Tasks |-> 0]
  /\ buffer = [c \in Cpus |-> << >>] /\ lost = 0
  /\ mon = [p \in Tasks |-> NewMon] /\ ended = [p \in Deadline |-> 0]
  /\ tainted = {p \in Tasks : st[p] = "running"} /\ regular = Deadline /\ wrong = {}

-----------------------------------------------------------------------------
(***************************************************************************)
(* The kernel.                                                             *)
(***************************************************************************)
Write(c, e) == /\ Len(buffer[c]) < MaxBuffer
               /\ buffer' = [buffer EXCEPT ![c] = Append(@, e)]

Tick ==
  /\ now < MaxTime /\ now' = now + 1 /\ switched' = {}
  /\ ran' = [p \in Tasks |-> IF st[p] = "running" THEN ran[p] + 1 ELSE ran[p]]
  /\ UNCHANGED <<on, st, kdl, buffer, lost, tainted, orchestrator>>

(* A deadline that has passed is set anew from the wake-up. *)
Wake(p) ==
  /\ st[p] = "asleep"
  /\ st' = [st EXCEPT ![p] = "ready"]
  /\ kdl' = [kdl EXCEPT ![p] = IF p \in Deadline /\ @ < now THEN now + Period[p] ELSE @]
  /\ Write(Cpu[p], [type |-> "wakeup", ts |-> now, pid |-> p])
  /\ UNCHANGED <<now, on, switched, ran, lost, tainted, orchestrator>>

(* A deadline task out of budget gets the next deadline at this one. *)
Replenish(p) ==
  /\ st[p] = "throttled" /\ kdl[p] <= now
  /\ st' = [st EXCEPT ![p] = "ready"] /\ kdl' = [kdl EXCEPT ![p] = @ + Period[p]]
  /\ UNCHANGED <<now, on, switched, ran, buffer, lost, tainted, orchestrator>>

(* How a task leaves the CPU: sleeping "S", in a system call "D", preempted  *)
(* "R"; a deadline task also by yielding or out of budget, "Y".            *)
Left == [S |-> "asleep", D |-> "asleep", R |-> "ready", Y |-> "throttled"]

(* The period ends: of a deadline task unless it is preempted (0x0100), of *)
(* any other when it waits (0x00FD).                                       *)
Ends(p, how) == IF p \in Deadline THEN how # "R" ELSE how = "S"

(* A CPU switches at most once in a unit of time. *)
Switch(c, next, how) ==
  LET prev == on[c]
  IN /\ next # prev /\ (next # Idle => st[next] = "ready" /\ Cpu[next] = c)
     /\ prev = Idle => how = "R"
     /\ how = "Y" => prev \in Deadline
     /\ c \notin switched /\ switched' = switched \cup {c}
     /\ on' = [on EXCEPT ![c] = next]
     /\ st' = [p \in Tasks |-> IF p = next THEN "running" ELSE IF p = prev THEN Left[how] ELSE st[p]]
     /\ ran' = [p \in Tasks |-> IF p = prev /\ Ends(p, how) THEN 0 ELSE ran[p]]
     /\ Write(c, [type |-> "switch", ts |-> now, prev |-> prev, how |-> how, next |-> next,
                  ran |-> IF prev = Idle THEN 0 ELSE ran[prev]])
     /\ UNCHANGED <<now, kdl, lost, tainted, orchestrator>>

(* The oldest event is overwritten, or skipped with its page. *)
Lose(c) ==
  /\ buffer[c] # << >> /\ lost < MaxLost
  /\ buffer' = [buffer EXCEPT ![c] = Tail(@)] /\ lost' = lost + 1
  /\ LET e == Head(buffer[c])
     IN tainted' = tainted \cup (IF e.type = "wakeup" THEN {} ELSE {e.prev, e.next} \ {Idle})
  /\ UNCHANGED <<kernel, orchestrator>>

-----------------------------------------------------------------------------
(***************************************************************************)
(* The threads.                                                            *)
(***************************************************************************)
(* Mutant of Reach: one step short. *)
Reach_short(d, ts, period) == IF d >= ts THEN d ELSE d + period * ((ts - d) \div period)

(* d, moved on by whole periods until it has reached ts. *)
Reach(d, ts, period) ==
  IF d >= ts THEN d ELSE d + period * ((ts - d + period - 1) \div period)

(* get_sched_info() while tracing: the deadline in /proc/PID/sched, or the *)
(* old one if it cannot be read.                                           *)
get_sched_info(p, old) == {kdl[p], old}

(* The deadline pickPidConsolidatePeriod() may leave. *)
NextDeadline(p, m, ts) ==
  LET P == Period[p]
      seen(d) == IF m.deadline = 0 THEN Reach(d, ts, P) ELSE m.deadline
      late(d) == IF d < ts /\ m.rt > P THEN d + P * ((m.rt - 1) \div P) ELSE d
      ahead(d) == IF d - ts < P THEN d + P ELSE d
  IN UNION {LET missed == Reach(late(seen(d)), ts, P)
            IN IF missed = seen(d) THEN {ahead(missed)}
               ELSE {ahead(Reach(r, ts, P)) : r \in get_sched_info(p, missed)}
            : d \in IF m.deadline = 0 THEN get_sched_info(p, 0) ELSE {m.deadline}}

(* Mutant of AddRuntimeHist: the run time goes on to the next period. *)
AddRuntimeHist_kept(m) == m

(* pickPidAddRuntimeHist(): recorded, and counted anew. *)
AddRuntimeHist(m) == IF m.rt # 0 /\ m.last_ts # 0 THEN [m EXCEPT !.rt = 0] ELSE m

(* pickPidConsolidatePeriod(), the period of p has ended in event e. *)
ConsolidatePeriod(p, m, e) ==
  /\ IF p \in Deadline
     THEN /\ \E d \in NextDeadline(p, m[p], e.ts) :
               mon' = [m EXCEPT ![p] = [AddRuntimeHist(m[p]) EXCEPT !.deadline = d, !.nprd = TRUE]]
          /\ ended' = [ended EXCEPT ![p] = e.ts]
          /\ regular' = IF m[p].deadline = 0 THEN regular \cup {p}
                        ELSE IF m[p].deadline < e.ts /\ m[p].rt > Period[p] THEN regular \ {p}
                        ELSE regular
     ELSE mon' = [m EXCEPT ![p] = AddRuntimeHist(m[p])] /\ UNCHANGED <<ended, regular>>
  /\ tainted' = tainted \ {p}
  /\ wrong' = IF p \notin tainted /\ m[p].rt # e.ran THEN wrong \cup {p} ELSE wrong

(* A task starts to run, a deadline task perhaps in a new period. *)
Started(m, ts) ==
  [m EXCEPT !.last_ts = ts, !.nprd = FALSE, !.last_tsP = @ \/ m.nprd]

(* Mutant of Stopped: what a preempted task has run before is forgotten. *)
Stopped_last(m, ts) == IF m.last_ts # 0 THEN [m EXCEPT !.rt = ts - m.last_ts] ELSE m

(* The time since it has started is run time. *)
Stopped(m, ts) == IF m.last_ts # 0 THEN [m EXCEPT !.rt = @ + ts - m.last_ts] ELSE m

pickPidInfoS(e) ==
  \E m \in {[p \in Tasks |-> CASE p = e.prev -> Stopped(mon[p], e.ts)
                               [] p = e.next -> Started(mon[p], e.ts)
                               [] OTHER -> mon[p]]} :
    IF e.prev # Idle /\ Ends(e.prev, e.how) THEN ConsolidatePeriod(e.prev, m, e)
    ELSE mon' = m /\ UNCHANGED <<ended, tainted, regular, wrong>>

(* A wake-up starts a period; the deadline follows from the estimate.  That *)
(* of a deadline task, which has none, is forgotten.                       *)
pickPidInfoW(e) ==
  /\ mon' = [mon EXCEPT ![e.pid].last_tsP = TRUE,
                        ![e.pid].deadline =
                          IF ~mon[e.pid].last_tsP THEN @
                          ELSE IF CdfPeriod[e.pid] # 0 THEN e.ts + CdfPeriod[e.pid] ELSE 0]
  /\ UNCHANGED <<ended, tainted, regular, wrong>>

(* thread_ftrace() takes the next event. *)
Read(c) ==
  /\ buffer[c] # << >>
  /\ buffer' = [buffer EXCEPT ![c] = Tail(@)]
  /\ IF Head(buffer[c]).type = "wakeup" THEN pickPidInfoW(Head(buffer[c]))
     ELSE pickPidInfoS(Head(buffer[c]))
  /\ UNCHANGED <<kernel, lost>>

Kernel == \/ Tick
          \/ \E p \in Tasks : Wake(p) \/ Replenish(p)
          \/ \E c \in Cpus, next \in Tasks \cup {Idle}, how \in DOMAIN Left : Switch(c, next, how)
          \/ \E c \in Cpus : Lose(c)
Next == Kernel \/ (\E c \in Cpus : Read(c))
Spec == Init /\ [][Next]_vars

-----------------------------------------------------------------------------
(* However late the events are read, and whatever was lost before, the run *)
(* time recorded of a period no event of which was lost is what the task   *)
(* has run in it.                                                          *)
Measured == wrong = {}

(* The deadline kept of a deadline task lies at least a period after the   *)
(* end of the last period seen ("just add a period, we rely on             *)
(* periodicity"), whatever was lost.                                       *)
AfterSeen ==
  \A p \in Deadline : mon[p].deadline # 0 => ended[p] + Period[p] <= mon[p].deadline

(* And, if no overrun (dl_overrun) was seen since it was first read from   *)
(* /proc, it is no more than a period after the kernel's, or less than two *)
(* after that end.  Overruns are excepted: if /proc was read late, what it *)
(* said had moved on for them already, and is moved on for them again.     *)
Ahead ==
  /\ AfterSeen
  /\ \A p \in regular :
       mon[p].deadline # 0 => \/ mon[p].deadline <= kdl[p] + Period[p]
                             \/ mon[p].deadline < ended[p] + 2 * Period[p]
=============================================================================
