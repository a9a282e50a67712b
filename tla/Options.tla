------------------------------ MODULE Options ------------------------------
(***************************************************************************)
(* The settings (prgset_t) as process_options() in orchestrator.c and      *)
(* parse_global() in lib/parse_config.c make them: the defaults, what one  *)
(* option changes, what the configuration file changes afterwards, and the *)
(* checks at the end.                                                      *)
(*                                                                         *)
(* Left out are the settings only the other modules read: the scheduling   *)
(* mode (-A, -S), bind (-b), the deadline flag (-d), tracing (-F), keeping *)
(* PIDs (-k), loops (-l), scanning (-P), run time (-r), quiet (-q), WCET   *)
(* (-w), SMI counters, the logs, names and memory nodes.                   *)
(***************************************************************************)
EXTENDS Kernel

CONSTANT Unset   \* a null pointer; no entry in the file

(* BATCH stands for idle, too: not the default, and without priorities. *)
Policies == {"OTHER", "BATCH", "FIFO", "RR", "DEADLINE"}
Detections == {"CGRP", "CNTPID", "CMDLINE"}
RealTime == {"FIFO", "RR"}

(* Bits of the dry-run mask. *)
DryBits == {"SMTOFF", "CPUGOV", "RTTHRT", "KTRDAF", "CGRPRT", "AFTY", "CPUPSH", "TSKPSH"}

Settings == [policy : Policies, priority : Int, interval : Int, clocksel : Int, rrtime : Nat,
             use_cgroup : Detections,
             setaffinity : {"unspecified", "user", "numa", "all"},
             affinity : (SUBSET CPUs) \cup {Unset},        \* the list, a string
             affinity_mask : (SUBSET CPUs) \cup {Unset},   \* the bit mask
             dryrun : SUBSET DryBits, blindrun : BOOLEAN, force : BOOLEAN, lock_pages : BOOLEAN]

(* parse_config_set_default() *)
Default == [policy |-> "OTHER", priority |-> 0, interval |-> 5000, clocksel |-> 0, rrtime |-> 0,
            use_cgroup |-> "CGRP", setaffinity |-> "unspecified", affinity |-> Unset,
            affinity_mask |-> Unset, dryrun |-> {}, blindrun |-> FALSE, force |-> FALSE,
            lock_pages |-> FALSE]

(***************************************************************************)
(* The list of CPUs is a string of ranges; what is kept of it is the set   *)
(* it means.  parse_bitmask() writes it: a range ends where a bit that is  *)
(* not set follows, and a mask has more bits than there are CPUs.          *)
(***************************************************************************)
ParseBitmask(mask) ==
  {r \in CPUs \X CPUs : /\ r[1] <= r[2] /\ r[1] .. r[2] \subseteq mask
                        /\ r[1] - 1 \notin mask /\ r[2] + 1 \notin mask}

(* What numa_parse_cpustring_all() and the kernel read in it. *)
Listed(list) == UNION {range[1] .. range[2] : range \in list}

CPUList(mask) == Once(mask, LAMBDA m : Listed(ParseBitmask(m)))

(* parse_cpumask(): no mask without a CPU. *)
ParseCPUMask(list) == IF list = {} THEN Unset ELSE list

(* -p *)
Prioritised(s, p) == [s EXCEPT !.priority = p,
                               !.policy = IF @ \in RealTime THEN @ ELSE "FIFO"]

(***************************************************************************)
(* The section "global" of the file, f, or Unset if there is none.  The    *)
(* policy and the affinity of the command line stand; numbers and flags of *)
(* the file replace it.                                                    *)
(***************************************************************************)
From(entry, old) == IF entry = Unset THEN old ELSE entry

FileAffinity(s, f) == IF s.setaffinity = "unspecified" THEN From(f.setaffinity, "unspecified")
                      ELSE s.setaffinity

(* An affinity mode without a list of CPUs is an error. *)
InvalidFile(s, f) == f # Unset /\ s.affinity = Unset /\ f.affinity = Unset
                     /\ FileAffinity(s, f) # "unspecified"

WithFile(s, f) ==
  LET list == IF s.affinity = Unset THEN f.affinity ELSE s.affinity
      mode == FileAffinity(s, f)
  IN IF f = Unset THEN s
     ELSE [s EXCEPT !.priority = From(f.priority, @), !.interval = From(f.interval, @),
                    !.clocksel = From(f.clocksel, @), !.rrtime = From(f.rrtime, @),
                    !.lock_pages = From(f.lock_pages, @),
                    !.policy = IF @ = "OTHER" THEN From(f.policy, "OTHER") ELSE @,
                    !.affinity = list,
                    !.setaffinity = IF mode = "unspecified" /\ list # Unset THEN "user" ELSE mode]

(***************************************************************************)
(* The checks, in their order.                                             *)
(***************************************************************************)
(* The deadline policy does not allow the orchestrator to fork. *)
NoFork(s) == IF s.policy = "DEADLINE" /\ s.use_cgroup # "CGRP"
             THEN [s EXCEPT !.policy = "FIFO"] ELSE s

InvalidSettings(s) ==
  \/ s.clocksel \notin 0 .. 3
  \/ s.priority \notin 0 .. 99
  \/ NoFork(s).policy = "DEADLINE" /\ s.interval < 1000 /\ ~s.force

(* A priority needs a policy that has priorities, and the other way round. *)
Matching(s) ==
  LET p == IF s.priority # 0 /\ s.policy \notin RealTime THEN [s EXCEPT !.policy = "FIFO"] ELSE s
  IN IF p.policy \in RealTime /\ p.priority = 0 THEN [p EXCEPT !.priority = 10] ELSE p

(* Mutant of Checked: the priority is matched before the policy changes. *)
Checked_swapped(s) == NoFork(Matching(s))

Checked(s) == Matching(NoFork(s))
=============================================================================
