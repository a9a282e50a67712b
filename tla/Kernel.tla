------------------------------- MODULE Kernel -------------------------------
(***************************************************************************)
(* The files of /proc and /sys the program prepares the system through,    *)
(* and what the kernel does when they are written: CPU hot-plug, SMT       *)
(* control, and the CPU sets of CGroup v1.  Not code of the repository:    *)
(* modelled from how orchestrator/prepare.c and resmgnt.c use it.          *)
(*                                                                         *)
(* The state of the kernel is a record k:                                  *)
(*   online, core  CPUs that are on; the core a CPU belongs to             *)
(*   smt           smt/control: "on", "off", "unsupported", or "unknown"   *)
(*                 if it can not be read                                   *)
(*   gov, freq, qos  CPUs whose governor, frequency and power-QoS are as   *)
(*                 required, or whose files do not exist                   *)
(*   turbo         the turbo is on                                         *)
(*   rt, rr        RT throttling is on; the round robin slice in ms        *)
(*   irq           CPUs that serve device interrupts                       *)
(*   grp           CPU sets: docker's, its containers', the system's       *)
(*   busy          containers with tasks                                   *)
(*   own, threads  CPUs of the orchestrator and of the kernel threads      *)
(*   moved         tasks have been moved into the system's CPU set         *)
(*   caps          capabilities of the orchestrator                        *)
(*   locked        memory locked with mlockall()                           *)
(***************************************************************************)
EXTENDS Integers, FiniteSets, FiniteSetsExt

CONSTANTS N,           \* configured CPUs, named 0 .. N-1
          Containers   \* container IDs

ASSUME KernelAssumption == N \in Nat \ {0} /\ "docker" \notin Containers /\ "system" \notin Containers

CPUs   == 0 .. N - 1
Groups == {"docker", "system"} \cup Containers

KernelFiles ==
  [online : SUBSET CPUs, core : [CPUs -> CPUs],
   smt : {"on", "off", "unsupported", "unknown"},
   gov : SUBSET CPUs, freq : SUBSET CPUs, qos : SUBSET CPUs, turbo : BOOLEAN,
   rt : {"limited", "unlimited"}, rr : Nat, irq : SUBSET CPUs,
   grp : [Groups -> [here : BOOLEAN, cpus : SUBSET CPUs, excl : BOOLEAN]],
   busy : SUBSET Containers, own : SUBSET CPUs, threads : SUBSET CPUs, moved : BOOLEAN,
   caps : SUBSET {"NICE", "RESOURCE", "IPC_LOCK"},
   locked : {"no", "current", "future"}]

(* F of a value that is worked out once, however often F uses it. *)
Once(v, F(_)) == CHOOSE y \in {F(x) : x \in {v}} : TRUE

(* topology/thread_siblings_list names CPUs that are online. *)
Siblings(k, i) == {j \in k.online \ {i} : k.core[j] = k.core[i]}

(* The CPUs S go: their interrupts move to any other CPU, here the highest,
   and every CPU set of v1 loses them. *)
Offline(k, S) ==
  LET gone == S \cap k.online
      rest == k.online \ S
  IN [k EXCEPT !.online = rest,
               !.irq = (k.irq \ gone) \cup (IF gone \cap k.irq = {} THEN {} ELSE {Max(rest)}),
               !.grp = [g \in Groups |-> [k.grp[g] EXCEPT !.cpus = k.grp[g].cpus \ gone]]]

(* They come back to the root CPU set only, and without interrupts. *)
Online(k, S) == [k EXCEPT !.online = @ \cup S]

(* The threads SMT control switches: all but the first of every core. *)
Secondary(k) == {c \in CPUs : \E d \in CPUs : d < c /\ k.core[d] = k.core[c]}
CanSwitchSMT(k) == k.smt \in {"on", "off"}
SMTOff(k) == Offline([k EXCEPT !.smt = "off"], Secondary(k))
SMTOn(k)  == IF k.smt = "on" THEN k
             ELSE [k EXCEPT !.smt = "on", !.online = @ \cup Secondary(k)]

(***************************************************************************)
(* CPU sets.                                                               *)
(***************************************************************************)
Children(k, g) == IF g = "docker" THEN {c \in Containers : k.grp[c].here} ELSE {}
Peers(k, g)    == {h \in Groups \ {g} : k.grp[h].here /\ (h \in Containers <=> g \in Containers)}
Above(k, g)    == IF g \in Containers THEN k.grp["docker"].cpus ELSE k.online

(* No CPU of an exclusive set is in a set beside it. *)
Apart(k, g, cpus, excl) ==
  \A h \in Peers(k, g) : excl \/ k.grp[h].excl => cpus \cap k.grp[h].cpus = {}

CanSetCpus(k, g, cpus) ==
  /\ k.grp[g].here
  /\ cpus \subseteq Above(k, g)
  /\ \A c \in Children(k, g) : k.grp[c].cpus \subseteq cpus
  /\ Apart(k, g, cpus, k.grp[g].excl)

(* cpuset.cpus: an empty list is a write of no byte, which does nothing. *)
SetCpus(k, g, cpus) == IF cpus # {} /\ CanSetCpus(k, g, cpus)
                       THEN [k EXCEPT !.grp[g].cpus = cpus] ELSE k

(* cpuset.cpu_exclusive: below a set that is, above sets that are not. *)
CanSetExcl(k, g, excl) ==
  /\ k.grp[g].here
  /\ excl => (g \in Containers => k.grp["docker"].excl) /\ Apart(k, g, k.grp[g].cpus, TRUE)
  /\ ~excl => \A c \in Children(k, g) : ~k.grp[c].excl

SetExcl(k, g, excl) == IF CanSetExcl(k, g, excl) THEN [k EXCEPT !.grp[g].excl = excl] ELSE k

CanMakeGroup(k, g) == g \in Containers => k.grp["docker"].here

(* A new set has no CPU. *)
MakeGroup(k, g) == IF k.grp[g].here THEN k
                   ELSE [k EXCEPT !.grp[g] = [here |-> TRUE, cpus |-> {}, excl |-> FALSE]]

(* What the kernel sees to: CPU 0 can not go, a set lies in the one above,
   exclusive sets overlap no set beside them and are in exclusive ones. *)
CPUSetRules(k) ==
  /\ 0 \in k.online /\ k.irq \subseteq k.online
  /\ \A c \in Containers : k.grp[c].here => k.grp["docker"].here
  /\ \A g \in Groups : k.grp[g].here =>
       /\ k.grp[g].cpus \subseteq Above(k, g)
       /\ Apart(k, g, k.grp[g].cpus, k.grp[g].excl)
       /\ g \in Containers /\ k.grp[g].excl => k.grp["docker"].excl

Kernels == {k \in KernelFiles : CPUSetRules(k)}
=============================================================================
