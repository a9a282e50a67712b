----------------------------- MODULE MCStartup ------------------------------
(***************************************************************************)
(* Startup on four CPUs: two cores with two threads (0, 2 and 1, 3), with  *)
(* SMT on, off or not readable, a core with three threads and one with     *)
(* one, and four cores without SMT; started for the first time, after an   *)
(* earlier run, and beside containers.                                     *)
(***************************************************************************)
EXTENDS Startup

Threads == [c \in CPUs |-> c % 2]
Triple  == [c \in CPUs |-> c \div 3]
Cores   == [c \in CPUs |-> c]

Missing == [here |-> FALSE, cpus |-> {}, excl |-> FALSE]
Both(s) == [c \in Containers |-> s]
Set(cpus, excl) == [here |-> TRUE, cpus |-> cpus, excl |-> excl]

System(core, online, smt, docker, system, cont, busy, ready) ==
  [online |-> online, core |-> core, smt |-> smt,
   gov |-> ready, freq |-> {}, qos |-> ready, turbo |-> TRUE,
   rt |-> "limited", rr |-> 100, irq |-> online,
   grp |-> [g \in Groups |-> IF g = "docker" THEN docker ELSE IF g = "system" THEN system ELSE cont[g]],
   busy |-> busy, own |-> online, threads |-> online, moved |-> FALSE,
   caps |-> {"NICE", "RESOURCE"}, locked |-> "no"]

Fresh    == System(Threads, CPUs, "on", Set(CPUs, FALSE), Missing, Both(Missing), {}, CPUs)
Three    == System(Triple, CPUs, "on", Set(CPUs, FALSE), Missing, Both(Missing), {}, CPUs)
Partial  == System(Threads, {0, 1, 2}, "on", Set({0, 1, 2}, FALSE), Missing, Both(Missing), {}, CPUs)
Bare     == System(Threads, CPUs, "on", Missing, Missing, Both(Missing), {}, {})
Occupied == System(Threads, CPUs, "unknown", Set(CPUs, TRUE), Missing,
                   [c \in Containers |-> IF c \in Known THEN Set({1, 2}, TRUE) ELSE Set({3}, FALSE)],
                   Containers, CPUs)
SMTIsOff == System(Threads, {0, 1}, "off", Set({0, 1}, FALSE), Missing, Both(Missing), {}, {0, 1})
NoDocker == System(Threads, {0, 1}, "off", Missing, Missing, Both(Missing), {}, {0, 1})
Again    == System(Cores, CPUs, "unsupported", Set({1, 2, 3}, TRUE), Set({0}, TRUE), Both(Set({1, 2, 3}, FALSE)), {}, CPUs)
Hole     == [System(Cores, {0, 1, 2}, "unsupported", Set({0, 1, 2}, FALSE), Missing,
                    Both(Set({0, 1}, FALSE)), Containers, CPUs) EXCEPT !.caps = {"NICE"}]

MCInputs == {Fresh, Three, Partial, Bare, Occupied, SMTIsOff, NoDocker, Again, Hole}

File(pol, prio, aff, cpus) ==
  [policy |-> pol, priority |-> prio, interval |-> Unset, clocksel |-> Unset, rrtime |-> Unset,
   lock_pages |-> Unset, setaffinity |-> aff, affinity |-> cpus]

MCFiles == {Unset, File("DEADLINE", Unset, "unspecified", {2, 3}), File(Unset, 5, "all", {1, 2}),
            File("RR", 0, "user", {1}), File(Unset, Unset, "user", Unset), File(Unset, Unset, "numa", {1})}
=============================================================================
