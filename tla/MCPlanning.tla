----------------------------- MODULE MCPlanning -----------------------------
(***************************************************************************)
(* Planning on two CPUs: three sections in four shapes, with attributes    *)
(* and resources of their own or shared.                                   *)
(***************************************************************************)
EXTENDS Planning

Task(pol, run, per) == [policy |-> pol, runtime |-> run, period |-> per]
Nothing == Task("NORMAL", 0, 0)
At(k, u) == [kind |-> k, up |-> u]

Shapes == { << At("cont", 0), At("pid", 1), At("pid", 1) >>,
            << At("img", 0), At("pid", 1), At("cont", 0) >>,
            << At("pid", 0), At("pid", 0), At("pid", 0) >>,
            << At("img", 0), At("cont", 1), At("pid", 2) >> }

(* Loads of 6/10 and 6/20 in periods that are harmonic, 9/15 that is not, and partly or
   not known ones. *)
Attrs == {Shared, Task("DEADLINE", 6, 10), Task("FIFO", 6, 20), Task("RR", 9, 15),
          Task("BATCH", 8, 0), Task("FIFO", 0, 0)}
Affs  == {Shared, -1, 0, 1}

Filled(shape, a, r) ==
  [s \in DOMAIN shape |-> [kind |-> shape[s].kind, up |-> shape[s].up, attr |-> a[s], aff |-> r[s]]]

MCInputs == {[attr |-> Nothing, aff |-> -1, secs |-> Filled(shape, a, r)] :
               shape \in Shapes, a \in [1..3 -> Attrs], r \in [1..3 -> Affs]}
=============================================================================
