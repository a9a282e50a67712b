----------------------------- MODULE MCRealloc ------------------------------
(***************************************************************************)
(* Realloc on small instances: a deadline task of 6/10 and a FIFO task in  *)
(* one container, and a FIFO task of its own fixed on CPU 0, 6/20.  The    *)
(* FIFO task of the container is estimated at 6/20, too: with it all three *)
(* overload CPU 0, and any two of them fit.                                *)
(***************************************************************************)
EXTENDS Realloc

CONSTANT k1

MCContOf    == [p \in Pids |-> IF p <= 2 THEN k1 ELSE NoCont]
MCPolicy    == [p \in Pids |-> IF p = 1 THEN "DEADLINE" ELSE "FIFO"]
MCAffinity  == [p \in Pids |-> IF p = 3 THEN 0 ELSE -1]
MCCpuset    == [p \in Pids |-> Cpus]
MCEstimates == {[period |-> 20, runtime |-> 6]}
MCConfig    == << [period |-> 10, runtime |-> 6], [period |-> 0, runtime |-> 0],
                  [period |-> 20, runtime |-> 6] >>
=============================================================================
