---------------------------- MODULE MCLifecycle -----------------------------
(* Instances of Lifecycle: one traced CPU, or none. *)
EXTENDS Lifecycle

CONSTANTS cpu1
=============================================================================
