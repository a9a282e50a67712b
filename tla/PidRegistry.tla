----------------------------- MODULE PidRegistry ----------------------------
(***************************************************************************)
(* What the node list promises to everybody who reads it under dataMutex.  *)
(* A scan takes one look at the processes of the machine, and later, in    *)
(* one step, what it found becomes the set of active PIDs; a PID that      *)
(* stays keeps the data collected for it; with trackpids a PID that leaves *)
(* is retired with its data and starts afresh if it is found again,        *)
(* without it the PID is forgotten.                                        *)
(***************************************************************************)
CONSTANT
  Pids                \* the PIDs there can be

VARIABLES
  live,               \* environment: the processes there are
  blind,              \* environment: scans have nowhere left to look
  trackpids,          \* prgset->trackpids, an option
  found,              \* what the last look found
  active,             \* PIDs being managed
  retired,            \* PIDs that left and are kept for their data
  measured            \* the PIDs of both kinds that hold run-time data

machine == <<live, blind, trackpids>>
listed  == <<active, retired, measured>>
rvars   == <<machine, found, listed>>

Init ==
  /\ live = {} /\ blind = FALSE /\ trackpids \in BOOLEAN /\ found = {}
  /\ active = {} /\ retired = {} /\ measured = {}

Start ==
  /\ \E p \in Pids \ live : live' = live \cup {p}
  /\ UNCHANGED <<blind, trackpids, found, listed>>

Exit ==
  /\ \E p \in live : live' = live \ {p}
  /\ UNCHANGED <<blind, trackpids, found, listed>>

Lose == ~blind /\ blind' = TRUE /\ UNCHANGED <<live, trackpids, found, listed>>

Look ==
  /\ found' = IF blind THEN {} ELSE live
  /\ UNCHANGED <<machine, listed>>

Refresh ==
  /\ active'   = found
  /\ retired'  = IF trackpids THEN (retired \cup active) \ found ELSE {}
  /\ measured' = measured \cap ((active \cap found) \cup retired')
  /\ UNCHANGED <<machine, found>>

Measure == measured' = measured \cup active /\ UNCHANGED <<machine, found, active, retired>>

Next == Start \/ Exit \/ Lose \/ Look \/ Refresh \/ Measure

Spec == Init /\ [][Next]_rvars
=============================================================================
