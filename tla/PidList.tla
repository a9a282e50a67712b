------------------------------- MODULE PidList ------------------------------
(***************************************************************************)
(* The list of managed PIDs (nhead) and the update thread's work on it:    *)
(* scanNew(), which merges a fresh, sorted list of PIDs into it one node   *)
(* at a time, and the container removal of updateDocker().                 *)
(*                                                                         *)
(* The list is kept in two halves as the merge sees it: `done` ends with   *)
(* the node `tail` points to, `rest` is what tail->next starts; outside a  *)
(* merge `rest` is empty.  `head` is the node the global nhead points to,  *)
(* which during a merge is not always the first one: setPidResources()     *)
(* looks for siblings from there.  A node is named by the absolute value   *)
(* of its PID; a negative PID is a deactivated node (trackpids).           *)
(***************************************************************************)
EXTENDS Integers, Sequences, FiniteSets

CONSTANTS
  Pids,               \* the PIDs of the machine, positive numbers
  Containers,         \* container parameters of the configuration
  NoCont,             \* a PID whose parameters name no container
  ContOf,             \* the container parameter of each PID
  TrackModes,         \* values of the option trackpids to look at
  Detection,          \* use_cgroup at the start, which selectUpdate() binds
  GrowingPids,        \* environment: the kernel has not wrapped its PIDs
  DirMayVanish,       \* environment: the CGroup directory may go away
  Partitions,         \* ways to treat docker's CGroup to look at
  WritesMayFail       \* environment: writes to its exclusive flag may fail

ASSUME PidListAssumption ==
  /\ Pids \subseteq Nat \ {0} /\ IsFiniteSet(Pids)
  /\ NoCont \notin Containers
  /\ ContOf \in [Pids -> Containers \cup {NoCont}]
  /\ Detection \in {"cgroup", "parent", "cmdline"}
  /\ {GrowingPids, DirMayVanish, WritesMayFail} \cup TrackModes \subseteq BOOLEAN
  /\ Partitions \subseteq {"exclusive", "useall", "dry"}

VARIABLES
  live,               \* processes that exist and match the detection
  dir,                \* the CGroup directory of the containers exists
  trackpids,          \* prgset->trackpids, fixed at the start
  partition,          \* AFFINITY_USEALL, or a dry run for CGroups, or neither
  mode,               \* prgset->use_cgroup
  phase,              \* position of the update thread
  done, rest,         \* the list, see above
  head,               \* the node nhead points to, 0 for the null pointer
  lnew,               \* the new list, what is left of it
  found,              \* history: the PIDs of the last scan
  before,             \* history: the list when the merge began
  wasEmpty,           \* local of scanNew()
  group               \* the exclusive flag of docker's CGroup

env  == <<live, dir, trackpids, partition>>
list == <<done, rest, head>>
vars == <<env, mode, phase, list, lnew, found, before, wasEmpty, group>>

Abs(i) == IF i < 0 THEN -i ELSE i
Name(n) == Abs(n.pid)

(* sibl: MSK_STATSIBL; data: run-time data collected since its creation.   *)
Flag == {0, 1}
Node == [pid : Pids \cup {-p : p \in Pids}, sibl : Flag, data : Flag]

List   == done \o rest
Names(s)  == {Name(s[i]) : i \in DOMAIN s}
Active(s) == {s[i].pid : i \in {j \in DOMAIN s : s[j].pid > 0}}

(* excl: the flag; refused: the last write of it failed; listed, history:  *)
(* a scan has listed something.  prepareEnvironment() takes the flag away  *)
(* and, unless all CPUs are used, sets it.                                 *)
Group == [excl : Flag, refused : Flag, listed : Flag]
Prepared ==
  {g \in Group :
     /\ g.listed = 0
     /\ g.refused = 1 => WritesMayFail
     /\ g.refused = 0 /\ partition # "dry" => (g.excl = 1 <=> partition = "exclusive")}

Init ==
  /\ live = {} /\ dir = TRUE /\ trackpids \in TrackModes
  /\ mode = Detection
  /\ phase = "idle"
  /\ done = <<>> /\ rest = <<>> /\ head = 0 /\ lnew = <<>>
  /\ found = {} /\ before = <<>> /\ wasEmpty = TRUE
  /\ partition \in Partitions /\ group \in Prepared

-----------------------------------------------------------------------------
(* The machine: processes come and go at any time. *)

ProcStart ==
  /\ \E p \in Pids \ live :
       /\ GrowingPids => \A q \in live \cup Names(List) \cup Names(lnew) : p > q
       /\ live' = live \cup {p}
  /\ UNCHANGED <<dir, trackpids, partition, mode, phase, list, lnew, found, before, wasEmpty, group>>

ProcExit ==
  /\ \E p \in live : live' = live \ {p}
  /\ UNCHANGED <<dir, trackpids, partition, mode, phase, list, lnew, found, before, wasEmpty, group>>

DirVanish ==
  /\ DirMayVanish /\ dir /\ dir' = FALSE
  /\ UNCHANGED <<live, trackpids, partition, mode, phase, list, lnew, found, before, wasEmpty, group>>

(* updateStats(): the manage thread collects data of the active nodes; it  *)
(* holds dataMutex, so it is never in the middle of a merge.               *)
Measure ==
  /\ phase \in {"idle", "gathered", "unlocked"}
  /\ done' = [i \in DOMAIN done |-> [done[i] EXCEPT !.data = IF done[i].pid > 0 THEN 1 ELSE @]]
  /\ UNCHANGED <<env, mode, phase, rest, head, lnew, found, before, wasEmpty, group>>

-----------------------------------------------------------------------------
(* scanNew() *)

(* qsortll() and cmpPidItem: the PIDs of S in descending order. *)
SortDescending(S) ==
  {s \in [1..Cardinality(S) -> S] : \A i, j \in DOMAIN s : i < j => s[i] > s[j]}

Siblings(p, S) == {q \in S : q # p /\ ContOf[q] = ContOf[p] /\ ContOf[p] # NoCont}

(* node_push() with the defaults.  getContPids() presets the sibling flag  *)
(* when the container's file holds more than one PID, getPids() when it    *)
(* was given parents and found more than one process of any of them.       *)
NewNode(p, S) ==
  [pid |-> p, data |-> 0,
   sibl |-> IF \/ Detection = "cgroup" /\ Siblings(p, S) # {}
               \/ Detection = "parent" /\ S # {p}
              THEN 1 ELSE 0]

(* pidUpdate() and the sort.  Without the directory getContPids() changes  *)
(* use_cgroup and finds nothing; pidUpdate still points to getContPids().  *)
Gather ==
  /\ phase \in {"idle", "rescan"}
  /\ LET lost == Detection = "cgroup" /\ ~dir
         S    == IF lost THEN {} ELSE live
     IN  /\ found' = S
         /\ \E s \in SortDescending(S) : lnew' = [i \in DOMAIN s |-> NewNode(s[i], S)]
         /\ mode'  = IF lost THEN "parent" ELSE mode
  /\ wasEmpty' = (head = 0)
  /\ phase' = "gathered"
  /\ UNCHANGED <<env, list, before, group>>

(* dataMutex is taken; the dummy node comes before the list. *)
Lock ==
  /\ phase = "gathered" /\ phase' = "merge"
  /\ before' = done
  /\ rest' = done /\ done' = <<>>
  /\ UNCHANGED <<env, mode, head, lnew, found, wasEmpty, group>>

(* What a walk from nhead reaches while tail->next is the new list: from   *)
(* nhead to tail if nhead is behind us, otherwise the detached rest.  (The *)
(* new nodes have no parameters yet and never match.)                      *)
From(s, name) ==
  {Name(s[i]) : i \in {j \in DOMAIN s : \E k \in 1..j : Name(s[k]) = name}}
Reached(d, r, h) == IF h \in Names(d) THEN From(d, h) ELSE From(r, h)

MarkAll(s, S) == [i \in DOMAIN s |-> IF Name(s[i]) \in S THEN [s[i] EXCEPT !.sibl = 1] ELSE s[i]]

Splice_oneway(r, h) ==
  LET n   == Head(lnew)
      sib == Siblings(n.pid, Reached(done, r, h))
  IN  /\ done' = Append(done, [n EXCEPT !.sibl = IF sib # {} THEN 1 ELSE @])
      /\ rest' = r

(* The first new node comes behind tail, r comes behind it, and            *)
(* setPidResources(), walking from h, flags it and its siblings.           *)
Splice(r, h) ==
  LET n   == Head(lnew)
      sib == Siblings(n.pid, Reached(done, r, h))
  IN  /\ done' = Append(MarkAll(done, sib), [n EXCEPT !.sibl = IF sib # {} THEN 1 ELSE @])
      /\ rest' = MarkAll(r, sib)

Merging == phase = "merge" /\ rest # <<>> /\ lnew # <<>>
scanframe == <<env, mode, phase, found, before, wasEmpty, group>>

Insert_equal ==
  /\ Merging /\ Head(lnew).pid >= Name(Head(rest))
  /\ Splice(rest, head)
  /\ lnew' = Tail(lnew)
  /\ UNCHANGED <<head, scanframe>>

(* First branch: the new PID is missing from the list.                     *)
Insert ==
  /\ Merging /\ Head(lnew).pid > Name(Head(rest))
  /\ Splice(rest, head)
  /\ lnew' = Tail(lnew)
  /\ UNCHANGED <<head, scanframe>>

(* First branch with trackpids: the PID is back; its deactivated node is   *)
(* dropped, nhead becomes dummy.next, and the new node takes the place.    *)
Revive ==
  /\ Merging /\ trackpids /\ Head(lnew).pid = -Head(rest).pid
  /\ LET r == Tail(rest)
         h == IF done \o r = <<>> THEN 0 ELSE Name(Head(done \o r))
     IN  Splice(r, h) /\ head' = h
  /\ lnew' = Tail(lnew)
  /\ UNCHANGED scanframe

(* Second branch: a listed PID is gone.  A deactivated node is skipped, an *)
(* active one is deactivated or dropped.                                   *)
SkipRetired ==
  /\ Merging /\ Head(lnew).pid < Name(Head(rest)) /\ Head(rest).pid < 0
  /\ done' = Append(done, Head(rest)) /\ rest' = Tail(rest)
  /\ UNCHANGED <<head, lnew, scanframe>>

Retire ==
  /\ Merging /\ trackpids /\ Head(lnew).pid < Head(rest).pid
  /\ done' = Append(done, [Head(rest) EXCEPT !.pid = -@]) /\ rest' = Tail(rest)
  /\ UNCHANGED <<head, lnew, scanframe>>

Drop_keep ==
  /\ Merging /\ ~trackpids /\ Head(lnew).pid < Head(rest).pid
  /\ done' = Append(done, Head(rest)) /\ rest' = Tail(rest)
  /\ UNCHANGED <<head, lnew, scanframe>>

Drop_dangling ==
  /\ Merging /\ ~trackpids /\ Head(lnew).pid < Head(rest).pid
  /\ rest' = Tail(rest)
  /\ UNCHANGED <<done, head, lnew, scanframe>>

Drop ==
  /\ Merging /\ ~trackpids /\ Head(lnew).pid < Head(rest).pid
  /\ rest' = Tail(rest)
  /\ head' = IF done \o rest' = <<>> THEN 0 ELSE Name(Head(done \o rest'))
  /\ UNCHANGED <<done, lnew, scanframe>>

Keep_renew ==
  /\ Merging /\ Head(lnew).pid = Head(rest).pid
  /\ done' = Append(done, Head(lnew)) /\ rest' = Tail(rest)
  /\ lnew' = Tail(lnew)
  /\ UNCHANGED <<head, scanframe>>

(* Equal: the new node is freed, the listed one stays. *)
Keep ==
  /\ Merging /\ Head(lnew).pid = Head(rest).pid
  /\ done' = Append(done, Head(rest)) /\ rest' = Tail(rest)
  /\ lnew' = Tail(lnew)
  /\ UNCHANGED <<head, scanframe>>

(* The new list is used up: the end of the old one is deactivated, whether *)
(* it was already or not, or dropped.                                      *)
DropRest ==
  /\ phase = "merge" /\ lnew = <<>> /\ rest # <<>>
  /\ rest' = Tail(rest)
  /\ done' = IF trackpids THEN Append(done, [Head(rest) EXCEPT !.pid = -Abs(@)]) ELSE done
  /\ UNCHANGED <<head, lnew, scanframe>>

(* The old list is used up: nhead becomes dummy.next, the new nodes are    *)
(* appended and configured one by one, nhead becomes dummy.next again.     *)
(* While that goes on a walk from nhead sees the whole list, or nothing at *)
(* all if no old node is left.                                             *)
EndMerge ==
  /\ phase = "merge" /\ rest = <<>> /\ lnew = <<>>
  /\ head' = IF done = <<>> THEN 0 ELSE Name(Head(done))
  /\ phase' = "unlocked"
  /\ UNCHANGED <<env, mode, done, rest, lnew, found, before, wasEmpty, group>>

StartAppend ==
  /\ phase = "merge" /\ rest = <<>> /\ lnew # <<>>
  /\ head' = IF done = <<>> THEN 0 ELSE Name(Head(done))
  /\ phase' = "append"
  /\ UNCHANGED <<env, mode, done, rest, lnew, found, before, wasEmpty, group>>

AppendNew ==
  /\ phase = "append" /\ lnew # <<>>
  /\ Splice(<<>>, head)
  /\ lnew' = Tail(lnew)
  /\ UNCHANGED <<head, scanframe>>

EndAppend ==
  /\ phase = "append" /\ lnew = <<>>
  /\ head' = Name(Head(done))
  /\ phase' = "unlocked"
  /\ UNCHANGED <<env, mode, done, rest, lnew, found, before, wasEmpty, group>>

(* A write of the exclusive flag.  One that fails is only warned about.    *)
Written(v) ==
  IF partition = "dry" THEN {group}
  ELSE {[group EXCEPT !.excl = v, !.refused = 0]}
         \cup (IF WritesMayFail THEN {[group EXCEPT !.refused = 1]} ELSE {})

Regroup_typo ==
  /\ phase = "unlocked" /\ phase' = "idle"
  /\ \E g \in IF head = 0 /\ ~wasEmpty THEN Written(0)
              ELSE IF head # 0 /\ wasEmpty /\ partition # "useall" THEN Written(head) ELSE {group} :
       group' = [g EXCEPT !.listed = IF head = 0 THEN @ ELSE 1]
  /\ UNCHANGED <<env, mode, list, lnew, found, before, wasEmpty>>

Regroup_late ==
  /\ phase = "unlocked" /\ phase' = "idle"
  /\ LET empty == head = 0
     IN  \E g \in IF head = 0 /\ ~empty THEN Written(0)
                 ELSE IF head # 0 /\ empty /\ partition # "useall" THEN Written(1) ELSE {group} :
          group' = [g EXCEPT !.listed = IF head = 0 THEN @ ELSE 1]
  /\ UNCHANGED <<env, mode, list, lnew, found, before, wasEmpty>>

(* After the unlock: resetContCGroups() when the last node is gone,        *)
(* setContCGroups(), which leaves the flag alone with AFFINITY_USEALL,     *)
(* when there is a first one.                                              *)
Regroup ==
  /\ phase = "unlocked" /\ phase' = "idle"
  /\ \E g \in IF head = 0 /\ ~wasEmpty THEN Written(0)
              ELSE IF head # 0 /\ wasEmpty /\ partition # "useall" THEN Written(1) ELSE {group} :
       group' = [g EXCEPT !.listed = IF head = 0 THEN @ ELSE 1]
  /\ UNCHANGED <<env, mode, list, lnew, found, before, wasEmpty>>

-----------------------------------------------------------------------------
(* updateDocker(), cnt_remove: drop the PIDs of container c.  The test     *)
(* compares the address of a node's contid with the address of the string  *)
(* in the event, which check_event() has just allocated: Fresh stands for  *)
(* that address, a node's own string is named by the node.                 *)
Fresh == 0
ContidAddress(n) == Name(n)

DockerRemove(c) ==
  /\ phase = "idle"
  /\ LET gone(n) == ContidAddress(n) = Fresh
     IN  done' = IF \A i \in DOMAIN done : ~gone(done[i]) THEN done
                 ELSE IF trackpids
                   THEN [i \in DOMAIN done |-> IF gone(done[i]) THEN [done[i] EXCEPT !.pid = -Abs(@)]
                                                                ELSE done[i]]
                   ELSE SelectSeq(done, LAMBDA n : ~gone(n))
  /\ phase' = "rescan"
  /\ UNCHANGED <<env, mode, rest, head, lnew, found, before, wasEmpty, group>>

Scan == \/ Gather \/ Lock \/ Insert \/ Revive \/ SkipRetired \/ Retire \/ Drop \/ Keep
        \/ DropRest \/ EndMerge \/ StartAppend \/ AppendNew \/ EndAppend \/ Regroup

Next == \/ ProcStart \/ ProcExit \/ DirVanish \/ Measure \/ Scan
        \/ \E c \in Containers : DockerRemove(c)

Spec == Init /\ [][Next]_vars

(* The update thread runs as long as it is not stopped: it keeps scanning. *)
FairSpec == Spec /\ WF_vars(Scan)

-----------------------------------------------------------------------------
(* The variables have their types. *)
TypeOK ==
  /\ live \subseteq Pids /\ found \subseteq Pids /\ {dir, trackpids} \subseteq BOOLEAN
  /\ mode \in {"cgroup", "parent", "cmdline"}
  /\ phase \in {"idle", "rescan", "gathered", "merge", "append", "unlocked"}
  /\ {done, rest, lnew, before} \subseteq Seq(Node)
  /\ head \in Pids \cup {0}
  /\ wasEmpty \in BOOLEAN
  /\ partition \in Partitions /\ group \in Group

Descending(s) == \A i, j \in DOMAIN s : i < j => Name(s[i]) > Name(s[j])

(* The list is in strictly descending order of PIDs at every point of the  *)
(* merge, hence no PID is in it twice, and the new PIDs still to come      *)
(* belong behind everything merged so far.  The merge depends on it.       *)
SortedInv ==
  /\ Descending(List) /\ Descending(lnew)
  /\ \A i \in DOMAIN done, j \in DOMAIN lnew : phase \in {"merge", "append"} =>
       Name(done[i]) > Name(lnew[j])

(* nhead points to a listed node whenever anybody may follow it: at any    *)
(* time outside a merge, where it is the first node, and while there are   *)
(* new nodes whose siblings setPidResources() looks for.                   *)
HeadInv ==
  /\ (lnew # <<>> \/ phase # "merge") /\ head # 0 => head \in Names(List)
  /\ phase \notin {"merge", "append"} =>
       head = IF done = <<>> THEN 0 ELSE Name(Head(done))

(* A whole merge, seen under dataMutex, is one atomic refresh of the list  *)
(* to what the last look at the processes found (update.c:430-543).        *)
Settled == phase \notin {"merge", "append"}
Seen    == IF Settled THEN done ELSE before
Registry == INSTANCE PidRegistry
              WITH blind    <- Detection = "cgroup" /\ ~dir,
                   active   <- Active(Seen),
                   retired  <- Names(Seen) \ Active(Seen),
                   measured <- {Name(Seen[i]) : i \in {j \in DOMAIN Seen : Seen[j].data = 1}}
ImplementsRegistry == Registry!Spec

(* Between two scans docker's CGroup has exclusive CPUs while nodes are    *)
(* listed (unless AFFINITY_USEALL), and gave them up when the list ran     *)
(* empty; before anything is listed it is what prepareEnvironment() made   *)
(* of it.  A write that was refused is not repeated before the next change *)
(* from or to the empty list.  update.c:550-556, resmgnt.c:585, :670.      *)
GroupInv ==
  phase \in {"idle", "rescan"} /\ partition # "dry" /\ group.refused = 0 =>
    /\ done # <<>> => (group.excl = 1 <=> partition = "exclusive")
    /\ done = <<>> /\ group.listed = 1 => group.excl = 0

(* Two active PIDs of one container know of each other: updateSiblings()   *)
(* reallocates per container only if the flag is set.                      *)
(* resmgnt.c:392 "check siblings in container and update them".            *)
SiblingsMarked ==
  phase = "idle" => \A i \in DOMAIN done :
     done[i].pid > 0 /\ Siblings(done[i].pid, Active(done)) # {} => done[i].sibl = 1

(* A process that stays is managed in the end; one that stays away is not. *)
(* (A merge in progress shows nothing to anybody: Seen.)                   *)
Tracked == \A p \in Pids :
  /\ (p \in live) ~> (p \in Active(Seen) \/ p \notin live)
  /\ (p \notin live) ~> (p \notin Active(Seen) \/ p \in live)
=============================================================================
