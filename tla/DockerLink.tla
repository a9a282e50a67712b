----------------------------- MODULE DockerLink -----------------------------
(***************************************************************************)
(* The docker link: the thread that runs `docker events`, reads one JSON   *)
(* line at a time from the pipe and hands container events to the update   *)
(* thread through the one-slot mailbox containerEvent, and updateDocker(), *)
(* which empties the mailbox.                                              *)
(*                                                                         *)
(* The link thread is the switch of dlink_thread_watch(): pstate is the    *)
(* local variable of that name and `at` says where in a pass of the loop   *)
(* the thread is: in the set-up code, before the switch, before the loop   *)
(* test of read_pipe() ("loop"), before entering fgets() ("fgets"),        *)
(* blocked in the read(2) of fgets() ("blocked"), before the stop test     *)
(* that ends a pass ("check"), or gone ("exit").  The update thread takes  *)
(* and clears the slot in two steps and without containerMutex.  Names     *)
(* that Lifecycle has too begin with Link, as proofs use the two together. *)
(***************************************************************************)
EXTENDS Naturals, Sequences

CONSTANTS
  MaxEvents,          \* bound: how many lines docker prints in a behaviour
  None                \* the null pointer

Flag == {0, 1}        \* C's int flags

Kind == {"start", "kill", "other", "junk"}

(* A line docker prints: its number and what it says.  "other" is any      *)
(* valid JSON the link ignores, "junk" a line that is not JSON.            *)
Line == [n : 1..MaxEvents, kind : Kind]

(* The events the link passes on: check_event() builds one only for        *)
(* "kill" (cnt_remove) and "start" (cnt_add).                              *)
ContainerEvent == [n : 1..MaxEvents, kind : {"start", "kill"}]

ASSUME MaxEventsAssumption == MaxEvents \in Nat \ {0}
ASSUME NoneAssumption == None \notin Line

VARIABLES
  printed,            \* number of lines docker has printed
  sent,               \* history: the container events among them
  pipe,               \* lines in the pipe, oldest first
  closed,             \* docker has closed its end of the pipe
  at,                 \* position of the link thread, see above
  pstate,             \* its state variable, 0..4
  feof,               \* the end-of-file flag of inpipe
  pending,            \* cntevent, the event it has built
  containerEvent,     \* the mailbox
  containerMutex,     \* 1 while the link thread holds containerMutex
  dlink_stop,         \* set by the SIGHUP handler
  hup,                \* a SIGHUP sent to the link thread and not yet taken
  upd,                \* position of the update thread
  lstevent,           \* the event updateDocker() is working on
  got                 \* history: the events updateDocker() has handled

docker  == <<printed, sent, pipe, closed>>
link    == <<at, pstate, feof, pending>>
updater == <<upd, lstevent, got>>
linkvars    == <<docker, link, containerEvent, containerMutex, dlink_stop, hup, updater>>

LinkInit ==
  /\ printed = 0 /\ sent = <<>> /\ pipe = <<>> /\ closed = 0
  /\ at = "setup" /\ pstate = 0 /\ feof = 0 /\ pending = None
  /\ containerEvent = None /\ containerMutex = 0
  /\ dlink_stop = 0 /\ hup = 0
  /\ upd = "idle" /\ lstevent = None /\ got = <<>>

-----------------------------------------------------------------------------
(* The docker client at the other end of the pipe. *)

Relevant(line) == line.kind \in {"start", "kill"}

DockerPrint ==
  /\ closed = 0 /\ printed < MaxEvents
  /\ printed' = printed + 1
  /\ \E k \in Kind :
       LET line == [n |-> printed + 1, kind |-> k]
       IN  /\ pipe' = Append(pipe, line)
           /\ sent' = IF Relevant(line) THEN Append(sent, line) ELSE sent
  /\ UNCHANGED <<closed, link, containerEvent, containerMutex, dlink_stop, hup, updater>>

DockerExit ==
  /\ closed = 0 /\ closed' = 1
  /\ UNCHANGED <<printed, sent, pipe, link, containerEvent, containerMutex,
                 dlink_stop, hup, updater>>

-----------------------------------------------------------------------------
(* The link thread. *)

(* Handler and mask are installed; a failing clock skips to the end. *)
Setup ==
  /\ at = "setup" /\ at' = "switch"
  /\ \E clockOk \in BOOLEAN : pstate' = IF clockOk THEN 0 ELSE 4
  /\ UNCHANGED <<docker, feof, pending, containerEvent, containerMutex,
                 dlink_stop, hup, updater>>

(* case 0: popen2(); on success the code falls through to case 1. *)
OpenPipe ==
  /\ at = "switch" /\ pstate = 0
  /\ \/ pstate' = 1 /\ at' = "switch"
     \/ pstate' = 0 /\ at' = "exit"
  /\ UNCHANGED <<docker, feof, pending, containerEvent, containerMutex,
                 dlink_stop, hup, updater>>

(* case 1: stop at end of file, otherwise enter read_pipe(). *)
BeginRead ==
  /\ at = "switch" /\ pstate = 1
  /\ IF feof = 1 THEN pstate' = 4 /\ at' = "check"
             ELSE pstate' = 1 /\ at' = "loop"
  /\ UNCHANGED <<docker, feof, pending, containerEvent, containerMutex,
                 dlink_stop, hup, updater>>

(* The loop test of read_pipe(). *)
ReadLoop ==
  /\ at = "loop"
  /\ at' = IF dlink_stop = 1 \/ feof = 1 THEN "check" ELSE "fgets"
  /\ UNCHANGED <<docker, pstate, feof, pending, containerEvent, containerMutex,
                 dlink_stop, hup, updater>>

(* The thread enters the read(2) of fgets(): from here a signal interrupts. *)
EnterRead ==
  /\ at = "fgets" /\ at' = "blocked"
  /\ UNCHANGED <<docker, pstate, feof, pending, containerEvent, containerMutex,
                 dlink_stop, hup, updater>>

(* fgets() returns a line and check_event() parses it: an event becomes    *)
(* pending, a line that is not JSON ends the thread, others are dropped.   *)
ReadLine ==
  /\ at = "blocked" /\ pipe # <<>>
  /\ pipe' = Tail(pipe)
  /\ LET line == Head(pipe)
     IN  \/ /\ Relevant(line)
            /\ pending' = line /\ pstate' = 2 /\ at' = "check"
         \/ /\ line.kind = "other"
            /\ at' = "check" /\ UNCHANGED <<pending, pstate>>
         \/ /\ line.kind = "junk"
            /\ at' = "exit" /\ UNCHANGED <<pending, pstate>>
  /\ UNCHANGED <<printed, sent, closed, feof, containerEvent, containerMutex,
                 dlink_stop, hup, updater>>

(* fgets() meets the end of the pipe and returns NULL. *)
ReadEOF ==
  /\ at = "blocked" /\ pipe = <<>> /\ closed = 1
  /\ feof' = 1 /\ at' = "loop"
  /\ UNCHANGED <<docker, pstate, pending, containerEvent, containerMutex,
                 dlink_stop, hup, updater>>

CheckSlot_nocheck ==
  /\ at = "switch" /\ pstate = 2 /\ containerMutex = 0
  /\ pstate' = 3 /\ containerMutex' = 1
  /\ at' = "check"
  /\ UNCHANGED <<docker, feof, pending, containerEvent, dlink_stop, hup, updater>>

(* case 2: look at the slot under the mutex; keep the mutex if it is free, *)
(* otherwise give it back and try again in the next pass.                  *)
CheckSlot ==
  /\ at = "switch" /\ pstate = 2 /\ containerMutex = 0
  /\ IF containerEvent = None
       THEN pstate' = 3 /\ containerMutex' = 1
       ELSE UNCHANGED <<pstate, containerMutex>>
  /\ at' = "check"
  /\ UNCHANGED <<docker, feof, pending, containerEvent, dlink_stop, hup, updater>>

Store_keeplock ==
  /\ at = "switch" /\ pstate = 3
  /\ containerEvent' = pending /\ pending' = None
  /\ pstate' = 1 /\ at' = "check"
  /\ UNCHANGED <<docker, feof, containerMutex, dlink_stop, hup, updater>>

Store_badstate ==
  /\ at = "switch" /\ pstate = 3
  /\ containerEvent' = pending /\ pending' = None
  /\ containerMutex' = 0
  /\ pstate' = pstate + 2 /\ at' = "check"
  /\ UNCHANGED <<docker, feof, dlink_stop, hup, updater>>

(* case 3: fill the slot and release the mutex taken in case 2. *)
Store ==
  /\ at = "switch" /\ pstate = 3
  /\ containerEvent' = pending /\ pending' = None
  /\ containerMutex' = 0
  /\ pstate' = 1 /\ at' = "check"
  /\ UNCHANGED <<docker, feof, dlink_stop, hup, updater>>

StopCheck_anystate ==
  /\ at = "check" /\ at' = "switch"
  /\ pstate' = IF dlink_stop = 1 THEN 4 ELSE pstate
  /\ UNCHANGED <<docker, feof, pending, containerEvent, containerMutex,
                 dlink_stop, hup, updater>>

StopCheck_deaf ==
  /\ at = "check" /\ at' = "switch"
  /\ pstate' = IF pstate > 3 /\ dlink_stop = 1 THEN 4 ELSE pstate
  /\ UNCHANGED <<docker, feof, pending, containerEvent, containerMutex,
                 dlink_stop, hup, updater>>

(* The test at the end of a pass; a pass that holds the mutex (state 3)    *)
(* finishes its store first.                                               *)
StopCheck ==
  /\ at = "check" /\ at' = "switch"
  /\ pstate' = IF pstate < 3 /\ dlink_stop = 1 THEN 4 ELSE pstate
  /\ UNCHANGED <<docker, feof, pending, containerEvent, containerMutex,
                 dlink_stop, hup, updater>>

(* case 4: close the pipe and leave. *)
Leave ==
  /\ at = "switch" /\ pstate = 4
  /\ at' = "exit"
  /\ UNCHANGED <<docker, pstate, feof, pending, containerEvent, containerMutex,
                 dlink_stop, hup, updater>>

(* The SIGHUP is taken: before sigaction() it ends the whole process       *)
(* ("killed"); later dlink_inthand() sets dlink_stop, and a read(2) the    *)
(* thread is blocked in returns with EINTR.                                *)
TakeHup ==
  /\ hup = 1 /\ hup' = 0
  /\ at \notin {"exit", "killed"}
  /\ IF at = "setup"
       THEN at' = "killed" /\ UNCHANGED dlink_stop
       ELSE /\ dlink_stop' = 1
            /\ \/ at = "blocked" /\ at' = "loop"
               \/ (at = "blocked" => pipe # <<>>) /\ at' = at
  /\ UNCHANGED <<docker, pstate, feof, pending, containerEvent, containerMutex, updater>>

-----------------------------------------------------------------------------
(* The update thread: updateDocker() and stopDockerThread(). *)

(* The test of the while loop; the scan that follows the loop is PidList's.*)
Poll ==
  /\ at # "killed"
  /\ upd = "idle" /\ containerEvent # None /\ upd' = "take"
  /\ UNCHANGED <<docker, link, containerEvent, containerMutex, dlink_stop, hup,
                 lstevent, got>>

Take ==
  /\ at # "killed"
  /\ upd = "take" /\ upd' = "clear"
  /\ lstevent' = containerEvent
  /\ UNCHANGED <<docker, link, containerEvent, containerMutex, dlink_stop, hup, got>>

Clear_late ==
  /\ at # "killed"
  /\ upd = "clear" /\ upd' = "handle"
  /\ UNCHANGED <<docker, link, containerEvent, containerMutex, dlink_stop, hup,
                 lstevent, got>>

Clear ==
  /\ at # "killed"
  /\ upd = "clear" /\ upd' = "handle"
  /\ containerEvent' = None
  /\ UNCHANGED <<docker, link, containerMutex, dlink_stop, hup, lstevent, got>>

(* The switch on the event; what it does to the lists is PidList's. *)
Handle ==
  /\ at # "killed"
  /\ upd = "handle" /\ upd' = "idle"
  /\ got' = Append(got, lstevent) /\ lstevent' = None
  /\ UNCHANGED <<docker, link, containerEvent, containerMutex, dlink_stop, hup>>

(* stopDockerThread(): signal the link thread, then join it. *)
SendHup ==
  /\ at # "killed"
  /\ upd = "idle" /\ upd' = "join" /\ hup' = 1
  /\ UNCHANGED <<docker, link, containerEvent, containerMutex, dlink_stop,
                 lstevent, got>>

JoinLink ==
  /\ upd = "join" /\ at = "exit" /\ upd' = "done"
  /\ UNCHANGED <<docker, link, containerEvent, containerMutex, dlink_stop, hup,
                 lstevent, got>>

-----------------------------------------------------------------------------
LinkStep ==
  \/ Setup \/ OpenPipe \/ BeginRead \/ ReadLoop \/ EnterRead
  \/ ReadLine \/ ReadEOF \/ CheckSlot \/ Store \/ StopCheck \/ Leave

UpdaterStep == Poll \/ Take \/ Clear \/ Handle \/ JoinLink

LinkNext == DockerPrint \/ DockerExit \/ LinkStep \/ TakeHup \/ UpdaterStep \/ SendHup

LinkSpec == LinkInit /\ [][LinkNext]_linkvars

(* The kernel runs every runnable thread and delivers pending signals.     *)
(* Nothing is assumed of docker, nor that anybody asks for a stop.         *)
LinkFairness == WF_linkvars(LinkStep) /\ WF_linkvars(TakeHup) /\ WF_linkvars(UpdaterStep)

LinkFairSpec == LinkSpec /\ LinkFairness

-----------------------------------------------------------------------------
(* The variables have their types. *)
LinkTypeOK ==
  /\ printed \in 0..MaxEvents
  /\ sent \in Seq(ContainerEvent) /\ pipe \in Seq(Line) /\ got \in Seq(ContainerEvent)
  /\ closed \in Flag /\ feof \in Flag
  /\ dlink_stop \in Flag /\ hup \in Flag /\ containerMutex \in Flag
  /\ at \in {"setup", "switch", "loop", "fgets", "blocked", "check", "exit", "killed"}
  /\ pstate \in 0..4
  /\ pending \in ContainerEvent \cup {None}
  /\ containerEvent \in ContainerEvent \cup {None}
  /\ lstevent \in ContainerEvent \cup {None}
  /\ upd \in {"idle", "take", "clear", "handle", "join", "done"}

(* The mutex is held exactly from the test of case 2 to the store of case 3*)
(* and the slot stays free in between although the update thread never     *)
(* takes the mutex; in particular a link thread that is gone does not hold *)
(* it.  dockerlink.c:277-292 and the guard "3 > pstate" at :301.           *)
LockInv ==
  /\ containerMutex = 1 <=> pstate = 3
  /\ pstate = 3 => /\ at \in {"check", "switch"}
                   /\ containerEvent = None /\ pending # None
  /\ upd \in {"take", "clear"} => containerEvent # None
  /\ upd = "clear" => lstevent = containerEvent
  /\ upd = "handle" => lstevent # None
  /\ pstate = 2 => pending # None
  /\ pstate < 2 => pending = None
  /\ at = "setup" => pstate = 0
  /\ at \in {"loop", "fgets", "blocked"} => pstate = 1

(* The places an event passes through, from the pipe to the history. *)
Elements(s) == {s[i] : i \in 1..Len(s)}
InHand   == IF upd = "handle" THEN {lstevent} ELSE {}
InSlot   == {containerEvent} \ {None}
Pending  == {pending} \ {None}
InFlight == InHand \cup InSlot \cup Pending \cup Elements(pipe)

Before(S, T) == \A x \in S, y \in T : x.n < y.n
Increasing(s) == \A i, j \in 1..Len(s) : i < j => s[i].n < s[j].n

(* Events never overtake each other: what updateDocker() has handled is    *)
(* older than what it has in hand, that is older than what is in the slot, *)
(* then what the link thread holds, then what is in the pipe.  So no event *)
(* is handled twice and none before an older one.                          *)
OrderInv ==
  /\ Increasing(got) /\ Increasing(pipe)
  /\ Before(Elements(got), InFlight)
  /\ Before(InHand, InSlot \cup Pending \cup Elements(pipe))
  /\ Before(InSlot, Pending \cup Elements(pipe))
  /\ Before(Pending, Elements(pipe))
  /\ \A x \in Elements(got) \cup InFlight : x.n <= printed

(* The link never overwrites an event the update thread has not taken: the *)
(* slot goes from empty to an event and from an event to empty only.       *)
NoOverwrite ==
  [][containerEvent' # containerEvent => None \in {containerEvent, containerEvent'}]_linkvars

(* The link implements the queue: what updateDocker() handles is always a  *)
(* prefix of the container events docker printed, and while nobody stops   *)
(* the link and docker prints JSON, all of them are handled in the end.    *)
Queue == INSTANCE EventQueue
           WITH Event <- ContainerEvent,
                open  <- at \notin {"exit", "killed"} /\ upd \notin {"join", "done"}

ImplementsQueue == Queue!FairSpec

(* A stop request that finds the link thread anywhere but between the loop *)
(* test of read_pipe() and its read(2) ends the thread, so that the join   *)
(* of stopDockerThread() returns.                                          *)
WakeupLost == at = "blocked" /\ dlink_stop = 1 /\ hup = 0

JoinReturns == (upd = "join") ~> (upd = "done" \/ at = "killed" \/ WakeupLost)
=============================================================================
