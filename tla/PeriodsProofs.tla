--------------------------- MODULE PeriodsProofs ---------------------------
(***************************************************************************)
(* Proofs about Periods, for any tasks, CPUs, periods, losses and length   *)
(* of the buffers: where the deadline that is kept of a task lies, and     *)
(* that the run time recorded of a period is the true one.                 *)
(***************************************************************************)
EXTENDS Periods, TLAPS

Event == [type : {"wakeup"}, ts : Nat, pid : Tasks]
         \cup [type : {"switch"}, ts : Nat, prev : Tasks \cup {Idle}, how : DOMAIN Left,
               next : Tasks \cup {Idle}, ran : Nat]

(* Of the monitored values, the ones the deadline is computed from. *)
MonOK(m) == /\ DOMAIN m = DOMAIN NewMon
            /\ m.rt \in Int /\ m.last_ts \in Nat /\ m.deadline \in Nat

KernelTypes == /\ now \in Nat /\ on \in [Cpus -> Tasks \cup {Idle}]
               /\ kdl \in [Tasks -> Nat] /\ ran \in [Tasks -> Nat]
               /\ buffer \in [Cpus -> Seq(Event)]

Types == /\ KernelTypes
         /\ DOMAIN mon = Tasks /\ \A p \in Tasks : MonOK(mon[p])
         /\ ended \in [Deadline -> Nat]

(* Moving on by whole periods ends at or after the time to reach. *)
LEMMA ReachAfter ==
  ASSUME NEW d \in Nat, NEW ts \in Nat, NEW P \in Nat \ {0}
  PROVE  Reach(d, ts, P) \in Nat /\ Reach(d, ts, P) >= ts
<1>1. CASE d >= ts
  BY <1>1 DEF Reach
<1>2. CASE d < ts
  <2> DEFINE x == ts - d + P - 1
             q == x \div P
             m == x % P
  <2>1. x \in Nat /\ x >= P
    BY <1>2
  <2> HIDE DEF x
  <2>2. q \in Nat /\ m \in 0..(P-1) /\ x = P * q + m
    BY <2>1, SMTT(30)
  <2>3. P * q \in Nat
    BY <2>2
  <2> HIDE DEF q, m
  <2>4. Reach(d, ts, P) = d + P * q
    BY <1>2 DEF Reach, q, x
  <2> QED
    BY <2>1, <2>2, <2>3, <2>4, <1>2 DEF x
<1> QED
  BY <1>1, <1>2

(* Whatever is read from /proc, the new deadline is a period ahead. *)
LEMMA NextIsAhead ==
  ASSUME Types, NEW p \in Deadline, NEW m, MonOK(m), NEW ts \in Nat,
         NEW n \in NextDeadline(p, m, ts)
  PROVE  n \in Nat /\ ts + Period[p] <= n
<1> DEFINE P == Period[p]
           seen(d) == IF m.deadline = 0 THEN Reach(d, ts, P) ELSE m.deadline
           late(d) == IF d < ts /\ m.rt > P THEN d + P * ((m.rt - 1) \div P) ELSE d
           ahead(d) == IF d - ts < P THEN d + P ELSE d
<1>1. P \in Nat \ {0} /\ kdl[p] \in Nat /\ m.deadline \in Nat /\ m.rt \in Int
  BY PeriodsAssumption DEF Types, KernelTypes, MonOK
<1>2. ASSUME NEW d \in Nat, d >= ts PROVE ahead(d) \in Nat /\ ts + P <= ahead(d)
  BY <1>1, <1>2
<1>3. ASSUME NEW d \in Nat PROVE seen(d) \in Nat
  BY <1>1, ReachAfter
<1>4. ASSUME NEW d \in Nat PROVE late(d) \in Nat
  <2>1. CASE d < ts /\ m.rt > P
    <3>1. (m.rt - 1) \div P \in Nat
      BY <1>1, <2>1
    <3>2. P * ((m.rt - 1) \div P) \in Nat
      BY <1>1, <3>1
    <3> QED
      BY <2>1, <3>2
  <2> QED
    BY <2>1
<1>5. PICK d \in (IF m.deadline = 0 THEN get_sched_info(p, 0) ELSE {m.deadline}) :
        n \in (LET missed == Reach(late(seen(d)), ts, P)
               IN IF missed = seen(d) THEN {ahead(missed)}
                  ELSE {ahead(Reach(r, ts, P)) : r \in get_sched_info(p, missed)})
  BY DEF NextDeadline
<1>6. d \in Nat
  BY <1>1, <1>5 DEF get_sched_info
<1> DEFINE missed == Reach(late(seen(d)), ts, P)
<1>7. missed \in Nat /\ missed >= ts
  BY <1>1, <1>3, <1>4, <1>6, ReachAfter
<1> HIDE DEF P, seen, late, ahead, missed
<1>8. CASE n = ahead(missed)
  BY <1>2, <1>7, <1>8 DEF P
<1>9. CASE \E r \in get_sched_info(p, missed) : n = ahead(Reach(r, ts, P))
  <2>1. PICK r \in get_sched_info(p, missed) : n = ahead(Reach(r, ts, P))
    BY <1>9
  <2>2. r \in Nat
    BY <1>1, <1>7, <2>1 DEF get_sched_info
  <2>3. Reach(r, ts, P) \in Nat /\ Reach(r, ts, P) >= ts
    BY <1>1, <2>2, ReachAfter
  <2> QED
    BY <1>2, <2>1, <2>3 DEF P
<1> QED
  BY <1>5, <1>8, <1>9 DEF missed

LEMMA StartedStopped ==
  ASSUME NEW m, MonOK(m), NEW ts \in Nat
  PROVE  /\ MonOK(Started(m, ts)) /\ Started(m, ts).deadline = m.deadline
         /\ MonOK(Stopped(m, ts)) /\ Stopped(m, ts).deadline = m.deadline
         /\ MonOK(AddRuntimeHist(m)) /\ AddRuntimeHist(m).deadline = m.deadline
  BY DEF MonOK, NewMon, Started, Stopped, AddRuntimeHist

IInv == Types /\ AfterSeen

LEMMA AheadInit == ASSUME Init PROVE IInv
<1>1. Types
  BY PeriodsAssumption DEF Init, Types, KernelTypes, MonOK, NewMon
<1>2. AfterSeen
  BY PeriodsAssumption DEF Init, AfterSeen, NewMon
<1> QED
  BY <1>1, <1>2 DEF IInv

(* What a thread finds in its buffer. *)
LEMMA EventFields ==
  ASSUME NEW e \in Event
  PROVE  /\ e.ts \in Nat
         /\ e.type = "wakeup" => e.pid \in Tasks
         /\ e.type # "wakeup" => e.prev \in Tasks \cup {Idle}
  BY DEF Event

(* Writing into a buffer keeps its events events. *)
LEMMA WriteTypes ==
  ASSUME NEW B, B \in [Cpus -> Seq(Event)], NEW c \in Cpus, NEW e \in Event
  PROVE  [B EXCEPT ![c] = Append(@, e)] \in [Cpus -> Seq(Event)]
<1> HIDE DEF Event
<1> QED
  OBVIOUS

(* So does taking the oldest event out. *)
LEMMA TakeTypes ==
  ASSUME NEW B, B \in [Cpus -> Seq(Event)], NEW c \in Cpus, B[c] # << >>
  PROVE  /\ [B EXCEPT ![c] = Tail(@)] \in [Cpus -> Seq(Event)]
         /\ Head(B[c]) \in Event
<1> HIDE DEF Event
<1> QED
  OBVIOUS

(* The kernel does not touch what the threads have computed. *)
LEMMA KernelKeeps ==
  ASSUME IInv, Kernel
  PROVE  IInv'
<1> USE PeriodsAssumption
<1>1. mon' = mon /\ ended' = ended
  BY DEF Kernel, Tick, Wake, Replenish, Switch, Lose, orchestrator
<1>2. AfterSeen'
  BY <1>1 DEF IInv, AfterSeen
<1>3. (DOMAIN mon = Tasks /\ (\A p \in Tasks : MonOK(mon[p])) /\ ended \in [Deadline -> Nat])'
  BY <1>1 DEF IInv, Types
<1>4. KernelTypes'
  <2> HIDE DEF Event
  <2> USE DEF IInv, Types, KernelTypes
  <2>1. CASE Tick
    BY <2>1 DEF Tick
  <2>2. ASSUME NEW p \in Tasks, Wake(p) PROVE KernelTypes'
    <3>1. [type |-> "wakeup", ts |-> now, pid |-> p] \in Event
      BY DEF Event
    <3>2. buffer' \in [Cpus -> Seq(Event)]
      BY <2>2, <3>1, WriteTypes DEF Wake, Write
    <3> QED
      BY <2>2, <3>2 DEF Wake
  <2>3. ASSUME NEW p \in Tasks, Replenish(p) PROVE KernelTypes'
    BY <2>3 DEF Replenish
  <2>4. ASSUME NEW c \in Cpus, NEW next \in Tasks \cup {Idle}, NEW how \in DOMAIN Left,
               Switch(c, next, how)
        PROVE  KernelTypes'
    <3> DEFINE e == [type |-> "switch", ts |-> now, prev |-> on[c], how |-> how, next |-> next,
                     ran |-> IF on[c] = Idle THEN 0 ELSE ran[on[c]]]
    <3>1. e \in Event
      BY DEF Event
    <3>2. buffer' = [buffer EXCEPT ![c] = Append(@, e)]
      BY <2>4 DEF Switch, Write
    <3> HIDE DEF e
    <3>3. buffer' \in [Cpus -> Seq(Event)]
      BY <3>1, <3>2, WriteTypes
    <3>4. ran' \in [Tasks -> Nat] /\ on' \in [Cpus -> Tasks \cup {Idle}] /\ now' = now /\ kdl' = kdl
      BY <2>4 DEF Switch
    <3> QED
      BY <3>3, <3>4
  <2>5. ASSUME NEW c \in Cpus, Lose(c) PROVE KernelTypes'
    BY <2>5, TakeTypes DEF Lose, kernel
  <2> QED
    BY <2>1, <2>2, <2>3, <2>4, <2>5 DEF Kernel
<1> QED
  BY <1>2, <1>3, <1>4 DEF IInv, Types

(* A wake-up forgets the deadline of a deadline task. *)
LEMMA WakeupKeeps ==
  ASSUME IInv, NEW e \in Event, e.type = "wakeup", pickPidInfoW(e)
  PROVE  /\ DOMAIN mon' = Tasks /\ (\A p \in Tasks : MonOK(mon'[p]))
         /\ ended' \in [Deadline -> Nat] /\ AfterSeen'
<1>1. e.pid \in Tasks /\ e.ts \in Nat
  BY EventFields
<1>2. DOMAIN mon' = Tasks /\ ended' = ended
  BY DEF pickPidInfoW, IInv, Types
<1>3. ASSUME NEW p \in Tasks, p # e.pid PROVE mon'[p] = mon[p]
  BY <1>3 DEF pickPidInfoW, IInv, Types
<1>4. /\ MonOK(mon'[e.pid])
      /\ mon'[e.pid].deadline \in {mon[e.pid].deadline, 0} \/ CdfPeriod[e.pid] # 0
  <2> DEFINE d == IF ~mon[e.pid].last_tsP THEN mon[e.pid].deadline
                  ELSE IF CdfPeriod[e.pid] # 0 THEN e.ts + CdfPeriod[e.pid] ELSE 0
  <2>1. MonOK(mon[e.pid]) /\ e.pid \in DOMAIN mon
    BY <1>1 DEF IInv, Types
  <2>2. d \in Nat /\ (d \in {mon[e.pid].deadline, 0} \/ CdfPeriod[e.pid] # 0)
    BY <1>1, <2>1, PeriodsAssumption DEF MonOK
  <2>3. mon' = [mon EXCEPT ![e.pid].last_tsP = TRUE, ![e.pid].deadline = d]
    BY DEF pickPidInfoW
  <2> HIDE DEF d
  <2>4. mon'[e.pid] = [mon[e.pid] EXCEPT !.last_tsP = TRUE, !.deadline = d]
    BY <2>1, <2>3
  <2> QED
    BY <2>1, <2>2, <2>4 DEF MonOK, NewMon
<1>5. AfterSeen'
  BY <1>1, <1>2, <1>3, <1>4, PeriodsAssumption DEF AfterSeen, IInv
<1> QED
  BY <1>1, <1>2, <1>3, <1>4, <1>5 DEF IInv, Types

(* The deadline a switch leaves is the old one or, where a period ends, one *)
(* that NextDeadline allows.                                               *)
LEMMA SwitchKeeps ==
  ASSUME IInv, NEW e \in Event, e.type # "wakeup", pickPidInfoS(e)
  PROVE  /\ DOMAIN mon' = Tasks /\ (\A p \in Tasks : MonOK(mon'[p]))
         /\ ended' \in [Deadline -> Nat] /\ AfterSeen'
<1> DEFINE m == [p \in Tasks |-> CASE p = e.prev -> Stopped(mon[p], e.ts)
                                   [] p = e.next -> Started(mon[p], e.ts)
                                   [] OTHER -> mon[p]]
<1>1. e.ts \in Nat /\ e.prev \in Tasks \cup {Idle}
  BY EventFields
<1>2. ASSUME NEW p \in Tasks
      PROVE  MonOK(m[p]) /\ m[p].deadline = mon[p].deadline
  BY <1>1, StartedStopped DEF IInv, Types
<1>3. IF e.prev # Idle /\ Ends(e.prev, e.how) THEN ConsolidatePeriod(e.prev, m, e)
      ELSE mon' = m /\ UNCHANGED <<ended, tainted, regular, wrong>>
  BY DEF pickPidInfoS
<1>4. DOMAIN m = Tasks
  OBVIOUS
<1> HIDE DEF m
<1>5. CASE mon' = m /\ ended' = ended
  BY <1>2, <1>4, <1>5, PeriodsAssumption DEF IInv, Types, AfterSeen
<1>6. CASE e.prev # Idle /\ ConsolidatePeriod(e.prev, m, e)
  <2> DEFINE p == e.prev
  <2>1. p \in Tasks
    BY <1>1, <1>6
  <2> HIDE DEF p
  <2>2. CASE p \notin Deadline
    <3>1. mon' = [m EXCEPT ![p] = AddRuntimeHist(m[p])] /\ ended' = ended
      BY <1>6, <2>2 DEF ConsolidatePeriod, p
    <3>2. MonOK(AddRuntimeHist(m[p])) /\ AddRuntimeHist(m[p]).deadline = m[p].deadline
      BY <1>2, <2>1, StartedStopped
    <3> QED
      BY <1>2, <1>4, <2>1, <3>1, <3>2, PeriodsAssumption DEF IInv, Types, AfterSeen
  <2>3. CASE p \in Deadline
    <3>1. PICK d \in NextDeadline(p, m[p], e.ts) :
            mon' = [m EXCEPT ![p] = [AddRuntimeHist(m[p]) EXCEPT !.deadline = d, !.nprd = TRUE]]
      BY <1>6, <2>3 DEF ConsolidatePeriod, p
    <3>2. ended' = [ended EXCEPT ![p] = e.ts]
      BY <1>6, <2>3 DEF ConsolidatePeriod, p
    <3>3. d \in Nat /\ e.ts + Period[p] <= d
      BY <1>1, <1>2, <2>1, <2>3, <3>1, NextIsAhead DEF IInv
    <3>4. MonOK(AddRuntimeHist(m[p]))
      BY <1>2, <2>1, StartedStopped
    <3>5. MonOK(mon'[p]) /\ mon'[p].deadline = d
      BY <1>4, <2>1, <3>1, <3>3, <3>4 DEF MonOK, NewMon
    <3>6. \A q \in Tasks : q # p => mon'[q] = m[q]
      BY <1>4, <3>1
    <3>7. DOMAIN mon' = Tasks /\ ended' \in [Deadline -> Nat]
      BY <1>1, <1>4, <3>1, <3>2 DEF IInv, Types
    <3>8. AfterSeen'
      BY <1>2, <2>3, <3>2, <3>3, <3>5, <3>6, PeriodsAssumption DEF IInv, Types, AfterSeen
    <3> QED
      BY <1>2, <3>5, <3>6, <3>7, <3>8
  <2> QED
    BY <2>2, <2>3
<1> QED
  BY <1>3, <1>5, <1>6

(* Reading an event. *)
LEMMA ReadKeeps ==
  ASSUME IInv, NEW c \in Cpus, Read(c)
  PROVE  IInv'
<1> DEFINE e == Head(buffer[c])
<1>1. e \in Event /\ buffer' \in [Cpus -> Seq(Event)]
  BY TakeTypes DEF Read, IInv, Types, KernelTypes
<1>2. (IF e.type = "wakeup" THEN pickPidInfoW(e) ELSE pickPidInfoS(e))
      /\ UNCHANGED <<now, on, kdl, ran>>
  BY DEF Read, kernel
<1> HIDE DEF e
<1>3. DOMAIN mon' = Tasks /\ (\A p \in Tasks : MonOK(mon'[p]))
      /\ ended' \in [Deadline -> Nat] /\ AfterSeen'
  BY <1>1, <1>2, WakeupKeeps, SwitchKeeps
<1> QED
  BY <1>1, <1>2, <1>3 DEF IInv, Types, KernelTypes

LEMMA InductiveStep == ASSUME IInv, [Next]_vars PROVE IInv'
<1>1. CASE UNCHANGED vars
  BY <1>1 DEF IInv, Types, KernelTypes, AfterSeen, vars
<1> QED
  BY <1>1, KernelKeeps, ReadKeeps DEF Next

(* Whatever is lost or read late, the deadline kept of a task lies a period *)
(* after the end of the last period seen.                                  *)
THEOREM DeadlineAfterSeen == Spec => []AfterSeen
<1>1. Init => IInv
  BY AheadInit
<1>2. IInv /\ [Next]_vars => IInv'
  BY InductiveStep
<1>3. IInv => AfterSeen
  BY DEF IInv
<1> QED
  BY <1>1, <1>2, <1>3, PTL DEF Spec

-----------------------------------------------------------------------------
(***************************************************************************)
(* The run time that is recorded.  What is in a buffer, unread, says how   *)
(* the run time of a task has come about: before and after each event the  *)
(* task has run r in its period before it got the CPU, at l, if it has it. *)
(***************************************************************************)
Moment == [r : Int, l : Nat]

(* An event of the buffer leads from h to g in the account of p. *)
Step(p, e, h, g) ==
  /\ e.type = "wakeup" \/ p \notin {e.prev, e.next} => g = h
  /\ e.type = "switch" /\ p = e.prev =>
       /\ h.l # 0 /\ g.l = 0 /\ e.ran = h.r + e.ts - h.l
       /\ g.r = IF Ends(p, e.how) THEN 0 ELSE e.ran
  /\ e.type = "switch" /\ p = e.next /\ p # e.prev => h.l = 0 /\ g.l = e.ts /\ g.r = h.r

Account(p, s, H) ==
  /\ H \in Seq(Moment) /\ Len(H) = Len(s) + 1
  /\ \A i \in 1..Len(s) : Step(p, s[i], H[i], H[i + 1])

(* It ends with what the kernel has, *)
Present(p, h) == /\ h.l # 0 <=> on[Cpu[p]] = p
                 /\ ran[p] = h.r + (IF on[Cpu[p]] = p THEN now - h.l ELSE 0)

(* and begins with what the thread knows, if it has missed nothing. *)
Known(p, h) == p \notin tainted => mon[p].rt = h.r /\ (h.l # 0 => mon[p].last_ts = h.l)

First(H) == H[1]
Final(H) == H[Len(H)]
Unread(p) == buffer[Cpu[p]]
Accounted(p) == \E H \in Seq(Moment) : /\ Account(p, Unread(p), H)
                                       /\ Known(p, First(H)) /\ Present(p, Final(H))

(* The events of a task are in the buffer of its CPU. *)
HomeEvent(c, e) ==
  /\ e.ts # 0
  /\ e.type = "switch" => /\ e.prev # e.next
                          /\ \A p \in Tasks : p = e.prev \/ p = e.next => Cpu[p] = c

EventsHome == \A c \in Cpus : \A i \in 1..Len(buffer[c]) : HomeEvent(c, buffer[c][i])

(* A CPU runs its own tasks, and a task runs when its CPU runs it. *)
TasksHome == \A c \in Cpus : on[c] # Idle => Cpu[on[c]] = c
RunningOn == DOMAIN st = Tasks /\ \A p \in Tasks : st[p] = "running" <=> on[Cpu[p]] = p

(* Who has run has been seen to start. *)
SeenStart == \A p \in Tasks : mon[p].last_ts = 0 => mon[p].rt = 0

AInv == now # 0 /\ EventsHome /\ TasksHome /\ RunningOn /\ SeenStart /\ Measured /\ \A p \in Tasks : Accounted(p)

LEMMA AccountAppend ==
  ASSUME NEW p, NEW s \in Seq(Event), NEW H, Account(p, s, H),
         NEW e \in Event, NEW g \in Moment, Step(p, e, Final(H), g)
  PROVE  /\ Account(p, Append(s, e), Append(H, g)) /\ Append(H, g) \in Seq(Moment)
         /\ First(Append(H, g)) = First(H) /\ Final(Append(H, g)) = g
<1> USE DEF First, Final
<1> HIDE DEF Event, Moment
<1>1. H \in Seq(Moment) /\ Len(H) = Len(s) + 1 /\ Len(s) \in Nat
  BY DEF Account
<1>2. /\ Append(H, g) \in Seq(Moment) /\ Len(Append(H, g)) = Len(H) + 1
      /\ Append(H, g)[Len(H) + 1] = g
      /\ \A i \in 1..Len(H) : Append(H, g)[i] = H[i]
  BY <1>1
<1>3. /\ Len(Append(s, e)) = Len(s) + 1 /\ Append(s, e)[Len(s) + 1] = e
      /\ \A i \in 1..Len(s) : Append(s, e)[i] = s[i]
  OBVIOUS
<1>4. ASSUME NEW i \in 1..Len(Append(s, e))
      PROVE  Step(p, Append(s, e)[i], Append(H, g)[i], Append(H, g)[i + 1])
  <2>1. CASE i = Len(s) + 1
    BY <1>1, <1>2, <1>3, <2>1
  <2>2. CASE i \in 1..Len(s)
    <3>1. Step(p, s[i], H[i], H[i + 1])
      BY <2>2 DEF Account
    <3>2. i \in 1..Len(H) /\ i + 1 \in 1..Len(H)
      BY <1>1, <2>2
    <3> QED
      BY <1>2, <1>3, <2>2, <3>1, <3>2
  <2> QED
    BY <1>1, <1>3, <2>1, <2>2
<1>5. Account(p, Append(s, e), Append(H, g))
  BY <1>1, <1>2, <1>3, <1>4 DEF Account
<1> QED
  BY <1>1, <1>2, <1>5

LEMMA AccountTail ==
  ASSUME NEW p, NEW s \in Seq(Event), s # << >>, NEW H, Account(p, s, H)
  PROVE  /\ Account(p, Tail(s), Tail(H)) /\ Tail(H) \in Seq(Moment)
         /\ Final(Tail(H)) = Final(H) /\ First(H) \in Moment /\ First(Tail(H)) \in Moment
         /\ Step(p, Head(s), First(H), First(Tail(H)))
<1> USE DEF First, Final
<1> HIDE DEF Event, Moment
<1>1. H \in Seq(Moment) /\ Len(H) = Len(s) + 1 /\ Len(s) \in Nat \ {0}
  BY DEF Account
<1>2. H # << >> /\ Len(H) >= 2 /\ H[1] \in Moment /\ H[2] \in Moment
  BY <1>1
<1>3. /\ Tail(H) \in Seq(Moment) /\ Len(Tail(H)) = Len(H) - 1
      /\ \A i \in 1..Len(Tail(H)) : Tail(H)[i] = H[i + 1]
  BY <1>1, <1>2
<1>4. /\ Len(Tail(s)) = Len(s) - 1 /\ Head(s) = s[1]
      /\ \A i \in 1..Len(Tail(s)) : Tail(s)[i] = s[i + 1]
  BY <1>1
<1>5. ASSUME NEW i \in 1..Len(Tail(s))
      PROVE  Step(p, Tail(s)[i], Tail(H)[i], Tail(H)[i + 1])
  <2>1. i + 1 \in 1..Len(s) /\ i \in 1..Len(Tail(H)) /\ i + 1 \in 1..Len(Tail(H))
    BY <1>1, <1>3, <1>4
  <2>2. Step(p, s[i + 1], H[i + 1], H[(i + 1) + 1])
    BY <2>1 DEF Account
  <2> QED
    BY <1>3, <1>4, <2>1, <2>2
<1>6. Account(p, Tail(s), Tail(H))
  BY <1>1, <1>3, <1>4, <1>5 DEF Account
<1>7. Step(p, Head(s), H[1], H[2])
  <2>1. 1 \in 1..Len(s)
    BY <1>1
  <2>2. Step(p, s[1], H[1], H[1 + 1])
    BY <2>1 DEF Account
  <2> QED
    BY <1>4, <2>2
<1>8. Tail(H)[Len(Tail(H))] = H[Len(H)] /\ Tail(H)[1] = H[2]
  BY <1>1, <1>2, <1>3
<1> QED
  BY <1>2, <1>3, <1>6, <1>7, <1>8

(* Writing an event of its own CPU keeps the events at home, and so does    *)
(* taking one out.                                                         *)
LEMMA HomeWrite ==
  ASSUME NEW B, B \in [Cpus -> Seq(Event)],
         \A c \in Cpus : \A i \in 1..Len(B[c]) : HomeEvent(c, B[c][i]),
         NEW d \in Cpus, NEW e \in Event, HomeEvent(d, e),
         NEW C, C = [B EXCEPT ![d] = Append(@, e)]
  PROVE  \A c \in Cpus : \A i \in 1..Len(C[c]) : HomeEvent(c, C[c][i])
<1> HIDE DEF Event
<1> SUFFICES ASSUME NEW c \in Cpus, NEW i \in 1..Len(C[c]) PROVE HomeEvent(c, C[c][i])
  OBVIOUS
<1>1. CASE c # d
  BY <1>1
<1>2. CASE c = d
  <2>1. C[c] = Append(B[d], e) /\ B[d] \in Seq(Event)
    BY <1>2
  <2>2. CASE i = Len(B[d]) + 1
    BY <1>2, <2>1, <2>2
  <2>3. CASE i \in 1..Len(B[d])
    BY <1>2, <2>1, <2>3
  <2> QED
    BY <2>1, <2>2, <2>3
<1> QED
  BY <1>1, <1>2

LEMMA HomeTake ==
  ASSUME NEW B, B \in [Cpus -> Seq(Event)],
         \A c \in Cpus : \A i \in 1..Len(B[c]) : HomeEvent(c, B[c][i]),
         NEW d \in Cpus, B[d] # << >>, NEW C, C = [B EXCEPT ![d] = Tail(@)]
  PROVE  /\ \A c \in Cpus : \A i \in 1..Len(C[c]) : HomeEvent(c, C[c][i])
         /\ HomeEvent(d, Head(B[d]))
<1> HIDE DEF Event
<1>1. B[d] \in Seq(Event) /\ Len(B[d]) \in Nat \ {0}
  OBVIOUS
<1>2. HomeEvent(d, Head(B[d]))
  <2>1. 1 \in 1..Len(B[d]) /\ Head(B[d]) = B[d][1]
    BY <1>1
  <2> QED
    BY <2>1
<1>3. ASSUME NEW c \in Cpus, NEW i \in 1..Len(C[c]) PROVE HomeEvent(c, C[c][i])
  <2>1. CASE c # d
    BY <2>1
  <2>2. CASE c = d
    <3>1. C[c] = Tail(B[d])
      BY <2>2
    <3>2. /\ Len(Tail(B[d])) = Len(B[d]) - 1
          /\ \A j \in 1..Len(Tail(B[d])) : Tail(B[d])[j] = B[d][j + 1]
      BY <1>1
    <3>3. i \in 1..Len(Tail(B[d]))
      BY <3>1
    <3>4. i + 1 \in 1..Len(B[d])
      <4>1. i \in 1..(Len(B[d]) - 1)
        BY <3>2, <3>3
      <4> QED
        BY <1>1, <4>1
    <3>5. C[c][i] = B[d][i + 1]
      BY <3>1, <3>2, <3>3
    <3> QED
      BY <2>2, <3>4, <3>5
  <2> QED
    BY <2>1, <2>2
<1> QED
  BY <1>2, <1>3

(* The account of a task about to be used. *)
LEMMA AccountEnds ==
  ASSUME IInv, NEW p \in Tasks, NEW H, Account(p, Unread(p), H)
  PROVE  First(H) \in Moment /\ Final(H) \in Moment /\ Unread(p) \in Seq(Event)
<1> HIDE DEF Event, Moment
<1>1. Unread(p) \in Seq(Event)
  BY PeriodsAssumption DEF IInv, Types, KernelTypes, Unread
<1>2. H \in Seq(Moment) /\ Len(H) = Len(Unread(p)) + 1
  BY DEF Account
<1> QED
  BY <1>1, <1>2 DEF First, Final

(* The run time goes on with the clock of a task that has the CPU. *)
RunsOn(p) == /\ on'[Cpu[p]] = p <=> on[Cpu[p]] = p
             /\ ran'[p] = ran[p] + (IF on[Cpu[p]] = p THEN now' - now ELSE 0)

KnownStays(p) == /\ mon'[p].rt = mon[p].rt /\ mon'[p].last_ts = mon[p].last_ts
                 /\ p \notin tainted' => p \notin tainted

LEMMA KnownFrom ==
  ASSUME NEW p, NEW h, Known(p, h), KnownStays(p)
  PROVE  Known(p, h)'
  BY DEF Known, KnownStays

LEMMA PresentFrom ==
  ASSUME IInv, IInv', NEW p \in Tasks, NEW h \in Moment, Present(p, h), RunsOn(p)
  PROVE  Present(p, h)'
<1> DEFINE a == ran[p]
           b == ran'[p]
           has == on[Cpu[p]] = p
           has2 == on'[Cpu[p]] = p
           r == h.r
           l == h.l
<1>1. a \in Int /\ b \in Int /\ now \in Int /\ now' \in Int /\ r \in Int /\ l \in Int
  BY DEF IInv, Types, KernelTypes, Moment
<1>2. (l # 0 <=> has) /\ a = r + (IF has THEN now - l ELSE 0)
  BY DEF Present
<1>3. (has2 <=> has) /\ b = a + (IF has THEN now' - now ELSE 0)
  BY DEF RunsOn
<1> HIDE DEF a, b, has, has2, r, l
<1>4. (l # 0 <=> has2) /\ b = r + (IF has2 THEN now' - l ELSE 0)
  <2>1. CASE has
    <3>1. a = r + (now - l) /\ b = a + (now' - now) /\ has2 /\ l # 0
      BY <1>2, <1>3, <2>1
    <3>2. b = r + (now' - l)
      BY <1>1, <3>1
    <3> QED
      BY <3>1, <3>2
  <2>2. CASE ~has
    <3>1. a = r + 0 /\ b = a + 0 /\ ~has2 /\ l = 0
      BY <1>2, <1>3, <2>2
    <3>2. b = r + 0
      BY <1>1, <3>1
    <3> QED
      BY <3>1, <3>2
  <2> QED
    BY <2>1, <2>2
<1> QED
  BY <1>4 DEF Present, a, b, has, has2, r, l

(* Nothing is written or read of the task. *)
LEMMA Untouched ==
  ASSUME IInv, IInv', NEW p \in Tasks, Accounted(p), Unread(p)' = Unread(p),
         RunsOn(p), KnownStays(p)
  PROVE  Accounted(p)'
<1>1. PICK H \in Seq(Moment) : /\ Account(p, Unread(p), H)
                               /\ Known(p, First(H)) /\ Present(p, Final(H))
  BY DEF Accounted
<1>2. First(H) \in Moment /\ Final(H) \in Moment
  BY <1>1, AccountEnds
<1>3. Known(p, First(H))'
  BY <1>1, KnownFrom
<1>4. Present(p, Final(H))'
  BY <1>1, <1>2, PresentFrom
<1> QED
  BY <1>1, <1>3, <1>4 DEF Accounted

(* An event is written. *)
Writes(p, e) ==
  \A h \in Moment : Present(p, h) => \E g \in Moment : Step(p, e, h, g) /\ Present(p, g)'

LEMMA Written ==
  ASSUME IInv, NEW p \in Tasks, Accounted(p), NEW e \in Event,
         Unread(p)' = Append(Unread(p), e), KnownStays(p), Writes(p, e)
  PROVE  Accounted(p)'
<1> HIDE DEF Event, Moment
<1>1. PICK H \in Seq(Moment) : /\ Account(p, Unread(p), H)
                               /\ Known(p, First(H)) /\ Present(p, Final(H))
  BY DEF Accounted
<1>2. First(H) \in Moment /\ Final(H) \in Moment /\ Unread(p) \in Seq(Event)
  BY <1>1, AccountEnds
<1>3. PICK g \in Moment : Step(p, e, Final(H), g) /\ Present(p, g)'
  BY <1>1, <1>2 DEF Writes
<1> DEFINE G == Append(H, g)
<1>4. /\ Account(p, Append(Unread(p), e), G) /\ G \in Seq(Moment)
      /\ First(G) = First(H) /\ Final(G) = g
  BY <1>1, <1>2, <1>3, AccountAppend
<1> HIDE DEF G
<1>5. Known(p, First(G))'
  <2>1. Known(p, First(H))'
    BY <1>1, KnownFrom
  <2> QED
    BY <1>4, <2>1
<1>6. Present(p, Final(G))'
  BY <1>3, <1>4
<1>7. Account(p, Unread(p)', G)
  BY <1>4
<1> QED
  BY <1>4, <1>5, <1>6, <1>7 DEF Accounted

(* The oldest event is taken out. *)
Takes(p) ==
  \A h, g \in Moment : Step(p, Head(Unread(p)), h, g) /\ Known(p, h) => Known(p, g)'

LEMMA Taken ==
  ASSUME IInv, IInv', NEW p \in Tasks, Accounted(p), Unread(p) # << >>,
         Unread(p)' = Tail(Unread(p)), RunsOn(p), Takes(p)
  PROVE  Accounted(p)'
<1> HIDE DEF Event, Moment
<1>1. PICK H \in Seq(Moment) : /\ Account(p, Unread(p), H)
                               /\ Known(p, First(H)) /\ Present(p, Final(H))
  BY DEF Accounted
<1>2. Unread(p) \in Seq(Event) /\ Final(H) \in Moment
  BY <1>1, AccountEnds
<1> DEFINE G == Tail(H)
<1>3. /\ Account(p, Tail(Unread(p)), G) /\ G \in Seq(Moment)
      /\ Final(G) = Final(H) /\ First(H) \in Moment /\ First(G) \in Moment
      /\ Step(p, Head(Unread(p)), First(H), First(G))
  BY <1>1, <1>2, AccountTail
<1> HIDE DEF G
<1>4. Known(p, First(G))'
  BY <1>1, <1>3 DEF Takes
<1>5. Present(p, Final(G))'
  <2>1. Present(p, Final(H))'
    BY <1>1, <1>2, PresentFrom
  <2> QED
    BY <1>3, <2>1
<1>6. Account(p, Unread(p)', G)
  BY <1>3
<1> QED
  BY <1>3, <1>4, <1>5, <1>6 DEF Accounted

LEMMA StaysWith ==
  ASSUME mon' = mon, tainted \subseteq tainted', NEW p \in Tasks
  PROVE  KnownStays(p)
  BY DEF KnownStays

LEMMA RunsOnWith ==
  ASSUME IInv, NEW p \in Tasks, on' = on, ran' = ran, now' = now
  PROVE  RunsOn(p)
<1>1. ran[p] \in Int /\ now \in Int
  BY DEF IInv, Types, KernelTypes
<1>2. ran'[p] = ran[p] + 0 /\ now' - now = 0
  BY <1>1
<1> QED
  BY <1>2 DEF RunsOn

LEMMA TickAccounts ==
  ASSUME IInv, IInv', AInv, Tick
  PROVE  AInv'
<1>1. /\ now' = now + 1 /\ on' = on /\ st' = st /\ buffer' = buffer /\ mon' = mon
      /\ tainted' = tainted /\ wrong' = wrong
      /\ ran' = [p \in Tasks |-> IF st[p] = "running" THEN ran[p] + 1 ELSE ran[p]]
  BY DEF Tick, orchestrator
<1>2. now \in Nat /\ ran \in [Tasks -> Nat]
  BY DEF IInv, Types, KernelTypes
<1>3. ASSUME NEW p \in Tasks PROVE Accounted(p)'
  <2>1. st[p] = "running" <=> on[Cpu[p]] = p
    BY DEF AInv, RunningOn
  <2>2. RunsOn(p)
    <3>1. now' - now = 1 /\ ran[p] + 0 = ran[p]
      BY <1>1, <1>2
    <3>2. ran'[p] = ran[p] + (IF on[Cpu[p]] = p THEN 1 ELSE 0)
      BY <1>1, <2>1, <3>1
    <3> QED
      BY <1>1, <3>1, <3>2 DEF RunsOn
  <2>3. Unread(p)' = Unread(p) /\ KnownStays(p) /\ Accounted(p)
    BY <1>1 DEF Unread, KnownStays, AInv
  <2> QED
    BY <2>2, <2>3, Untouched
<1>4. (now # 0 /\ EventsHome /\ TasksHome /\ RunningOn /\ SeenStart /\ Measured)'
  BY <1>1, <1>2 DEF AInv, EventsHome, TasksHome, RunningOn, SeenStart, Measured
<1> QED
  BY <1>3, <1>4 DEF AInv

LEMMA WakeAccounts ==
  ASSUME IInv, IInv', AInv, NEW q \in Tasks, Wake(q)
  PROVE  AInv'
<1> DEFINE e == [type |-> "wakeup", ts |-> now, pid |-> q]
<1>1. /\ now' = now /\ on' = on /\ mon' = mon /\ tainted' = tainted /\ wrong' = wrong /\ ran' = ran
      /\ st[q] = "asleep" /\ st' = [st EXCEPT ![q] = "ready"]
      /\ buffer' = [buffer EXCEPT ![Cpu[q]] = Append(@, e)]
  BY DEF Wake, Write, orchestrator
<1>2. /\ now \in Nat /\ now # 0 /\ buffer \in [Cpus -> Seq(Event)]
      /\ Cpu \in [Tasks -> Cpus] /\ Cpu[q] \in Cpus
  BY PeriodsAssumption DEF IInv, Types, KernelTypes, AInv
<1>3. e \in Event /\ HomeEvent(Cpu[q], e) /\ e.type = "wakeup"
  BY <1>2 DEF Event, HomeEvent
<1> HIDE DEF e
<1>4. EventsHome'
  BY <1>1, <1>2, <1>3, HomeWrite DEF AInv, EventsHome
<1>5. TasksHome' /\ RunningOn'
  BY <1>1 DEF AInv, TasksHome, RunningOn
<1>6. now' # 0 /\ SeenStart' /\ Measured'
  BY <1>1 DEF AInv, SeenStart, Measured
<1>7. ASSUME NEW p \in Tasks PROVE Accounted(p)'
  <2>1. Accounted(p) /\ RunsOn(p) /\ KnownStays(p)
    BY <1>1, RunsOnWith, StaysWith DEF AInv
  <2>2. CASE Cpu[p] # Cpu[q]
    <3>1. Unread(p)' = Unread(p)
      BY <1>1, <1>2, <2>2 DEF Unread
    <3> QED
      BY <2>1, <3>1, Untouched
  <2>3. CASE Cpu[p] = Cpu[q]
    <3>1. Unread(p)' = Append(Unread(p), e)
      BY <1>1, <1>2, <2>3 DEF Unread
    <3>2. ASSUME NEW h \in Moment, Present(p, h) PROVE Step(p, e, h, h) /\ Present(p, h)'
      BY <1>3, <2>1, <3>2, PresentFrom DEF Step
    <3>3. Writes(p, e)
      BY <3>2 DEF Writes
    <3> QED
      BY <1>3, <2>1, <3>1, <3>3, Written
  <2> QED
    BY <2>2, <2>3
<1> QED
  BY <1>4, <1>5, <1>6, <1>7 DEF AInv

LEMMA ReplenishAccounts ==
  ASSUME IInv, IInv', AInv, NEW q \in Tasks, Replenish(q)
  PROVE  AInv'
<1>1. /\ now' = now /\ on' = on /\ mon' = mon /\ tainted' = tainted /\ wrong' = wrong /\ ran' = ran
      /\ st[q] = "throttled" /\ st' = [st EXCEPT ![q] = "ready"] /\ buffer' = buffer
  BY DEF Replenish, orchestrator
<1>2. ASSUME NEW p \in Tasks PROVE Accounted(p)'
  <2>1. Accounted(p) /\ RunsOn(p) /\ KnownStays(p)
    BY <1>1, RunsOnWith, StaysWith DEF AInv
  <2>2. Unread(p)' = Unread(p)
    BY <1>1 DEF Unread
  <2> QED
    BY <2>1, <2>2, Untouched
<1>3. TasksHome' /\ RunningOn'
  BY <1>1 DEF AInv, TasksHome, RunningOn
<1>4. now' # 0 /\ EventsHome' /\ SeenStart' /\ Measured'
  BY <1>1 DEF AInv, EventsHome, SeenStart, Measured
<1> QED
  BY <1>2, <1>3, <1>4 DEF AInv

(* The account of a task across a switch of its CPU. *)
LEMMA SwitchWrites ==
  ASSUME IInv, IInv', AInv, NEW c \in Cpus, NEW next \in Tasks \cup {Idle}, NEW how \in DOMAIN Left,
         Switch(c, next, how), NEW p \in Tasks, Cpu[p] = c, NEW e,
         e.type = "switch", e.ts = now, e.prev = on[c], e.how = how, e.next = next,
         on[c] # Idle => e.ran = ran[on[c]]
  PROVE  Writes(p, e)
<1> DEFINE prev == on[c]
<1>1. /\ now' = now /\ on' = [on EXCEPT ![c] = next] /\ next # prev
      /\ next # Idle => st[next] = "ready"
      /\ ran' = [q \in Tasks |-> IF q = prev /\ Ends(q, how) THEN 0 ELSE ran[q]]
  BY DEF Switch
<1>2. /\ now \in Nat /\ now # 0 /\ ran \in [Tasks -> Nat] /\ on \in [Cpus -> Tasks \cup {Idle}]
      /\ Idle \notin Tasks
  BY PeriodsAssumption DEF IInv, Types, KernelTypes, AInv
<1>3. on'[Cpu[p]] = next
  BY <1>1, <1>2
<1> SUFFICES ASSUME NEW h \in Moment, Present(p, h)
             PROVE  \E g \in Moment : Step(p, e, h, g) /\ Present(p, g)'
  BY DEF Writes
<1>4. h.r \in Int /\ h.l \in Nat /\ (h.l # 0 <=> prev = p)
      /\ ran[p] = h.r + (IF prev = p THEN now - h.l ELSE 0)
  BY DEF Moment, Present
<1> HIDE DEF prev
<1>5. CASE p = prev
  <2>1. PICK g \in Moment : g.l = 0 /\ g.r = IF Ends(p, how) THEN 0 ELSE ran[p]
    <3>1. [r |-> IF Ends(p, how) THEN 0 ELSE ran[p], l |-> 0] \in Moment
      BY <1>2 DEF Moment
    <3> QED
      BY <3>1
  <2>2. h.l # 0 /\ ran[p] = h.r + (now - h.l)
    BY <1>4, <1>5
  <2>3. e.ran = ran[p] /\ e.prev = p
    BY <1>2, <1>5 DEF prev
  <2>4. e.ran = h.r + e.ts - h.l
    <3>1. h.r + (now - h.l) = h.r + now - h.l
      BY <1>2, <1>4
    <3> QED
      BY <2>2, <2>3, <3>1
  <2>5. Step(p, e, h, g)
    BY <2>1, <2>2, <2>3, <2>4 DEF Step
  <2>6. Present(p, g)'
    <3>1. on'[Cpu[p]] # p /\ ran'[p] = g.r + 0
      <4>1. ran'[p] = g.r /\ g.r \in Int
        BY <1>1, <1>2, <1>5, <2>1
      <4> QED
        BY <1>1, <1>3, <1>5, <4>1
    <3> QED
      BY <2>1, <3>1 DEF Present
  <2> QED
    BY <2>1, <2>5, <2>6
<1>6. CASE p # prev /\ p = next
  <2>1. PICK g \in Moment : g.l = now /\ g.r = h.r
    <3>1. [r |-> h.r, l |-> now] \in Moment
      BY <1>2, <1>4 DEF Moment
    <3> QED
      BY <3>1
  <2>2. h.l = 0 /\ ran[p] = h.r
    BY <1>2, <1>4, <1>6
  <2>3. Step(p, e, h, g)
    BY <1>6, <2>1, <2>2 DEF Step, prev
  <2>4. Present(p, g)'
    <3>1. ran'[p] = g.r + (now - g.l) /\ on'[Cpu[p]] = p
      BY <1>1, <1>2, <1>3, <1>4, <1>6, <2>1, <2>2
    <3> QED
      BY <1>1, <1>2, <2>1, <3>1 DEF Present
  <2> QED
    BY <2>1, <2>3, <2>4
<1>7. CASE p # prev /\ p # next
  <2>1. Step(p, e, h, h)
    BY <1>7 DEF Step, prev
  <2>2. RunsOn(p)
    <3>1. ran'[p] = ran[p] + 0 /\ on'[Cpu[p]] # p /\ on[Cpu[p]] # p
      BY <1>1, <1>2, <1>3, <1>7 DEF prev
    <3> QED
      BY <3>1 DEF RunsOn
  <2> QED
    BY <2>1, <2>2, PresentFrom
<1> QED
  BY <1>5, <1>6, <1>7

LEMMA SwitchAccounts ==
  ASSUME IInv, IInv', AInv, NEW c \in Cpus, NEW next \in Tasks \cup {Idle}, NEW how \in DOMAIN Left,
         Switch(c, next, how)
  PROVE  AInv'
<1> DEFINE prev == on[c]
           e == [type |-> "switch", ts |-> now, prev |-> prev, how |-> how, next |-> next,
                 ran |-> IF prev = Idle THEN 0 ELSE ran[prev]]
<1>1. /\ now' = now /\ on' = [on EXCEPT ![c] = next] /\ next # prev
      /\ next # Idle => st[next] = "ready" /\ Cpu[next] = c
      /\ ran' = [q \in Tasks |-> IF q = prev /\ Ends(q, how) THEN 0 ELSE ran[q]]
      /\ st' = [p \in Tasks |-> IF p = next THEN "running"
                                ELSE IF p = prev THEN Left[how] ELSE st[p]]
      /\ buffer' = [buffer EXCEPT ![c] = Append(@, e)]
      /\ mon' = mon /\ tainted' = tainted /\ wrong' = wrong
  BY DEF Switch, Write, orchestrator
<1>2. /\ now \in Nat /\ now # 0 /\ ran \in [Tasks -> Nat] /\ on \in [Cpus -> Tasks \cup {Idle}]
      /\ buffer \in [Cpus -> Seq(Event)] /\ Cpu \in [Tasks -> Cpus] /\ Idle \notin Tasks
  BY PeriodsAssumption DEF IInv, Types, KernelTypes, AInv
<1>3. prev \in Tasks \cup {Idle} /\ (prev # Idle => Cpu[prev] = c)
  BY <1>2 DEF AInv, TasksHome
<1>4. /\ e \in Event /\ e.type = "switch" /\ e.ts = now /\ e.prev = prev /\ e.how = how
      /\ e.next = next /\ (prev # Idle => e.ran = ran[prev])
  BY <1>2, <1>3 DEF Event
<1> HIDE DEF e
<1>5. HomeEvent(c, e)
  <2>1. \A p \in Tasks : p = e.prev \/ p = e.next => Cpu[p] = c
    BY <1>1, <1>2, <1>3, <1>4
  <2>2. e.ts # 0 /\ e.prev # e.next
    BY <1>1, <1>2, <1>4
  <2> QED
    BY <2>1, <2>2 DEF HomeEvent
<1>6. EventsHome'
  BY <1>1, <1>2, <1>4, <1>5, HomeWrite DEF AInv, EventsHome
<1>7. TasksHome'
  BY <1>1, <1>2 DEF AInv, TasksHome
<1>8. RunningOn'
  <2>1. DOMAIN st' = Tasks
    BY <1>1
  <2>2. ASSUME NEW p \in Tasks PROVE st'[p] = "running" <=> on'[Cpu[p]] = p
    <3>1. (st[p] = "running" <=> on[Cpu[p]] = p) /\ Cpu[p] \in Cpus
      BY <1>2 DEF AInv, RunningOn
    <3>2. Left[how] # "running"
      BY DEF Left
    <3>3. CASE p = next
      BY <1>1, <1>2, <3>1, <3>3
    <3>4. CASE p # next /\ p = prev
      <4>1. Cpu[p] = c /\ on'[c] = next /\ st'[p] = Left[how]
        BY <1>1, <1>2, <1>3, <3>4
      <4> QED
        BY <3>2, <3>4, <4>1
    <3>5. CASE p # next /\ p # prev
      <4>1. st'[p] = st[p]
        BY <1>1, <3>5
      <4>2. on'[Cpu[p]] = p <=> on[Cpu[p]] = p
        BY <1>1, <1>2, <3>1, <3>5
      <4> QED
        BY <3>1, <4>1, <4>2
    <3> QED
      BY <3>3, <3>4, <3>5
  <2> QED
    BY <2>1, <2>2 DEF RunningOn
<1>9. now' # 0 /\ SeenStart' /\ Measured'
  BY <1>1 DEF AInv, SeenStart, Measured
<1>10. ASSUME NEW p \in Tasks PROVE Accounted(p)'
  <2>1. Accounted(p) /\ KnownStays(p)
    BY <1>1, StaysWith DEF AInv
  <2>2. CASE Cpu[p] # c
    <3>1. Unread(p)' = Unread(p) /\ on'[Cpu[p]] = on[Cpu[p]]
      BY <1>1, <1>2, <2>2 DEF Unread
    <3>2. p # prev /\ on[Cpu[p]] \in Tasks \cup {Idle}
      BY <1>2, <1>3, <2>2
    <3>3. RunsOn(p)
      <4>1. ran'[p] = ran[p] + 0 /\ now' - now = 0
        BY <1>1, <1>2, <3>2
      <4> QED
        BY <3>1, <4>1 DEF RunsOn
    <3> QED
      BY <2>1, <3>1, <3>3, Untouched
  <2>3. CASE Cpu[p] = c
    <3>1. Unread(p)' = Append(Unread(p), e)
      BY <1>1, <1>2, <2>3 DEF Unread
    <3>2. Writes(p, e)
      BY <1>4, <2>3, SwitchWrites
    <3> QED
      BY <1>4, <2>1, <3>1, <3>2, Written
  <2> QED
    BY <2>2, <2>3
<1> QED
  BY <1>6, <1>7, <1>8, <1>9, <1>10 DEF AInv

LEMMA LoseAccounts ==
  ASSUME IInv, IInv', AInv, NEW c \in Cpus, Lose(c)
  PROVE  AInv'
<1> DEFINE e == Head(buffer[c])
<1>1. /\ now' = now /\ on' = on /\ ran' = ran /\ st' = st /\ mon' = mon /\ wrong' = wrong
      /\ buffer[c] # << >> /\ buffer' = [buffer EXCEPT ![c] = Tail(@)]
      /\ tainted' = tainted \cup (IF e.type = "wakeup" THEN {} ELSE {e.prev, e.next} \ {Idle})
  BY DEF Lose, kernel, orchestrator
<1>2. buffer \in [Cpus -> Seq(Event)] /\ Cpu \in [Tasks -> Cpus] /\ Idle \notin Tasks
  BY PeriodsAssumption DEF IInv, Types, KernelTypes
<1> HIDE DEF e
<1>3. EventsHome'
  BY <1>1, <1>2, HomeTake DEF AInv, EventsHome
<1>4. (now # 0 /\ TasksHome /\ RunningOn /\ SeenStart /\ Measured)'
  BY <1>1 DEF AInv, TasksHome, RunningOn, SeenStart, Measured
<1>5. tainted \subseteq tainted'
  BY <1>1
<1>6. ASSUME NEW p \in Tasks PROVE Accounted(p)'
  <2>1. Accounted(p) /\ RunsOn(p) /\ KnownStays(p)
    BY <1>1, <1>5, RunsOnWith, StaysWith DEF AInv
  <2>2. CASE Cpu[p] # c
    <3>1. Unread(p)' = Unread(p)
      BY <1>1, <1>2, <2>2 DEF Unread
    <3> QED
      BY <2>1, <3>1, Untouched
  <2>3. CASE Cpu[p] = c
    <3>1. Unread(p)' = Tail(Unread(p)) /\ Unread(p) # << >> /\ Head(Unread(p)) = e
      BY <1>1, <1>2, <2>3 DEF Unread, e
    <3>2. ASSUME NEW h \in Moment, NEW g \in Moment, Step(p, e, h, g), Known(p, h)
          PROVE  Known(p, g)'
      <4>1. CASE e.type = "wakeup" \/ p \notin {e.prev, e.next}
        <5>1. g = h
          BY <3>2, <4>1 DEF Step
        <5> QED
          BY <2>1, <3>2, <5>1, KnownFrom
      <4>2. CASE e.type # "wakeup" /\ p \in {e.prev, e.next}
        <5>1. p \in tainted'
          BY <1>1, <1>2, <4>2
        <5> QED
          BY <5>1 DEF Known
      <4> QED
        BY <4>1, <4>2
    <3>3. Takes(p)
      BY <3>1, <3>2 DEF Takes
    <3> QED
      BY <2>1, <3>1, <3>3, Taken
  <2> QED
    BY <2>2, <2>3
<1> QED
  BY <1>3, <1>4, <1>6 DEF AInv

(* What a wake-up tells has nothing to do with the run time. *)
LEMMA WakeupLearns ==
  ASSUME IInv, NEW e \in Event, e.type = "wakeup", pickPidInfoW(e)
  PROVE  /\ wrong' = wrong /\ tainted' = tainted
         /\ \A q \in Tasks : mon'[q].rt = mon[q].rt /\ mon'[q].last_ts = mon[q].last_ts
<1> DEFINE d == IF ~mon[e.pid].last_tsP THEN mon[e.pid].deadline
                ELSE IF CdfPeriod[e.pid] # 0 THEN e.ts + CdfPeriod[e.pid] ELSE 0
<1>1. e.pid \in Tasks /\ DOMAIN mon = Tasks
  BY EventFields DEF IInv, Types
<1>2. mon' = [mon EXCEPT ![e.pid].last_tsP = TRUE, ![e.pid].deadline = d]
  BY DEF pickPidInfoW
<1> HIDE DEF d
<1>3. ASSUME NEW q \in Tasks
      PROVE  mon'[q].rt = mon[q].rt /\ mon'[q].last_ts = mon[q].last_ts
  <2>1. DOMAIN mon[q] = DOMAIN NewMon
    BY DEF IInv, Types, MonOK
  <2>2. CASE q # e.pid
    BY <1>1, <1>2, <2>2
  <2>3. CASE q = e.pid
    <3>1. mon'[q] = [mon[q] EXCEPT !.last_tsP = TRUE, !.deadline = d]
      BY <1>1, <1>2, <2>3
    <3> QED
      BY <2>1, <3>1 DEF NewMon
  <2> QED
    BY <2>2, <2>3
<1> QED
  BY <1>3 DEF pickPidInfoW

(* What is known of the run time of q after a switch. *)
Learnt(q, e) ==
  /\ q = e.prev /\ Ends(q, e.how) => mon'[q].rt = 0
  /\ q = e.prev /\ ~Ends(q, e.how) => /\ mon'[q].rt = Stopped(mon[q], e.ts).rt
                                      /\ q \notin tainted' => q \notin tainted
  /\ q = e.next => /\ mon'[q].rt = mon[q].rt /\ mon'[q].last_ts = e.ts
                   /\ q \notin tainted' => q \notin tainted
  /\ q # e.next => mon'[q].last_ts = mon[q].last_ts
  /\ q \notin {e.prev, e.next} => KnownStays(q)

LEMMA SwitchLearns ==
  ASSUME IInv, SeenStart, NEW e \in Event, e.type # "wakeup", e.prev # e.next, e.ts # 0,
         pickPidInfoS(e)
  PROVE  /\ \A q \in Tasks : Learnt(q, e)
         /\ wrong' # wrong => /\ e.prev \in Tasks \ tainted
                              /\ Stopped(mon[e.prev], e.ts).rt # e.ran
<1> DEFINE m == [p \in Tasks |-> CASE p = e.prev -> Stopped(mon[p], e.ts)
                                   [] p = e.next -> Started(mon[p], e.ts)
                                   [] OTHER -> mon[p]]
<1>1. e.ts \in Nat /\ e.prev \in Tasks \cup {Idle} /\ Idle \notin Tasks /\ DOMAIN mon = Tasks
  BY EventFields, PeriodsAssumption DEF IInv, Types
<1>2. IF e.prev # Idle /\ Ends(e.prev, e.how) THEN ConsolidatePeriod(e.prev, m, e)
      ELSE mon' = m /\ UNCHANGED <<ended, tainted, regular, wrong>>
  BY DEF pickPidInfoS
<1>3. DOMAIN m = Tasks
  OBVIOUS
<1>4. ASSUME NEW q \in Tasks
      PROVE  /\ MonOK(m[q])
             /\ q = e.prev => m[q] = Stopped(mon[q], e.ts)
             /\ q = e.next => m[q].rt = mon[q].rt /\ m[q].last_ts = e.ts
             /\ q # e.next => m[q].last_ts = mon[q].last_ts
             /\ q \notin {e.prev, e.next} => m[q] = mon[q]
  <2>1. MonOK(mon[q])
    BY DEF IInv, Types
  <2>2. /\ MonOK(Stopped(mon[q], e.ts)) /\ Stopped(mon[q], e.ts).last_ts = mon[q].last_ts
        /\ MonOK(Started(mon[q], e.ts)) /\ Started(mon[q], e.ts).last_ts = e.ts
        /\ Started(mon[q], e.ts).rt = mon[q].rt
    BY <1>1, <2>1 DEF MonOK, NewMon, Stopped, Started
  <2>3. CASE q = e.prev
    BY <2>2, <2>3
  <2>4. CASE q # e.prev /\ q = e.next
    BY <2>2, <2>4
  <2>5. CASE q # e.prev /\ q # e.next
    BY <2>1, <2>5
  <2> QED
    BY <2>3, <2>4, <2>5
<1>5. ASSUME NEW q \in Tasks, q = e.prev, mon'[q] = AddRuntimeHist(m[q])
             \/ \E d : mon'[q] = [AddRuntimeHist(m[q]) EXCEPT !.deadline = d, !.nprd = TRUE]
      PROVE  mon'[q].rt = 0 /\ mon'[q].last_ts = mon[q].last_ts
  <2> DEFINE x == Stopped(mon[q], e.ts)
  <2>1. m[q] = x /\ MonOK(x) /\ x.last_ts = mon[q].last_ts
    BY <1>4, <1>5
  <2>2. mon[q].last_ts = 0 => x.rt = 0
    BY DEF Stopped, SeenStart
  <2> HIDE DEF x, m
  <2>3. /\ DOMAIN AddRuntimeHist(x) = DOMAIN NewMon
        /\ AddRuntimeHist(x).rt = 0 /\ AddRuntimeHist(x).last_ts = mon[q].last_ts
    BY <2>1, <2>2 DEF AddRuntimeHist, MonOK, NewMon
  <2>4. ASSUME NEW d, mon'[q] = [AddRuntimeHist(x) EXCEPT !.deadline = d, !.nprd = TRUE]
        PROVE  mon'[q].rt = 0 /\ mon'[q].last_ts = mon[q].last_ts
    BY <2>3, <2>4 DEF NewMon
  <2> QED
    BY <1>5, <2>1, <2>3, <2>4
<1> HIDE DEF m
<1>6. CASE ~(e.prev # Idle /\ Ends(e.prev, e.how))
  <2>1. mon' = m /\ tainted' = tainted /\ wrong' = wrong
    BY <1>2, <1>6
  <2>2. ASSUME NEW q \in Tasks PROVE Learnt(q, e)
    <3>1. ~(q = e.prev /\ Ends(q, e.how))
      BY <1>1, <1>6
    <3> QED
      BY <1>4, <2>1, <3>1 DEF Learnt, KnownStays
  <2> QED
    BY <2>1, <2>2
<1>7. CASE e.prev # Idle /\ Ends(e.prev, e.how)
  <2> DEFINE p == e.prev
  <2>1. p \in Tasks /\ ConsolidatePeriod(p, m, e)
    BY <1>1, <1>2, <1>7
  <2>2. /\ tainted' = tainted \ {p}
        /\ wrong' = IF p \notin tainted /\ m[p].rt # e.ran THEN wrong \cup {p} ELSE wrong
    BY <2>1 DEF ConsolidatePeriod
  <2>3. /\ mon'[p] = AddRuntimeHist(m[p])
           \/ \E d : mon'[p] = [AddRuntimeHist(m[p]) EXCEPT !.deadline = d, !.nprd = TRUE]
        /\ \A q \in Tasks : q # p => mon'[q] = m[q]
    <3> HIDE DEF p
    <3>1. CASE p \notin Deadline
      <4>1. mon' = [m EXCEPT ![p] = AddRuntimeHist(m[p])]
        BY <2>1, <3>1 DEF ConsolidatePeriod
      <4> QED
        BY <1>3, <2>1, <4>1
    <3>2. CASE p \in Deadline
      <4>1. PICK d : mon' = [m EXCEPT ![p] = [AddRuntimeHist(m[p]) EXCEPT !.deadline = d, !.nprd = TRUE]]
        BY <2>1, <3>2 DEF ConsolidatePeriod
      <4>2. mon'[p] = [AddRuntimeHist(m[p]) EXCEPT !.deadline = d, !.nprd = TRUE]
        BY <1>3, <2>1, <4>1
      <4>3. \A q \in Tasks : q # p => mon'[q] = m[q]
        BY <1>3, <2>1, <4>1
      <4> QED
        BY <4>2, <4>3
    <3> QED
      BY <3>1, <3>2
  <2>4. mon'[p].rt = 0 /\ mon'[p].last_ts = mon[p].last_ts
    BY <1>5, <2>1, <2>3
  <2>5. ASSUME NEW q \in Tasks PROVE Learnt(q, e)
    <3>1. CASE q = p
      BY <1>7, <2>4, <3>1 DEF Learnt
    <3>2. CASE q # p
      <4>1. mon'[q] = m[q] /\ (q \notin tainted' => q \notin tainted)
        BY <2>2, <2>3, <3>2
      <4> QED
        BY <1>4, <3>2, <4>1 DEF Learnt, KnownStays
    <3> QED
      BY <3>1, <3>2
  <2>6. m[p] = Stopped(mon[p], e.ts)
    BY <1>4, <2>1
  <2> QED
    BY <2>1, <2>2, <2>5, <2>6
<1> QED
  BY <1>6, <1>7

(* What is known fits the account of the task after the event too. *)
LEMMA SwitchTakes ==
  ASSUME IInv, SeenStart, NEW e \in Event, e.type # "wakeup", e.prev # e.next, e.ts # 0,
         pickPidInfoS(e), NEW p \in Tasks, NEW h \in Moment, NEW g \in Moment,
         Step(p, e, h, g), Known(p, h)
  PROVE  /\ Known(p, g)'
         /\ p = e.prev /\ p \notin tainted => Stopped(mon[p], e.ts).rt = e.ran
<1>1. e.type = "switch" /\ e.ts \in Nat /\ MonOK(mon[p])
  BY EventFields DEF Event, IInv, Types
<1>2. Learnt(p, e)
  BY SwitchLearns
<1>3. CASE p \notin {e.prev, e.next}
  <2>1. g = h /\ KnownStays(p)
    BY <1>2, <1>3 DEF Step, Learnt
  <2> QED
    BY <1>3, <2>1, KnownFrom
<1>4. CASE p = e.next
  <2>1. h.l = 0 /\ g.l = e.ts /\ g.r = h.r
    BY <1>1, <1>4 DEF Step
  <2>2. mon'[p].rt = mon[p].rt /\ mon'[p].last_ts = e.ts /\ (p \notin tainted' => p \notin tainted)
    BY <1>2, <1>4 DEF Learnt
  <2>3. Known(p, g)'
    BY <2>1, <2>2 DEF Known
  <2> QED
    BY <1>4, <2>3
<1>5. CASE p = e.prev
  <2>1. /\ h.l # 0 /\ g.l = 0 /\ e.ran = h.r + e.ts - h.l
        /\ g.r = IF Ends(p, e.how) THEN 0 ELSE e.ran
    BY <1>1, <1>5 DEF Step
  <2>2. ASSUME p \notin tainted PROVE Stopped(mon[p], e.ts).rt = e.ran
    <3>1. mon[p].rt = h.r /\ mon[p].last_ts = h.l
      BY <2>1, <2>2 DEF Known
    <3>2. Stopped(mon[p], e.ts).rt = mon[p].rt + e.ts - mon[p].last_ts
      BY <1>1, <2>1, <3>1 DEF Stopped, MonOK, NewMon
    <3> QED
      BY <2>1, <3>1, <3>2
  <2>3. Known(p, g)'
    <3>1. CASE Ends(p, e.how)
      BY <1>2, <1>5, <2>1, <3>1 DEF Learnt, Known
    <3>2. CASE ~Ends(p, e.how)
      <4>1. mon'[p].rt = Stopped(mon[p], e.ts).rt /\ (p \notin tainted' => p \notin tainted)
        BY <1>2, <1>5, <3>2 DEF Learnt
      <4> QED
        BY <2>1, <2>2, <3>2, <4>1 DEF Known
    <3> QED
      BY <3>1, <3>2
  <2> QED
    BY <2>2, <2>3
<1> QED
  BY <1>3, <1>4, <1>5

LEMMA ReadAccounts ==
  ASSUME IInv, IInv', AInv, NEW c \in Cpus, Read(c)
  PROVE  AInv'
<1> DEFINE e == Head(buffer[c])
<1>1. /\ now' = now /\ on' = on /\ ran' = ran /\ st' = st
      /\ buffer[c] # << >> /\ buffer' = [buffer EXCEPT ![c] = Tail(@)]
      /\ IF e.type = "wakeup" THEN pickPidInfoW(e) ELSE pickPidInfoS(e)
  BY DEF Read, kernel
<1>2. buffer \in [Cpus -> Seq(Event)] /\ Cpu \in [Tasks -> Cpus] /\ Idle \notin Tasks
  BY PeriodsAssumption DEF IInv, Types, KernelTypes
<1>3. e \in Event
  BY <1>1, <1>2, TakeTypes
<1>4. EventsHome' /\ HomeEvent(c, e)
  BY <1>1, <1>2, HomeTake DEF AInv, EventsHome
<1> HIDE DEF e
<1>5. now' # 0 /\ TasksHome' /\ RunningOn'
  BY <1>1 DEF AInv, TasksHome, RunningOn
<1>6. e.type # "wakeup" => /\ e.type = "switch" /\ e.prev # e.next /\ e.ts # 0
                           /\ \A p \in Tasks : p = e.prev \/ p = e.next => Cpu[p] = c
  <2>1. e.type # "wakeup" => e.type = "switch"
    BY <1>3 DEF Event
  <2> QED
    BY <1>4, <2>1 DEF HomeEvent
<1>7. SeenStart /\ Measured /\ \A p \in Tasks : Accounted(p) /\ RunsOn(p)
  BY <1>1, RunsOnWith DEF AInv
<1>8. ASSUME NEW p \in Tasks, NEW h \in Moment, NEW g \in Moment, Step(p, e, h, g), Known(p, h)
      PROVE  /\ Known(p, g)'
             /\ e.type # "wakeup" /\ p = e.prev /\ p \notin tainted
                  => Stopped(mon[p], e.ts).rt = e.ran
  <2>1. CASE e.type = "wakeup"
    <3>1. g = h /\ KnownStays(p)
      BY <1>1, <1>3, <1>8, <2>1, WakeupLearns DEF Step, KnownStays
    <3> QED
      BY <1>8, <2>1, <3>1, KnownFrom
  <2>2. CASE e.type # "wakeup"
    <3>1. pickPidInfoS(e) /\ e.prev # e.next /\ e.ts # 0
      BY <1>1, <1>6, <2>2
    <3> QED
      BY <1>3, <1>7, <1>8, <2>2, <3>1, SwitchTakes
  <2> QED
    BY <2>1, <2>2
<1>9. ASSUME NEW p \in Tasks PROVE Accounted(p)'
  <2>1. CASE Cpu[p] # c
    <3>1. Unread(p)' = Unread(p)
      BY <1>1, <1>2, <2>1 DEF Unread
    <3>2. KnownStays(p)
      <4>1. CASE e.type = "wakeup"
        BY <1>1, <1>3, <4>1, WakeupLearns DEF KnownStays
      <4>2. CASE e.type # "wakeup"
        <5>1. p \notin {e.prev, e.next} /\ pickPidInfoS(e) /\ e.prev # e.next /\ e.ts # 0
          BY <1>1, <1>6, <2>1, <4>2
        <5>2. Learnt(p, e)
          BY <1>3, <1>7, <4>2, <5>1, SwitchLearns
        <5> QED
          BY <5>1, <5>2 DEF Learnt
      <4> QED
        BY <4>1, <4>2
    <3> QED
      BY <1>7, <3>1, <3>2, Untouched
  <2>2. CASE Cpu[p] = c
    <3>1. Unread(p)' = Tail(Unread(p)) /\ Unread(p) # << >> /\ Head(Unread(p)) = e
      BY <1>1, <1>2, <2>2 DEF Unread, e
    <3>2. Takes(p)
      BY <1>8, <3>1 DEF Takes
    <3> QED
      BY <1>7, <3>1, <3>2, Taken
  <2> QED
    BY <2>1, <2>2
<1>10. SeenStart'
  <2>1. CASE e.type = "wakeup"
    BY <1>1, <1>3, <1>7, <2>1, WakeupLearns DEF SeenStart
  <2>2. CASE e.type # "wakeup"
    <3> SUFFICES ASSUME NEW p \in Tasks, mon'[p].last_ts = 0 PROVE mon'[p].rt = 0
      BY DEF SeenStart
    <3>1. pickPidInfoS(e) /\ e.prev # e.next /\ e.ts # 0
      BY <1>1, <1>6, <2>2
    <3>2. Learnt(p, e)
      BY <1>3, <1>7, <2>2, <3>1, SwitchLearns
    <3>3. p # e.next /\ mon[p].last_ts = 0
      BY <3>1, <3>2 DEF Learnt
    <3>4. mon[p].rt = 0 /\ Stopped(mon[p], e.ts).rt = 0
      BY <1>7, <3>3 DEF SeenStart, Stopped
    <3>5. CASE p = e.prev
      BY <3>2, <3>4, <3>5 DEF Learnt
    <3>6. CASE p # e.prev
      BY <3>2, <3>3, <3>4, <3>6 DEF Learnt, KnownStays
    <3> QED
      BY <3>5, <3>6
  <2> QED
    BY <2>1, <2>2
<1>11. Measured'
  <2>1. CASE wrong' = wrong
    BY <1>7, <2>1 DEF Measured
  <2>2. CASE wrong' # wrong
    <3>1. e.type # "wakeup"
      BY <1>1, <1>3, <2>2, WakeupLearns
    <3>2. pickPidInfoS(e) /\ e.prev # e.next /\ e.ts # 0
      BY <1>1, <1>6, <3>1
    <3>3. e.prev \in Tasks \ tainted /\ Stopped(mon[e.prev], e.ts).rt # e.ran
      BY <1>3, <1>7, <2>2, <3>1, <3>2, SwitchLearns
    <3>4. PICK H \in Seq(Moment) : Account(e.prev, Unread(e.prev), H) /\ Known(e.prev, First(H))
      BY <1>7, <3>3 DEF Accounted
    <3>5. Cpu[e.prev] = c
      BY <1>6, <3>1, <3>3
    <3>6. Unread(e.prev) # << >> /\ Head(Unread(e.prev)) = e /\ Unread(e.prev) \in Seq(Event)
      BY <1>1, <1>2, <3>5 DEF Unread, e
    <3>7. First(H) \in Moment /\ First(Tail(H)) \in Moment /\ Step(e.prev, e, First(H), First(Tail(H)))
      BY <3>4, <3>6, AccountTail
    <3>8. Stopped(mon[e.prev], e.ts).rt = e.ran
      BY <1>8, <3>1, <3>3, <3>4, <3>7
    <3> QED
      BY <3>3, <3>8
  <2> QED
    BY <2>1, <2>2
<1> QED
  BY <1>4, <1>5, <1>9, <1>10, <1>11 DEF AInv

(* A task that runs at the start is one of which events have been missed. *)
LEMMA AccountInit == ASSUME Init PROVE AInv
<1>1. /\ now = 1 /\ Idle \notin Tasks /\ Cpu \in [Tasks -> Cpus] /\ Running \subseteq Tasks
      /\ on \in [Cpus -> Running \cup {Idle}]
      /\ \A c \in Cpus : on[c] # Idle => Cpu[on[c]] = c
      /\ st = [p \in Tasks |-> IF on[Cpu[p]] = p THEN "running" ELSE "asleep"]
      /\ ran = [p \in Tasks |-> 0] /\ buffer = [c \in Cpus |-> << >>] /\ wrong = {}
      /\ mon = [p \in Tasks |-> NewMon] /\ tainted = {p \in Tasks : st[p] = "running"}
  BY PeriodsAssumption DEF Init
<1>2. now # 0 /\ EventsHome /\ TasksHome /\ RunningOn /\ SeenStart /\ Measured
  BY <1>1 DEF EventsHome, TasksHome, RunningOn, SeenStart, Measured, NewMon
<1>3. ASSUME NEW p \in Tasks PROVE Accounted(p)
  <2>1. PICK h \in Moment : h.r = 0 /\ h.l = IF on[Cpu[p]] = p THEN 1 ELSE 0
    <3>1. [r |-> 0, l |-> IF on[Cpu[p]] = p THEN 1 ELSE 0] \in Moment
      BY DEF Moment
    <3> QED
      BY <3>1
  <2> DEFINE H == << h >>
  <2>2. H \in Seq(Moment) /\ Len(H) = 1 /\ First(H) = h /\ Final(H) = h
    BY DEF First, Final
  <2> HIDE DEF H
  <2>3. Unread(p) = << >>
    BY <1>1 DEF Unread
  <2>4. Account(p, Unread(p), H)
    BY <2>2, <2>3 DEF Account
  <2>5. Known(p, h)
    BY <1>1, <2>1 DEF Known, NewMon
  <2>6. Present(p, h)
    <3>1. CASE on[Cpu[p]] = p
      BY <1>1, <2>1, <3>1 DEF Present
    <3>2. CASE on[Cpu[p]] # p
      BY <1>1, <2>1, <3>2 DEF Present
    <3> QED
      BY <3>1, <3>2
  <2> QED
    BY <2>2, <2>4, <2>5, <2>6 DEF Accounted
<1> QED
  BY <1>2, <1>3 DEF AInv

(* The accounts are right after every step. *)
LEMMA AccountsStep == ASSUME IInv, AInv, [Next]_vars PROVE AInv'
<1>1. IInv'
  BY InductiveStep
<1>2. CASE UNCHANGED vars
  <2>1. UNCHANGED vars
    BY <1>2
  <2>2. /\ now' = now /\ on' = on /\ st' = st /\ ran' = ran /\ buffer' = buffer /\ mon' = mon
        /\ tainted' = tainted /\ wrong' = wrong
    BY <2>1 DEF vars
  <2>3. ASSUME NEW p \in Tasks PROVE Accounted(p)'
    <3>1. Accounted(p) /\ RunsOn(p) /\ KnownStays(p) /\ Unread(p)' = Unread(p)
      BY <2>2, RunsOnWith, StaysWith DEF AInv, Unread
    <3> QED
      BY <1>1, <3>1, Untouched
  <2>4. (now # 0 /\ EventsHome /\ TasksHome /\ RunningOn /\ SeenStart /\ Measured)'
    BY <2>2 DEF AInv, EventsHome, TasksHome, RunningOn, SeenStart, Measured
  <2> QED
    BY <1>1, <2>3, <2>4 DEF AInv
<1>3. CASE Next
  BY <1>1, <1>3, TickAccounts, WakeAccounts, ReplenishAccounts, SwitchAccounts, LoseAccounts,
     ReadAccounts DEF Next, Kernel
<1> QED
  BY <1>2, <1>3

(* However late the events are read, and whatever was lost before, the run  *)
(* time recorded of a period no event of which was lost is the true one.   *)
THEOREM MeasuredAlways == Spec => []Measured
<1>1. Init => IInv /\ AInv
  BY AheadInit, AccountInit
<1>2. IInv /\ AInv /\ [Next]_vars => (IInv /\ AInv)'
  BY InductiveStep, AccountsStep
<1>3. AInv => Measured
  BY DEF AInv
<1> QED
  BY <1>1, <1>2, <1>3, PTL DEF Spec

-----------------------------------------------------------------------------
(***************************************************************************)
(* The deadline is not too far ahead either.  The events of a CPU are read *)
(* in the order of their times, so that the end of a period follows the    *)
(* one seen before.                                                        *)
(***************************************************************************)
Ordered(s) == \A i, j \in 1..Len(s) : i <= j => s[i].ts <= s[j].ts
Within(s, lo, hi) == \A i \in 1..Len(s) : lo <= s[i].ts /\ s[i].ts <= hi

InOrder == \A c \in Cpus : Ordered(buffer[c]) /\ Within(buffer[c], 0, now)
EndsBefore == \A p \in Deadline : ended[p] <= now /\ Within(Unread(p), ended[p], now)

(* No more than a period after k, or less than two after t. *)
Close(x, P, k, t) == x <= k + P \/ x < t + 2 * P
CloseTo(p) == mon[p].deadline # 0 => Close(mon[p].deadline, Period[p], kdl[p], ended[p])

BInv == /\ InOrder /\ EndsBefore /\ regular \subseteq Deadline
        /\ \A p \in regular : CloseTo(p)

(* Moving on ends less than a period after the time to reach. *)
LEMMA ReachBefore ==
  ASSUME NEW d \in Nat, NEW ts \in Nat, NEW P \in Nat \ {0}
  PROVE  Reach(d, ts, P) = d \/ Reach(d, ts, P) < ts + P
<1>1. CASE d >= ts
  BY <1>1 DEF Reach
<1>2. CASE d < ts
  <2> DEFINE x == ts - d + P - 1
             q == x \div P
             m == x % P
  <2>1. x \in Nat
    BY <1>2
  <2> HIDE DEF x
  <2>2. q \in Nat /\ m \in 0..(P-1) /\ x = P * q + m
    BY <2>1, SMTT(30)
  <2>3. P * q \in Nat
    BY <2>2
  <2> HIDE DEF q, m
  <2>4. Reach(d, ts, P) = d + P * q
    BY <1>2 DEF Reach, q, x
  <2> QED
    BY <2>1, <2>2, <2>3, <2>4, <1>2 DEF x
<1> QED
  BY <1>1, <1>2

LEMMA ReachClose ==
  ASSUME NEW d \in Nat, NEW ts \in Nat, NEW P \in Nat \ {0}, NEW k \in Nat, Close(d, P, k, ts)
  PROVE  Reach(d, ts, P) \in Nat /\ Close(Reach(d, ts, P), P, k, ts)
<1> DEFINE r == Reach(d, ts, P)
<1>1. r \in Nat /\ (r = d \/ r < ts + P)
  BY ReachBefore, ReachAfter
<1> HIDE DEF r
<1>2. CASE r = d
  BY <1>1, <1>2 DEF r
<1>3. CASE r < ts + P
  BY <1>1, <1>3 DEF Close, r
<1> QED
  BY <1>1, <1>2, <1>3

(* Where no overrun is found, a deadline that is close is followed by one.  *)
LEMMA NextIsClose ==
  ASSUME Types, NEW p \in Deadline, NEW m, MonOK(m), NEW ts \in Nat,
         m.deadline # 0 => ts <= m.deadline \/ m.rt <= Period[p],
         m.deadline # 0 => Close(m.deadline, Period[p], kdl[p], ts),
         NEW n \in NextDeadline(p, m, ts)
  PROVE  Close(n, Period[p], kdl[p], ts)
<1> DEFINE P == Period[p]
           seen(d) == IF m.deadline = 0 THEN Reach(d, ts, P) ELSE m.deadline
           late(d) == IF d < ts /\ m.rt > P THEN d + P * ((m.rt - 1) \div P) ELSE d
           ahead(d) == IF d - ts < P THEN d + P ELSE d
           B(d) == d \in Nat /\ Close(d, P, kdl[p], ts)
<1>1. P \in Nat \ {0} /\ kdl[p] \in Nat /\ m.deadline \in Nat /\ m.rt \in Int
  BY PeriodsAssumption DEF Types, KernelTypes, MonOK
<1>2. ASSUME NEW d, B(d) PROVE B(ahead(d))
  BY <1>1, <1>2 DEF Close
<1>3. ASSUME NEW d, B(d) PROVE B(Reach(d, ts, P))
  BY <1>1, <1>3, ReachClose
<1>4. PICK d \in (IF m.deadline = 0 THEN get_sched_info(p, 0) ELSE {m.deadline}) :
        n \in (LET missed == Reach(late(seen(d)), ts, P)
               IN IF missed = seen(d) THEN {ahead(missed)}
                  ELSE {ahead(Reach(r, ts, P)) : r \in get_sched_info(p, missed)})
  BY DEF NextDeadline
<1>5. B(kdl[p]) /\ B(0)
  BY <1>1 DEF Close
<1>6. B(d)
  <2>1. CASE m.deadline = 0
    <3>1. d \in {kdl[p], 0}
      BY <1>4, <2>1 DEF get_sched_info
    <3> HIDE DEF B
    <3> QED
      BY <1>5, <3>1
  <2>2. CASE m.deadline # 0
    BY <1>1, <1>4, <2>2
  <2> QED
    BY <2>1, <2>2
<1>7. B(seen(d))
  <2>1. CASE m.deadline = 0
    BY <1>3, <1>6, <2>1
  <2>2. CASE m.deadline # 0
    BY <1>1, <2>2
  <2> QED
    BY <2>1, <2>2
<1>8. late(seen(d)) = seen(d)
  <2>1. CASE m.deadline = 0
    <3>1. Reach(d, ts, P) \in Nat /\ Reach(d, ts, P) >= ts
      BY <1>1, <1>6, ReachAfter
    <3> QED
      BY <2>1, <3>1
  <2>2. CASE m.deadline # 0
    BY <1>1, <2>2
  <2> QED
    BY <2>1, <2>2
<1> DEFINE missed == Reach(late(seen(d)), ts, P)
<1>9. B(missed)
  BY <1>3, <1>7, <1>8
<1> HIDE DEF P, seen, late, ahead, missed, B
<1>10. CASE n = ahead(missed)
  BY <1>2, <1>9, <1>10 DEF B, P
<1>11. CASE \E r \in get_sched_info(p, missed) : n = ahead(Reach(r, ts, P))
  <2>1. PICK r \in get_sched_info(p, missed) : n = ahead(Reach(r, ts, P))
    BY <1>11
  <2>2. B(r)
    BY <1>5, <1>9, <2>1 DEF get_sched_info
  <2> QED
    BY <1>2, <1>3, <2>1, <2>2 DEF B, P
<1> QED
  BY <1>4, <1>10, <1>11 DEF missed

LEMMA OrderAppend ==
  ASSUME NEW s \in Seq(Event), NEW e \in Event, NEW lo \in Nat, lo <= e.ts,
         Ordered(s), Within(s, lo, e.ts)
  PROVE  Ordered(Append(s, e)) /\ Within(Append(s, e), lo, e.ts)
<1> DEFINE t == Append(s, e)
<1>1. Len(s) \in Nat /\ Len(t) = Len(s) + 1 /\ t[Len(s) + 1] = e /\ \A i \in 1..Len(s) : t[i] = s[i]
  OBVIOUS
<1>2. e.ts \in Nat /\ \A i \in 1..Len(s) : s[i].ts \in Nat
  <2>1. \A i \in 1..Len(s) : s[i] \in Event
    OBVIOUS
  <2> QED
    BY <2>1, EventFields
<1> HIDE DEF t
<1>3. Within(t, lo, e.ts)
  BY <1>1, <1>2 DEF Within
<1>4. Ordered(t)
  BY <1>1, <1>2 DEF Ordered, Within
<1> QED
  BY <1>3, <1>4 DEF t

LEMMA OrderTail ==
  ASSUME NEW s \in Seq(Event), s # << >>, NEW lo \in Nat, NEW hi \in Nat,
         Ordered(s), Within(s, lo, hi)
  PROVE  /\ lo <= Head(s).ts /\ Head(s).ts <= hi
         /\ Ordered(Tail(s)) /\ Within(Tail(s), lo, hi) /\ Within(Tail(s), Head(s).ts, hi)
<1> DEFINE t == Tail(s)
<1>1. /\ Len(s) \in Nat /\ Len(s) # 0 /\ Len(t) = Len(s) - 1 /\ s[1] = Head(s)
      /\ \A i \in 1..Len(t) : t[i] = s[i + 1]
  OBVIOUS
<1> HIDE DEF t
<1>2. \A i \in 1..Len(t) : i + 1 \in 1..Len(s) /\ 1 <= i + 1
  BY <1>1
<1>3. lo <= Head(s).ts /\ Head(s).ts <= hi
  BY <1>1 DEF Within
<1>4. Ordered(t)
  BY <1>1, <1>2 DEF Ordered
<1>5. Within(t, lo, hi) /\ Within(t, Head(s).ts, hi)
  <2>1. 1 \in 1..Len(s)
    BY <1>1
  <2> QED
    BY <1>1, <1>2, <2>1 DEF Within, Ordered
<1> QED
  BY <1>3, <1>4, <1>5 DEF t

(* Time goes on. *)
LEMMA WithinLater ==
  ASSUME NEW s \in Seq(Event), NEW lo \in Nat, NEW hi \in Nat, NEW up \in Nat, hi <= up,
         Within(s, lo, hi)
  PROVE  Within(s, lo, up)
<1>1. \A i \in 1..Len(s) : s[i].ts \in Nat
  <2>1. \A i \in 1..Len(s) : s[i] \in Event
    OBVIOUS
  <2> QED
    BY <2>1, EventFields
<1> QED
  BY <1>1 DEF Within

(* What the kernel may do to a buffer. *)
Grown(c) == \/ buffer'[c] = buffer[c]
            \/ \E e \in Event : e.ts = now /\ now' = now /\ buffer'[c] = Append(buffer[c], e)
            \/ buffer[c] # << >> /\ buffer'[c] = Tail(buffer[c])

LEMMA KernelGrows ==
  ASSUME IInv, Kernel
  PROVE  /\ UNCHANGED <<mon, ended, regular>> /\ now <= now'
         /\ \A c \in Cpus : Grown(c)
         /\ \A p \in Tasks : kdl[p] <= kdl'[p]
<1> USE PeriodsAssumption
<1>1. KernelTypes
  BY DEF IInv, Types
<1>2. now \in Nat /\ \A p \in Tasks : kdl[p] \in Nat
  BY <1>1 DEF KernelTypes
<1>3. ASSUME NEW c \in Cpus, NEW e \in Event, Write(c, e), e.ts = now, now' = now
      PROVE  \A b \in Cpus : Grown(b)
  BY <1>1, <1>3 DEF Write, Grown, KernelTypes
<1>4. CASE Tick
  <2>1. now' = now + 1 /\ kdl' = kdl /\ buffer' = buffer /\ UNCHANGED <<mon, ended, regular>>
    BY <1>4 DEF Tick, orchestrator
  <2> QED
    BY <1>2, <2>1 DEF Grown
<1>5. ASSUME NEW p \in Tasks, Wake(p)
      PROVE  /\ UNCHANGED <<mon, ended, regular>> /\ now <= now'
             /\ \A c \in Cpus : Grown(c)
             /\ \A q \in Tasks : kdl[q] <= kdl'[q]
  <2> DEFINE e == [type |-> "wakeup", ts |-> now, pid |-> p]
  <2>1. e \in Event /\ e.ts = now
    BY <1>2 DEF Event
  <2>2. Write(Cpu[p], e) /\ now' = now /\ UNCHANGED <<mon, ended, regular>>
        /\ kdl' = [kdl EXCEPT ![p] = IF p \in Deadline /\ @ < now THEN now + Period[p] ELSE @]
    BY <1>5 DEF Wake, orchestrator
  <2> HIDE DEF e
  <2>3. \A c \in Cpus : Grown(c)
    BY <1>3, <2>1, <2>2
  <2>4. \A q \in Tasks : kdl[q] <= kdl'[q]
    BY <1>1, <1>2, <2>2 DEF KernelTypes
  <2> QED
    BY <1>2, <2>2, <2>3, <2>4
<1>6. ASSUME NEW p \in Tasks, Replenish(p)
      PROVE  /\ UNCHANGED <<mon, ended, regular>> /\ now <= now'
             /\ \A c \in Cpus : Grown(c)
             /\ \A q \in Tasks : kdl[q] <= kdl'[q]
  BY <1>1, <1>2, <1>6 DEF Replenish, orchestrator, Grown, KernelTypes
<1>7. ASSUME NEW c \in Cpus, NEW next \in Tasks \cup {Idle}, NEW how \in DOMAIN Left,
             Switch(c, next, how)
      PROVE  /\ UNCHANGED <<mon, ended, regular>> /\ now <= now'
             /\ \A b \in Cpus : Grown(b)
             /\ \A q \in Tasks : kdl[q] <= kdl'[q]
  <2> DEFINE e == [type |-> "switch", ts |-> now, prev |-> on[c], how |-> how, next |-> next,
                   ran |-> IF on[c] = Idle THEN 0 ELSE ran[on[c]]]
  <2>1. e \in Event /\ e.ts = now
    BY <1>1 DEF Event, KernelTypes
  <2>2. Write(c, e) /\ now' = now /\ kdl' = kdl /\ UNCHANGED <<mon, ended, regular>>
    BY <1>7 DEF Switch, orchestrator
  <2> HIDE DEF e
  <2>3. \A b \in Cpus : Grown(b)
    BY <1>3, <2>1, <2>2
  <2>4. now <= now' /\ \A q \in Tasks : kdl[q] <= kdl'[q]
    BY <1>2, <2>2
  <2> QED
    BY <2>2, <2>3, <2>4
<1>8. ASSUME NEW c \in Cpus, Lose(c)
      PROVE  /\ UNCHANGED <<mon, ended, regular>> /\ now <= now'
             /\ \A b \in Cpus : Grown(b)
             /\ \A q \in Tasks : kdl[q] <= kdl'[q]
  BY <1>1, <1>2, <1>8 DEF Lose, kernel, orchestrator, Grown, KernelTypes
<1> QED
  BY <1>4, <1>5, <1>6, <1>7, <1>8 DEF Kernel

(* The times in a buffer stay in order, and after any they came after. *)
LEMMA GrownStays ==
  ASSUME IInv, NEW c \in Cpus, Grown(c), now <= now', now' \in Nat, NEW lo \in Nat, lo <= now,
         Ordered(buffer[c]), Within(buffer[c], lo, now)
  PROVE  Ordered(buffer'[c]) /\ Within(buffer'[c], lo, now')
<1> DEFINE s == buffer[c]
           t == buffer'[c]
<1>1. s \in Seq(Event) /\ now \in Nat
  BY DEF IInv, Types, KernelTypes
<1>2. Ordered(s) /\ Within(s, lo, now) /\ (\/ t = s
                                           \/ \E e \in Event : e.ts = now /\ now' = now /\ t = Append(s, e)
                                           \/ s # << >> /\ t = Tail(s))
  BY DEF Grown
<1> HIDE DEF s, t
<1>3. CASE t = s
  BY <1>1, <1>2, <1>3, WithinLater DEF s, t
<1>4. ASSUME NEW e \in Event, e.ts = now, now' = now, t = Append(s, e)
      PROVE  Ordered(t) /\ Within(t, lo, now')
  BY <1>1, <1>2, <1>4, OrderAppend
<1>5. CASE s # << >> /\ t = Tail(s)
  <2>1. Ordered(t) /\ Within(t, lo, now) /\ t \in Seq(Event)
    BY <1>1, <1>2, <1>5, OrderTail
  <2> QED
    BY <1>1, <2>1, WithinLater DEF t
<1> QED
  BY <1>2, <1>3, <1>4, <1>5 DEF t

LEMMA KernelClose == ASSUME IInv, BInv, Kernel PROVE BInv'
<1>1. /\ UNCHANGED <<mon, ended, regular>> /\ now <= now'
      /\ \A c \in Cpus : Grown(c)
      /\ \A p \in Tasks : kdl[p] <= kdl'[p]
  BY KernelGrows
<1>2. IInv'
  BY KernelKeeps
<1>3. now \in Nat /\ now' \in Nat /\ ended \in [Deadline -> Nat]
  BY <1>2 DEF IInv, Types, KernelTypes
<1>4. \A p \in Deadline : p \in Tasks /\ Cpu[p] \in Cpus /\ Period[p] \in Nat
  BY PeriodsAssumption
<1>5. InOrder'
  BY <1>1, <1>3, GrownStays DEF BInv, InOrder
<1>6. EndsBefore'
  <2> SUFFICES ASSUME NEW p \in Deadline
               PROVE  ended[p] <= now' /\ Within(Unread(p)', ended[p], now')
    BY <1>1 DEF EndsBefore
  <2>1. ended[p] \in Nat /\ ended[p] <= now /\ Within(Unread(p), ended[p], now)
    BY <1>3 DEF BInv, EndsBefore
  <2>2. PICK c \in Cpus : c = Cpu[p]
    BY <1>4
  <2>3. Ordered(buffer[c]) /\ Within(buffer[c], ended[p], now) /\ Grown(c)
    BY <1>1, <2>1, <2>2 DEF BInv, InOrder, Unread
  <2>4. Within(buffer'[c], ended[p], now')
    BY <1>1, <1>3, <2>1, <2>3, GrownStays
  <2> QED
    BY <1>1, <1>3, <2>1, <2>2, <2>4 DEF Unread
<1>7. ASSUME NEW p \in regular PROVE CloseTo(p)'
  <2>1. p \in Deadline /\ CloseTo(p)
    BY DEF BInv
  <2>2. /\ kdl[p] \in Nat /\ kdl'[p] \in Nat /\ kdl[p] <= kdl'[p]
        /\ mon[p].deadline \in Nat /\ ended[p] \in Nat /\ Period[p] \in Nat
    BY <1>1, <1>2, <1>4, <2>1 DEF IInv, Types, KernelTypes, MonOK
  <2> QED
    BY <1>1, <2>1, <2>2 DEF CloseTo, Close
<1> QED
  BY <1>1, <1>5, <1>6, <1>7 DEF BInv

(* What reading an event may do to a deadline. *)
LEMMA WakeupForgets ==
  ASSUME IInv, NEW e \in Event, e.type = "wakeup", pickPidInfoW(e), NEW p \in Deadline
  PROVE  mon'[p].deadline \in {mon[p].deadline, 0}
<1>1. e.pid \in Tasks /\ e.ts \in Nat /\ p \in Tasks
  BY EventFields, PeriodsAssumption
<1>2. CASE p # e.pid
  BY <1>1, <1>2 DEF pickPidInfoW, IInv, Types
<1>3. CASE p = e.pid
  <2> DEFINE d == IF ~mon[e.pid].last_tsP THEN mon[e.pid].deadline
                  ELSE IF CdfPeriod[e.pid] # 0 THEN e.ts + CdfPeriod[e.pid] ELSE 0
  <2>1. MonOK(mon[e.pid]) /\ e.pid \in DOMAIN mon
    BY <1>1 DEF IInv, Types
  <2>2. d \in {mon[e.pid].deadline, 0}
    BY <1>3, PeriodsAssumption
  <2>3. mon' = [mon EXCEPT ![e.pid].last_tsP = TRUE, ![e.pid].deadline = d]
    BY DEF pickPidInfoW
  <2> HIDE DEF d
  <2>4. mon'[e.pid] = [mon[e.pid] EXCEPT !.last_tsP = TRUE, !.deadline = d]
    BY <2>1, <2>3
  <2>5. mon'[e.pid].deadline = d
    BY <2>1, <2>4 DEF MonOK, NewMon
  <2> QED
    BY <1>3, <2>2, <2>5
<1> QED
  BY <1>2, <1>3

LEMMA CloseStays ==
  ASSUME NEW p, CloseTo(p), kdl'[p] = kdl[p], ended'[p] = ended[p],
         mon'[p].deadline \in {mon[p].deadline, 0}
  PROVE  CloseTo(p)'
BY DEF CloseTo, Close

LEMMA SwitchClose ==
  ASSUME IInv, NEW e \in Event, e.type # "wakeup", pickPidInfoS(e), kdl' = kdl,
         regular \subseteq Deadline, \A p \in regular : CloseTo(p),
         e.prev \in Deadline => ended[e.prev] <= e.ts
  PROVE  /\ regular' \subseteq Deadline /\ \A p \in regular' : CloseTo(p)'
         /\ \A p \in Deadline : ended'[p] = ended[p] \/ (p = e.prev /\ ended'[p] = e.ts)
<1> DEFINE m == [p \in Tasks |-> CASE p = e.prev -> Stopped(mon[p], e.ts)
                                   [] p = e.next -> Started(mon[p], e.ts)
                                   [] OTHER -> mon[p]]
<1>1. e.ts \in Nat /\ e.prev \in Tasks \cup {Idle}
  BY EventFields
<1>2. ASSUME NEW p \in Tasks
      PROVE  MonOK(m[p]) /\ m[p].deadline = mon[p].deadline
  BY <1>1, StartedStopped DEF IInv, Types
<1>3. IF e.prev # Idle /\ Ends(e.prev, e.how) THEN ConsolidatePeriod(e.prev, m, e)
      ELSE mon' = m /\ UNCHANGED <<ended, tainted, regular, wrong>>
  BY DEF pickPidInfoS
<1>4. DOMAIN m = Tasks /\ Deadline \subseteq Tasks
  BY PeriodsAssumption
<1> HIDE DEF m
<1>5. CASE mon' = m /\ ended' = ended /\ regular' = regular
  <2>1. \A p \in Deadline : mon'[p].deadline = mon[p].deadline
    BY <1>2, <1>4, <1>5
  <2>2. ASSUME NEW p \in regular' PROVE CloseTo(p)'
    <3>1. p \in Deadline /\ CloseTo(p) /\ kdl'[p] = kdl[p] /\ ended'[p] = ended[p]
      BY <1>5
    <3> QED
      BY <2>1, <3>1, CloseStays
  <2> QED
    BY <1>5, <2>2
<1>6. CASE e.prev # Idle /\ ConsolidatePeriod(e.prev, m, e)
  <2> DEFINE p == e.prev
  <2>1. p \in Tasks
    BY <1>1, <1>6
  <2> HIDE DEF p
  <2>2. CASE p \notin Deadline
    <3>1. mon' = [m EXCEPT ![p] = AddRuntimeHist(m[p])] /\ ended' = ended /\ regular' = regular
      BY <1>6, <2>2 DEF ConsolidatePeriod, p
    <3>2. \A q \in Deadline : mon'[q].deadline = mon[q].deadline
      BY <1>2, <1>4, <2>2, <3>1
    <3> QED
      <4>1. ASSUME NEW q \in regular' PROVE CloseTo(q)'
        <5>1. q \in Deadline /\ CloseTo(q) /\ kdl'[q] = kdl[q] /\ ended'[q] = ended[q]
          BY <3>1
        <5> QED
          BY <3>2, <5>1, CloseStays
      <4> QED
        BY <3>1, <4>1
  <2>3. CASE p \in Deadline
    <3>1. PICK d \in NextDeadline(p, m[p], e.ts) :
            mon' = [m EXCEPT ![p] = [AddRuntimeHist(m[p]) EXCEPT !.deadline = d, !.nprd = TRUE]]
      BY <1>6, <2>3 DEF ConsolidatePeriod, p
    <3>2. /\ ended' = [ended EXCEPT ![p] = e.ts]
          /\ regular' = IF m[p].deadline = 0 THEN regular \cup {p}
                        ELSE IF m[p].deadline < e.ts /\ m[p].rt > Period[p] THEN regular \ {p}
                        ELSE regular
      BY <1>6, <2>3 DEF ConsolidatePeriod, p
    <3>3. MonOK(m[p]) /\ MonOK(AddRuntimeHist(m[p])) /\ m[p].deadline = mon[p].deadline
      BY <1>2, <2>1, StartedStopped
    <3>4. mon'[p].deadline = d
      BY <1>4, <2>1, <3>1, <3>3 DEF MonOK, NewMon
    <3>5. \A q \in Deadline : q # p => mon'[q].deadline = mon[q].deadline
      BY <1>2, <1>4, <3>1
    <3>6. ended'[p] = e.ts /\ \A q \in Deadline : q # p => ended'[q] = ended[q]
      BY <2>3, <3>2 DEF IInv, Types
    <3>7. ASSUME p \in regular' PROVE CloseTo(p)'
      <4>1. m[p].deadline # 0 => p \in regular /\ (e.ts <= m[p].deadline \/ m[p].rt <= Period[p])
        <5>1. m[p].rt \in Int /\ m[p].deadline \in Nat /\ Period[p] \in Nat
          BY <2>1, <3>3, PeriodsAssumption DEF MonOK
        <5> QED
          BY <1>1, <3>2, <3>7, <5>1
      <4>2. m[p].deadline # 0 => Close(m[p].deadline, Period[p], kdl[p], e.ts)
        <5> SUFFICES ASSUME m[p].deadline # 0
                     PROVE  Close(m[p].deadline, Period[p], kdl[p], e.ts)
          OBVIOUS
        <5>1. Close(m[p].deadline, Period[p], kdl[p], ended[p])
          BY <3>3, <4>1 DEF CloseTo
        <5>2. ended[p] \in Nat /\ ended[p] <= e.ts /\ Period[p] \in Nat /\ kdl[p] \in Nat
              /\ m[p].deadline \in Nat
          BY <2>1, <2>3, <3>3, PeriodsAssumption DEF IInv, Types, KernelTypes, MonOK, p
        <5> QED
          BY <1>1, <5>1, <5>2 DEF Close
      <4>3. Types
        BY DEF IInv
      <4>4. Close(d, Period[p], kdl[p], e.ts)
        BY <1>1, <2>3, <3>1, <3>3, <4>1, <4>2, <4>3, NextIsClose
      <4> QED
        BY <3>4, <3>6, <4>4 DEF CloseTo
    <3>8. regular' \subseteq Deadline
      BY <2>3, <3>2
    <3>9. ASSUME NEW q \in regular', q # p PROVE CloseTo(q)'
      <4>1. q \in regular /\ q \in Deadline
        BY <3>2, <3>8, <3>9
      <4> QED
        <5>1. CloseTo(q) /\ kdl'[q] = kdl[q] /\ ended'[q] = ended[q]
          BY <3>6, <3>9, <4>1
        <5>2. mon'[q].deadline \in {mon[q].deadline, 0}
          BY <3>5, <3>9, <4>1
        <5> QED
          BY <5>1, <5>2, CloseStays
    <3> QED
      BY <3>6, <3>7, <3>8, <3>9 DEF p
  <2> QED
    BY <2>2, <2>3
<1> QED
  BY <1>3, <1>5, <1>6

LEMMA ReadClose ==
  ASSUME IInv, AInv, BInv, NEW c \in Cpus, Read(c)
  PROVE  BInv'
<1> DEFINE e == Head(buffer[c])
<1>1. /\ buffer[c] # << >> /\ buffer[c] \in Seq(Event) /\ e \in Event
      /\ now' = now /\ kdl' = kdl /\ now \in Nat
  BY TakeTypes DEF Read, kernel, IInv, Types, KernelTypes
<1>2. IF e.type = "wakeup" THEN pickPidInfoW(e) ELSE pickPidInfoS(e)
  BY DEF Read
<1>3. buffer' = [buffer EXCEPT ![c] = Tail(@)] /\ buffer \in [Cpus -> Seq(Event)]
  BY DEF Read, IInv, Types, KernelTypes
<1>4. HomeEvent(c, e)
  <2>1. 1 \in 1..Len(buffer[c]) /\ buffer[c][1] = Head(buffer[c])
    BY <1>1
  <2> QED
    BY <2>1 DEF AInv, EventsHome
<1>5. e.ts \in Nat /\ (e.type # "wakeup" => e.type = "switch")
  BY <1>1 DEF Event
<1>6. ended \in [Deadline -> Nat] /\ \A p \in Deadline : p \in Tasks /\ Cpu[p] \in Cpus
  BY PeriodsAssumption DEF IInv, Types
<1>7. ASSUME NEW p \in Deadline, Cpu[p] = c
      PROVE  /\ ended[p] <= e.ts /\ e.ts <= now
             /\ Within(Unread(p)', ended[p], now) /\ Within(Unread(p)', e.ts, now)
  <2>1. Within(buffer[c], ended[p], now) /\ Ordered(buffer[c]) /\ ended[p] \in Nat
    BY <1>6, <1>7 DEF BInv, EndsBefore, InOrder, Unread
  <2>2. Unread(p)' = Tail(buffer[c])
    BY <1>3, <1>7 DEF Unread
  <2> QED
    BY <1>1, <2>1, <2>2, OrderTail
<1>8. ASSUME NEW p \in Deadline, Cpu[p] # c PROVE Unread(p)' = Unread(p)
  BY <1>3, <1>6, <1>8 DEF Unread
<1> HIDE DEF e
<1>9. InOrder'
  <2> SUFFICES ASSUME NEW b \in Cpus
               PROVE  Ordered(buffer'[b]) /\ Within(buffer'[b], 0, now)
    BY <1>1 DEF InOrder
  <2>1. Ordered(buffer[b]) /\ Within(buffer[b], 0, now)
    BY DEF BInv, InOrder
  <2>2. CASE b # c
    BY <1>3, <2>1, <2>2
  <2>3. CASE b = c
    <3>1. buffer'[b] = Tail(buffer[b]) /\ buffer[b] # << >> /\ buffer[b] \in Seq(Event)
      BY <1>1, <1>3, <2>3
    <3> QED
      BY <1>1, <2>1, <3>1, OrderTail
  <2> QED
    BY <2>2, <2>3
<1>10. /\ regular' \subseteq Deadline /\ \A p \in regular' : CloseTo(p)'
       /\ \A p \in Deadline : ended'[p] = ended[p] \/ (Cpu[p] = c /\ ended'[p] = e.ts)
  <2>0. regular \subseteq Deadline /\ \A p \in regular : CloseTo(p)
    BY DEF BInv
  <2>1. CASE e.type = "wakeup"
    <3>1. pickPidInfoW(e) /\ ended' = ended /\ regular' = regular
      BY <1>2, <2>1 DEF pickPidInfoW
    <3>2. \A p \in Deadline : mon'[p].deadline \in {mon[p].deadline, 0}
      BY <1>1, <2>1, <3>1, WakeupForgets
    <3> QED
      <4>1. ASSUME NEW q \in regular' PROVE CloseTo(q)'
        <5>1. q \in Deadline /\ CloseTo(q) /\ kdl'[q] = kdl[q] /\ ended'[q] = ended[q]
          BY <1>1, <2>0, <3>1
        <5> QED
          BY <3>2, <5>1, CloseStays
      <4> QED
        BY <2>0, <3>1, <4>1
  <2>2. CASE e.type # "wakeup"
    <3>1. pickPidInfoS(e) /\ \A p \in Tasks : p = e.prev => Cpu[p] = c
      BY <1>2, <1>4, <1>5, <2>2 DEF HomeEvent
    <3>2. e.prev \in Deadline => ended[e.prev] <= e.ts
      BY <1>6, <1>7, <3>1
    <3>3. /\ regular' \subseteq Deadline /\ \A p \in regular' : CloseTo(p)'
          /\ \A p \in Deadline : ended'[p] = ended[p] \/ (p = e.prev /\ ended'[p] = e.ts)
      BY <1>1, <2>0, <2>2, <3>1, <3>2, SwitchClose
    <3> QED
      BY <1>6, <3>1, <3>3
  <2> QED
    BY <2>1, <2>2
<1>11. EndsBefore'
  <2> SUFFICES ASSUME NEW p \in Deadline
               PROVE  ended'[p] <= now /\ Within(Unread(p)', ended'[p], now)
    BY <1>1 DEF EndsBefore
  <2>1. ended[p] <= now /\ Within(Unread(p), ended[p], now)
    BY DEF BInv, EndsBefore
  <2>2. CASE Cpu[p] # c
    BY <1>8, <1>10, <2>1, <2>2
  <2>3. CASE Cpu[p] = c
    BY <1>7, <1>10, <2>1, <2>3
  <2> QED
    BY <2>2, <2>3
<1> QED
  BY <1>9, <1>10, <1>11 DEF BInv

LEMMA CloseInit == ASSUME Init PROVE BInv
<1>1. /\ now = 1 /\ Cpu \in [Tasks -> Cpus] /\ Deadline \subseteq Tasks
      /\ buffer = [c \in Cpus |-> << >>] /\ ended = [p \in Deadline |-> 0]
      /\ mon = [p \in Tasks |-> NewMon] /\ regular = Deadline
  BY PeriodsAssumption DEF Init
<1>2. InOrder
  BY <1>1 DEF InOrder, Ordered, Within
<1>3. EndsBefore
  BY <1>1 DEF EndsBefore, Within, Unread
<1>4. \A p \in regular : CloseTo(p)
  BY <1>1 DEF CloseTo, NewMon
<1> QED
  BY <1>1, <1>2, <1>3, <1>4 DEF BInv

(* The deadline kept of a task lies at least a period after the last end of *)
(* a period seen and, if no overrun was seen since it was set, no more than *)
(* one after the kernel's, or less than two after that end.                *)
THEOREM AheadAlways == Spec => []Ahead
<1>1. Init => IInv /\ AInv /\ BInv
  BY AheadInit, AccountInit, CloseInit
<1>2. IInv /\ AInv /\ BInv /\ [Next]_vars => (IInv /\ AInv /\ BInv)'
  <2> SUFFICES ASSUME IInv, AInv, BInv, [Next]_vars PROVE IInv' /\ AInv' /\ BInv'
    OBVIOUS
  <2>1. IInv' /\ AInv'
    BY InductiveStep, AccountsStep
  <2>2. CASE UNCHANGED vars
    <3>1. now' = now /\ kdl' = kdl /\ buffer' = buffer /\ mon' = mon /\ ended' = ended
          /\ regular' = regular
      BY <2>2 DEF vars
    <3>2. BInv'
      BY <3>1 DEF BInv, InOrder, EndsBefore, Ordered, Within, Unread, CloseTo, Close
    <3> QED
      BY <2>1, <3>2
  <2>3. CASE Kernel
    BY <2>1, <2>3, KernelClose
  <2>4. ASSUME NEW c \in Cpus, Read(c) PROVE BInv'
    BY <2>4, ReadClose
  <2> QED
    BY <2>1, <2>2, <2>3, <2>4 DEF Next
<1>3. IInv /\ BInv => Ahead
  <2> SUFFICES ASSUME IInv, BInv PROVE Ahead
    OBVIOUS
  <2> QED
    BY DEF IInv, BInv, Ahead, CloseTo, Close
<1> QED
  BY <1>1, <1>2, <1>3, PTL DEF Spec
=============================================================================
