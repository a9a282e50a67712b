---------------------------- MODULE ThreadsProofs ----------------------------
(***************************************************************************)
(* Theorems about the threads.  Of DockerLink, for any number of events:   *)
(* types, the mutex and slot discipline, that the link never overwrites an *)
(* event, and that events never overtake each other.  Of Lifecycle, for    *)
(* any number of CPUs and whatever fails: who may hold dataMutex, and that *)
(* the environment is restored only after the last thread has ended.       *)
(***************************************************************************)
EXTENDS Lifecycle, DockerLink, TLAPS

(***************************************************************************)
(* The Docker link.                                                        *)
(***************************************************************************)

(* Types and the slot discipline need each other: that updateDocker()      *)
(* appends an event and never a null pointer to its history follows from   *)
(* the slot being full when it is taken.                                   *)
SlotInv == LinkTypeOK /\ LockInv

LEMMA SlotInvInit == LinkInit => SlotInv
  BY MaxEventsAssumption DEF LinkInit, Flag, SlotInv, LinkTypeOK, LockInv

LEMMA SlotInvStep == SlotInv /\ [LinkNext]_linkvars => SlotInv'
<1> SUFFICES ASSUME SlotInv, [LinkNext]_linkvars PROVE SlotInv'
  OBVIOUS
<1> USE MaxEventsAssumption, NoneAssumption DEF Flag, SlotInv, LinkTypeOK, LockInv
<1>1. CASE DockerPrint
  <2>1. PICK k \in Kind :
          LET line == [n |-> printed + 1, kind |-> k]
          IN  /\ pipe' = Append(pipe, line)
              /\ sent' = IF Relevant(line) THEN Append(sent, line) ELSE sent
    BY <1>1 DEF DockerPrint
  <2> DEFINE line == [n |-> printed + 1, kind |-> k]
  <2>2. printed' \in 0..MaxEvents /\ line \in Line
    BY <1>1 DEF DockerPrint, Line
  <2>3. Relevant(line) => line \in ContainerEvent
    BY <2>2 DEF Relevant, Line, ContainerEvent
  <2>4. pipe' \in Seq(Line) /\ sent' \in Seq(ContainerEvent)
    BY <2>1, <2>2, <2>3
  <2>5. QED
    BY <1>1, <2>2, <2>4 DEF DockerPrint, link, updater
<1>2. CASE DockerExit
  BY <1>2 DEF DockerExit, link, updater
<1>3. CASE Setup \/ OpenPipe \/ BeginRead
  BY <1>3 DEF Setup, OpenPipe, BeginRead, docker, updater
<1>4. CASE ReadLoop \/ EnterRead \/ ReadEOF
  BY <1>4 DEF ReadLoop, EnterRead, ReadEOF, docker, updater
<1>5. CASE StopCheck \/ Leave
  BY <1>5 DEF StopCheck, Leave, docker, updater
<1>6. CASE CheckSlot
  BY <1>6 DEF CheckSlot, docker, updater
<1>7. CASE Store
  BY <1>7 DEF Store, docker, updater
<1>8. CASE ReadLine
  <2>1. Head(pipe) \in Line /\ pipe' \in Seq(Line)
    BY <1>8 DEF ReadLine
  <2>2. Relevant(Head(pipe)) => Head(pipe) \in ContainerEvent
    BY <2>1 DEF Relevant, Line, ContainerEvent
  <2>3. Head(pipe) # None
    BY <2>1
  <2>4. QED
    BY <1>8, <2>1, <2>2, <2>3 DEF ReadLine, updater
<1>9. CASE TakeHup
  BY <1>9 DEF TakeHup, docker, updater
<1>10. CASE UpdaterStep
  <2>1. CASE Poll \/ Take \/ Clear \/ JoinLink
    BY <2>1 DEF Poll, Take, Clear, JoinLink, docker, link
  <2>2. CASE Handle
    <3>1. got' \in Seq(ContainerEvent)
      BY <2>2 DEF Handle
    <3>2. QED
      BY <2>2, <3>1 DEF Handle, docker, link
  <2>3. QED
    BY <1>10, <2>1, <2>2 DEF UpdaterStep
<1>11. CASE SendHup
  BY <1>11 DEF SendHup, docker, link
<1>12. CASE UNCHANGED linkvars
  BY <1>12 DEF linkvars, docker, link, updater
<1>13. QED
  BY <1>1, <1>2, <1>3, <1>4, <1>5, <1>6, <1>7, <1>8, <1>9, <1>10, <1>11, <1>12
     DEF LinkNext, LinkStep

(* Every variable keeps its type in every reachable state. *)
THEOREM LinkTypeCorrect == LinkSpec => []LinkTypeOK
<1>1. SlotInv => LinkTypeOK
  BY DEF SlotInv
<1>2. QED
  BY SlotInvInit, SlotInvStep, <1>1, PTL DEF LinkSpec

(* The mutex is held exactly between the two steps that fill the slot, the *)
(* slot is free during that time although updateDocker() works on it       *)
(* without the mutex, and a thread that is gone does not hold the mutex.   *)
THEOREM LockDiscipline == LinkSpec => []LockInv
<1>1. SlotInv => LockInv
  BY DEF SlotInv
<1>2. QED
  BY SlotInvInit, SlotInvStep, <1>1, PTL DEF LinkSpec

(* The link never overwrites an event updateDocker() has not taken. *)
THEOREM NeverOverwrites == LinkSpec => NoOverwrite
<1>1. SlotInv /\ [LinkNext]_linkvars =>
        [containerEvent' # containerEvent => None \in {containerEvent, containerEvent'}]_linkvars
  <2> SUFFICES ASSUME SlotInv, LinkNext, containerEvent' # containerEvent
               PROVE  None \in {containerEvent, containerEvent'}
    OBVIOUS
  <2>1. CASE Store
    BY <2>1 DEF Store, SlotInv, LockInv
  <2>2. CASE Clear
    BY <2>2 DEF Clear
  <2>3. CASE DockerPrint \/ DockerExit \/ TakeHup \/ SendHup
    BY <2>3 DEF DockerPrint, DockerExit, TakeHup, SendHup
  <2>4. CASE Poll \/ Take \/ Handle \/ JoinLink
    BY <2>4 DEF Poll, Take, Handle, JoinLink
  <2>5. CASE LinkStep /\ ~Store
    BY <2>5 DEF LinkStep, Setup, OpenPipe, BeginRead, ReadLoop, EnterRead, ReadLine,
                ReadEOF, CheckSlot, StopCheck, Leave
  <2>6. QED
    BY <2>1, <2>2, <2>3, <2>4, <2>5 DEF LinkNext, UpdaterStep
<1>2. QED
  BY SlotInvInit, SlotInvStep, <1>1, PTL DEF LinkSpec, NoOverwrite

-----------------------------------------------------------------------------
(* Facts about the elements of a sequence. *)

LEMMA AppendElements ==
  ASSUME NEW S, NEW s \in Seq(S), NEW e \in S
  PROVE  Elements(Append(s, e)) = Elements(s) \cup {e}
BY DEF Elements

LEMMA AppendIncreasing ==
  ASSUME NEW S, NEW s \in Seq(S), NEW e \in S, Increasing(s), Before(Elements(s), {e})
  PROVE  Increasing(Append(s, e))
BY DEF Elements, Increasing, Before

LEMMA HeadTailElements ==
  ASSUME NEW S, NEW s \in Seq(S), s # <<>>
  PROVE  Head(s) \in Elements(s) /\ Elements(Tail(s)) \subseteq Elements(s)
BY DEF Elements

LEMMA HeadTailAll ==
  ASSUME NEW S, NEW s \in Seq(S), s # <<>>
  PROVE  Elements(s) = {Head(s)} \cup Elements(Tail(s))
<1>1. Elements(s) \subseteq {Head(s)} \cup Elements(Tail(s))
  <2>1. SUFFICES ASSUME NEW i \in 1..Len(s), s[i] # Head(s)
                 PROVE  s[i] \in Elements(Tail(s))
    BY DEF Elements
  <2>2. i - 1 \in 1..Len(Tail(s)) /\ Tail(s)[i - 1] = s[i]
    BY <2>1
  <2> QED
    BY <2>2 DEF Elements
<1> QED
  BY <1>1, HeadTailElements

LEMMA TailIncreasing ==
  ASSUME NEW S, NEW s \in Seq(S), s # <<>>, Increasing(s)
  PROVE  Increasing(Tail(s)) /\ Before({Head(s)}, Elements(Tail(s)))
BY DEF Elements, Increasing, Before

LEMMA ElementsTyped ==
  ASSUME NEW S, NEW s \in Seq(S)
  PROVE  Elements(s) \subseteq S
BY DEF Elements

(* A step that leaves the pipe, the history and the three places alone.    *)
LEMMA OrderFrame ==
  ASSUME OrderInv, printed' = printed, pipe' = pipe, got' = got,
         InHand' = InHand, InSlot' = InSlot, Pending' = Pending
  PROVE  OrderInv'
BY DEF OrderInv, InFlight, Before, Increasing, Elements

LEMMA OrderInvInit == LinkInit => OrderInv
BY DEF LinkInit, OrderInv, Increasing, Before, Elements, InFlight, InHand, InSlot, Pending

LEMMA OrderInvStep == SlotInv /\ OrderInv /\ [LinkNext]_linkvars => OrderInv'
<1> SUFFICES ASSUME SlotInv, OrderInv, [LinkNext]_linkvars PROVE OrderInv'
  OBVIOUS
<1>t. /\ got \in Seq(ContainerEvent) /\ pipe \in Seq(Line) /\ printed \in Nat
      /\ ContainerEvent \subseteq Line /\ \A x \in Line : x.n \in Nat /\ x # None
  BY MaxEventsAssumption, NoneAssumption
     DEF SlotInv, LinkTypeOK, ContainerEvent, Line, Kind
<1>1. CASE DockerPrint
  <2> DEFINE N == printed + 1
  <2>1. PICK k \in Kind : pipe' = Append(pipe, [n |-> N, kind |-> k])
    BY <1>1 DEF DockerPrint
  <2> DEFINE line == [n |-> N, kind |-> k]
  <2>2. line \in Line /\ line.n = printed + 1 /\ printed' = printed + 1
    BY <1>1, <1>t, MaxEventsAssumption DEF DockerPrint, Line
  <2> HIDE DEF line
  <2>3. \A x \in Elements(got) \cup InFlight : x.n \in Nat /\ x.n < line.n
    <3>1. \A x \in Elements(got) \cup InFlight : x.n <= printed /\ x.n \in Nat
      BY <1>t, ElementsTyped, NoneAssumption
         DEF OrderInv, InFlight, InHand, InSlot, Pending, SlotInv, LinkTypeOK, LockInv
    <3>2. QED
      BY <3>1, <2>2, <1>t
  <2>4. Elements(pipe') = Elements(pipe) \cup {line} /\ Increasing(pipe')
    BY <2>1, <2>2, <2>3, <1>t, AppendElements, AppendIncreasing
       DEF OrderInv, InFlight, Before, line
  <2>5. got' = got /\ InHand' = InHand /\ InSlot' = InSlot /\ Pending' = Pending
    BY <1>1 DEF DockerPrint, InHand, InSlot, Pending, link, updater
  <2>6. \A x \in Elements(got)' \cup InFlight' : x.n <= printed'
    <3>1. \A x \in Elements(got) \cup InFlight \cup {line} : x.n <= printed'
      BY <2>2, <2>3, <1>t
    <3>2. QED
      BY <3>1, <2>4, <2>5 DEF InFlight
  <2>7. InFlight' = InFlight \cup {line}
    BY <2>4, <2>5 DEF InFlight
  <2>8. Before(Elements(got), {line}) /\ Before(InFlight, {line})
    BY <2>3 DEF Before
  <2>9. /\ Before(Elements(got), InFlight')
        /\ Before(InHand, InSlot \cup Pending \cup Elements(pipe'))
        /\ Before(InSlot, Pending \cup Elements(pipe'))
        /\ Before(Pending, Elements(pipe'))
    BY <2>4, <2>7, <2>8 DEF OrderInv, InFlight, Before
  <2>10. QED
    BY <2>4, <2>5, <2>6, <2>9 DEF OrderInv
<1>2. CASE ReadLine
  <2> DEFINE line == Head(pipe)
  <2>1. pipe # <<>> /\ pipe' = Tail(pipe) /\ Pending = {}
    BY <1>2 DEF ReadLine, Pending, SlotInv, LockInv
  <2>2. line \in Elements(pipe) /\ Elements(pipe') \subseteq Elements(pipe)
    BY <2>1, <1>t, HeadTailElements
  <2>3. Increasing(pipe') /\ Before({line}, Elements(pipe'))
    BY <2>1, <1>t, TailIncreasing DEF OrderInv
  <2>4. /\ got' = got /\ InHand' = InHand /\ InSlot' = InSlot /\ printed' = printed
        /\ Pending' \subseteq {line}
    BY <1>2, <2>1 DEF ReadLine, InHand, InSlot, Pending, updater
  <2> HIDE DEF line
  <2>5. QED
    BY <2>2, <2>3, <2>4 DEF OrderInv, InFlight, Before, Elements
<1>3. CASE Store
  <2>1. /\ InSlot = {} /\ Pending' = {} /\ InSlot' = Pending
        /\ got' = got /\ pipe' = pipe /\ printed' = printed /\ InHand' = InHand
    BY <1>3 DEF Store, InSlot, Pending, InHand, SlotInv, LockInv, docker, updater
  <2>2. QED
    BY <2>1 DEF OrderInv, InFlight, Before, Increasing, Elements
<1>4. CASE Clear
  <2>1. /\ InHand = {} /\ InHand' = InSlot /\ InSlot' = {}
        /\ got' = got /\ pipe' = pipe /\ printed' = printed /\ Pending' = Pending
    BY <1>4 DEF Clear, InSlot, Pending, InHand, SlotInv, LockInv, docker, link
  <2>2. QED
    BY <2>1 DEF OrderInv, InFlight, Before, Increasing, Elements
<1>5. CASE Handle
  <2>1. lstevent \in ContainerEvent /\ InHand = {lstevent}
    BY <1>5 DEF Handle, InHand, SlotInv, LinkTypeOK, LockInv
  <2>2. Elements(got') = Elements(got) \cup {lstevent} /\ Increasing(got')
    BY <1>5, <2>1, <1>t, AppendElements, AppendIncreasing
       DEF Handle, OrderInv, InFlight, Before
  <2>3. /\ InHand' = {} /\ InSlot' = InSlot /\ Pending' = Pending
        /\ pipe' = pipe /\ printed' = printed
    BY <1>5 DEF Handle, InHand, InSlot, Pending, docker, link
  <2>4. QED
    BY <2>1, <2>2, <2>3 DEF OrderInv, InFlight, Before
<1>6. CASE DockerExit \/ TakeHup \/ SendHup
  BY <1>6, OrderFrame DEF DockerExit, TakeHup, SendHup, InHand, InSlot, Pending,
                          docker, link, updater
<1>7. CASE Poll \/ Take \/ JoinLink
  BY <1>7, OrderFrame DEF Poll, Take, JoinLink, InHand, InSlot, Pending, docker, link
<1>8. CASE LinkStep /\ ~ReadLine /\ ~Store
  BY <1>8, OrderFrame
     DEF LinkStep, Setup, OpenPipe, BeginRead, ReadLoop, EnterRead, ReadEOF, CheckSlot,
         StopCheck, Leave, InHand, InSlot, Pending, docker, updater
<1>9. CASE UNCHANGED linkvars
  BY <1>9, OrderFrame DEF linkvars, InHand, InSlot, Pending, docker, link, updater
<1>10. QED
  BY <1>1, <1>2, <1>3, <1>4, <1>5, <1>6, <1>7, <1>8, <1>9 DEF LinkNext, UpdaterStep

(* Events never overtake each other: the history of updateDocker(), what   *)
(* it has in hand, the slot, the link thread and the pipe hold ever newer  *)
(* events.                                                                 *)
THEOREM EventsInOrder == LinkSpec => []OrderInv
BY SlotInvInit, SlotInvStep, OrderInvInit, OrderInvStep, PTL DEF LinkSpec

-----------------------------------------------------------------------------
(* No event is lost: whatever docker has emitted has been handled or is    *)
(* in one of the places, even in those a thread that is gone has left      *)
(* behind.  With OrderInv that makes the history a prefix of what docker   *)
(* has emitted.                                                            *)
InPipe == {x \in Elements(pipe) : Relevant(x)}

IsPrefixOf(s, t) == \A i \in 1..Len(s) : i <= Len(t) /\ s[i] = t[i]

FlowInv ==
  /\ Increasing(sent) /\ IsPrefixOf(got, sent)
  /\ Elements(sent) = Elements(got) \cup InHand \cup InSlot \cup Pending \cup InPipe
  /\ \A x \in Elements(sent) : x.n <= printed

(* What the queue promises of the history follows from both.  An event     *)
(* that updateDocker() has in hand is the next one: all that docker        *)
(* emitted before it has been handled, as it is in no other place.         *)
LEMMA InHandIsNext ==
  ASSUME SlotInv, OrderInv, FlowInv, upd = "handle"
  PROVE  /\ lstevent \in ContainerEvent
         /\ Len(got) < Len(sent) /\ sent[Len(got) + 1] = lstevent
<1> DEFINE next == Len(got) + 1
<1>t. /\ sent \in Seq(ContainerEvent) /\ got \in Seq(ContainerEvent)
      /\ \A x \in ContainerEvent : x.n \in Nat
  BY MaxEventsAssumption DEF SlotInv, LinkTypeOK, ContainerEvent
<1>n. Len(sent) \in Nat /\ Len(got) \in Nat
  BY <1>t
<1>1. InHand = {lstevent} /\ lstevent \in Elements(sent)
  BY DEF FlowInv, InHand
<1>2. PICK j \in 1..Len(sent) : sent[j] = lstevent
  BY <1>1 DEF Elements
<1>3. lstevent \in ContainerEvent /\ lstevent.n \in Nat
  BY <1>t, <1>2
<1>4. \A i \in 1..Len(got) : got[i].n < lstevent.n
  BY <1>1 DEF OrderInv, Before, InFlight, Elements
<1>5. ~(j <= Len(got))
  <2>1. SUFFICES ASSUME j <= Len(got) PROVE FALSE
    OBVIOUS
  <2>2. j \in 1..Len(got)
    BY <2>1, <1>2, <1>n
  <2>3. got[j] = lstevent
    BY <2>2, <1>2 DEF FlowInv, IsPrefixOf
  <2> QED
    BY <2>2, <2>3, <1>3, <1>4
<1>6. Len(got) < Len(sent) /\ next \in 1..Len(sent) /\ next <= j
  BY <1>2, <1>5, <1>n
<1>7. ~(next < j)
  <2>1. SUFFICES ASSUME next < j PROVE FALSE
    OBVIOUS
  <2> DEFINE e == sent[next]
  <2>2. e \in Elements(sent) /\ e.n \in Nat /\ e.n < lstevent.n
    BY <2>1, <1>2, <1>6, <1>t DEF FlowInv, Increasing, Elements
  <2>3. e \notin Elements(got)
    <3>1. SUFFICES ASSUME NEW i \in 1..Len(got), got[i] = e PROVE FALSE
      BY DEF Elements
    <3>2. sent[i] = e /\ i \in 1..Len(sent) /\ i < next
      BY <3>1, <1>n DEF FlowInv, IsPrefixOf
    <3>3. sent[i].n < sent[next].n
      BY <3>2, <1>6 DEF FlowInv, Increasing
    <3> QED
      BY <3>2, <3>3, <2>2
  <2>4. e # lstevent
    BY <2>2, <1>3
  <2>5. e \in InSlot \cup Pending \cup Elements(pipe)
    BY <2>2, <2>3, <2>4, <1>1 DEF FlowInv, InPipe
  <2>6. lstevent.n < e.n
    BY <2>5, <1>1 DEF OrderInv, Before
  <2> QED
    BY <2>2, <2>6, <1>3
<1>8. next = j
  BY <1>2, <1>6, <1>7, <1>n
<1> QED
  BY <1>2, <1>3, <1>6, <1>8

LEMMA FlowInvInit == LinkInit => FlowInv
BY DEF LinkInit, FlowInv, Increasing, IsPrefixOf, Elements, InHand, InSlot, Pending, InPipe

(* A step that leaves the pipe, the histories and the three places alone.  *)
LEMMA FlowFrame ==
  ASSUME FlowInv, printed' = printed, sent' = sent, pipe' = pipe, got' = got,
         InHand' = InHand, InSlot' = InSlot, Pending' = Pending
  PROVE  FlowInv'
BY DEF FlowInv, InPipe, Increasing, IsPrefixOf, Elements, Relevant

LEMMA FlowInvStep == SlotInv /\ OrderInv /\ FlowInv /\ [LinkNext]_linkvars => FlowInv'
<1> SUFFICES ASSUME SlotInv, OrderInv, FlowInv, [LinkNext]_linkvars PROVE FlowInv'
  OBVIOUS
<1>t. /\ got \in Seq(ContainerEvent) /\ sent \in Seq(ContainerEvent)
      /\ pipe \in Seq(Line) /\ printed \in Nat
      /\ ContainerEvent \subseteq Line /\ \A x \in Line : x.n \in Nat /\ x # None
  BY MaxEventsAssumption, NoneAssumption
     DEF SlotInv, LinkTypeOK, ContainerEvent, Line, Kind
<1>1. CASE DockerPrint
  <2> DEFINE N == printed + 1
  <2>1. PICK k \in Kind :
          LET line == [n |-> N, kind |-> k]
          IN  /\ pipe' = Append(pipe, line)
              /\ sent' = IF Relevant(line) THEN Append(sent, line) ELSE sent
    BY <1>1 DEF DockerPrint
  <2> DEFINE line == [n |-> N, kind |-> k]
  <2>2. line \in Line /\ line.n = printed + 1 /\ printed' = printed + 1
    BY <1>1, <1>t, MaxEventsAssumption DEF DockerPrint, Line
  <2>3. Relevant(line) => line \in ContainerEvent
    BY <2>2 DEF Relevant, Line, ContainerEvent
  <2>4. /\ pipe' = Append(pipe, line)
        /\ sent' = IF Relevant(line) THEN Append(sent, line) ELSE sent
    BY <2>1
  <2> HIDE DEF line
  <2>5. Elements(pipe') = Elements(pipe) \cup {line}
    BY <2>2, <2>4, <1>t, AppendElements
  <2>6. InPipe' = IF Relevant(line) THEN InPipe \cup {line} ELSE InPipe
    BY <2>5 DEF InPipe, Relevant
  <2>7. got' = got /\ InHand' = InHand /\ InSlot' = InSlot /\ Pending' = Pending
    BY <1>1 DEF DockerPrint, InHand, InSlot, Pending, link, updater
  <2>8. \A x \in Elements(sent) : x.n \in Nat /\ x.n < line.n
    BY <2>2, <1>t, ElementsTyped DEF FlowInv
  <2>9. CASE Relevant(line)
    <3>1. sent' = Append(sent, line) /\ line \in ContainerEvent
      BY <2>3, <2>4, <2>9
    <3>2. Elements(sent') = Elements(sent) \cup {line}
      BY <3>1, <1>t, AppendElements
    <3>3. Increasing(sent')
      BY <3>1, <2>8, <1>t, AppendIncreasing DEF FlowInv, Before
    <3>4. IsPrefixOf(got', sent')
      BY <3>1, <2>7, <1>t DEF FlowInv, IsPrefixOf
    <3>5. \A x \in Elements(sent') : x.n <= printed'
      BY <3>2, <2>2, <2>8, <1>t
    <3> QED
      BY <3>2, <3>3, <3>4, <3>5, <2>6, <2>7, <2>9 DEF FlowInv
  <2>10. CASE ~Relevant(line)
    <3>1. sent' = sent /\ InPipe' = InPipe
      BY <2>4, <2>6, <2>10
    <3>2. \A x \in Elements(sent) : x.n <= printed'
      BY <2>2, <2>8, <1>t
    <3> QED
      BY <3>1, <3>2, <2>7 DEF FlowInv
  <2> QED
    BY <2>9, <2>10
<1>2. CASE ReadLine
  <2> DEFINE line == Head(pipe)
  <2>1. pipe # <<>> /\ pipe' = Tail(pipe) /\ Pending = {}
    BY <1>2 DEF ReadLine, Pending, SlotInv, LockInv
  <2>2. Elements(pipe) = {line} \cup Elements(pipe')
    BY <2>1, <1>t, HeadTailAll
  <2>3. /\ got' = got /\ sent' = sent /\ printed' = printed
        /\ InHand' = InHand /\ InSlot' = InSlot
    BY <1>2 DEF ReadLine, InHand, InSlot, updater
  <2>4. Pending' = IF Relevant(line) THEN {line} ELSE {}
    <3>1. CASE Relevant(line)
      <4>1. pending' = line /\ line # None
        BY <1>2, <3>1, <2>1, <1>t DEF ReadLine, Relevant
      <4> QED
        BY <3>1, <4>1 DEF Pending
    <3>2. CASE ~Relevant(line)
      BY <1>2, <3>2, <2>1 DEF ReadLine, Pending
    <3> QED
      BY <3>1, <3>2
  <2> HIDE DEF line
  <2>5. InPipe = Pending' \cup InPipe'
    BY <2>2, <2>4 DEF InPipe, Relevant
  <2>6. Elements(sent') = Elements(got') \cup InHand' \cup InSlot' \cup Pending' \cup InPipe'
    BY <2>1, <2>3, <2>5 DEF FlowInv
  <2> QED
    BY <2>3, <2>6 DEF FlowInv
<1>3. CASE Store
  <2>1. /\ InSlot = {} /\ Pending' = {} /\ InSlot' = Pending
        /\ got' = got /\ sent' = sent /\ pipe' = pipe /\ printed' = printed /\ InHand' = InHand
    BY <1>3 DEF Store, InSlot, Pending, InHand, SlotInv, LockInv, docker, updater
  <2>2. InPipe' = InPipe
    BY <2>1 DEF InPipe, Relevant
  <2> QED
    BY <2>1, <2>2 DEF FlowInv
<1>4. CASE Clear
  <2>1. /\ InHand = {} /\ InHand' = InSlot /\ InSlot' = {}
        /\ got' = got /\ sent' = sent /\ pipe' = pipe /\ printed' = printed /\ Pending' = Pending
    BY <1>4 DEF Clear, InSlot, Pending, InHand, SlotInv, LockInv, docker, link
  <2>2. InPipe' = InPipe
    BY <2>1 DEF InPipe, Relevant
  <2> QED
    BY <2>1, <2>2 DEF FlowInv
<1>5. CASE Handle
  <2>1. /\ lstevent \in ContainerEvent /\ InHand = {lstevent}
        /\ Len(got) < Len(sent) /\ sent[Len(got) + 1] = lstevent
    BY <1>5, InHandIsNext DEF Handle, InHand
  <2>2. got' = Append(got, lstevent) /\ Elements(got') = Elements(got) \cup {lstevent}
    BY <1>5, <2>1, <1>t, AppendElements DEF Handle
  <2>3. /\ InHand' = {} /\ InSlot' = InSlot /\ Pending' = Pending
        /\ sent' = sent /\ pipe' = pipe /\ printed' = printed
    BY <1>5 DEF Handle, InHand, InSlot, Pending, docker, link
  <2>4. InPipe' = InPipe
    BY <2>3 DEF InPipe, Relevant
  <2>5. IsPrefixOf(got', sent')
    BY <2>1, <2>2, <2>3, <1>t DEF FlowInv, IsPrefixOf
  <2>6. Elements(sent') = Elements(got') \cup InHand' \cup InSlot' \cup Pending' \cup InPipe'
    BY <2>1, <2>2, <2>3, <2>4 DEF FlowInv
  <2> QED
    BY <2>3, <2>5, <2>6 DEF FlowInv
<1>6. CASE DockerExit \/ TakeHup \/ SendHup
  BY <1>6, FlowFrame DEF DockerExit, TakeHup, SendHup, InHand, InSlot, Pending,
                         docker, link, updater
<1>7. CASE Poll \/ Take \/ JoinLink
  BY <1>7, FlowFrame DEF Poll, Take, JoinLink, InHand, InSlot, Pending, docker, link
<1>8. CASE LinkStep /\ ~ReadLine /\ ~Store
  BY <1>8, FlowFrame
     DEF LinkStep, Setup, OpenPipe, BeginRead, ReadLoop, EnterRead, ReadEOF, CheckSlot,
         StopCheck, Leave, InHand, InSlot, Pending, docker, updater
<1>9. CASE UNCHANGED linkvars
  BY <1>9, FlowFrame DEF linkvars, InHand, InSlot, Pending, docker, link, updater
<1>10. QED
  BY <1>1, <1>2, <1>3, <1>4, <1>5, <1>6, <1>7, <1>8, <1>9 DEF LinkNext, UpdaterStep

(* No container event docker emits is lost or invented: it has been        *)
(* handled, or updateDocker(), the mailbox, the link thread or the pipe    *)
(* has it; and the events handled are a prefix of those emitted.           *)
THEOREM NothingLost == LinkSpec => []FlowInv
BY SlotInvInit, SlotInvStep, OrderInvInit, OrderInvStep, FlowInvInit, FlowInvStep, PTL DEF LinkSpec

-----------------------------------------------------------------------------
(* The link implements the queue. *)

LEMMA QueueInit == LinkInit => Queue!Init
BY DEF LinkInit, Queue!Init

LEMMA QueueStep ==
  ASSUME SlotInv, OrderInv, FlowInv, [LinkNext]_linkvars
  PROVE  [Queue!Next]_(Queue!eqvars)
<1> DEFINE open == at \notin {"exit", "killed"} /\ upd \notin {"join", "done"}
<1> SUFFICES \/ Queue!Emit \/ Queue!Deliver \/ Queue!Close
             \/ sent' = sent /\ got' = got /\ open' = open
  BY DEF Queue!Next, Queue!eqvars
<1>1. CASE DockerPrint
  <2>1. UNCHANGED <<at, upd, got>>
    BY <1>1 DEF DockerPrint, link, updater
  <2>2. PICK k \in Kind :
          LET line == [n |-> printed + 1, kind |-> k]
          IN  sent' = IF Relevant(line) THEN Append(sent, line) ELSE sent
    BY <1>1 DEF DockerPrint
  <2> DEFINE line == [n |-> printed + 1, kind |-> k]
  <2>3. Relevant(line) => line \in ContainerEvent
    <3>1. printed + 1 \in 1..MaxEvents
      BY <1>1, MaxEventsAssumption DEF DockerPrint, SlotInv, LinkTypeOK
    <3> QED
      BY <3>1 DEF Relevant, ContainerEvent
  <2>4. sent' = IF Relevant(line) THEN Append(sent, line) ELSE sent
    BY <2>2
  <2> HIDE DEF line
  <2>5. CASE Relevant(line)
    BY <2>1, <2>3, <2>4, <2>5 DEF Queue!Emit
  <2>6. CASE ~Relevant(line)
    BY <2>1, <2>4, <2>6
  <2> QED
    BY <2>5, <2>6
<1>2. CASE Handle
  <2>1. Len(got) < Len(sent) /\ got' = Append(got, sent[Len(got) + 1])
    BY <1>2, InHandIsNext DEF Handle
  <2>2. sent' = sent /\ open' = open
    BY <1>2 DEF Handle, docker, link
  <2> QED
    BY <2>1, <2>2 DEF Queue!Deliver
<1>3. CASE LinkStep
  <2>1. UNCHANGED <<sent, got, upd>> /\ at \notin {"exit", "killed"}
    BY <1>3 DEF LinkStep, Setup, OpenPipe, BeginRead, ReadLoop, EnterRead, ReadLine, ReadEOF,
                CheckSlot, Store, StopCheck, Leave, docker, updater
  <2> QED
    BY <2>1 DEF Queue!Close
<1>4. CASE TakeHup
  <2>1. UNCHANGED <<sent, got, upd>> /\ at \notin {"exit", "killed"}
    BY <1>4 DEF TakeHup, docker, updater
  <2> QED
    BY <2>1 DEF Queue!Close
<1>5. CASE SendHup
  <2>1. UNCHANGED <<sent, got, at>> /\ upd = "idle" /\ upd' = "join"
    BY <1>5 DEF SendHup, docker, link
  <2> QED
    BY <2>1 DEF Queue!Close
<1>6. CASE DockerExit \/ Poll \/ Take \/ Clear \/ JoinLink \/ UNCHANGED linkvars
  BY <1>6 DEF DockerExit, Poll, Take, Clear, JoinLink, linkvars, docker, link, updater
<1> QED
  BY <1>1, <1>2, <1>3, <1>4, <1>5, <1>6 DEF LinkNext, UpdaterStep

(* DockerLink implements EventQueue: what updateDocker() handles comes in  *)
(* the order in which docker emitted it, each event once and none skipped, *)
(* and nothing opens the link again.  That all of them are handled while   *)
(* nobody closes it is liveness.                                           *)
THEOREM RefinesQueue == LinkSpec => Queue!Spec
<1>1. LinkSpec => [](SlotInv /\ OrderInv /\ FlowInv)
  BY SlotInvInit, SlotInvStep, OrderInvInit, OrderInvStep, FlowInvInit, FlowInvStep, PTL DEF LinkSpec
<1>2. SlotInv /\ OrderInv /\ FlowInv /\ [LinkNext]_linkvars => [Queue!Next]_(Queue!eqvars)
  BY QueueStep
<1> QED
  BY QueueInit, <1>1, <1>2, PTL DEF LinkSpec, Queue!Spec

(***************************************************************************)
(* The life cycle of the threads.                                          *)
(***************************************************************************)

(* Type correctness, conjunct by conjunct of the state machine.            *)
LEMMA TypeInit == ASSUME Init PROVE TypeOK
  BY LifecycleAssumption DEF Init, TypeOK, Word

(* What the steps of one thread leave alone, and how far they can get.     *)
LEMMA MainFrame == Main => /\ UNCHANGED <<mutex, tracers, dlink, stop>>
                           /\ gpc' # gpc => mpc = "create1" /\ gpc' = "clock"
                           /\ upc' # upc => mpc = "create2" /\ upc' = "clock"
  BY DEF Main, CreateManage, CreateUpdate, InstallHandlers, LoopTest, StopTest,
     StopWrite, Join, Cleanup, mainframe, tracers, signals, words

LEMMA ManageFrame == Manage => UNCHANGED manageframe /\ gpc \notin {"none", "gone"}
                               /\ gpc' # "none"
  BY DEF Manage, ManageClock, ManageSwitch, ManageSetup, Configure, StartTrace,
     TraceStarted, ManageRaise, ManageUnlock, Rewrite, ManageStopping, DumpStats,
     ManageHalt, KillTrace, JoinTrace, TraceStopped, ManageTail, manageframe, tracers,
     signals

LEMMA UpdateFrame == Update => /\ UNCHANGED updateframe /\ upc \notin {"none", "gone"}
                               /\ upc' # "none"
  BY DEF Update, UpdateClock, UpdateSwitch, UpdateSetup, StartDlink, UpdateReady,
     UpdateDocker, ScanUnlock, UpdateStopping, UpdateHalt, Hup, JoinDlink, UpdateTail,
     updateframe, tracers, signals

LEMMA TraceFrame ==
  ASSUME TypeOK, NEW c \in Cpus, Trace(c) \/ TraceData(c)
  PROVE  /\ UNCHANGED traceframe
         /\ trace[c] \notin {"none", "gone", "failed"} /\ trace'[c] # "none"
         /\ \A d \in Cpus : d # c => trace'[d] = trace[d]
  BY DEF TypeOK, Trace, TraceData, TraceHandler, TraceOpen, TraceCheck, TraceEnter,
     TraceLock, TraceUnlock, TraceParsed, TraceClose, GoesTo, traceframe, words, signals

LEMMA TypeMain == ASSUME TypeOK, Main PROVE TypeOK'
<1>1. CASE CreateManage
   BY <1>1 DEF CreateManage, signals, tracers, TypeOK, Word
<1>2. CASE CreateUpdate
   BY <1>2 DEF CreateUpdate, signals, tracers, TypeOK, Word
<1>3. CASE InstallHandlers
   BY <1>3 DEF InstallHandlers, words, mainframe, tracers, TypeOK, Word
<1>4. CASE LoopTest
   BY <1>4 DEF LoopTest, words, signals, mainframe, tracers, TypeOK, Word
<1>5. CASE StopTest
   BY <1>5 DEF StopTest, words, signals, mainframe, tracers, TypeOK, Word
<1>6. CASE StopWrite
   BY <1>6 DEF StopWrite, signals, mainframe, tracers, TypeOK, Word
<1>7. CASE Join
   BY <1>7 DEF Join, words, signals, mainframe, tracers, TypeOK, Word
<1>8. CASE Cleanup
   BY <1>8 DEF Cleanup, words, signals, mainframe, tracers, TypeOK, Word
<1> QED  BY <1>1, <1>2, <1>3, <1>4, <1>5, <1>6, <1>7, <1>8 DEF Main

LEMMA TypeManage == ASSUME TypeOK, Manage PROVE TypeOK'
<1>1. CASE ManageClock
   BY <1>1 DEF ManageClock, signals, tracers, manageframe, TypeOK, Word
<1>2. CASE ManageSwitch
   BY <1>2 DEF ManageSwitch, signals, tracers, manageframe, TypeOK, Word
<1>3. CASE ManageSetup
   BY <1>3 DEF ManageSetup, signals, tracers, manageframe, TypeOK, Word
<1>4. CASE Configure
   BY <1>4 DEF Configure, signals, manageframe, TypeOK, Word
<1>5. CASE StartTrace
   BY <1>5 DEF StartTrace, signals, manageframe, TypeOK, Word
<1>6. CASE TraceStarted
   BY <1>6 DEF TraceStarted, signals, tracers, manageframe, TypeOK, Word
<1>7. CASE ManageRaise
   BY <1>7 DEF ManageRaise, tracers, manageframe, Terminate, TypeOK, Word
<1>8. CASE ManageUnlock
   BY <1>8 DEF ManageUnlock, signals, tracers, manageframe, TypeOK, Word
<1>9. CASE Rewrite
   BY <1>9 DEF Rewrite, signals, tracers, manageframe, TypeOK, Word
<1>10. CASE ManageStopping
   BY <1>10 DEF ManageStopping, signals, tracers, manageframe, TypeOK, Word
<1>11. CASE DumpStats
   BY <1>11 DEF DumpStats, signals, tracers, manageframe, TypeOK, Word
<1>12. CASE ManageHalt
   BY <1>12 DEF ManageHalt, signals, tracers, manageframe, TypeOK, Word
<1>13. CASE KillTrace
  <2>1. Head(elist_thead) \in Cpus
    BY <1>13 DEF KillTrace, TypeOK
  <2>2. /\ trace' \in [Cpus -> {"none", "failed", "handler", "open", "check", "enter", "read",
                                 "parse", "event", "close", "gone"}]
        /\ ftrace_stop' \in {0, 1} /\ killed' \in {0, 1}
    BY <1>13, <2>1 DEF KillTrace, TypeOK
  <2>3. /\ gpc' = "join"
        /\ UNCHANGED <<t_stat1, main_stop, armed, mutex, ftrace, elist_thead, quitarmed, manageframe>>
        /\ elist_thead # <<>>
    BY <1>13 DEF KillTrace
  <2> QED
    BY <2>2, <2>3 DEF TypeOK, Word, manageframe
<1>14. CASE JoinTrace
   BY <1>14 DEF JoinTrace, signals, manageframe, TypeOK, Word
<1>15. CASE TraceStopped
   BY <1>15 DEF TraceStopped, signals, tracers, manageframe, TypeOK, Word
<1>16. CASE ManageTail
   BY <1>16 DEF ManageTail, signals, tracers, manageframe, TypeOK, Word
<1> QED
  BY <1>1, <1>2, <1>3, <1>4, <1>5, <1>6, <1>7, <1>8,
     <1>9, <1>10, <1>11, <1>12, <1>13, <1>14, <1>15, <1>16
  DEF Manage

LEMMA TypeTrace == ASSUME TypeOK, NEW c \in Cpus, Trace(c) PROVE TypeOK'
<1>1. CASE TraceHandler(c)
   BY <1>1 DEF TraceHandler, traceframe, words, signals, GoesTo, TypeOK, Word
<1>2. CASE TraceOpen(c)
   BY <1>2 DEF TraceOpen, traceframe, words, signals, GoesTo, TypeOK, Word
<1>3. CASE TraceCheck(c)
   BY <1>3 DEF TraceCheck, traceframe, words, signals, GoesTo, TypeOK, Word
<1>4. CASE TraceEnter(c)
   BY <1>4 DEF TraceEnter, traceframe, words, signals, GoesTo, TypeOK, Word
<1>5. CASE TraceLock(c)
   BY <1>5 DEF TraceLock, traceframe, words, signals, GoesTo, TypeOK, Word
<1>6. CASE TraceUnlock(c)
   BY <1>6 DEF TraceUnlock, traceframe, words, signals, GoesTo, TypeOK, Word
<1>7. CASE TraceParsed(c)
   BY <1>7 DEF TraceParsed, traceframe, words, signals, GoesTo, TypeOK, Word
<1>8. CASE TraceClose(c)
   BY <1>8 DEF TraceClose, traceframe, words, signals, GoesTo, TypeOK, Word
<1> QED  BY <1>1, <1>2, <1>3, <1>4, <1>5, <1>6, <1>7, <1>8 DEF Trace

LEMMA TypeUpdate == ASSUME TypeOK, Update PROVE TypeOK'
<1>1. CASE UpdateClock
   BY <1>1 DEF UpdateClock, signals, updateframe, tracers, TypeOK, Word
<1>2. CASE UpdateSwitch
   BY <1>2 DEF UpdateSwitch, signals, updateframe, tracers, TypeOK, Word
<1>3. CASE UpdateSetup
   BY <1>3 DEF UpdateSetup, signals, updateframe, tracers, TypeOK, Word
<1>4. CASE StartDlink
   BY <1>4 DEF StartDlink, signals, updateframe, tracers, TypeOK, Word
<1>5. CASE UpdateReady
   BY <1>5 DEF UpdateReady, signals, updateframe, tracers, TypeOK, Word
<1>6. CASE UpdateDocker
   BY <1>6 DEF UpdateDocker, signals, updateframe, tracers, TypeOK, Word
<1>7. CASE ScanUnlock
   BY <1>7 DEF ScanUnlock, signals, updateframe, tracers, TypeOK, Word
<1>8. CASE UpdateStopping
   BY <1>8 DEF UpdateStopping, signals, updateframe, tracers, TypeOK, Word
<1>9. CASE UpdateHalt
   BY <1>9 DEF UpdateHalt, signals, updateframe, tracers, TypeOK, Word
<1>10. CASE Hup
   BY <1>10 DEF Hup, signals, updateframe, tracers, TypeOK, Word
<1>11. CASE JoinDlink
   BY <1>11 DEF JoinDlink, signals, updateframe, tracers, TypeOK, Word
<1>12. CASE UpdateTail
   BY <1>12 DEF UpdateTail, signals, updateframe, tracers, Terminate, TypeOK, Word
<1> QED
  BY <1>1, <1>2, <1>3, <1>4, <1>5, <1>6,
     <1>7, <1>8, <1>9, <1>10, <1>11, <1>12
  DEF Update

LEMMA TypeStep == ASSUME TypeOK, [Next]_vars PROVE TypeOK'
<1>1. CASE UserStop
  BY <1>1 DEF UserStop, Terminate, TypeOK, Word, words, mainframe, tracers
<1>2. CASE ManageLock
  BY <1>2 DEF ManageLock, TypeOK, Word, signals, tracers, manageframe
<1>3. CASE ScanLock
  BY <1>3 DEF ScanLock, TypeOK, Word, signals, tracers, updateframe
<1>4. CASE DlinkEnds
  BY <1>4 DEF DlinkEnds, TypeOK, Word, signals, tracers, updateframe
<1>5. ASSUME NEW c \in Cpus, TraceData(c) PROVE TypeOK'
  BY <1>5 DEF TraceData, GoesTo, TypeOK, Word, traceframe, words, signals
<1>6. CASE UNCHANGED vars
  BY <1>6 DEF vars, TypeOK, Word, words, signals, tracers
<1> QED
  BY <1>1, <1>2, <1>3, <1>4, <1>5, <1>6, TypeMain, TypeManage, TypeUpdate, TypeTrace DEF
     Next

(* The state machines never leave their states: no word holds a value its  *)
(* thread has no case for, no position is left without a successor.        *)
THEOREM TypeCorrect == Spec => []TypeOK
<1>1. Init => TypeOK
  BY TypeInit
<1>2. TypeOK /\ [Next]_vars => TypeOK'
  BY TypeStep
<1> QED  BY <1>1, <1>2, PTL DEF Spec

-----------------------------------------------------------------------------
(* dataMutex.  Taking it needs it free, and giving it back needs a place   *)
(* only its owner can be at, so the invariant is inductive as it stands.   *)

(* Threads are created in order, each once. *)
CreateOrder ==
  /\ mpc = "create1" => gpc = "none"
  /\ mpc \in {"create1", "create2"} => upc = "none"

LEMMA CreateStep == ASSUME TypeOK, CreateOrder, [Next]_vars PROVE CreateOrder'
<1>1. CASE Main
  BY <1>1, MainFrame DEF Main, CreateManage, CreateUpdate, InstallHandlers, LoopTest,
     StopTest,
     StopWrite, Join, Cleanup, CreateOrder
<1>2. CASE Manage
  BY <1>2, ManageFrame DEF manageframe, CreateOrder
<1>3. CASE Update
  BY <1>3, UpdateFrame DEF updateframe, CreateOrder
<1>4. ASSUME NEW c \in Cpus, Trace(c) \/ TraceData(c) PROVE CreateOrder'
  BY <1>4, TraceFrame DEF traceframe, CreateOrder
<1>5. CASE UserStop
  BY <1>5 DEF UserStop, mainframe, CreateOrder
<1>6. CASE ManageLock
  BY <1>6 DEF ManageLock, manageframe, CreateOrder
<1>7. CASE ScanLock
  BY <1>7 DEF ScanLock, updateframe, CreateOrder
<1>8. CASE DlinkEnds
  BY <1>8 DEF DlinkEnds, updateframe, CreateOrder
<1>9. CASE UNCHANGED vars
  BY <1>9 DEF vars, CreateOrder
<1> QED
  BY <1>1, <1>2, <1>3, <1>4, <1>5, <1>6, <1>7, <1>8, <1>9 DEF Next

LEMMA MutexMain == ASSUME CreateOrder, MutexInv, Main PROVE MutexInv'
  BY MainFrame DEF CreateOrder, MutexInv, tracers

LEMMA MutexManage == ASSUME TypeOK, CreateOrder, MutexInv, Manage PROVE MutexInv'
<1>1. CASE ManageClock
   BY <1>1, LifecycleAssumption DEF ManageClock, signals, tracers, manageframe, MutexInv,
     TypeOK, CreateOrder
<1>2. CASE ManageSwitch
   BY <1>2, LifecycleAssumption DEF ManageSwitch, signals, tracers, manageframe, MutexInv,
     TypeOK, CreateOrder
<1>3. CASE ManageSetup
   BY <1>3, LifecycleAssumption DEF ManageSetup, signals, tracers, manageframe, MutexInv,
     TypeOK, CreateOrder
<1>4. CASE Configure
   BY <1>4, LifecycleAssumption DEF Configure, signals, manageframe, MutexInv, TypeOK,
     CreateOrder
<1>5. CASE StartTrace
   BY <1>5, LifecycleAssumption DEF StartTrace, signals, manageframe, MutexInv, TypeOK,
     CreateOrder
<1>6. CASE TraceStarted
   BY <1>6, LifecycleAssumption DEF TraceStarted, signals, tracers, manageframe, MutexInv,
     TypeOK, CreateOrder
<1>7. CASE ManageRaise
   BY <1>7, LifecycleAssumption DEF ManageRaise, tracers, manageframe, Terminate, MutexInv,
     TypeOK, CreateOrder
<1>8. CASE ManageUnlock
   BY <1>8, LifecycleAssumption DEF ManageUnlock, signals, tracers, manageframe, MutexInv,
     TypeOK, CreateOrder
<1>9. CASE Rewrite
   BY <1>9, LifecycleAssumption DEF Rewrite, signals, tracers, manageframe, MutexInv,
     TypeOK, CreateOrder
<1>10. CASE ManageStopping
   BY <1>10, LifecycleAssumption DEF ManageStopping, signals, tracers, manageframe,
     MutexInv, TypeOK, CreateOrder
<1>11. CASE DumpStats
   BY <1>11, LifecycleAssumption DEF DumpStats, signals, tracers, manageframe, MutexInv,
     TypeOK, CreateOrder
<1>12. CASE ManageHalt
   BY <1>12, LifecycleAssumption DEF ManageHalt, signals, tracers, manageframe, MutexInv,
     TypeOK, CreateOrder
<1>13. CASE KillTrace
  <2>1. Head(elist_thead) \in Cpus
    BY <1>13 DEF KillTrace, TypeOK
  <2>2. \A c \in Cpus : trace'[c] = "event" <=> trace[c] = "event"
    BY <1>13, <2>1 DEF KillTrace, TypeOK
  <2> QED
    BY <1>13, <2>2 DEF KillTrace, MutexInv, manageframe
<1>14. CASE JoinTrace
   BY <1>14, LifecycleAssumption DEF JoinTrace, signals, manageframe, MutexInv, TypeOK,
     CreateOrder
<1>15. CASE TraceStopped
   BY <1>15, LifecycleAssumption DEF TraceStopped, signals, tracers, manageframe, MutexInv,
     TypeOK, CreateOrder
<1>16. CASE ManageTail
   BY <1>16, LifecycleAssumption DEF ManageTail, signals, tracers, manageframe, MutexInv,
     TypeOK, CreateOrder
<1> QED
  BY <1>1, <1>2, <1>3, <1>4, <1>5, <1>6, <1>7, <1>8,
     <1>9, <1>10, <1>11, <1>12, <1>13, <1>14, <1>15, <1>16
  DEF Manage

LEMMA MutexTrace == ASSUME TypeOK, CreateOrder, MutexInv, NEW c \in Cpus, Trace(c) PROVE MutexInv'
<1>1. CASE TraceHandler(c)
   BY <1>1, LifecycleAssumption DEF TraceHandler, traceframe, words, signals, GoesTo,
     MutexInv, TypeOK, CreateOrder
<1>2. CASE TraceOpen(c)
   BY <1>2, LifecycleAssumption DEF TraceOpen, traceframe, words, signals, GoesTo, MutexInv,
     TypeOK, CreateOrder
<1>3. CASE TraceCheck(c)
   BY <1>3, LifecycleAssumption DEF TraceCheck, traceframe, words, signals, GoesTo,
     MutexInv, TypeOK, CreateOrder
<1>4. CASE TraceEnter(c)
   BY <1>4, LifecycleAssumption DEF TraceEnter, traceframe, words, signals, GoesTo,
     MutexInv, TypeOK, CreateOrder
<1>5. CASE TraceLock(c)
   BY <1>5, LifecycleAssumption DEF TraceLock, traceframe, words, signals, GoesTo, MutexInv,
     TypeOK, CreateOrder
<1>6. CASE TraceUnlock(c)
   BY <1>6, LifecycleAssumption DEF TraceUnlock, traceframe, words, signals, GoesTo,
     MutexInv, TypeOK, CreateOrder
<1>7. CASE TraceParsed(c)
   BY <1>7, LifecycleAssumption DEF TraceParsed, traceframe, words, signals, GoesTo,
     MutexInv, TypeOK, CreateOrder
<1>8. CASE TraceClose(c)
   BY <1>8, LifecycleAssumption DEF TraceClose, traceframe, words, signals, GoesTo,
     MutexInv, TypeOK, CreateOrder
<1> QED  BY <1>1, <1>2, <1>3, <1>4, <1>5, <1>6, <1>7, <1>8 DEF Trace

LEMMA MutexUpdate == ASSUME TypeOK, CreateOrder, MutexInv, Update PROVE MutexInv'
<1>1. CASE UpdateClock
   BY <1>1, LifecycleAssumption DEF UpdateClock, signals, updateframe, tracers, MutexInv,
     TypeOK, CreateOrder
<1>2. CASE UpdateSwitch
   BY <1>2, LifecycleAssumption DEF UpdateSwitch, signals, updateframe, tracers, MutexInv,
     TypeOK, CreateOrder
<1>3. CASE UpdateSetup
   BY <1>3, LifecycleAssumption DEF UpdateSetup, signals, updateframe, tracers, MutexInv,
     TypeOK, CreateOrder
<1>4. CASE StartDlink
   BY <1>4, LifecycleAssumption DEF StartDlink, signals, updateframe, tracers, MutexInv,
     TypeOK, CreateOrder
<1>5. CASE UpdateReady
   BY <1>5, LifecycleAssumption DEF UpdateReady, signals, updateframe, tracers, MutexInv,
     TypeOK, CreateOrder
<1>6. CASE UpdateDocker
   BY <1>6, LifecycleAssumption DEF UpdateDocker, signals, updateframe, tracers, MutexInv,
     TypeOK, CreateOrder
<1>7. CASE ScanUnlock
   BY <1>7, LifecycleAssumption DEF ScanUnlock, signals, updateframe, tracers, MutexInv,
     TypeOK, CreateOrder
<1>8. CASE UpdateStopping
   BY <1>8, LifecycleAssumption DEF UpdateStopping, signals, updateframe, tracers, MutexInv,
     TypeOK, CreateOrder
<1>9. CASE UpdateHalt
   BY <1>9, LifecycleAssumption DEF UpdateHalt, signals, updateframe, tracers, MutexInv,
     TypeOK, CreateOrder
<1>10. CASE Hup
   BY <1>10, LifecycleAssumption DEF Hup, signals, updateframe, tracers, MutexInv, TypeOK,
     CreateOrder
<1>11. CASE JoinDlink
   BY <1>11, LifecycleAssumption DEF JoinDlink, signals, updateframe, tracers, MutexInv,
     TypeOK, CreateOrder
<1>12. CASE UpdateTail
   BY <1>12, LifecycleAssumption DEF UpdateTail, signals, updateframe, tracers, Terminate,
     MutexInv, TypeOK, CreateOrder
<1> QED
  BY <1>1, <1>2, <1>3, <1>4, <1>5, <1>6,
     <1>7, <1>8, <1>9, <1>10, <1>11, <1>12
  DEF Update

LEMMA MutexStep == ASSUME TypeOK, CreateOrder, MutexInv, [Next]_vars PROVE MutexInv'
<1>1. CASE UserStop
  BY <1>1, LifecycleAssumption DEF UserStop, Terminate, MutexInv, TypeOK, CreateOrder,
     words, mainframe, tracers
<1>2. CASE ManageLock
  BY <1>2, LifecycleAssumption DEF ManageLock, MutexInv, TypeOK, CreateOrder, signals,
     tracers, manageframe
<1>3. CASE ScanLock
  BY <1>3, LifecycleAssumption DEF ScanLock, MutexInv, TypeOK, CreateOrder, signals,
     tracers, updateframe
<1>4. CASE DlinkEnds
  BY <1>4, LifecycleAssumption DEF DlinkEnds, MutexInv, TypeOK, CreateOrder, signals,
     tracers, updateframe
<1>5. ASSUME NEW c \in Cpus, TraceData(c) PROVE MutexInv'
  BY <1>5, LifecycleAssumption DEF TraceData, GoesTo, MutexInv, TypeOK, CreateOrder,
     traceframe, words, signals
<1>6. CASE UNCHANGED vars
  BY <1>6, LifecycleAssumption DEF vars, MutexInv, TypeOK, CreateOrder, words, signals,
     tracers
<1> QED
  BY <1>1, <1>2, <1>3, <1>4, <1>5, <1>6, MutexMain, MutexManage, MutexUpdate, MutexTrace
     DEF Next

(* dataMutex has one owner, the thread inside one of its sections; so the  *)
(* node list has one walker, but for the walks outside any section.        *)
THEOREM MutualExclusion == Spec => []MutexInv
<1>1. Init => TypeOK /\ CreateOrder /\ MutexInv
  BY TypeInit, LifecycleAssumption DEF Init, CreateOrder, MutexInv
<1>2. TypeOK /\ CreateOrder /\ MutexInv /\ [Next]_vars
        => TypeOK' /\ CreateOrder' /\ MutexInv'
  BY TypeStep, CreateStep, MutexStep
<1> QED  BY <1>1, <1>2, PTL DEF Spec

-----------------------------------------------------------------------------
(* The order of the end.  The word of a thread is -99 only from where it   *)
(* stops its own helpers; main() goes past a join only when the thread is  *)
(* gone, or was never created; a thread is gone only once its helpers are. *)
AllOver == \A c \in Cpus : trace[c] \in {"none", "gone"}
NoTrace == \A c \in Cpus : trace[c] = "none"

MainOrder ==
  /\ mpc \in {"join2", "cleanup", "done"} => Ended(gpc)
  /\ mpc \in {"cleanup", "done"} => Ended(upc)

ManageOrder ==
  /\ t_stat1 = 0 => gpc \in {"none", "clock", "switch", "setup"}
  /\ t_stat1 = -99 => gpc \in {"kill", "join", "tail", "gone"}
  /\ t_stat1 = 0 \/ gpc \in {"none", "clock", "setup", "configure"} => NoTrace
  /\ ftrace = 0 => NoTrace /\ gpc \notin {"configure", "start"}
  /\ gpc = "gone" \/ (gpc = "tail" /\ t_stat1 = -99) => AllOver

UpdateOrder ==
  /\ t_stat2 = -99 => upc \in {"hup", "join", "tail", "gone"}
  /\ upc \in {"none", "gone"} \/ (upc = "tail" /\ t_stat2 = -99) => dlink \in {"off", "gone"}

(* A tracing thread that may still run is on the list to be stopped. *)
TraceListed ==
  \A c \in Cpus : trace[c] \notin {"none", "gone"} =>
    \E i \in 1..Len(elist_thead) : elist_thead[i] = c

(* The list of the tracing threads under its two operations. *)
LEMMA ListPushed == ASSUME NEW S, NEW s \in Seq(S), NEW c \in S
                    PROVE  /\ Len(<<c>> \o s) = Len(s) + 1
                           /\ (<<c>> \o s)[1] = c
                           /\ \A i \in 1..Len(s) : (<<c>> \o s)[i + 1] = s[i]
  OBVIOUS

LEMMA ListPopped == ASSUME NEW S, NEW s \in Seq(S), s # <<>>
                    PROVE  /\ Len(Tail(s)) = Len(s) - 1
                           /\ Head(s) = s[1]
                           /\ \A i \in 2..Len(s) : Tail(s)[i - 1] = s[i]
  OBVIOUS

LEMMA ListedManage == ASSUME TypeOK, TraceListed, Manage PROVE TraceListed'
<1>1. CASE ManageClock
   BY <1>1 DEF ManageClock, signals, tracers, manageframe, TraceListed, TypeOK
<1>2. CASE ManageSwitch
   BY <1>2 DEF ManageSwitch, signals, tracers, manageframe, TraceListed, TypeOK
<1>3. CASE ManageSetup
   BY <1>3 DEF ManageSetup, signals, tracers, manageframe, TraceListed, TypeOK
<1>4. CASE Configure
   BY <1>4 DEF Configure, signals, manageframe, TraceListed, TypeOK
<1>5. CASE StartTrace
  <2>1. PICK c \in Cpus : /\ elist_thead' = <<c>> \o elist_thead
                          /\ \/ trace' = [trace EXCEPT ![c] = "handler"]
                             \/ trace' = [trace EXCEPT ![c] = "failed"]
    BY <1>5 DEF StartTrace
  <2>2. /\ Len(elist_thead') = Len(elist_thead) + 1 /\ elist_thead'[1] = c
        /\ \A i \in 1..Len(elist_thead) : elist_thead'[i + 1] = elist_thead[i]
        /\ Len(elist_thead) \in Nat
    BY <2>1, ListPushed DEF TypeOK
  <2>3. SUFFICES ASSUME NEW d \in Cpus, trace'[d] \notin {"none", "gone"}
                 PROVE  \E i \in 1..Len(elist_thead') : elist_thead'[i] = d
    BY DEF TraceListed
  <2>4. CASE d = c
    BY <2>2, <2>4
  <2>5. CASE d # c
    <3>1. trace[d] \notin {"none", "gone"}
      BY <2>1, <2>3, <2>5 DEF TypeOK
    <3>2. PICK i \in 1..Len(elist_thead) : elist_thead[i] = d
      BY <3>1 DEF TraceListed
    <3> QED
      BY <2>2, <3>2
  <2> QED
    BY <2>4, <2>5
<1>6. CASE TraceStarted
   BY <1>6 DEF TraceStarted, signals, tracers, manageframe, TraceListed, TypeOK
<1>7. CASE ManageRaise
   BY <1>7 DEF ManageRaise, tracers, manageframe, Terminate, TraceListed, TypeOK
<1>8. CASE ManageUnlock
   BY <1>8 DEF ManageUnlock, signals, tracers, manageframe, TraceListed, TypeOK
<1>9. CASE Rewrite
   BY <1>9 DEF Rewrite, signals, tracers, manageframe, TraceListed, TypeOK
<1>10. CASE ManageStopping
   BY <1>10 DEF ManageStopping, signals, tracers, manageframe, TraceListed, TypeOK
<1>11. CASE DumpStats
   BY <1>11 DEF DumpStats, signals, tracers, manageframe, TraceListed, TypeOK
<1>12. CASE ManageHalt
   BY <1>12 DEF ManageHalt, signals, tracers, manageframe, TraceListed, TypeOK
<1>13. CASE KillTrace
  <2>1. Head(elist_thead) \in Cpus
    BY <1>13 DEF KillTrace, TypeOK
  <2>2. \A c \in Cpus : trace'[c] \notin {"none", "gone"} => trace[c] \notin {"none", "gone"}
    BY <1>13, <2>1 DEF KillTrace, TypeOK
  <2> QED
    BY <1>13, <2>2 DEF KillTrace, TraceListed
<1>14. CASE JoinTrace
  <2>1. /\ Len(elist_thead') = Len(elist_thead) - 1 /\ Head(elist_thead) = elist_thead[1]
        /\ \A i \in 2..Len(elist_thead) : elist_thead'[i - 1] = elist_thead[i]
        /\ Len(elist_thead) \in Nat
    BY <1>14, ListPopped DEF JoinTrace, TypeOK
  <2>2. SUFFICES ASSUME NEW d \in Cpus, trace'[d] \notin {"none", "gone"}
                 PROVE  \E i \in 1..Len(elist_thead') : elist_thead'[i] = d
    BY DEF TraceListed
  <2>3. trace[d] \notin {"none", "gone"} /\ d # Head(elist_thead)
    BY <1>14, <2>2 DEF JoinTrace
  <2>4. PICK i \in 1..Len(elist_thead) : elist_thead[i] = d
    BY <2>3 DEF TraceListed
  <2>5. i \in 2..Len(elist_thead)
    BY <2>1, <2>3, <2>4
  <2> QED
    BY <2>1, <2>4, <2>5
<1>15. CASE TraceStopped
   BY <1>15 DEF TraceStopped, signals, tracers, manageframe, TraceListed, TypeOK
<1>16. CASE ManageTail
   BY <1>16 DEF ManageTail, signals, tracers, manageframe, TraceListed, TypeOK
<1> QED
  BY <1>1, <1>2, <1>3, <1>4, <1>5, <1>6, <1>7, <1>8,
     <1>9, <1>10, <1>11, <1>12, <1>13, <1>14, <1>15, <1>16
  DEF Manage

LEMMA ListedStep == ASSUME TypeOK, TraceListed, [Next]_vars PROVE TraceListed'
<1>1. ASSUME UNCHANGED <<trace, elist_thead>> PROVE TraceListed'
  BY <1>1 DEF TraceListed
<1>2. CASE Main
  BY <1>1, <1>2, MainFrame DEF tracers
<1>3. CASE Manage
  BY <1>3, ListedManage
<1>4. CASE Update
  BY <1>1, <1>4, UpdateFrame DEF updateframe, tracers
<1>5. ASSUME NEW c \in Cpus, Trace(c) \/ TraceData(c) PROVE TraceListed'
  BY <1>5, TraceFrame DEF traceframe, TraceListed, TypeOK
<1>6. CASE UserStop \/ ManageLock \/ ScanLock \/ DlinkEnds \/ UNCHANGED vars
  BY <1>1, <1>6 DEF UserStop, ManageLock, ScanLock, DlinkEnds, vars, mainframe, updateframe,
     tracers
<1> QED
  BY <1>2, <1>3, <1>4, <1>5, <1>6 DEF Next

LEMMA OrderMain == ASSUME TypeOK, CreateOrder, MainOrder, ManageOrder, UpdateOrder,
  TraceListed, Main
  PROVE MainOrder' /\ ManageOrder' /\ UpdateOrder'
<1>1. CASE CreateManage
   BY <1>1 DEF CreateManage, signals, tracers, MainOrder, ManageOrder, UpdateOrder, TypeOK,
     NoTrace, AllOver, Ended, CreateOrder
<1>2. CASE CreateUpdate
   BY <1>2 DEF CreateUpdate, signals, tracers, MainOrder, ManageOrder, UpdateOrder, TypeOK,
     NoTrace, AllOver, Ended, CreateOrder
<1>3. CASE InstallHandlers
   BY <1>3 DEF InstallHandlers, words, mainframe, tracers, MainOrder, ManageOrder,
     UpdateOrder, TypeOK, NoTrace, AllOver, Ended, CreateOrder
<1>4. CASE LoopTest
   BY <1>4 DEF LoopTest, words, signals, mainframe, tracers, MainOrder, ManageOrder,
     UpdateOrder, TypeOK, NoTrace, AllOver, Ended, CreateOrder
<1>5. CASE StopTest
   BY <1>5 DEF StopTest, words, signals, mainframe, tracers, MainOrder, ManageOrder,
     UpdateOrder, TypeOK, NoTrace, AllOver, Ended, CreateOrder
<1>6. CASE StopWrite
   BY <1>6 DEF StopWrite, signals, mainframe, tracers, MainOrder, ManageOrder, UpdateOrder,
     TypeOK, NoTrace, AllOver, Ended, CreateOrder
<1>7. CASE Join
   BY <1>7 DEF Join, words, signals, mainframe, tracers, Ended, MainOrder, ManageOrder,
     UpdateOrder, TypeOK, NoTrace, AllOver, CreateOrder
<1>8. CASE Cleanup
   BY <1>8 DEF Cleanup, words, signals, mainframe, tracers, MainOrder, ManageOrder,
     UpdateOrder, TypeOK, NoTrace, AllOver, Ended, CreateOrder
<1> QED  BY <1>1, <1>2, <1>3, <1>4, <1>5, <1>6, <1>7, <1>8 DEF Main

LEMMA OrderManage == ASSUME TypeOK, CreateOrder, MainOrder, ManageOrder, UpdateOrder,
  TraceListed, Manage
  PROVE MainOrder' /\ ManageOrder' /\ UpdateOrder'
<1>1. CASE ManageClock
   BY <1>1 DEF ManageClock, signals, tracers, manageframe, MainOrder, ManageOrder,
     UpdateOrder, TypeOK, NoTrace, AllOver, Ended, CreateOrder
<1>2. CASE ManageSwitch
   BY <1>2 DEF ManageSwitch, signals, tracers, manageframe, MainOrder, ManageOrder,
     UpdateOrder, TypeOK, NoTrace, AllOver, Ended, CreateOrder
<1>3. CASE ManageSetup
   BY <1>3 DEF ManageSetup, signals, tracers, manageframe, MainOrder, ManageOrder,
     UpdateOrder, TypeOK, NoTrace, AllOver, Ended, CreateOrder
<1>4. CASE Configure
   BY <1>4 DEF Configure, signals, manageframe, MainOrder, ManageOrder, UpdateOrder, TypeOK,
     NoTrace, AllOver, Ended, CreateOrder
<1>5. CASE StartTrace
   BY <1>5 DEF StartTrace, signals, manageframe, MainOrder, ManageOrder, UpdateOrder,
     TypeOK, NoTrace, AllOver, Ended, CreateOrder
<1>6. CASE TraceStarted
   BY <1>6 DEF TraceStarted, signals, tracers, manageframe, MainOrder, ManageOrder,
     UpdateOrder, TypeOK, NoTrace, AllOver, Ended, CreateOrder
<1>7. CASE ManageRaise
   BY <1>7 DEF ManageRaise, tracers, manageframe, Terminate, MainOrder, ManageOrder,
     UpdateOrder, TypeOK, NoTrace, AllOver, Ended, CreateOrder
<1>8. CASE ManageUnlock
   BY <1>8 DEF ManageUnlock, signals, tracers, manageframe, MainOrder, ManageOrder,
     UpdateOrder, TypeOK, NoTrace, AllOver, Ended, CreateOrder
<1>9. CASE Rewrite
   BY <1>9 DEF Rewrite, signals, tracers, manageframe, MainOrder, ManageOrder, UpdateOrder,
     TypeOK, NoTrace, AllOver, Ended, CreateOrder
<1>10. CASE ManageStopping
   BY <1>10 DEF ManageStopping, signals, tracers, manageframe, MainOrder, ManageOrder,
     UpdateOrder, TypeOK, NoTrace, AllOver, Ended, CreateOrder
<1>11. CASE DumpStats
   BY <1>11 DEF DumpStats, signals, tracers, manageframe, MainOrder, ManageOrder,
     UpdateOrder, TypeOK, NoTrace, AllOver, Ended, CreateOrder
<1>12. CASE ManageHalt
   BY <1>12 DEF ManageHalt, signals, tracers, manageframe, MainOrder, ManageOrder,
     UpdateOrder, TypeOK, NoTrace, AllOver, Ended, CreateOrder
<1>13. CASE KillTrace
   BY <1>13 DEF KillTrace, manageframe, MainOrder, ManageOrder, UpdateOrder, TypeOK,
     NoTrace, AllOver, Ended, CreateOrder
<1>14. CASE JoinTrace
   BY <1>14 DEF JoinTrace, signals, manageframe, MainOrder, ManageOrder, UpdateOrder,
     TypeOK, NoTrace, AllOver, Ended, CreateOrder
<1>15. CASE TraceStopped
  <2>1. AllOver
    BY <1>15 DEF TraceStopped, TraceListed, AllOver, TypeOK
  <2> QED
    BY <1>15, <2>1 DEF TraceStopped, signals, tracers, manageframe, MainOrder, ManageOrder,
       UpdateOrder, NoTrace, AllOver, Ended
<1>16. CASE ManageTail
   BY <1>16 DEF ManageTail, signals, tracers, manageframe, MainOrder, ManageOrder,
     UpdateOrder, TypeOK, NoTrace, AllOver, Ended, CreateOrder
<1> QED
  BY <1>1, <1>2, <1>3, <1>4, <1>5, <1>6, <1>7, <1>8,
     <1>9, <1>10, <1>11, <1>12, <1>13, <1>14, <1>15, <1>16
  DEF Manage

LEMMA OrderTrace ==
  ASSUME TypeOK, MainOrder, ManageOrder, UpdateOrder, NEW c \in Cpus, Trace(c) \/ TraceData(c)
  PROVE  MainOrder' /\ ManageOrder' /\ UpdateOrder'
<1>1. /\ UNCHANGED <<words, mpc, gpc, upc, ftrace, dlink>>
      /\ trace[c] \notin {"none", "gone"}
  BY TraceFrame DEF traceframe
<1>2. ~NoTrace /\ ~AllOver
  BY <1>1 DEF NoTrace, AllOver
<1> QED
  BY <1>1, <1>2 DEF MainOrder, ManageOrder, UpdateOrder, Ended, words

LEMMA OrderUpdate == ASSUME TypeOK, CreateOrder, MainOrder, ManageOrder, UpdateOrder,
  TraceListed, Update
  PROVE MainOrder' /\ ManageOrder' /\ UpdateOrder'
<1>1. CASE UpdateClock
   BY <1>1 DEF UpdateClock, signals, updateframe, tracers, MainOrder, ManageOrder,
     UpdateOrder, TypeOK, NoTrace, AllOver, Ended, CreateOrder
<1>2. CASE UpdateSwitch
   BY <1>2 DEF UpdateSwitch, signals, updateframe, tracers, MainOrder, ManageOrder,
     UpdateOrder, TypeOK, NoTrace, AllOver, Ended, CreateOrder
<1>3. CASE UpdateSetup
   BY <1>3 DEF UpdateSetup, signals, updateframe, tracers, MainOrder, ManageOrder,
     UpdateOrder, TypeOK, NoTrace, AllOver, Ended, CreateOrder
<1>4. CASE StartDlink
   BY <1>4 DEF StartDlink, signals, updateframe, tracers, MainOrder, ManageOrder,
     UpdateOrder, TypeOK, NoTrace, AllOver, Ended, CreateOrder
<1>5. CASE UpdateReady
   BY <1>5 DEF UpdateReady, signals, updateframe, tracers, MainOrder, ManageOrder,
     UpdateOrder, TypeOK, NoTrace, AllOver, Ended, CreateOrder
<1>6. CASE UpdateDocker
   BY <1>6 DEF UpdateDocker, signals, updateframe, tracers, MainOrder, ManageOrder,
     UpdateOrder, TypeOK, NoTrace, AllOver, Ended, CreateOrder
<1>7. CASE ScanUnlock
   BY <1>7 DEF ScanUnlock, signals, updateframe, tracers, MainOrder, ManageOrder,
     UpdateOrder, TypeOK, NoTrace, AllOver, Ended, CreateOrder
<1>8. CASE UpdateStopping
   BY <1>8 DEF UpdateStopping, signals, updateframe, tracers, MainOrder, ManageOrder,
     UpdateOrder, TypeOK, NoTrace, AllOver, Ended, CreateOrder
<1>9. CASE UpdateHalt
   BY <1>9 DEF UpdateHalt, signals, updateframe, tracers, MainOrder, ManageOrder,
     UpdateOrder, TypeOK, NoTrace, AllOver, Ended, CreateOrder
<1>10. CASE Hup
   BY <1>10 DEF Hup, signals, updateframe, tracers, MainOrder, ManageOrder, UpdateOrder,
     TypeOK, NoTrace, AllOver, Ended, CreateOrder
<1>11. CASE JoinDlink
   BY <1>11 DEF JoinDlink, signals, updateframe, tracers, MainOrder, ManageOrder,
     UpdateOrder, TypeOK, NoTrace, AllOver, Ended, CreateOrder
<1>12. CASE UpdateTail
   BY <1>12 DEF UpdateTail, signals, updateframe, tracers, Terminate, MainOrder,
     ManageOrder, UpdateOrder, TypeOK, NoTrace, AllOver, Ended, CreateOrder
<1> QED
  BY <1>1, <1>2, <1>3, <1>4, <1>5, <1>6,
     <1>7, <1>8, <1>9, <1>10, <1>11, <1>12
  DEF Update

LEMMA OrderStep == ASSUME TypeOK, CreateOrder, MainOrder, ManageOrder, UpdateOrder,
  TraceListed, [Next]_vars
  PROVE MainOrder' /\ ManageOrder' /\ UpdateOrder'
<1>1. CASE UserStop
  BY <1>1 DEF UserStop, Terminate, MainOrder, ManageOrder, UpdateOrder, TypeOK, NoTrace,
     AllOver, Ended, CreateOrder, words, mainframe, tracers
<1>2. CASE ManageLock
  BY <1>2 DEF ManageLock, MainOrder, ManageOrder, UpdateOrder, TypeOK, NoTrace, AllOver,
     Ended, CreateOrder, signals, tracers, manageframe
<1>3. CASE ScanLock
  BY <1>3 DEF ScanLock, MainOrder, ManageOrder, UpdateOrder, TypeOK, NoTrace, AllOver,
     Ended, CreateOrder, signals, tracers, updateframe
<1>4. CASE DlinkEnds
  BY <1>4 DEF DlinkEnds, MainOrder, ManageOrder, UpdateOrder, TypeOK, NoTrace, AllOver,
     Ended, CreateOrder, signals, tracers, updateframe
<1>5. ASSUME NEW c \in Cpus, TraceData(c) PROVE MainOrder' /\ ManageOrder' /\ UpdateOrder'
  BY <1>5, OrderTrace
<1>6. CASE UNCHANGED vars
  BY <1>6 DEF vars, MainOrder, ManageOrder, UpdateOrder, TypeOK, NoTrace, AllOver,
     Ended, CreateOrder, words, signals, tracers
<1> QED
  BY <1>1, <1>2, <1>3, <1>4, <1>5, <1>6, OrderMain, OrderManage, OrderTrace, OrderUpdate
     DEF Next

(* cleanupEnvironment() runs alone: whatever fails and whenever the stop   *)
(* comes, no thread that may still change an affinity is left.             *)
THEOREM CleanupIsLast == Spec => []CleanupAlone
<1> DEFINE Inv == /\ TypeOK /\ CreateOrder /\ MainOrder /\ ManageOrder
                  /\ UpdateOrder /\ TraceListed
<1>1. Init => Inv
  BY TypeInit DEF Init, CreateOrder, MainOrder, ManageOrder, UpdateOrder, TraceListed,
     NoTrace,
     AllOver, Ended
<1>2. Inv /\ [Next]_vars => Inv'
  BY TypeStep, CreateStep, OrderStep, ListedStep
<1>3. Inv => CleanupAlone
  BY DEF MainOrder, ManageOrder, UpdateOrder, CleanupAlone, NoTrace, AllOver, Ended, TypeOK
<1> QED  BY <1>1, <1>2, <1>3, PTL DEF Spec

==============================================================================
