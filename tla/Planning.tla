------------------------------ MODULE Planning ------------------------------
(***************************************************************************)
(* The plan made before the threads start (orchestrator/adaptive.c, called *)
(* from main()): the CPU masks of the configured sections, the sections    *)
(* that have one CPU booked there, and, in the adaptive modes, a CPU for   *)
(* each of the others: best fit first for known demands, by policy for the *)
(* rest.                                                                   *)
(*                                                                         *)
(* A section is an image, a container or a PID of the configuration, as    *)
(* parse_config() leaves it (module ConfigStore): `up` is the section it   *)
(* stands in, its attributes (attr) and resources (aff, rscs->affinity)    *)
(* are its own or those of `up`.  Sections are numbered in the order of    *)
(* the lists, a section after the one it stands in.  0 is the global       *)
(* section.                                                                *)
(***************************************************************************)
EXTENDS ResTracer

CONSTANTS
  Inputs,        \* configurations: [attr, aff, secs], attr and aff global
  Shared,        \* attributes or resources of the section above
  Modes,         \* prgset->sched_mode
  Int32Max       \* INT32_MAX, in the unit of the periods

SM_ADAPTIVE == 1
SM_PADAPTIVE == 2
SM_DYNSIMPLE == 3

Policies == [NORMAL |-> 0, FIFO |-> 1, RR |-> 2, BATCH |-> 3, IDLE |-> 5, DEADLINE |-> 6]
Attr == [policy : DOMAIN Policies, runtime : Nat, period : Nat]

ASSUME PlanningAssumption ==
  /\ Modes \subseteq 0..4 /\ Int32Max \in Nat
  /\ \A f \in Inputs :
       /\ f.attr \in Attr /\ f.aff \in Int
       /\ f.secs \in Seq(Range(f.secs))
       /\ \A s \in DOMAIN f.secs :
            /\ f.secs[s].kind \in {"img", "cont", "pid"} /\ f.secs[s].up \in 0..(s - 1)
            /\ LET u == f.secs[s].up
               IN u # 0 => <<f.secs[u].kind, f.secs[s].kind>> \in
                             {<<"img", "cont">>, <<"img", "pid">>, <<"cont", "pid">>}
            /\ f.secs[s].attr = Shared \/ f.secs[s].attr \in Attr
            /\ f.secs[s].aff = Shared \/ f.secs[s].aff \in Int

VARIABLES
  conf,          \* the configuration
  mode,          \* prgset->sched_mode
  pc,            \* "prepare", "known", "partial", "unknown", "execute", "ready", "failed"
  met,           \* the sections visited
  open,          \* those of which the program has not seen the end
  todo,          \* the rest of aHead in a loop of the plan
  aHead,         \* the sections of the plan, the last one pushed first
  mask,          \* rscs->affinity_mask of a section that owns its resources
  below,         \* bmPids, bmConts: the CPUs of the sections in a section
  affinity,      \* rscs->affinity
  trc,           \* the resource tracers
  assigned,      \* the CPU of a section, or None
  cfix,          \* sections with MSK_STATCFIX
  lead,          \* FFtrc, RRtrc, BTtrc, NTtrc: the CPU of a policy, or None
  refused        \* sections warned of ("Could not assign a resource!")

vars == <<conf, mode, pc, met, open, todo, aHead, mask, below, affinity, trc, assigned, cfix, lead, refused>>

NoMask == {-1}      \* NULL
Secs == DOMAIN conf.secs
Sec(s) == conf.secs[s]

(* The section whose attributes, and whose resources, section s uses. *)
AttrOf(s) ==
  LET a[x \in 0..Len(conf.secs)] ==
        IF x = 0 THEN conf.attr ELSE IF Sec(x).attr = Shared THEN a[Sec(x).up] ELSE Sec(x).attr
  IN a[s]
Owner(s) ==
  LET o[x \in 0..Len(conf.secs)] == IF x > 0 /\ Sec(x).aff = Shared THEN o[Sec(x).up] ELSE x
  IN o[s]
Mask(s) == mask[Owner(s)]

-----------------------------------------------------------------------------
(***************************************************************************)
(* The order of the visits.  The program reads a section when it starts    *)
(* with it (Push) and again when it has seen those inside (Close); inside  *)
(* of each the images come first, then containers, then PIDs.              *)
(***************************************************************************)
Current == Max({0} \cup open)

(* img->conts is filled when a container of the image starts; parse_config() *)
(* lists the containers of an image in the configuration only.             *)
Listed == FALSE
Inside(x) == {s \in Secs : Sec(s).up = x /\ (Sec(s).kind = "cont" /\ x # 0 => Listed)}

(* Mutant of Waiting: an image is left without its PIDs being seen. *)
Waiting_conts(x) ==
  {s \in Inside(x) \ met : x # 0 /\ Sec(x).kind = "img" => Sec(s).kind = "cont"}

Waiting(x) == Inside(x) \ met

Kinds == [img |-> 0, cont |-> 1, pid |-> 2]
Before(s, t) == \/ Kinds[Sec(s).kind] < Kinds[Sec(t).kind]
                \/ Sec(s).kind = Sec(t).kind /\ s < t

(***************************************************************************)
(* createAffinityMask(): the configured CPU, in the orchestrator's mask or *)
(* not; else what the section above may use.                               *)
(***************************************************************************)
createAffinityMask(aff, dep) == IF aff >= 0 THEN {aff} ELSE Cpus \cap dep

Init ==
  /\ conf \in Inputs /\ mode \in Modes
  /\ pc = "prepare" /\ met = {} /\ open = {} /\ todo = << >> /\ aHead = << >>
  /\ mask = [s \in 0..Len(conf.secs) |->
               IF s = 0 THEN createAffinityMask(conf.aff, Cpus) ELSE NoMask]
  /\ below = [s \in 0..Len(conf.secs) |-> {}]
  /\ affinity = [s \in 0..Len(conf.secs) |-> IF s = 0 THEN conf.aff ELSE Sec(s).aff]
  /\ trc = [c \in Cpus |-> Free(TRUE)]
  /\ assigned = [s \in Secs |-> None] /\ cfix = {} /\ refused = {}
  /\ lead = [p \in DOMAIN Policies |-> None]

(* pushResource() *)
Push(s) ==
  /\ met' = met \cup {s} /\ open' = open \cup {s}
  /\ aHead' = <<s>> \o aHead
  /\ mask' = IF Sec(s).aff = Shared THEN mask
             ELSE [mask EXCEPT ![s] = createAffinityMask(affinity[s],
                                        IF Sec(s).up = 0 THEN Cpus ELSE Mask(Sec(s).up))]
  /\ UNCHANGED <<below, trc, assigned, cfix, pc>>

(* Mutant of addTracerFix: a CPU that would be over-utilised is taken. *)
addTracerFix_forced(s, m) ==
  IF Cardinality(m) # 1 THEN UNCHANGED <<trc, assigned, cfix, pc>>
  ELSE IF m \subseteq Cpus
    THEN \E c \in m : /\ trc' = [trc EXCEPT ![c] = Book(@, AttrOf(s))]
                      /\ assigned' = [assigned EXCEPT ![s] = c]
                      /\ cfix' = cfix \cup {s} /\ UNCHANGED pc
    ELSE pc' = "failed" /\ UNCHANGED <<trc, assigned, cfix>>

(* addTracerFix(), addTracer(): booked where it must run, if it fits. *)
addTracerFix(s, m) ==
  IF Cardinality(m) # 1 THEN UNCHANGED <<trc, assigned, cfix, pc>>
  ELSE IF \E c \in m : c \in Cpus /\ checkUvalue(trc[c], AttrOf(s)) >= 0
    THEN \E c \in m :
           /\ trc' = [trc EXCEPT ![c] = Book(@, AttrOf(s))]
           /\ assigned' = [assigned EXCEPT ![s] = c]
           /\ cfix' = cfix \cup {s} /\ UNCHANGED pc
    ELSE /\ pc' = "failed"       \* err_exit(): does not fit
         /\ UNCHANGED <<trc, assigned, cfix>>

(* Mutant of Close: the mask of the last section inside counts, not all. *)
Close_last(s) ==
  \E m \in {IF below[s] = {} THEN Mask(s) ELSE Mask(s) \cap below[s]} :
    /\ mask' = [mask EXCEPT ![Owner(s)] = m]
    /\ below' = [below EXCEPT ![Sec(s).up] = m]
    /\ addTracerFix(s, m)
    /\ open' = open \ {s} /\ UNCHANGED <<met, aHead>>

(* The end of ddPids(), ddConts() or a loop of adaptPrepareSchedule(). *)
Close(s) ==
  \E m \in {IF below[s] = {} THEN Mask(s) ELSE Mask(s) \cap below[s]} :
    /\ mask' = [mask EXCEPT ![Owner(s)] = m]
    /\ below' = [below EXCEPT ![Sec(s).up] = @ \cup m]
    /\ addTracerFix(s, m)
    /\ open' = open \ {s} /\ UNCHANGED <<met, aHead>>

Prepare ==
  /\ pc = "prepare"
  /\ \E x \in {Current} :
       \/ \E s \in Waiting(x) : (\A t \in Waiting(x) \ {s} : Before(s, t)) /\ Push(s)
       \/ Waiting(x) = {} /\ x # 0 /\ Close(x)
  /\ UNCHANGED <<conf, mode, todo, affinity, lead, refused>>

Prepared == pc = "prepare" /\ open = {} /\ Waiting(0) = {}

-----------------------------------------------------------------------------
(***************************************************************************)
(* The order of the plan: longest period, then highest utilisation; by     *)
(* policy if nothing is known.  Results of the comparison are int.         *)
(***************************************************************************)
AsInt(x) == ((x + Int32Max + 1) % (2 * (Int32Max + 1))) - (Int32Max + 1)

cmpPidItemS(a, b) ==      \* < 0: a comes first
  IF a.period # b.period THEN a.period > b.period /\ (a.period - b.period) % Int32Max # 0
  ELSE IF a.period # 0 THEN 10000 * (a.runtime - b.runtime) >= a.period
  ELSE IF a.runtime + b.runtime # 0 THEN AsInt(b.runtime - a.runtime) < 0
  ELSE Policies[a.policy] < Policies[b.policy]

(* qsortll_partition(): those that come before the last element, the pivot, *)
(* and those that do not, equal ones among them.                           *)
qsortll_partition(list) ==
  LET upTo[n \in 0..(Len(list) - 1)] ==
        IF n = 0 THEN [lo |-> << >>, hi |-> << >>]
        ELSE IF cmpPidItemS(AttrOf(list[n]), AttrOf(Last(list)))
          THEN [lo |-> Append(upTo[n - 1].lo, list[n]), hi |-> upTo[n - 1].hi]
          ELSE [lo |-> upTo[n - 1].lo, hi |-> Append(upTo[n - 1].hi, list[n])]
  IN  upTo[Len(list) - 1]

(* qsortll(): each side is sorted in the same way.                         *)
qsortll[list \in Seq(Secs)] ==
  IF Len(list) <= 1 THEN list
  ELSE LET part == qsortll_partition(list)
       IN  qsortll[part.lo] \o <<Last(list)>> \o qsortll[part.hi]

Adaptive == mode \in SM_ADAPTIVE..SM_DYNSIMPLE

Sort ==
  /\ Prepared /\ Adaptive
  /\ aHead' = qsortll[aHead]
  /\ pc' = "known" /\ todo' = aHead'
  /\ UNCHANGED <<conf, mode, met, open, mask, below, affinity, trc, assigned, cfix, lead, refused>>

(* One section of the first two loops of adaptPlanSchedule(). *)
Fit(s) ==
  \E c \in {checkPeriod(trc, AttrOf(s), affinity[Owner(s)], -1)} :
    IF c = None THEN refused' = refused \cup {s} /\ UNCHANGED <<trc, assigned>>
    ELSE /\ trc' = [trc EXCEPT ![c] = Book(@, AttrOf(s))]
         /\ assigned' = [assigned EXCEPT ![s] = c]
         /\ UNCHANGED refused

Wanted(s) == /\ assigned[s] = None /\ AttrOf(s).runtime # 0
             /\ pc = "known" => AttrOf(s).period # 0

Place ==
  /\ pc \in {"known", "partial"} /\ todo # << >>
  /\ IF Wanted(Head(todo)) THEN Fit(Head(todo)) ELSE UNCHANGED <<trc, assigned, refused>>
  /\ todo' = Tail(todo)
  /\ UNCHANGED <<conf, mode, pc, met, open, aHead, mask, below, affinity, cfix, lead>>

NextLoop ==
  /\ pc \in {"known", "partial", "unknown"} /\ todo = << >>
  /\ pc' = CASE pc = "known" -> "partial" [] pc = "partial" -> "unknown" [] OTHER -> "execute"
  /\ todo' = IF pc = "unknown" THEN << >> ELSE aHead
  /\ UNCHANGED <<conf, mode, met, open, aHead, mask, below, affinity, trc, assigned, cfix, lead, refused>>

(* grepTracer(): an empty CPU, or one of low load. *)
grepTracer ==
  LET try(f, c) ==
        IF \/ Below(trc[c], 100, f.max)
           \/ f.cpu # None /\ ~trc[f.cpu].hm /\ trc[c].hm /\ Below(trc[c], 120, trc[f.cpu])
        THEN [cpu |-> c, max |-> trc[c]] ELSE f
  IN ForEachTracer(try, [cpu |-> None, max |-> [base |-> 1, used |-> 1]]).cpu

(* One section of the last loop: with the others of its policy, unbooked. *)
Group(s) == IF AttrOf(s).policy \in {"FIFO", "RR", "BATCH"} THEN AttrOf(s).policy ELSE "NORMAL"

Gather ==
  /\ pc = "unknown" /\ todo # << >>
  /\ IF assigned[Head(todo)] # None THEN UNCHANGED <<lead, assigned>>
     ELSE \E g \in {Group(Head(todo))} :
            /\ lead' = [lead EXCEPT ![g] = IF @ = None THEN grepTracer ELSE @]
            /\ assigned' = [assigned EXCEPT ![Head(todo)] = lead'[g]]
  /\ todo' = Tail(todo)
  /\ UNCHANGED <<conf, mode, pc, met, open, aHead, mask, below, affinity, trc, cfix, refused>>

-----------------------------------------------------------------------------
(* The list is kept in the modes that take their CPUs from the plan. *)
Released == IF mode \in {SM_ADAPTIVE, SM_PADAPTIVE} THEN aHead ELSE << >>

(* adaptExecute(), and adaptFree() in main(). *)
Execute ==
  /\ pc = "execute"
  /\ affinity' = [s \in DOMAIN affinity |->
                    IF s \in Secs /\ Sec(s).aff # Shared /\ assigned[s] # None
                    THEN assigned[s] ELSE affinity[s]]
  /\ aHead' = Released /\ pc' = "ready"
  /\ UNCHANGED <<conf, mode, met, open, todo, mask, below, trc, assigned, cfix, lead, refused>>

(* No plan in the other modes. *)
Skip ==
  /\ Prepared /\ ~Adaptive
  /\ aHead' = Released /\ pc' = "ready"
  /\ UNCHANGED <<conf, mode, met, open, todo, mask, below, affinity, trc, assigned, cfix, lead, refused>>

Next == Prepare \/ Sort \/ Place \/ NextLoop \/ Gather \/ Execute \/ Skip
Spec == Init /\ [][Next]_vars

-----------------------------------------------------------------------------
(* The variables have their types; a section stands in the plan once. *)
TypeOK ==
  /\ pc \in {"prepare", "known", "partial", "unknown", "execute", "ready", "failed"}
  /\ IsInjective(aHead) /\ Range(aHead) \subseteq Secs
  /\ \A s \in DOMAIN mask : mask[s] = NoMask \/ mask[s] \subseteq Nat
  /\ trc \in [Cpus -> Tracer]
  /\ assigned \in [Secs -> Cpus \cup {None}] /\ {cfix, refused} \subseteq SUBSET Secs
  /\ pc \in {"known", "partial", "unknown", "execute"} =>
       \A s \in Secs : s \in Range(aHead)
         <=> Sec(s).up = 0 \/ (Sec(s).up \in Range(aHead) /\ (Sec(s).kind = "cont" => Listed))

(* The plan never books more on a CPU than it can do (checkUvalue(),       *)
(* "does not fit your system!"), but for a CPU that was set for a section  *)
(* whose PIDs are set for others: its mask is empty, and nothing checks.   *)
NotOverbooked ==
  \A c \in Cpus : OverUtilised(trc[c]) => \E s \in Secs : assigned[s] = c /\ Mask(s) = {}

(* Whatever the order of the bookings, the hyper-period of a CPU holds the *)
(* periods of all the sections put there, and the time booked is at least  *)
(* what they need of it.  Sections the plan has refused, and those of      *)
(* unknown demand, are put on a CPU without a booking.                     *)
Booked_on(c) ==
  {s \in Secs : assigned[s] = c /\ s \notin refused /\ AttrOf(s).runtime # 0}
Needs(base) == [s \in Secs |-> AttrOf(s).runtime * (base \div BaseT(AttrOf(s)))]
Accounted ==
  \A c \in Cpus :
    /\ \A s \in Booked_on(c) : trc[c].base % BaseT(AttrOf(s)) = 0
    /\ SumFunctionOnSet(Needs(trc[c].base), Booked_on(c)) <= trc[c].used

(* The masks of the plan nest: a PID may use no CPU its image or container *)
(* may not ("keep only necessary"), as the kernel refuses a mask outside   *)
(* of the CGroup.  Not so when both have a CPU set, and under the global   *)
(* mask, which later sections narrow.                                      *)
Nested ==
  \A s \in Secs :
    LET u == Sec(s).up
    IN pc \notin {"prepare", "failed"} /\ u # 0 /\ Mask(s) # NoMask /\ Owner(u) # 0
         /\ (Sec(Owner(s)).aff < 0 \/ Sec(Owner(u)).aff < 0)
         => Mask(s) \subseteq Mask(u)
=============================================================================
