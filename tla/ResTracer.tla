------------------------------ MODULE ResTracer -----------------------------
(***************************************************************************)
(* Resource tracers (orchestrator/resmgnt.c): what is booked on a CPU and  *)
(* whether, and how well, one more task fits there.  Pure operators, used  *)
(* by the plan made at the start (Planning) and by the reallocation at     *)
(* run time (Realloc).                                                     *)
(*                                                                         *)
(* A tracer is [base, used, hm]: the hyper-period of the booked tasks, the *)
(* computing time they use of it, and whether their periods are harmonic.  *)
(* The float U of the code is used/base (0 on an empty CPU); it is never   *)
(* computed here, comparisons are multiplied out.  A task is [policy,      *)
(* runtime, period], 0 standing for unknown as in struct sched_attr.       *)
(***************************************************************************)
EXTENDS Integers, SequencesExt, FiniteSets

CONSTANTS
  Cpus,               \* the CPUs of the orchestrator (affinity_mask), numbers
  PDefault,           \* SCHED_PDEFAULT, NSEC_PER_SEC
  RRSlice             \* prgset->rrtime, in the unit of the periods

ASSUME ResTracerAssumption ==
  /\ Cpus \subseteq Nat /\ IsFiniteSet(Cpus)
  /\ {PDefault, RRSlice} \subseteq Nat \ {0}

(* F of a value that is worked out once, however often F uses it. *)
Once(v, F(_)) == CHOOSE y \in {F(x) : x \in {v}} : TRUE

Tracer == [base : Nat, used : Nat, hm : BOOLEAN]
Free(h) == [base |-> 0, used |-> 0, hm |-> h]

gcd[p \in Nat \X Nat] == IF p[2] = 0 THEN p[1] ELSE gcd[<<p[2], p[1] % p[2]>>]
lcm(a, b) == IF a = 0 \/ b = 0 THEN 0 ELSE (a \div gcd[<<a, b>>]) * b

(* The nearest multiple of a fortieth of the next power of ten. *)
Power[p \in Nat] == IF p <= 1 THEN 1 ELSE 10 * Power[(p + 9) \div 10]
findPeriodMatch(p) ==
  IF p = 0 THEN PDefault
  ELSE LET t == Power[p] IN (((80 * p + t) \div (2 * t)) * t) \div 40

(* a < b * percent/100 for the loads U of two tracers. *)
Den(r) == IF r.base = 0 THEN 1 ELSE r.base
Below(a, percent, b)  == 100 * a.used * Den(b) < percent * b.used * Den(a)
AtMost(a, percent, b) == 100 * a.used * Den(b) <= percent * b.used * Den(a)

Unknown(par) == par.policy # "DEADLINE" /\ par.runtime = 0

(* The period to book: a round robin task is preempted each slice.         *)
BaseT(par) ==
  IF par.policy = "RR" /\ par.period # 0 /\ RRSlice <= par.runtime THEN RRSlice
  ELSE IF par.period = 0 THEN PDefault ELSE par.period

(* checkUvalue(): the tracer with the task booked, and the score of the    *)
(* fit: lower is better, -1 if the CPU would be over-utilised.  A task of  *)
(* unknown run time adds a tenth of what is booked; its score INT_MAX is   *)
(* overwritten below in the code, too.                                     *)
NotHarmonic == 3      \* SCHED_UHARMONIC

(* Mutant of Booked: the old load is not scaled to the new hyper-period. *)
Booked_unscaled(res, par, baset, hyper) ==
  [base |-> hyper, used |-> res.used + (par.runtime * hyper) \div baset,
   hm   |-> res.hm /\ (res.base = 0 \/ hyper \in {res.base, baset})]

Booked(res, par, baset, hyper) ==
  LET extra == IF Unknown(par) THEN (res.used * 10) \div 100 ELSE 0
      told  == IF res.base = 0 THEN res.used + extra
               ELSE ((res.used + extra) * hyper) \div res.base
  IN  [base |-> hyper,
       used |-> told + (par.runtime * hyper) \div baset,
       hm   |-> res.hm /\ (res.base = 0 \/ hyper \in {res.base, baset})]

Book(res, par) ==
  Once(BaseT(par), LAMBDA baset :
    Once(IF res.base = 0 THEN baset ELSE lcm(res.base, baset), LAMBDA hyper :
      Booked(res, par, baset, hyper)))

OverUtilised(res) == res.used > res.base

Score(res, new, baset) ==
  CASE OverUtilised(new)                  -> -1
    [] ~OverUtilised(new) /\ res.base = 0 -> 2
    [] OTHER ->
         IF ~new.hm THEN res.used \div baset + NotHarmonic
         ELSE IF res.base = baset THEN 0
         ELSE IF new.base = baset THEN 1 ELSE 2

checkUvalue(res, par) ==
  Once(Book(res, par), LAMBDA new : Score(res, new, BaseT(par)))

(* recomputeTimes_u(): the bookings of a CPU anew from its tasks, by their *)
(* PIDs, the highest first.  The copy starts without the harmonic flag and *)
(* the flag of the tracer is not written back.                             *)
recomputeTimes(res, tasks) ==
  LET add(acc, par) ==
        Once(acc, LAMBDA a : Once(Book(a.res, par), LAMBDA new :
          [res |-> new, over |-> a.over \/ OverUtilised(new)]))
      booked[S \in SUBSET DOMAIN tasks] ==
        IF S = {} THEN [res |-> Free(FALSE), over |-> FALSE]
        ELSE add(booked[S \ {Min(S)}], tasks[Min(S)])
  IN  Once(booked[DOMAIN tasks], LAMBDA end : [end EXCEPT !.res.hm = res.hm])

(* checkPeriod(): the CPU that fits best.  `affinity` is a fixed CPU, or a *)
(* preference if negative; `cpu` is where the task runs, -1 if unknown.    *)
None == -99
Worst == 2147483647   \* INT_MAX

(* A loop over the list of tracers, CPU 0 first (createResTracer()): what  *)
(* try() makes of `start`, one CPU after the other.                        *)
ForEachTracer(try(_, _), start) ==
  LET last == Max({0} \cup Cpus)
      upTo[n \in -1..last] == IF n = -1 THEN start
                              ELSE IF n \in Cpus THEN try(upTo[n - 1], n) ELSE upTo[n - 1]
  IN  upTo[last]

getTracer(c) == IF c \in Cpus THEN c ELSE None

Favourite(c, affinity, cpu) == c = cpu \/ (affinity < 0 /\ c = -affinity)

Better(best, c, score, trc, affinity, cpu) ==
  LET same  == ~Below(trc[c], 95, best.load) /\ AtMost(trc[c], 105, best.load)
      wins  == \/ 0 <= score /\ score < best.last
               \/ /\ score = best.last
                  /\ \/ Below(trc[c], 95, best.load)
                     \/ (AtMost(trc[c], 105, best.load) /\ Favourite(c, affinity, cpu))
      stays == score = best.last /\ same /\ best.cpu # None
               /\ affinity < 0 /\ best.cpu = -affinity
  IN  wins /\ ~stays

checkPeriod(trc, par, affinity, cpu) ==
  LET try(acc, c) ==
        Once(acc, LAMBDA best : Once(checkUvalue(trc[c], par), LAMBDA score :
          IF Better(best, c, score, trc, affinity, cpu)
            THEN [cpu |-> c, last |-> score, load |-> trc[c]] ELSE best))
      start == [cpu |-> None, last |-> Worst, load |-> [base |-> 1, used |-> 10]]
  IN  IF affinity >= 0 THEN getTracer(affinity)
      ELSE ForEachTracer(try, start).cpu
=============================================================================
