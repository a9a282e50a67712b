---------------------------- MODULE ReallocProofs ---------------------------
(***************************************************************************)
(* Moving PIDs at run time, for any number of CPUs, tasks and containers:  *)
(* a container that is pinned as a whole stays so, and the bookings of a   *)
(* CPU follow its tasks.  The handlers are a chain of operators on the     *)
(* record of what they change; Kept says what holds of it at every link,   *)
(* and there is a lemma for each operator that it keeps this.              *)
(***************************************************************************)
EXTENDS Realloc, ResTracerProofs

Est   == [period : Nat, runtime : Nat]
State == [est : [Pids -> Est], assigned : [Pids -> Int], mask : [Pids -> SUBSET Cpus],
          naff : [Pids -> BOOLEAN], trc : [Cpus -> Tracer]]

Allowed(s) == \A p \in Pids : s.assigned[p] \in Cpus \cup {-1, Affinity[p]} /\ s.mask[p] \subseteq Cpuset[p]

At(s, x) == {p \in listed : s.assigned[p] = x}
Whole(s, k, d) == \A p \in ListedOf(k) : s.assigned[p] = d /\ s.mask[p] = {d}

(* Whatever the list says, the kernel keeps a container as one whose       *)
(* processes live and may run anywhere.                                    *)
OneMask(s, k) == \E d \in Cpus : \A p \in ListedOf(k) : s.mask[p] = {d}
AsOne(s, z)   == \A k \in Containers : Movable(k) /\ OneMask(z, k) => OneMask(s, k)

(* s comes from z in the handler of an event of CPU c.  The containers K   *)
(* are whole, those in L are on c.  A task of Q that is still to get its   *)
(* first assignment is on c.  If all are whole, the bookings are those of  *)
(* the tasks on every CPU whose tasks are others than in z, but for E.     *)
Kept(s, z, K, L, E, c, Q) ==
  /\ s \in State /\ Allowed(s) /\ s.est = z.est /\ AsOne(s, z)
  /\ \A k \in K : \E d \in Cpus : Whole(s, k, d)
  /\ \A k \in L : Whole(s, k, c)
  /\ \A q \in Q : ContOf[q] \in K /\ s.naff[q] => s.assigned[q] = c
  /\ K = Containers =>
       \A x \in Cpus \ E : At(s, x) = At(z, x) \/ s.trc[x] = Load(s, x, {}).res

(* What the lemmas assume of the list and of the sets.                     *)
Frame(K, L, Q) == /\ listed \subseteq Pids /\ K \subseteq Containers /\ L \subseteq K /\ Q \subseteq listed

LEMMA FrameFacts ==
  ASSUME NEW K, NEW L, NEW Q, Frame(K, L, Q)
  PROVE  /\ listed \in SUBSET Nat /\ IsFiniteSet(listed) /\ listed \in SUBSET Pids
         /\ \A p \in listed : p # 0 /\ ContOf[p] \in Containers \cup {NoCont} /\ Affinity[p] \in Int
                              /\ Cpuset[p] \in SUBSET Cpus
<1>1. listed \subseteq Pids /\ Pids \subseteq Nat \ {0} /\ IsFiniteSet(Pids)
  BY ReallocAssumption DEF Frame
<1>2. IsFiniteSet(listed)
  BY <1>1, FS_Subset
<1> QED  BY <1>1, <1>2, ReallocAssumption

-----------------------------------------------------------------------------
(* Bookings of a CPU.                                                      *)
LEMMA DemandNat ==
  ASSUME NEW s \in State, NEW p \in Pids
  PROVE  Demand(s.est, p).runtime \in Nat /\ Demand(s.est, p).period \in Nat
<1>1. s.est[p].runtime \in Nat /\ s.est[p].period \in Nat
  BY DEF State, Est
<1>2. findPeriodMatch(s.est[p].period) \in Nat
  BY <1>1, PeriodMatchNat
<1> QED  BY <1>1, <1>2 DEF Demand

LEMMA LoadFacts ==
  ASSUME NEW s \in State, listed \subseteq Pids, NEW c \in Cpus, NEW skip
  PROVE  Load(s, c, skip).res \in Tracer /\ Load(s, c, skip).res.hm = s.trc[c].hm
<1> DEFINE S == {q \in listed \ skip : s.assigned[q] = c}
           tasks == [p \in S |-> Demand(s.est, p)]
<1>1. S \in SUBSET Nat /\ IsFiniteSet(S) /\ S \subseteq Pids
  <2>1. S \subseteq Pids /\ Pids \subseteq Nat \ {0} /\ IsFiniteSet(Pids)
    BY ReallocAssumption
  <2> HIDE DEF S
  <2>2. IsFiniteSet(S)
    BY <2>1, FS_Subset
  <2> QED  BY <2>1, <2>2
<1>2. s.trc[c] \in Tracer
  BY DEF State
<1>3. Load(s, c, skip) = recomputeTimes(s.trc[c], tasks)
  BY DEF Load
<1> HIDE DEF S
<1>4. DOMAIN tasks = S /\ \A p \in S : tasks[p].runtime \in Nat /\ tasks[p].period \in Nat
  BY <1>1, DemandNat
<1> HIDE DEF tasks
<1> QED  BY <1>1, <1>2, <1>3, <1>4, RecomputeFacts

(* They depend on the tasks there, and on nothing that was booked before.  *)
LEMMA LoadSame ==
  ASSUME NEW s, NEW t, NEW c, At(s, c) = At(t, c), s.est = t.est, s.trc[c].hm = t.trc[c].hm
  PROVE  Load(s, c, {}).res = Load(t, c, {}).res
<1> DEFINE tasks(u) == [p \in {q \in listed \ {} : u.assigned[q] = c} |-> Demand(u.est, p)]
<1>1. {q \in listed \ {} : s.assigned[q] = c} = {q \in listed \ {} : t.assigned[q] = c}
  BY DEF At
<1>2. tasks(s) = tasks(t)
  BY <1>1
<1>3. \A u : Load(u, c, {}) = recomputeTimes(u.trc[c], tasks(u))
  BY DEF Load
<1> HIDE DEF tasks
<1>4. recomputeTimes(s.trc[c], tasks(s)) = recomputeTimes(t.trc[c], tasks(s))
  BY Zenon DEF recomputeTimes, Once
<1> QED  BY <1>2, <1>3, <1>4

LEMMA RecomputedFacts ==
  ASSUME NEW s \in State, listed \subseteq Pids, NEW c, NEW skip
  PROVE  LET r == Recomputed(s, c, skip)
         IN  /\ r \in State /\ r.est = s.est /\ r.assigned = s.assigned /\ r.mask = s.mask
             /\ r.naff = s.naff
             /\ \A x \in Cpus : /\ x # c => r.trc[x] = s.trc[x]
                                /\ x = c => r.trc[x] = Load(s, c, skip).res
                                /\ r.trc[x].hm = s.trc[x].hm
<1>1. CASE c \notin Cpus
  BY <1>1 DEF Recomputed
<1>2. CASE c \in Cpus
  <2> DEFINE l == Load(s, c, skip).res
  <2>1. l \in Tracer /\ l.hm = s.trc[c].hm
    BY <1>2, LoadFacts
  <2>2. Recomputed(s, c, skip) = [s EXCEPT !.trc[c] = l]
    BY <1>2 DEF Recomputed
  <2> HIDE DEF l
  <2>3. [s EXCEPT !.trc[c] = l] \in State
    BY <1>2, <2>1 DEF State
  <2>4. \A x \in Cpus : [s EXCEPT !.trc[c] = l].trc[x] = IF x = c THEN l ELSE s.trc[x]
    BY <1>2 DEF State
  <2>5. LET r == [s EXCEPT !.trc[c] = l]
        IN  r.est = s.est /\ r.assigned = s.assigned /\ r.mask = s.mask /\ r.naff = s.naff
    BY DEF State
  <2> QED  BY <2>1, <2>2, <2>3, <2>4, <2>5 DEF l
<1> QED  BY <1>1, <1>2

-----------------------------------------------------------------------------
(* Kept, operator by operator.                                             *)
LEMMA KeptMore ==
  ASSUME NEW s, NEW z, NEW K, NEW L, NEW L2 \in SUBSET L, NEW E, NEW E2, E \subseteq E2,
         NEW c, NEW Q, Kept(s, z, K, L, E, c, Q)
  PROVE  Kept(s, z, K, L2, E2, c, Q)
BY DEF Kept

LEMMA KeptRecomputed ==
  ASSUME NEW s, NEW z, NEW K, NEW L, NEW E, NEW c, NEW Q, NEW x,
         Frame(K, L, Q), Kept(s, z, K, L, E, c, Q)
  PROVE  Kept(Recomputed(s, x, {}), z, K, L, E \ {x}, c, Q)
<1> DEFINE r == Recomputed(s, x, {})
<1>1. s \in State /\ listed \subseteq Pids
  BY DEF Kept, Frame
<1>2. /\ r \in State /\ r.est = s.est /\ r.assigned = s.assigned /\ r.mask = s.mask /\ r.naff = s.naff
      /\ \A y \in Cpus : /\ y # x => r.trc[y] = s.trc[y]
                         /\ y = x => r.trc[y] = Load(s, x, {}).res
                         /\ r.trc[y].hm = s.trc[y].hm
  BY <1>1, RecomputedFacts
<1> HIDE DEF r
<1>3. \A y \in Cpus : Load(r, y, {}).res = Load(s, y, {}).res
  <2> SUFFICES ASSUME NEW y \in Cpus PROVE Load(r, y, {}).res = Load(s, y, {}).res
    OBVIOUS
  <2>1. At(r, y) = At(s, y)
    BY <1>2 DEF At
  <2> QED  BY <1>2, <2>1, LoadSame
<1>4. \A y : At(r, y) = At(s, y)
  BY <1>2 DEF At
<1>5. Allowed(r)
  BY <1>2 DEF Allowed, Kept
<1>6. \A k, d : Whole(r, k, d) <=> Whole(s, k, d)
  BY <1>2 DEF Whole
<1>7. ASSUME K = Containers, NEW y \in Cpus \ (E \ {x})
      PROVE  At(r, y) = At(z, y) \/ r.trc[y] = Load(r, y, {}).res
  <2>1. CASE y = x
    BY <1>2, <1>3, <2>1
  <2>2. CASE y # x
    <3>1. At(s, y) = At(z, y) \/ s.trc[y] = Load(s, y, {}).res
      BY <1>7, <2>2 DEF Kept
    <3>2. r.trc[y] = s.trc[y] /\ Load(r, y, {}).res = Load(s, y, {}).res
      BY <1>2, <1>3, <1>7, <2>2
    <3> QED  BY <1>4, <3>1, <3>2
  <2> QED  BY <2>1, <2>2
<1>8. /\ \A k \in K : \E d \in Cpus : Whole(r, k, d)
      /\ \A k \in L : Whole(r, k, c)
      /\ \A q \in Q : ContOf[q] \in K /\ r.naff[q] => r.assigned[q] = c
  BY <1>2, <1>6 DEF Kept
<1>9. r.est = z.est
  BY <1>2 DEF Kept
<1>11. AsOne(r, z)
  BY <1>2 DEF AsOne, OneMask, Kept
<1>10. Kept(r, z, K, L, E \ {x}, c, Q)
  BY <1>2, <1>5, <1>7, <1>8, <1>9, <1>11 DEF Kept
<1> QED  BY <1>10 DEF r

(* A CPU is offered only to a task that is on one.                         *)
Fitted(fit, s, z, K, L, E, c, Q, p) ==
  /\ Kept(fit.s, z, K, L, E, c, Q)
  /\ fit.s.assigned = s.assigned /\ fit.s.naff = s.naff
  /\ fit.to \in Cpus \cup {None}
  /\ fit.to # None => s.assigned[p] \in Cpus

LEMMA FitKept ==
  ASSUME NEW s, NEW z, NEW K, NEW L, NEW E, NEW c, NEW Q, NEW p \in Pids, NEW include,
         Frame(K, L, Q), Kept(s, z, K, L, E, c, Q)
  PROVE  Fitted(checkPeriod_R(s, p, include), s, z, K, L, E, c, Q, p)
<1> DEFINE fit == checkPeriod_R(s, p, include)
           from == s.assigned[p]
           without == Recomputed(s, from, {p})
           back == Recomputed(without, from, {})
<1>1. s \in State /\ listed \subseteq Pids /\ Allowed(s)
  BY DEF Kept, Frame
<1>2. from \in Cpus \cup {-1, Affinity[p]} /\ Affinity[p] \in Int /\ Cpus \subseteq Nat
  BY <1>1, ReallocAssumption, ResTracerAssumption DEF Allowed
<1>3. ASSUME NEW u, ~(from < 0)
      PROVE  LET to == checkPeriod(u.trc, Demand(s.est, p), Affinity[p], from)
             IN  to \in Cpus \cup {None} /\ (to # None => from \in Cpus)
  <2>1. CASE Affinity[p] >= 0
    <3>1. checkPeriod(u.trc, Demand(s.est, p), Affinity[p], from) = getTracer(Affinity[p])
      BY <2>1 DEF checkPeriod
    <3> QED  BY <1>2, <1>3, <2>1, <3>1 DEF getTracer
  <2>2. CASE ~(Affinity[p] >= 0)
    <3>1. from \in Cpus
      BY <1>2, <1>3, <2>2
    <3> QED  BY <2>2, <3>1, BestFits
  <2> QED  BY <2>1, <2>2
<1>4. CASE from < 0
  <2>1. fit = [to |-> None, s |-> s]
    BY <1>4 DEF checkPeriod_R
  <2> HIDE DEF fit
  <2>2. fit.to = None /\ fit.s = s
    BY <2>1
  <2> QED  BY <2>2 DEF fit, Fitted
<1>5. CASE ~(from < 0) /\ include
  <2>1. fit = [to |-> checkPeriod(s.trc, Demand(s.est, p), Affinity[p], from), s |-> s]
    BY <1>5 DEF checkPeriod_R
  <2> HIDE DEF fit
  <2>2. fit.to = checkPeriod(s.trc, Demand(s.est, p), Affinity[p], from) /\ fit.s = s
    BY <2>1
  <2> QED  BY <1>3, <1>5, <2>2 DEF fit, Fitted
<1>6. CASE ~(from < 0) /\ ~include
  <2>1. fit = Once(without, LAMBDA w : [to |-> checkPeriod(w.trc, Demand(s.est, p), Affinity[p], from),
                                        s |-> Recomputed(w, from, {})])
    BY <1>6, Zenon DEF checkPeriod_R
  <2>2. fit = [to |-> checkPeriod(without.trc, Demand(s.est, p), Affinity[p], from), s |-> back]
    BY <2>1, Zenon DEF Once
  <2> HIDE DEF fit, back
  <2>3. fit.to = checkPeriod(without.trc, Demand(s.est, p), Affinity[p], from) /\ fit.s = back
    BY <2>2
  <2>4. /\ without \in State /\ without.est = s.est /\ without.assigned = s.assigned
        /\ without.mask = s.mask /\ without.naff = s.naff
        /\ \A y \in Cpus : /\ y # from => without.trc[y] = s.trc[y]
                           /\ without.trc[y].hm = s.trc[y].hm
    BY <1>1, RecomputedFacts
  <2> HIDE DEF without
  <2>5. Kept(without, z, K, L, E \cup {from}, c, Q)
    <3>1. Allowed(without)
      BY <2>4 DEF Allowed, Kept
    <3>2. \A k, d : Whole(without, k, d) <=> Whole(s, k, d)
      BY <2>4 DEF Whole
    <3>3. \A y : At(without, y) = At(s, y)
      BY <2>4 DEF At
    <3>4. ASSUME K = Containers, NEW y \in Cpus \ (E \cup {from})
          PROVE  At(without, y) = At(z, y) \/ without.trc[y] = Load(without, y, {}).res
      <4>1. At(s, y) = At(z, y) \/ s.trc[y] = Load(s, y, {}).res
        BY <3>4 DEF Kept
      <4>2. Load(without, y, {}).res = Load(s, y, {}).res
        BY <2>4, <3>3, <3>4, LoadSame
      <4> QED  BY <2>4, <3>3, <3>4, <4>1, <4>2
    <3>5. /\ \A k \in K : \E d \in Cpus : Whole(without, k, d)
          /\ \A k \in L : Whole(without, k, c)
          /\ \A q \in Q : ContOf[q] \in K /\ without.naff[q] => without.assigned[q] = c
      BY <2>4, <3>2 DEF Kept
    <3>6. without.est = z.est
      BY <2>4 DEF Kept
    <3>7. AsOne(without, z)
      BY <2>4 DEF AsOne, OneMask, Kept
    <3> QED  BY <2>4, <3>1, <3>4, <3>5, <3>6, <3>7 DEF Kept
  <2>6. Kept(back, z, K, L, (E \cup {from}) \ {from}, c, Q)
    BY <2>5, KeptRecomputed DEF back
  <2>7. Kept(back, z, K, L, E, c, Q)
    <3> DEFINE E1 == (E \cup {from}) \ {from}
    <3>1. E1 \subseteq E /\ Kept(back, z, K, L, E1, c, Q)
      BY <2>6
    <3> HIDE DEF E1
    <3> QED  BY <3>1, KeptMore
  <2>8. back.assigned = s.assigned /\ back.naff = s.naff
    <3>1. back.assigned = without.assigned /\ back.naff = without.naff
      BY <1>1, <2>4, RecomputedFacts DEF back
    <3> QED  BY <2>4, <3>1
  <2>9. /\ fit.to \in Cpus \cup {None}
        /\ fit.to # None => from \in Cpus
        /\ Kept(fit.s, z, K, L, E, c, Q) /\ fit.s.assigned = s.assigned /\ fit.s.naff = s.naff
    BY <1>3, <1>6, <2>3, <2>7, <2>8
  <2> QED  BY <2>9 DEF fit, Fitted
<1> QED  BY <1>4, <1>5, <1>6

-----------------------------------------------------------------------------
(* Moving a container.                                                     *)
LEMMA MembersFacts ==
  ASSUME NEW p \in Pids, listed \subseteq Pids
  PROVE  /\ Members(p) \subseteq listed
         /\ ContOf[p] \in Containers => Members(p) = ListedOf(ContOf[p])
         /\ ContOf[p] \notin Containers => Members(p) = {}
         /\ \A k : k # ContOf[p] => Members(p) \cap ListedOf(k) = {}
BY ReallocAssumption DEF Members, ListedOf

LEMMA StuckFacts ==
  ASSUME NEW p \in Pids, NEW to, listed \subseteq Pids, Stuck(p, to) # {}
  PROVE  /\ First(Stuck(p, to)) \in Members(p) /\ Reached(p, to) \subseteq Members(p)
         /\ \A q \in Reached(p, to) : ~Refused(q, to)
<1> DEFINE S == Stuck(p, to)
<1>1. S \subseteq Members(p) /\ Members(p) \subseteq listed
  BY DEF Stuck, Members
<1>2. S \in SUBSET Nat /\ IsFiniteSet(S)
  <2>1. S \subseteq Pids /\ Pids \subseteq Nat \ {0} /\ IsFiniteSet(Pids)
    BY <1>1, ReallocAssumption
  <2> HIDE DEF S
  <2> QED  BY <2>1, FS_Subset
<1>3. First(S) \in S
  <2> HIDE DEF S
  <2>1. S # {}
    BY DEF S
  <2>2. Max(S) \in S /\ \A x \in S : x <= Max(S)
    BY <1>2, <2>1, FiniteMax
  <2>3. \E x \in S : \A q \in S : x >= q
    BY <1>2, <2>2
  <2> QED  BY <2>3, Zenon DEF First
<1>4. ASSUME NEW q \in Reached(p, to) PROVE ~Refused(q, to)
  <2>1. q \in Members(p) /\ \A r \in Stuck(p, to) : q > r
    BY DEF Reached
  <2>2. q \in Nat
    <3> HIDE DEF S
    <3> QED  BY <1>1, <2>1, ReallocAssumption
  <2>3. q \notin Stuck(p, to)
    <3> SUFFICES ASSUME q \in Stuck(p, to) PROVE FALSE
      OBVIOUS
    <3>1. q > q
      BY <2>1
    <3> QED  BY <2>2, <3>1
  <2> QED  BY <2>1, <2>3 DEF Stuck
<1>5. Reached(p, to) \subseteq Members(p)
  BY DEF Reached
<1> QED  BY <1>1, <1>3, <1>4, <1>5

LEMMA MovedFacts ==
  ASSUME NEW s \in State, Allowed(s), NEW touched \in SUBSET Pids, NEW before \in SUBSET Pids,
         NEW to \in Cpus, NEW goal \in Cpus, \A q \in before : ~Refused(q, to)
  PROVE  LET m == Moved(s, before, touched, to, goal)
         IN  /\ m \in State /\ Allowed(m) /\ m.est = s.est /\ m.trc = s.trc
             /\ \A q \in Pids :
                  /\ m.assigned[q] = IF q \in touched THEN goal ELSE s.assigned[q]
                  /\ q \notin before => m.mask[q] = s.mask[q]
                  /\ q \in before => ~m.naff[q] /\ (~Refused(q, goal) => m.mask[q] = {goal})
                  /\ m.naff[q] => s.naff[q]
<1> DEFINE a == [q \in Pids |-> IF q \in touched THEN goal ELSE s.assigned[q]]
           k == [q \in Pids |-> IF q \notin before THEN s.mask[q]
                                 ELSE IF Refused(q, goal) THEN {to} ELSE {goal}]
           n == [q \in Pids |-> s.naff[q] /\ q \notin before]
           m == Moved(s, before, touched, to, goal)
<1>1. m = [s EXCEPT !.assigned = a, !.mask = k, !.naff = n]
  BY Zenon DEF Moved
<1>2. a \in [Pids -> Int]
  BY ResTracerAssumption DEF State
<1>3. k \in [Pids -> SUBSET Cpus]
  BY DEF State
<1>4. n \in [Pids -> BOOLEAN]
  <2>1. \A q \in Pids : (s.naff[q] /\ q \notin before) \in BOOLEAN
    BY Zenon
  <2> QED  BY <2>1, Zenon
<1>5. \A q \in Pids : n[q] <=> (s.naff[q] /\ q \notin before)
  BY Zenon
<1>6. \A q \in Pids : /\ q \notin before => k[q] = s.mask[q]
                      /\ q \in before /\ ~Refused(q, goal) => k[q] = {goal}
                      /\ q \in before /\ Refused(q, goal) => k[q] = {to}
  BY Zenon
<1>10. \A q \in Pids : a[q] = IF q \in touched THEN goal ELSE s.assigned[q]
  OBVIOUS
<1> HIDE DEF a, k, n, m
<1>7. m \in State /\ m.est = s.est /\ m.trc = s.trc /\ m.assigned = a /\ m.mask = k /\ m.naff = n
  BY <1>1, <1>2, <1>3, <1>4 DEF State
<1>8. ASSUME NEW q \in Pids PROVE a[q] \in Cpus \cup {-1, Affinity[q]} /\ k[q] \subseteq Cpuset[q]
  <2>1. s.assigned[q] \in Cpus \cup {-1, Affinity[q]} /\ s.mask[q] \subseteq Cpuset[q]
    BY DEF Allowed
  <2>2. q \in before => to \in Cpuset[q]
    BY DEF Refused
  <2>3. ~Refused(q, goal) => goal \in Cpuset[q]
    BY DEF Refused
  <2>4. a[q] \in Cpus \cup {-1, Affinity[q]}
    BY <1>10, <2>1
  <2>5. k[q] \subseteq Cpuset[q]
    <3>1. CASE q \notin before
      BY <1>6, <2>1, <3>1
    <3>2. CASE q \in before /\ Refused(q, goal)
      BY <1>6, <2>2, <3>2
    <3>3. CASE q \in before /\ ~Refused(q, goal)
      BY <1>6, <2>3, <3>3
    <3> QED  BY <3>1, <3>2, <3>3
  <2> QED  BY <2>4, <2>5
<1>9. Allowed(m)
  BY <1>7, <1>8 DEF Allowed
<1>11. ASSUME NEW q \in Pids
       PROVE  /\ m.assigned[q] = IF q \in touched THEN goal ELSE s.assigned[q]
              /\ q \notin before => m.mask[q] = s.mask[q]
              /\ q \in before => ~m.naff[q] /\ (~Refused(q, goal) => m.mask[q] = {goal})
              /\ m.naff[q] => s.naff[q]
  <2>1. m.naff[q] => s.naff[q] /\ q \notin before
    BY <1>5, <1>7, Zenon
  <2> QED  BY <1>6, <1>7, <1>10, <2>1
<1> QED  BY <1>7, <1>9, <1>11 DEF m

(* A move keeps what is known, if the container of the task is whole on    *)
(* the CPU it leaves or does not count.                                    *)
From(s, p, from, K, L) == (ContOf[p] \in K => s.assigned[p] = from) /\ ContOf[p] \notin L

LEMMA MoveAllKept ==
  ASSUME NEW s, NEW z, NEW K, NEW L, NEW E, NEW c, NEW Q,
         Frame(K, L, Q), Kept(s, z, K, L, E, c, Q),
         NEW p \in listed, NEW to \in Cpus, NEW from \in Cpus, From(s, p, from, K, L)
  PROVE  LET moved == MoveAll(s, p, to, from)
         IN  /\ moved.ok => Kept(moved.s, z, K, L, E \cup {to, from}, c, Q)
             /\ ~moved.ok => Kept(moved.s, z, K, L, E, c, Q)
<1> DEFINE M == Members(p)
           R == Reached(p, to)
           T == Reached(p, to) \cup {First(Stuck(p, to))}
           all == Moved(s, M, M, to, to)
           some == Moved(s, R, T, to, from)
<1>0. /\ s \in State /\ Allowed(s) /\ listed \subseteq Pids /\ p \in Pids /\ from # None
      /\ K \subseteq Containers /\ L \subseteq K /\ Q \subseteq Pids
  BY ResTracerAssumption DEF Kept, Frame, None
<1>1. M \subseteq Pids /\ (\A k : k # ContOf[p] => M \cap ListedOf(k) = {})
  BY <1>0, MembersFacts
<1>2. ASSUME NEW m \in State, Allowed(m), m.est = s.est, m.trc = s.trc,
             \A q \in Pids : q \notin M => m.assigned[q] = s.assigned[q] /\ m.mask[q] = s.mask[q],
             \A q \in Pids : m.naff[q] => s.naff[q],
             NEW E2, E \subseteq E2,
             ContOf[p] \in K => \E d \in Cpus : Whole(m, ContOf[p], d),
             \A q \in Q : ContOf[q] \in K /\ m.naff[q] => m.assigned[q] = s.assigned[q],
             \A y \in Cpus \ E2 : K = Containers => At(m, y) = At(s, y),
             AsOne(m, s)
      PROVE  Kept(m, z, K, L, E2, c, Q)
  <2>1. ASSUME NEW k, k # ContOf[p], NEW d, Whole(s, k, d) PROVE Whole(m, k, d)
    <3>1. ASSUME NEW q \in ListedOf(k) PROVE q \in Pids /\ q \notin M
      BY <1>0, <1>1, <2>1, <3>1 DEF ListedOf
    <3> HIDE DEF M
    <3>2. \A q \in ListedOf(k) : m.assigned[q] = s.assigned[q] /\ m.mask[q] = s.mask[q]
      BY <1>2, <3>1, Zenon
    <3> QED  BY <2>1, <3>2 DEF Whole
  <2>2. \A k \in K : \E d \in Cpus : Whole(m, k, d)
    <3> SUFFICES ASSUME NEW k \in K PROVE \E d \in Cpus : Whole(m, k, d)
      OBVIOUS
    <3>1. CASE k = ContOf[p]
      BY <1>2, <3>1
    <3>2. CASE k # ContOf[p]
      <4>1. PICK d \in Cpus : Whole(s, k, d)
        BY DEF Kept
      <4> QED  BY <2>1, <3>2, <4>1
    <3> QED  BY <3>1, <3>2
  <2>3. \A k \in L : Whole(m, k, c)
    BY <2>1 DEF Kept, From
  <2>4. \A q \in Q : ContOf[q] \in K /\ m.naff[q] => m.assigned[q] = c
    <3> SUFFICES ASSUME NEW q \in Q, ContOf[q] \in K, m.naff[q] PROVE m.assigned[q] = c
      BY Zenon
    <3>1. s.naff[q] /\ m.assigned[q] = s.assigned[q]
      BY <1>0, <1>2, Zenon
    <3>2. s.assigned[q] = c
      BY <3>1, Zenon DEF Kept
    <3> QED  BY <3>1, <3>2
  <2>5. ASSUME K = Containers, NEW y \in Cpus \ E2
        PROVE  At(m, y) = At(z, y) \/ m.trc[y] = Load(m, y, {}).res
    <3>1. At(s, y) = At(z, y) \/ s.trc[y] = Load(s, y, {}).res
      BY <1>2, <2>5 DEF Kept
    <3>2. At(m, y) = At(s, y)
      BY <1>2, <2>5
    <3>3. Load(m, y, {}).res = Load(s, y, {}).res
      BY <1>2, <3>2, LoadSame
    <3> QED  BY <1>2, <3>1, <3>2, <3>3
  <2>6. m.est = z.est
    BY <1>2 DEF Kept
  <2>7. AsOne(m, z)
    <3>1. AsOne(s, z) /\ AsOne(m, s)
      BY <1>2 DEF Kept
    <3> QED  BY <3>1 DEF AsOne
  <2> HIDE DEF M
  <2> QED  BY <1>2, <2>2, <2>3, <2>4, <2>5, <2>6, <2>7 DEF Kept
<1>3. ASSUME ContOf[p] \in K
      PROVE  M = ListedOf(ContOf[p]) /\ Whole(s, ContOf[p], from)
  <2>1. M = ListedOf(ContOf[p]) /\ p \in ListedOf(ContOf[p])
    <3>1. ContOf[p] \in Containers
      BY <1>0, <1>3
    <3> QED  BY <1>0, <3>1, MembersFacts DEF ListedOf
  <2>2. PICK d \in Cpus : Whole(s, ContOf[p], d)
    BY <1>3 DEF Kept
  <2>3. d = from
    BY <1>3, <2>1, <2>2 DEF Whole, From
  <2> QED  BY <2>1, <2>2, <2>3
<1>6. ASSUME NEW m \in State, NEW k \in Containers, k # ContOf[p], OneMask(s, k),
             \A q \in Pids : q \notin M => m.mask[q] = s.mask[q]
      PROVE  OneMask(m, k)
  <2>1. PICK d \in Cpus : \A q \in ListedOf(k) : s.mask[q] = {d}
    BY <1>6 DEF OneMask
  <2>2. \A q \in ListedOf(k) : q \in Pids /\ q \notin M
    BY <1>0, <1>1, <1>6 DEF ListedOf
  <2> HIDE DEF M
  <2>3. \A q \in ListedOf(k) : m.mask[q] = {d}
    BY <1>6, <2>1, <2>2
  <2> QED  BY <2>3 DEF OneMask
<1>4. CASE Stuck(p, to) = {}
  <2>1. MoveAll(s, p, to, from) = [ok |-> TRUE, s |-> all]
    BY <1>4 DEF MoveAll
  <2>2. \A q \in M : ~Refused(q, to)
    BY <1>4 DEF Stuck
  <2>3. /\ all \in State /\ Allowed(all) /\ all.est = s.est /\ all.trc = s.trc
        /\ \A q \in Pids :
             /\ all.assigned[q] = IF q \in M THEN to ELSE s.assigned[q]
             /\ q \notin M => all.mask[q] = s.mask[q]
             /\ q \in M => ~all.naff[q] /\ (~Refused(q, to) => all.mask[q] = {to})
             /\ all.naff[q] => s.naff[q]
    <3> HIDE DEF M
    <3> QED  BY <1>0, <1>1, <2>2, MovedFacts
  <2> HIDE DEF M, all
  <2>4. ContOf[p] \in K => \E d \in Cpus : Whole(all, ContOf[p], d)
    <3> SUFFICES ASSUME ContOf[p] \in K PROVE Whole(all, ContOf[p], to)
      OBVIOUS
    <3>1. \A q \in ListedOf(ContOf[p]) : all.assigned[q] = to /\ all.mask[q] = {to}
      BY <1>1, <1>3, <2>2, <2>3
    <3> QED  BY <3>1 DEF Whole
  <2>5. \A q \in Q : ContOf[q] \in K /\ all.naff[q] => all.assigned[q] = s.assigned[q]
    BY <1>0, <2>3
  <2>6. ASSUME K = Containers, NEW y \in Cpus \ (E \cup {to, from}) PROVE At(all, y) = At(s, y)
    <3>1. \A q \in M : s.assigned[q] = from
      <4>1. CASE ContOf[p] \in K
        BY <1>3, <4>1 DEF Whole
      <4>2. CASE ContOf[p] \notin K
        <5>1. M = {}
          BY <1>0, <2>6, <4>2, MembersFacts DEF M
        <5> QED  BY <5>1
      <4> QED  BY <4>1, <4>2
    <3>2. \A q \in listed : all.assigned[q] = y <=> s.assigned[q] = y
      BY <1>0, <2>3, <2>6, <3>1
    <3> QED  BY <3>2 DEF At
  <2>8. AsOne(all, s)
    <3> SUFFICES ASSUME NEW k \in Containers, OneMask(s, k) PROVE OneMask(all, k)
      BY DEF AsOne
    <3>1. CASE k # ContOf[p]
      BY <1>6, <2>3, <3>1
    <3>2. CASE k = ContOf[p]
      <4>1. M = ListedOf(k)
        BY <1>0, <3>2, MembersFacts DEF M
      <4>2. \A q \in ListedOf(k) : all.mask[q] = {to}
        BY <1>1, <2>2, <2>3, <4>1
      <4> QED  BY <4>2 DEF OneMask
    <3> QED  BY <3>1, <3>2
  <2>7. Kept(all, z, K, L, E \cup {to, from}, c, Q)
    <3> DEFINE E2 == E \cup {to, from}
    <3>1. E \subseteq E2 /\ (\A y \in Cpus \ E2 : K = Containers => At(all, y) = At(s, y))
      BY <2>6
    <3> HIDE DEF E2
    <3>2. Kept(all, z, K, L, E2, c, Q)
      BY <1>2, <2>3, <2>4, <2>5, <2>8, <3>1
    <3> QED  BY <3>2 DEF E2
  <2> QED  BY <2>1, <2>7
<1>5. CASE Stuck(p, to) # {}
  <2>1. MoveAll(s, p, to, from) = [ok |-> FALSE, s |-> some]
    BY <1>0, <1>5 DEF MoveAll
  <2>2. R \subseteq M /\ T \subseteq M /\ R \subseteq T /\ \A q \in R : ~Refused(q, to)
    BY <1>0, <1>5, StuckFacts
  <2>3. /\ some \in State /\ Allowed(some) /\ some.est = s.est /\ some.trc = s.trc
        /\ \A q \in Pids :
             /\ some.assigned[q] = IF q \in T THEN from ELSE s.assigned[q]
             /\ q \notin R => some.mask[q] = s.mask[q]
             /\ q \in R => ~some.naff[q] /\ (~Refused(q, from) => some.mask[q] = {from})
             /\ some.naff[q] => s.naff[q]
    <3> HIDE DEF M, R, T
    <3> QED  BY <1>0, <1>1, <2>2, MovedFacts
  <2> HIDE DEF M, R, T, some
  <2>4. ASSUME ContOf[p] \in K, NEW q \in M
        PROVE  some.assigned[q] = from /\ s.assigned[q] = from /\ some.mask[q] = {from}
    <3>1. q \in Pids /\ s.assigned[q] = from /\ s.mask[q] = {from} /\ s.mask[q] \subseteq Cpuset[q]
      BY <1>0, <1>1, <1>3, <2>4 DEF Whole, Allowed
    <3>2. q \in R => ~Refused(q, from)
      <4>1. q \in R => q \in alive
        BY <2>2 DEF Refused
      <4>2. from \in Cpuset[q]
        BY <3>1
      <4> QED  BY <4>1, <4>2 DEF Refused
    <3> QED  BY <2>3, <3>1, <3>2
  <2>5. ContOf[p] \in K => \E d \in Cpus : Whole(some, ContOf[p], d)
    <3> SUFFICES ASSUME ContOf[p] \in K PROVE Whole(some, ContOf[p], from)
      OBVIOUS
    <3> QED  BY <1>3, <2>4 DEF Whole
  <2>6. \A q \in Pids : ContOf[q] \in K => some.assigned[q] = s.assigned[q]
    <3> SUFFICES ASSUME NEW q \in Pids, ContOf[q] \in K PROVE some.assigned[q] = s.assigned[q]
      OBVIOUS
    <3>1. CASE q \in M
      <4>1. ContOf[p] \in K
        BY <3>1 DEF M, Members
      <4> QED  BY <2>4, <3>1, <4>1
    <3>2. CASE q \notin M
      BY <2>2, <2>3, <3>2
    <3> QED  BY <3>1, <3>2
  <2>7. ASSUME K = Containers, NEW y \in Cpus \ E PROVE At(some, y) = At(s, y)
    <3>1. \A q \in listed : some.assigned[q] = s.assigned[q]
      <4> SUFFICES ASSUME NEW q \in listed PROVE some.assigned[q] = s.assigned[q]
        OBVIOUS
      <4>1. CASE ContOf[q] \in K
        BY <1>0, <2>6, <4>1
      <4>2. CASE ContOf[q] \notin K
        <5>1. q \in Pids /\ q \notin M
          <6>1. q \in M => ContOf[q] = ContOf[p] /\ M # {}
            BY DEF M, Members
          <6>2. ContOf[p] \notin K => M = {}
            BY <1>0, <2>7, MembersFacts DEF M
          <6> QED  BY <1>0, <4>2, <6>1, <6>2
        <5> QED  BY <2>2, <2>3, <5>1
      <4> QED  BY <4>1, <4>2
    <3> QED  BY <3>1 DEF At
  <2>8. /\ \A q \in Pids : q \notin M => some.assigned[q] = s.assigned[q] /\ some.mask[q] = s.mask[q]
        /\ \A q \in Pids : some.naff[q] => s.naff[q]
    BY <2>2, <2>3
  <2>9. \A q \in Q : ContOf[q] \in K /\ some.naff[q] => some.assigned[q] = s.assigned[q]
    BY <1>0, <2>6
  <2>11. AsOne(some, s)
    <3> SUFFICES ASSUME NEW k \in Containers, Movable(k), OneMask(s, k) PROVE OneMask(some, k)
      BY DEF AsOne
    <3>1. CASE k # ContOf[p]
      BY <1>6, <2>3, <2>8, <3>1
    <3>2. CASE k = ContOf[p]
      <4>1. M = ListedOf(k)
        BY <1>0, <3>2, MembersFacts DEF M
      <4>2. PICK q \in M : Refused(q, to)
        BY <1>5 DEF M, Stuck
      <4>3. q \in alive /\ to \in Cpuset[q]
        BY <4>1 DEF Movable
      <4> QED  BY <4>2, <4>3 DEF Refused
    <3> QED  BY <3>1, <3>2
  <2>10. Kept(some, z, K, L, E, c, Q)
    BY <1>2, <2>3, <2>5, <2>7, <2>8, <2>9, <2>11
  <2> QED  BY <2>1, <2>10
<1> QED  BY <1>4, <1>5

(* pidReallocAndTest() computes the CPUs anew when the tasks are moved.    *)
LEMMA ReallocKept ==
  ASSUME NEW s, NEW z, NEW K, NEW L, NEW E, NEW c, NEW Q,
         Frame(K, L, Q), Kept(s, z, K, L, E, c, Q),
         NEW p \in listed, NEW to \in Cpus \cup {None}, NEW from \in Cpus \cup {None},
         to # None => from \in Cpus /\ From(s, p, from, K, L)
  PROVE  Kept(pidReallocAndTest(s, to, from, p).s, z, K, L, E, c, Q)
<1> DEFINE moved == MoveAll(s, p, to, from)
           s1 == Recomputed(moved.s, to, {})
           s2 == Recomputed(s1, from, {})
<1>1. CASE to \in {None, from}
  BY <1>1 DEF pidReallocAndTest
<1>2. CASE to \notin {None, from}
  <2>0. to \in Cpus /\ from \in Cpus /\ From(s, p, from, K, L)
    BY <1>2
  <2>1. /\ moved.ok => Kept(moved.s, z, K, L, E \cup {to, from}, c, Q)
        /\ ~moved.ok => Kept(moved.s, z, K, L, E, c, Q)
    BY <2>0, MoveAllKept
  <2>2. /\ ~moved.ok => pidReallocAndTest(s, to, from, p) = [ret |-> -1, s |-> moved.s]
        /\ moved.ok => pidReallocAndTest(s, to, from, p)
             = [ret |-> IF from # None /\ Load(s1, from, {}).over THEN -2 ELSE 0, s |-> s2]
    BY <1>2, Zenon DEF pidReallocAndTest, Once
  <2> HIDE DEF moved
  <2>3. CASE ~moved.ok
    BY <2>1, <2>2, <2>3
  <2>4. CASE moved.ok
    <3>1. Kept(s1, z, K, L, (E \cup {to, from}) \ {to}, c, Q)
      BY <2>1, <2>4, KeptRecomputed DEF s1
    <3> HIDE DEF s1
    <3>2. Kept(s2, z, K, L, ((E \cup {to, from}) \ {to}) \ {from}, c, Q)
      BY <3>1, KeptRecomputed DEF s2
    <3> HIDE DEF s2
    <3>3. Kept(s2, z, K, L, E, c, Q)
      <4> DEFINE E1 == ((E \cup {to, from}) \ {to}) \ {from}
      <4>1. E1 \subseteq E
        OBVIOUS
      <4> HIDE DEF E1
      <4> QED  BY <3>2, <4>1, KeptMore DEF E1
    <3> QED  BY <2>2, <2>4, <3>3
  <2> QED  BY <2>3, <2>4
<1> QED  BY <1>1, <1>2

-----------------------------------------------------------------------------
(* Relieving a CPU.                                                        *)
Tries(z, K, L, E, c, Q) == [done : BOOLEAN, s : {s \in State : Kept(s, z, K, L, E, c, Q)}]

(* The containers of L are on c, so no task of another CPU o is of them.   *)
LEMMA TryMoveKept ==
  ASSUME NEW z, NEW K, NEW L, NEW E, NEW c, NEW Q, Frame(K, L, Q),
         NEW a \in Tries(z, K, L, E, c, Q), NEW p \in listed,
         NEW o, NEW near, NEW include, o # c \/ L = {}
  PROVE  TryMove(a, p, o, near, include) \in Tries(z, K, L, E, c, Q)
<1> DEFINE fit == checkPeriod_R(a.s, p, include)
           r == pidReallocAndTest(fit.s, fit.to, getTracer(o), p)
           new == [done |-> r.ret = 0, s |-> r.s]
<1>1. a.s \in State /\ Kept(a.s, z, K, L, E, c, Q)
  BY DEF Tries
<1>2. p \in Pids /\ K \subseteq Containers /\ L \subseteq K
  BY DEF Frame
<1>3. /\ Kept(fit.s, z, K, L, E, c, Q) /\ fit.s.assigned = a.s.assigned
      /\ fit.to \in Cpus \cup {None}
      /\ fit.to # None => a.s.assigned[p] \in Cpus
  <2> DEFINE u == a.s
  <2> HIDE DEF u
  <2>1. Kept(u, z, K, L, E, c, Q)
    BY <1>1 DEF u
  <2>2. Fitted(checkPeriod_R(u, p, include), u, z, K, L, E, c, Q, p)
    BY <1>2, <2>1, FitKept
  <2> QED  BY <2>2 DEF u, Fitted
<1>4. CASE a.done \/ p \notin near \/ a.s.assigned[p] # o
  <2>1. TryMove(a, p, o, near, include) = a
    BY <1>4, Zenon DEF TryMove, Once
  <2> QED  BY <2>1
<1>5. CASE ~(a.done \/ p \notin near \/ a.s.assigned[p] # o)
  <2>1. TryMove(a, p, o, near, include) = new
    BY <1>5, Zenon DEF TryMove, Once
  <2> HIDE DEF fit
  <2>2. ContOf[p] \notin L
    <3> SUFFICES ASSUME ContOf[p] \in L PROVE FALSE
      OBVIOUS
    <3>1. Whole(a.s, ContOf[p], c) /\ p \in ListedOf(ContOf[p])
      BY <1>1 DEF Kept, ListedOf
    <3>2. a.s.assigned[p] = c
      BY <3>1 DEF Whole
    <3> QED  BY <1>5, <3>2
  <2>3. getTracer(o) \in Cpus \cup {None} /\ (o \in Cpus => getTracer(o) = o)
    BY DEF getTracer
  <2>4. fit.to # None => getTracer(o) \in Cpus /\ From(fit.s, p, getTracer(o), K, L)
    BY <1>3, <1>5, <2>2, <2>3 DEF From
  <2>5. Kept(r.s, z, K, L, E, c, Q)
    <3> DEFINE u == fit.s
               to == fit.to
               from == getTracer(o)
    <3> HIDE DEF u, to, from
    <3>1. /\ Kept(u, z, K, L, E, c, Q) /\ to \in Cpus \cup {None} /\ from \in Cpus \cup {None}
          /\ to # None => from \in Cpus /\ From(u, p, from, K, L)
      BY <1>3, <2>3, <2>4 DEF u, to, from
    <3>2. Kept(pidReallocAndTest(u, to, from, p).s, z, K, L, E, c, Q)
      BY <3>1, ReallocKept
    <3> QED  BY <3>2 DEF u, to, from
  <2> DEFINE o1 == r.ret = 0
  <2>6. o1 \in BOOLEAN
    BY Zenon
  <2>7. new = [done |-> o1, s |-> r.s]
    OBVIOUS
  <2> HIDE DEF new, r, o1
  <2>8. r.s \in {u \in State : Kept(u, z, K, L, E, c, Q)}
    BY <2>5 DEF Kept
  <2>9. [done |-> o1, s |-> r.s] \in Tries(z, K, L, E, c, Q)
    <3> DEFINE V == {u \in State : Kept(u, z, K, L, E, c, Q)}
    <3> HIDE DEF V
    <3>1. [done |-> o1, s |-> r.s] \in [done : BOOLEAN, s : V]
      BY <2>6, <2>8 DEF V
    <3> QED  BY <3>1 DEF V, Tries
  <2> QED  BY <2>1, <2>7, <2>9
<1> QED  BY <1>4, <1>5

LEMMA TryAllKept ==
  ASSUME NEW z, NEW K, NEW L, NEW E, NEW c, NEW Q, Frame(K, L, Q),
         NEW a \in Tries(z, K, L, E, c, Q), NEW o, NEW near, NEW include, o # c \/ L = {}
  PROVE  TryAll(a, o, near, include) \in Tries(z, K, L, E, c, Q)
<1> DEFINE V == Tries(z, K, L, E, c, Q)
           Body(g) == [S \in SUBSET listed |-> IF S = {} THEN a
                                               ELSE TryMove(g[S \ {Min(S)}], Min(S), o, near, include)]
           f == CHOOSE g : g = Body(g)
           h == [p \in listed |-> [b \in V |-> TryMove(b, p, o, near, include)]]
<1>0. listed \in SUBSET Nat /\ IsFiniteSet(listed)
  BY FrameFacts
<1>1. TryAll(a, o, near, include) = f[listed]
  BY Zenon DEF TryAll
<1>2. a \in V
  OBVIOUS
<1>3. ASSUME NEW b \in V, NEW p \in listed PROVE TryMove(b, p, o, near, include) \in V
  <2> DEFINE x == TryMove(b, p, o, near, include)
  <2> SUFFICES x \in Tries(z, K, L, E, c, Q)
    OBVIOUS
  <2>1. b \in Tries(z, K, L, E, c, Q)
    OBVIOUS
  <2> HIDE DEF V, Body, f, h
  <2> QED  BY <2>1, TryMoveKept
<1> HIDE DEF V
<1>4. \E g : g = Body(g)
  <2>1. h \in [listed -> [V -> V]]
    BY <1>3
  <2>2. PICK g \in [SUBSET listed -> V] : Loops(g, listed, a, h)
    <3> HIDE DEF h
    <3> QED  BY <1>0, <1>2, <2>1, LoopExists
  <2>3. ASSUME NEW S \in SUBSET listed, S # {} PROVE Min(S) \in listed /\ S \ {Min(S)} \in SUBSET listed
    BY <1>0, <2>3, LeastOne
  <2>4. \A S \in SUBSET listed :
          g[S] = IF S = {} THEN a ELSE TryMove(g[S \ {Min(S)}], Min(S), o, near, include)
    <3> SUFFICES ASSUME NEW S \in SUBSET listed
                 PROVE  g[S] = IF S = {} THEN a ELSE TryMove(g[S \ {Min(S)}], Min(S), o, near, include)
      OBVIOUS
    <3>1. g[S] = IF S = {} THEN a ELSE h[Min(S)][g[S \ {Min(S)}]]
      BY <2>2 DEF Loops
    <3>2. CASE S = {}
      BY <3>1, <3>2
    <3>3. CASE S # {}
      <4>1. Min(S) \in listed /\ g[S \ {Min(S)}] \in V
        BY <2>2, <2>3, <3>3
      <4>2. h[Min(S)][g[S \ {Min(S)}]] = TryMove(g[S \ {Min(S)}], Min(S), o, near, include)
        BY <4>1
      <4> HIDE DEF h
      <4> QED  BY <3>1, <3>3, <4>2
    <3> QED  BY <3>2, <3>3
  <2>5. g = Body(g)
    <3>1. g = [S \in SUBSET listed |-> g[S]]
      BY <2>2
    <3> QED  BY <2>4, <3>1
  <2> QED  BY <2>5
<1>5. f = Body(f)
  <2> HIDE DEF Body
  <2> QED  BY <1>4
<1>6. \A S \in SUBSET listed :
        f[S] = IF S = {} THEN a ELSE TryMove(f[S \ {Min(S)}], Min(S), o, near, include)
  <2> HIDE DEF f
  <2> QED  BY <1>5
<1> HIDE DEF f
<1> DEFINE G == {S \in SUBSET listed : f[S] \in V}
<1>7. {} \in G
  BY <1>2, <1>6
<1>8. ASSUME NEW S \in SUBSET listed, S # {}, S \ {Min(S)} \in G PROVE S \in G
  <2>1. Min(S) \in listed
    BY <1>0, <1>8, LeastOne
  <2>2. f[S] = TryMove(f[S \ {Min(S)}], Min(S), o, near, include)
    BY <1>6, <1>8
  <2>3. f[S] \in V
    BY <1>3, <1>8, <2>1, <2>2
  <2> QED  BY <2>3
<1>9. listed \in G
  <2> HIDE DEF G
  <2> QED  BY <1>0, <1>7, <1>8, LoopInduction
<1> QED  BY <1>1, <1>9 DEF V

LEMMA PickKept ==
  ASSUME NEW s, NEW z, NEW K, NEW L, NEW E, NEW c, NEW Q, Frame(K, L, Q),
         Kept(s, z, K, L, E, c, Q), NEW o, NEW near, o # c \/ L = {}
  PROVE  Kept(pickPidReallocCPU(s, o, near), z, K, L, E, c, Q)
<1> DEFINE V == Tries(z, K, L, E, c, Q)
           a == [done |-> FALSE, s |-> s]
           b == TryAll(a, o, near, FALSE)
           d == TryAll(b, o, near, TRUE)
<1>1. a \in V
  BY DEF Tries, Kept
<1> HIDE DEF a
<1>2. b \in V
  BY <1>1, TryAllKept
<1> HIDE DEF b
<1>3. d \in V
  BY <1>2, TryAllKept
<1>4. pickPidReallocCPU(s, o, near) = d.s
  BY Zenon DEF pickPidReallocCPU, Once, a, b
<1> HIDE DEF d
<1> QED  BY <1>3, <1>4 DEF Tries

LEMMA RelievedKept ==
  ASSUME NEW s, NEW z, NEW K, NEW L, NEW E, NEW c, NEW Q, Frame(K, L, Q),
         Kept(s, z, K, L, E, c, Q), NEW o, o # c \/ L = {}
  PROVE  Kept(Relieved(s, o), z, K, L, E \ {o}, c, Q)
<1> DEFINE s1 == Recomputed(s, o, {})
           s2 == pickPidReallocCPU(s1, o, listed)
<1>1. Relieved(s, o) = s1 \/ Relieved(s, o) = s2
  BY Zenon DEF Relieved, Once
<1>2. Kept(s1, z, K, L, E \ {o}, c, Q)
  BY KeptRecomputed
<1> HIDE DEF s1
<1>3. Kept(s2, z, K, L, E \ {o}, c, Q)
  <2> DEFINE E1 == E \ {o}
  <2> HIDE DEF E1
  <2>1. Kept(s1, z, K, L, E1, c, Q)
    BY <1>2 DEF E1
  <2>2. Kept(s2, z, K, L, E1, c, Q)
    BY <2>1, PickKept DEF s2
  <2> QED  BY <2>2 DEF E1
<1> HIDE DEF s2
<1> QED  BY <1>1, <1>2, <1>3

-----------------------------------------------------------------------------
(* The event of a CPU.  A task shows up on c: if its container counts it   *)
(* was there already.                                                      *)
LEMMA ArriveKept ==
  ASSUME NEW s, NEW z, NEW K, NEW L, NEW c \in Cpus, NEW Q, Frame(K, L, Q),
         Kept(s, z, K, L, {c}, c, Q), NEW p \in listed, ContOf[p] \in K => ContOf[p] \in L
  PROVE  Kept(Arrive(s, c, p), z, K, L, {c}, c, Q)
<1> DEFINE old == s.assigned[p]
           n == s.naff[p] \/ s.assigned[p] < 0
           s1 == [s EXCEPT !.assigned[p] = c, !.naff[p] = n]
<1>0. s \in State /\ Allowed(s) /\ p \in Pids /\ listed \subseteq Pids /\ L \subseteq K /\ Q \subseteq listed
  BY DEF Kept, Frame
<1>1. CASE old = c
  BY <1>1 DEF Arrive
<1>2. CASE old # c
  <2>1. Arrive(s, c, p) = Relieved(s1, old)
    BY <1>2, Zenon DEF Arrive, Once
  <2>2. ContOf[p] \notin K
    <3> SUFFICES ASSUME ContOf[p] \in K PROVE FALSE
      OBVIOUS
    <3>1. Whole(s, ContOf[p], c) /\ p \in ListedOf(ContOf[p])
      BY DEF Kept, ListedOf
    <3> QED  BY <1>2, <3>1 DEF Whole
  <2>3. n \in BOOLEAN
    BY Zenon
  <2> HIDE DEF n
  <2>4. s1 \in State
    <3> DEFINE a1 == [s.assigned EXCEPT ![p] = c]
               n1 == [s.naff EXCEPT ![p] = n]
    <3>1. c \in Int
      BY ResTracerAssumption
    <3>2. a1 \in [Pids -> Int]
      BY <1>0, <3>1 DEF State
    <3>3. n1 \in [Pids -> BOOLEAN]
      BY <1>0, <2>3 DEF State
    <3>4. s1 = [s EXCEPT !.assigned = a1, !.naff = n1]
      BY <1>0 DEF State
    <3> HIDE DEF a1, n1, s1
    <3> QED  BY <1>0, <3>2, <3>3, <3>4 DEF State
  <2>5. /\ s1.est = s.est /\ s1.trc = s.trc /\ s1.mask = s.mask
        /\ s1.assigned = [s.assigned EXCEPT ![p] = c]
        /\ s1.naff = [s.naff EXCEPT ![p] = n]
    BY <1>0 DEF State
  <2> HIDE DEF s1
  <2>6. /\ \A q \in Pids : s1.assigned[q] = IF q = p THEN c ELSE s.assigned[q]
        /\ \A q \in Pids : q # p => s1.naff[q] = s.naff[q]
    BY <1>0, <2>5 DEF State
  <2>7. Allowed(s1)
    BY <1>0, <2>5, <2>6 DEF Allowed
  <2>8. ASSUME NEW k \in K, NEW d, Whole(s, k, d) PROVE Whole(s1, k, d)
    <3>1. \A q \in ListedOf(k) : q \in Pids /\ q # p
      BY <1>0, <2>2 DEF ListedOf
    <3> QED  BY <2>5, <2>6, <2>8, <3>1 DEF Whole
  <2>9. /\ \A k \in K : \E d \in Cpus : Whole(s1, k, d)
        /\ \A k \in L : Whole(s1, k, c)
    BY <1>0, <2>8 DEF Kept
  <2>10. \A q \in Q : ContOf[q] \in K /\ s1.naff[q] => s1.assigned[q] = c
    <3> SUFFICES ASSUME NEW q \in Q, ContOf[q] \in K, s1.naff[q] PROVE s1.assigned[q] = c
      BY Zenon
    <3>1. q # p /\ q \in Pids
      BY <1>0, <2>2
    <3>2. s.naff[q]
      BY <2>6, <3>1, Zenon
    <3>3. s.assigned[q] = c
      BY <3>2, Zenon DEF Kept
    <3> QED  BY <2>6, <3>1, <3>3
  <2>11. ASSUME K = Containers, NEW y \in Cpus \ {c, old}
         PROVE  At(s1, y) = At(z, y) \/ s1.trc[y] = Load(s1, y, {}).res
    <3>1. At(s, y) = At(z, y) \/ s.trc[y] = Load(s, y, {}).res
      BY <2>11 DEF Kept
    <3>2. At(s1, y) = At(s, y)
      BY <1>0, <2>6, <2>11 DEF At
    <3>3. Load(s1, y, {}).res = Load(s, y, {}).res
      BY <2>5, <3>2, LoadSame
    <3> QED  BY <2>5, <3>1, <3>2, <3>3
  <2>12. Kept(s1, z, K, L, {c, old}, c, Q)
    <3>1. s1.est = z.est
      BY <2>5 DEF Kept
    <3>2. AsOne(s1, z)
      BY <2>5 DEF AsOne, OneMask, Kept
    <3> HIDE DEF old
    <3> QED  BY <2>4, <2>7, <2>9, <2>10, <2>11, <3>1, <3>2 DEF Kept
  <2>13. Kept(Relieved(s1, old), z, K, L, {c, old} \ {old}, c, Q)
    BY <1>2, <2>12, RelievedKept
  <2>14. {c, old} \ {old} = {c}
    BY <1>2
  <2> QED  BY <2>1, <2>13, <2>14
<1> QED  BY <1>1, <1>2

LEMMA FirstKept ==
  ASSUME NEW s, NEW z, NEW K, NEW E, NEW c \in Cpus, NEW Q, Frame(K, {}, Q),
         Kept(s, z, K, {}, E, c, Q), NEW p, p = 0 \/ p \in Q
  PROVE  Kept(FirstAssignment(s, c, p), z, K, {}, E, c, Q)
<1> DEFINE fit == checkPeriod_R(s, p, FALSE)
           first == pidReallocAndTest(fit.s, fit.to, c, p)
           n == [s EXCEPT !.naff[p] = FALSE]
           f == FirstAssignment(s, c, p)
<1>0. s \in State /\ Allowed(s) /\ listed \subseteq Pids /\ Q \subseteq listed
  BY DEF Kept, Frame
<1>1. CASE p = 0 \/ Mode < SM_PADAPTIVE \/ ~s.naff[p]
  <2>1. f = s
    BY <1>1, Zenon DEF FirstAssignment
  <2> QED  BY <2>1
<1>2. CASE ~(p = 0 \/ Mode < SM_PADAPTIVE \/ ~s.naff[p])
  <2>0. p \in Q /\ p \in listed /\ p \in Pids /\ s.naff[p]
    BY <1>0, <1>2, Zenon
  <2>1. \/ f = first.s
        \/ f = SetAffinity(s, p) /\ ~Refused(p, s.assigned[p]) /\ Cardinality(s.mask[p]) > 1
        \/ f = n
    BY <1>2, Zenon DEF FirstAssignment, Once
  <2>2. ContOf[p] \in K => s.assigned[p] = c
    BY <2>0, Zenon DEF Kept
  <2>3. Kept(first.s, z, K, {}, E, c, Q)
    <3>1. Fitted(fit, s, z, K, {}, E, c, Q, p)
      BY <2>0, FitKept
    <3> DEFINE u == fit.s
               to == fit.to
    <3> HIDE DEF fit
    <3>2. /\ Kept(u, z, K, {}, E, c, Q) /\ u.assigned = s.assigned /\ to \in Cpus \cup {None}
      BY <3>1 DEF Fitted
    <3> HIDE DEF u, to
    <3>3. From(u, p, c, K, {})
      BY <2>2, <3>2 DEF From
    <3>4. Kept(pidReallocAndTest(u, to, c, p).s, z, K, {}, E, c, Q)
      BY <2>0, <3>2, <3>3, ReallocKept
    <3> QED  BY <3>4 DEF u, to
  <2>4. ASSUME NEW m \in State, Allowed(m), m.est = s.est, m.trc = s.trc, m.assigned = s.assigned,
               \A q \in Pids : ContOf[q] \in K => m.mask[q] = s.mask[q],
               \A q \in Pids : m.naff[q] => s.naff[q],
               AsOne(m, s)
        PROVE  Kept(m, z, K, {}, E, c, Q)
    <3>1. ASSUME NEW k \in K, NEW d, Whole(s, k, d) PROVE Whole(m, k, d)
      <4>1. \A q \in ListedOf(k) : q \in Pids /\ ContOf[q] \in K
        BY <1>0 DEF ListedOf
      <4> QED  BY <2>4, <3>1, <4>1 DEF Whole
    <3>2. \A k \in K : \E d \in Cpus : Whole(m, k, d)
      BY <3>1 DEF Kept
    <3>3. \A q \in Q : ContOf[q] \in K /\ m.naff[q] => m.assigned[q] = c
      <4> SUFFICES ASSUME NEW q \in Q, ContOf[q] \in K, m.naff[q] PROVE m.assigned[q] = c
        BY Zenon
      <4>1. s.naff[q]
        BY <1>0, <2>4, Zenon
      <4>2. s.assigned[q] = c
        BY <4>1, Zenon DEF Kept
      <4> QED  BY <2>4, <4>2
    <3>4. ASSUME K = Containers, NEW y \in Cpus \ E
          PROVE  At(m, y) = At(z, y) \/ m.trc[y] = Load(m, y, {}).res
      <4>1. At(s, y) = At(z, y) \/ s.trc[y] = Load(s, y, {}).res
        BY <3>4 DEF Kept
      <4>2. At(m, y) = At(s, y)
        BY <2>4 DEF At
      <4>3. Load(m, y, {}).res = Load(s, y, {}).res
        BY <2>4, <4>2, LoadSame
      <4> QED  BY <2>4, <4>1, <4>2, <4>3
    <3>5. m.est = z.est
      BY <2>4 DEF Kept
    <3>6. AsOne(m, z)
      <4>1. AsOne(s, z) /\ AsOne(m, s)
        BY <2>4 DEF Kept
      <4> QED  BY <4>1 DEF AsOne
    <3> QED  BY <2>4, <3>2, <3>3, <3>4, <3>5, <3>6 DEF Kept
  <2>5. Kept(n, z, K, {}, E, c, Q)
    <3>1. n \in State /\ n.est = s.est /\ n.trc = s.trc /\ n.assigned = s.assigned /\ n.mask = s.mask
      BY <1>0, <2>0 DEF State
    <3>2. n.naff = [s.naff EXCEPT ![p] = FALSE]
      BY <1>0 DEF State
    <3> HIDE DEF n
    <3>3. \A q \in Pids : n.naff[q] => s.naff[q]
      <4> SUFFICES ASSUME NEW q \in Pids PROVE n.naff[q] => s.naff[q]
        OBVIOUS
      <4>1. CASE q = p
        BY <2>0, <4>1, Zenon
      <4>2. CASE q # p
        <5>1. n.naff[q] = s.naff[q]
          BY <1>0, <3>2, <4>2 DEF State
        <5> QED  BY <5>1, Zenon
      <4> QED  BY <4>1, <4>2
    <3>4. Allowed(n)
      BY <1>0, <3>1 DEF Allowed
    <3>5. AsOne(n, s)
      BY <3>1 DEF AsOne, OneMask
    <3> QED  BY <2>4, <3>1, <3>3, <3>4, <3>5
  <2>6. ASSUME ~Refused(p, s.assigned[p]), Cardinality(s.mask[p]) > 1
        PROVE  Kept(SetAffinity(s, p), z, K, {}, E, c, Q)
    <3> DEFINE m == SetAffinity(s, p)
               d == s.assigned[p]
    <3>0. d \in Cpuset[p] /\ Cpuset[p] \subseteq Cpus
      BY <2>0, <2>6, ReallocAssumption DEF Refused
    <3>1. /\ m \in State /\ m.est = s.est /\ m.trc = s.trc /\ m.assigned = s.assigned
          /\ m.mask = [s.mask EXCEPT ![p] = {d}]
          /\ m.naff = [s.naff EXCEPT ![p] = FALSE]
      BY <1>0, <2>0, <3>0 DEF State, SetAffinity
    <3> HIDE DEF m
    <3>2. \A q \in Pids : m.mask[q] = IF q = p THEN {d} ELSE s.mask[q]
      BY <1>0, <3>1 DEF State
    <3>3. \A q \in Pids : m.naff[q] => s.naff[q]
      <4> SUFFICES ASSUME NEW q \in Pids PROVE m.naff[q] => s.naff[q]
        OBVIOUS
      <4>1. CASE q = p
        BY <2>0, <4>1, Zenon
      <4>2. CASE q # p
        <5>1. m.naff[q] = s.naff[q]
          BY <1>0, <3>1, <4>2 DEF State
        <5> QED  BY <5>1, Zenon
      <4> QED  BY <4>1, <4>2
    <3>4. Allowed(m)
      BY <1>0, <3>0, <3>1, <3>2 DEF Allowed
    <3>5. ASSUME ContOf[p] \in K PROVE s.mask[p] = {d}
      <4>1. PICK x \in Cpus : Whole(s, ContOf[p], x)
        BY <3>5 DEF Kept
      <4>2. p \in ListedOf(ContOf[p])
        BY <2>0 DEF ListedOf
      <4> QED  BY <4>1, <4>2 DEF Whole
    <3>7. \A x : s.mask[p] # {x}
      <4> SUFFICES ASSUME NEW x, s.mask[p] = {x} PROVE FALSE
        OBVIOUS
      <4>1. Cardinality({x}) = 1
        BY FS_Singleton
      <4>2. ~(1 > 1)
        OBVIOUS
      <4> QED  BY <2>6, <4>1, <4>2, Zenon
    <3>8. AsOne(m, s)
      <4> SUFFICES ASSUME NEW k \in Containers, OneMask(s, k) PROVE OneMask(m, k)
        BY DEF AsOne
      <4>1. PICK x \in Cpus : \A q \in ListedOf(k) : s.mask[q] = {x}
        BY DEF OneMask
      <4>2. \A q \in ListedOf(k) : q \in Pids /\ q # p
        BY <1>0, <3>7, <4>1 DEF ListedOf
      <4>3. \A q \in ListedOf(k) : m.mask[q] = {x}
        BY <3>2, <4>1, <4>2
      <4> QED  BY <4>3 DEF OneMask
    <3>6. Kept(m, z, K, {}, E, c, Q)
      BY <2>4, <3>1, <3>2, <3>3, <3>4, <3>5, <3>8
    <3> QED  BY <3>6 DEF m
  <2> HIDE DEF f, n, first
  <2>7. Kept(f, z, K, {}, E, c, Q)
    BY <2>1, <2>3, <2>5, <2>6
  <2> QED  BY <2>7 DEF f
<1> QED  BY <1>1, <1>2

(* A handler starts with what is in the variables.                         *)
Typed == listed \subseteq Pids /\ state \in State /\ Allowed(state)
Wholes(s, K)  == \A k \in K : \E d \in Cpus : Whole(s, k, d)
Here(p, c, K) == p \in listed /\ ContOf[p] \in K => Whole(state, ContOf[p], c)

LEMMA EventKept ==
  ASSUME Typed, NEW K \in SUBSET Containers, Wholes(state, K),
         NEW c \in Cpus, NEW prev \in listed \cup {0}, NEW next \in listed \cup {0},
         Here(prev, c, K), Here(next, c, K), pickPidInfoS(c, prev, next)
  PROVE  \E s : Becomes(s) /\ Kept(s, state, K, {}, {}, c, {prev} \ {0})
<1> DEFINE L == {k \in K : Whole(state, k, c)}
           Q == {prev} \ {0}
           high == IF prev > next THEN prev ELSE next
           low  == IF prev > next THEN next ELSE prev
           s1 == Seen(state, c, high)
           s2 == Seen(s1, c, low)
           s3 == Relieved(s2, c)
           s4 == FirstAssignment(s3, c, prev)
<1>1. Frame(K, L, Q) /\ Frame(K, {}, Q)
  BY DEF Frame, Typed
<1>2. \A p \in {prev, next} : p \in listed /\ ContOf[p] \in K => ContOf[p] \in L
  BY DEF Here
<1>3. high \in {prev, next} /\ low \in {prev, next}
  OBVIOUS
<1>4. Kept(state, state, K, L, {c}, c, Q)
  <2>1. \A q \in Q : ContOf[q] \in K /\ state.naff[q] => state.assigned[q] = c
    <3> SUFFICES ASSUME NEW q \in Q, ContOf[q] \in K PROVE state.assigned[q] = c
      BY Zenon
    <3>1. q \in listed /\ Whole(state, ContOf[q], c)
      BY DEF Here
    <3> QED  BY <3>1 DEF Whole, ListedOf
  <2>2. AsOne(state, state)
    BY DEF AsOne
  <2> HIDE DEF Q
  <2> QED  BY <2>1, <2>2 DEF Kept, Typed, Wholes
<1>5. ASSUME NEW s, Kept(s, state, K, L, {c}, c, Q), NEW p \in {prev, next}
      PROVE  Kept(Seen(s, c, p), state, K, L, {c}, c, Q)
  <2>1. CASE p \in listed
    <3>1. Seen(s, c, p) = Arrive(s, c, p) /\ (ContOf[p] \in K => ContOf[p] \in L)
      BY <1>2, <2>1 DEF Seen
    <3> HIDE DEF L, Q
    <3> QED  BY <1>1, <1>5, <2>1, <3>1, ArriveKept
  <2>2. CASE p \notin listed
    BY <1>5, <2>2 DEF Seen
  <2> QED  BY <2>1, <2>2
<1> HIDE DEF L, Q, high, low
<1>6. Kept(s1, state, K, L, {c}, c, Q)
  BY <1>3, <1>4, <1>5
<1> HIDE DEF s1
<1>7. Kept(s2, state, K, L, {c}, c, Q)
  BY <1>3, <1>5, <1>6
<1> HIDE DEF s2
<1>8. Kept(s2, state, K, {}, {c}, c, Q)
  BY <1>7 DEF Kept
<1>9. Kept(s3, state, K, {}, {c} \ {c}, c, Q)
  BY <1>1, <1>8, RelievedKept
<1> HIDE DEF s3
<1>10. Kept(s3, state, K, {}, {}, c, Q)
  <2>1. {c} \ {c} = {}
    OBVIOUS
  <2> QED  BY <1>9, <2>1
<1>11. Kept(s4, state, K, {}, {}, c, Q)
  <2>1. prev = 0 \/ prev \in Q
    BY DEF Q
  <2> QED  BY <1>1, <1>10, <2>1, FirstKept
<1> HIDE DEF s4
<1>12. Handled(c, prev, next) = s4
  <2>1. Handled(c, prev, next) =
          Once(Seen(state, c, high), LAMBDA x1 : Once(Seen(x1, c, low), LAMBDA x2 :
            Once(Relieved(x2, c), LAMBDA x3 : FirstAssignment(x3, c, prev))))
    BY Zenon DEF Handled, high, low
  <2>2. Once(Seen(state, c, high), LAMBDA x1 : Once(Seen(x1, c, low), LAMBDA x2 :
          Once(Relieved(x2, c), LAMBDA x3 : FirstAssignment(x3, c, prev))))
        = Once(Seen(s1, c, low), LAMBDA x2 :
            Once(Relieved(x2, c), LAMBDA x3 : FirstAssignment(x3, c, prev)))
    BY Zenon DEF Once, s1
  <2>3. Once(Seen(s1, c, low), LAMBDA x2 :
          Once(Relieved(x2, c), LAMBDA x3 : FirstAssignment(x3, c, prev)))
        = Once(Relieved(s2, c), LAMBDA x3 : FirstAssignment(x3, c, prev))
    BY Zenon DEF Once, s2
  <2>4. Once(Relieved(s2, c), LAMBDA x3 : FirstAssignment(x3, c, prev)) = s4
    BY Zenon DEF Once, s3, s4
  <2> QED  BY <2>1, <2>2, <2>3, <2>4
<1>13. ASSUME NEW near PROVE Kept(pickPidReallocCPU(s4, s4.assigned[prev], near), state, K, {}, {}, c, Q)
  BY <1>1, <1>11, PickKept
<1>14. \/ Becomes(s4)
       \/ \E near : Becomes(pickPidReallocCPU(s4, s4.assigned[prev], near))
  <2>1. \/ Becomes(s4)
        \/ /\ MayOverrun(s4, prev)
           /\ \E near \in DueBefore(prev) :
                \E x \in {pickPidReallocCPU(s4, s4.assigned[prev], near)} : Becomes(x)
    <3>1. \E s \in {Handled(c, prev, next)} :
           \/ Becomes(s)
           \/ /\ MayOverrun(s, prev)
              /\ \E near \in DueBefore(prev) :
                   \E x \in {pickPidReallocCPU(s, s.assigned[prev], near)} : Becomes(x)
      BY DEF pickPidInfoS
    <3> QED  BY <1>12, <3>1
  <2>2. CASE Becomes(s4)
    BY <2>2
  <2>3. CASE \E near \in DueBefore(prev) :
               \E x \in {pickPidReallocCPU(s4, s4.assigned[prev], near)} : Becomes(x)
    <3>1. PICK near \in DueBefore(prev) :
            \E x \in {pickPidReallocCPU(s4, s4.assigned[prev], near)} : Becomes(x)
      BY <2>3
    <3>2. Becomes(pickPidReallocCPU(s4, s4.assigned[prev], near))
      BY <3>1
    <3> QED  BY <3>2
  <2> QED  BY <2>1, <2>2, <2>3
<1> QED  BY <1>11, <1>13, <1>14 DEF Q

(* New estimates of p: they alone move nothing, and a move follows from a  *)
(* changed period only.                                                    *)
LEMMA SchedKept ==
  ASSUME Typed, NEW K \in SUBSET Containers, Wholes(state, K),
         NEW p \in Pids, manageSched(p)
  PROVE  \E s : /\ Becomes(s) /\ s \in State /\ Allowed(s) /\ Wholes(s, K) /\ AsOne(s, state)
                /\ s.est = est => s.assigned = assigned
<1>1. PICK new \in Estimates :
        \E s1 \in {IF Policy[p] = "DEADLINE" THEN state
                   ELSE [state EXCEPT !.est[p].period = new.period]} :
        \E s2 \in {IF Policy[p] # "DEADLINE" /\ Changed(est[p], new) /\ IsMain(s1.est, p)
                     THEN updateSiblings(s1, p) ELSE s1} :
          Becomes(IF new.runtime = 0 THEN s2
                  ELSE [s2 EXCEPT !.est[p].runtime = WCET(p, new.runtime)])
  BY DEF manageSched
<1> DEFINE s1 == IF Policy[p] = "DEADLINE" THEN state
                 ELSE [state EXCEPT !.est[p].period = new.period]
           s2 == IF Policy[p] # "DEADLINE" /\ Changed(est[p], new) /\ IsMain(s1.est, p)
                 THEN updateSiblings(s1, p) ELSE s1
           w == WCET(p, new.runtime)
           s3 == IF new.runtime = 0 THEN s2 ELSE [s2 EXCEPT !.est[p].runtime = w]
<1>2. Becomes(s3)
  BY <1>1
<1>3. new.period \in Nat /\ new.runtime \in Nat
  BY ReallocAssumption
<1>4. state \in State /\ Allowed(state) /\ listed \subseteq Pids /\ p \in listed
  BY DEF Typed, manageSched
<1>5. /\ s1 \in State /\ s1.assigned = assigned /\ s1.mask = mask
      /\ Policy[p] # "DEADLINE" => s1.est[p].period = new.period
  <2>1. CASE Policy[p] = "DEADLINE"
    <3>1. s1 = state
      BY <2>1
    <3> HIDE DEF s1
    <3> QED  BY <1>4, <2>1, <3>1 DEF state
  <2>2. CASE Policy[p] # "DEADLINE"
    <3> DEFINE e == [est EXCEPT ![p].period = new.period]
    <3>1. est \in [Pids -> Est]
      BY <1>4 DEF State, state
    <3>2. e \in [Pids -> Est] /\ e[p].period = new.period
      BY <1>3, <3>1 DEF Est
    <3>3. s1 = [state EXCEPT !.est = e]
      BY <2>2 DEF state
    <3> HIDE DEF s1, e
    <3>4. s1 \in State /\ s1.est = e /\ s1.assigned = state.assigned /\ s1.mask = state.mask
      BY <1>4, <3>2, <3>3 DEF State
    <3> QED  BY <2>2, <3>2, <3>4 DEF state
  <2> QED  BY <2>1, <2>2
<1> HIDE DEF s1
<1>6. Kept(s1, s1, K, {}, {}, 0, {})
  <2>1. Allowed(s1)
    BY <1>4, <1>5 DEF Allowed, state
  <2>2. \A k \in K : \E d \in Cpus : Whole(s1, k, d)
    BY <1>5 DEF Whole, Wholes, state
  <2>3. AsOne(s1, s1)
    BY DEF AsOne
  <2> QED  BY <1>5, <2>1, <2>2, <2>3 DEF Kept
<1>7. Kept(updateSiblings(s1, p), s1, K, {}, {}, 0, {})
  <2> DEFINE fit == checkPeriod_R(s1, p, FALSE)
             from == getTracer(s1.assigned[p])
             u == fit.s
             to == fit.to
  <2>1. updateSiblings(s1, p) = pidReallocAndTest(fit.s, fit.to, getTracer(s1.assigned[p]), p).s
    BY Zenon DEF updateSiblings, Once
  <2>2. Frame(K, {}, {})
    BY <1>4 DEF Frame
  <2>3. Fitted(fit, s1, s1, K, {}, {}, 0, {}, p)
    BY <1>6, <2>2, FitKept
  <2> HIDE DEF fit
  <2>4. /\ Kept(u, s1, K, {}, {}, 0, {}) /\ u.assigned = s1.assigned /\ to \in Cpus \cup {None}
        /\ to # None => s1.assigned[p] \in Cpus
    BY <2>3 DEF Fitted
  <2>5. from \in Cpus \cup {None} /\ (s1.assigned[p] \in Cpus => from = s1.assigned[p])
    BY DEF getTracer
  <2> HIDE DEF u, to, from
  <2>6. to # None => from \in Cpus /\ From(u, p, from, K, {})
    BY <2>4, <2>5 DEF From
  <2>7. Kept(pidReallocAndTest(u, to, from, p).s, s1, K, {}, {}, 0, {})
    BY <1>4, <2>2, <2>4, <2>5, <2>6, ReallocKept
  <2> QED  BY <2>1, <2>7 DEF u, to, from
<1>8. /\ Kept(s2, s1, K, {}, {}, 0, {})
      /\ s1.est[p].period = est[p].period => s2.assigned = assigned
  <2>1. CASE Policy[p] = "DEADLINE"
    <3>1. s2 = s1
      BY <2>1
    <3> HIDE DEF s2
    <3> QED  BY <1>5, <1>6, <3>1
  <2>2. CASE Policy[p] # "DEADLINE"
    <3>1. s1.est[p].period = est[p].period => ~Changed(est[p], new)
      BY <1>5, <2>2 DEF Changed
    <3>2. \/ s2 = s1
          \/ s2 = updateSiblings(s1, p) /\ Changed(est[p], new)
      BY Zenon
    <3> HIDE DEF s2
    <3> QED  BY <1>5, <1>6, <1>7, <3>1, <3>2
  <2> QED  BY <2>1, <2>2
<1> HIDE DEF s2
<1>9. w \in Nat
  <2>1. Config[p].runtime \in Nat
    BY ReallocAssumption
  <2>2. 2 * Config[p].runtime \in Nat
    BY <2>1
  <2> QED  BY <1>3, <2>2 DEF WCET
<1> HIDE DEF w
<1>10. s2 \in State /\ Allowed(s2) /\ s2.est = s1.est /\ Wholes(s2, K)
  BY <1>8 DEF Kept, Wholes
<1>11. /\ s3 \in State /\ s3.assigned = s2.assigned /\ s3.mask = s2.mask
       /\ s3.est[p].period = s2.est[p].period
  BY <1>9, <1>10 DEF State, Est
<1> HIDE DEF s3
<1>12. Allowed(s3) /\ Wholes(s3, K)
  BY <1>10, <1>11 DEF Allowed, Wholes, Whole
<1>13. s3.est = est => s3.assigned = assigned
  BY <1>8, <1>10, <1>11
<1>14. AsOne(s3, state)
  <2>1. AsOne(s2, s1)
    BY <1>8 DEF Kept
  <2>2. s1.mask = state.mask /\ s3.mask = s2.mask
    BY <1>5, <1>11 DEF state
  <2> QED  BY <2>1, <2>2 DEF AsOne, OneMask
<1> QED  BY <1>2, <1>11, <1>12, <1>13, <1>14

-----------------------------------------------------------------------------
LEMMA TypedFacts == TypeOK => Typed
  BY ReallocAssumption DEF TypeOK, Typed, State, Est, state, Allowed

LEMMA BecomesTyped ==
  ASSUME TypeOK, NEW s \in State, Allowed(s), Becomes(s), UNCHANGED <<listed, alive>>,
         late' \subseteq Pids
  PROVE  TypeOK'
BY DEF TypeOK, State, Est, Allowed, Becomes

LEMMA TypeInit == Init => TypeOK
<1> SUFFICES ASSUME Init PROVE TypeOK
  OBVIOUS
<1>1. Free(TRUE) \in Tracer
  BY TracerRec DEF Free
<1>2. est \in [Pids -> [period : Nat, runtime : Nat]]
  BY ReallocAssumption DEF Init
<1>3. /\ mask \in [Pids -> SUBSET Cpus] /\ assigned \in [Pids -> Int]
      /\ \A p \in Pids : assigned[p] \in Cpus \cup {-1, Affinity[p]} /\ mask[p] \subseteq Cpuset[p]
  BY ReallocAssumption DEF Init
<1> QED  BY <1>1, <1>2, <1>3 DEF Init, TypeOK

LEMMA NewPidFacts ==
  ASSUME TypeOK, NEW p \in Pids, NewPid(p)
  PROVE  \E e \in Est, a \in {Affinity[p], -1}, k \in SUBSET Cpus, n \in BOOLEAN :
           /\ est' = [est EXCEPT ![p] = e] /\ assigned' = [assigned EXCEPT ![p] = a]
           /\ mask' = [mask EXCEPT ![p] = k] /\ k \subseteq Cpuset[p]
           /\ naff' = [naff EXCEPT ![p] = n] /\ trc' = trc
<1> DEFINE fixed == Affinity[p] >= 0
           e == IF fixed \/ Policy[p] = "DEADLINE" THEN Config[p] ELSE [period |-> 0, runtime |-> 0]
           a == IF fixed THEN Affinity[p] ELSE -1
           s == [state EXCEPT !.est[p] = e, !.assigned[p] = a]
<1>1. e \in Est /\ a \in {Affinity[p], -1}
  BY ReallocAssumption DEF Est
<1>2. Becomes(IF fixed /\ Affinity[p] \in Cpuset[p] THEN SetAffinity(s, p) ELSE s)
  BY DEF NewPid
<1>3. /\ s.est = [est EXCEPT ![p] = e] /\ s.assigned = [assigned EXCEPT ![p] = a]
      /\ s.mask = mask /\ s.naff = naff /\ s.trc = trc
  BY DEF state
<1>4. CASE fixed /\ Affinity[p] \in Cpuset[p]
  <2>1. s.assigned[p] = Affinity[p] /\ {s.assigned[p]} \subseteq Cpuset[p] /\ {s.assigned[p]} \in SUBSET Cpus
    <3>1. a = Affinity[p] /\ Cpuset[p] \subseteq Cpus
      BY <1>4, ReallocAssumption
    <3> HIDE DEF s, a
    <3>2. s.assigned[p] = a
      BY <1>3 DEF TypeOK
    <3> QED  BY <1>4, <3>1, <3>2
  <2>2. Becomes(SetAffinity(s, p))
    BY <1>2, <1>4
  <2>3. LET r == SetAffinity(s, p)
        IN  /\ r.est = s.est /\ r.assigned = s.assigned /\ r.trc = s.trc
            /\ r.mask = [s.mask EXCEPT ![p] = {s.assigned[p]}] /\ r.naff = [s.naff EXCEPT ![p] = FALSE]
    BY DEF SetAffinity, state
  <2> HIDE DEF s, e, a
  <2>4. /\ est' = [est EXCEPT ![p] = e] /\ assigned' = [assigned EXCEPT ![p] = a] /\ trc' = trc
        /\ mask' = [mask EXCEPT ![p] = {s.assigned[p]}] /\ naff' = [naff EXCEPT ![p] = FALSE]
    BY <1>3, <2>2, <2>3 DEF Becomes
  <2> QED  BY <1>1, <2>1, <2>4
<1>5. CASE ~(fixed /\ Affinity[p] \in Cpuset[p])
  <2>1. Becomes(s)
    BY <1>2, <1>5
  <2> HIDE DEF s, e, a
  <2>2. /\ est' = [est EXCEPT ![p] = e] /\ assigned' = [assigned EXCEPT ![p] = a] /\ trc' = trc
        /\ mask' = mask /\ naff' = naff
    BY <1>3, <2>1 DEF Becomes
  <2>3. mask = [mask EXCEPT ![p] = mask[p]] /\ mask[p] \in SUBSET Cpus /\ mask[p] \subseteq Cpuset[p]
    BY DEF TypeOK
  <2>4. naff = [naff EXCEPT ![p] = naff[p]] /\ naff[p] \in BOOLEAN
    BY DEF TypeOK
  <2> QED  BY <1>1, <2>2, <2>3, <2>4
<1> QED  BY <1>4, <1>5

LEMMA TypeNext == TypeOK /\ [Next]_vars => TypeOK'
<1> SUFFICES ASSUME TypeOK, [Next]_vars PROVE TypeOK'
  OBVIOUS
<1>0. Typed
  BY TypedFacts
<1>1. ASSUME NEW c \in Cpus, NEW prev \in listed \cup {0}, NEW next \in listed \cup {0},
             pickPidInfoS(c, prev, next)
      PROVE  TypeOK'
  <2>1. Here(prev, c, {}) /\ Here(next, c, {})
    BY DEF Here
  <2>2. {} \in SUBSET Containers /\ Wholes(state, {})
    BY DEF Wholes
  <2>3. PICK s : Becomes(s) /\ Kept(s, state, {}, {}, {}, c, {prev} \ {0})
    BY <1>0, <1>1, <2>1, <2>2, EventKept
  <2>4. s \in State /\ Allowed(s) /\ UNCHANGED <<listed, alive>>
    BY <1>1, <2>3 DEF Kept, pickPidInfoS
  <2>5. late' \subseteq Pids
    BY <1>1 DEF pickPidInfoS, Left, TypeOK
  <2> QED  BY <2>3, <2>4, <2>5, BecomesTyped
<1>2. ASSUME NEW p \in Pids, manageSched(p) PROVE TypeOK'
  <2>1. {} \in SUBSET Containers /\ Wholes(state, {})
    BY DEF Wholes
  <2>2. PICK s : Becomes(s) /\ s \in State /\ Allowed(s)
    BY <1>0, <1>2, <2>1, SchedKept
  <2>3. UNCHANGED <<listed, alive>> /\ late' \subseteq Pids
    BY <1>2 DEF manageSched
  <2> QED  BY <2>2, <2>3, BecomesTyped
<1>3. ASSUME NEW p \in Pids, NewPid(p) PROVE TypeOK'
  <2>1. PICK e \in Est, a \in {Affinity[p], -1}, k \in SUBSET Cpus, n \in BOOLEAN :
          /\ est' = [est EXCEPT ![p] = e] /\ assigned' = [assigned EXCEPT ![p] = a]
          /\ mask' = [mask EXCEPT ![p] = k] /\ k \subseteq Cpuset[p]
          /\ naff' = [naff EXCEPT ![p] = n] /\ trc' = trc
    BY <1>3, NewPidFacts
  <2>2. est' \in [Pids -> [period : Nat, runtime : Nat]] /\ assigned' \in [Pids -> Int]
    BY <2>1, ReallocAssumption DEF TypeOK, Est
  <2>3. mask' \in [Pids -> SUBSET Cpus] /\ naff' \in [Pids -> BOOLEAN]
    BY <2>1 DEF TypeOK
  <2>4. ASSUME NEW q \in Pids
        PROVE  assigned'[q] \in Cpus \cup {-1, Affinity[q]} /\ mask'[q] \subseteq Cpuset[q]
    BY <2>1 DEF TypeOK
  <2>5. alive' \subseteq listed' /\ listed' \subseteq Pids /\ late' \subseteq Pids
    BY <1>3 DEF TypeOK, NewPid
  <2> QED  BY <2>1, <2>2, <2>3, <2>4, <2>5 DEF TypeOK
<1>4. ASSUME NEW p \in Pids, ProcExit(p) PROVE TypeOK'
  BY <1>4 DEF TypeOK, ProcExit
<1>5. ASSUME NEW p \in Pids, GonePid(p) PROVE TypeOK'
  <2>1. /\ est' = [est EXCEPT ![p] = Config[p]] /\ assigned' = [assigned EXCEPT ![p] = -1]
        /\ mask' = [mask EXCEPT ![p] = Cpuset[p]] /\ naff' = [naff EXCEPT ![p] = FALSE] /\ trc' = trc
    BY <1>5 DEF GonePid
  <2>2. Config[p] \in Est /\ Cpuset[p] \in SUBSET Cpus
    BY ReallocAssumption DEF Est
  <2>3. est' \in [Pids -> [period : Nat, runtime : Nat]] /\ assigned' \in [Pids -> Int]
    BY <2>1, <2>2 DEF TypeOK, Est
  <2>4. mask' \in [Pids -> SUBSET Cpus] /\ naff' \in [Pids -> BOOLEAN]
    BY <2>1, <2>2 DEF TypeOK
  <2>5. ASSUME NEW q \in Pids
        PROVE  assigned'[q] \in Cpus \cup {-1, Affinity[q]} /\ mask'[q] \subseteq Cpuset[q]
    BY <2>1 DEF TypeOK
  <2>6. alive' \subseteq listed' /\ listed' \subseteq Pids /\ late' \subseteq Pids
    BY <1>5 DEF TypeOK, GonePid
  <2> QED  BY <2>1, <2>3, <2>4, <2>5, <2>6 DEF TypeOK
<1>6. CASE UNCHANGED vars
  BY <1>6 DEF TypeOK, vars
<1> QED  BY <1>1, <1>2, <1>3, <1>4, <1>5, <1>6 DEF Next

(* For any tasks, CPUs and estimates the variables have their types: no    *)
(* chain of moves, undone or not, lets the kernel run a task on a CPU that *)
(* its CGroup excludes (pidReallocAndTest(), setPidAffinityAssinged()).    *)
THEOREM TypeCorrect == Spec => []TypeOK
BY TypeInit, TypeNext, PTL DEF Spec

-----------------------------------------------------------------------------
(* What a step means for the containers of K, all of them whole.           *)
LEMMA PinnedWhole ==
  ASSUME NEW k, NEW d
  PROVE  OnOneCPU(k, d) <=> Whole(state, k, d)
BY DEF OnOneCPU, Pinned, Whole, state

(* No event but a late one comes from elsewhere.                           *)
LEMMA OnTime ==
  ASSUME TypeOK, NEW K, Wholes(state, K), NEW c, NEW S \in SUBSET (listed \cup {0}),
         \A q \in Left(S, c) : ContOf[q] \notin K, NEW p \in S
  PROVE  Here(p, c, K)
<1> SUFFICES ASSUME p \in listed, ContOf[p] \in K PROVE Whole(state, ContOf[p], c)
  BY DEF Here
<1>1. p # 0
  BY ReallocAssumption DEF TypeOK
<1>2. c \in mask[p]
  BY <1>1 DEF Left
<1>3. PICK d \in Cpus : Whole(state, ContOf[p], d)
  BY DEF Wholes
<1>4. mask[p] = {d}
  BY <1>3 DEF Whole, ListedOf, state
<1> QED  BY <1>2, <1>3, <1>4

LEMMA EventWhole ==
  ASSUME TypeOK, NEW K \in SUBSET Containers, Wholes(state, K),
         NEW c \in Cpus, NEW prev \in listed \cup {0}, NEW next \in listed \cup {0},
         pickPidInfoS(c, prev, next), \A q \in late' : ContOf[q] \notin K
  PROVE  \E s : Becomes(s) /\ Kept(s, state, K, {}, {}, c, {prev} \ {0})
<1>1. late' = Left({prev, next}, c)
  BY DEF pickPidInfoS
<1>2. Here(prev, c, K) /\ Here(next, c, K)
  <2> DEFINE S == {prev, next}
  <2>1. S \in SUBSET (listed \cup {0}) /\ prev \in S /\ next \in S
    OBVIOUS
  <2>2. \A q \in Left(S, c) : ContOf[q] \notin K
    BY <1>1
  <2> HIDE DEF S
  <2> QED  BY <2>1, <2>2, OnTime
<1> QED  BY <1>2, EventKept, TypedFacts

(* A step and the kernel's side of a container, whatever the list says.    *)
LEMMA StaysAsOne ==
  ASSUME TypeOK, [Next]_vars, NEW k \in Containers, NEW c0 \in Cpus, KeptOn(k, c0), Movable(k)
  PROVE  \E d \in Cpus : \A p \in ListedOf(k) \cap listed' : mask'[p] = {d}
<1> DEFINE Goal == \E d \in Cpus : \A p \in ListedOf(k) \cap listed' : mask'[p] = {d}
<1>1. OneMask(state, k) /\ {} \in SUBSET Containers /\ Wholes(state, {})
  BY DEF OneMask, KeptOn, Wholes, state
<1>2. ASSUME NEW s, Becomes(s), AsOne(s, state) PROVE Goal
  <2>1. OneMask(s, k)
    BY <1>1, <1>2 DEF AsOne
  <2> QED  BY <1>2, <2>1 DEF OneMask, Becomes
<1>3. ASSUME \A p \in ListedOf(k) \cap listed' : mask'[p] = mask[p] PROVE Goal
  <2>1. \A p \in ListedOf(k) \cap listed' : mask'[p] = {c0}
    BY <1>3 DEF KeptOn
  <2> QED  BY <2>1
<1> HIDE DEF Goal
<1>4. ASSUME NEW c \in Cpus, NEW prev \in listed \cup {0}, NEW next \in listed \cup {0},
             pickPidInfoS(c, prev, next)
      PROVE  Goal
  <2>1. Here(prev, c, {}) /\ Here(next, c, {})
    BY DEF Here
  <2>2. PICK s : Becomes(s) /\ Kept(s, state, {}, {}, {}, c, {prev} \ {0})
    BY <1>1, <1>4, <2>1, EventKept, TypedFacts
  <2>3. AsOne(s, state)
    BY <2>2 DEF Kept
  <2> QED  BY <1>2, <2>2, <2>3
<1>5. ASSUME NEW p \in Pids, manageSched(p) PROVE Goal
  <2>1. PICK s : Becomes(s) /\ AsOne(s, state)
    BY <1>1, <1>5, SchedKept, TypedFacts
  <2> QED  BY <1>2, <2>1
<1>6. ASSUME NEW p \in Pids, NewPid(p) PROVE Goal
  <2>1. PICK m \in SUBSET Cpus : mask' = [mask EXCEPT ![p] = m]
    BY <1>6, NewPidFacts
  <2>2. p \notin listed
    BY <1>6 DEF NewPid
  <2>3. \A q \in listed : mask'[q] = mask[q]
    BY <2>1, <2>2 DEF TypeOK
  <2> QED  BY <1>3, <2>3 DEF ListedOf
<1>7. ASSUME NEW p \in Pids, ProcExit(p) PROVE Goal
  BY <1>3, <1>7 DEF ProcExit
<1>8. ASSUME NEW p \in Pids, GonePid(p) PROVE Goal
  <2>1. \A q \in listed : q # p => mask'[q] = mask[q]
    BY <1>8 DEF GonePid, TypeOK
  <2>2. p \notin listed'
    BY <1>8 DEF GonePid
  <2> QED  BY <1>3, <2>1, <2>2 DEF ListedOf
<1>9. ASSUME UNCHANGED vars PROVE Goal
  <2>1. mask' = mask
    BY <1>9 DEF vars
  <2> QED  BY <1>3, <2>1
<1>10. Goal
  <2>1. CASE UNCHANGED vars
    BY <1>9, <2>1
  <2>2. CASE \E c \in Cpus, prev, next \in listed \cup {0} : pickPidInfoS(c, prev, next)
    BY <1>4, <2>2
  <2>3. CASE \E p \in Pids : manageSched(p) \/ NewPid(p) \/ ProcExit(p) \/ GonePid(p)
    BY <1>5, <1>6, <1>7, <1>8, <2>3
  <2> QED  BY <2>1, <2>2, <2>3 DEF Next
<1> QED  BY <1>10 DEF Goal

LEMMA StaysTogether ==
  ASSUME TypeOK, [Next]_vars, NEW k \in Containers, NEW c0 \in Cpus, OnOneCPU(k, c0),
         \A p \in late' : ContOf[p] # k
  PROVE  \E d \in Cpus : \A p \in ListedOf(k) \cap listed' : Pinned(p, d)'
<1> DEFINE Goal == \E d \in Cpus : \A p \in ListedOf(k) \cap listed' : Pinned(p, d)'
           K == {k}
<1>1. K \in SUBSET Containers /\ Wholes(state, K)
  BY PinnedWhole DEF Wholes
<1>2. ASSUME NEW s, Becomes(s), Wholes(s, K) PROVE Goal
  <2>1. PICK d \in Cpus : Whole(s, k, d)
    BY <1>2 DEF Wholes
  <2>2. \A p \in ListedOf(k) : assigned'[p] = d /\ mask'[p] = {d}
    BY <1>2, <2>1 DEF Whole, Becomes
  <2> QED  BY <2>2 DEF Pinned
<1>3. ASSUME \A p \in ListedOf(k) \cap listed' : assigned'[p] = assigned[p] /\ mask'[p] = mask[p] PROVE Goal
  <2>1. \A p \in ListedOf(k) \cap listed' : assigned'[p] = c0 /\ mask'[p] = {c0}
    BY <1>3 DEF OnOneCPU, Pinned
  <2> QED  BY <2>1 DEF Pinned
<1> HIDE DEF Goal, K
<1>4. ASSUME NEW c \in Cpus, NEW prev \in listed \cup {0}, NEW next \in listed \cup {0},
             pickPidInfoS(c, prev, next)
      PROVE  Goal
  <2>0. \A q \in late' : ContOf[q] \notin K
    BY DEF K
  <2>1. PICK s : Becomes(s) /\ Kept(s, state, K, {}, {}, c, {prev} \ {0})
    BY <1>1, <1>4, <2>0, EventWhole
  <2>2. Wholes(s, K)
    BY <2>1 DEF Kept, Wholes
  <2> QED  BY <1>2, <2>1, <2>2
<1>5. ASSUME NEW p \in Pids, manageSched(p) PROVE Goal
  <2>1. PICK s : Becomes(s) /\ Wholes(s, K)
    BY <1>1, <1>5, SchedKept, TypedFacts
  <2> QED  BY <1>2, <2>1
<1>6. ASSUME NEW p \in Pids, NewPid(p) PROVE Goal
  <2>1. PICK e \in Est, a \in {Affinity[p], -1}, m \in SUBSET Cpus, n \in BOOLEAN :
          /\ est' = [est EXCEPT ![p] = e] /\ assigned' = [assigned EXCEPT ![p] = a]
          /\ mask' = [mask EXCEPT ![p] = m] /\ m \subseteq Cpuset[p]
          /\ naff' = [naff EXCEPT ![p] = n] /\ trc' = trc
    BY <1>6, NewPidFacts
  <2>2. p \notin listed
    BY <1>6 DEF NewPid
  <2>3. \A q \in listed : assigned'[q] = assigned[q] /\ mask'[q] = mask[q]
    BY <2>1, <2>2 DEF TypeOK
  <2> QED  BY <1>3, <2>3 DEF ListedOf
<1>7. ASSUME NEW p \in Pids, ProcExit(p) PROVE Goal
  BY <1>3, <1>7 DEF ProcExit
<1>8. ASSUME NEW p \in Pids, GonePid(p) PROVE Goal
  <2>1. \A q \in listed : q # p => assigned'[q] = assigned[q] /\ mask'[q] = mask[q]
    BY <1>8 DEF GonePid, TypeOK
  <2>2. p \notin listed'
    BY <1>8 DEF GonePid
  <2> QED  BY <1>3, <2>1, <2>2 DEF ListedOf
<1>9. ASSUME UNCHANGED vars PROVE Goal
  <2>1. assigned' = assigned /\ mask' = mask
    BY <1>9 DEF vars
  <2> QED  BY <1>3, <2>1
<1>10. Goal
  <2>1. CASE UNCHANGED vars
    BY <1>9, <2>1
  <2>2. CASE \E c \in Cpus, prev, next \in listed \cup {0} : pickPidInfoS(c, prev, next)
    BY <1>4, <2>2
  <2>3. CASE \E p \in Pids : manageSched(p) \/ NewPid(p) \/ ProcExit(p) \/ GonePid(p)
    BY <1>5, <1>6, <1>7, <1>8, <2>3
  <2> QED  BY <2>1, <2>2, <2>3 DEF Next
<1> QED  BY <1>10 DEF Goal

LEMMA StaysTraced ==
  ASSUME TypeOK, [Next]_vars, listed' = listed, est' = est, Settled,
         \A p \in late' : ContOf[p] = NoCont, NEW c0 \in Cpus, On(c0) # On(c0)'
  PROVE  trc'[c0] = Load(state', c0, {}).res
<1>1. Wholes(state, Containers) /\ Containers \in SUBSET Containers
  BY PinnedWhole DEF Wholes, Settled
<1>2. ASSUME assigned' = assigned PROVE FALSE
  BY <1>2 DEF On
<1>3. ASSUME NEW c \in Cpus, NEW prev \in listed \cup {0}, NEW next \in listed \cup {0},
             pickPidInfoS(c, prev, next)
      PROVE  trc'[c0] = Load(state', c0, {}).res
  <2>0. \A q \in late' : ContOf[q] \notin Containers
    BY ReallocAssumption
  <2>1. PICK s : Becomes(s) /\ Kept(s, state, Containers, {}, {}, c, {prev} \ {0})
    BY <1>1, <1>3, <2>0, EventWhole
  <2>2. At(s, c0) = At(state, c0) \/ s.trc[c0] = Load(s, c0, {}).res
    BY <2>1 DEF Kept
  <2>3. At(s, c0) = On(c0)' /\ At(state, c0) = On(c0)
    BY <2>1 DEF At, On, Becomes, state
  <2>4. state' = s
    <3>1. s = [est |-> s.est, assigned |-> s.assigned, mask |-> s.mask, naff |-> s.naff, trc |-> s.trc]
      BY <2>1 DEF Kept, State
    <3> QED  BY <2>1, <3>1 DEF Becomes, state
  <2> QED  BY <2>1, <2>2, <2>3, <2>4 DEF Becomes
<1>4. ASSUME NEW p \in Pids, manageSched(p) PROVE FALSE
  <2>1. PICK s : Becomes(s) /\ (s.est = est => s.assigned = assigned)
    BY <1>1, <1>4, SchedKept, TypedFacts
  <2> QED  BY <1>2, <2>1 DEF Becomes
<1>5. ASSUME NEW p \in Pids, NewPid(p) PROVE FALSE
  <2>1. p \notin listed /\ listed' = listed \cup {p}
    BY <1>5 DEF NewPid
  <2> QED  BY <2>1
<1>6. ASSUME NEW p \in Pids, ProcExit(p) PROVE FALSE
  <2>1. assigned' = assigned
    BY <1>6 DEF ProcExit
  <2> QED  BY <1>2, <2>1
<1>7. ASSUME NEW p \in Pids, GonePid(p) PROVE FALSE
  <2>1. p \in listed /\ listed' = listed \ {p}
    BY <1>7 DEF GonePid
  <2> QED  BY <2>1
<1>8. CASE UNCHANGED vars
  BY <1>2, <1>8 DEF vars
<1> QED  BY <1>3, <1>4, <1>5, <1>6, <1>7, <1>8 DEF Next

(* For any tasks, containers, CPUs and estimates, and trace events that    *)
(* come late or not: a container that the kernel keeps on one CPU is moved *)
(* as a whole, if its processes live and may run anywhere; and if it is    *)
(* pinned in the list as well, list and kernel go on to agree on the CPU   *)
(* of each of its processes, however many end and however many moves fail  *)
(* half way (pidReallocAndTest()), in every step but the one that takes a  *)
(* late event of such a process.                                           *)
THEOREM TogetherAlways == Spec => Together
<1>1. TypeOK /\ [Next]_vars =>
        [\A k \in Containers, c \in Cpus :
           /\ KeptOn(k, c) /\ Movable(k) =>
                \E d \in Cpus : \A p \in ListedOf(k) \cap listed' : mask'[p] = {d}
           /\ OnOneCPU(k, c) /\ (\A p \in late' : ContOf[p] # k) =>
                \E d \in Cpus : \A p \in ListedOf(k) \cap listed' : Pinned(p, d)']_vars
  BY StaysTogether, StaysAsOne
<1> QED  BY <1>1, TypeCorrect, PTL DEF Spec, Together

(* For any tasks, containers, CPUs and estimates: while every container is *)
(* pinned as a whole, a CPU whose tasks change in a step has, when the     *)
(* step is over, the bookings of the tasks it then has, whatever the       *)
(* handler recomputed, moved and gave up on the way (pickPidInfoS(),       *)
(* pickPidReallocCPU(), manageSched()).  The exception is a late event of  *)
(* a task of a container, which parts the container in the list.           *)
THEOREM TracedAlways == Spec => Traced
<1>1. TypeOK /\ [Next]_vars =>
        [listed' = listed /\ est' = est /\ Settled /\ (\A p \in late' : ContOf[p] = NoCont) =>
           \A c \in Cpus : On(c) # On(c)' => trc'[c] = Load(state', c, {}).res]_vars
  BY StaysTraced
<1> QED  BY <1>1, TypeCorrect, PTL DEF Spec, Traced
=============================================================================
