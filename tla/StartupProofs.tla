--------------------------- MODULE StartupProofs ---------------------------
(***************************************************************************)
(* Proofs about Startup, for any number of CPUs, threads on a core and     *)
(* containers, any options and file, and any failures: the types; the      *)
(* policy, the priority and the detection the threads start with go        *)
(* together; and what the preparation is for, CPUs for real-time tasks     *)
(* that are alone on their cores, without interrupts, and divided from the *)
(* system's by the CPU sets.                                               *)
(*                                                                         *)
(* First come facts about the operators of Options and Kernel, then one    *)
(* inductive invariant for each: TypeInv, PolicyInv, IsoInv, IrqInv, and   *)
(* BeforeInv with DivInv.                                                  *)
(***************************************************************************)
EXTENDS Startup, FiniteSetTheorems, TLAPS

-----------------------------------------------------------------------------
(* Sets of CPUs. *)

LEMMA HasLeast ==
  ASSUME NEW T \in SUBSET Nat, T # {}
  PROVE  \E x \in T : \A y \in T : x <= y
<1> DEFINE R == {r \in Nat \X Nat : r[1] < r[2]}
<1>1. R = OpToRel(<, Nat)
  BY DEF OpToRel
<1>2. IsWellFoundedOn(R, Nat)
  BY <1>1, NatLessThanWellFounded
<1>3. PICK x \in T : \A y \in T : ~(<<y, x>> \in R)
  <2> HIDE DEF R
  <2> QED  BY <1>2, WFMin
<1>4. ASSUME NEW y \in T PROVE x <= y
  <2>1. x \in Nat /\ y \in Nat /\ ~(<<y, x>> \in R)
    BY <1>3
  <2>2. ~(y < x)
    BY <2>1
  <2> QED  BY <2>1, <2>2
<1> QED  BY <1>4

LEMMA CPUsFinite ==
  /\ CPUs \subseteq Nat /\ IsFiniteSet(CPUs) /\ 0 \in CPUs
  /\ \A S \in SUBSET CPUs : IsFiniteSet(S) /\ Cardinality(S) \in Nat
<1>1. IsFiniteSet(CPUs)
  BY KernelAssumption, FS_Interval DEF CPUs
<1>2. ASSUME NEW S \in SUBSET CPUs PROVE IsFiniteSet(S) /\ Cardinality(S) \in Nat
  BY <1>1, FS_Subset, FS_CardinalityType
<1> QED  BY <1>1, <1>2, KernelAssumption DEF CPUs

LEMMA MinIn ==
  ASSUME NEW S \in SUBSET CPUs, S # {}
  PROVE  Min(S) \in S
<1>1. \E x \in S : \A y \in S : x <= y
  BY HasLeast, CPUsFinite
<1> QED  BY <1>1, Zenon DEF Min

LEMMA HasMost ==
  ASSUME NEW S \in SUBSET CPUs, S # {}
  PROVE  \E z \in S : \A y \in S : z >= y
<1> DEFINE T == {N - c : c \in S}
<1>1. T \in SUBSET Nat /\ T # {}
  BY KernelAssumption DEF CPUs
<1>2. PICK x \in T : \A y \in T : x <= y
  <2> HIDE DEF T
  <2> QED  BY <1>1, HasLeast
<1>3. PICK m \in S : x = N - m
  OBVIOUS
<1>4. ASSUME NEW y \in S PROVE m >= y
  <2>1. N - y \in T
    OBVIOUS
  <2>2. N - m <= N - y
    BY <1>2, <1>3, <2>1
  <2> QED  BY <2>2, KernelAssumption DEF CPUs
<1>5. \E z \in S : \A y \in S : z >= y
  BY <1>4
<1> QED  BY <1>5

LEMMA MaxIn ==
  ASSUME NEW S \in SUBSET CPUs, S # {}
  PROVE  Max(S) \in S
<1>1. \E z \in S : \A y \in S : z >= y
  BY HasMost
<1> QED  BY <1>1, Zenon DEF Max

(* parse_bitmask() writes a list that means the mask: every CPU of it lies *)
(* in a range that can not be longer.                                      *)
LEMMA ListMeansMask == ASSUME NEW m \in SUBSET CPUs PROVE CPUList(m) = m
<1>1. CPUList(m) = Listed(ParseBitmask(m))
  BY Zenon DEF CPUList, Once
<1>2. Listed(ParseBitmask(m)) \subseteq m
  BY DEF Listed, ParseBitmask
<1>3. ASSUME NEW c \in m PROVE c \in Listed(ParseBitmask(m))
  <2>1. c \in CPUs /\ c \in Nat /\ N \in Nat
    BY KernelAssumption DEF CPUs
  <2>2. PICK a \in {x \in CPUs : x <= c /\ x .. c \subseteq m} :
               \A y \in {x \in CPUs : x <= c /\ x .. c \subseteq m} : a <= y
    <3> DEFINE T == {x \in CPUs : x <= c /\ x .. c \subseteq m}
    <3>1. c .. c = {c}
      BY <2>1
    <3>2. T \in SUBSET Nat
      BY CPUsFinite
    <3>3. c \in T
      BY <2>1, <3>1
    <3> HIDE DEF T
    <3>4. \E x \in T : \A y \in T : x <= y
      BY <3>2, <3>3, HasLeast
    <3> QED  BY <3>4 DEF T
  <2>3. PICK b \in {x \in CPUs : c <= x /\ c .. x \subseteq m} :
               \A y \in {x \in CPUs : c <= x /\ c .. x \subseteq m} : b >= y
    <3> DEFINE T == {x \in CPUs : c <= x /\ c .. x \subseteq m}
    <3>1. c .. c = {c}
      BY <2>1
    <3>2. T \in SUBSET CPUs /\ c \in T
      BY <2>1, <3>1
    <3> HIDE DEF T
    <3>3. \E x \in T : \A y \in T : x >= y
      BY <3>2, HasMost
    <3> QED  BY <3>3 DEF T
  <2>4. a .. b \subseteq m /\ a <= b /\ c \in a .. b
    <3>1. a \in Int /\ b \in Int /\ a <= c /\ c <= b /\ a .. c \subseteq m /\ c .. b \subseteq m
      BY <2>2, <2>3 DEF CPUs
    <3> QED  BY <2>1, <3>1
  <2>5. a - 1 \notin m
    <3> SUFFICES ASSUME a - 1 \in m PROVE FALSE
      OBVIOUS
    <3>1. a - 1 \in CPUs /\ a - 1 <= c /\ a \in Int
      BY <2>2 DEF CPUs
    <3>2. (a - 1) .. c \subseteq m
      BY <2>1, <2>2, <3>1
    <3>3. a <= a - 1
      BY <2>2, <3>1, <3>2
    <3> QED  BY <3>1, <3>3
  <2>6. b + 1 \notin m
    <3> SUFFICES ASSUME b + 1 \in m PROVE FALSE
      OBVIOUS
    <3>1. b + 1 \in CPUs /\ c <= b + 1 /\ b \in Int
      BY <2>1, <2>3 DEF CPUs
    <3>2. c .. (b + 1) \subseteq m
      BY <2>1, <2>3, <3>1
    <3>3. b >= b + 1
      BY <2>3, <3>1, <3>2
    <3> QED  BY <3>1, <3>3
  <2>7. <<a, b>> \in ParseBitmask(m)
    BY <2>2, <2>3, <2>4, <2>5, <2>6 DEF ParseBitmask
  <2> QED  BY <2>4, <2>7 DEF Listed
<1> QED  BY <1>1, <1>2, <1>3

-----------------------------------------------------------------------------
(* Writes to the kernel keep its types and its rules.                      *)

LEMMA OtherFiles ==
  ASSUME NEW q \in Kernels, NEW r \in KernelFiles, r.online = q.online, r.irq = q.irq, r.grp = q.grp
  PROVE  r \in Kernels
BY DEF Kernels, CPUSetRules, Above, Apart, Peers

LEMMA ZeroOnline ==
  ASSUME NEW q \in Kernels
  PROVE  q \in KernelFiles /\ q.online \in SUBSET CPUs /\ 0 \in q.online /\ q.irq \subseteq q.online
BY DEF Kernels, KernelFiles, CPUSetRules

LEMMA OfflineFacts ==
  ASSUME NEW q \in Kernels, NEW S \in SUBSET CPUs, 0 \notin S, NEW r, r = Offline(q, S)
  PROVE  /\ r \in Kernels
         /\ r.online = q.online \ S /\ r.irq \cap S = {}
         /\ r.core = q.core /\ r.smt = q.smt /\ r.busy = q.busy
         /\ \A g \in Groups : /\ r.grp[g].here = q.grp[g].here /\ r.grp[g].excl = q.grp[g].excl
                              /\ r.grp[g].cpus \subseteq q.grp[g].cpus
<1> DEFINE gone == S \cap q.online
           rest == q.online \ S
           irq  == (q.irq \ gone) \cup (IF gone \cap q.irq = {} THEN {} ELSE {Max(rest)})
           grp  == [g \in Groups |-> [q.grp[g] EXCEPT !.cpus = q.grp[g].cpus \ gone]]
<1>0. q \in KernelFiles /\ CPUSetRules(q)
  BY DEF Kernels
<1>1. Max(rest) \in rest /\ rest \in SUBSET CPUs
  BY MaxIn, ZeroOnline
<1>2. r = [q EXCEPT !.online = rest, !.irq = irq, !.grp = grp]
  BY DEF Offline
<1>3. /\ irq \in SUBSET CPUs /\ irq \subseteq rest
  BY <1>1, ZeroOnline
<1>4. \A g \in Groups : /\ q.grp[g] \in [here : BOOLEAN, cpus : SUBSET CPUs, excl : BOOLEAN]
                        /\ grp[g] = [q.grp[g] EXCEPT !.cpus = q.grp[g].cpus \ gone]
  BY <1>0 DEF KernelFiles
<1>5. \A g \in Groups : /\ grp[g] \in [here : BOOLEAN, cpus : SUBSET CPUs, excl : BOOLEAN]
                        /\ grp[g].here = q.grp[g].here /\ grp[g].excl = q.grp[g].excl
                        /\ grp[g].cpus = q.grp[g].cpus \ gone
  BY <1>4
<1>6. grp \in [Groups -> [here : BOOLEAN, cpus : SUBSET CPUs, excl : BOOLEAN]]
  BY <1>5
<1> HIDE DEF irq, grp
<1>7. r \in KernelFiles /\ r.online = rest /\ r.irq = irq /\ r.grp = grp
      /\ r.core = q.core /\ r.smt = q.smt /\ r.busy = q.busy
  BY <1>0, <1>1, <1>2, <1>3, <1>6 DEF KernelFiles
<1>8. CPUSetRules(r)
  <2>1. 0 \in r.online /\ r.irq \subseteq r.online
    BY <1>3, <1>7, ZeroOnline
  <2>2. \A c \in Containers : r.grp[c].here => r.grp["docker"].here
    BY <1>0, <1>5, <1>7 DEF CPUSetRules, Groups
  <2>3. ASSUME NEW g \in Groups, r.grp[g].here
        PROVE  /\ r.grp[g].cpus \subseteq Above(r, g)
               /\ Apart(r, g, r.grp[g].cpus, r.grp[g].excl)
               /\ g \in Containers /\ r.grp[g].excl => r.grp["docker"].excl
    <3>1. /\ q.grp[g].cpus \subseteq Above(q, g)
          /\ Apart(q, g, q.grp[g].cpus, q.grp[g].excl)
          /\ g \in Containers /\ q.grp[g].excl => q.grp["docker"].excl
      BY <2>3, <1>0, <1>5, <1>7 DEF CPUSetRules
    <3>2. r.grp[g].cpus \subseteq Above(r, g)
      BY <3>1, <1>5, <1>7 DEF Above, Groups
    <3>3. Apart(r, g, r.grp[g].cpus, r.grp[g].excl)
      BY <3>1, <1>5, <1>7 DEF Apart, Peers
    <3> QED  BY <3>1, <3>2, <3>3, <1>5, <1>7 DEF Groups
  <2> QED  BY <2>1, <2>2, <2>3 DEF CPUSetRules
<1>9. r.irq \cap S = {}
  BY <1>3, <1>7
<1> QED  BY <1>5, <1>7, <1>8, <1>9 DEF Kernels

LEMMA OnlineFacts ==
  ASSUME NEW q \in Kernels, NEW S \in SUBSET CPUs, NEW r, r = Online(q, S)
  PROVE  /\ r \in Kernels
         /\ r.online = q.online \cup S /\ r.irq = q.irq
         /\ r.core = q.core /\ r.smt = q.smt /\ r.busy = q.busy /\ r.grp = q.grp
<1>0. q \in KernelFiles /\ CPUSetRules(q)
  BY DEF Kernels
<1>1. r = [q EXCEPT !.online = q.online \cup S]
  BY <1>0 DEF Online
<1>2. /\ r \in KernelFiles /\ r.online = q.online \cup S /\ r.irq = q.irq
      /\ r.core = q.core /\ r.smt = q.smt /\ r.busy = q.busy /\ r.grp = q.grp
  BY <1>0, <1>1 DEF KernelFiles
<1>3. CPUSetRules(r)
  BY <1>0, <1>2 DEF CPUSetRules, Above, Apart, Peers
<1> QED  BY <1>2, <1>3 DEF Kernels

LEMMA SMTOnFacts ==
  ASSUME NEW q \in Kernels, NEW r, r = SMTOn(q)
  PROVE  /\ r \in Kernels /\ r.smt = "on"
         /\ r.irq = q.irq /\ r.core = q.core /\ r.busy = q.busy /\ r.grp = q.grp
<1>1. CASE q.smt = "on"
  BY <1>1 DEF SMTOn
<1>2. CASE q.smt # "on"
  <2> DEFINE on == q.online \cup Secondary(q)
  <2>0. q \in KernelFiles /\ CPUSetRules(q)
    BY DEF Kernels
  <2>1. r = [q EXCEPT !.smt = "on", !.online = on]
    BY <1>2 DEF SMTOn
  <2>2. on \in SUBSET CPUs
    BY ZeroOnline DEF Secondary
  <2>3. q.online \subseteq on
    OBVIOUS
  <2> HIDE DEF on
  <2>4. /\ r \in KernelFiles /\ r.smt = "on" /\ r.online = on /\ r.irq = q.irq
        /\ r.core = q.core /\ r.busy = q.busy /\ r.grp = q.grp
    BY <2>0, <2>1, <2>2 DEF KernelFiles
  <2>5. CPUSetRules(r)
    BY <2>0, <2>3, <2>4 DEF CPUSetRules, Above, Apart, Peers
  <2> QED  BY <2>4, <2>5 DEF Kernels
<1> QED  BY <1>1, <1>2

LEMMA SMTOffFacts ==
  ASSUME NEW q \in Kernels, NEW r, r = SMTOff(q)
  PROVE  /\ r \in Kernels /\ r.smt = "off"
         /\ r.online = q.online \ Secondary(q)
         /\ r.core = q.core /\ r.busy = q.busy /\ Split(r)
         /\ \A g \in Groups : /\ r.grp[g].here = q.grp[g].here /\ r.grp[g].excl = q.grp[g].excl
                              /\ r.grp[g].cpus \subseteq q.grp[g].cpus
<1> DEFINE p == [q EXCEPT !.smt = "off"]
<1>0. q \in KernelFiles
  BY DEF Kernels
<1>1. p \in KernelFiles /\ p.online = q.online /\ p.irq = q.irq /\ p.grp = q.grp
      /\ p.core = q.core /\ p.busy = q.busy /\ p.smt = "off"
  BY <1>0 DEF KernelFiles
<1> HIDE DEF p
<1>2. p \in Kernels
  BY <1>1, OtherFiles
<1>3. Secondary(q) \in SUBSET CPUs /\ 0 \notin Secondary(q)
  <2>1. ~(\E d \in CPUs : d < 0)
    BY DEF CPUs
  <2> QED  BY <2>1 DEF Secondary
<1>4. r = Offline(p, Secondary(q))
  BY DEF SMTOff, p
<1>5. /\ r \in Kernels /\ r.online = p.online \ Secondary(q)
      /\ r.core = p.core /\ r.smt = p.smt /\ r.busy = p.busy
      /\ \A g \in Groups : /\ r.grp[g].here = p.grp[g].here /\ r.grp[g].excl = p.grp[g].excl
                           /\ r.grp[g].cpus \subseteq p.grp[g].cpus
  BY <1>2, <1>3, <1>4, OfflineFacts
<1>6. Split(r)
  <2> SUFFICES ASSUME NEW c \in r.online, NEW j \in r.online \ {c}, r.core[j] = r.core[c] PROVE FALSE
    BY DEF Split, Siblings
  <2>1. c \in CPUs /\ j \in CPUs /\ c \notin Secondary(q) /\ j \notin Secondary(q)
    BY <1>1, <1>5, ZeroOnline
  <2>2. ~(j < c) /\ ~(c < j)
    BY <2>1, <1>1, <1>5 DEF Secondary
  <2> QED  BY <2>1, <2>2 DEF CPUs
<1> QED  BY <1>1, <1>5, <1>6

-----------------------------------------------------------------------------
(* CPU sets. *)

GroupFiles == [here : BOOLEAN, cpus : SUBSET CPUs, excl : BOOLEAN]

(* What a write to CPU sets leaves alone. *)
OnlyGroups(r, q) == /\ r.online = q.online /\ r.irq = q.irq /\ r.core = q.core /\ r.smt = q.smt
                    /\ r.busy = q.busy /\ r.moved = q.moved

(* The rules for one set, with the sets beside, above and below it. *)
SetFits(q, g, f) ==
  /\ f.here /\ (g \in Containers => q.grp["docker"].here)
  /\ f.cpus \subseteq Above(q, g)
  /\ \A c \in Children(q, g) : q.grp[c].cpus \subseteq f.cpus
  /\ Apart(q, g, f.cpus, f.excl)
  /\ g \in Containers /\ f.excl => q.grp["docker"].excl
  /\ ~f.excl => \A c \in Children(q, g) : ~q.grp[c].excl

WithSet(q, g, f) == [q EXCEPT !.grp = [q.grp EXCEPT ![g] = f]]

LEMMA SetChanged ==
  ASSUME NEW q \in Kernels, NEW g \in Groups, NEW f \in GroupFiles, NEW r,
         r = WithSet(q, g, f), SetFits(q, g, f)
  PROVE  /\ r \in Kernels /\ OnlyGroups(r, q)
         /\ r.grp[g] = f /\ \A h \in Groups \ {g} : r.grp[h] = q.grp[h]
<1>0. q \in KernelFiles /\ CPUSetRules(q) /\ q.grp \in [Groups -> GroupFiles]
  BY DEF Kernels, KernelFiles, GroupFiles
<1> DEFINE grp == [q.grp EXCEPT ![g] = f]
<1>1. grp \in [Groups -> GroupFiles] /\ grp[g] = f /\ \A h \in Groups \ {g} : grp[h] = q.grp[h]
  BY <1>0
<1> HIDE DEF grp
<1>2. r = [q EXCEPT !.grp = grp]
  BY DEF grp, WithSet
<1>3. r \in KernelFiles /\ OnlyGroups(r, q) /\ r.grp = grp
  BY <1>0, <1>1, <1>2 DEF KernelFiles, OnlyGroups, GroupFiles
<1>4. r.grp[g] = f /\ \A h \in Groups \ {g} : r.grp[h] = q.grp[h]
  BY <1>1, <1>3
<1>5. "docker" \in Groups /\ "docker" \notin Containers /\ Containers \subseteq Groups
  BY KernelAssumption DEF Groups
<1>6. CPUSetRules(r)
  <2>1. 0 \in r.online /\ r.irq \subseteq r.online
    BY <1>0, <1>3 DEF CPUSetRules, OnlyGroups
  <2>2. ASSUME NEW c \in Containers, r.grp[c].here PROVE r.grp["docker"].here
    BY <2>2, <1>0, <1>4, <1>5 DEF CPUSetRules, SetFits
  <2>3. ASSUME NEW h \in Groups, r.grp[h].here
        PROVE  /\ r.grp[h].cpus \subseteq Above(r, h)
               /\ Apart(r, h, r.grp[h].cpus, r.grp[h].excl)
               /\ h \in Containers /\ r.grp[h].excl => r.grp["docker"].excl
    <3>1. CASE h = g
      <4>1. Above(r, h) = Above(q, g)
        BY <3>1, <1>3, <1>4, <1>5 DEF Above, OnlyGroups
      <4>2. Apart(r, g, f.cpus, f.excl)
        BY <1>4 DEF Apart, Peers, SetFits
      <4>3. g \in Containers => r.grp["docker"].excl = q.grp["docker"].excl
        BY <1>4, <1>5
      <4> QED  BY <3>1, <4>1, <4>2, <4>3, <1>4 DEF SetFits
    <3>2. CASE h # g
      <4>0. r.grp[h] = q.grp[h] /\ q.grp[h].here
        BY <2>3, <3>2, <1>4
      <4>1. /\ q.grp[h].cpus \subseteq Above(q, h)
            /\ Apart(q, h, q.grp[h].cpus, q.grp[h].excl)
            /\ h \in Containers /\ q.grp[h].excl => q.grp["docker"].excl
        BY <4>0, <1>0 DEF CPUSetRules
      <4>2. CASE g = "docker" /\ h \in Containers
        <5>1. h \in Children(q, g)
          BY <4>0, <4>2 DEF Children
        <5>2. r.grp[h].cpus \subseteq Above(r, h)
          BY <4>0, <4>2, <5>1, <1>4 DEF Above, SetFits
        <5>3. Apart(r, h, r.grp[h].cpus, r.grp[h].excl)
          BY <4>0, <4>1, <4>2, <1>4, <1>5 DEF Apart, Peers
        <5>4. r.grp[h].excl => r.grp["docker"].excl
          BY <4>0, <4>2, <5>1, <1>4, <1>0 DEF GroupFiles, SetFits
        <5> QED  BY <5>2, <5>3, <5>4
      <4>3. CASE ~(g = "docker" /\ h \in Containers)
        <5>0. h \in Containers => r.grp["docker"] = q.grp["docker"]
          BY <4>3, <1>4, <1>5
        <5>1. Above(r, h) = Above(q, h)
          BY <5>0, <1>3 DEF Above, OnlyGroups
        <5>2. Apart(r, h, r.grp[h].cpus, r.grp[h].excl)
          <6> SUFFICES ASSUME NEW e \in Peers(r, h), r.grp[h].excl \/ r.grp[e].excl
                       PROVE  r.grp[h].cpus \cap r.grp[e].cpus = {}
            BY DEF Apart
          <6>1. CASE e = g
            <7>1. h \in Peers(q, g)
              BY <6>1, <4>0, <3>2 DEF Peers
            <7> QED  BY <6>1, <7>1, <4>0, <1>4 DEF Apart, SetFits
          <6>2. CASE e # g
            <7>1. e \in Peers(q, h) /\ r.grp[e] = q.grp[e]
              BY <6>2, <1>4 DEF Peers
            <7> QED  BY <7>1, <4>0, <4>1 DEF Apart
          <6> QED  BY <6>1, <6>2
        <5> QED  BY <4>0, <4>1, <5>0, <5>1, <5>2
      <4> QED  BY <4>2, <4>3
    <3> QED  BY <3>1, <3>2
  <2> QED  BY <2>1, <2>2, <2>3 DEF CPUSetRules
<1> QED  BY <1>3, <1>4, <1>6 DEF Kernels

(* What became of one set. *)
Wrote(r, q, g) == /\ r \in Kernels /\ OnlyGroups(r, q)
                  /\ \A h \in Groups \ {g} : r.grp[h] = q.grp[h]

LEMMA SameWrote == ASSUME NEW q \in Kernels, NEW g PROVE Wrote(q, q, g)
BY DEF Wrote, OnlyGroups

LEMMA SetCpusFacts ==
  ASSUME NEW q \in Kernels, NEW g \in Groups, NEW cpus \in SUBSET CPUs, NEW r, r = SetCpus(q, g, cpus)
  PROVE  /\ Wrote(r, q, g) /\ r.grp[g].here = q.grp[g].here /\ r.grp[g].excl = q.grp[g].excl
         /\ r.grp[g].cpus \in {q.grp[g].cpus, cpus}
         /\ cpus # {} /\ CanSetCpus(q, g, cpus) => r.grp[g].cpus = cpus
<1>1. CASE cpus # {} /\ CanSetCpus(q, g, cpus)
  <2> DEFINE f == [q.grp[g] EXCEPT !.cpus = cpus]
  <2>0. CPUSetRules(q) /\ q \in KernelFiles /\ q.grp[g] \in GroupFiles
    BY DEF Kernels, KernelFiles, GroupFiles
  <2>1. /\ f \in GroupFiles /\ f.cpus = cpus
        /\ f.here = q.grp[g].here /\ f.excl = q.grp[g].excl
    BY <2>0 DEF GroupFiles
  <2>2. r = [q EXCEPT !.grp[g].cpus = cpus]
    BY <1>1 DEF SetCpus
  <2>3. r = WithSet(q, g, f)
    BY <2>2 DEF WithSet
  <2> HIDE DEF f
  <2>4. q.grp[g].here /\ (g \in Containers => q.grp["docker"].here)
    BY <1>1, <2>0 DEF CanSetCpus, CPUSetRules
  <2>5. g \in Containers /\ f.excl => q.grp["docker"].excl
    BY <2>0, <2>1, <2>4 DEF CPUSetRules
  <2>6. ~f.excl => \A c \in Children(q, g) : ~q.grp[c].excl
    BY <2>0, <2>1 DEF CPUSetRules, Children, Groups
  <2>7. /\ f.cpus \subseteq Above(q, g) /\ \A c \in Children(q, g) : q.grp[c].cpus \subseteq f.cpus
        /\ Apart(q, g, f.cpus, f.excl)
    BY <1>1, <2>1 DEF CanSetCpus
  <2>8. /\ r \in Kernels /\ OnlyGroups(r, q)
        /\ r.grp[g] = f /\ \A h \in Groups \ {g} : r.grp[h] = q.grp[h]
    <3>1. SetFits(q, g, f)
      BY <1>1, <2>1, <2>4, <2>5, <2>6, <2>7 DEF SetFits, CanSetCpus
    <3> QED  BY <2>1, <2>3, <3>1, SetChanged
  <2> QED  BY <2>1, <2>8 DEF Wrote
<1>2. CASE ~(cpus # {} /\ CanSetCpus(q, g, cpus))
  BY <1>2, SameWrote DEF SetCpus
<1> QED  BY <1>1, <1>2

LEMMA SetExclFacts ==
  ASSUME NEW q \in Kernels, NEW g \in Groups, NEW excl \in BOOLEAN, NEW r, r = SetExcl(q, g, excl)
  PROVE  /\ Wrote(r, q, g) /\ r.grp[g].here = q.grp[g].here /\ r.grp[g].cpus = q.grp[g].cpus
         /\ CanSetExcl(q, g, excl) => r.grp[g].excl = excl
<1>1. CASE CanSetExcl(q, g, excl)
  <2> DEFINE f == [q.grp[g] EXCEPT !.excl = excl]
  <2>0. CPUSetRules(q) /\ q \in KernelFiles /\ q.grp[g] \in GroupFiles
    BY DEF Kernels, KernelFiles, GroupFiles
  <2>1. /\ f \in GroupFiles /\ f.excl = excl
        /\ f.here = q.grp[g].here /\ f.cpus = q.grp[g].cpus
    BY <2>0 DEF GroupFiles
  <2>2. r = [q EXCEPT !.grp[g].excl = excl]
    BY <1>1 DEF SetExcl
  <2>3. r = WithSet(q, g, f)
    BY <2>2 DEF WithSet
  <2> HIDE DEF f
  <2>4. q.grp[g].here /\ (g \in Containers => q.grp["docker"].here)
    BY <1>1, <2>0 DEF CanSetExcl, CPUSetRules
  <2>5. g \in Containers /\ f.excl => q.grp["docker"].excl
    BY <1>1, <2>1 DEF CanSetExcl
  <2>6. ~f.excl => \A c \in Children(q, g) : ~q.grp[c].excl
    BY <1>1, <2>1 DEF CanSetExcl
  <2>7. f.cpus \subseteq Above(q, g)
    BY <2>0, <2>1, <2>4 DEF CPUSetRules
  <2>8. \A c \in Children(q, g) : q.grp[c].cpus \subseteq f.cpus
    BY <2>0, <2>1, KernelAssumption DEF CPUSetRules, Children, Groups, Above
  <2>9. Apart(q, g, f.cpus, f.excl)
    <3>1. CASE excl
      BY <3>1, <1>1, <2>1 DEF CanSetExcl, Apart
    <3>2. CASE ~excl
      BY <3>2, <2>0, <2>1, <2>4 DEF CPUSetRules, Apart
    <3> QED  BY <3>1, <3>2
  <2>10. /\ r \in Kernels /\ OnlyGroups(r, q)
         /\ r.grp[g] = f /\ \A h \in Groups \ {g} : r.grp[h] = q.grp[h]
    <3>1. SetFits(q, g, f)
      BY <1>1, <2>1, <2>4, <2>5, <2>6, <2>7, <2>8, <2>9 DEF SetFits, CanSetExcl
    <3> QED  BY <2>1, <2>3, <3>1, SetChanged
  <2> QED  BY <2>1, <2>10 DEF Wrote
<1>2. CASE ~CanSetExcl(q, g, excl)
  BY <1>2, SameWrote DEF SetExcl
<1> QED  BY <1>1, <1>2

LEMMA MakeGroupFacts ==
  ASSUME NEW q \in Kernels, NEW g \in Groups, CanMakeGroup(q, g), NEW r, r = MakeGroup(q, g)
  PROVE  /\ Wrote(r, q, g) /\ r.grp[g].here
         /\ q.grp[g].here => r = q
         /\ ~q.grp[g].here => r.grp[g].cpus = {} /\ ~r.grp[g].excl
<1>1. CASE q.grp[g].here
  BY <1>1, SameWrote DEF MakeGroup
<1>2. CASE ~q.grp[g].here
  <2> DEFINE f == [here |-> TRUE, cpus |-> {}, excl |-> FALSE]
  <2>0. CPUSetRules(q) /\ q \in KernelFiles
    BY DEF Kernels
  <2>1. f \in GroupFiles /\ f.here /\ f.cpus = {} /\ ~f.excl
    BY DEF GroupFiles
  <2>2. r = [q EXCEPT !.grp[g] = f]
    BY <1>2 DEF MakeGroup
  <2>3. r = WithSet(q, g, f)
    BY <2>2 DEF WithSet
  <2> HIDE DEF f
  <2>4. Children(q, g) = {}
    BY <1>2, <2>0 DEF Children, CPUSetRules
  <2>5. Apart(q, g, f.cpus, f.excl)
    BY <2>1 DEF Apart
  <2>6. /\ r \in Kernels /\ OnlyGroups(r, q)
        /\ r.grp[g] = f /\ \A h \in Groups \ {g} : r.grp[h] = q.grp[h]
    <3>1. SetFits(q, g, f)
      BY <2>1, <2>4, <2>5 DEF SetFits, CanMakeGroup
    <3> QED  BY <2>1, <2>3, <3>1, SetChanged
  <2> QED  BY <1>2, <2>1, <2>6 DEF Wrote
<1> QED  BY <1>1, <1>2

LEMMA FreedFacts ==
  ASSUME NEW q \in Kernels, NEW free \in SUBSET Containers, NEW r, r = Freed(q, free)
  PROVE  /\ r \in Kernels /\ OnlyGroups(r, q)
         /\ \A g \in Groups : r.grp[g].here = q.grp[g].here /\ r.grp[g].cpus = q.grp[g].cpus
         /\ \A g \in Groups \ free : r.grp[g] = q.grp[g]
         /\ \A g \in free : ~r.grp[g].excl
<1> DEFINE grp == [g \in Groups |-> IF g \in free THEN [q.grp[g] EXCEPT !.excl = FALSE] ELSE q.grp[g]]
<1>0. q \in KernelFiles /\ CPUSetRules(q) /\ \A g \in Groups : q.grp[g] \in GroupFiles
  BY DEF Kernels, KernelFiles, GroupFiles
<1>1. \A g \in Groups : grp[g] = IF g \in free THEN [q.grp[g] EXCEPT !.excl = FALSE] ELSE q.grp[g]
  OBVIOUS
<1>2. \A g \in Groups : /\ grp[g] \in GroupFiles
                        /\ grp[g].here = q.grp[g].here /\ grp[g].cpus = q.grp[g].cpus
                        /\ g \in free => ~grp[g].excl
                        /\ g \notin free => grp[g] = q.grp[g]
  BY <1>0, <1>1 DEF GroupFiles
<1>3. grp \in [Groups -> GroupFiles]
  BY <1>2
<1>4. r = [q EXCEPT !.grp = grp]
  BY DEF Freed
<1> HIDE DEF grp
<1>5. r \in KernelFiles /\ OnlyGroups(r, q) /\ r.grp = grp
  BY <1>0, <1>3, <1>4 DEF KernelFiles, OnlyGroups, GroupFiles
<1>6. "docker" \in Groups \ free /\ Containers \subseteq Groups
  BY KernelAssumption DEF Groups
<1>7. \A g \in Groups : r.grp[g].excl => q.grp[g].excl
  BY <1>2, <1>5
<1>8. CPUSetRules(r)
  <2>1. 0 \in r.online /\ r.irq \subseteq r.online
    BY <1>0, <1>5 DEF CPUSetRules, OnlyGroups
  <2>2. \A c \in Containers : r.grp[c].here => r.grp["docker"].here
    BY <1>0, <1>2, <1>5, <1>6 DEF CPUSetRules
  <2>3. ASSUME NEW g \in Groups, r.grp[g].here
        PROVE  /\ r.grp[g].cpus \subseteq Above(r, g)
               /\ Apart(r, g, r.grp[g].cpus, r.grp[g].excl)
               /\ g \in Containers /\ r.grp[g].excl => r.grp["docker"].excl
    <3>1. /\ q.grp[g].cpus \subseteq Above(q, g)
          /\ Apart(q, g, q.grp[g].cpus, q.grp[g].excl)
          /\ g \in Containers /\ q.grp[g].excl => q.grp["docker"].excl
      BY <2>3, <1>0, <1>2, <1>5 DEF CPUSetRules
    <3>2. r.grp[g].cpus \subseteq Above(r, g)
      BY <3>1, <1>2, <1>5, <1>6 DEF Above, OnlyGroups
    <3>3. Apart(r, g, r.grp[g].cpus, r.grp[g].excl)
      BY <3>1, <1>2, <1>5, <1>7 DEF Apart, Peers
    <3> QED  BY <3>1, <3>2, <3>3, <1>2, <1>5, <1>6, <1>7
  <2> QED  BY <2>1, <2>2, <2>3 DEF CPUSetRules
<1> QED  BY <1>2, <1>5, <1>6, <1>8 DEF Kernels

CpusWritten(r, q, g, cpus, bad) ==
  /\ Wrote(r, q, g) /\ r.grp[g].here = q.grp[g].here /\ r.grp[g].excl = q.grp[g].excl
  /\ r.grp[g].cpus \in {q.grp[g].cpus, cpus}
  /\ bad = {} /\ set.dryrun = {} /\ cpus # {} /\ CanSetCpus(q, g, cpus) => r.grp[g].cpus = cpus

LEMMA WriteCpusFacts ==
  ASSUME NEW q \in Kernels, NEW g \in Groups, NEW cpus \in SUBSET CPUs, NEW bad
  PROVE  CpusWritten(WriteCpus(q, g, cpus, bad), q, g, cpus, bad)
BY SetCpusFacts, SameWrote DEF WriteCpus, CpusWritten

ExclWritten(r, q, g, excl, bad) ==
  /\ Wrote(r, q, g) /\ r.grp[g].here = q.grp[g].here /\ r.grp[g].cpus = q.grp[g].cpus
  /\ bad = {} /\ set.dryrun = {} /\ CanSetExcl(q, g, excl) => r.grp[g].excl = excl

LEMMA WriteExclFacts ==
  ASSUME NEW q \in Kernels, NEW g \in Groups, NEW excl \in BOOLEAN, NEW bad
  PROVE  ExclWritten(WriteExcl(q, g, excl, bad), q, g, excl, bad)
BY SetExclFacts, SameWrote DEF WriteExcl, ExclWritten

(* Failures. *)
LEMMA FaultyFacts ==
  ASSUME NEW S, IsFiniteSet(S), NEW bad \in Faulty(S), faults \in 0 .. MaxFaults, Failing(bad)
  PROVE  /\ bad \in SUBSET S /\ faults' \in 0 .. MaxFaults
         /\ faults' = MaxFaults => bad = {} /\ faults = MaxFaults
<1>1. bad \in SUBSET S /\ Cardinality(bad) <= faults
  BY DEF Faulty
<1>2. IsFiniteSet(bad) /\ Cardinality(bad) \in Nat
  BY <1>1, FS_Subset, FS_CardinalityType
<1>3. Cardinality(bad) = 0 => bad = {}
  BY <1>2, FS_EmptySet
<1> QED  BY <1>1, <1>2, <1>3, StartupAssumption DEF Failing

-----------------------------------------------------------------------------
(* Types. *)

(* Steps from the checks on: the mask for real-time tasks is known. *)
Masked == Stages \ ({"options", "file", "affinity"} \cup {"failed", "help", "quit", "crashed"})

MaskTyped == set.affinity \in SUBSET CPUs /\ set.affinity_mask \in SUBSET CPUs

(* The inductive invariant. *)
TypeInv == TypeOK /\ (stage \in Masked => MaskTyped)

LEMMA TypeInit == ASSUME Init PROVE TypeInv
<1>1. Default \in Settings
  BY DEF Default, Settings, Policies, Detections
<1>2. stage \in Stages /\ stage \notin Masked
  BY DEF Init, Masked, Stages
<1>3. /\ k \in Kernels /\ earlier \in Kernels /\ conf \in Files \cup {NoFile} /\ faults \in 0 .. MaxFaults
      /\ 0 \in 0 .. MaxOptions /\ cpu \in 0 .. N
  BY StartupAssumption, KernelAssumption DEF Init
<1>4. error \in BOOLEAN
  BY Zenon DEF Init
<1>6. counted \in BOOLEAN
  BY Zenon DEF Init
<1>5. /\ todo \subseteq Containers /\ after \in {"again", "configured"}
      /\ cpuretry \in 0 .. 1 /\ naff \subseteq CPUs /\ options = 0 /\ set = Default
  BY DEF Init
<1> QED  BY <1>1, <1>2, <1>3, <1>4, <1>5, <1>6 DEF TypeInv, TypeOK

(* Options. *)
LEMMA GetoptTypes ==
  ASSUME TypeInv, NEW s \in Settings, Getopt(s) PROVE TypeInv'
<1>1. stage' = stage /\ stage \notin Masked /\ stage \in Stages
  BY DEF Getopt, Masked, TypeInv, TypeOK
<1>2. options' \in 0 .. MaxOptions
  BY StartupAssumption DEF Getopt, TypeInv, TypeOK
<1> QED  BY <1>1, <1>2 DEF Getopt, TypeInv, TypeOK, work

LEMMA OptionTypes ==
  ASSUME TypeInv, Options_ PROVE TypeInv'
<1>0. set \in Settings /\ k \in Kernels
  BY DEF TypeInv, TypeOK
<1>1. CASE OptRange
  <2>1. PICK r \in Ranges : Getopt([set EXCEPT !.affinity = r, !.setaffinity = "user"])
    BY <1>1 DEF OptRange
  <2>2. [set EXCEPT !.affinity = r, !.setaffinity = "user"] \in Settings
    BY <1>0, StartupAssumption DEF Settings
  <2> QED  BY <2>1, <2>2, GetoptTypes
<1>2. CASE OptAll
  <2>1. 0 .. Cardinality(k.online) - 1 \in SUBSET CPUs
    <3>1. k.online \in SUBSET CPUs
      BY <1>0, ZeroOnline
    <3>2. Cardinality(CPUs) = N
      <4>1. 0 <= N - 1 /\ 0 \in Int /\ N - 1 \in Int /\ N \in Int
        BY KernelAssumption
      <4>2. Cardinality(0 .. N - 1) = IF 0 > N - 1 THEN 0 ELSE (N - 1) - 0 + 1
        BY <4>1, FS_Interval
      <4> QED  BY <4>1, <4>2 DEF CPUs
    <3>3. Cardinality(k.online) \in Nat /\ Cardinality(k.online) <= N
      BY <3>1, <3>2, CPUsFinite, FS_Subset
    <3> QED  BY <3>3, KernelAssumption DEF CPUs
  <2>2. [set EXCEPT !.affinity = 0 .. Cardinality(k.online) - 1, !.setaffinity = "all"] \in Settings
    BY <1>0, <2>1 DEF Settings
  <2> QED  BY <1>2, <2>2, GetoptTypes DEF OptAll
<1>3. CASE OptDetection
  <2>1. PICK d \in Detections : Getopt([set EXCEPT !.use_cgroup = d])
    BY <1>3 DEF OptDetection
  <2>2. [set EXCEPT !.use_cgroup = d] \in Settings
    BY <1>0 DEF Settings
  <2> QED  BY <2>1, <2>2, GetoptTypes
<1>4. CASE OptPolicy
  <2>1. PICK p \in Policies : Getopt([set EXCEPT !.policy = p])
    BY <1>4 DEF OptPolicy
  <2>2. [set EXCEPT !.policy = p] \in Settings
    BY <1>0 DEF Settings
  <2> QED  BY <2>1, <2>2, GetoptTypes
<1>5. CASE OptPriority
  <2>1. PICK p \in Priorities : Getopt(Prioritised(set, p))
    BY <1>5 DEF OptPriority
  <2>2. Prioritised(set, p) \in Settings
    BY <1>0, StartupAssumption DEF Prioritised, Settings, Policies, RealTime
  <2> QED  BY <2>1, <2>2, GetoptTypes
<1>6. CASE OptInterval
  <2>1. PICK i \in Intervals : Getopt([set EXCEPT !.interval = i])
    BY <1>6 DEF OptInterval
  <2>2. [set EXCEPT !.interval = i] \in Settings
    BY <1>0, StartupAssumption DEF Settings
  <2> QED  BY <2>1, <2>2, GetoptTypes
<1>7. CASE OptSlice
  <2>1. PICK r \in Slices : Getopt([set EXCEPT !.rrtime = r])
    BY <1>7 DEF OptSlice
  <2>2. [set EXCEPT !.rrtime = r] \in Settings
    BY <1>0, StartupAssumption DEF Settings
  <2> QED  BY <2>1, <2>2, GetoptTypes
<1>8. CASE OptClock
  <2>1. PICK c \in Clocks : Getopt([set EXCEPT !.clocksel = c])
    BY <1>8 DEF OptClock
  <2>2. [set EXCEPT !.clocksel = c] \in Settings
    BY <1>0, StartupAssumption DEF Settings
  <2> QED  BY <2>1, <2>2, GetoptTypes
<1>9. CASE OptLock
  <2>1. [set EXCEPT !.lock_pages = TRUE] \in Settings
    BY <1>0 DEF Settings
  <2> QED  BY <1>9, <2>1, GetoptTypes DEF OptLock
<1>10. CASE OptForce
  <2>1. [set EXCEPT !.force = TRUE] \in Settings
    BY <1>0 DEF Settings
  <2> QED  BY <1>10, <2>1, GetoptTypes DEF OptForce
<1>11. CASE OptBlind
  <2>1. [set EXCEPT !.blindrun = TRUE] \in Settings
    BY <1>0 DEF Settings
  <2> QED  BY <1>11, <2>1, GetoptTypes DEF OptBlind
<1>12. CASE OptDry
  <2>1. PICK m \in Masks \cup {DryBits} : Getopt([set EXCEPT !.dryrun = m])
    BY <1>12 DEF OptDry
  <2>2. m \in SUBSET DryBits
    BY StartupAssumption
  <2>3. [set EXCEPT !.dryrun = m] \in Settings
    BY <1>0, <2>2 DEF Settings
  <2> QED  BY <2>1, <2>3, GetoptTypes
<1>13. CASE OptHelp \/ EndOptions
  <2>1. stage' \in Stages \ Masked
    BY <1>13 DEF OptHelp, EndOptions, Goto, Masked, Stages, Over
  <2> QED  BY <1>13, <2>1 DEF OptHelp, EndOptions, TypeInv, TypeOK, settled, work
<1> QED
  BY <1>1, <1>2, <1>3, <1>4, <1>5, <1>6, <1>7, <1>8, <1>9, <1>10, <1>11, <1>12, <1>13 DEF Options_

(* The file. *)
LEMMA FileTypes ==
  ASSUME TypeInv, ReadFile PROVE TypeInv'
<1>0. set \in Settings /\ stage' \in Stages \ Masked
  BY DEF ReadFile, Goto, Masked, Stages, Over, TypeInv, TypeOK
<1>1. ASSUME conf # NoFile PROVE WithFile(set, conf) \in Settings
  <2>1. conf \in Sections \cup {Unset}
    BY <1>1, StartupAssumption DEF TypeInv, TypeOK
  <2>2. CASE conf = Unset
    BY <1>0, <2>2 DEF WithFile
  <2>3. CASE conf # Unset
    <3> DEFINE mode == FileAffinity(set, conf)
               list == IF set.affinity = Unset THEN conf.affinity ELSE set.affinity
               last == IF mode = "unspecified" /\ list # Unset THEN "user" ELSE mode
               pol == IF set.policy = "OTHER" THEN From(conf.policy, "OTHER") ELSE set.policy
    <3>1. conf \in Sections
      BY <2>1, <2>3
    <3>2. mode \in {"unspecified", "user", "numa", "all"}
      BY <1>0, <3>1 DEF FileAffinity, From, Sections, Settings
    <3>3. last \in {"unspecified", "user", "numa", "all"}
      BY <3>2
    <3>4. list \in (SUBSET CPUs) \cup {Unset}
      BY <1>0, <3>1 DEF Sections, Settings
    <3>5. pol \in Policies
      BY <1>0, <3>1 DEF Sections, Settings, From, Policies
    <3>6. /\ From(conf.priority, set.priority) \in Int /\ From(conf.interval, set.interval) \in Int
          /\ From(conf.clocksel, set.clocksel) \in Int
      BY <1>0, <3>1 DEF Sections, Settings, From
    <3>7. From(conf.rrtime, set.rrtime) \in Nat
      BY <1>0, <3>1 DEF Sections, Settings, From
    <3>8. From(conf.lock_pages, set.lock_pages) \in BOOLEAN
      BY <1>0, <3>1, Zenon DEF Sections, Settings, From
    <3>9. WithFile(set, conf) =
            [set EXCEPT !.priority = From(conf.priority, set.priority),
                        !.interval = From(conf.interval, set.interval),
                        !.clocksel = From(conf.clocksel, set.clocksel),
                        !.rrtime = From(conf.rrtime, set.rrtime),
                        !.lock_pages = From(conf.lock_pages, set.lock_pages),
                        !.policy = pol, !.affinity = list, !.setaffinity = last]
      BY <2>3, <1>0 DEF WithFile, Settings
    <3> HIDE DEF list, last, pol
    <3> QED  BY <1>0, <3>3, <3>4, <3>5, <3>6, <3>7, <3>8, <3>9 DEF Settings
  <2> QED  BY <2>2, <2>3
<1>2. set' \in Settings /\ error' \in BOOLEAN
  BY <1>0, <1>1 DEF ReadFile, TypeInv, TypeOK
<1> QED  BY <1>0, <1>2 DEF ReadFile, TypeInv, TypeOK, settled, work

(* The affinity. *)
LEMMA CPUsOnFacts ==
  ASSUME NEW bad, TypeInv, NEW r, r = CPUsOn(bad)
  PROVE  r \in Kernels /\ r.smt = "on" /\ r.core = k.core /\ r.busy = k.busy /\ r.grp = k.grp
<1> DEFINE q == SMTOn(k)
           S == {c \in CPUs \ {0} : <<"online", c>> \notin bad}
<1>1. /\ q \in Kernels /\ q.smt = "on"
      /\ q.core = k.core /\ q.busy = k.busy /\ q.grp = k.grp
  BY SMTOnFacts DEF TypeInv, TypeOK
<1>2. S \in SUBSET CPUs
  OBVIOUS
<1>3. r = q \/ r = Online(q, S)
  BY DEF CPUsOn
<1> HIDE DEF q, S
<1> QED  BY <1>1, <1>2, <1>3, OnlineFacts

LEMMA AffinityTypes ==
  ASSUME TypeInv, SetDefaultAffinity PROVE TypeInv'
<1>0. set \in Settings /\ k \in Kernels /\ stage = "affinity" /\ faults \in 0 .. MaxFaults
  BY DEF SetDefaultAffinity, TypeInv, TypeOK
<1>1. /\ stage' \in Stages /\ set' \in Settings /\ k' \in Kernels /\ faults' \in 0 .. MaxFaults
      /\ stage' \in Masked => MaskTyped'
  <2>1. CASE UseAll
    <3>1. CASE set.blindrun
      <4>1. /\ set' = [set EXCEPT !.affinity = CPUs, !.affinity_mask = CPUs]
            /\ stage' = "checks" /\ UNCHANGED <<k, faults>>
        BY <2>1, <3>1 DEF UseAll, Goto
      <4>2. set' \in Settings /\ MaskTyped'
        BY <1>0, <4>1 DEF Settings, MaskTyped
      <4> QED  BY <1>0, <4>1, <4>2 DEF Stages
    <3>2. CASE ~set.blindrun
      <4>1. UNCHANGED set /\ stage' \in Stages \ Masked /\ k' \in {k, SMTOn(k)}
        BY <2>1, <3>2 DEF UseAll, Goto, Stages, Over, Masked
      <4>2. PICK bad \in Faulty({<<"smt", 0>>}) : Failing(bad)
        BY <2>1, <3>2 DEF UseAll
      <4>3. IsFiniteSet({<<"smt", 0>>})
        BY FS_Singleton
      <4>4. faults' \in 0 .. MaxFaults
        BY <1>0, <4>2, <4>3, FaultyFacts
      <4> QED  BY <1>0, <4>1, <4>4, SMTOnFacts
    <3> QED  BY <3>1, <3>2
  <2>2. CASE UseRange
    <3> DEFINE list == IF set.affinity = Unset THEN CPUList(DefaultAffinity) ELSE set.affinity
    <3>1. list \in SUBSET CPUs
      <4>1. DefaultAffinity \in SUBSET CPUs
        BY <1>0, ZeroOnline DEF DefaultAffinity
      <4> QED  BY <1>0, <4>1, ListMeansMask DEF Settings
    <3>2. CASE stage' = "failed" /\ UNCHANGED set
      BY <1>0, <2>2, <3>2 DEF UseRange, Stages, Over, Masked
    <3>3. CASE /\ set' = [set EXCEPT !.affinity = list, !.affinity_mask = ParseCPUMask(list),
                                     !.setaffinity = "user"]
               /\ stage' = IF ParseCPUMask(list) = Unset THEN "help" ELSE "checks"
      <4> HIDE DEF list
      <4>1. ParseCPUMask(list) \in (SUBSET CPUs) \cup {Unset}
        BY <3>1 DEF ParseCPUMask
      <4>2. /\ set' \in Settings /\ set'.affinity = list /\ set'.affinity_mask = ParseCPUMask(list)
        BY <1>0, <3>1, <3>3, <4>1 DEF Settings
      <4>3. stage' \in Masked => MaskTyped'
        BY <3>1, <3>3, <4>1, <4>2 DEF Masked, MaskTyped
      <4> QED  BY <1>0, <2>2, <3>3, <4>2, <4>3 DEF UseRange, Stages, Over
    <3> QED  BY <2>2, <3>2, <3>3 DEF UseRange, Goto
  <2>3. CASE stage' = "failed" /\ UNCHANGED <<set, k, faults>>
    BY <1>0, <2>3 DEF Stages, Over, Masked
  <2> QED  BY <2>1, <2>2, <2>3 DEF SetDefaultAffinity, Goto
<1> QED  BY <1>1 DEF SetDefaultAffinity, TypeInv, TypeOK, settled, work

LEMMA CheckTypes ==
  ASSUME TypeInv, CheckSettings PROVE TypeInv'
<1>0. set \in Settings /\ MaskTyped
  BY DEF CheckSettings, TypeInv, TypeOK, Masked, Stages
<1>1. /\ NoFork(set) \in Settings /\ NoFork(set).affinity = set.affinity
      /\ NoFork(set).affinity_mask = set.affinity_mask
  BY <1>0 DEF NoFork, Settings, Policies
<1>2. ASSUME NEW s \in Settings
      PROVE  /\ Matching(s) \in Settings /\ Matching(s).affinity = s.affinity
             /\ Matching(s).affinity_mask = s.affinity_mask
  <2> DEFINE p == IF s.priority # 0 /\ s.policy \notin RealTime THEN [s EXCEPT !.policy = "FIFO"] ELSE s
  <2>1. p \in Settings /\ p.affinity = s.affinity /\ p.affinity_mask = s.affinity_mask
    BY DEF Settings, Policies
  <2>2. Matching(s) = IF p.policy \in RealTime /\ p.priority = 0 THEN [p EXCEPT !.priority = 10] ELSE p
    BY DEF Matching
  <2> HIDE DEF p
  <2> QED  BY <2>1, <2>2 DEF Settings
<1>3. set' \in Settings /\ MaskTyped'
  BY <1>0, <1>1, <1>2 DEF CheckSettings, Checked, MaskTyped
<1>4. stage' \in Stages /\ error' \in BOOLEAN
  BY DEF CheckSettings, Goto, Stages, Over, TypeInv, TypeOK, InvalidSettings
<1> QED  BY <1>3, <1>4 DEF CheckSettings, TypeInv, TypeOK, settled, work

-----------------------------------------------------------------------------
(* Types: the preparation. *)

LEMMA FewFinite == \A a, b, c, d : IsFiniteSet({a}) /\ IsFiniteSet({a, b}) /\ IsFiniteSet({a, b, c, d})
<1> TAKE a, b, c, d
<1>1. IsFiniteSet({a})
  BY FS_Singleton
<1>2. IsFiniteSet({a} \cup {b})
  BY <1>1, FS_AddElement
<1>3. {a} \cup {b} = {a, b}
  OBVIOUS
<1>4. IsFiniteSet({a, b} \cup {c})
  BY <1>2, <1>3, FS_AddElement
<1>5. IsFiniteSet(({a, b} \cup {c}) \cup {d})
  BY <1>4, FS_AddElement
<1>6. ({a, b} \cup {c}) \cup {d} = {a, b, c, d}
  OBVIOUS
<1> QED  BY <1>1, <1>2, <1>3, <1>5, <1>6

LEMMA WritesFinite == IsFiniteSet(OnlineWrites)
<1> DEFINE f == [c \in CPUs |-> <<"online", c>>]
<1>1. f \in Surjection(CPUs, {"online"} \X CPUs)
  BY DEF Surjection
<1>2. IsFiniteSet({"online"} \X CPUs)
  BY <1>1, CPUsFinite, FS_Surjection
<1>3. IsFiniteSet({<<"smt", 0>>})
  BY FewFinite
<1> QED  BY <1>2, <1>3, FS_Union DEF OnlineWrites

LEMMA ChildrenFacts ==
  ASSUME TypeInv
  PROVE  Children(k, "docker") \in SUBSET Containers /\ IsFiniteSet(Children(k, "docker"))
<1>1. Children(k, "docker") \in SUBSET Containers
  BY DEF Children
<1> QED  BY <1>1, StartupAssumption, FS_Subset

(* What a step of the preparation has to see to. *)
LEMMA PrepTypes ==
  ASSUME TypeInv, stage' \in Stages, set' \in Settings, MaskTyped', k' \in Kernels,
         cpu' \in 0 .. N, todo' \subseteq Containers, after' \in {"again", "configured"},
         cpuretry' \in 0 .. 1, naff' \subseteq CPUs, faults' \in 0 .. MaxFaults,
         UNCHANGED settled \/ (UNCHANGED <<earlier, conf, options>> /\ counted' \in BOOLEAN),
         UNCHANGED error
  PROVE  TypeInv'
<1>1. error' \in BOOLEAN
  BY Zenon DEF TypeInv, TypeOK
<1>2. counted' \in BOOLEAN
  BY Zenon DEF TypeInv, TypeOK, settled
<1>3. earlier' = earlier /\ conf' = conf /\ options' = options
  BY DEF settled
<1> QED  BY <1>1, <1>2, <1>3 DEF TypeInv, TypeOK

LEMMA MaskedHere ==
  ASSUME TypeInv, Prepare
  PROVE  stage \in Masked /\ MaskTyped
<1>1. stage \in {"smt", "siblings", "whole", "online", "cpus"} \/ stage \in {"detect", "throttle", "again", "slice", "threads", "offline", "back"}
      \/ stage \in {"free", "open", "widen", "place", "close", "configured", "system", "seal", "tasks", "lock"}
  <2>1. CASE CheckSMT \/ DisableCPUsibling \/ SiblingsOff \/ DisableSMT \/ ReadOnline \/ ConfigureCPU \/ MoveSelf
    BY <2>1 DEF CheckSMT, DisableCPUsibling, SiblingsOff, DisableSMT, ReadOnline, ConfigureCPU, MoveSelf
  <2>2. CASE DetectCGroup \/ ResetRTthrottle \/ RetryRTthrottle \/ GetRRslice \/ MoveThreads \/ PushOffline \/ PushOnline
    BY <2>2 DEF DetectCGroup, ResetRTthrottle, RetryRTthrottle, GetRRslice, MoveThreads, PushOffline, PushOnline
  <2>3. CASE Groups_ \/ MoveTasks \/ LockMemory
    BY <2>3 DEF Groups_, FreeContainers, OpenDocker, WidenDocker, PlaceContainer, ConfineDocker, CloseDocker,
               CreateConfigured, AllConfigured, CreateSystem, SealSystem, MoveTasks, LockMemory
  <2> QED  BY <2>1, <2>2, <2>3 DEF Prepare
<1> QED  BY <1>1 DEF TypeInv, Masked, Stages

(* CPUs. *)
LEMMA LeavingFacts ==
  ASSUME TypeInv, MaskTyped, cpu \in k.online
  PROVE  /\ Leaving(cpu) \in SUBSET CPUs /\ 0 \notin Leaving(cpu) /\ IsFiniteSet(Leaving(cpu))
<1>1. k.online \in SUBSET CPUs
  BY ZeroOnline DEF TypeInv, TypeOK
<1>2. Leaving(cpu) \in SUBSET CPUs /\ 0 \notin Leaving(cpu)
  BY <1>1 DEF Leaving, Siblings, CPUs
<1> QED  BY <1>2, CPUsFinite

LEMMA SiblingTypes ==
  ASSUME TypeInv, MaskTyped, CheckSMT \/ DisableCPUsibling \/ SiblingsOff \/ DisableSMT
  PROVE  TypeInv'
<1>0. /\ set \in Settings /\ k \in Kernels /\ stage \in Stages /\ cpu \in 0 .. N
      /\ cpuretry \in 0 .. 1 /\ naff \subseteq CPUs /\ faults \in 0 .. MaxFaults
      /\ N \in Nat /\ todo \subseteq Containers /\ after \in {"again", "configured"}
  BY KernelAssumption DEF TypeInv, TypeOK
<1>1. CASE CheckSMT
  <2>1. stage' \in Stages /\ cpu' \in 0 .. N
    BY <1>0, <1>1 DEF CheckSMT, Goto, Stages
  <2> QED  BY <1>0, <1>1, <2>1, PrepTypes DEF CheckSMT, MaskTyped, work
<1>2. CASE DisableCPUsibling
  <2>1. CASE HotplugSibling
    <3>0. cpu < N /\ cpu \in k.online
      BY <1>2, <2>1 DEF DisableCPUsibling, HotplugSibling
    <3>1. PICK bad \in Faulty(Leaving(cpu)) :
            /\ Failing(bad)
            /\ k' = IF set.dryrun # {} THEN k ELSE Offline(k, Leaving(cpu) \ bad)
      BY <2>1 DEF HotplugSibling
    <3>2. k' \in Kernels /\ faults' \in 0 .. MaxFaults
      <4>1. Leaving(cpu) \ bad \in SUBSET CPUs /\ 0 \notin Leaving(cpu) \ bad
        BY <3>0, LeavingFacts
      <4> QED  BY <1>0, <3>0, <3>1, <4>1, LeavingFacts, FaultyFacts, OfflineFacts
    <3>3. set' \in Settings /\ MaskTyped' /\ cpu' \in 0 .. N
      BY <1>0, <2>1, <3>0 DEF HotplugSibling, Settings, MaskTyped
    <3>4. stage' = stage /\ UNCHANGED <<settled, work, error, cpuretry, naff>>
      BY <1>2, <2>1 DEF DisableCPUsibling, HotplugSibling
    <3> QED  BY <1>0, <3>2, <3>3, <3>4, PrepTypes DEF work
  <2>2. CASE NoTopology \/ OtherCPU
    <3>1. stage' \in Stages /\ cpu' \in 0 .. N /\ UNCHANGED <<set, k, faults>>
      BY <1>0, <1>2, <2>2 DEF DisableCPUsibling, NoTopology, OtherCPU, Goto, Stages
    <3>2. UNCHANGED <<settled, work, error, cpuretry, naff>>
      BY <1>2 DEF DisableCPUsibling
    <3> QED  BY <1>0, <3>1, <3>2, PrepTypes DEF work, MaskTyped
  <2> QED  BY <1>2, <2>1, <2>2 DEF DisableCPUsibling
<1>3. CASE SiblingsOff
  <2>1. set' \in Settings /\ MaskTyped'
    <3>1. CPUList(set.affinity_mask) \in SUBSET CPUs
      BY ListMeansMask DEF MaskTyped
    <3> QED  BY <1>0, <1>3, <3>1 DEF SiblingsOff, Settings, MaskTyped
  <2>2. stage' \in Stages /\ UNCHANGED <<settled, work, k, error, cpu, cpuretry, naff, faults>>
    BY <1>3 DEF SiblingsOff, Goto, Stages
  <2> QED  BY <1>0, <2>1, <2>2, PrepTypes DEF work
<1>4. CASE DisableSMT
  <2>1. faults' \in 0 .. MaxFaults
    BY <1>0, <1>4, FewFinite, FaultyFacts DEF DisableSMT
  <2>2. /\ stage' \in Stages /\ k' \in Kernels
        /\ set' \in Settings /\ MaskTyped'
    <3>1. CASE UNCHANGED <<set, k>> /\ stage' \in {"online", "failed"}
      BY <1>0, <3>1 DEF MaskTyped, Stages, Over
    <3>2. CASE k' = SMTOff(k) /\ ResetCPUmask(SMTOff(k).online)
      <4>1. k' \in Kernels
        BY <1>0, <3>2, SMTOffFacts
      <4> DEFINE mask == set.affinity_mask \cap k'.online
                 list == IF mask \notin {set.affinity_mask, {}} THEN CPUList(mask) ELSE set.affinity
      <4>2. mask \in SUBSET CPUs
        BY DEF MaskTyped
      <4>3. list \in SUBSET CPUs
        BY <4>2, ListMeansMask DEF MaskTyped
      <4>4. set' = [set EXCEPT !.affinity_mask = mask, !.affinity = list] /\ stage' \in {"help", "online"}
        BY <1>0, <3>2 DEF ResetCPUmask, Goto, Settings
      <4> HIDE DEF mask, list
      <4> QED  BY <1>0, <4>1, <4>2, <4>3, <4>4 DEF Settings, MaskTyped, Stages, Over
    <3> QED  BY <1>4, <3>1, <3>2 DEF DisableSMT, Goto
  <2> QED  BY <1>0, <1>4, <2>1, <2>2, PrepTypes DEF DisableSMT, work
<1> QED  BY <1>1, <1>2, <1>3, <1>4

LEMMA TunedFacts ==
  ASSUME k \in KernelFiles, cpu \in CPUs, NEW bad
  PROVE  LET q == Tuned(bad)
         IN /\ q \in KernelFiles
            /\ q.online = k.online /\ q.irq = k.irq /\ q.grp = k.grp /\ q.core = k.core /\ q.smt = k.smt
<1> DEFINE gov == IF Demanded(k.gov) THEN k.gov \cup {cpu} ELSE k.gov
           turbo == k.turbo /\ "turbo" \in bad
           freq == IF Demanded(k.freq) /\ set.force /\ "freq" \notin bad THEN k.freq \cup {cpu} ELSE k.freq
           qos == IF Demanded(k.qos) THEN k.qos \cup {cpu} ELSE k.qos
<1>1. gov \in SUBSET CPUs /\ freq \in SUBSET CPUs /\ qos \in SUBSET CPUs
  BY DEF KernelFiles
<1>2. turbo \in BOOLEAN
  BY Zenon
<1>3. Tuned(bad) = [k EXCEPT !.gov = gov, !.turbo = turbo, !.freq = freq, !.qos = qos]
  BY DEF Tuned, KernelFiles
<1> HIDE DEF gov, turbo, freq, qos
<1> QED  BY <1>1, <1>2, <1>3 DEF KernelFiles

LEMMA CPUTypes ==
  ASSUME TypeInv, MaskTyped, ReadOnline \/ ConfigureCPU \/ MoveSelf
  PROVE  TypeInv'
<1>0. /\ set \in Settings /\ k \in Kernels /\ stage \in Stages /\ cpu \in 0 .. N
      /\ cpuretry \in 0 .. 1 /\ naff \subseteq CPUs /\ faults \in 0 .. MaxFaults
      /\ N \in Nat /\ todo \subseteq Containers /\ after \in {"again", "configured"}
      /\ k \in KernelFiles /\ k.online \in SUBSET CPUs
  BY KernelAssumption, ZeroOnline DEF TypeInv, TypeOK
<1>1. CASE ReadOnline
  <2>1. faults' \in 0 .. MaxFaults
    BY <1>0, <1>1, FewFinite, FaultyFacts DEF ReadOnline
  <2>2. stage' \in Stages /\ cpu' \in 0 .. N /\ naff' \subseteq CPUs
    BY <1>0, <1>1 DEF ReadOnline, Goto, Stages, Over
  <2> QED  BY <1>0, <1>1, <2>1, <2>2, PrepTypes DEF ReadOnline, work, MaskTyped
<1>2. CASE ConfigureCPU
  <2>0. cpu < N
    BY <1>2 DEF ConfigureCPU
  <2>1. CASE TuneCPU
    <3>1. PICK bad \in Faulty({"gov", "freq", "qos", "turbo"}) :
            /\ Failing(bad)
            /\ IF TuneFails(bad) THEN Goto("failed") /\ UNCHANGED <<k, cpu, naff>>
               ELSE /\ k' = Tuned(bad) /\ cpu' = cpu + 1 /\ UNCHANGED stage
                    /\ naff' = IF cpu \in set.affinity_mask THEN naff ELSE naff \cup {cpu}
      BY <2>1 DEF TuneCPU
    <3>2. faults' \in 0 .. MaxFaults
      BY <1>0, <3>1, FewFinite, FaultyFacts
    <3>3. Tuned(bad) \in Kernels
      <4>0. cpu \in CPUs
        BY <1>0, <2>1 DEF TuneCPU
      <4>1. /\ Tuned(bad) \in KernelFiles /\ Tuned(bad).online = k.online
            /\ Tuned(bad).irq = k.irq /\ Tuned(bad).grp = k.grp
        BY <1>0, <4>0, TunedFacts
      <4> QED  BY <1>0, <4>1, OtherFiles
    <3>4. k' \in Kernels /\ stage' \in Stages /\ cpu' \in 0 .. N /\ naff' \subseteq CPUs
      BY <1>0, <2>0, <2>1, <3>1, <3>3 DEF Goto, Stages, Over, TuneCPU
    <3>5. UNCHANGED <<settled, work, set, error, cpuretry>>
      BY <2>1 DEF TuneCPU
    <3> QED  BY <1>0, <3>2, <3>4, <3>5, PrepTypes DEF work, MaskTyped
  <2>2. CASE SkipCPU
    <3>1. cpu' \in 0 .. N
      BY <1>0, <2>0, <2>2 DEF SkipCPU
    <3> QED  BY <1>0, <2>2, <3>1, PrepTypes DEF SkipCPU, work, MaskTyped
  <2>3. CASE RetryOnline
    <3>1. PICK bad \in Faulty(OnlineWrites) :
            /\ Failing(bad)
            /\ IF ~set.force \/ cpuretry = 0 THEN Goto("failed") /\ UNCHANGED <<k, cpuretry>>
               ELSE /\ cpuretry' = cpuretry - 1
                    /\ IF ~set.blindrun /\ ~CanResetOnline(bad) THEN Goto("failed") /\ UNCHANGED k
                       ELSE Goto("smt") /\ k' = IF set.blindrun THEN k ELSE CPUsOn(bad)
      BY <2>3 DEF RetryOnline
    <3>2. faults' \in 0 .. MaxFaults
      BY <1>0, <3>1, WritesFinite, FaultyFacts
    <3>3. k' \in Kernels /\ stage' \in Stages /\ cpuretry' \in 0 .. 1
      BY <1>0, <3>1, CPUsOnFacts DEF Goto, Stages, Over
    <3> QED  BY <1>0, <2>3, <3>2, <3>3, PrepTypes DEF RetryOnline, work, MaskTyped
  <2> QED  BY <1>2, <2>1, <2>2, <2>3 DEF ConfigureCPU
<1>3. CASE MoveSelf
  <2>1. naff' \subseteq CPUs
    BY <1>0, <1>3 DEF MoveSelf, MaskTyped
  <2>2. faults' \in 0 .. MaxFaults /\ stage' \in Stages /\ k' \in Kernels
    <3>1. CASE Goto("failed") /\ UNCHANGED <<k, faults>>
      BY <1>0, <3>1 DEF Goto, Stages, Over
    <3>2. CASE \E bad \in Faulty({"own"}) :
                 /\ Failing(bad)
                 /\ k' = IF bad = {} /\ naff' # {} THEN [k EXCEPT !.own = naff'] ELSE k
                 /\ Goto("detect")
      <4>1. faults' \in 0 .. MaxFaults
        BY <1>0, <3>2, FewFinite, FaultyFacts
      <4>2. [k EXCEPT !.own = naff'] \in Kernels
        <5>1. /\ [k EXCEPT !.own = naff'] \in KernelFiles /\ [k EXCEPT !.own = naff'].online = k.online
              /\ [k EXCEPT !.own = naff'].irq = k.irq /\ [k EXCEPT !.own = naff'].grp = k.grp
          BY <1>0, <2>1 DEF KernelFiles
        <5> QED  BY <1>0, <5>1, OtherFiles
      <4> QED  BY <1>0, <3>2, <4>1, <4>2 DEF Goto, Stages
    <3> QED  BY <1>3, <3>1, <3>2 DEF MoveSelf
  <2> QED  BY <1>0, <1>3, <2>1, <2>2, PrepTypes DEF MoveSelf, work, MaskTyped
<1> QED  BY <1>1, <1>2, <1>3

(* The kernel's settings. *)
LEMMA QuietTypes ==
  ASSUME TypeInv, MaskTyped,
         DetectCGroup \/ ResetRTthrottle \/ RetryRTthrottle \/ GetRRslice \/ MoveThreads \/ MoveTasks \/ LockMemory
  PROVE  TypeInv'
<1>0. /\ set \in Settings /\ k \in Kernels /\ stage \in Stages /\ cpu \in 0 .. N
      /\ cpuretry \in 0 .. 1 /\ naff \subseteq CPUs /\ faults \in 0 .. MaxFaults
      /\ todo \subseteq Containers /\ after \in {"again", "configured"}
      /\ k \in KernelFiles
  BY DEF TypeInv, TypeOK, Kernels
<1>1. CASE DetectCGroup
  <2>1. CASE Goto("throttle") /\ UNCHANGED <<set, k, faults>>
    BY <1>0, <1>1, <2>1, PrepTypes DEF DetectCGroup, Goto, Stages, work, MaskTyped
  <2>2. CASE ~k.grp["docker"].here
    <3>1. PICK bad \in Faulty({"mkdir"}) : Failing(bad) /\ NoGroup(bad)
      BY <1>1, <2>2 DEF DetectCGroup, Failing
    <3>2. faults' \in 0 .. MaxFaults
      BY <1>0, <3>1, FewFinite, FaultyFacts
    <3>3. stage' \in Stages /\ k' \in Kernels
      <4>1. CanMakeGroup(k, "docker") /\ "docker" \in Groups
        BY KernelAssumption DEF CanMakeGroup, Groups
      <4>2. MakeGroup(k, "docker") \in Kernels
        BY <1>0, <4>1, MakeGroupFacts DEF Wrote
      <4> QED  BY <1>0, <3>1, <4>2 DEF NoGroup, Goto, Stages, Over
    <3>4. set' \in Settings /\ MaskTyped'
      BY <1>0, <3>1 DEF NoGroup, Settings, Detections, MaskTyped
    <3> QED  BY <1>0, <1>1, <3>2, <3>3, <3>4, PrepTypes DEF DetectCGroup, work
  <2> QED  BY <1>1, <2>1, <2>2 DEF DetectCGroup
<1>2. CASE ResetRTthrottle \/ RetryRTthrottle
  <2>1. faults' \in 0 .. MaxFaults
    BY <1>0, <1>2, FewFinite, FaultyFacts DEF ResetRTthrottle, RetryRTthrottle
  <2>2. [k EXCEPT !.rt = "unlimited"] \in Kernels
    <3>1. /\ [k EXCEPT !.rt = "unlimited"] \in KernelFiles /\ [k EXCEPT !.rt = "unlimited"].online = k.online
          /\ [k EXCEPT !.rt = "unlimited"].irq = k.irq /\ [k EXCEPT !.rt = "unlimited"].grp = k.grp
      BY <1>0 DEF KernelFiles
    <3> QED  BY <1>0, <3>1, OtherFiles
  <2>3. k' \in Kernels /\ stage' \in Stages
    BY <1>0, <1>2, <2>2 DEF ResetRTthrottle, RetryRTthrottle, Goto, Stages
  <2> QED  BY <1>0, <1>2, <2>1, <2>3, PrepTypes DEF ResetRTthrottle, RetryRTthrottle, work, MaskTyped
<1>3. CASE GetRRslice
  <2>1. faults' \in 0 .. MaxFaults
    BY <1>0, <1>3, FewFinite, FaultyFacts DEF GetRRslice
  <2>2. [k EXCEPT !.rr = set.rrtime] \in Kernels
    <3>1. /\ [k EXCEPT !.rr = set.rrtime] \in KernelFiles /\ [k EXCEPT !.rr = set.rrtime].online = k.online
          /\ [k EXCEPT !.rr = set.rrtime].irq = k.irq /\ [k EXCEPT !.rr = set.rrtime].grp = k.grp
      BY <1>0 DEF KernelFiles, Settings
    <3> QED  BY <1>0, <3>1, OtherFiles
  <2>3. k' \in Kernels /\ stage' \in Stages
    BY <1>0, <1>3, <2>2 DEF GetRRslice, Goto, Stages
  <2>4. set' \in Settings /\ MaskTyped'
    <3>1. k.rr \in Nat
      BY <1>0 DEF KernelFiles
    <3> QED  BY <1>0, <1>3, <3>1 DEF GetRRslice, Settings, MaskTyped
  <2> QED  BY <1>0, <1>3, <2>1, <2>3, <2>4, PrepTypes DEF GetRRslice, work
<1>4. CASE MoveThreads
  <2>1. faults' \in 0 .. MaxFaults
    BY <1>0, <1>4, FewFinite, FaultyFacts DEF MoveThreads
  <2>2. [k EXCEPT !.threads = naff] \in Kernels
    <3>1. /\ [k EXCEPT !.threads = naff] \in KernelFiles /\ [k EXCEPT !.threads = naff].online = k.online
          /\ [k EXCEPT !.threads = naff].irq = k.irq /\ [k EXCEPT !.threads = naff].grp = k.grp
      BY <1>0 DEF KernelFiles
    <3> QED  BY <1>0, <3>1, OtherFiles
  <2>3. k' \in Kernels /\ stage' \in Stages /\ after' \in {"again", "configured"}
    BY <1>0, <1>4, <2>2 DEF MoveThreads, Goto, Stages
  <2>4. counted' \in BOOLEAN
    <3>1. \E bad \in Faulty({"threads", "count"}) : counted' = ("count" \notin bad)
      BY <1>4, Zenon DEF MoveThreads
    <3> QED  BY <3>1, Zenon
  <2>5. UNCHANGED <<earlier, conf, options, set, error, cpu, cpuretry, naff, todo>>
    BY <1>4 DEF MoveThreads
  <2> QED  BY <1>0, <2>1, <2>3, <2>4, <2>5, PrepTypes DEF MaskTyped
<1>5. CASE MoveTasks
  <2>1. PICK bad \in Faulty({"tasks"}) :
          /\ Failing(bad)
          /\ k' = [k EXCEPT !.moved = @ \/ (bad = {} /\ "TSKPSH" \notin set.dryrun
                                            /\ k.grp["system"].cpus # {})]
    BY <1>5 DEF MoveTasks
  <2>2. faults' \in 0 .. MaxFaults
    BY <1>0, <2>1, FewFinite, FaultyFacts
  <2> DEFINE moved == k.moved \/ (bad = {} /\ "TSKPSH" \notin set.dryrun /\ k.grp["system"].cpus # {})
  <2>3. moved \in BOOLEAN
    BY Zenon
  <2>4. k' = [k EXCEPT !.moved = moved]
    BY <2>1, Zenon
  <2> HIDE DEF moved
  <2>5. k' \in Kernels
    <3>1. k' \in KernelFiles /\ k'.online = k.online /\ k'.irq = k.irq /\ k'.grp = k.grp
      BY <1>0, <2>3, <2>4 DEF KernelFiles
    <3> QED  BY <1>0, <3>1, OtherFiles
  <2>6. stage' \in Stages
    BY <1>5 DEF MoveTasks, Goto, Stages
  <2> QED  BY <1>0, <1>5, <2>2, <2>5, <2>6, PrepTypes DEF MoveTasks, work, MaskTyped
<1>6. CASE LockMemory
  <2>1. faults' \in 0 .. MaxFaults
    BY <1>0, <1>6, FewFinite, FaultyFacts DEF LockMemory
  <2>2. ASSUME NEW v \in {"current", "future"} PROVE [k EXCEPT !.locked = v] \in Kernels
    <3>1. /\ [k EXCEPT !.locked = v] \in KernelFiles /\ [k EXCEPT !.locked = v].online = k.online
          /\ [k EXCEPT !.locked = v].irq = k.irq /\ [k EXCEPT !.locked = v].grp = k.grp
      BY <1>0 DEF KernelFiles
    <3> QED  BY <1>0, <3>1, OtherFiles
  <2>3. k' \in Kernels /\ stage' \in Stages
    BY <1>0, <1>6, <2>2 DEF LockMemory, Goto, Stages, Over, CapMask
  <2> QED  BY <1>0, <1>6, <2>1, <2>3, PrepTypes DEF LockMemory, work, MaskTyped
<1> QED  BY <1>1, <1>2, <1>3, <1>4, <1>5, <1>6

LEMMA PushTypes ==
  ASSUME TypeInv, MaskTyped, PushOffline \/ PushOnline
  PROVE  TypeInv'
<1>0. /\ set \in Settings /\ k \in Kernels /\ stage \in Stages /\ cpu \in 0 .. N
      /\ cpuretry \in 0 .. 1 /\ naff \subseteq CPUs /\ faults \in 0 .. MaxFaults
      /\ todo \subseteq Containers /\ after \in {"again", "configured"}
  BY DEF TypeInv, TypeOK
<1>1. set.affinity_mask \ {0} \in SUBSET CPUs /\ IsFiniteSet(set.affinity_mask \ {0})
  BY CPUsFinite DEF MaskTyped
<1>2. faults' \in 0 .. MaxFaults
  BY <1>0, <1>1, FaultyFacts DEF PushOffline, PushOnline
<1>3. k' \in Kernels /\ stage' \in Stages
  <2>1. ASSUME NEW S \in SUBSET (set.affinity_mask \ {0}) PROVE Offline(k, S) \in Kernels /\ Online(k, S) \in Kernels
    <3>1. S \in SUBSET CPUs /\ 0 \notin S
      BY <1>1
    <3> QED  BY <1>0, <3>1, OfflineFacts, OnlineFacts
  <2>2. CASE PushOffline
    <3>1. PICK bad \in Faulty(set.affinity_mask \ {0}) :
            /\ k' = Offline(k, {c \in set.affinity_mask \ {0} : \A b \in bad : b < c})
            /\ Goto(IF bad = {} THEN "back" ELSE "failed")
      BY <2>2 DEF PushOffline
    <3>2. {c \in set.affinity_mask \ {0} : \A b \in bad : b < c} \in SUBSET (set.affinity_mask \ {0})
      OBVIOUS
    <3> QED  BY <2>1, <3>1, <3>2 DEF Goto, Stages, Over
  <2>3. CASE PushOnline
    <3>1. PICK bad \in Faulty(set.affinity_mask \ {0}) :
            /\ k' = Online(k, {c \in set.affinity_mask \ {0} : \A b \in bad : c < b})
            /\ Goto(IF bad = {} THEN "free" ELSE "failed")
      BY <2>3 DEF PushOnline
    <3>2. {c \in set.affinity_mask \ {0} : \A b \in bad : c < b} \in SUBSET (set.affinity_mask \ {0})
      OBVIOUS
    <3> QED  BY <2>1, <3>1, <3>2 DEF Goto, Stages, Over
  <2> QED  BY <2>2, <2>3
<1> QED  BY <1>0, <1>2, <1>3, PrepTypes DEF PushOffline, PushOnline, work, MaskTyped

(* CPU sets: what such a step changes. *)
LEMMA GroupsFacts ==
  ASSUME TypeInv, MaskTyped, Groups_
  PROVE  /\ k' \in Kernels /\ OnlyGroups(k', k) /\ k'.grp["docker"].here = k.grp["docker"].here
         /\ UNCHANGED <<settled, set, error, cpu, cpuretry, naff>>
         /\ faults' \in 0 .. MaxFaults /\ (faults' = MaxFaults => faults = MaxFaults)
<1> USE DEF SetGroups
<1>0. /\ k \in Kernels /\ faults \in 0 .. MaxFaults
      /\ set.affinity \in SUBSET CPUs /\ k.online \in SUBSET CPUs
      /\ "docker" \in Groups /\ "system" \in Groups /\ Containers \subseteq Groups
      /\ "docker" \notin Containers /\ naff \in SUBSET CPUs /\ todo \in SUBSET Containers
      /\ CPUList(naff) \in SUBSET CPUs
  BY ZeroOnline, KernelAssumption, ListMeansMask DEF TypeInv, TypeOK, MaskTyped, Groups
<1>w. ASSUME NEW r, NEW g \in Groups, Wrote(r, k, g), r.grp[g].here = k.grp[g].here
      PROVE  r \in Kernels /\ OnlyGroups(r, k) /\ r.grp["docker"].here = k.grp["docker"].here
  BY <1>0, <1>w DEF Wrote
<1>s. OnlyGroups(k, k)
  BY DEF OnlyGroups
<1>1. CASE FreeContainers
  <2>1. PICK bad \in Faulty(Children(k, "docker")) :
          /\ Failing(bad)
          /\ k' = IF "CGRPRT" \in set.dryrun THEN k ELSE Freed(k, Children(k, "docker") \ bad)
    BY <1>1 DEF FreeContainers
  <2>2. Children(k, "docker") \ bad \in SUBSET Containers
    BY DEF Children
  <2>3. /\ Freed(k, Children(k, "docker") \ bad) \in Kernels
        /\ OnlyGroups(Freed(k, Children(k, "docker") \ bad), k)
        /\ Freed(k, Children(k, "docker") \ bad).grp["docker"].here = k.grp["docker"].here
    BY <1>0, <2>2, FreedFacts
  <2>4. faults' \in 0 .. MaxFaults /\ (faults' = MaxFaults => faults = MaxFaults)
    BY <1>0, <2>1, ChildrenFacts, FaultyFacts
  <2> QED  BY <1>0, <1>1, <1>s, <2>1, <2>3, <2>4 DEF FreeContainers
<1>2. CASE OpenDocker \/ CloseDocker
  <2>1. PICK bad \in Faulty({"excl"}) :
          /\ Failing(bad)
          /\ k' \in {k, WriteExcl(k, "docker", FALSE, bad), WriteExcl(k, "docker", TRUE, bad)}
    BY <1>2 DEF OpenDocker, CloseDocker
  <2>2. /\ ExclWritten(WriteExcl(k, "docker", TRUE, bad), k, "docker", TRUE, bad)
        /\ ExclWritten(WriteExcl(k, "docker", FALSE, bad), k, "docker", FALSE, bad)
    BY <1>0, WriteExclFacts
  <2>3. /\ Wrote(WriteExcl(k, "docker", TRUE, bad), k, "docker")
        /\ WriteExcl(k, "docker", TRUE, bad).grp["docker"].here = k.grp["docker"].here
        /\ Wrote(WriteExcl(k, "docker", FALSE, bad), k, "docker")
        /\ WriteExcl(k, "docker", FALSE, bad).grp["docker"].here = k.grp["docker"].here
    BY <2>2 DEF ExclWritten
  <2>4. faults' \in 0 .. MaxFaults /\ (faults' = MaxFaults => faults = MaxFaults)
    BY <1>0, <2>1, FewFinite, FaultyFacts
  <2>5. k' \in Kernels /\ OnlyGroups(k', k) /\ k'.grp["docker"].here = k.grp["docker"].here
    BY <1>0, <1>w, <1>s, <2>1, <2>3
  <2> QED  BY <1>2, <2>4, <2>5 DEF OpenDocker, CloseDocker
<1>3. CASE WidenDocker
  <2>1. PICK bad \in Faulty({"all", "own"}) :
          /\ Failing(bad)
          /\ k' \in {WriteCpus(k, "docker", k.online, {}), WriteCpus(k, "docker", set.affinity, bad \cap {"own"})}
    BY <1>3 DEF WidenDocker
  <2>3. ASSUME NEW S \in SUBSET CPUs, NEW b
        PROVE  /\ Wrote(WriteCpus(k, "docker", S, b), k, "docker")
               /\ WriteCpus(k, "docker", S, b).grp["docker"].here = k.grp["docker"].here
    <3>1. CpusWritten(WriteCpus(k, "docker", S, b), k, "docker", S, b)
      BY <1>0, WriteCpusFacts
    <3> QED  BY <3>1 DEF CpusWritten
  <2>4. faults' \in 0 .. MaxFaults /\ (faults' = MaxFaults => faults = MaxFaults)
    BY <1>0, <2>1, FewFinite, FaultyFacts
  <2>5. k' \in Kernels /\ OnlyGroups(k', k) /\ k'.grp["docker"].here = k.grp["docker"].here
    BY <1>0, <1>w, <2>1, <2>3
  <2> QED  BY <1>3, <2>4, <2>5 DEF WidenDocker
<1>4. CASE PlaceContainer \/ ConfineDocker
  <2>1. PICK g \in Groups, bad \in Faulty({"cpus"}) :
          Failing(bad) /\ k' = WriteCpus(k, g, set.affinity, bad)
    BY <1>0, <1>4 DEF PlaceContainer, ConfineDocker
  <2>3. Wrote(k', k, g) /\ k'.grp[g].here = k.grp[g].here
    <3>1. CpusWritten(k', k, g, set.affinity, bad)
      BY <1>0, <2>1, WriteCpusFacts
    <3> QED  BY <3>1 DEF CpusWritten
  <2>4. faults' \in 0 .. MaxFaults /\ (faults' = MaxFaults => faults = MaxFaults)
    BY <1>0, <2>1, FewFinite, FaultyFacts
  <2>5. k' \in Kernels /\ OnlyGroups(k', k) /\ k'.grp["docker"].here = k.grp["docker"].here
    BY <1>w, <2>3
  <2> QED  BY <1>4, <2>4, <2>5 DEF PlaceContainer, ConfineDocker
<1>5. CASE CreateConfigured \/ CreateSystem
  <2>1. PICK g \in Groups \ {"docker"}, S \in SUBSET CPUs, bad \in Faulty({"mkdir", "cpus"}) :
          /\ Failing(bad)
          /\ \/ k' = k
             \/ CanMakeGroup(k, g) /\ k' = WriteCpus(MakeGroup(k, g), g, S, bad \cap {"cpus"})
    <3>1. CASE CreateConfigured
      BY <1>0, <3>1 DEF CreateConfigured
    <3>2. CASE CreateSystem
      <4>1. CanMakeGroup(k, "system") /\ "system" \in Groups \ {"docker"}
        BY <1>0, KernelAssumption DEF CanMakeGroup
      <4> QED  BY <1>0, <3>2, <4>1 DEF CreateSystem
    <3> QED  BY <1>5, <3>1, <3>2
  <2>3. faults' \in 0 .. MaxFaults /\ (faults' = MaxFaults => faults = MaxFaults)
    BY <1>0, <2>1, FewFinite, FaultyFacts
  <2>4. k' \in Kernels /\ OnlyGroups(k', k) /\ k'.grp["docker"].here = k.grp["docker"].here
    <3>1. CASE k' = k
      BY <1>0, <1>s, <3>1
    <3>2. CASE CanMakeGroup(k, g) /\ k' = WriteCpus(MakeGroup(k, g), g, S, bad \cap {"cpus"})
      <4>1. Wrote(MakeGroup(k, g), k, g)
        BY <1>0, <3>2, MakeGroupFacts
      <4>2. Wrote(k', MakeGroup(k, g), g)
        <5>1. CpusWritten(k', MakeGroup(k, g), g, S, bad \cap {"cpus"})
          BY <3>2, <4>1, WriteCpusFacts DEF Wrote
        <5> QED  BY <5>1 DEF CpusWritten
      <4> QED  BY <1>0, <4>1, <4>2 DEF Wrote, OnlyGroups
    <3> QED  BY <2>1, <3>1, <3>2
  <2> QED  BY <1>5, <2>3, <2>4 DEF CreateConfigured, CreateSystem
<1>6. CASE AllConfigured
  BY <1>0, <1>6, <1>s DEF AllConfigured
<1>7. CASE SealSystem
  <2>1. PICK bad \in Faulty({"excl"}) :
          /\ Failing(bad)
          /\ k' \in {k, WriteExcl(k, "system", TRUE, bad)}
    BY <1>7 DEF SealSystem
  <2>3. /\ Wrote(WriteExcl(k, "system", TRUE, bad), k, "system")
        /\ WriteExcl(k, "system", TRUE, bad).grp["system"].here = k.grp["system"].here
    <3>1. ExclWritten(WriteExcl(k, "system", TRUE, bad), k, "system", TRUE, bad)
      BY <1>0, WriteExclFacts
    <3> QED  BY <3>1 DEF ExclWritten
  <2>4. faults' \in 0 .. MaxFaults /\ (faults' = MaxFaults => faults = MaxFaults)
    BY <1>0, <2>1, FewFinite, FaultyFacts
  <2>5. k' \in Kernels /\ OnlyGroups(k', k) /\ k'.grp["docker"].here = k.grp["docker"].here
    BY <1>0, <1>w, <1>s, <2>1, <2>3
  <2> QED  BY <1>7, <2>4, <2>5 DEF SealSystem
<1> QED  BY <1>1, <1>2, <1>3, <1>4, <1>5, <1>6, <1>7 DEF Groups_

LEMMA GroupsTypes ==
  ASSUME TypeInv, MaskTyped, Groups_
  PROVE  TypeInv'
<1>0. /\ todo \subseteq Containers /\ after \in {"again", "configured"} /\ Known \subseteq Containers
      /\ stage \in Stages /\ "again" \in Stages /\ "configured" \in Stages
  BY StartupAssumption DEF TypeInv, TypeOK, Stages
<1>1. todo' \subseteq Containers /\ after' = after
  <2>1. Children(k, "docker") \subseteq Containers
    BY DEF Children
  <2> QED
    BY <1>0, <2>1 DEF Groups_, FreeContainers, OpenDocker, WidenDocker, PlaceContainer, ConfineDocker, CloseDocker,
                      CreateConfigured, AllConfigured, CreateSystem, SealSystem, work
<1>2. stage' \in Stages
  BY <1>0 DEF Groups_, FreeContainers, OpenDocker, WidenDocker, PlaceContainer, ConfineDocker, CloseDocker,
              CreateConfigured, AllConfigured, CreateSystem, SealSystem, Goto, Stages
<1>3. /\ set' \in Settings /\ MaskTyped' /\ cpu' \in 0 .. N /\ cpuretry' \in 0 .. 1 /\ naff' \subseteq CPUs
      /\ k' \in Kernels /\ faults' \in 0 .. MaxFaults /\ UNCHANGED settled
  BY GroupsFacts DEF TypeInv, TypeOK, MaskTyped
<1>4. UNCHANGED error
  BY GroupsFacts, Zenon
<1> QED  BY <1>0, <1>1, <1>2, <1>3, <1>4, PrepTypes

LEMMA TypeStep == ASSUME TypeInv, [Next]_vars PROVE TypeInv'
<1>1. CASE UNCHANGED vars
  BY <1>1 DEF vars, TypeInv, TypeOK, MaskTyped
<1>2. CASE Prepare
  BY <1>2, MaskedHere, SiblingTypes, CPUTypes, QuietTypes, PushTypes, GroupsTypes DEF Prepare
<1> QED  BY <1>1, <1>2, OptionTypes, FileTypes, AffinityTypes, CheckTypes DEF Next

(* The variables have their types, and the kernel's rules for CPU sets      *)
(* hold (Kernels), whatever the start does and whatever fails.              *)
THEOREM TypesAlways == Spec => []TypeOK
<1>1. TypeInv => TypeOK
  BY DEF TypeInv
<1> QED  BY <1>1, TypeInit, TypeStep, PTL DEF Spec

-----------------------------------------------------------------------------
(* Policy, priority and detection. *)

(* Steps after the checks; before them anything may be set. *)
Prepared == {"smt", "siblings", "whole", "online", "cpus", "detect", "throttle", "again", "slice",
             "threads", "offline", "back", "free", "open", "widen", "place", "close", "configured",
             "system", "seal", "tasks", "lock", "running"}

Consistent == /\ set.priority \in 0 .. 99
              /\ set.priority # 0 <=> set.policy \in RealTime
              /\ set.policy = "DEADLINE" => set.use_cgroup = "CGRP"

(* The inductive invariant: what the checks establish stays. *)
PolicyInv == /\ DOMAIN set = DOMAIN Default
             /\ stage \in Prepared => Consistent

(* What the preparation may change of the settings: nothing of these. *)
Kept == /\ DOMAIN set' = DOMAIN set
        /\ set'.policy = set.policy /\ set'.priority = set.priority
        /\ set'.use_cgroup = set.use_cgroup

(* The checks end the program, or leave settings that are consistent.      *)
LEMMA CheckedConsistent ==
  ASSUME NEW s, DOMAIN s = DOMAIN Default, ~InvalidSettings(s)
  PROVE  /\ DOMAIN Checked(s) = DOMAIN Default
         /\ Checked(s).priority \in 0 .. 99
         /\ Checked(s).priority # 0 <=> Checked(s).policy \in RealTime
         /\ Checked(s).policy = "DEADLINE" => Checked(s).use_cgroup = "CGRP"
<1> DEFINE n == NoFork(s)
           p == IF n.priority # 0 /\ n.policy \notin RealTime THEN [n EXCEPT !.policy = "FIFO"] ELSE n
<1>1. /\ DOMAIN n = DOMAIN Default /\ n.priority = s.priority /\ n.use_cgroup = s.use_cgroup
      /\ n.policy = "DEADLINE" => n.use_cgroup = "CGRP"
  BY DEF NoFork, Default
<1>2. s.priority \in 0 .. 99
  BY DEF InvalidSettings
<1>3. /\ DOMAIN p = DOMAIN Default /\ p.priority = s.priority /\ p.use_cgroup = s.use_cgroup
      /\ p.priority # 0 => p.policy \in RealTime
      /\ p.policy = "DEADLINE" => p.use_cgroup = "CGRP"
  BY <1>1 DEF Default, RealTime
<1>4. Checked(s) = IF p.policy \in RealTime /\ p.priority = 0 THEN [p EXCEPT !.priority = 10] ELSE p
  BY DEF Checked, Matching
<1> HIDE DEF n, p
<1> QED
  BY <1>2, <1>3, <1>4 DEF Default, RealTime

LEMMA PolicyInit == ASSUME Init PROVE PolicyInv
  BY DEF Init, PolicyInv, Prepared

(* Options and the file come before the checks. *)
LEMMA PolicyOptions == ASSUME PolicyInv, Options_ \/ ReadFile PROVE PolicyInv'
<1>1. CASE Options_
  <2>1. ASSUME NEW s, Getopt(s), DOMAIN s = DOMAIN set PROVE PolicyInv'
    BY <2>1 DEF Getopt, PolicyInv, Prepared
  <2>2. CASE OptRange
    BY <2>1, <2>2 DEF OptRange
  <2>3. CASE OptAll
    BY <2>1, <2>3 DEF OptAll
  <2>4. CASE OptDetection
    BY <2>1, <2>4 DEF OptDetection
  <2>5. CASE OptPolicy
    BY <2>1, <2>5 DEF OptPolicy
  <2>6. CASE OptPriority
    BY <2>1, <2>6 DEF OptPriority, Prioritised
  <2>7. CASE OptInterval
    BY <2>1, <2>7 DEF OptInterval
  <2>8. CASE OptSlice
    BY <2>1, <2>8 DEF OptSlice
  <2>9. CASE OptClock
    BY <2>1, <2>9 DEF OptClock
  <2>10. CASE OptLock \/ OptForce \/ OptBlind
    BY <2>1, <2>10 DEF OptLock, OptForce, OptBlind
  <2>11. CASE OptDry
    BY <2>1, <2>11 DEF OptDry
  <2>12. CASE OptHelp \/ EndOptions
    BY <2>12 DEF OptHelp, EndOptions, Goto, PolicyInv, Prepared
  <2> QED
    BY <1>1, <2>2, <2>3, <2>4, <2>5, <2>6, <2>7, <2>8, <2>9, <2>10, <2>11, <2>12 DEF Options_
<1>2. CASE ReadFile
  <2>1. DOMAIN WithFile(set, conf) = DOMAIN set
    BY DEF WithFile
  <2> QED
    BY <1>2, <2>1 DEF ReadFile, Goto, PolicyInv, Prepared
<1> QED
  BY <1>1, <1>2

LEMMA PolicyAffinity == ASSUME PolicyInv, SetDefaultAffinity PROVE PolicyInv'
<1>1. CASE UseAll
  BY <1>1, SetDefaultAffinity DEF UseAll, SetDefaultAffinity, Goto, PolicyInv, Prepared
<1>2. CASE UseRange
  BY <1>2, SetDefaultAffinity DEF UseRange, SetDefaultAffinity, Goto, PolicyInv, Prepared
<1>3. CASE Goto("failed") /\ UNCHANGED set
  BY <1>3 DEF Goto, PolicyInv, Prepared
<1> QED
  BY <1>1, <1>2, <1>3 DEF SetDefaultAffinity

LEMMA PolicyChecks == ASSUME PolicyInv, CheckSettings PROVE PolicyInv'
<1>1. CASE InvalidSettings(set)
  <2>1. DOMAIN Checked(set) = DOMAIN set
    BY DEF Checked, NoFork, Matching
  <2> QED
    BY <1>1, <2>1, CheckSettings DEF CheckSettings, Goto, PolicyInv, Prepared
<1>2. CASE ~InvalidSettings(set)
  BY <1>2, CheckedConsistent, CheckSettings DEF CheckSettings, PolicyInv, Consistent
<1> QED
  BY <1>1, <1>2

(* A step of the preparation that keeps policy, priority and detection.    *)
LEMMA KeptEnough ==
  ASSUME PolicyInv, Kept, stage \in Prepared PROVE PolicyInv'
  BY DEF PolicyInv, Kept, Consistent

LEMMA PolicyPrepare == ASSUME PolicyInv, Prepare PROVE PolicyInv'
<1>1. CASE CheckSMT \/ DisableCPUsibling \/ SiblingsOff \/ DisableSMT
  <2>1. stage \in Prepared
    BY <1>1 DEF CheckSMT, DisableCPUsibling, SiblingsOff, DisableSMT, Prepared
  <2>2. ASSUME NEW m, NEW a, set' = [set EXCEPT !.affinity_mask = m, !.affinity = a]
        PROVE  Kept
    BY <2>2 DEF Kept, PolicyInv, Default
  <2>3. ASSUME NEW m, set' = [set EXCEPT !.affinity_mask = m] \/ set' = [set EXCEPT !.affinity = m]
        PROVE  Kept
    BY <2>3 DEF Kept, PolicyInv, Default
  <2>4. ASSUME NEW on, ResetCPUmask(on) PROVE Kept
    BY <2>2, <2>4 DEF ResetCPUmask
  <2>5. ASSUME UNCHANGED set PROVE Kept
    BY <2>5 DEF Kept
  <2>6. ASSUME CheckSMT \/ SiblingsOff PROVE Kept
    BY <2>3, <2>5, <2>6 DEF CheckSMT, SiblingsOff
  <2>7. ASSUME DisableCPUsibling PROVE Kept
    BY <2>3, <2>5, <2>7 DEF DisableCPUsibling, HotplugSibling, NoTopology, OtherCPU
  <2>8. ASSUME DisableSMT PROVE Kept
    BY <2>4, <2>5, <2>8 DEF DisableSMT
  <2> QED
    BY <1>1, <2>1, <2>6, <2>7, <2>8, KeptEnough
<1>2. CASE DetectCGroup
  <2>1. CASE Kept
    BY <1>2, <2>1, KeptEnough DEF DetectCGroup, Prepared
  <2>2. CASE ~Kept
    <3>1. /\ set.policy # "DEADLINE"
          /\ set' = [set EXCEPT !.use_cgroup = IF @ = "CGRP" THEN "CNTPID" ELSE @]
      BY <1>2, <2>2 DEF DetectCGroup, NoGroup, Goto, Kept, PolicyInv, Consistent, Prepared
    <3> QED
      BY <1>2, <3>1 DEF DetectCGroup, PolicyInv, Consistent, Prepared, Default
  <2> QED
    BY <2>1, <2>2
<1>3. CASE GetRRslice
  <2>1. Kept
    BY <1>3 DEF GetRRslice, Kept, PolicyInv, Default
  <2> QED
    BY <1>3, <2>1, KeptEnough DEF GetRRslice, Prepared
<1>4. CASE ReadOnline \/ ConfigureCPU \/ MoveSelf
  BY <1>4, KeptEnough DEF ReadOnline, ConfigureCPU, TuneCPU, SkipCPU, RetryOnline, MoveSelf, Kept, Prepared
<1>5. CASE ResetRTthrottle \/ RetryRTthrottle \/ MoveThreads \/ PushOffline \/ PushOnline
  BY <1>5, KeptEnough DEF ResetRTthrottle, RetryRTthrottle, MoveThreads, PushOffline, PushOnline, Kept, Prepared
<1>6. CASE FreeContainers \/ OpenDocker \/ WidenDocker \/ PlaceContainer \/ ConfineDocker \/ CloseDocker
  BY <1>6, KeptEnough DEF FreeContainers, OpenDocker, WidenDocker, PlaceContainer, ConfineDocker, CloseDocker,
     SetGroups, Kept, Prepared
<1>7. CASE CreateConfigured \/ AllConfigured \/ CreateSystem \/ SealSystem \/ MoveTasks \/ LockMemory
  BY <1>7, KeptEnough DEF CreateConfigured, AllConfigured, CreateSystem, SealSystem, MoveTasks, LockMemory,
     SetGroups, Kept, Prepared
<1> QED
  BY <1>1, <1>2, <1>3, <1>4, <1>5, <1>6, <1>7 DEF Prepare, Groups_

(* The threads start with a policy, a priority and a detection that go     *)
(* together (process_options(), and the fallback of prepareEnvironment()). *)
THEOREM PolicyAlways == Spec => []PolicyConsistent
<1>1. Init => PolicyInv
  BY PolicyInit
<1>2. PolicyInv /\ [Next]_vars => PolicyInv'
  <2> SUFFICES ASSUME PolicyInv, [Next]_vars PROVE PolicyInv'
    OBVIOUS
  <2>1. CASE UNCHANGED vars
    BY <2>1 DEF vars, PolicyInv, Consistent
  <2> QED
    BY <2>1, PolicyOptions, PolicyAffinity, PolicyChecks, PolicyPrepare DEF Next
<1>3. PolicyInv => PolicyConsistent
  BY DEF PolicyInv, PolicyConsistent, Consistent, Prepared
<1> QED
  BY <1>1, <1>2, <1>3, PTL DEF Spec

-----------------------------------------------------------------------------
(* The CPUs for real-time tasks. *)

(* Steps before, and after, the CPUs are divided between real-time tasks   *)
(* and the system.                                                         *)
Early == {"options", "file", "affinity", "checks", "smt", "siblings", "whole", "online", "cpus"}
Divided == {"detect", "throttle", "again", "slice", "threads", "offline", "back",
            "free", "open", "widen", "place", "close", "configured",
            "system", "seal", "tasks", "lock", "running"}

(* The list and the mask are the same CPUs, but while siblings go. *)
ListInv ==
  set.dryrun = {} =>
    /\ stage \in Masked \ {"siblings", "whole"} => set.affinity = set.affinity_mask
    /\ stage = "whole" => ~(set.affinity_mask \subseteq k.online)

(* No mask loses all its CPUs, if cores have two threads. *)
MaskLeft == set.setaffinity = "user" /\ PairsOfThreads(k) /\ stage \in Masked => set.affinity_mask # {}

(* No CPU of on shares a core with one of S. *)
Lone(on, S) == \A c \in S : \A j \in on \ {c} : k.core[j] # k.core[c]

(* What disableCPUsibling() has done of the CPUs it has passed, and what   *)
(* the loop of prepareEnvironment() has found of those it has.             *)
SiblingsGone ==
  LET mask == set.affinity_mask
      many == Cardinality(mask) > 1
  IN /\ stage \in {"siblings", "cpus"} => \A c \in mask : c < cpu => c \in k.online
     /\ stage = "siblings" /\ many => Lone(k.online, {c \in mask : c < cpu})
     /\ stage \in {"online", "cpus"} /\ many => Lone(k.online, mask \cap k.online)
     /\ stage = "cpus" => naff \cap mask = {} /\ naff \subseteq k.online

(* The CPUs that are online, but for those pushCPUirqs() has switched off. *)
Used == IF stage = "back" THEN k.online \cup (set.affinity_mask \ {0}) ELSE k.online

Spread ==
  LET mask == set.affinity_mask
  IN stage \in Divided =>
       /\ mask \subseteq Used /\ naff \cap mask = {} /\ naff \subseteq Used
       /\ Cardinality(mask) > 1 => Lone(Used, mask)

(* The inductive invariant. *)
IsoInv ==
  /\ stage \in Early => Split(k)
  /\ ListInv /\ MaskLeft
  /\ set.setaffinity = "user" /\ Undisturbed => SiblingsGone /\ Spread

(* Steps that change neither the CPUs nor the mask. *)
SameCPUs ==
  /\ set'.affinity_mask = set.affinity_mask /\ set'.affinity = set.affinity
  /\ set'.setaffinity = set.setaffinity /\ set'.dryrun = set.dryrun
  /\ k'.online = k.online /\ k'.irq = k.irq /\ k'.core = k.core /\ k'.smt = k.smt /\ k'.busy = k.busy

LEMMA QuietFacts ==
  ASSUME TypeInv, MaskTyped,
         DetectCGroup \/ ResetRTthrottle \/ RetryRTthrottle \/ GetRRslice \/ MoveThreads \/ MoveTasks \/ LockMemory
  PROVE  /\ SameCPUs /\ naff' = naff /\ UNCHANGED <<earlier, conf, options>>
         /\ stage \in Divided \ {"offline", "back"}
         /\ stage' \in (Divided \ {"back"}) \cup {"failed"}
         /\ (faults' = MaxFaults => faults = MaxFaults)
         /\ ~DetectCGroup => k'.grp = k.grp
<1>0. set \in Settings /\ k \in KernelFiles /\ faults \in 0 .. MaxFaults /\ k \in Kernels
  BY DEF TypeInv, TypeOK, Kernels
<1>1. CASE DetectCGroup
  <2>1. CASE Goto("throttle") /\ UNCHANGED <<set, k, faults>>
    BY <1>1, <2>1 DEF DetectCGroup, Goto, Divided, settled, SameCPUs
  <2>2. CASE ~k.grp["docker"].here
    <3>1. PICK bad \in Faulty({"mkdir"}) : Failing(bad) /\ NoGroup(bad)
      BY <1>1, <2>2 DEF DetectCGroup, Failing
    <3>2. faults' = MaxFaults => faults = MaxFaults
      BY <1>0, <3>1, FewFinite, FaultyFacts
    <3>3. CanMakeGroup(k, "docker") /\ "docker" \in Groups
      BY KernelAssumption DEF CanMakeGroup, Groups
    <3>4. OnlyGroups(MakeGroup(k, "docker"), k)
      BY <1>0, <3>3, MakeGroupFacts DEF Wrote
    <3>5. SameCPUs /\ stage' \in {"throttle", "failed"}
      BY <1>0, <3>1, <3>4 DEF NoGroup, SameCPUs, OnlyGroups, Settings, Goto
    <3> QED  BY <1>1, <3>2, <3>5 DEF DetectCGroup, Divided, settled
  <2> QED  BY <1>1, <2>1, <2>2 DEF DetectCGroup
<1>2. CASE ResetRTthrottle \/ RetryRTthrottle
  <2>1. faults' = MaxFaults => faults = MaxFaults
    BY <1>0, <1>2, FewFinite, FaultyFacts DEF ResetRTthrottle, RetryRTthrottle
  <2>2. SameCPUs /\ k'.grp = k.grp
    BY <1>0, <1>2 DEF ResetRTthrottle, RetryRTthrottle, SameCPUs, KernelFiles
  <2>3. ~DetectCGroup \/ k'.grp = k.grp
    BY <2>2
  <2> QED  BY <1>2, <2>1, <2>2 DEF ResetRTthrottle, RetryRTthrottle, Goto, Divided, settled
<1>3. CASE GetRRslice
  <2>1. faults' = MaxFaults => faults = MaxFaults
    BY <1>0, <1>3, FewFinite, FaultyFacts DEF GetRRslice
  <2>2. SameCPUs /\ k'.grp = k.grp
    BY <1>0, <1>3 DEF GetRRslice, SameCPUs, KernelFiles, Settings
  <2> QED  BY <1>3, <2>1, <2>2 DEF GetRRslice, Goto, Divided, settled
<1>4. CASE MoveThreads
  <2>1. faults' = MaxFaults => faults = MaxFaults
    BY <1>0, <1>4, FewFinite, FaultyFacts DEF MoveThreads
  <2>2. SameCPUs /\ k'.grp = k.grp
    BY <1>0, <1>4 DEF MoveThreads, SameCPUs, KernelFiles
  <2> QED  BY <1>4, <2>1, <2>2 DEF MoveThreads, Goto, Divided, settled
<1>5. CASE MoveTasks
  <2>1. faults' = MaxFaults => faults = MaxFaults
    BY <1>0, <1>5, FewFinite, FaultyFacts DEF MoveTasks
  <2>2. SameCPUs /\ k'.grp = k.grp
    <3>1. PICK m : k' = [k EXCEPT !.moved = m]
      BY <1>5, Zenon DEF MoveTasks
    <3> QED  BY <1>0, <1>5, <3>1 DEF MoveTasks, SameCPUs, KernelFiles
  <2> QED  BY <1>5, <2>1, <2>2 DEF MoveTasks, Goto, Divided, settled
<1>6. CASE LockMemory
  <2>1. faults' = MaxFaults => faults = MaxFaults
    BY <1>0, <1>6, FewFinite, FaultyFacts DEF LockMemory
  <2>2. SameCPUs /\ k'.grp = k.grp
    BY <1>0, <1>6 DEF LockMemory, SameCPUs, KernelFiles
  <2> QED  BY <1>6, <2>1, <2>2 DEF LockMemory, Goto, Divided, settled
<1> QED  BY <1>1, <1>2, <1>3, <1>4, <1>5, <1>6

LEMMA GroupsSame ==
  ASSUME TypeInv, MaskTyped, Groups_
  PROVE  /\ SameCPUs /\ naff' = naff /\ UNCHANGED settled
         /\ stage \in Divided \ {"offline", "back"} /\ stage' \in Divided \ {"offline", "back"}
         /\ (faults' = MaxFaults => faults = MaxFaults)
<1>1. after \in {"again", "configured"}
  BY DEF TypeInv, TypeOK
<1>2. stage \in Divided \ {"offline", "back"} /\ stage' \in Divided \ {"offline", "back"}
  BY <1>1 DEF Groups_, FreeContainers, OpenDocker, WidenDocker, PlaceContainer, ConfineDocker, CloseDocker,
              CreateConfigured, AllConfigured, CreateSystem, SealSystem, Goto, Divided
<1> QED  BY <1>2, GroupsFacts DEF SameCPUs, OnlyGroups

LEMMA StageSets ==
  /\ Divided \subseteq Masked \ {"siblings", "whole"} /\ Divided \cap Early = {}
  /\ {"siblings", "online", "cpus", "whole"} \cap Divided = {}
  /\ {"checks", "smt", "siblings", "whole", "online", "cpus"} \subseteq Masked \cap Early
  /\ {"failed", "help", "quit", "crashed"} \cap (Masked \cup Early \cup Divided) = {}
  /\ {"options", "file", "affinity"} \subseteq Early /\ {"options", "file", "affinity"} \cap Masked = {}
BY DEF Divided, Masked, Early, Stages, Over

LEMMA SameSteps ==
  ASSUME TypeInv, IsoInv, SameCPUs, naff' = naff, faults' = MaxFaults => faults = MaxFaults,
         stage \in Divided \ {"back"}, stage' \in (Divided \ {"back"}) \cup {"failed"}
  PROVE  IsoInv'
<1>1. stage' \notin Early
  BY StageSets
<1>2. ListInv' /\ MaskLeft'
  BY StageSets DEF IsoInv, ListInv, MaskLeft, SameCPUs, PairsOfThreads
<1>3. SiblingsGone'
  BY StageSets DEF SiblingsGone
<1>4. Spread' \/ ~(set.setaffinity = "user" /\ Undisturbed')
  <2> SUFFICES ASSUME set.setaffinity = "user", Undisturbed', stage' \in Divided PROVE Spread'
    BY DEF Spread
  <2>1. Spread
    BY DEF IsoInv, Undisturbed, SameCPUs
  <2>2. Used' = k.online /\ Used = k.online
    BY DEF Used, SameCPUs, Divided
  <2> QED  BY <2>1, <2>2 DEF Spread, SameCPUs, Lone
<1> QED  BY <1>1, <1>2, <1>3, <1>4 DEF IsoInv, SameCPUs

(* Before the preparation. *)
LEMMA IsoInit == ASSUME Init PROVE IsoInv
<1>1. Split(k)
  BY StartupAssumption DEF Init
<1>2. stage = "options"
  BY DEF Init
<1>3. ListInv /\ MaskLeft /\ SiblingsGone /\ Spread
  BY <1>2, StageSets DEF ListInv, MaskLeft, SiblingsGone, Spread
<1> QED  BY <1>1, <1>3 DEF IsoInv

LEMMA IsoEarly ==
  ASSUME TypeInv, IsoInv, Options_ \/ ReadFile \/ SetDefaultAffinity \/ CheckSettings
  PROVE  IsoInv'
<1>0. stage \in {"options", "file", "affinity", "checks"} /\ set \in Settings
  BY DEF Options_, OptRange, OptAll, OptDetection, OptPolicy, OptPriority, OptInterval, OptSlice, OptClock,
         OptLock, OptForce, OptBlind, OptDry, OptHelp, EndOptions, Getopt, ReadFile, SetDefaultAffinity, CheckSettings,
         TypeInv, TypeOK
<1>1. Split(k)
  BY <1>0, StageSets DEF IsoInv
<1>2. CASE Options_ \/ ReadFile
  <2>1. stage' \in {"options", "file", "affinity", "quit", "failed"} /\ k' = k
    BY <1>2, <1>0 DEF Options_, OptRange, OptAll, OptDetection, OptPolicy, OptPriority, OptInterval, OptSlice, OptClock,
         OptLock, OptForce, OptBlind, OptDry, OptHelp, EndOptions, Getopt, ReadFile, Goto
  <2>2. ListInv' /\ MaskLeft' /\ SiblingsGone' /\ Spread'
    BY <2>1, StageSets DEF ListInv, MaskLeft, SiblingsGone, Spread
  <2> QED  BY <1>1, <2>1, <2>2 DEF IsoInv
<1>3. CASE SetDefaultAffinity
  <2>1. CASE stage' = "checks"
    <3>1. k' = k /\ \/ set' = [set EXCEPT !.affinity = CPUs, !.affinity_mask = CPUs] /\ set.setaffinity = "all"
                    \/ UseRange
      BY <1>3, <2>1 DEF SetDefaultAffinity, UseAll, UseRange, Goto
    <3>2. CASE set' = [set EXCEPT !.affinity = CPUs, !.affinity_mask = CPUs] /\ set.setaffinity = "all"
      <4>1. set'.affinity = set'.affinity_mask /\ set'.setaffinity = "all"
        BY <1>0, <3>2 DEF Settings
      <4>2. ListInv' /\ MaskLeft' /\ SiblingsGone' /\ Spread'
        BY <2>1, <4>1, StageSets DEF ListInv, MaskLeft, SiblingsGone, Spread
      <4> QED  BY <1>1, <3>1, <4>2 DEF IsoInv
    <3>3. CASE UseRange
      <4> DEFINE list == IF set.affinity = Unset THEN CPUList(DefaultAffinity) ELSE set.affinity
      <4>1. /\ set' = [set EXCEPT !.affinity = list, !.affinity_mask = ParseCPUMask(list),
                                  !.setaffinity = "user"]
            /\ ParseCPUMask(list) # Unset
        BY <2>1, <3>3 DEF UseRange, Goto
      <4> HIDE DEF list
      <4>2. list # {} /\ ParseCPUMask(list) = list
        BY <4>1 DEF ParseCPUMask
      <4>3. set'.affinity = list /\ set'.affinity_mask = list
        BY <1>0, <4>1, <4>2 DEF Settings
      <4>4. ListInv' /\ MaskLeft' /\ SiblingsGone' /\ Spread'
        BY <2>1, <4>2, <4>3, StageSets DEF ListInv, MaskLeft, SiblingsGone, Spread
      <4> QED  BY <1>1, <3>1, <4>4 DEF IsoInv
    <3> QED  BY <3>1, <3>2, <3>3
  <2>2. CASE stage' # "checks"
    <3>1. stage' \in {"failed", "crashed", "help"}
      BY <1>3, <2>2 DEF SetDefaultAffinity, UseAll, UseRange, Goto
    <3>2. ListInv' /\ MaskLeft' /\ SiblingsGone' /\ Spread'
      BY <3>1, StageSets DEF ListInv, MaskLeft, SiblingsGone, Spread
    <3> QED  BY <3>1, <3>2, StageSets DEF IsoInv
  <2> QED  BY <2>1, <2>2
<1>4. CASE CheckSettings
  <2>1. stage' \in {"smt", "help"} /\ k' = k /\ stage = "checks"
    BY <1>4 DEF CheckSettings, Goto
  <2>2. /\ set'.affinity = set.affinity /\ set'.affinity_mask = set.affinity_mask
        /\ set'.setaffinity = set.setaffinity /\ set'.dryrun = set.dryrun
    <3>1. NoFork(set) \in Settings /\ NoFork(set).affinity = set.affinity
          /\ NoFork(set).affinity_mask = set.affinity_mask
          /\ NoFork(set).setaffinity = set.setaffinity /\ NoFork(set).dryrun = set.dryrun
      BY <1>0 DEF NoFork, Settings, Policies
    <3>2. ASSUME NEW s \in Settings
          PROVE  /\ Matching(s).affinity = s.affinity /\ Matching(s).affinity_mask = s.affinity_mask
                 /\ Matching(s).setaffinity = s.setaffinity /\ Matching(s).dryrun = s.dryrun
      <4> DEFINE p == IF s.priority # 0 /\ s.policy \notin RealTime THEN [s EXCEPT !.policy = "FIFO"] ELSE s
      <4>1. /\ p \in Settings /\ p.affinity = s.affinity /\ p.affinity_mask = s.affinity_mask
            /\ p.setaffinity = s.setaffinity /\ p.dryrun = s.dryrun
        BY DEF Settings, Policies
      <4>2. Matching(s) = IF p.policy \in RealTime /\ p.priority = 0 THEN [p EXCEPT !.priority = 10] ELSE p
        BY DEF Matching
      <4> HIDE DEF p
      <4> QED  BY <4>1, <4>2 DEF Settings
    <3> QED  BY <1>4, <3>1, <3>2 DEF CheckSettings, Checked
  <2>3. ListInv' /\ MaskLeft'
    BY <2>1, <2>2, StageSets DEF IsoInv, ListInv, MaskLeft
  <2>4. SiblingsGone' /\ Spread'
    BY <2>1, StageSets DEF SiblingsGone, Spread
  <2> QED  BY <1>1, <2>1, <2>3, <2>4 DEF IsoInv
<1> QED  BY <1>2, <1>3, <1>4

LEMMA Fewer ==
  ASSUME NEW S \in SUBSET CPUs, NEW T \in SUBSET S, Cardinality(T) > 1
  PROVE  Cardinality(S) > 1
<1>1. IsFiniteSet(S) /\ Cardinality(S) \in Nat /\ Cardinality(T) \in Nat
  BY CPUsFinite
<1>2. Cardinality(T) <= Cardinality(S)
  BY <1>1, FS_Subset
<1> QED  BY <1>1, <1>2

LEMMA One == ASSUME NEW S \in SUBSET CPUs, NEW c \in S, Cardinality(S) > 1 PROVE S \ {c} # {}
<1>1. Cardinality({c}) = 1
  BY FS_Singleton
<1> SUFFICES ASSUME S \ {c} = {} PROVE FALSE
  OBVIOUS
<1>2. S = {c}
  OBVIOUS
<1> QED  BY <1>1, <1>2

(* disableCPUsibling(), one CPU. *)
LEMMA IsoHotplug ==
  ASSUME TypeInv, MaskTyped, IsoInv, DisableCPUsibling, HotplugSibling
  PROVE  IsoInv'
<1> DEFINE mask == set.affinity_mask
           L == Leaving(cpu)
<1>0. /\ stage = "siblings" /\ stage' = "siblings" /\ cpu \in k.online /\ cpu \in mask /\ cpu' = cpu + 1
      /\ set \in Settings /\ k \in Kernels /\ mask \in SUBSET CPUs /\ cpu \in CPUs
      /\ k.online \in SUBSET CPUs /\ faults \in 0 .. MaxFaults /\ \A c \in CPUs : c \in Nat
      /\ naff' = naff
  BY ZeroOnline DEF DisableCPUsibling, HotplugSibling, TypeInv, TypeOK, MaskTyped, CPUs
<1>1. PICK bad \in Faulty(L) : /\ Failing(bad)
                               /\ k' = IF set.dryrun # {} THEN k ELSE Offline(k, L \ bad)
  BY DEF HotplugSibling
<1>2. /\ L \in SUBSET CPUs /\ 0 \notin L /\ IsFiniteSet(L)
  BY <1>0, LeavingFacts
<1>3. faults' = MaxFaults => bad = {} /\ faults = MaxFaults
  BY <1>0, <1>1, <1>2, FaultyFacts
<1>4. /\ set'.affinity_mask = mask \ L /\ set'.setaffinity = set.setaffinity /\ set'.dryrun = set.dryrun
  BY <1>0 DEF HotplugSibling, Settings
<1>5. /\ k'.core = k.core /\ k'.smt = k.smt /\ k'.online \subseteq k.online
      /\ set.dryrun = {} => k'.online = k.online \ (L \ bad)
  <2>1. L \ bad \in SUBSET CPUs /\ 0 \notin L \ bad
    BY <1>2
  <2> QED  BY <1>0, <1>1, <2>1, OfflineFacts
<1> HIDE DEF L
<1>6. Split(k')
  BY <1>0, <1>5, StageSets DEF IsoInv, Split, Siblings
<1>7. ListInv'
  BY <1>0 DEF ListInv
<1>8. MaskLeft'
  <2> SUFFICES ASSUME set.setaffinity = "user", PairsOfThreads(k) PROVE mask \ L # {}
    BY <1>4, <1>5 DEF MaskLeft, PairsOfThreads
  <2>1. CASE cpu \notin L
    BY <1>0, <2>1
  <2>2. CASE cpu \in L
    <3>1. PICK j \in Siblings(k, cpu) : j < cpu
      BY <2>2, <1>0 DEF L, Leaving
    <3>2. Cardinality(mask) > 1
      BY <2>2, <1>0 DEF L, Leaving
    <3>3. Siblings(k, cpu) = {j}
      BY <1>0, <3>1 DEF Siblings, PairsOfThreads
    <3>4. L = {cpu}
      <4>1. j \in Nat /\ cpu \in Nat
        BY <1>0, <3>1 DEF Siblings
      <4>2. {x \in Siblings(k, cpu) : cpu < x} = {}
        BY <3>1, <3>3, <4>1
      <4>3. L \subseteq {x \in Siblings(k, cpu) : cpu < x} \cup {cpu}
        BY DEF L, Leaving
      <4> QED  BY <2>2, <4>2, <4>3
    <3> QED  BY <1>0, <3>2, <3>4, One
  <2> QED  BY <2>1, <2>2
<1>9. ASSUME set.setaffinity = "user", Undisturbed' PROVE SiblingsGone'
  <2>0. Undisturbed /\ bad = {}
    BY <1>3, <1>4, <1>9 DEF Undisturbed
  <2>1. SiblingsGone /\ k'.online = k.online \ L
    BY <1>5, <1>9, <2>0 DEF IsoInv, Undisturbed
  <2>2. \A c \in mask \ L : c < cpu + 1 => c \in k'.online
    BY <1>0, <2>1 DEF SiblingsGone
  <2>3. ASSUME Cardinality(mask \ L) > 1 PROVE Lone(k.online \ L, {c \in mask \ L : c < cpu + 1})
    <3>1. Cardinality(mask) > 1
      BY <1>0, <2>3, Fewer
    <3>2. Lone(k.online, {c \in mask : c < cpu})
      BY <1>0, <2>1, <3>1 DEF SiblingsGone
    <3> SUFFICES ASSUME NEW c \in mask \ L, c < cpu + 1, NEW j \in (k.online \ L) \ {c}, k.core[j] = k.core[c]
                 PROVE  FALSE
      BY DEF Lone
    <3>3. CASE c < cpu
      BY <3>2, <3>3 DEF Lone
    <3>4. CASE c = cpu
      <4>1. j \in Siblings(k, cpu)
        BY <3>4 DEF Siblings
      <4>2. ~(j < cpu) /\ ~(cpu < j)
        BY <1>0, <3>1, <3>4, <4>1 DEF L, Leaving
      <4> QED  BY <1>0, <3>4, <4>2
    <3> QED  BY <1>0, <3>3, <3>4
  <2> QED  BY <1>0, <1>4, <1>5, <2>1, <2>2, <2>3 DEF SiblingsGone, Lone
<1>10. Spread'
  BY <1>0, StageSets DEF Spread
<1> QED  BY <1>4, <1>6, <1>7, <1>8, <1>9, <1>10 DEF IsoInv

(* The rest of the work on siblings. *)
LEMMA IsoSiblings ==
  ASSUME TypeInv, MaskTyped, IsoInv, CheckSMT \/ DisableCPUsibling \/ SiblingsOff \/ DisableSMT
  PROVE  IsoInv'
<1> DEFINE mask == set.affinity_mask
<1>0. /\ set \in Settings /\ k \in Kernels /\ mask \in SUBSET CPUs /\ cpu \in 0 .. N
      /\ k.online \in SUBSET CPUs /\ faults \in 0 .. MaxFaults /\ N \in Nat
      /\ \A c \in CPUs : c \in Nat /\ c < N
  BY ZeroOnline, KernelAssumption DEF TypeInv, TypeOK, MaskTyped, CPUs
<1>1. CASE CheckSMT
  <2>1. /\ stage = "smt" /\ stage' \in {"online", "siblings"} /\ k' = k /\ set' = set /\ cpu' = 0
        /\ faults' = faults /\ naff' = naff
        /\ stage' = "online" => k.smt \in {"off", "unsupported"}
    BY <1>0, <1>1 DEF CheckSMT, SMTStatus, Goto, Kernels, KernelFiles
  <2>2. Split(k) /\ ListInv' /\ MaskLeft'
    BY <2>1, StageSets DEF IsoInv, ListInv, MaskLeft
  <2>3. SiblingsGone'
    <3>1. \A c \in mask : ~(c < 0)
      BY <1>0
    <3>2. stage' = "online" => Lone(k.online, mask \cap k.online)
      BY <2>1, <2>2 DEF Split, Lone, Siblings
    <3> QED  BY <2>1, <3>1, <3>2 DEF SiblingsGone, Lone
  <2>4. Spread'
    BY <2>1, StageSets DEF Spread
  <2> QED  BY <2>1, <2>2, <2>3, <2>4 DEF IsoInv
<1>2. CASE DisableCPUsibling
  <2>0. stage = "siblings"
    BY <1>2 DEF DisableCPUsibling
  <2>1. CASE HotplugSibling
    BY <1>2, <2>1, IsoHotplug
  <2>2. CASE NoTopology
    <3>1. stage' = "whole" /\ k' = k /\ set' = set /\ ~(mask \subseteq k.online)
      BY <2>2 DEF NoTopology, Goto
    <3>2. SiblingsGone' /\ Spread'
      BY <3>1, StageSets DEF SiblingsGone, Spread
    <3>3. Split(k) /\ ListInv' /\ MaskLeft'
      BY <2>0, <3>1, StageSets DEF IsoInv, ListInv, MaskLeft
    <3> QED  BY <3>1, <3>2, <3>3 DEF IsoInv
  <2>3. CASE OtherCPU
    <3>1. /\ stage' = "siblings" /\ k' = k /\ set' = set /\ faults' = faults /\ cpu \notin mask /\ cpu' = cpu + 1
          /\ naff' = naff
      BY <1>2, <2>0, <2>3 DEF DisableCPUsibling, OtherCPU
    <3>2. \A c \in mask : c < cpu + 1 => c < cpu
      BY <1>0, <3>1
    <3>3. {c \in mask : c < cpu + 1} = {c \in mask : c < cpu}
      BY <1>0, <3>2
    <3>4. SiblingsGone => SiblingsGone'
      BY <2>0, <3>1, <3>2, <3>3 DEF SiblingsGone, Lone
    <3>5. Spread'
      BY <3>1, StageSets DEF Spread
    <3>6. Split(k) /\ ListInv' /\ MaskLeft'
      BY <2>0, <3>1, StageSets DEF IsoInv, ListInv, MaskLeft
    <3> QED  BY <3>1, <3>4, <3>5, <3>6 DEF IsoInv, Undisturbed
  <2> QED  BY <1>2, <2>1, <2>2, <2>3 DEF DisableCPUsibling
<1>3. CASE SiblingsOff
  <2>1. /\ stage = "siblings" /\ stage' = "online" /\ cpu = N /\ k' = k /\ faults' = faults /\ naff' = naff
        /\ set'.affinity = mask /\ set'.affinity_mask = mask
        /\ set'.setaffinity = set.setaffinity /\ set'.dryrun = set.dryrun
    BY <1>0, <1>3, ListMeansMask DEF SiblingsOff, Goto, Settings
  <2>2. Split(k) /\ ListInv' /\ MaskLeft'
    BY <2>1, StageSets DEF IsoInv, ListInv, MaskLeft
  <2>3. SiblingsGone => SiblingsGone'
    <3>1. {c \in mask : c < cpu} = mask
      BY <1>0, <2>1
    <3> QED  BY <2>1, <3>1 DEF SiblingsGone, Lone
  <2>4. Spread'
    BY <2>1, StageSets DEF Spread
  <2> QED  BY <2>1, <2>2, <2>3, <2>4 DEF IsoInv, Undisturbed
<1>4. CASE DisableSMT
  <2>0. stage = "whole" /\ naff' = naff
    BY <1>4 DEF DisableSMT
  <2>1. CASE /\ "SMTOFF" \in set.dryrun /\ stage' = "online" /\ UNCHANGED <<set, k, faults>>
    <3>1. Split(k) /\ ListInv' /\ MaskLeft'
      BY <2>0, <2>1, StageSets DEF IsoInv, ListInv, MaskLeft
    <3>2. ~Undisturbed'
      BY <2>1 DEF Undisturbed
    <3> QED  BY <2>1, <3>1, <3>2 DEF IsoInv
  <2>2. CASE stage' \in {"failed", "help"}
    <3>1. ListInv' /\ MaskLeft' /\ SiblingsGone' /\ Spread'
      BY <2>2, StageSets DEF ListInv, MaskLeft, SiblingsGone, Spread
    <3> QED  BY <2>2, <3>1, StageSets DEF IsoInv
  <2>3. CASE k' = SMTOff(k) /\ ResetCPUmask(SMTOff(k).online) /\ stage' = "online"
    <3> DEFINE left == mask \cap k'.online
               list == IF left \notin {mask, {}} THEN CPUList(left) ELSE set.affinity
    <3>1. /\ k' \in Kernels /\ k'.smt = "off" /\ k'.core = k.core /\ Split(k')
          /\ k'.online \subseteq k.online
      BY <1>0, <2>3, SMTOffFacts
    <3>2. left \in SUBSET CPUs
      BY <1>0
    <3>3. /\ set' = [set EXCEPT !.affinity_mask = left, !.affinity = list]
          /\ left # mask => left # {}
      BY <1>0, <2>3 DEF ResetCPUmask, Goto, Settings
    <3>4. left # {} /\ left # mask => list = left
      BY <3>2, ListMeansMask
    <3> HIDE DEF left, list
    <3>5. /\ set'.affinity_mask = left /\ set'.affinity = list
          /\ set'.setaffinity = set.setaffinity /\ set'.dryrun = set.dryrun
      BY <1>0, <3>3 DEF Settings
    <3>6. ListInv'
      <4> SUFFICES ASSUME set.dryrun = {} PROVE list = left
        BY <2>3, <3>5 DEF ListInv
      <4>1. ~(mask \subseteq k.online)
        BY <2>0 DEF IsoInv, ListInv
      <4>2. left # mask
        BY <3>1, <4>1 DEF left
      <4> QED  BY <3>3, <3>4, <4>2
    <3>7. MaskLeft'
      BY <2>0, <3>1, <3>3, <3>5, StageSets DEF IsoInv, MaskLeft, PairsOfThreads
    <3>8. SiblingsGone'
      <4>1. \A c \in left \cap k'.online : \A j \in k'.online \ {c} : k'.core[j] # k'.core[c]
        BY <3>1 DEF Split, Siblings
      <4> QED  BY <2>3, <3>5, <4>1 DEF SiblingsGone, Lone
    <3>9. Spread'
      BY <2>3, StageSets DEF Spread
    <3> QED  BY <3>1, <3>6, <3>7, <3>8, <3>9 DEF IsoInv
  <2>4. \/ /\ "SMTOFF" \in set.dryrun /\ stage' = "online" /\ UNCHANGED <<set, k, faults>>
        \/ stage' \in {"failed", "help"}
        \/ k' = SMTOff(k) /\ ResetCPUmask(SMTOff(k).online) /\ stage' = "online"
    BY <1>4 DEF DisableSMT, ResetCPUmask, Goto
  <2> QED  BY <2>1, <2>2, <2>3, <2>4
<1> QED  BY <1>1, <1>2, <1>3, <1>4

(* The loop over the CPUs. *)
LEMMA IsoCPUs ==
  ASSUME TypeInv, MaskTyped, IsoInv, ReadOnline \/ ConfigureCPU \/ MoveSelf
  PROVE  IsoInv'
<1> DEFINE mask == set.affinity_mask
<1>0. /\ set \in Settings /\ k \in Kernels /\ mask \in SUBSET CPUs /\ cpu \in 0 .. N
      /\ k.online \in SUBSET CPUs /\ faults \in 0 .. MaxFaults /\ N \in Nat
      /\ k \in KernelFiles /\ \A c \in CPUs : c \in Nat /\ c < N
  BY ZeroOnline, KernelAssumption DEF TypeInv, TypeOK, MaskTyped, CPUs
<1>f. ASSUME stage' = "failed" PROVE IsoInv'
  <2>1. ListInv' /\ MaskLeft' /\ SiblingsGone' /\ Spread'
    BY <1>f, StageSets DEF ListInv, MaskLeft, SiblingsGone, Spread
  <2> QED  BY <1>f, <2>1, StageSets DEF IsoInv
<1>1. CASE ReadOnline
  <2>1. CASE stage' = "cpus"
    <3>1. /\ stage = "online" /\ k' = k /\ set' = set /\ cpu' = 0 /\ naff' = {}
          /\ faults' = MaxFaults => faults = MaxFaults
      BY <1>0, <1>1, FewFinite, FaultyFacts DEF ReadOnline
    <3>2. Split(k) /\ ListInv' /\ MaskLeft'
      BY <2>1, <3>1, StageSets DEF IsoInv, ListInv, MaskLeft
    <3>3. SiblingsGone => SiblingsGone'
      BY <1>0, <2>1, <3>1 DEF SiblingsGone, Lone
    <3>4. Spread'
      BY <2>1, StageSets DEF Spread
    <3> QED  BY <3>1, <3>2, <3>3, <3>4 DEF IsoInv, Undisturbed
  <2> QED  BY <1>1, <1>f, <2>1 DEF ReadOnline, Goto
<1>2. CASE ConfigureCPU
  <2>0. stage = "cpus" /\ cpu < N
    BY <1>2 DEF ConfigureCPU
  <2>s. Split(k)
    BY <2>0, StageSets DEF IsoInv
  <2>1. CASE TuneCPU
    <3>0. set' = set /\ cpu \in k.online
      BY <2>1 DEF TuneCPU
    <3>1. PICK bad \in Faulty({"gov", "freq", "qos", "turbo"}) :
            /\ Failing(bad)
            /\ IF TuneFails(bad) THEN Goto("failed") /\ UNCHANGED <<k, cpu, naff>>
               ELSE /\ k' = Tuned(bad) /\ cpu' = cpu + 1 /\ UNCHANGED stage
                    /\ naff' = IF cpu \in mask THEN naff ELSE naff \cup {cpu}
      BY <2>1 DEF TuneCPU
    <3>2. CASE ~TuneFails(bad)
      <4>1. faults' = MaxFaults => faults = MaxFaults
        BY <1>0, <3>1, FewFinite, FaultyFacts
      <4>2. k'.online = k.online /\ k'.core = k.core /\ k'.smt = k.smt
        <5>1. cpu \in CPUs
          BY <1>0, <3>0
        <5> QED  BY <1>0, <3>1, <3>2, <5>1, TunedFacts
      <4>3. Split(k')
        BY <2>s, <4>2 DEF Split, Siblings
      <4>4. ListInv' /\ MaskLeft'
        BY <2>0, <3>0, <3>1, <3>2, <4>2, StageSets DEF IsoInv, ListInv, MaskLeft, PairsOfThreads
      <4>5. SiblingsGone => SiblingsGone'
        <5>1. \A c \in mask : c < cpu + 1 => c < cpu \/ c = cpu
          BY <1>0
        <5> QED  BY <1>0, <2>0, <3>0, <3>1, <3>2, <4>2, <5>1 DEF SiblingsGone, Lone
      <4>6. Spread'
        BY <2>0, <3>1, <3>2, StageSets DEF Spread
      <4> QED  BY <3>0, <4>1, <4>3, <4>4, <4>5, <4>6 DEF IsoInv, Undisturbed
    <3> QED  BY <1>f, <3>1, <3>2 DEF Goto
  <2>2. CASE SkipCPU
    <3>1. /\ k' = k /\ set' = set /\ faults' = faults /\ stage' = stage /\ cpu' = cpu + 1 /\ naff' = naff
          /\ cpu \notin mask
      BY <2>2 DEF SkipCPU
    <3>2. ListInv' /\ MaskLeft'
      BY <2>0, <3>1, StageSets DEF IsoInv, ListInv, MaskLeft
    <3>3. SiblingsGone => SiblingsGone'
      <4>1. \A c \in mask : c < cpu + 1 => c < cpu
        BY <1>0, <3>1
      <4> QED  BY <2>0, <3>1, <4>1 DEF SiblingsGone, Lone
    <3>4. Spread'
      BY <2>0, <3>1, StageSets DEF Spread
    <3> QED  BY <2>s, <3>1, <3>2, <3>3, <3>4 DEF IsoInv, Undisturbed
  <2>3. CASE RetryOnline
    <3>1. CASE stage' = "smt"
      <4>1. PICK bad \in Faulty(OnlineWrites) :
              /\ ~set.blindrun => CanResetOnline(bad)
              /\ k' = IF set.blindrun THEN k ELSE CPUsOn(bad)
        BY <2>3, <3>1 DEF RetryOnline, Goto
      <4>2. Split(k') /\ k'.core = k.core
        BY <2>s, <4>1, CPUsOnFacts DEF Split
      <4>3. set' = set
        BY <2>3 DEF RetryOnline
      <4>4. ListInv' /\ MaskLeft'
        BY <2>0, <3>1, <4>2, <4>3, StageSets DEF IsoInv, ListInv, MaskLeft, PairsOfThreads
      <4>5. SiblingsGone' /\ Spread'
        BY <3>1, StageSets DEF SiblingsGone, Spread
      <4> QED  BY <4>2, <4>4, <4>5 DEF IsoInv
    <3>2. stage' \in {"smt", "failed"}
      BY <2>3 DEF RetryOnline, Goto
    <3> QED  BY <1>f, <3>1, <3>2
  <2> QED  BY <1>2, <2>1, <2>2, <2>3 DEF ConfigureCPU
<1>3. CASE MoveSelf
  <2>1. stage = "cpus" /\ cpu = N /\ set' = set
    BY <1>3 DEF MoveSelf
  <2>2. CASE stage' = "detect"
    <3>1. PICK bad \in Faulty({"own"}) :
            Failing(bad) /\ k' = IF bad = {} /\ naff' # {} THEN [k EXCEPT !.own = naff'] ELSE k
      BY <1>3, <2>2 DEF MoveSelf, Goto
    <3>2. faults' = MaxFaults => faults = MaxFaults
      BY <1>0, <3>1, FewFinite, FaultyFacts
    <3>3. k'.online = k.online /\ k'.core = k.core
      BY <1>0, <3>1 DEF KernelFiles
    <3>4. ListInv' /\ MaskLeft'
      BY <2>1, <2>2, <3>3, StageSets DEF IsoInv, ListInv, MaskLeft, PairsOfThreads
    <3>5. SiblingsGone'
      BY <2>2 DEF SiblingsGone
    <3>6. ASSUME set.setaffinity = "user", Undisturbed' PROVE Spread'
      <4>1. SiblingsGone /\ naff' = naff
        BY <1>3, <2>1, <3>2, <3>6 DEF IsoInv, Undisturbed, MoveSelf
      <4>2. mask \subseteq k.online /\ mask \cap k.online = mask
        BY <1>0, <2>1, <4>1 DEF SiblingsGone
      <4>3. Used' = k.online
        BY <2>2, <3>3 DEF Used
      <4> QED  BY <2>1, <3>3, <4>1, <4>2, <4>3 DEF SiblingsGone, Spread, Lone
    <3>7. stage' \notin Early
      BY <2>2 DEF Early
    <3> QED  BY <2>1, <3>4, <3>5, <3>6, <3>7 DEF IsoInv
  <2>3. stage' \in {"detect", "failed"}
    BY <1>3 DEF MoveSelf, Goto
  <2> QED  BY <1>f, <2>2, <2>3
<1> QED  BY <1>1, <1>2, <1>3

(* All the CPUs for real-time tasks go, and come back. *)
LEMMA PushFacts ==
  ASSUME TypeInv, MaskTyped, PushOffline \/ PushOnline, stage' # "failed"
  PROVE  /\ PushOffline => /\ stage = "offline" /\ stage' = "back"
                           /\ k' = Offline(k, set.affinity_mask \ {0})
         /\ PushOnline  => /\ stage = "back" /\ stage' = "free"
                           /\ k' = Online(k, set.affinity_mask \ {0})
         /\ (faults' = MaxFaults => faults = MaxFaults)
         /\ set.affinity_mask \ {0} \in SUBSET CPUs /\ UNCHANGED <<settled, work, set, naff>>
<1>0. faults \in 0 .. MaxFaults
  BY DEF TypeInv, TypeOK
<1>1. set.affinity_mask \ {0} \in SUBSET CPUs /\ IsFiniteSet(set.affinity_mask \ {0})
  BY CPUsFinite DEF MaskTyped
<1>2. CASE PushOffline
  <2>1. PICK bad \in Faulty(set.affinity_mask \ {0}) :
          /\ Failing(bad) /\ k' = Offline(k, {c \in set.affinity_mask \ {0} : \A b \in bad : b < c})
          /\ Goto(IF bad = {} THEN "back" ELSE "failed")
    BY <1>2 DEF PushOffline
  <2>2. bad = {} /\ stage' = "back"
    BY <2>1 DEF Goto
  <2>3. {c \in set.affinity_mask \ {0} : \A b \in bad : b < c} = set.affinity_mask \ {0}
    BY <2>2
  <2> QED  BY <1>0, <1>1, <1>2, <2>1, <2>2, <2>3, FaultyFacts DEF PushOffline, PushOnline
<1>3. CASE PushOnline
  <2>1. PICK bad \in Faulty(set.affinity_mask \ {0}) :
          /\ Failing(bad) /\ k' = Online(k, {c \in set.affinity_mask \ {0} : \A b \in bad : c < b})
          /\ Goto(IF bad = {} THEN "free" ELSE "failed")
    BY <1>3 DEF PushOnline
  <2>2. bad = {} /\ stage' = "free"
    BY <2>1 DEF Goto
  <2>3. {c \in set.affinity_mask \ {0} : \A b \in bad : c < b} = set.affinity_mask \ {0}
    BY <2>2
  <2> QED  BY <1>0, <1>1, <1>3, <2>1, <2>2, <2>3, FaultyFacts DEF PushOffline, PushOnline
<1> QED  BY <1>2, <1>3

LEMMA IsoPush ==
  ASSUME TypeInv, MaskTyped, IsoInv, PushOffline \/ PushOnline
  PROVE  IsoInv'
<1> DEFINE mask == set.affinity_mask
<1>0. /\ k \in Kernels /\ mask \in SUBSET CPUs /\ k.online \in SUBSET CPUs /\ 0 \in k.online
  BY ZeroOnline DEF TypeInv, TypeOK, MaskTyped
<1>1. CASE stage' = "failed"
  <2>1. ListInv' /\ MaskLeft' /\ SiblingsGone' /\ Spread'
    BY <1>1, StageSets DEF ListInv, MaskLeft, SiblingsGone, Spread
  <2> QED  BY <1>1, <2>1, StageSets DEF IsoInv
<1>2. CASE stage' # "failed"
  <2>1. /\ stage \in {"offline", "back"} /\ stage' \in {"back", "free"}
        /\ (faults' = MaxFaults => faults = MaxFaults)
        /\ set' = set /\ naff' = naff
    BY <1>2, PushFacts
  <2>2. /\ k'.core = k.core
        /\ set.setaffinity = "user" /\ Undisturbed => Used' = Used
    <3>1. CASE PushOffline
      <4>1. /\ stage = "offline" /\ stage' = "back" /\ k' = Offline(k, mask \ {0}) /\ mask \ {0} \in SUBSET CPUs
        BY <1>2, <3>1, PushFacts
      <4>2. k'.core = k.core /\ k'.online = k.online \ (mask \ {0})
        BY <1>0, <4>1, OfflineFacts
      <4>3. set.setaffinity = "user" /\ Undisturbed => mask \subseteq k.online
        BY <4>1 DEF IsoInv, Spread, Divided, Used
      <4> QED  BY <2>1, <4>1, <4>2, <4>3 DEF Used
    <3>2. CASE PushOnline
      <4>1. /\ stage = "back" /\ stage' = "free" /\ k' = Online(k, mask \ {0}) /\ mask \ {0} \in SUBSET CPUs
        BY <1>2, <3>2, PushFacts
      <4>2. k'.core = k.core /\ k'.online = k.online \cup (mask \ {0})
        BY <1>0, <4>1, OnlineFacts
      <4> QED  BY <2>1, <4>1, <4>2 DEF Used
    <3> QED  BY <3>1, <3>2
  <2>3. stage \in Divided /\ stage' \in Divided
    BY <2>1 DEF Divided
  <2>4. ListInv' /\ MaskLeft' /\ SiblingsGone'
    BY <2>1, <2>2, <2>3, StageSets DEF IsoInv, ListInv, MaskLeft, SiblingsGone, PairsOfThreads
  <2>5. set.setaffinity = "user" /\ Undisturbed' => Spread'
    BY <2>1, <2>2, <2>3 DEF IsoInv, Spread, Lone, Undisturbed
  <2>6. stage' \notin Early
    BY <2>3, StageSets
  <2> QED  BY <2>1, <2>4, <2>5, <2>6 DEF IsoInv
<1> QED  BY <1>1, <1>2

LEMMA IsoStep == ASSUME TypeInv, IsoInv, [Next]_vars PROVE IsoInv'
<1>1. CASE UNCHANGED vars
  BY <1>1 DEF vars, IsoInv, ListInv, MaskLeft, SiblingsGone, Spread, Used, Lone, Undisturbed
<1>2. CASE Prepare
  <2>0. MaskTyped
    BY <1>2, MaskedHere
  <2>1. CASE Groups_
    BY <2>0, <2>1, GroupsSame, SameSteps
  <2>2. CASE DetectCGroup \/ ResetRTthrottle \/ RetryRTthrottle \/ GetRRslice \/ MoveThreads \/ MoveTasks \/ LockMemory
    <3>1. /\ SameCPUs /\ naff' = naff /\ (faults' = MaxFaults => faults = MaxFaults)
          /\ stage \in Divided \ {"back"} /\ stage' \in (Divided \ {"back"}) \cup {"failed"}
      BY <2>0, <2>2, QuietFacts
    <3> QED  BY <3>1, SameSteps
  <2> QED  BY <1>2, <2>0, <2>1, <2>2, IsoSiblings, IsoCPUs, IsoPush DEF Prepare
<1> QED  BY <1>1, <1>2, IsoEarly DEF Next

(* When the threads start, and nothing failed, the CPUs for real-time       *)
(* tasks are online, not the system's, and alone on their cores, for any    *)
(* number of CPUs, any threads per core, SMT by CPU or as a whole, and      *)
(* with the retry.                                                          *)
THEOREM IsolatedAlways == Spec => []Isolated
<1>1. TypeInv /\ IsoInv => Isolated
  <2> SUFFICES ASSUME TypeInv, IsoInv, stage = "running", set.setaffinity = "user", Undisturbed
               PROVE  /\ set.affinity_mask \subseteq k.online /\ set.affinity_mask \cap naff = {}
                      /\ PairsOfThreads(k) => set.affinity_mask # {}
                      /\ Cardinality(set.affinity_mask) > 1 =>
                           \A c \in set.affinity_mask : Siblings(k, c) = {}
    BY DEF Isolated
  <2>1. Spread /\ Used = k.online /\ stage \in Divided /\ stage \in Masked
    BY DEF IsoInv, Used, Divided, Masked, Stages, Over
  <2> QED  BY <2>1 DEF Spread, IsoInv, MaskLeft, Lone, Siblings
<1> QED  BY <1>1, TypeInit, TypeStep, IsoInit, IsoStep, PTL DEF Spec

-----------------------------------------------------------------------------
(* Interrupts. *)

(* resetContCGroups() and setContCGroups() run early only after a failure; *)
(* after says which time it is.                                            *)
AfterInv == stage \in Early \cup {"detect", "throttle", "again", "slice", "threads"} => after = "again"

Late == \/ stage \in {"back", "configured", "system", "seal", "tasks", "lock", "running"}
        \/ stage \in {"free", "open", "widen", "place", "close"} /\ after = "configured"

IrqInv ==
  /\ AfterInv
  /\ Late /\ k.grp["docker"].here /\ k.busy = {} /\ counted => k.irq \cap (set.affinity_mask \ {0}) = {}

LEMMA IrqInit == ASSUME Init PROVE IrqInv
BY DEF Init, IrqInv, AfterInv, Late

LEMMA EarlyStages ==
  ASSUME TypeInv, Options_ \/ ReadFile \/ SetDefaultAffinity \/ CheckSettings
  PROVE  /\ stage \in Early /\ stage' \in Early \cup {"failed", "help", "quit", "crashed"}
         /\ UNCHANGED <<work, earlier>>
<1>1. CASE Options_
  BY <1>1 DEF Options_, OptRange, OptAll, OptDetection, OptPolicy, OptPriority, OptInterval, OptSlice, OptClock,
       OptLock, OptForce, OptBlind, OptDry, OptHelp, EndOptions, Getopt, Goto, Early, settled
<1>2. CASE ReadFile
  BY <1>2 DEF ReadFile, Goto, Early, settled
<1>3. CASE SetDefaultAffinity
  BY <1>3 DEF SetDefaultAffinity, UseAll, UseRange, Goto, Early, settled
<1>4. CASE CheckSettings
  BY <1>4 DEF CheckSettings, Goto, Early, settled
<1> QED  BY <1>1, <1>2, <1>3, <1>4

LEMMA CPUStages ==
  ASSUME TypeInv, CheckSMT \/ DisableCPUsibling \/ SiblingsOff \/ DisableSMT \/ ReadOnline \/ ConfigureCPU \/ MoveSelf
  PROVE  /\ stage \in Early /\ stage' \in Early \cup {"detect", "failed", "help"}
         /\ UNCHANGED <<work, earlier>>
<1>1. CASE CheckSMT \/ DisableCPUsibling \/ SiblingsOff \/ DisableSMT
  BY <1>1 DEF CheckSMT, DisableCPUsibling, HotplugSibling, NoTopology, OtherCPU, SiblingsOff, DisableSMT,
       ResetCPUmask, Goto, Early, settled
<1>2. CASE ReadOnline \/ ConfigureCPU \/ MoveSelf
  BY <1>2 DEF ReadOnline, ConfigureCPU, TuneCPU, SkipCPU, RetryOnline, MoveSelf, Goto, Early, settled
<1> QED  BY <1>1, <1>2

LEMMA IrqStep == ASSUME TypeInv, IrqInv, [Next]_vars PROVE IrqInv'
<1>1. CASE UNCHANGED vars
  BY <1>1 DEF vars, IrqInv, AfterInv, Late
<1>2. CASE stage \in Early /\ stage' \in Early \cup {"detect", "failed", "help", "quit", "crashed"} /\ UNCHANGED work
  BY <1>2 DEF IrqInv, AfterInv, Late, Early, work
<1>3. CASE Prepare
  <2>0. MaskTyped /\ k \in Kernels /\ after \in {"again", "configured"}
    BY <1>3, MaskedHere DEF TypeInv, TypeOK
  <2>1. CASE Groups_
    <3>1. /\ SameCPUs /\ k'.grp["docker"].here = k.grp["docker"].here
      BY <2>0, <2>1, GroupsSame, GroupsFacts
    <3>3. counted' = counted
      BY <2>0, <2>1, GroupsSame DEF settled
    <3>2. after' = after /\ (Late' => Late) /\ AfterInv'
      <4>1. CASE FreeContainers \/ OpenDocker \/ WidenDocker \/ PlaceContainer \/ ConfineDocker
        BY <4>1 DEF FreeContainers, OpenDocker, WidenDocker, PlaceContainer, ConfineDocker, Goto, Late, AfterInv, Early, work
      <4>2. CASE CloseDocker
        BY <2>0, <4>2 DEF CloseDocker, Goto, Late, AfterInv, Early
      <4>3. CASE CreateConfigured \/ AllConfigured \/ CreateSystem \/ SealSystem
        BY <4>3 DEF CreateConfigured, AllConfigured, CreateSystem, SealSystem, Goto, Late, AfterInv, Early, work
      <4> QED  BY <2>1, <4>1, <4>2, <4>3 DEF Groups_
    <3> QED  BY <3>1, <3>2, <3>3 DEF IrqInv, SameCPUs
  <2>2. CASE DetectCGroup \/ ResetRTthrottle \/ RetryRTthrottle \/ GetRRslice
    <3>1. stage \in {"detect", "throttle", "again", "slice"} /\ UNCHANGED work
          /\ stage' \in {"throttle", "slice", "free", "threads", "failed"}
      BY <2>2 DEF DetectCGroup, NoGroup, ResetRTthrottle, RetryRTthrottle, GetRRslice, Goto
    <3> QED  BY <3>1 DEF IrqInv, AfterInv, Late, Early, work
  <2>3. CASE MoveThreads
    <3>1. SameCPUs /\ k'.grp = k.grp
      BY <2>0, <2>3, QuietFacts DEF MoveThreads, DetectCGroup
    <3>2. stage' = IF k.grp["docker"].here /\ k.busy = {} /\ counted' THEN "offline" ELSE "free"
      BY <2>3 DEF MoveThreads, Goto
    <3> QED  BY <3>1, <3>2 DEF IrqInv, AfterInv, Late, Early, SameCPUs
  <2>4. CASE MoveTasks \/ LockMemory
    <3>1. SameCPUs /\ k'.grp = k.grp
      BY <2>0, <2>4, QuietFacts DEF MoveTasks, LockMemory, DetectCGroup
    <3>2. /\ stage \in {"tasks", "lock"} /\ stage' \in {"lock", "running", "failed"} /\ after' = after
          /\ counted' = counted
      BY <2>4 DEF MoveTasks, LockMemory, Goto, work, settled
    <3> QED  BY <3>1, <3>2 DEF IrqInv, AfterInv, Late, Early, SameCPUs
  <2>5. CASE PushOffline \/ PushOnline
    <3>1. CASE stage' = "failed"
      BY <3>1 DEF IrqInv, AfterInv, Late, Early
    <3>2. CASE PushOffline /\ stage' # "failed"
      <4>1. /\ stage' = "back" /\ k' = Offline(k, set.affinity_mask \ {0}) /\ set.affinity_mask \ {0} \in SUBSET CPUs
            /\ set' = set
        BY <2>0, <3>2, PushFacts
      <4>2. k'.irq \cap (set.affinity_mask \ {0}) = {}
        BY <2>0, <4>1, OfflineFacts
      <4> QED  BY <4>1, <4>2 DEF IrqInv, AfterInv, Early
    <3>3. CASE PushOnline /\ stage' # "failed"
      <4>1. /\ stage = "back" /\ stage' = "free" /\ k' = Online(k, set.affinity_mask \ {0})
            /\ set.affinity_mask \ {0} \in SUBSET CPUs /\ set' = set /\ counted' = counted
        BY <2>0, <3>3, PushFacts DEF settled
      <4>2. k'.irq = k.irq /\ k'.busy = k.busy /\ k'.grp = k.grp
        BY <2>0, <4>1, OnlineFacts
      <4> QED  BY <4>1, <4>2 DEF IrqInv, AfterInv, Late, Early
    <3> QED  BY <2>5, <3>1, <3>2, <3>3
  <2>6. CASE CheckSMT \/ DisableCPUsibling \/ SiblingsOff \/ DisableSMT \/ ReadOnline \/ ConfigureCPU \/ MoveSelf
    BY <1>2, <2>6, CPUStages
  <2> QED  BY <1>3, <2>1, <2>2, <2>3, <2>4, <2>5, <2>6 DEF Prepare
<1>4. CASE Options_ \/ ReadFile \/ SetDefaultAffinity \/ CheckSettings
  BY <1>2, <1>4, EarlyStages
<1> QED  BY <1>1, <1>3, <1>4 DEF Next

(* If no container ran when the program started, and that could be read     *)
(* (countCGroupTasks()), no interrupt is left on the CPUs for real-time     *)
(* tasks that can be switched (pushCPUirqs()), on whatever CPUs they were,  *)
(* and whatever else failed without ending the program.                     *)
THEOREM IrqsAlways == Spec => []IrqsAway
<1>1. IrqInv => IrqsAway
  BY DEF IrqInv, IrqsAway, Late
<1> QED  BY <1>1, TypeInit, TypeStep, IrqInit, IrqStep, PTL DEF Spec

-----------------------------------------------------------------------------
(* The division of the CPUs. *)

(* Until docker's set is widened no CPU set gains a CPU. *)
SetsKept ==
  /\ k.grp["system"].here = earlier.grp["system"].here
  /\ k.grp["system"].cpus \subseteq earlier.grp["system"].cpus
  /\ k.grp["docker"].cpus \subseteq earlier.grp["docker"].cpus

(* Work on the containers before the slice follows a failure. *)
BeforeInv ==
  /\ stage \in Early \cup {"detect", "throttle"} => SetsKept
  /\ Undisturbed =>
       /\ stage \in {"slice", "threads", "offline", "back", "free", "open", "widen"} => SetsKept
       /\ stage # "again"
       /\ stage \in {"offline", "back", "free", "open", "widen", "place", "close"} => after = "configured"

(* What Partition assumes. *)
Planned ==
  /\ set.setaffinity = "user" /\ Undisturbed
  /\ set.affinity_mask # {} /\ naff # {} /\ k.grp["docker"].here
  /\ SameDivision(earlier, set.affinity_mask)

(* What the CPU sets are like after each step. *)
NoneExclusive  == \A c \in Children(k, "docker") : ~k.grp[c].excl
SystemAside    == k.grp["system"].here => k.grp["system"].cpus \cap set.affinity_mask = {}
Placed(rest)   == \A c \in Children(k, "docker") \ rest : k.grp[c].cpus = set.affinity_mask
DockerDivided  == k.grp["docker"].cpus = set.affinity_mask /\ Placed({})
SystemDivided  == k.grp["system"].here /\ k.grp["system"].cpus = naff

Division ==
  /\ stage = "open"  => NoneExclusive
  /\ stage = "widen" => NoneExclusive /\ ~k.grp["docker"].excl
  /\ stage = "place" => /\ NoneExclusive /\ ~k.grp["docker"].excl /\ SystemAside
                        /\ set.affinity_mask \subseteq k.grp["docker"].cpus
                        /\ todo \subseteq Children(k, "docker") /\ Placed(todo)
  /\ stage = "close" => NoneExclusive /\ ~k.grp["docker"].excl /\ SystemAside /\ DockerDivided
  /\ stage \in {"configured", "system"} =>
       NoneExclusive /\ k.grp["docker"].excl /\ SystemAside /\ DockerDivided
  /\ stage = "seal"  => k.grp["docker"].excl /\ DockerDivided /\ SystemDivided
  /\ stage = "tasks" => k.grp["docker"].excl /\ DockerDivided /\ SystemDivided /\ k.grp["system"].excl
  /\ stage \in {"lock", "running"} =>
       k.grp["docker"].excl /\ DockerDivided /\ SystemDivided /\ k.grp["system"].excl /\ k.moved

(* The inductive invariant. *)
DivInv == Planned => Division

LEMMA DivInit == ASSUME Init PROVE BeforeInv /\ DivInv
BY DEF Init, BeforeInv, SetsKept, DivInv, Division

(* Before the CPU sets. *)
LEMMA BeforeEarly ==
  ASSUME TypeInv, BeforeInv,
         \/ Options_ \/ ReadFile \/ SetDefaultAffinity \/ CheckSettings
         \/ CheckSMT \/ DisableCPUsibling \/ SiblingsOff \/ DisableSMT \/ ReadOnline \/ ConfigureCPU \/ MoveSelf
  PROVE  BeforeInv'
<1>0. /\ stage \in Early /\ stage' \in Early \cup {"detect", "failed", "help", "quit", "crashed"}
      /\ UNCHANGED <<work, earlier>>
  BY EarlyStages, CPUStages
<1>1. k \in Kernels /\ k \in KernelFiles /\ {"docker", "system"} \subseteq Groups /\ SetsKept
  BY <1>0 DEF TypeInv, TypeOK, Kernels, Groups, BeforeInv
<1>2. SUFFICES ASSUME stage' \in Early \cup {"detect"} PROVE SetsKept'
  BY <1>0 DEF BeforeInv, Early
<1>3. ASSUME k'.grp = k.grp PROVE SetsKept'
  BY <1>0, <1>1, <1>3 DEF SetsKept
<1>4. ASSUME NEW S \in SUBSET CPUs, 0 \notin S, k' = Offline(k, S) PROVE SetsKept'
  <2>1. \A g \in Groups : k'.grp[g].here = k.grp[g].here /\ k'.grp[g].cpus \subseteq k.grp[g].cpus
    BY <1>1, <1>4, OfflineFacts
  <2> QED  BY <1>0, <1>1, <2>1 DEF SetsKept
<1>5. CASE Options_
  <2>1. k' = k
    BY <1>5 DEF Options_, OptRange, OptAll, OptDetection, OptPolicy, OptPriority, OptInterval, OptSlice, OptClock,
         OptLock, OptForce, OptBlind, OptDry, OptHelp, EndOptions, Getopt
  <2> QED  BY <2>1, <1>3
<1>6. CASE ReadFile \/ CheckSettings \/ CheckSMT \/ SiblingsOff \/ ReadOnline
  BY <1>3, <1>6 DEF ReadFile, CheckSettings, CheckSMT, SiblingsOff, ReadOnline
<1>7. CASE SetDefaultAffinity
  <2>1. k' = k
    BY <1>2, <1>7 DEF SetDefaultAffinity, UseAll, UseRange, Goto, Early
  <2> QED  BY <2>1, <1>3
<1>8. CASE DisableCPUsibling
  <2>1. CASE HotplugSibling
    <3>0. MaskTyped /\ cpu \in k.online
      BY <1>8, <2>1, MaskedHere DEF HotplugSibling, Prepare
    <3>1. PICK bad \in Faulty(Leaving(cpu)) :
            k' = IF set.dryrun # {} THEN k ELSE Offline(k, Leaving(cpu) \ bad)
      BY <2>1 DEF HotplugSibling
    <3>2. Leaving(cpu) \ bad \in SUBSET CPUs /\ 0 \notin Leaving(cpu) \ bad
      BY <3>0, LeavingFacts
    <3> QED  BY <3>1, <3>2, <1>3, <1>4
  <2>2. CASE NoTopology \/ OtherCPU
    BY <1>3, <2>2 DEF NoTopology, OtherCPU
  <2> QED  BY <1>8, <2>1, <2>2 DEF DisableCPUsibling
<1>9. CASE DisableSMT
  <2>1. CASE k' = k
    BY <1>3, <2>1
  <2>2. CASE k' = SMTOff(k)
    <3>1. \A g \in Groups : k'.grp[g].here = k.grp[g].here /\ k'.grp[g].cpus \subseteq k.grp[g].cpus
      BY <1>1, <2>2, SMTOffFacts
    <3> QED  BY <1>0, <1>1, <3>1 DEF SetsKept
  <2> QED  BY <1>9, <2>1, <2>2 DEF DisableSMT
<1>10. CASE ConfigureCPU
  <2>1. CASE TuneCPU
    <3>0. cpu \in CPUs
      BY <2>1, ZeroOnline DEF TuneCPU, TypeInv, TypeOK
    <3>1. k' = k \/ \E bad \in Faulty({"gov", "freq", "qos", "turbo"}) : k' = Tuned(bad)
      BY <2>1 DEF TuneCPU
    <3>2. \A bad : Tuned(bad).grp = k.grp
      BY <1>1, <3>0, TunedFacts
    <3>3. k'.grp = k.grp
      BY <3>1, <3>2
    <3> QED  BY <3>3, <1>3
  <2>2. CASE SkipCPU
    BY <1>3, <2>2 DEF SkipCPU
  <2>3. CASE RetryOnline
    <3>1. k' = k \/ \E bad \in Faulty(OnlineWrites) : k' = CPUsOn(bad)
      BY <2>3 DEF RetryOnline
    <3>2. \A bad : CPUsOn(bad).grp = k.grp
      BY CPUsOnFacts
    <3>3. k'.grp = k.grp
      BY <3>1, <3>2
    <3> QED  BY <3>3, <1>3
  <2> QED  BY <1>10, <2>1, <2>2, <2>3 DEF ConfigureCPU
<1>11. CASE MoveSelf
  <2>1. k'.grp = k.grp
    BY <1>1, <1>11 DEF MoveSelf, KernelFiles
  <2> QED  BY <1>3, <2>1
<1> QED  BY <1>5, <1>6, <1>7, <1>8, <1>9, <1>10, <1>11

LEMMA PlannedBack ==
  ASSUME Planned', SameCPUs, naff' = naff, UNCHANGED <<earlier, conf, options>>, faults' = MaxFaults => faults = MaxFaults,
         k.grp["docker"].here
  PROVE  Planned
BY DEF Planned, SameCPUs, Undisturbed, SameDivision

(* Around the work on the containers. *)
LEMMA BeforeQuiet ==
  ASSUME TypeInv, MaskTyped, BeforeInv,
         DetectCGroup \/ ResetRTthrottle \/ RetryRTthrottle \/ GetRRslice \/ MoveThreads
  PROVE  BeforeInv'
<1>0. /\ SameCPUs /\ UNCHANGED <<earlier, conf, options>> /\ (faults' = MaxFaults => faults = MaxFaults)
      /\ ~DetectCGroup => k'.grp = k.grp
  BY QuietFacts
<1>1. set'.dryrun = set.dryrun /\ (Undisturbed' => Undisturbed) /\ earlier' = earlier
  BY <1>0 DEF SameCPUs, Undisturbed
<1>2. CASE DetectCGroup
  <2>1. stage = "detect" /\ stage' \in {"throttle", "failed"} /\ SetsKept
    BY <1>2 DEF DetectCGroup, NoGroup, Goto, BeforeInv
  <2>2. k' = k \/ (~k.grp["docker"].here /\ k' = MakeGroup(k, "docker"))
    BY <1>2 DEF DetectCGroup, NoGroup
  <2>3. SetsKept'
    <3>1. CASE k' = k
      BY <3>1, <2>1, <1>1 DEF SetsKept
    <3>2. CASE ~k.grp["docker"].here /\ k' = MakeGroup(k, "docker")
      <4>1. k \in Kernels /\ "docker" \in Groups /\ "system" \in Groups /\ CanMakeGroup(k, "docker")
        BY KernelAssumption DEF TypeInv, TypeOK, Groups, CanMakeGroup
      <4>2. Wrote(k', k, "docker") /\ k'.grp["docker"].cpus = {}
        BY <3>2, <4>1, MakeGroupFacts
      <4>3. k'.grp["system"] = k.grp["system"]
        BY <4>1, <4>2 DEF Wrote
      <4> QED  BY <4>2, <4>3, <2>1, <1>1 DEF SetsKept
    <3> QED  BY <2>2, <3>1, <3>2
  <2> QED  BY <2>1, <2>3 DEF BeforeInv, Early
<1>3. CASE ResetRTthrottle
  <2>1. PICK bad \in Faulty({"rt"}) : Failing(bad) /\ Goto(IF "RTTHRT" \in set.dryrun \/ bad = {} THEN "slice" ELSE "free")
    BY <1>3 DEF ResetRTthrottle
  <2>2. Undisturbed' => bad = {}
    BY <2>1, FewFinite, FaultyFacts DEF TypeInv, TypeOK, Undisturbed
  <2>3. SetsKept /\ stage' \in {"slice", "free"} /\ (Undisturbed' => stage' = "slice")
    BY <1>3, <2>1, <2>2 DEF ResetRTthrottle, BeforeInv, Goto
  <2>4. k'.grp = k.grp
    BY <1>0, <1>3 DEF ResetRTthrottle, DetectCGroup
  <2> QED  BY <2>3, <2>4, <1>1 DEF BeforeInv, SetsKept, Early
<1>4. CASE RetryRTthrottle
  BY <1>1, <1>4 DEF RetryRTthrottle, BeforeInv, Goto, Early
<1>5. CASE GetRRslice
  <2>1. k'.grp = k.grp /\ stage = "slice" /\ stage' = "threads"
    BY <1>0, <1>5 DEF GetRRslice, DetectCGroup, Goto
  <2> QED  BY <2>1, <1>1 DEF BeforeInv, SetsKept, Early
<1>6. CASE MoveThreads
  <2>1. k'.grp = k.grp /\ stage = "threads" /\ stage' \in {"offline", "free"} /\ after' = "configured"
    BY <1>0, <1>6 DEF MoveThreads, DetectCGroup, Goto
  <2> QED  BY <2>1, <1>1 DEF BeforeInv, SetsKept, Early
<1> QED  BY <1>2, <1>3, <1>4, <1>5, <1>6

LEMMA BeforePush ==
  ASSUME TypeInv, MaskTyped, BeforeInv, PushOffline \/ PushOnline, stage' # "failed"
  PROVE  BeforeInv'
<1>0. /\ (faults' = MaxFaults => faults = MaxFaults) /\ set.affinity_mask \ {0} \in SUBSET CPUs
      /\ UNCHANGED <<settled, work, set>> /\ k \in Kernels /\ {"docker", "system"} \subseteq Groups
  BY PushFacts DEF TypeInv, TypeOK, Groups
<1>1. SetsKept => SetsKept'
  <2>1. CASE PushOffline
    <3>1. \A g \in Groups : k'.grp[g].here = k.grp[g].here /\ k'.grp[g].cpus \subseteq k.grp[g].cpus
      BY <1>0, <2>1, PushFacts, OfflineFacts
    <3> QED  BY <1>0, <3>1 DEF SetsKept, settled
  <2>2. CASE PushOnline
    <3>1. k'.grp = k.grp
      BY <1>0, <2>2, PushFacts, OnlineFacts
    <3> QED  BY <1>0, <3>1 DEF SetsKept, settled
  <2> QED  BY <2>1, <2>2
<1>2. stage \in {"offline", "back"} /\ stage' \in {"back", "free"}
  BY PushFacts
<1> QED  BY <1>0, <1>1, <1>2 DEF BeforeInv, Undisturbed, Early, work

(* The work on the CPU sets. *)
LEMMA GroupNames ==
  /\ "docker" \in Groups /\ "system" \in Groups /\ Containers \subseteq Groups
  /\ "docker" \notin Containers /\ "system" \notin Containers
BY KernelAssumption DEF Groups

(* What holds before every write. *)
LEMMA Ready ==
  ASSUME TypeInv, IsoInv, Planned, MaskTyped, stage \in Divided \ {"back"}
  PROVE  /\ k \in Kernels /\ set.affinity = set.affinity_mask /\ set.affinity_mask \in SUBSET CPUs
         /\ set.affinity_mask # {} /\ naff # {} /\ naff \in SUBSET CPUs /\ CPUList(naff) = naff
         /\ set.affinity_mask \subseteq k.online /\ naff \subseteq k.online
         /\ set.affinity_mask \cap naff = {} /\ k.online \in SUBSET CPUs /\ k.online # {}
         /\ k.grp["docker"].here /\ set.dryrun = {} /\ set.setaffinity = "user"
         /\ faults \in 0 .. MaxFaults
<1>1. k \in Kernels /\ naff \in SUBSET CPUs /\ faults \in 0 .. MaxFaults
  BY DEF TypeInv, TypeOK
<1>2. Spread /\ ListInv /\ set.dryrun = {}
  BY DEF IsoInv, Planned, Undisturbed
<1>3. Used = k.online
  BY DEF Used
<1>4. set.affinity = set.affinity_mask
  BY <1>2, StageSets DEF ListInv
<1> QED  BY <1>1, <1>2, <1>3, <1>4, ZeroOnline, ListMeansMask DEF Planned, MaskTyped, Spread

(* A set and those beside and below it, after a write to another one. *)
LEMMA ChildrenAre ==
  /\ \A q : Children(q, "docker") = {c \in Containers : q.grp[c].here} /\ Children(q, "system") = {}
  /\ \A q : \A c \in Containers : Children(q, c) = {}
BY KernelAssumption DEF Children

LEMMA DivFree ==
  ASSUME TypeInv, MaskTyped, IsoInv, DivInv, Planned, Planned', FreeContainers
  PROVE  Division'
<1>0. stage = "free" /\ stage' = "open" /\ stage \in Divided \ {"back"}
  BY DEF FreeContainers, Goto, Divided
<1>1. PICK bad \in Faulty(Children(k, "docker")) :
        /\ Failing(bad)
        /\ k' = IF "CGRPRT" \in set.dryrun THEN k ELSE Freed(k, Children(k, "docker") \ bad)
  BY DEF FreeContainers, SetGroups
<1>2. bad = {} /\ set.dryrun = {} /\ k \in Kernels
  BY <1>0, <1>1, Ready, ChildrenFacts, FaultyFacts DEF Planned, Undisturbed
<1>3. k' = Freed(k, Children(k, "docker"))
  BY <1>1, <1>2
<1>4. /\ \A g \in Groups : k'.grp[g].here = k.grp[g].here
      /\ \A g \in Children(k, "docker") : ~k'.grp[g].excl
  BY <1>2, <1>3, ChildrenFacts, FreedFacts
<1>5. NoneExclusive'
  BY <1>4, ChildrenAre, GroupNames DEF NoneExclusive
<1> QED  BY <1>0, <1>5 DEF Division

LEMMA DivOpen ==
  ASSUME TypeInv, MaskTyped, IsoInv, DivInv, Planned, Planned', OpenDocker
  PROVE  Division'
<1>0. stage = "open" /\ stage' = "widen" /\ stage \in Divided \ {"back"}
  BY DEF OpenDocker, Goto, Divided
<1>1. PICK bad \in Faulty({"excl"}) : Failing(bad) /\ k' = WriteExcl(k, "docker", FALSE, bad)
  BY DEF OpenDocker, SetGroups
<1>2. bad = {} /\ set.dryrun = {} /\ k \in Kernels /\ k.grp["docker"].here
  BY <1>0, <1>1, Ready, FewFinite, FaultyFacts DEF Planned, Undisturbed
<1>3. NoneExclusive
  BY <1>0 DEF DivInv, Division
<1>4. CanSetExcl(k, "docker", FALSE)
  BY <1>2, <1>3 DEF CanSetExcl, NoneExclusive
<1>5. ExclWritten(k', k, "docker", FALSE, bad)
  BY <1>1, <1>2, GroupNames, WriteExclFacts
<1>6. ~k'.grp["docker"].excl /\ \A h \in Groups \ {"docker"} : k'.grp[h] = k.grp[h]
  BY <1>2, <1>4, <1>5 DEF ExclWritten, Wrote
<1>7. NoneExclusive'
  BY <1>3, <1>6, ChildrenAre, GroupNames DEF NoneExclusive
<1> QED  BY <1>0, <1>6, <1>7 DEF Division

LEMMA DivWiden ==
  ASSUME TypeInv, MaskTyped, IsoInv, DivInv, BeforeInv, Planned, Planned', WidenDocker
  PROVE  Division'
<1> DEFINE mask == set.affinity_mask
<1>0. stage = "widen" /\ stage' = "place" /\ stage \in Divided \ {"back"} /\ set' = set
      /\ todo' = Children(k, "docker")
  BY DEF WidenDocker, SetGroups, Goto, Divided
<1>1. PICK bad \in Faulty({"all", "own"}) :
        /\ Failing(bad)
        /\ k' = IF "all" \notin bad /\ CanSetCpus(k, "docker", k.online)
                THEN WriteCpus(k, "docker", k.online, {})
                ELSE WriteCpus(k, "docker", set.affinity, bad \cap {"own"})
  BY DEF WidenDocker, SetGroups
<1>2. /\ bad = {} /\ set.dryrun = {} /\ k \in Kernels /\ k.grp["docker"].here
      /\ set.affinity = mask /\ mask \in SUBSET CPUs /\ mask # {} /\ mask \subseteq k.online
      /\ k.online \in SUBSET CPUs /\ k.online # {}
  BY <1>0, <1>1, Ready, FewFinite, FaultyFacts DEF Planned, Undisturbed
<1>3. NoneExclusive /\ ~k.grp["docker"].excl /\ SetsKept
  BY <1>0 DEF DivInv, Division, BeforeInv, Planned
<1>4. SystemAside
  BY <1>3 DEF SystemAside, SetsKept, Planned, SameDivision
<1>5. /\ mask \subseteq k'.grp["docker"].cpus
      /\ k'.grp["docker"].excl = k.grp["docker"].excl /\ k'.grp["docker"].here
      /\ \A h \in Groups \ {"docker"} : k'.grp[h] = k.grp[h]
  <2>1. CASE CanSetCpus(k, "docker", k.online)
    <3>1. CpusWritten(k', k, "docker", k.online, {})
      BY <1>1, <1>2, <2>1, GroupNames, WriteCpusFacts
    <3> QED  BY <3>1, <2>1, <1>2 DEF CpusWritten, Wrote
  <2>2. CASE ~CanSetCpus(k, "docker", k.online)
    <3>1. CpusWritten(k', k, "docker", mask, bad \cap {"own"})
      BY <1>1, <1>2, <2>2, GroupNames, WriteCpusFacts
    <3>2. \A c \in Children(k, "docker") : k.grp[c].cpus \subseteq k.grp["docker"].cpus
      BY <1>2, ChildrenAre, GroupNames DEF Kernels, CPUSetRules, Above
    <3>3. k.grp["docker"].cpus \subseteq k.online
      BY <1>2, GroupNames DEF Kernels, CPUSetRules, Above
    <3>4. k.grp["system"].here
      <4> SUFFICES ASSUME ~k.grp["system"].here PROVE CanSetCpus(k, "docker", k.online)
        BY <2>2
      <4>1. Peers(k, "docker") = {}
        BY GroupNames DEF Peers, Groups
      <4> QED  BY <1>2, <3>2, <3>3, <4>1, GroupNames DEF CanSetCpus, Above, Apart
    <3>5. k.grp["docker"].cpus \subseteq mask
      BY <1>3, <3>4 DEF SetsKept, Planned, SameDivision
    <3>6. Apart(k, "docker", mask, k.grp["docker"].excl)
      BY <1>4, GroupNames DEF Apart, Peers, SystemAside, Groups
    <3>7. CanSetCpus(k, "docker", mask)
      BY <1>2, <3>2, <3>5, <3>6, GroupNames DEF CanSetCpus, Above
    <3> QED  BY <3>1, <3>7, <1>2 DEF CpusWritten, Wrote
  <2> QED  BY <2>1, <2>2
<1>6. k'.grp["system"] = k.grp["system"] /\ Children(k', "docker") = Children(k, "docker")
  <2>1. \A c \in Containers : k'.grp[c] = k.grp[c]
    BY <1>5, GroupNames
  <2> QED  BY <1>5, <2>1, GroupNames DEF Children
<1>7. NoneExclusive' /\ SystemAside'
  BY <1>0, <1>3, <1>4, <1>5, <1>6, ChildrenAre, GroupNames DEF NoneExclusive, SystemAside
<1>8. Placed(todo)'
  BY <1>0, <1>6 DEF Placed
<1> QED  BY <1>0, <1>3, <1>5, <1>6, <1>7, <1>8 DEF Division

LEMMA DivPlace ==
  ASSUME TypeInv, MaskTyped, IsoInv, DivInv, Planned, Planned', PlaceContainer
  PROVE  Division'
<1> DEFINE mask == set.affinity_mask
<1>0. stage = "place" /\ stage' = "place" /\ stage \in Divided \ {"back"} /\ set' = set
  BY DEF PlaceContainer, SetGroups, Divided
<1>1. PICK c \in todo, bad \in Faulty({"cpus"}) :
        Failing(bad) /\ todo' = todo \ {c} /\ k' = WriteCpus(k, c, set.affinity, bad)
  BY DEF PlaceContainer, SetGroups
<1>2. /\ bad = {} /\ set.dryrun = {} /\ k \in Kernels
      /\ set.affinity = mask /\ mask \in SUBSET CPUs /\ mask # {}
  BY <1>0, <1>1, Ready, FewFinite, FaultyFacts DEF Planned, Undisturbed
<1>3. /\ NoneExclusive /\ ~k.grp["docker"].excl /\ SystemAside /\ mask \subseteq k.grp["docker"].cpus
      /\ todo \subseteq Children(k, "docker") /\ Placed(todo)
  BY <1>0 DEF DivInv, Division
<1>4. c \in Containers /\ c \in Groups /\ k.grp[c].here /\ c \notin {"docker", "system"}
  BY <1>1, <1>3, ChildrenAre, GroupNames
<1>5. CanSetCpus(k, c, mask)
  <2>1. Apart(k, c, mask, k.grp[c].excl)
    BY <1>3, <1>4, ChildrenAre DEF Apart, Peers, NoneExclusive
  <2> QED  BY <2>1, <1>3, <1>4, ChildrenAre DEF CanSetCpus, Above
<1>6. CpusWritten(k', k, c, mask, bad)
  BY <1>1, <1>2, <1>4, WriteCpusFacts
<1>7. /\ k'.grp[c].cpus = mask /\ k'.grp[c].here /\ k'.grp[c].excl = k.grp[c].excl
      /\ \A h \in Groups \ {c} : k'.grp[h] = k.grp[h]
  BY <1>2, <1>4, <1>5, <1>6 DEF CpusWritten, Wrote
<1>8. k'.grp["docker"] = k.grp["docker"] /\ k'.grp["system"] = k.grp["system"]
  BY <1>4, <1>7, GroupNames
<1>9. Children(k', "docker") = Children(k, "docker")
  <2>1. \A d \in Containers : k'.grp[d].here <=> k.grp[d].here
    BY <1>4, <1>7, GroupNames
  <2> QED  BY <2>1 DEF Children
<1>10. \A d \in Children(k, "docker") : d \in Groups /\ k'.grp[d].excl = k.grp[d].excl
                                        /\ (d # c => k'.grp[d] = k.grp[d])
  BY <1>7, ChildrenAre, GroupNames
<1>11. NoneExclusive' /\ SystemAside'
  BY <1>0, <1>3, <1>8, <1>9, <1>10 DEF NoneExclusive, SystemAside
<1>12. Placed(todo)'
  BY <1>0, <1>1, <1>3, <1>7, <1>9, <1>10 DEF Placed
<1> QED  BY <1>0, <1>1, <1>3, <1>8, <1>9, <1>11, <1>12 DEF Division

LEMMA DivConfine ==
  ASSUME TypeInv, MaskTyped, IsoInv, DivInv, Planned, Planned', ConfineDocker
  PROVE  Division'
<1> DEFINE mask == set.affinity_mask
<1>0. stage = "place" /\ todo = {} /\ stage' = "close" /\ stage \in Divided \ {"back"} /\ set' = set
  BY DEF ConfineDocker, SetGroups, Goto, Divided
<1>1. PICK bad \in Faulty({"cpus"}) : Failing(bad) /\ k' = WriteCpus(k, "docker", set.affinity, bad)
  BY DEF ConfineDocker, SetGroups
<1>2. /\ bad = {} /\ set.dryrun = {} /\ k \in Kernels /\ k.grp["docker"].here
      /\ set.affinity = mask /\ mask \in SUBSET CPUs /\ mask # {} /\ mask \subseteq k.online
  BY <1>0, <1>1, Ready, FewFinite, FaultyFacts DEF Planned, Undisturbed
<1>3. /\ NoneExclusive /\ ~k.grp["docker"].excl /\ SystemAside /\ Placed({})
  BY <1>0 DEF DivInv, Division
<1>4. CanSetCpus(k, "docker", mask)
  <2>1. Apart(k, "docker", mask, k.grp["docker"].excl)
    BY <1>3, GroupNames DEF Apart, Peers, SystemAside, Groups
  <2>2. \A c \in Children(k, "docker") : k.grp[c].cpus \subseteq mask
    BY <1>3 DEF Placed
  <2> QED  BY <2>1, <2>2, <1>2, GroupNames DEF CanSetCpus, Above
<1>5. CpusWritten(k', k, "docker", mask, bad)
  BY <1>1, <1>2, GroupNames, WriteCpusFacts
<1>6. /\ k'.grp["docker"].cpus = mask /\ k'.grp["docker"].excl = k.grp["docker"].excl
      /\ \A h \in Groups \ {"docker"} : k'.grp[h] = k.grp[h]
  BY <1>2, <1>4, <1>5 DEF CpusWritten, Wrote
<1>7. k'.grp["system"] = k.grp["system"] /\ \A c \in Containers : k'.grp[c] = k.grp[c]
  BY <1>6, GroupNames
<1>8. Children(k', "docker") = Children(k, "docker") /\ Children(k, "docker") \subseteq Containers
  BY <1>7 DEF Children
<1>9. NoneExclusive' /\ SystemAside' /\ DockerDivided'
  BY <1>0, <1>3, <1>6, <1>7, <1>8 DEF NoneExclusive, SystemAside, DockerDivided, Placed
<1> QED  BY <1>0, <1>3, <1>6, <1>9 DEF Division

LEMMA DivClose ==
  ASSUME TypeInv, MaskTyped, IsoInv, DivInv, BeforeInv, Planned, Planned', CloseDocker
  PROVE  Division'
<1> DEFINE mask == set.affinity_mask
<1>0. stage = "close" /\ stage' = "configured" /\ stage \in Divided \ {"back"} /\ set' = set
  BY DEF CloseDocker, SetGroups, Goto, Divided, BeforeInv, Planned
<1>1. PICK bad \in Faulty({"excl"}) :
        /\ Failing(bad)
        /\ k' = IF set.setaffinity = "all" THEN k ELSE WriteExcl(k, "docker", TRUE, bad)
  BY DEF CloseDocker, SetGroups
<1>2. /\ bad = {} /\ set.dryrun = {} /\ k \in Kernels /\ k.grp["docker"].here /\ set.setaffinity = "user"
  BY <1>0, <1>1, Ready, FewFinite, FaultyFacts DEF Planned, Undisturbed
<1>3. /\ NoneExclusive /\ SystemAside /\ DockerDivided
  BY <1>0 DEF DivInv, Division
<1>4. CanSetExcl(k, "docker", TRUE)
  <2>1. Apart(k, "docker", k.grp["docker"].cpus, TRUE)
    BY <1>3, GroupNames DEF Apart, Peers, SystemAside, DockerDivided, Groups
  <2> QED  BY <2>1, <1>2, GroupNames DEF CanSetExcl
<1>5. ExclWritten(k', k, "docker", TRUE, bad)
  BY <1>1, <1>2, GroupNames, WriteExclFacts
<1>6. /\ k'.grp["docker"].excl /\ k'.grp["docker"].cpus = k.grp["docker"].cpus
      /\ \A h \in Groups \ {"docker"} : k'.grp[h] = k.grp[h]
  BY <1>2, <1>4, <1>5 DEF ExclWritten, Wrote
<1>7. k'.grp["system"] = k.grp["system"] /\ \A c \in Containers : k'.grp[c] = k.grp[c]
  BY <1>6, GroupNames
<1>8. Children(k', "docker") = Children(k, "docker") /\ Children(k, "docker") \subseteq Containers
  BY <1>7 DEF Children
<1>9. NoneExclusive' /\ SystemAside' /\ DockerDivided'
  BY <1>0, <1>3, <1>6, <1>7, <1>8 DEF NoneExclusive, SystemAside, DockerDivided, Placed
<1> QED  BY <1>0, <1>6, <1>9 DEF Division

LEMMA DivConfigured ==
  ASSUME TypeInv, MaskTyped, IsoInv, DivInv, Planned, Planned', CreateConfigured
  PROVE  Division'
<1> DEFINE mask == set.affinity_mask
<1>0. stage = "configured" /\ stage' = "configured" /\ stage \in Divided \ {"back"} /\ set' = set
  BY DEF CreateConfigured, SetGroups, Divided
<1>1. PICK c \in todo, bad \in Faulty({"mkdir", "cpus"}) :
        /\ Failing(bad)
        /\ k' = IF "mkdir" \in bad \/ ~CanMakeGroup(k, c) THEN k
                ELSE WriteCpus(MakeGroup(k, c), c, set.affinity, bad \cap {"cpus"})
  BY DEF CreateConfigured, SetGroups
<1>2. /\ bad = {} /\ set.dryrun = {} /\ k \in Kernels /\ k.grp["docker"].here
      /\ set.affinity = mask /\ mask \in SUBSET CPUs /\ mask # {}
  BY <1>0, <1>1, Ready, FewFinite, FaultyFacts DEF Planned, Undisturbed
<1>3. NoneExclusive /\ k.grp["docker"].excl /\ SystemAside /\ DockerDivided
  BY <1>0 DEF DivInv, Division
<1>4. c \in Containers /\ c \in Groups /\ c \notin {"docker", "system"} /\ CanMakeGroup(k, c)
  BY <1>1, <1>2, GroupNames DEF TypeInv, TypeOK, CanMakeGroup
<1> DEFINE q == MakeGroup(k, c)
<1>5. /\ Wrote(q, k, c) /\ q.grp[c].here /\ (k.grp[c].here => q = k)
      /\ (~k.grp[c].here => q.grp[c].cpus = {} /\ ~q.grp[c].excl)
  BY <1>2, <1>4, MakeGroupFacts
<1>6. k' = WriteCpus(q, c, mask, bad \cap {"cpus"}) /\ bad \cap {"cpus"} = {}
  BY <1>1, <1>2, <1>4
<1> HIDE DEF q
<1>7. q \in Kernels /\ \A h \in Groups \ {c} : q.grp[h] = k.grp[h]
  BY <1>5 DEF Wrote
<1>8. q.grp["docker"] = k.grp["docker"] /\ q.grp["system"] = k.grp["system"]
  BY <1>4, <1>7, GroupNames
<1>9. \A d \in Containers : q.grp[d].here => ~q.grp[d].excl
  <2> SUFFICES ASSUME NEW d \in Containers, q.grp[d].here PROVE ~q.grp[d].excl
    OBVIOUS
  <2>1. CASE d = c
    <3>1. k.grp[c].here => ~k.grp[c].excl
      BY <1>3, <1>4, ChildrenAre DEF NoneExclusive
    <3> QED  BY <2>1, <3>1, <1>5
  <2>2. CASE d # c
    BY <2>2, <1>3, <1>7, ChildrenAre, GroupNames DEF NoneExclusive
  <2> QED  BY <2>1, <2>2
<1>10. CanSetCpus(q, c, mask)
  <2>1. Apart(q, c, mask, q.grp[c].excl)
    BY <1>4, <1>5, <1>9 DEF Apart, Peers
  <2> QED  BY <2>1, <1>3, <1>4, <1>5, <1>8, ChildrenAre DEF CanSetCpus, Above, DockerDivided
<1>11. CpusWritten(k', q, c, mask, bad \cap {"cpus"})
  BY <1>2, <1>4, <1>6, <1>7, WriteCpusFacts
<1>12. /\ k'.grp[c].cpus = mask /\ k'.grp[c].excl = q.grp[c].excl
       /\ \A h \in Groups \ {c} : k'.grp[h] = q.grp[h]
  BY <1>2, <1>6, <1>10, <1>11 DEF CpusWritten, Wrote
<1>13. k'.grp["docker"] = k.grp["docker"] /\ k'.grp["system"] = k.grp["system"]
  BY <1>4, <1>8, <1>12, GroupNames
<1>14. NoneExclusive'
  <2> SUFFICES ASSUME NEW d \in Containers, k'.grp[d].here PROVE ~k'.grp[d].excl
    BY ChildrenAre DEF NoneExclusive
  <2> QED  BY <1>5, <1>9, <1>12, GroupNames
<1>15. Placed({})'
  <2> SUFFICES ASSUME NEW d \in Containers, k'.grp[d].here PROVE k'.grp[d].cpus = mask
    BY <1>0, ChildrenAre DEF Placed
  <2>1. CASE d # c
    <3>1. d \in Groups /\ k'.grp[d] = k.grp[d]
      BY <2>1, <1>7, <1>12, GroupNames
    <3> QED  BY <3>1, <1>3, ChildrenAre DEF DockerDivided, Placed
  <2> QED  BY <2>1, <1>12
<1>16. SystemAside' /\ DockerDivided'
  BY <1>0, <1>3, <1>13, <1>15 DEF SystemAside, DockerDivided
<1> QED  BY <1>0, <1>3, <1>13, <1>14, <1>16 DEF Division

LEMMA DivSystem ==
  ASSUME TypeInv, MaskTyped, IsoInv, DivInv, Planned, Planned', CreateSystem
  PROVE  Division'
<1> DEFINE mask == set.affinity_mask
<1>0. stage = "system" /\ stage' \in {"lock", "seal"} /\ stage \in Divided \ {"back"} /\ set' = set /\ naff' = naff
  BY DEF CreateSystem, SetGroups, Goto, Divided
<1>1. PICK bad \in Faulty({"mkdir", "cpus"}) :
        /\ Failing(bad)
        /\ IF "mkdir" \in bad THEN stage' = "lock"
           ELSE /\ stage' = "seal"
                /\ k' = WriteCpus(MakeGroup(k, "system"), "system", CPUList(naff), bad \cap {"cpus"})
  BY DEF CreateSystem, SetGroups, Goto
<1>2. /\ bad = {} /\ set.dryrun = {} /\ k \in Kernels /\ k.grp["docker"].here
      /\ naff # {} /\ naff \in SUBSET CPUs /\ CPUList(naff) = naff /\ naff \subseteq k.online
      /\ mask \cap naff = {} /\ faults \in 0 .. MaxFaults
  <2>1. /\ set.dryrun = {} /\ k \in Kernels /\ k.grp["docker"].here
        /\ naff # {} /\ naff \in SUBSET CPUs /\ CPUList(naff) = naff /\ naff \subseteq k.online
        /\ mask \cap naff = {} /\ faults \in 0 .. MaxFaults
    BY <1>0, Ready
  <2>2. IsFiniteSet({"mkdir", "cpus"}) /\ Failing(bad) /\ faults' = MaxFaults
    BY <1>1, FewFinite DEF Planned, Undisturbed
  <2> QED  BY <2>1, <2>2, FaultyFacts
<1>3. k.grp["docker"].excl /\ DockerDivided
  BY <1>0 DEF DivInv, Division
<1> DEFINE q == MakeGroup(k, "system")
<1>4. CanMakeGroup(k, "system")
  BY GroupNames DEF CanMakeGroup
<1>5. Wrote(q, k, "system") /\ q.grp["system"].here
  BY <1>2, <1>4, GroupNames, MakeGroupFacts
<1>6. stage' = "seal" /\ k' = WriteCpus(q, "system", naff, bad \cap {"cpus"}) /\ bad \cap {"cpus"} = {}
  BY <1>1, <1>2
<1> HIDE DEF q
<1>7. q \in Kernels /\ q.online = k.online /\ \A h \in Groups \ {"system"} : q.grp[h] = k.grp[h]
  BY <1>5 DEF Wrote, OnlyGroups
<1>8. q.grp["docker"] = k.grp["docker"]
  BY <1>7, GroupNames
<1>9. CanSetCpus(q, "system", naff)
  <2>1. Apart(q, "system", naff, q.grp["system"].excl)
    BY <1>2, <1>3, <1>8, GroupNames DEF Apart, Peers, DockerDivided, Groups
  <2> QED  BY <2>1, <1>2, <1>5, <1>7, ChildrenAre, GroupNames DEF CanSetCpus, Above
<1>10. CpusWritten(k', q, "system", naff, bad \cap {"cpus"})
  BY <1>2, <1>6, <1>7, GroupNames, WriteCpusFacts
<1>11. /\ k'.grp["system"].cpus = naff /\ k'.grp["system"].here
       /\ \A h \in Groups \ {"system"} : k'.grp[h] = q.grp[h]
  BY <1>2, <1>5, <1>6, <1>9, <1>10 DEF CpusWritten, Wrote
<1>12. k'.grp["docker"] = k.grp["docker"] /\ \A c \in Containers : k'.grp[c] = k.grp[c]
  BY <1>7, <1>11, GroupNames
<1>13. Children(k', "docker") = Children(k, "docker") /\ Children(k, "docker") \subseteq Containers
  BY <1>12 DEF Children
<1>14. DockerDivided' /\ SystemDivided'
  BY <1>0, <1>3, <1>11, <1>12, <1>13 DEF DockerDivided, Placed, SystemDivided
<1> QED  BY <1>3, <1>6, <1>12, <1>14 DEF Division

LEMMA DivSeal ==
  ASSUME TypeInv, MaskTyped, IsoInv, DivInv, Planned, Planned', SealSystem
  PROVE  Division'
<1> DEFINE mask == set.affinity_mask
<1>0. stage = "seal" /\ stage' = "tasks" /\ stage \in Divided \ {"back"} /\ set' = set /\ naff' = naff
  BY DEF SealSystem, SetGroups, Goto, Divided
<1>1. PICK bad \in Faulty({"excl"}) :
        /\ Failing(bad)
        /\ k' = IF set.setaffinity = "all" THEN k ELSE WriteExcl(k, "system", TRUE, bad)
  BY DEF SealSystem, SetGroups
<1>2. bad = {} /\ set.dryrun = {} /\ k \in Kernels /\ set.setaffinity = "user" /\ mask \cap naff = {}
  BY <1>0, <1>1, Ready, FewFinite, FaultyFacts DEF Planned, Undisturbed
<1>3. k.grp["docker"].excl /\ DockerDivided /\ SystemDivided
  BY <1>0 DEF DivInv, Division
<1>4. CanSetExcl(k, "system", TRUE)
  <2>1. Apart(k, "system", k.grp["system"].cpus, TRUE)
    BY <1>2, <1>3, GroupNames DEF Apart, Peers, SystemDivided, DockerDivided, Groups
  <2> QED  BY <2>1, <1>3, GroupNames DEF CanSetExcl, SystemDivided
<1>5. ExclWritten(k', k, "system", TRUE, bad)
  BY <1>1, <1>2, GroupNames, WriteExclFacts
<1>6. /\ k'.grp["system"].excl /\ k'.grp["system"].cpus = k.grp["system"].cpus
      /\ k'.grp["system"].here = k.grp["system"].here
      /\ \A h \in Groups \ {"system"} : k'.grp[h] = k.grp[h]
  BY <1>2, <1>4, <1>5 DEF ExclWritten, Wrote
<1>7. k'.grp["docker"] = k.grp["docker"] /\ \A c \in Containers : k'.grp[c] = k.grp[c]
  BY <1>6, GroupNames
<1>8. Children(k', "docker") = Children(k, "docker") /\ Children(k, "docker") \subseteq Containers
  BY <1>7 DEF Children
<1>9. DockerDivided' /\ SystemDivided'
  BY <1>0, <1>3, <1>6, <1>7, <1>8 DEF DockerDivided, Placed, SystemDivided
<1> QED  BY <1>0, <1>3, <1>6, <1>7, <1>9 DEF Division

LEMMA DivLast ==
  ASSUME TypeInv, MaskTyped, IsoInv, DivInv, Planned, Planned', AllConfigured \/ MoveTasks \/ LockMemory
  PROVE  Division'
<1>1. CASE AllConfigured
  <2>1. stage = "configured" /\ stage' = "system" /\ UNCHANGED <<k, set, naff>>
    BY <1>1 DEF AllConfigured, Goto
  <2>2. NoneExclusive /\ k.grp["docker"].excl /\ SystemAside /\ DockerDivided
    BY <2>1 DEF DivInv, Division
  <2>3. NoneExclusive' /\ SystemAside' /\ DockerDivided'
    BY <2>1, <2>2 DEF NoneExclusive, SystemAside, DockerDivided, Placed
  <2> QED  BY <2>1, <2>2, <2>3 DEF Division
<1>2. CASE MoveTasks
  <2>1. stage = "tasks" /\ stage' = "lock" /\ UNCHANGED <<set, naff>> /\ k'.grp = k.grp
        /\ stage \in Divided \ {"back"}
    BY <1>2, QuietFacts DEF MoveTasks, DetectCGroup, Goto, Divided
  <2>2. k.grp["docker"].excl /\ DockerDivided /\ SystemDivided /\ k.grp["system"].excl
    BY <2>1 DEF DivInv, Division
  <2>3. PICK bad \in Faulty({"tasks"}) :
          /\ Failing(bad)
          /\ k' = [k EXCEPT !.moved = @ \/ (bad = {} /\ "TSKPSH" \notin set.dryrun /\ k.grp["system"].cpus # {})]
    BY <1>2 DEF MoveTasks
  <2>4. bad = {} /\ set.dryrun = {} /\ naff # {} /\ k \in KernelFiles
    BY <2>1, <2>3, Ready, FewFinite, FaultyFacts DEF Planned, Undisturbed, Kernels
  <2>5. k'.moved
    <3> DEFINE m == k.moved \/ (bad = {} /\ "TSKPSH" \notin set.dryrun /\ k.grp["system"].cpus # {})
    <3>1. m
      BY <2>2, <2>4 DEF SystemDivided
    <3>2. k' = [k EXCEPT !.moved = m]
      BY <2>3, Zenon
    <3> HIDE DEF m
    <3>3. k'.moved = m
      BY <3>2, <2>4 DEF KernelFiles
    <3> QED  BY <3>1, <3>3
  <2>6. DockerDivided' /\ SystemDivided'
    BY <2>1, <2>2 DEF DockerDivided, Placed, SystemDivided, Children
  <2> QED  BY <2>1, <2>2, <2>5, <2>6 DEF Division
<1>3. CASE LockMemory
  <2>1. stage = "lock" /\ stage' \in {"running", "failed"} /\ UNCHANGED <<set, naff>> /\ k'.grp = k.grp
    BY <1>3, QuietFacts DEF LockMemory, DetectCGroup, Goto
  <2>2. k.grp["docker"].excl /\ DockerDivided /\ SystemDivided /\ k.grp["system"].excl /\ k.moved
    BY <2>1 DEF DivInv, Division
  <2>3. k'.moved = k.moved
    BY <1>3 DEF LockMemory, TypeInv, TypeOK, Kernels, KernelFiles
  <2>4. DockerDivided' /\ SystemDivided'
    BY <2>1, <2>2 DEF DockerDivided, Placed, SystemDivided, Children
  <2> QED  BY <2>1, <2>2, <2>3, <2>4 DEF Division
<1> QED  BY <1>1, <1>2, <1>3

LEMMA BeforeGroups ==
  ASSUME TypeInv, MaskTyped, BeforeInv, Groups_
  PROVE  BeforeInv'
<1>0. /\ UNCHANGED <<settled, set, naff>> /\ (Undisturbed' => Undisturbed) /\ k \in Kernels
  BY GroupsFacts DEF Undisturbed, TypeInv, TypeOK
<1>1. CASE FreeContainers \/ OpenDocker
  <2>1. /\ stage \in {"free", "open"} /\ stage' \in {"open", "widen"} /\ UNCHANGED work
    BY <1>1 DEF FreeContainers, OpenDocker, Goto
  <2>2. /\ k'.grp["system"].here = k.grp["system"].here /\ k'.grp["system"].cpus = k.grp["system"].cpus
        /\ k'.grp["docker"].cpus = k.grp["docker"].cpus
    <3>1. CASE FreeContainers
      <4>1. PICK bad : k' = IF "CGRPRT" \in set.dryrun THEN k ELSE Freed(k, Children(k, "docker") \ bad)
        BY <3>1 DEF FreeContainers, SetGroups
      <4>2. Children(k, "docker") \ bad \in SUBSET Containers
        BY ChildrenFacts
      <4> QED  BY <1>0, <4>1, <4>2, FreedFacts, GroupNames
    <3>2. CASE OpenDocker
      <4>1. PICK bad : k' = WriteExcl(k, "docker", FALSE, bad)
        BY <3>2 DEF OpenDocker, SetGroups
      <4>2. ExclWritten(k', k, "docker", FALSE, bad)
        BY <1>0, <4>1, WriteExclFacts, GroupNames
      <4> QED  BY <4>2, GroupNames DEF ExclWritten, Wrote
    <3> QED  BY <1>1, <3>1, <3>2
  <2> QED  BY <1>0, <2>1, <2>2 DEF BeforeInv, SetsKept, settled, work, Early
<1>2. CASE WidenDocker \/ PlaceContainer \/ ConfineDocker
  <2>1. stage \in {"widen", "place"} /\ stage' \in {"place", "close"} /\ after' = after
    BY <1>2 DEF WidenDocker, PlaceContainer, ConfineDocker, Goto, work
  <2> QED  BY <1>0, <2>1 DEF BeforeInv, Early
<1>3. CASE CloseDocker
  <2>1. stage = "close" /\ stage' = after /\ after \in {"again", "configured"}
    BY <1>3 DEF CloseDocker, Goto, TypeInv, TypeOK
  <2> QED  BY <1>0, <2>1 DEF BeforeInv, Early
<1>4. CASE CreateConfigured \/ AllConfigured \/ CreateSystem \/ SealSystem
  <2>1. stage' \in {"configured", "system", "lock", "seal", "tasks"}
    BY <1>4 DEF CreateConfigured, AllConfigured, CreateSystem, SealSystem, Goto
  <2> QED  BY <2>1 DEF BeforeInv, Early
<1> QED  BY <1>1, <1>2, <1>3, <1>4 DEF Groups_

LEMMA DivStep ==
  ASSUME TypeInv, IsoInv, BeforeInv, DivInv, [Next]_vars
  PROVE  BeforeInv' /\ DivInv'
<1>1. CASE UNCHANGED vars
  BY <1>1 DEF vars, BeforeInv, SetsKept, DivInv, Planned, Division, Undisturbed, SameDivision,
       NoneExclusive, SystemAside, Placed, DockerDivided, SystemDivided, Children
<1>2. CASE \/ Options_ \/ ReadFile \/ SetDefaultAffinity \/ CheckSettings
           \/ CheckSMT \/ DisableCPUsibling \/ SiblingsOff \/ DisableSMT \/ ReadOnline \/ ConfigureCPU \/ MoveSelf
  <2>1. stage' \in Early \cup {"detect", "failed", "help", "quit", "crashed"}
    BY <1>2, EarlyStages, CPUStages
  <2> QED  BY <1>2, <2>1, BeforeEarly DEF DivInv, Division, Early
<1>3. CASE Groups_
  <2>0. MaskTyped
    BY <1>3, MaskedHere DEF Prepare
  <2>1. BeforeInv'
    BY <1>3, <2>0, BeforeGroups
  <2>2. Planned' => Planned
    <3>1. k'.grp["docker"].here = k.grp["docker"].here
      BY <1>3, <2>0, GroupsFacts
    <3>2. SameCPUs /\ naff' = naff /\ UNCHANGED settled /\ (faults' = MaxFaults => faults = MaxFaults)
      BY <1>3, <2>0, GroupsSame
    <3> QED  BY <3>1, <3>2, PlannedBack DEF Planned, settled
  <2>3. SUFFICES ASSUME Planned, Planned' PROVE Division'
    BY <2>1, <2>2 DEF DivInv
  <2> QED  BY <1>3, <2>0, <2>3, DivFree, DivOpen, DivWiden, DivPlace, DivConfine, DivClose, DivConfigured,
              DivSystem, DivSeal, DivLast DEF Groups_
<1>4. CASE DetectCGroup \/ ResetRTthrottle \/ RetryRTthrottle \/ GetRRslice \/ MoveThreads
  <2>0. MaskTyped
    BY <1>4, MaskedHere DEF Prepare
  <2>1. stage' \in {"throttle", "slice", "free", "threads", "offline", "failed"}
    BY <1>4 DEF DetectCGroup, NoGroup, ResetRTthrottle, RetryRTthrottle, GetRRslice, MoveThreads, Goto
  <2> QED  BY <1>4, <2>0, <2>1, BeforeQuiet DEF DivInv, Division
<1>5. CASE PushOffline \/ PushOnline
  <2>0. MaskTyped
    BY <1>5, MaskedHere DEF Prepare
  <2>1. CASE stage' = "failed"
    BY <2>1 DEF BeforeInv, DivInv, Division, Early
  <2>2. CASE stage' # "failed"
    <3>1. stage' \in {"back", "free"}
      BY <1>5, <2>0, <2>2, PushFacts
    <3> QED  BY <1>5, <2>0, <2>2, <3>1, BeforePush DEF DivInv, Division
  <2> QED  BY <2>1, <2>2
<1>6. CASE MoveTasks \/ LockMemory
  <2>0. MaskTyped
    BY <1>6, MaskedHere DEF Prepare
  <2>1. stage' \in {"lock", "running", "failed"} /\ BeforeInv'
    BY <1>6 DEF MoveTasks, LockMemory, Goto, BeforeInv, Early
  <2>2. Planned' => Planned
    <3>1. /\ SameCPUs /\ naff' = naff /\ UNCHANGED <<earlier, conf, options>>
          /\ (faults' = MaxFaults => faults = MaxFaults) /\ k'.grp = k.grp
      BY <1>6, <2>0, QuietFacts DEF DetectCGroup, MoveTasks, LockMemory
    <3> QED  BY <3>1, PlannedBack DEF Planned
  <2> QED  BY <1>6, <2>0, <2>1, <2>2, DivLast DEF DivInv
<1> QED  BY <1>1, <1>2, <1>3, <1>4, <1>5, <1>6 DEF Next, Prepare

(* When the threads start, and nothing failed, docker and its containers    *)
(* have exactly the CPUs for real-time tasks and the system the others,     *)
(* both exclusive, however the CPU sets of the containers were before, in   *)
(* whatever order the containers are met, and the kernel refuses no write   *)
(* this needs (resetContCGroups(), setContCGroups(), prepareEnvironment()). *)
THEOREM PartitionAlways == Spec => []Partition
<1>1. DivInv => Partition
  <2> SUFFICES ASSUME DivInv, Planned, stage = "running"
               PROVE  /\ k.grp["docker"].cpus = set.affinity_mask /\ k.grp["docker"].excl
                      /\ \A c \in Children(k, "docker") : k.grp[c].cpus = set.affinity_mask
                      /\ k.grp["system"].cpus = naff /\ k.grp["system"].excl /\ k.moved
    BY DEF Partition, Planned
  <2>1. k.grp["docker"].excl /\ DockerDivided /\ SystemDivided /\ k.grp["system"].excl /\ k.moved
    BY DEF DivInv, Division
  <2> QED  BY <2>1 DEF DockerDivided, Placed, SystemDivided
<1> QED  BY <1>1, TypeInit, TypeStep, IsoInit, IsoStep, DivInit, DivStep, PTL DEF Spec
=============================================================================
