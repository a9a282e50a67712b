---------------------------- MODULE PlanningProofs ---------------------------
(***************************************************************************)
(* What holds of the plan for any number of CPUs and any configuration.    *)
(***************************************************************************)
EXTENDS Planning, ResTracerProofs

-----------------------------------------------------------------------------
(* What a section takes from the one above, for as long as it is shared.   *)
Inherits(f, N, own, up, sh) ==
  /\ f = [x \in 0..N |-> f[x]]
  /\ \A x \in 0..N : (x \in sh => f[x] = f[up[x]]) /\ (x \notin sh => f[x] = own[x])

LEMMA Inherit ==
  ASSUME NEW N \in Nat, NEW own, NEW up,
         NEW sh \in SUBSET (1..N), \A x \in sh : up[x] \in 0..(x - 1)
  PROVE  \E f : Inherits(f, N, own, up, sh)
<1> DEFINE Good(f, x) == (x \in sh => f[x] = f[up[x]]) /\ (x \notin sh => f[x] = own[x])
           V == {own[x] : x \in 0..N}
           S == {n \in Nat : n <= N => \E f \in [0..n -> V] : \A x \in 0..n : Good(f, x)}
<1>1. 0 \in S
  <2> DEFINE f == [x \in 0..0 |-> own[x]]
  <2>1. f \in [0..0 -> V] /\ \A x \in 0..0 : x \notin sh /\ f[x] = own[x]
    OBVIOUS
  <2> HIDE DEF f
  <2> QED  BY <2>1
<1>2. ASSUME NEW n \in Nat, n \in S PROVE n + 1 \in S
  <2> SUFFICES ASSUME n + 1 <= N PROVE \E f \in [0..(n + 1) -> V] : \A x \in 0..(n + 1) : Good(f, x)
    OBVIOUS
  <2>1. PICK g \in [0..n -> V] : \A x \in 0..n : Good(g, x)
    BY <1>2
  <2> DEFINE new == IF n + 1 \in sh THEN g[up[n + 1]] ELSE own[n + 1]
             h == [x \in 0..(n + 1) |-> IF x <= n THEN g[x] ELSE new]
  <2>2. \A x \in sh : x <= n + 1 => up[x] \in 0..n
    OBVIOUS
  <2>3. new \in V
    BY <2>1, <2>2
  <2>4. h \in [0..(n + 1) -> V] /\ (\A x \in 0..n : h[x] = g[x]) /\ h[n + 1] = new
    BY <2>1, <2>3
  <2> HIDE DEF h
  <2>5. ASSUME NEW x \in 0..n PROVE Good(h, x)
    <3>1. Good(g, x) /\ h[x] = g[x]
      BY <2>1, <2>4
    <3>2. x \in sh => h[up[x]] = g[up[x]]
      BY <2>2, <2>4
    <3> QED  BY <3>1, <3>2
  <2>6. Good(h, n + 1)
    <3>1. n + 1 \in sh => h[up[n + 1]] = g[up[n + 1]]
      BY <2>2, <2>4
    <3> QED  BY <2>4, <3>1
  <2>7. \A x \in 0..(n + 1) : x \in 0..n \/ x = n + 1
    OBVIOUS
  <2> HIDE DEF Good
  <2> QED  BY <2>4, <2>5, <2>6, <2>7
<1>3. N \in S
  <2> HIDE DEF S
  <2> QED  BY <1>1, <1>2, SetInduction
<1>4. PICK f \in [0..N -> V] : \A x \in 0..N : Good(f, x)
  BY <1>3
<1>5. f = [x \in 0..N |-> f[x]] /\ \A x \in 0..N : Good(f, x)
  <2> HIDE DEF V, Good
  <2> QED  BY <1>4
<1>6. Inherits(f, N, own, up, sh)
  BY <1>5 DEF Inherits
<1> QED  BY <1>6

LEMMA SecsFacts ==
  ASSUME conf \in Inputs
  PROVE  /\ Len(conf.secs) \in Nat /\ Secs = 1..Len(conf.secs)
         /\ \A s \in Secs : /\ Sec(s).up \in 0..(s - 1) /\ Sec(s).kind \in {"img", "cont", "pid"}
                            /\ Sec(s).aff = Shared \/ Sec(s).aff \in Int
                            /\ Sec(s).attr = Shared \/ Sec(s).attr \in Attr
         /\ conf.aff \in Int /\ conf.attr \in Attr
<1>1. conf.secs \in Seq(Range(conf.secs))
  BY PlanningAssumption
<1>2. Len(conf.secs) \in Nat /\ Secs = 1..Len(conf.secs)
  BY <1>1 DEF Secs
<1> QED  BY <1>2, PlanningAssumption DEF Secs, Sec

LEMMA OwnerFacts ==
  ASSUME conf \in Inputs
  PROVE  /\ Owner(0) = 0
         /\ \A s \in Secs : Owner(s) = IF Sec(s).aff = Shared THEN Owner(Sec(s).up) ELSE s
<1> DEFINE N == Len(conf.secs)
           sh == {x \in 1..N : Sec(x).aff = Shared}
           up == [x \in 1..N |-> Sec(x).up]
           own == [x \in 0..N |-> x]
           Rec(f) == [x \in 0..N |-> IF x > 0 /\ Sec(x).aff = Shared THEN f[Sec(x).up] ELSE x]
           o == CHOOSE f : f = Rec(f)
<1>1. N \in Nat /\ (\A x \in sh : up[x] \in 0..(x - 1)) /\ \A x \in 1..N : up[x] = Sec(x).up
  <2>1. N \in Nat /\ Secs = 1..N /\ \A x \in Secs : Sec(x).up \in 0..(x - 1)
    BY SecsFacts
  <2>2. \A x \in 1..N : up[x] = Sec(x).up
    OBVIOUS
  <2> QED  BY <2>1, <2>2
<1>2. PICK f : Inherits(f, N, own, up, sh)
  <2>1. sh \in SUBSET (1..N)
    OBVIOUS
  <2> HIDE DEF N, sh, up, own
  <2> QED  BY <1>1, <2>1, Inherit
<1>3. f = Rec(f)
  <2>1. ASSUME NEW x \in 0..N PROVE f[x] = Rec(f)[x]
    <3>1. CASE x \in sh
      <4>1. f[x] = f[up[x]]
        <5> HIDE DEF up, sh, own
        <5> QED  BY <1>2, <3>1 DEF Inherits
      <4>2. up[x] = Sec(x).up
        BY <1>1, <3>1
      <4> HIDE DEF up
      <4> QED  BY <1>1, <3>1, <4>1, <4>2
    <3>2. CASE x \notin sh
      <4>1. f[x] = own[x]
        <5> HIDE DEF up, sh, own
        <5> QED  BY <1>2, <3>2 DEF Inherits
      <4> QED  BY <1>1, <3>2, <4>1
    <3> QED  BY <3>1, <3>2
  <2>2. Rec(f) = [x \in 0..N |-> Rec(f)[x]]
    OBVIOUS
  <2>3. f = [x \in 0..N |-> f[x]]
    <3> HIDE DEF up, sh, own
    <3> QED  BY <1>2 DEF Inherits
  <2> HIDE DEF Rec
  <2> QED  BY <2>1, <2>2, <2>3
<1>4. o = Rec(o)
  <2> HIDE DEF Rec
  <2> QED  BY <1>3
<1>5. \A x \in 0..N : o[x] = IF x > 0 /\ Sec(x).aff = Shared THEN o[Sec(x).up] ELSE x
  <2> HIDE DEF o
  <2> QED  BY <1>4
<1>6. \A s : Owner(s) = o[s]
  BY DEF Owner
<1> HIDE DEF o
<1> QED  BY <1>1, <1>5, <1>6, SecsFacts

LEMMA AttrFacts ==
  ASSUME conf \in Inputs
  PROVE  /\ AttrOf(0) = conf.attr
         /\ \A s \in Secs : AttrOf(s) = IF Sec(s).attr = Shared THEN AttrOf(Sec(s).up) ELSE Sec(s).attr
<1> DEFINE N == Len(conf.secs)
           sh == {x \in 1..N : Sec(x).attr = Shared}
           up == [x \in 1..N |-> Sec(x).up]
           own == [x \in 0..N |-> IF x = 0 THEN conf.attr ELSE Sec(x).attr]
           Rec(f) == [x \in 0..N |-> IF x = 0 THEN conf.attr
                                     ELSE IF Sec(x).attr = Shared THEN f[Sec(x).up] ELSE Sec(x).attr]
           a == CHOOSE f : f = Rec(f)
<1>1. N \in Nat /\ (\A x \in sh : up[x] \in 0..(x - 1)) /\ \A x \in 1..N : up[x] = Sec(x).up
  <2>1. N \in Nat /\ Secs = 1..N /\ \A x \in Secs : Sec(x).up \in 0..(x - 1)
    BY SecsFacts
  <2>2. \A x \in 1..N : up[x] = Sec(x).up
    OBVIOUS
  <2> QED  BY <2>1, <2>2
<1>2. PICK f : Inherits(f, N, own, up, sh)
  <2>1. sh \in SUBSET (1..N)
    OBVIOUS
  <2> HIDE DEF N, sh, up, own
  <2> QED  BY <1>1, <2>1, Inherit
<1>3. f = Rec(f)
  <2>1. ASSUME NEW x \in 0..N PROVE f[x] = Rec(f)[x]
    <3>1. CASE x \in sh
      <4>1. f[x] = f[up[x]]
        <5> HIDE DEF up, sh, own
        <5> QED  BY <1>2, <3>1 DEF Inherits
      <4>2. up[x] = Sec(x).up
        BY <1>1, <3>1
      <4> HIDE DEF up
      <4> QED  BY <1>1, <3>1, <4>1, <4>2
    <3>2. CASE x \notin sh
      <4>1. f[x] = own[x]
        <5> HIDE DEF up, sh, own
        <5> QED  BY <1>2, <3>2 DEF Inherits
      <4> QED  BY <1>1, <3>2, <4>1
    <3> QED  BY <3>1, <3>2
  <2>2. Rec(f) = [x \in 0..N |-> Rec(f)[x]]
    OBVIOUS
  <2>3. f = [x \in 0..N |-> f[x]]
    <3> HIDE DEF up, sh, own
    <3> QED  BY <1>2 DEF Inherits
  <2> HIDE DEF Rec
  <2> QED  BY <2>1, <2>2, <2>3
<1>4. a = Rec(a)
  <2> HIDE DEF Rec
  <2> QED  BY <1>3
<1>5. \A x \in 0..N : a[x] = IF x = 0 THEN conf.attr
                           ELSE IF Sec(x).attr = Shared THEN a[Sec(x).up] ELSE Sec(x).attr
  <2> HIDE DEF a
  <2> QED  BY <1>4
<1>6. \A s : AttrOf(s) = a[s]
  BY DEF AttrOf
<1> HIDE DEF a
<1> QED  BY <1>1, <1>5, <1>6, SecsFacts
(* If the sections above those of S are in S, S holds the owners.          *)
LEMMA OwnerIn ==
  ASSUME conf \in Inputs, NEW S \in SUBSET Secs, \A s \in S : Sec(s).up \in S \cup {0}
  PROVE  \A s \in S \cup {0} :
           /\ Owner(s) \in S \cup {0} /\ Owner(Owner(s)) = Owner(s)
           /\ Owner(s) = 0 \/ Sec(Owner(s)).aff \in Int
<1> DEFINE Good(s) == /\ Owner(s) \in S \cup {0} /\ Owner(Owner(s)) = Owner(s)
                      /\ Owner(s) = 0 \/ Sec(Owner(s)).aff \in Int
           T == {n \in Nat : \A s \in S \cup {0} : s <= n => Good(s)}
<1>1. S \subseteq Nat \ {0} /\ \A s \in S : Sec(s).up \in 0..(s - 1)
  BY SecsFacts
<1>2. Good(0)
  BY OwnerFacts
<1>3. 0 \in T
  BY <1>1, <1>2
<1>4. ASSUME NEW n \in Nat, n \in T PROVE n + 1 \in T
  <2> SUFFICES ASSUME NEW s \in S, s <= n + 1 PROVE Good(s)
    BY <1>1, <1>2
  <2>1. s \in Secs /\ Sec(s).up \in S \cup {0} /\ Sec(s).up <= n
    BY <1>1
  <2>2. Good(Sec(s).up)
    BY <1>4, <2>1
  <2>3. CASE Sec(s).aff = Shared
    <3>1. Owner(s) = Owner(Sec(s).up)
      BY <2>1, <2>3, OwnerFacts
    <3> QED  BY <2>2, <3>1
  <2>4. CASE Sec(s).aff # Shared
    <3>1. Owner(s) = s /\ Sec(s).aff \in Int
      BY <2>1, <2>4, OwnerFacts, SecsFacts
    <3> QED  BY <3>1
  <2> QED  BY <2>3, <2>4
<1>5. ASSUME NEW s \in S \cup {0} PROVE Good(s)
  <2> HIDE DEF T, Good
  <2>1. s \in T /\ s \in Nat
    BY <1>1, <1>3, <1>4, SetInduction
  <2> QED  BY <2>1 DEF T
<1> QED  BY <1>5

-----------------------------------------------------------------------------
(* Lists that hold each member of a set once.                              *)
Enum(s, S) ==
  /\ s \in Seq(S) /\ \A x \in S : \E i \in 1..Len(s) : s[i] = x
  /\ \A i, j \in 1..Len(s) : s[i] = s[j] => i = j

LEMMA EnumEmpty == Enum(<<>>, {})
BY DEF Enum

LEMMA EnumAppend ==
  ASSUME NEW S, NEW s, Enum(s, S), NEW x, x \notin S
  PROVE  Enum(Append(s, x), S \cup {x})
<1> DEFINE t == Append(s, x)
           T == S \cup {x}
<1>1. s \in Seq(T) /\ Len(s) \in Nat /\ x \in T
  BY DEF Enum
<1>2. t \in Seq(T) /\ Len(t) = Len(s) + 1 /\ t[Len(s) + 1] = x /\ \A i \in 1..Len(s) : t[i] = s[i]
  BY <1>1
<1>3. \A i \in 1..Len(s) : s[i] \in S
  BY DEF Enum
<1> HIDE DEF t
<1>4. 1..Len(t) = 1..Len(s) \cup {Len(s) + 1} /\ Len(s) + 1 \notin 1..Len(s)
  BY <1>1, <1>2
<1>5. \A y \in T : \E i \in 1..Len(t) : t[i] = y
  BY <1>2, <1>4 DEF Enum
<1>6. \A i, j \in 1..Len(t) : t[i] = t[j] => i = j
  BY <1>2, <1>3, <1>4 DEF Enum
<1> HIDE DEF T
<1>7. Enum(t, T)
  BY <1>2, <1>5, <1>6 DEF Enum
<1> QED  BY <1>7 DEF t, T

LEMMA EnumConcat ==
  ASSUME NEW S, NEW s, Enum(s, S), NEW U, NEW u, Enum(u, U), S \cap U = {}
  PROVE  Enum(s \o u, S \cup U)
<1> DEFINE t == s \o u
           T == S \cup U
<1>1. s \in Seq(T) /\ u \in Seq(T) /\ Len(s) \in Nat /\ Len(u) \in Nat
  BY DEF Enum
<1>2. /\ t \in Seq(T) /\ Len(t) = Len(s) + Len(u)
      /\ \A i \in 1..Len(s) : t[i] = s[i]
      /\ \A i \in (Len(s) + 1)..Len(t) : t[i] = u[i - Len(s)]
  BY <1>1
<1>3. (\A i \in 1..Len(s) : s[i] \in S) /\ \A i \in 1..Len(u) : u[i] \in U
  BY DEF Enum
<1> HIDE DEF t
<1>4. ASSUME NEW i \in 1..Len(t)
      PROVE  \/ i \in 1..Len(s) /\ t[i] = s[i] /\ t[i] \in S
             \/ i - Len(s) \in 1..Len(u) /\ t[i] = u[i - Len(s)] /\ t[i] \in U
  BY <1>1, <1>2, <1>3
<1>5. ASSUME NEW y \in T PROVE \E i \in 1..Len(t) : t[i] = y
  <2>1. CASE y \in S
    <3>1. PICK i \in 1..Len(s) : s[i] = y
      BY <2>1 DEF Enum
    <3> QED  BY <1>1, <1>2, <3>1
  <2>2. CASE y \in U
    <3>1. PICK i \in 1..Len(u) : u[i] = y
      BY <2>2 DEF Enum
    <3>2. i + Len(s) \in (Len(s) + 1)..Len(t) /\ i + Len(s) \in 1..Len(t) /\ (i + Len(s)) - Len(s) = i
      BY <1>1, <1>2
    <3>3. t[i + Len(s)] = u[i]
      BY <1>2, <3>2
    <3> QED  BY <3>1, <3>2, <3>3
  <2> QED  BY <2>1, <2>2
<1>6. ASSUME NEW i \in 1..Len(t), NEW j \in 1..Len(t), t[i] = t[j] PROVE i = j
  <2>1. CASE i \in 1..Len(s) /\ t[i] = s[i] /\ t[i] \in S
    <3>1. j \in 1..Len(s) /\ t[j] = s[j]
      BY <1>4, <1>6, <2>1
    <3> QED  BY <1>6, <2>1, <3>1 DEF Enum
  <2>2. CASE i - Len(s) \in 1..Len(u) /\ t[i] = u[i - Len(s)] /\ t[i] \in U
    <3>1. j - Len(s) \in 1..Len(u) /\ t[j] = u[j - Len(s)]
      BY <1>4, <1>6, <2>2
    <3>2. i - Len(s) = j - Len(s)
      BY <1>6, <2>2, <3>1 DEF Enum
    <3> QED  BY <1>1, <3>2
  <2> QED  BY <1>4, <2>1, <2>2
<1> HIDE DEF T
<1>7. Enum(t, T)
  BY <1>2, <1>5, <1>6 DEF Enum
<1> QED  BY <1>7 DEF t, T

(* qsortll_partition() puts one element after the other on a side.        *)
Sides(S) == [lo : Seq(S), hi : Seq(S)]
Goes(p, x, q) ==
  \/ q = [lo |-> Append(p.lo, x), hi |-> p.hi]
  \/ q = [lo |-> p.lo, hi |-> Append(p.hi, x)]

Partitions(f, list, S) ==
  /\ qsortll_partition(list) = f[Len(list) - 1]
  /\ f \in [0..(Len(list) - 1) -> Sides(S)] /\ f[0] = [lo |-> << >>, hi |-> << >>]
  /\ \A n \in 1..(Len(list) - 1) : Goes(f[n - 1], list[n], f[n])

LEMMA PartitionLoop ==
  ASSUME NEW S, NEW list \in Seq(S), Len(list) > 1
  PROVE  \E f : Partitions(f, list, S)
<1> DEFINE N == Len(list) - 1
           First(x) == cmpPidItemS(AttrOf(x), AttrOf(Last(list)))
           step(p, n) == IF First(list[n])
                         THEN [lo |-> Append(p.lo, list[n]), hi |-> p.hi]
                         ELSE [lo |-> p.lo, hi |-> Append(p.hi, list[n])]
           Rec(f) == [n \in 0..N |-> IF n = 0 THEN [lo |-> << >>, hi |-> << >>] ELSE
                         IF cmpPidItemS(AttrOf(list[n]), AttrOf(Last(list)))
                         THEN [lo |-> Append(f[n - 1].lo, list[n]), hi |-> f[n - 1].hi]
                         ELSE [lo |-> f[n - 1].lo, hi |-> Append(f[n - 1].hi, list[n])]]
           f == CHOOSE g : g = Rec(g)
           V == Sides(S)
           h == [n \in 1..N |-> [p \in V |-> step(p, n)]]
           b == [lo |-> << >>, hi |-> << >>]
<1>1. qsortll_partition(list) = f[N]
  BY Zenon DEF qsortll_partition
<1>2. N \in Nat /\ list \in Seq(S) /\ Len(list) = N + 1 /\ \A n \in 1..N : list[n] \in S
  OBVIOUS
<1>3. \A p \in V, n \in 1..N : step(p, n) \in V
  BY <1>2 DEF Sides
<1>4. PICK g : Iterates(g, N, V, b, h)
  <2>1. b \in V
    BY DEF Sides
  <2>2. \A n \in 1..N : h[n] \in [V -> V]
    <3> HIDE DEF N, V, step
    <3> QED  BY <1>3
  <2> HIDE DEF N, V, b, h
  <2> QED  BY <1>2, <2>1, <2>2, Iterate
<1>5. /\ g \in [0..N -> V] /\ g[0] = b
      /\ \A n \in 1..N : g[n - 1] \in V /\ g[n] = step(g[n - 1], n)
  <2> HIDE DEF V, step, b
  <2>1. \A n \in 1..N : n - 1 \in 0..N
    BY <1>2
  <2>2. g \in [0..N -> V] /\ g[0] = b /\ \A n \in 1..N : g[n] = h[n][g[n - 1]]
    <3> HIDE DEF N, h
    <3> QED  BY <1>4 DEF Iterates
  <2> QED  BY <2>1, <2>2
<1>6. g = Rec(g)
  <2>1. ASSUME NEW n \in 0..N PROVE g[n] = Rec(g)[n]
    <3>1. CASE n = 0
      BY <1>5, <3>1
    <3>2. CASE n \in 1..N
      <4>1. g[n] = step(g[n - 1], n)
        <5> HIDE DEF step
        <5> QED  BY <1>5, <3>2
      <4> QED  BY <3>2, <4>1
    <3> QED  BY <1>2, <3>1, <3>2
  <2>2. Rec(g) = [n \in 0..N |-> Rec(g)[n]]
    OBVIOUS
  <2> HIDE DEF Rec, V
  <2> QED  BY <1>5, <2>1, <2>2
<1>7. f = Rec(f)
  <2> HIDE DEF Rec
  <2> QED  BY <1>6
<1>8. f[0] = b /\ \A n \in 1..N : f[n] = step(f[n - 1], n)
  <2> HIDE DEF f, N
  <2>1. f[0] = b
    BY <1>2, <1>7
  <2>2. ASSUME NEW n \in 1..N PROVE f[n] = step(f[n - 1], n)
    <3>1. n \in 0..N /\ n # 0
      BY <1>2
    <3> QED  BY <1>7, <3>1
  <2> QED  BY <2>1, <2>2
<1>9. \A n \in 0..N : f[n] \in V
  <2> DEFINE T == {n \in Nat : n <= N => f[n] \in V}
  <2>1. 0 \in T
    <3>1. b \in V
      BY DEF Sides
    <3> HIDE DEF f, b, V
    <3> QED  BY <1>8, <3>1
  <2>2. ASSUME NEW n \in Nat, n \in T PROVE n + 1 \in T
    <3> SUFFICES ASSUME n + 1 <= N PROVE f[n + 1] \in V
      <4> HIDE DEF f, V, N
      <4> QED  OBVIOUS
    <3> HIDE DEF f, V, N, step
    <3>1. f[n] \in V /\ n + 1 \in 1..N /\ (n + 1) - 1 = n
      BY <1>2, <2>2
    <3> QED  BY <1>3, <1>8, <3>1
  <2> HIDE DEF T
  <2>3. Nat \subseteq T
    BY <2>1, <2>2, SetInduction
  <2> HIDE DEF f, V, N
  <2> QED  BY <1>2, <2>3 DEF T
<1>10. f = [n \in 0..N |-> f[n]]
  <2> HIDE DEF f
  <2> QED  BY <1>7
<1>11. ASSUME NEW n \in 1..N PROVE Goes(f[n - 1], list[n], f[n])
  <2>1. f[n] = step(f[n - 1], n)
    <3> HIDE DEF step, f
    <3> QED  BY <1>8
  <2> HIDE DEF f
  <2> QED  BY <2>1 DEF Goes
<1>12. f \in [0..N -> V]
  <2> HIDE DEF f, V, N
  <2> QED  BY <1>9, <1>10
<1>13. Partitions(f, list, S)
  <2> HIDE DEF f
  <2> QED  BY <1>1, <1>8, <1>11, <1>12 DEF Partitions
<1> QED  BY <1>13

LEMMA PartitionShorter ==
  ASSUME NEW S, NEW list \in Seq(S), Len(list) > 1
  PROVE  LET part == qsortll_partition(list)
         IN  /\ part \in Sides(S)
             /\ Len(part.lo) < Len(list) /\ Len(part.hi) < Len(list)
<1>1. PICK f : Partitions(f, list, S)
  BY PartitionLoop
<1> DEFINE N == Len(list) - 1
           T == {n \in Nat : n <= N => Len(f[n].lo) <= n /\ Len(f[n].hi) <= n}
<1>2. N \in Nat /\ N < Len(list)
  OBVIOUS
<1>3. 0 \in T
  BY <1>1 DEF Partitions
<1>4. ASSUME NEW n \in Nat, n \in T PROVE n + 1 \in T
  <2> SUFFICES ASSUME n + 1 <= N PROVE Len(f[n + 1].lo) <= n + 1 /\ Len(f[n + 1].hi) <= n + 1
    OBVIOUS
  <2> DEFINE p == f[n]
             q == f[n + 1]
             x == list[n + 1]
  <2>1. p \in Sides(S) /\ Goes(p, x, q) /\ x \in S
    <3>1. n \in 0..N /\ n + 1 \in 1..N /\ (n + 1) - 1 = n
      BY <1>2
    <3> QED  BY <1>1, <3>1 DEF Partitions
  <2>2. Len(p.lo) <= n /\ Len(p.hi) <= n
    BY <1>2, <1>4
  <2> HIDE DEF p, q, x
  <2>3. /\ p.lo \in Seq(S) /\ p.hi \in Seq(S)
        /\ Len(p.lo) \in Nat /\ Len(Append(p.lo, x)) = Len(p.lo) + 1
        /\ Len(p.hi) \in Nat /\ Len(Append(p.hi, x)) = Len(p.hi) + 1
    BY <2>1 DEF Sides
  <2>4. \/ q.lo = Append(p.lo, x) /\ q.hi = p.hi
        \/ q.lo = p.lo /\ q.hi = Append(p.hi, x)
    BY <2>1 DEF Goes
  <2>5. Len(q.lo) <= n + 1 /\ Len(q.hi) <= n + 1
    BY <2>2, <2>3, <2>4
  <2> QED  BY <2>5 DEF q
<1>5. N \in T
  <2> HIDE DEF T
  <2> QED  BY <1>2, <1>3, <1>4, SetInduction
<1>6. f[N] \in Sides(S) /\ qsortll_partition(list) = f[N] /\ Len(f[N].lo) <= N /\ Len(f[N].hi) <= N
  BY <1>1, <1>2, <1>5 DEF Partitions
<1>7. Len(f[N].lo) \in Nat /\ Len(f[N].hi) \in Nat
  BY <1>6 DEF Sides
<1> QED  BY <1>2, <1>6, <1>7

(* The two sides hold what stands before the pivot.                        *)
LEMMA PartitionKeeps ==
  ASSUME NEW list, NEW S, Enum(list, S), Len(list) > 1
  PROVE  LET part == qsortll_partition(list)
         IN \E L, H : /\ Enum(part.lo, L) /\ Enum(part.hi, H) /\ L \cap H = {}
                      /\ L \cup H = S \ {Last(list)}
<1>1. PICK f : Partitions(f, list, S)
  BY PartitionLoop DEF Enum
<1> DEFINE N == Len(list) - 1
           Seen(n) == {list[i] : i \in 1..n}
           Good(p, n) == \E L, H : /\ Enum(p.lo, L) /\ Enum(p.hi, H)
                                   /\ L \cap H = {} /\ L \cup H = Seen(n)
           T == {n \in Nat : n <= N => Good(f[n], n)}
<1>2. N \in Nat /\ list \in Seq(S) /\ Len(list) = N + 1
  BY DEF Enum
<1>3. /\ f[0].lo = << >> /\ f[0].hi = << >>
      /\ \A n \in 1..N : Goes(f[n - 1], list[n], f[n])
  BY <1>1 DEF Partitions
<1>4. 0 \in T
  <2>1. {} = Seen(0)
    OBVIOUS
  <2> HIDE DEF Seen
  <2>2. Good(f[0], 0)
    BY <1>3, <2>1, EnumEmpty
  <2> HIDE DEF Good
  <2> QED  BY <2>2
<1>5. ASSUME NEW n \in Nat, n \in T PROVE n + 1 \in T
  <2> SUFFICES ASSUME n + 1 <= N PROVE Good(f[n + 1], n + 1)
    <3> HIDE DEF Good, N
    <3> QED  OBVIOUS
  <2> DEFINE x == list[n + 1]
             p == f[n]
             q == f[n + 1]
  <2>1. Good(p, n)
    <3>1. n <= N
      BY <1>2
    <3> HIDE DEF Good
    <3> QED  BY <1>5, <3>1
  <2>2. Goes(p, x, q)
    <3>1. n + 1 \in 1..N /\ (n + 1) - 1 = n
      BY <1>2
    <3> HIDE DEF N
    <3> QED  BY <1>3, <3>1
  <2>3. x \notin Seen(n) /\ Seen(n + 1) = Seen(n) \cup {x}
    <3>1. \A i \in 1..n : list[i] # x
      BY <1>2 DEF Enum
    <3>2. 1..(n + 1) = 1..n \cup {n + 1}
      OBVIOUS
    <3> QED  BY <3>1, <3>2
  <2> HIDE DEF Seen, x, p, q
  <2>4. PICK L, H : Enum(p.lo, L) /\ Enum(p.hi, H) /\ L \cap H = {} /\ L \cup H = Seen(n)
    BY <2>1
  <2>5. CASE q = [lo |-> Append(p.lo, x), hi |-> p.hi]
    <3>1. q.lo = Append(p.lo, x) /\ q.hi = p.hi
      BY <2>5
    <3>2. Enum(q.lo, L \cup {x})
      BY <2>3, <2>4, <3>1, EnumAppend
    <3>3. (L \cup {x}) \cap H = {} /\ (L \cup {x}) \cup H = Seen(n + 1)
      BY <2>3, <2>4
    <3> QED  BY <2>4, <3>1, <3>2, <3>3 DEF q
  <2>6. CASE q = [lo |-> p.lo, hi |-> Append(p.hi, x)]
    <3>1. q.lo = p.lo /\ q.hi = Append(p.hi, x)
      BY <2>6
    <3>2. Enum(q.hi, H \cup {x})
      BY <2>3, <2>4, <3>1, EnumAppend
    <3>3. L \cap (H \cup {x}) = {} /\ L \cup (H \cup {x}) = Seen(n + 1)
      BY <2>3, <2>4
    <3> QED  BY <2>4, <3>1, <3>2, <3>3 DEF q
  <2> QED  BY <2>2, <2>5, <2>6 DEF Goes
<1>6. Good(f[N], N)
  <2> HIDE DEF T, Good
  <2>1. N \in T
    BY <1>2, <1>4, <1>5, SetInduction
  <2> QED  BY <1>2, <2>1 DEF T
<1>7. Seen(N) = S \ {Last(list)}
  <2>1. Last(list) = list[N + 1] /\ 1..Len(list) = 1..N \cup {N + 1} /\ N + 1 \notin 1..N
    BY <1>2 DEF Last
  <2>2. \A i \in 1..N : list[i] \in S /\ list[i] # list[N + 1]
    BY <1>2, <2>1 DEF Enum
  <2>3. \A y \in S : \E i \in 1..Len(list) : list[i] = y
    BY DEF Enum
  <2> QED  BY <2>1, <2>2, <2>3
<1> HIDE DEF Seen
<1>8. qsortll_partition(list) = f[N]
  BY <1>1 DEF Partitions
<1> QED  BY <1>6, <1>7, <1>8

(* What qsortll() makes of a list follows from what it makes of shorter    *)
(* ones, so the recursion has a result for every list.                     *)
Lists == Seq(Secs)
SortBody(f, list) ==
  IF Len(list) <= 1 THEN list
  ELSE f[qsortll_partition(list).lo] \o <<Last(list)>> \o f[qsortll_partition(list).hi]

LEMMA SortBodyShorter ==
  ASSUME NEW f, NEW g, NEW list \in Lists,
         \A k \in Lists : Len(k) < Len(list) => f[k] = g[k]
  PROVE  SortBody(f, list) = SortBody(g, list)
<1> DEFINE part == qsortll_partition(list)
<1>1. CASE Len(list) > 1
  <2>1. /\ part \in Sides(Secs)
        /\ Len(part.lo) < Len(list) /\ Len(part.hi) < Len(list)
    BY <1>1, PartitionShorter DEF Lists
  <2> HIDE DEF part
  <2>2. part.lo \in Lists /\ part.hi \in Lists
    BY <2>1 DEF Sides, Lists
  <2>3. f[part.lo] = g[part.lo] /\ f[part.hi] = g[part.hi]
    BY <2>1, <2>2
  <2> QED  BY <2>3 DEF SortBody, part
<1>2. CASE ~(Len(list) > 1)
  <2>1. Len(list) <= 1
    BY <1>2 DEF Lists
  <2> QED  BY <2>1 DEF SortBody
<1> QED  BY <1>1, <1>2

LEMMA SortRec == \A list \in Lists : qsortll[list] = SortBody(qsortll, list)
<1> DEFINE Body(f) == [list \in Lists |-> SortBody(f, list)]
           H == [f \in [Lists -> Lists] |-> Body(f)]
           size == [list \in Lists |-> Len(list)]
           start == [list \in Lists |-> list]
<1>1. ASSUME NEW f \in [Lists -> Lists], NEW list \in Lists PROVE SortBody(f, list) \in Lists
  <2>1. CASE Len(list) <= 1
    BY <2>1 DEF SortBody
  <2>2. CASE ~(Len(list) <= 1)
    <3> DEFINE part == qsortll_partition(list)
    <3>1. Len(list) > 1
      BY <2>2 DEF Lists
    <3>2. part \in Sides(Secs)
      BY <3>1, PartitionShorter DEF Lists
    <3>3. Last(list) \in Secs
      BY <3>1 DEF Last, Lists
    <3>4. SortBody(f, list) = f[part.lo] \o <<Last(list)>> \o f[part.hi]
      BY <2>2, Zenon DEF SortBody
    <3> HIDE DEF part
    <3>5. f[part.lo] \in Seq(Secs) /\ f[part.hi] \in Seq(Secs) /\ <<Last(list)>> \in Seq(Secs)
      BY <3>2, <3>3 DEF Sides, Lists
    <3>6. f[part.lo] \o <<Last(list)>> \o f[part.hi] \in Seq(Secs)
      BY <3>5
    <3> QED  BY <3>4, <3>6 DEF Lists
  <2> QED  BY <2>1, <2>2
<1>2. Shrinks(Lists, Lists, size, H)
  <2>1. size \in [Lists -> Nat]
    BY DEF Lists
  <2>2. H \in [[Lists -> Lists] -> [Lists -> Lists]]
    BY <1>1
  <2>3. ASSUME NEW f \in [Lists -> Lists], NEW g \in [Lists -> Lists], NEW list \in Lists,
               Smaller(Lists, size, f, g, list)
        PROVE  H[f][list] = H[g][list]
    <3>1. \A k \in Lists : Len(k) < Len(list) => f[k] = g[k]
      BY <2>3 DEF Smaller
    <3> QED  BY <3>1, SortBodyShorter
  <2> HIDE DEF H, size
  <2> QED  BY <2>1, <2>2, <2>3 DEF Shrinks
<1>3. \E f \in [Lists -> Lists] : f = H[f]
  <2>1. start \in [Lists -> Lists]
    OBVIOUS
  <2> HIDE DEF H, size, start
  <2> QED  BY <1>2, <2>1, Recursion
<1>4. qsortll = CHOOSE f : f = Body(f)
  BY Zenon DEF qsortll, SortBody, Lists
<1>5. qsortll = Body(qsortll)
  <2> HIDE DEF Body
  <2> QED  BY <1>3, <1>4
<1> QED  BY <1>5

LEMMA SortKeeps ==
  ASSUME NEW S \in SUBSET Secs, NEW s, Enum(s, S)
  PROVE  Enum(qsortll[s], S)
<1> DEFINE Good(n) == \A R \in SUBSET Secs : \A k \in Lists :
                        Enum(k, R) /\ Len(k) <= n => Enum(qsortll[k], R)
           T == {n \in Nat : Good(n)}
<1>1. \A R \in SUBSET Secs : \A k : Enum(k, R) => k \in Lists /\ Len(k) \in Nat
  BY DEF Enum, Lists
<1>2. ASSUME NEW R \in SUBSET Secs, NEW k \in Lists, Enum(k, R), Len(k) <= 1
      PROVE  Enum(qsortll[k], R)
  BY <1>2, SortRec DEF SortBody
<1>3. ASSUME NEW R \in SUBSET Secs, NEW k \in Lists, Enum(k, R), Len(k) > 1, NEW n \in Nat,
             Good(n), Len(k) <= n + 1
      PROVE  Enum(qsortll[k], R)
  <2> DEFINE part == qsortll_partition(k)
             x == Last(k)
  <2>1. /\ part \in Sides(Secs)
        /\ Len(part.lo) < Len(k) /\ Len(part.hi) < Len(k)
    BY <1>3, PartitionShorter DEF Lists
  <2>2. PICK L, H : /\ Enum(part.lo, L) /\ Enum(part.hi, H) /\ L \cap H = {}
                    /\ L \cup H = R \ {x}
    BY <1>3, PartitionKeeps
  <2>3. x \in R
    BY <1>3 DEF Enum, Last
  <2>4. qsortll[k] = qsortll[part.lo] \o <<x>> \o qsortll[part.hi]
    <3>1. qsortll[k] = SortBody(qsortll, k)
      BY SortRec
    <3>2. ~(Len(k) <= 1)
      BY <1>1, <1>3
    <3>3. SortBody(qsortll, k) = qsortll[part.lo] \o <<x>> \o qsortll[part.hi]
      BY <3>2, Zenon DEF SortBody
    <3> HIDE DEF part, x
    <3> QED  BY <3>1, <3>3
  <2> HIDE DEF part, x
  <2>5. Enum(qsortll[part.lo], L) /\ Enum(qsortll[part.hi], H)
    <3>1. L \in SUBSET Secs /\ H \in SUBSET Secs
      BY <2>2
    <3>2. part.lo \in Lists /\ Len(part.lo) <= n /\ part.hi \in Lists /\ Len(part.hi) <= n
      <4>1. part.lo \in Lists /\ part.hi \in Lists
        BY <2>1 DEF Sides, Lists
      <4> QED  BY <1>1, <1>3, <2>1, <2>2, <3>1
    <3> QED  BY <1>3, <2>2, <3>1, <3>2
  <2>6. Enum(<<x>>, {x})
    BY DEF Enum
  <2>7. Enum(qsortll[part.lo] \o <<x>>, L \cup {x})
    BY <2>2, <2>5, <2>6, EnumConcat
  <2>8. Enum((qsortll[part.lo] \o <<x>>) \o qsortll[part.hi], (L \cup {x}) \cup H)
    BY <2>2, <2>5, <2>7, EnumConcat
  <2>9. (L \cup {x}) \cup H = R
    BY <2>2, <2>3
  <2> QED  BY <2>4, <2>8, <2>9
<1>4. 0 \in T
  BY <1>1, <1>2
<1>5. ASSUME NEW n \in Nat, n \in T PROVE n + 1 \in T
  <2> HIDE DEF Good
  <2>1. Good(n)
    BY <1>5
  <2>2. Good(n + 1)
    <3> SUFFICES ASSUME NEW R \in SUBSET Secs, NEW k \in Lists, Enum(k, R), Len(k) <= n + 1
                 PROVE  Enum(qsortll[k], R)
      BY DEF Good
    <3> QED  BY <1>1, <1>2, <1>3, <2>1
  <2> QED  BY <2>2
<1>6. Len(s) \in T
  <2> HIDE DEF T
  <2> QED  BY <1>1, <1>4, <1>5, SetInduction
<1> QED  BY <1>1, <1>6
-----------------------------------------------------------------------------
(* The inductive invariant behind NotOverbooked.  A section that has been  *)
(* closed without a CPU although its affinity names one has lost that CPU  *)
(* to the sections inside (Unplaced): only there the plan books unchecked. *)
Masks == {m \in SUBSET Int : IsFiniteSet(m)}
Running == pc \notin {"ready", "failed"}

Shape ==
  /\ conf \in Inputs
  /\ met \subseteq Secs /\ open \subseteq met
  /\ \A s \in met : Sec(s).up \in met \cup {0}
  /\ aHead = << >> \/ Enum(aHead, met)
  /\ pc # "ready" => Enum(aHead, met)
  /\ todo \in Seq(met)
  /\ mask \in [0..Len(conf.secs) -> Masks]
  /\ assigned = [s \in Secs |-> assigned[s]]
  /\ trc = [c \in Cpus |-> trc[c]]
  /\ Running => affinity = [s \in 0..Len(conf.secs) |-> IF s = 0 THEN conf.aff ELSE Sec(s).aff]
  /\ pc \notin {"prepare", "failed"} => open = {}

Fixed == Running => \A o \in met \cup {0} : Owner(o) = o /\ affinity[o] >= 0 => mask[o] \subseteq {affinity[o]}

Unplaced ==
  Running => \A s \in met \ open : assigned[s] = None /\ affinity[Owner(s)] >= 0 => Mask(s) = {}

NoneOver == pc = "prepare" => \A c \in Cpus : ~OverUtilised(trc[c])

PlanInv == Shape /\ Fixed /\ Unplaced /\ NoneOver /\ NotOverbooked

(* The configuration stays, and with it what it says of the sections.      *)
LEMMA SameConf ==
  ASSUME conf' = conf
  PROVE  /\ Secs' = Secs /\ \A s : Sec(s)' = Sec(s) /\ Owner(s)' = Owner(s) /\ AttrOf(s)' = AttrOf(s)
         /\ \A s : Mask(s)' = mask'[Owner(s)]
BY DEF Secs, Sec, Owner, AttrOf, Mask

LEMMA AffinityOf ==
  ASSUME Shape, Running
  PROVE  \A s \in met \cup {0} :
           /\ Owner(s) \in met \cup {0} /\ Owner(Owner(s)) = Owner(s)
           /\ Owner(s) \in 0..Len(conf.secs) /\ affinity[Owner(s)] \in Int
<1> SUFFICES ASSUME NEW s \in met \cup {0}
             PROVE  /\ Owner(s) \in met \cup {0} /\ Owner(Owner(s)) = Owner(s)
                    /\ Owner(s) \in 0..Len(conf.secs) /\ affinity[Owner(s)] \in Int
  OBVIOUS
<1>1. /\ Owner(s) \in met \cup {0} /\ Owner(Owner(s)) = Owner(s)
      /\ Owner(s) = 0 \/ Sec(Owner(s)).aff \in Int
  BY OwnerIn DEF Shape
<1>2. /\ Len(conf.secs) \in Nat /\ Secs = 1..Len(conf.secs) /\ conf.aff \in Int
  BY SecsFacts DEF Shape
<1>3. met \cup {0} \subseteq 0..Len(conf.secs)
  BY <1>2 DEF Shape
<1>4. Owner(s) \in 0..Len(conf.secs)
  BY <1>1, <1>3
<1>5. affinity[Owner(s)] = IF Owner(s) = 0 THEN conf.aff ELSE Sec(Owner(s)).aff
  BY <1>4 DEF Shape
<1> QED  BY <1>1, <1>2, <1>4, <1>5

LEMMA CurrentIn ==
  ASSUME Shape
  PROVE  Current \in open \cup {0} /\ \A s \in open : s <= Current
<1> DEFINE S == {0} \cup open
<1>1. Len(conf.secs) \in Nat /\ Secs = 1..Len(conf.secs)
  BY SecsFacts DEF Shape
<1>2. S \subseteq 0..Len(conf.secs) /\ IsFiniteSet(0..Len(conf.secs))
  <2>1. IsFiniteSet(0..Len(conf.secs))
    BY <1>1, FS_Interval
  <2>2. open \subseteq 1..Len(conf.secs)
    BY <1>1 DEF Shape
  <2> QED  BY <1>1, <2>1, <2>2
<1>3. IsFiniteSet(S) /\ S \in SUBSET Nat /\ S # {}
  BY <1>1, <1>2, FS_Subset
<1>4. Max(S) \in S /\ \A x \in S : x <= Max(S)
  <2> HIDE DEF S
  <2> QED  BY <1>3, FiniteMax
<1> QED  BY <1>4 DEF Current

(* A mask of one CPU.                                                      *)
LEMMA OnlyOne ==
  ASSUME NEW m \in Masks, Cardinality(m) = 1, NEW c \in m, NEW d \in m
  PROVE  c = d
BY FS_Singleton DEF Masks

LEMMA MaskInt ==
  ASSUME NEW aff \in Int, NEW dep
  PROVE  createAffinityMask(aff, dep) \in Masks
<1>1. {aff} \in Masks
  BY FS_Singleton DEF Masks
<1>2. Cpus \cap dep \in Masks
  <2>1. Cpus \cap dep \in SUBSET Cpus
    OBVIOUS
  <2>2. IsFiniteSet(Cpus \cap dep)
    BY <2>1, ResTracerAssumption, FS_Subset
  <2>3. \A c \in Cpus \cap dep : c \in Nat
    BY ResTracerAssumption
  <2> QED  BY <2>2, <2>3 DEF Masks
<1>3. CASE aff >= 0
  BY <1>1, <1>3 DEF createAffinityMask
<1>4. CASE ~(aff >= 0)
  BY <1>2, <1>4 DEF createAffinityMask
<1> QED  BY <1>3, <1>4

LEMMA PlanInit == Init => PlanInv
<1> SUFFICES ASSUME Init PROVE PlanInv
  OBVIOUS
<1>1. Len(conf.secs) \in Nat /\ conf.aff \in Int /\ conf \in Inputs
  <2>1. conf \in Inputs
    BY DEF Init
  <2> QED  BY <2>1, SecsFacts
<1>2. createAffinityMask(conf.aff, Cpus) \in Masks /\ NoMask \in Masks
  <2>1. NoMask \in Masks
    <3>1. IsFiniteSet({-1})
      BY FS_Singleton, Zenon
    <3> QED  BY <3>1 DEF NoMask, Masks
  <2> QED  BY <1>1, <2>1, MaskInt
<1>3. mask \in [0..Len(conf.secs) -> Masks]
  <2> DEFINE A == createAffinityMask(conf.aff, Cpus)
  <2>1. mask = [s \in 0..Len(conf.secs) |-> IF s = 0 THEN A ELSE NoMask]
    BY DEF Init
  <2> HIDE DEF A
  <2>2. A \in Masks /\ NoMask \in Masks
    BY <1>2 DEF A
  <2> HIDE DEF NoMask
  <2> QED  BY <2>1, <2>2
<1>4. Shape
  <2>1. assigned = [s \in Secs |-> assigned[s]] /\ trc = [c \in Cpus |-> trc[c]]
    BY DEF Init
  <2>2. affinity = [s \in 0..Len(conf.secs) |-> IF s = 0 THEN conf.aff ELSE Sec(s).aff]
    BY DEF Init
  <2>3. pc = "prepare" /\ met = {} /\ open = {} /\ todo = << >> /\ aHead = << >>
    BY DEF Init
  <2> QED  BY <1>1, <1>3, <2>1, <2>2, <2>3, EnumEmpty DEF Shape
<1>5. Fixed
  <2>1. met \cup {0} = {0} /\ affinity[0] = conf.aff /\ mask[0] = createAffinityMask(conf.aff, Cpus)
    BY <1>1 DEF Init
  <2> QED  BY <2>1 DEF Fixed, createAffinityMask
<1>6. Unplaced
  BY DEF Unplaced, Init
<1>7. \A c \in Cpus : ~OverUtilised(trc[c])
  BY DEF Init, Free, OverUtilised
<1> QED  BY <1>4, <1>5, <1>6, <1>7 DEF PlanInv, NoneOver, NotOverbooked
(* pushResource(): the masks and owners of the sections seen so far stay.  *)
LEMMA PushStep ==
  ASSUME PlanInv, NEW s \in Waiting(Current), Push(s), pc = "prepare",
         UNCHANGED <<conf, mode, todo, affinity, lead, refused>>
  PROVE  PlanInv'
<1>0. Shape /\ Fixed /\ Unplaced /\ NoneOver /\ Running /\ Running'
  BY DEF PlanInv, Push, Running
<1>1. s \in Secs /\ s \notin met /\ Sec(s).up \in met \cup {0}
  BY <1>0, CurrentIn DEF Waiting, Inside, Shape
<1>2. /\ met' = met \cup {s} /\ open' = open \cup {s} /\ aHead' = <<s>> \o aHead
      /\ UNCHANGED <<conf, todo, affinity, assigned, trc, pc>>
  BY DEF Push
<1>3. /\ Len(conf.secs) \in Nat /\ Secs = 1..Len(conf.secs)
      /\ Sec(s).aff = Shared \/ Sec(s).aff \in Int
  BY <1>0, <1>1, SecsFacts DEF Shape
<1>4. affinity[s] = Sec(s).aff
  BY <1>0, <1>1, <1>3 DEF Shape
<1>5. \A t \in met \cup {0} : /\ t # s /\ t \in 0..Len(conf.secs)
                              /\ Owner(t) \in (met \cup {0}) \ {s} /\ Owner(t) \in 0..Len(conf.secs)
  BY <1>0, <1>1, <1>3, AffinityOf DEF Shape
<1> DEFINE dep == IF Sec(s).up = 0 THEN Cpus ELSE Mask(Sec(s).up)
           new == createAffinityMask(affinity[s], dep)
<1>6. mask' = IF Sec(s).aff = Shared THEN mask ELSE [mask EXCEPT ![s] = new]
  BY DEF Push
<1>7. Sec(s).aff # Shared => new \in Masks
  BY <1>3, <1>4, MaskInt
<1>8. affinity[s] \in Int /\ affinity[s] >= 0 => new \subseteq {affinity[s]}
  BY DEF createAffinityMask
<1> HIDE DEF new
<1>9. /\ mask' \in [0..Len(conf.secs) -> Masks]
      /\ \A t \in 0..Len(conf.secs) : t # s => mask'[t] = mask[t]
      /\ Sec(s).aff # Shared => mask'[s] = new
  BY <1>0, <1>1, <1>3, <1>6, <1>7 DEF Shape
<1>10. Shape'
  <2>1. Enum(aHead', met')
    <3>1. Enum(<<s>>, {s})
      BY DEF Enum
    <3>2. Enum(aHead, met)
      BY <1>0 DEF Shape
    <3>3. Enum(<<s>> \o aHead, {s} \cup met)
      BY <1>1, <3>1, <3>2, EnumConcat
    <3>4. {s} \cup met = met'
      BY <1>2
    <3> QED  BY <1>2, <3>3, <3>4
  <2>2. todo' \in Seq(met')
    BY <1>0, <1>2 DEF Shape
  <2>3. /\ met' \subseteq Secs' /\ open' \subseteq met'
        /\ \A t \in met' : Sec(t)'.up \in met' \cup {0}
    BY <1>0, <1>1, <1>2, SameConf DEF Shape
  <2> QED  BY <1>0, <1>2, <1>9, <2>1, <2>2, <2>3, SameConf DEF Shape, Running
<1>11. Fixed'
  <2> SUFFICES ASSUME NEW o \in met' \cup {0}, Owner(o)' = o, affinity[o] >= 0
               PROVE  mask'[o] \subseteq {affinity[o]}
    BY <1>2 DEF Fixed
  <2>1. Owner(o) = o
    BY <1>2, SameConf
  <2>2. CASE o = s
    <3>1. Sec(s).aff # Shared
      <4>1. Owner(s) = IF Sec(s).aff = Shared THEN Owner(Sec(s).up) ELSE s
        BY <1>0, <1>1, OwnerFacts DEF Shape
      <4> QED  BY <1>1, <1>5, <2>1, <2>2, <4>1
    <3> QED  BY <1>3, <1>4, <1>8, <1>9, <2>2, <3>1
  <2>3. CASE o # s
    <3>1. o \in met \cup {0} /\ mask'[o] = mask[o]
      BY <1>2, <1>5, <1>9, <2>3
    <3> QED  BY <1>0, <2>1, <3>1 DEF Fixed
  <2> QED  BY <2>2, <2>3
<1>12. Unplaced'
  <2> SUFFICES ASSUME NEW t \in met' \ open', assigned[t] = None, affinity[Owner(t)] >= 0
               PROVE  Mask(t)' = {}
    BY <1>2, SameConf DEF Unplaced
  <2>1. t \in met \ open
    BY <1>2
  <2>2. Mask(t)' = mask[Owner(t)]
    BY <1>2, <1>5, <1>9, <2>1, SameConf
  <2> QED  BY <1>0, <2>1, <2>2 DEF Unplaced, Mask
<1>13. NoneOver' /\ NotOverbooked'
  BY <1>0, <1>2 DEF NoneOver, NotOverbooked, OverUtilised
<1> QED  BY <1>10, <1>11, <1>12, <1>13 DEF PlanInv

(* A section is closed: masks shrink.  One whose affinity names a CPU gets *)
(* it, unless it is lost to the sections inside, or the program ends.      *)
LEMMA CloseStep ==
  ASSUME PlanInv, NEW s \in open, Close(s), pc = "prepare",
         UNCHANGED <<conf, mode, todo, affinity, lead, refused>>
  PROVE  PlanInv'
<1>0. Shape /\ Fixed /\ Unplaced /\ NoneOver /\ Running
  BY DEF PlanInv, Running
<1> DEFINE m == IF below[s] = {} THEN Mask(s) ELSE Mask(s) \cap below[s]
           o == Owner(s)
<1>1. /\ mask' = [mask EXCEPT ![o] = m] /\ addTracerFix(s, m)
      /\ open' = open \ {s} /\ UNCHANGED <<conf, met, aHead, todo, affinity>>
  BY DEF Close
<1>2. s \in met /\ s \in Secs /\ o \in met \cup {0} /\ o \in 0..Len(conf.secs) /\ Owner(o) = o
      /\ affinity[o] \in Int
  BY <1>0, AffinityOf DEF Shape
<1>3. m \subseteq mask[o] /\ m \in Masks /\ mask \in [0..Len(conf.secs) -> Masks]
  <2>1. mask \in [0..Len(conf.secs) -> Masks] /\ mask[o] \in Masks
    BY <1>0, <1>2 DEF Shape
  <2>2. m \in SUBSET mask[o]
    BY DEF Mask
  <2> HIDE DEF m, o
  <2> QED  BY <2>1, <2>2, FS_Subset DEF Masks
<1> HIDE DEF m, o
<1>4. /\ mask' \in [0..Len(conf.secs) -> Masks] /\ mask'[o] = m
      /\ \A t \in 0..Len(conf.secs) : mask'[t] \subseteq mask[t]
  BY <1>1, <1>2, <1>3
<1>5. \/ Cardinality(m) # 1 /\ UNCHANGED <<trc, assigned, pc>>
      \/ \E c \in Cpus : /\ checkUvalue(trc[c], AttrOf(s)) >= 0 /\ pc' = pc
                         /\ trc' = [trc EXCEPT ![c] = Book(@, AttrOf(s))]
                         /\ assigned' = [assigned EXCEPT ![s] = c]
      \/ pc' = "failed" /\ UNCHANGED <<trc, assigned>>
  <2>1. CASE Cardinality(m) # 1
    BY <1>1, <2>1 DEF addTracerFix
  <2>2. CASE Cardinality(m) = 1 /\ \E c \in m : c \in Cpus /\ checkUvalue(trc[c], AttrOf(s)) >= 0
    <3>1. PICK c \in m : /\ trc' = [trc EXCEPT ![c] = Book(@, AttrOf(s))]
                         /\ assigned' = [assigned EXCEPT ![s] = c] /\ UNCHANGED pc
      BY <1>1, <2>2 DEF addTracerFix
    <3>2. c \in Cpus /\ checkUvalue(trc[c], AttrOf(s)) >= 0
      <4>1. PICK d \in m : d \in Cpus /\ checkUvalue(trc[d], AttrOf(s)) >= 0
        BY <2>2
      <4>2. c = d
        BY <1>3, <2>2, OnlyOne
      <4> QED  BY <4>1, <4>2
    <3> QED  BY <3>1, <3>2
  <2>3. CASE Cardinality(m) = 1 /\ ~\E c \in m : c \in Cpus /\ checkUvalue(trc[c], AttrOf(s)) >= 0
    BY <1>1, <2>3 DEF addTracerFix
  <2> QED  BY <2>1, <2>2, <2>3
<1>6. ASSUME NEW c \in Cpus PROVE ~OverUtilised(trc'[c])
  <2>1. ~OverUtilised(trc[c])
    BY <1>0 DEF NoneOver
  <2>2. CASE UNCHANGED trc
    BY <2>1, <2>2
  <2>3. CASE \E d \in Cpus : /\ checkUvalue(trc[d], AttrOf(s)) >= 0
                             /\ trc' = [trc EXCEPT ![d] = Book(@, AttrOf(s))]
    <3>1. PICK d \in Cpus : /\ checkUvalue(trc[d], AttrOf(s)) >= 0
                            /\ trc' = [trc EXCEPT ![d] = Book(@, AttrOf(s))]
      BY <2>3
    <3>2. ~OverUtilised(Book(trc[d], AttrOf(s)))
      BY <3>1, FitsOne
    <3>3. trc'[c] = IF c = d THEN Book(trc[d], AttrOf(s)) ELSE trc[c]
      BY <1>0, <3>1 DEF Shape
    <3> QED  BY <2>1, <3>2, <3>3
  <2> QED  BY <1>5, <2>2, <2>3
<1>7. /\ trc' = [c \in Cpus |-> trc'[c]]
      /\ assigned' = [t \in Secs |-> assigned'[t]]
      /\ \A t \in Secs : assigned'[t] = None /\ t # s => assigned[t] = None
  <2>1. trc = [c \in Cpus |-> trc[c]] /\ assigned = [t \in Secs |-> assigned[t]]
    BY <1>0 DEF Shape
  <2> QED  BY <1>5, <2>1
<1>8. Shape'
  <2>1. Running' => Running
    BY <1>0
  <2>2. open' \subseteq met' /\ pc # "ready" /\ pc' \in {"prepare", "failed"}
    BY <1>0, <1>1, <1>5 DEF Shape, Running
  <2> QED  BY <1>0, <1>1, <1>4, <1>7, <2>1, <2>2, SameConf DEF Shape
<1>9. Fixed'
  <2> SUFFICES ASSUME NEW r \in met \cup {0}, Owner(r) = r, affinity[r] >= 0
               PROVE  mask'[r] \subseteq {affinity[r]}
    BY <1>1, SameConf DEF Fixed
  <2>1. mask[r] \subseteq {affinity[r]} /\ r \in 0..Len(conf.secs)
    BY <1>0, AffinityOf DEF Fixed
  <2> QED  BY <1>4, <2>1
<1>10. Unplaced'
  <2> SUFFICES ASSUME Running', NEW t \in met \ open', assigned'[t] = None, affinity[Owner(t)] >= 0
               PROVE  mask'[Owner(t)] = {}
    BY <1>1, SameConf DEF Unplaced
  <2>1. CASE t = s
    <3>1. Cardinality(m) # 1
      <4>1. \A c \in Cpus : c # None
        BY ResTracerAssumption DEF None
      <4> QED  BY <1>0, <1>2, <1>5, <2>1, <4>1 DEF Running, Shape
    <3>2. m \subseteq {affinity[o]}
      <4>1. o = Owner(s)
        BY DEF o
      <4> QED  BY <1>0, <1>2, <1>3, <2>1, <4>1 DEF Fixed
    <3>3. Cardinality({affinity[o]}) = 1
      BY FS_Singleton
    <3>4. m = {}
      <4> HIDE DEF m
      <4> QED  BY <3>1, <3>2, <3>3
    <3> QED  BY <1>4, <2>1, <3>4 DEF o
  <2>2. CASE t # s
    <3>1. t \in met \ open /\ t \in Secs
      BY <1>0, <1>1, <2>2 DEF Shape
    <3>2. mask[Owner(t)] = {}
      BY <1>0, <1>7, <2>2, <3>1 DEF Unplaced, Mask
    <3>3. Owner(t) \in 0..Len(conf.secs)
      BY <1>0, AffinityOf
    <3> QED  BY <1>4, <3>2, <3>3
  <2> QED  BY <2>1, <2>2
<1>11. NoneOver' /\ NotOverbooked'
  BY <1>6 DEF NoneOver, NotOverbooked, OverUtilised
<1> QED  BY <1>8, <1>9, <1>10, <1>11 DEF PlanInv
LEMMA SortStep == ASSUME PlanInv, Sort PROVE PlanInv'
<1>1. Shape /\ Fixed /\ Unplaced /\ Running /\ NotOverbooked
  BY DEF PlanInv, Sort, Prepared, Running
<1>2. /\ pc' = "known" /\ open = {} /\ Running'
      /\ aHead' = qsortll[aHead] /\ todo' = aHead'
      /\ UNCHANGED <<conf, met, open, mask, affinity, trc, assigned>>
  BY DEF Sort, Prepared, Running
<1>3. Enum(aHead', met)
  <2>1. Enum(aHead, met) /\ met \in SUBSET Secs
    BY <1>1, <1>2 DEF Shape, Running
  <2> QED  BY <1>2, <2>1, SortKeeps
<1>4. Shape'
  <2>1. todo' \in Seq(met)
    BY <1>2, <1>3 DEF Enum
  <2> QED  BY <1>1, <1>2, <1>3, <2>1, SameConf DEF Shape
<1>5. Fixed' /\ Unplaced' /\ NoneOver' /\ NotOverbooked'
  BY <1>1, <1>2, SameConf DEF Fixed, Unplaced, NoneOver, NotOverbooked, OverUtilised, Mask
<1> QED  BY <1>4, <1>5 DEF PlanInv

(* The head of a list of sections that have been visited.                  *)
LEMMA TakeHead ==
  ASSUME Shape, todo # << >>
  PROVE  Head(todo) \in met /\ Tail(todo) \in Seq(met)
BY DEF Shape

(* adaptPlanSchedule(): a CPU that would be over-utilised is taken only if *)
(* it is set for the section, and then the section has not got it before:  *)
(* nothing is left of its mask.                                            *)
LEMMA PlaceStep == ASSUME PlanInv, Place PROVE PlanInv'
<1> DEFINE s == Head(todo)
           par == AttrOf(s)
<1>1. Shape /\ Fixed /\ Unplaced /\ Running /\ NotOverbooked /\ Running' /\ open = {}
  BY DEF PlanInv, Place, Running, Shape
<1>2. /\ UNCHANGED <<conf, pc, met, open, aHead, mask, affinity>> /\ todo' = Tail(todo)
      /\ pc \in {"known", "partial"}
      /\ s \in met /\ s \in Secs /\ todo' \in Seq(met)
  BY <1>1, TakeHead DEF Place, Shape
<1>3. \/ UNCHANGED <<trc, assigned>>
      \/ \E c \in Cpus : /\ trc' = [trc EXCEPT ![c] = Book(@, par)]
                         /\ assigned' = [assigned EXCEPT ![s] = c]
                         /\ assigned[s] = None
                         /\ ~OverUtilised(Book(trc[c], par)) \/ Mask(s) = {}
  <2>1. CASE Wanted(s)
    <3> DEFINE c == checkPeriod(trc, par, affinity[Owner(s)], -1)
    <3>1. \/ UNCHANGED <<trc, assigned>>
          \/ /\ c # None
             /\ trc' = [trc EXCEPT ![c] = Book(@, par)]
             /\ assigned' = [assigned EXCEPT ![s] = c]
      BY <2>1 DEF Place, Fit
    <3>2. assigned[s] = None /\ affinity[Owner(s)] \in Int
      BY <1>1, <1>2, <2>1, AffinityOf DEF Wanted
    <3>3. CASE affinity[Owner(s)] >= 0
      <4>1. c = getTracer(affinity[Owner(s)])
        BY <3>3 DEF checkPeriod
      <4>2. c \in Cpus \/ c = None
        <5> HIDE DEF c
        <5> QED  BY <4>1 DEF getTracer
      <4>3. Mask(s) = {}
        BY <1>1, <1>2, <3>2, <3>3 DEF Unplaced
      <4> HIDE DEF c
      <4> QED  BY <3>1, <3>2, <4>2, <4>3
    <3>4. CASE ~(affinity[Owner(s)] >= 0)
      <4>1. c # None => c \in Cpus /\ 0 <= checkUvalue(trc[c], par)
        BY <3>4, BestFits
      <4> HIDE DEF c
      <4>2. c # None => ~OverUtilised(Book(trc[c], par))
        BY <4>1, FitsOne
      <4> QED  BY <3>1, <3>2, <4>1, <4>2
    <3> QED  BY <3>3, <3>4
  <2>2. CASE ~Wanted(s)
    BY <2>2 DEF Place
  <2> QED  BY <2>1, <2>2
<1> HIDE DEF par
<1>4. Shape'
  <2>1. assigned' = [t \in Secs |-> assigned'[t]] /\ trc' = [c \in Cpus |-> trc'[c]]
    <3>1. assigned = [t \in Secs |-> assigned[t]] /\ trc = [c \in Cpus |-> trc[c]]
      BY <1>1 DEF Shape
    <3> QED  BY <1>3, <3>1
  <2> QED  BY <1>1, <1>2, <2>1, SameConf DEF Shape
<1>5. \A c \in Cpus : c # None
  BY ResTracerAssumption DEF None
<1>6. \A t \in Secs : assigned'[t] = None => assigned[t] = None
  <2>1. assigned = [t \in Secs |-> assigned[t]]
    BY <1>1 DEF Shape
  <2> QED  BY <1>3, <1>5, <2>1
<1>7. Unplaced'
  BY <1>1, <1>2, <1>6, SameConf DEF Unplaced, Mask, Shape
<1>8. NotOverbooked'
  <2> SUFFICES ASSUME NEW d \in Cpus, OverUtilised(trc'[d])
               PROVE  \E t \in Secs : assigned'[t] = d /\ Mask(t) = {}
    BY <1>2, SameConf DEF NotOverbooked, OverUtilised, Mask
  <2>1. CASE UNCHANGED <<trc, assigned>>
    BY <1>1, <2>1 DEF NotOverbooked
  <2>2. ASSUME NEW c \in Cpus, trc' = [trc EXCEPT ![c] = Book(@, par)],
               assigned' = [assigned EXCEPT ![s] = c], assigned[s] = None,
               ~OverUtilised(Book(trc[c], par)) \/ Mask(s) = {}
        PROVE  \E t \in Secs : assigned'[t] = d /\ Mask(t) = {}
    <3>1. /\ trc'[d] = IF d = c THEN Book(trc[c], par) ELSE trc[d]
          /\ \A t \in Secs : assigned'[t] = IF t = s THEN c ELSE assigned[t]
      BY <1>1, <2>2 DEF Shape
    <3>2. CASE d = c
      BY <1>2, <2>2, <3>1, <3>2
    <3>3. CASE d # c
      <4>1. PICK t \in Secs : assigned[t] = d /\ Mask(t) = {}
        BY <1>1, <3>1, <3>3 DEF NotOverbooked
      <4> QED  BY <1>5, <2>2, <3>1, <4>1
    <3> QED  BY <3>2, <3>3
  <2> QED  BY <1>3, <2>1, <2>2
<1>9. Fixed' /\ NoneOver'
  BY <1>1, <1>2, SameConf DEF Fixed, NoneOver
<1> QED  BY <1>4, <1>7, <1>8, <1>9 DEF PlanInv

LEMMA GatherStep == ASSUME PlanInv, Gather PROVE PlanInv'
<1> DEFINE s == Head(todo)
<1>1. Shape /\ Fixed /\ Unplaced /\ Running /\ NotOverbooked /\ Running'
  BY DEF PlanInv, Gather, Running
<1>2. /\ UNCHANGED <<conf, pc, met, open, aHead, mask, affinity, trc>> /\ todo' = Tail(todo)
      /\ pc = "unknown" /\ s \in Secs /\ todo' \in Seq(met)
  BY <1>1, TakeHead DEF Gather, Shape
<1>3. /\ assigned' = [t \in Secs |-> assigned'[t]]
      /\ \A t \in Secs : assigned[t] # None => assigned'[t] = assigned[t]
  <2>1. assigned = [t \in Secs |-> assigned[t]]
    BY <1>1 DEF Shape
  <2>2. \/ UNCHANGED assigned
        \/ assigned[s] = None /\ \E c : assigned' = [assigned EXCEPT ![s] = c]
    BY DEF Gather
  <2> QED  BY <1>2, <2>1, <2>2
<1>4. Shape'
  BY <1>1, <1>2, <1>3, SameConf DEF Shape
<1>5. Unplaced'
  <2>1. \A t \in met : t \in Secs
    BY <1>1 DEF Shape
  <2> QED  BY <1>1, <1>2, <1>3, <2>1, SameConf DEF Unplaced, Mask
<1>6. NotOverbooked'
  <2>0. \A t : Mask(t)' = Mask(t)
    BY <1>2, SameConf DEF Mask
  <2> SUFFICES ASSUME NEW c \in Cpus, OverUtilised(trc[c])
               PROVE  \E t \in Secs : assigned'[t] = c /\ Mask(t) = {}
    BY <1>2, <2>0, SameConf DEF NotOverbooked, OverUtilised
  <2>1. PICK t \in Secs : assigned[t] = c /\ Mask(t) = {}
    BY <1>1 DEF NotOverbooked
  <2>2. c # None
    BY ResTracerAssumption DEF None
  <2> QED  BY <1>3, <2>1, <2>2
<1>7. Fixed' /\ NoneOver'
  BY <1>1, <1>2, SameConf DEF Fixed, NoneOver
<1> QED  BY <1>4, <1>5, <1>6, <1>7 DEF PlanInv

LEMMA NextLoopStep == ASSUME PlanInv, NextLoop PROVE PlanInv'
<1>1. Shape /\ Fixed /\ Unplaced /\ Running /\ NotOverbooked
  BY DEF PlanInv, NextLoop, Running
<1>2. /\ pc \in {"known", "partial", "unknown"} /\ pc' \in {"partial", "unknown", "execute"}
      /\ UNCHANGED <<conf, met, open, aHead, mask, affinity, trc, assigned>>
      /\ todo' = << >> \/ todo' = aHead
  BY DEF NextLoop
<1>3. todo' \in Seq(met) /\ Enum(aHead, met)
  <2>1. Enum(aHead, met)
    BY <1>1, <1>2 DEF Shape
  <2>2. aHead \in Seq(met) /\ << >> \in Seq(met)
    BY <2>1 DEF Enum
  <2> QED  BY <1>2, <2>1, <2>2
<1>4. Shape'
  BY <1>1, <1>2, <1>3, SameConf DEF Shape, Running
<1>5. Fixed' /\ Unplaced' /\ NoneOver' /\ NotOverbooked'
  BY <1>1, <1>2, SameConf DEF Fixed, Unplaced, NoneOver, NotOverbooked, OverUtilised, Mask
<1> QED  BY <1>4, <1>5 DEF PlanInv

(* adaptExecute(), and main() where there is no plan.                      *)
LEMMA ReadyStep == ASSUME PlanInv, Execute \/ Skip PROVE PlanInv'
<1>1. Shape /\ NotOverbooked
  BY DEF PlanInv
<1>2. /\ pc' = "ready" /\ pc # "ready" /\ aHead' \in {aHead, << >>}
      /\ UNCHANGED <<conf, met, open, todo, mask, trc, assigned>>
  BY DEF Execute, Skip, Released, Prepared
<1>0. open = {}
  BY <1>1 DEF Execute, Skip, Prepared, Shape
<1>3. aHead' = << >> \/ Enum(aHead', met)
  BY <1>1, <1>2 DEF Shape
<1>4. Shape'
  BY <1>0, <1>1, <1>2, <1>3, SameConf DEF Shape, Running
<1>5. Fixed' /\ Unplaced' /\ NoneOver' /\ NotOverbooked'
  BY <1>1, <1>2, SameConf DEF Fixed, Unplaced, NoneOver, NotOverbooked, OverUtilised, Mask, Running
<1> QED  BY <1>4, <1>5 DEF PlanInv

LEMMA PlanStep == PlanInv /\ [Next]_vars => PlanInv'
<1> SUFFICES ASSUME PlanInv, [Next]_vars PROVE PlanInv'
  OBVIOUS
<1>1. CASE Prepare
  <2>1. pc = "prepare" /\ UNCHANGED <<conf, mode, todo, affinity, lead, refused>>
    BY <1>1 DEF Prepare
  <2>2. ASSUME NEW s \in Waiting(Current), Push(s) PROVE PlanInv'
    BY <2>1, <2>2, PushStep
  <2>3. ASSUME Current # 0, Close(Current) PROVE PlanInv'
    BY <2>1, <2>3, CurrentIn, CloseStep DEF PlanInv
  <2> QED  BY <1>1, <2>2, <2>3 DEF Prepare
<1>2. CASE UNCHANGED vars
  <2>1. UNCHANGED <<conf, pc, met, open, todo, aHead, mask, affinity, trc, assigned>>
    BY <1>2 DEF vars
  <2>2. Shape'
    BY <2>1, SameConf DEF PlanInv, Shape, Running
  <2> QED  BY <2>1, <2>2, SameConf DEF PlanInv, Fixed, Unplaced, NoneOver, NotOverbooked,
                                       OverUtilised, Mask, Running
<1> QED  BY <1>1, <1>2, SortStep, PlaceStep, NextLoopStep, GatherStep, ReadyStep DEF Next

(* The plan never books more on a CPU than it can do, but for a CPU that   *)
(* was set for a section and taken by those inside (adaptPlanSchedule()):  *)
(* for any number of CPUs and any configuration.                           *)
THEOREM NotOverbookedAlways == Spec => []NotOverbooked
<1>1. PlanInv => NotOverbooked
  BY DEF PlanInv
<1> QED  BY <1>1, PlanInit, PlanStep, PTL DEF Spec
-----------------------------------------------------------------------------
(* The books.  What is booked on a CPU, `res`, holds what the sections of  *)
(* B need.                                                                 *)
Kept(res, B) ==
  /\ res.base = 0 => B = {}
  /\ \A s \in B : Multiple(res.base, BaseT(AttrOf(s)))
  /\ SumFunctionOnSet(Needs(res.base), B) <= res.used

LEMMA AttrIn ==
  ASSUME conf \in Inputs
  PROVE  \A s \in Secs : AttrOf(s) \in Attr
<1> DEFINE T == {n \in Nat : \A s \in 0..Len(conf.secs) : s <= n => AttrOf(s) \in Attr}
<1>1. /\ Len(conf.secs) \in Nat /\ Secs = 1..Len(conf.secs) /\ AttrOf(0) \in Attr
      /\ \A s \in Secs : Sec(s).up \in 0..(s - 1) /\ (Sec(s).attr = Shared \/ Sec(s).attr \in Attr)
  BY SecsFacts, AttrFacts
<1>2. 0 \in T
  BY <1>1
<1>3. ASSUME NEW n \in Nat, n \in T PROVE n + 1 \in T
  <2> SUFFICES ASSUME NEW s \in 0..Len(conf.secs), s = n + 1 PROVE AttrOf(s) \in Attr
    BY <1>3
  <2>1. s \in Secs /\ Sec(s).up \in 0..Len(conf.secs) /\ Sec(s).up <= n
    BY <1>1
  <2>2. AttrOf(s) = IF Sec(s).attr = Shared THEN AttrOf(Sec(s).up) ELSE Sec(s).attr
    BY <2>1, AttrFacts
  <2> QED  BY <1>1, <1>3, <2>1, <2>2
<1>4. Len(conf.secs) \in T
  <2> HIDE DEF T
  <2> QED  BY <1>1, <1>2, <1>3, SetInduction
<1> QED  BY <1>1, <1>4

LEMMA TaskFacts ==
  ASSUME conf \in Inputs, NEW s \in Secs
  PROVE  /\ AttrOf(s).runtime \in Nat /\ AttrOf(s).period \in Nat
         /\ BaseT(AttrOf(s)) \in Nat \ {0}
<1>1. AttrOf(s).runtime \in Nat /\ AttrOf(s).period \in Nat
  BY AttrIn DEF Attr
<1> QED  BY <1>1, BaseTFacts

LEMMA SecsFinite ==
  ASSUME conf \in Inputs, NEW B \in SUBSET Secs
  PROVE  IsFiniteSet(B)
<1>1. Len(conf.secs) \in Nat /\ Secs = 1..Len(conf.secs)
  BY SecsFacts
<1>2. IsFiniteSet(1..Len(conf.secs))
  BY <1>1, FS_Interval
<1> QED  BY <1>1, <1>2, FS_Subset

LEMMA NeedsNat ==
  ASSUME conf \in Inputs, NEW base \in Nat
  PROVE  /\ Needs(base) \in [Secs -> Nat]
         /\ \A s \in Secs : Needs(base)[s] = AttrOf(s).runtime * (base \div BaseT(AttrOf(s)))
<1>1. ASSUME NEW s \in Secs PROVE AttrOf(s).runtime * (base \div BaseT(AttrOf(s))) \in Nat
  <2>1. AttrOf(s).runtime \in Nat /\ BaseT(AttrOf(s)) \in Nat /\ BaseT(AttrOf(s)) > 0
    BY TaskFacts
  <2>2. base \div BaseT(AttrOf(s)) \in Nat
    BY <2>1, DivMod
  <2> QED  BY <2>1, <2>2
<1> QED  BY <1>1 DEF Needs

(* A booking keeps the books, with the section booked and without.         *)
LEMMA BookKeeps ==
  ASSUME conf \in Inputs, NEW res \in Tracer, NEW B \in SUBSET Secs, Kept(res, B),
         NEW s \in Secs, s \notin B
  PROVE  Kept(Book(res, AttrOf(s)), B) /\ Kept(Book(res, AttrOf(s)), B \cup {s})
<1> DEFINE par == AttrOf(s)
           new == Book(res, par)
           mine == par.runtime * (new.base \div BaseT(par))
           Sum(b, X) == SumFunctionOnSet(Needs(b), X)
<1>1. par.runtime \in Nat /\ par.period \in Nat
  BY TaskFacts
<1>2. /\ new \in Tracer /\ new.base # 0 /\ Multiple(new.base, BaseT(par))
      /\ res.base # 0 => \E k \in Nat : new.base = k * res.base /\ k * res.used + mine <= new.used
      /\ res.base = 0 => mine <= new.used
  BY <1>1, BookFacts
<1> HIDE DEF new
<1>3. new.base \in Nat /\ new.used \in Nat /\ res.base \in Nat /\ res.used \in Nat
  BY <1>2 DEF Tracer
<1>4. Needs(new.base)[s] = mine /\ mine \in Nat
  BY <1>3, NeedsNat
<1> HIDE DEF mine, par
<1>5. IsFiniteSet(B) /\ IsFiniteSet(B \cup {s}) /\ IsFiniteSet({})
      /\ Sum(new.base, {}) = 0 /\ Sum(new.base, B) \in Nat
  <2>1. IsFiniteSet(B) /\ IsFiniteSet(B \cup {s}) /\ IsFiniteSet({}) /\ {} \in SUBSET Secs
    BY SecsFinite, FS_EmptySet
  <2>2. Needs(new.base) \in [Secs -> Nat]
    BY <1>3, NeedsNat
  <2> QED  BY <2>1, <2>2, SumRec, SumNat
<1>6. Sum(new.base, B \cup {s}) = mine + Sum(new.base, B)
  <2>1. Needs(new.base) \in [Secs -> Nat] /\ B \cup {s} \in SUBSET Secs /\ s \in B \cup {s}
    BY <1>3, NeedsNat
  <2>2. Sum(new.base, B \cup {s}) = mine + Sum(new.base, (B \cup {s}) \ {s})
    BY <1>4, <1>5, <2>1, SumTake
  <2>3. (B \cup {s}) \ {s} = B
    OBVIOUS
  <2> QED  BY <2>2, <2>3
<1>7. /\ \A t \in B : Multiple(new.base, BaseT(AttrOf(t)))
      /\ mine + Sum(new.base, B) <= new.used
  <2>1. CASE res.base = 0
    <3>1. B = {}
      BY <2>1 DEF Kept
    <3> QED  BY <1>2, <1>3, <1>4, <1>5, <2>1, <3>1
  <2>2. CASE res.base # 0
    <3>1. PICK k \in Nat : new.base = k * res.base /\ k * res.used + mine <= new.used
      BY <1>2, <2>2
    <3>2. ASSUME NEW t \in B
          PROVE  Multiple(new.base, BaseT(AttrOf(t))) /\ Needs(new.base)[t] = k * Needs(res.base)[t]
      <4> DEFINE d == BaseT(AttrOf(t))
                 r == AttrOf(t).runtime
      <4>1. d \in Nat \ {0} /\ r \in Nat /\ t \in Secs
        BY TaskFacts
      <4>2. PICK j \in Nat : res.base = j * d
        BY DEF Kept, Multiple
      <4>3. Needs(new.base)[t] = r * (new.base \div d) /\ Needs(res.base)[t] = r * (res.base \div d)
        BY <1>3, <4>1, NeedsNat
      <4> HIDE DEF d, r
      <4>4. new.base = (k * j) * d /\ k * j \in Nat
        BY <3>1, <4>1, <4>2
      <4>5. new.base \div d = k * j /\ res.base \div d = j
        BY <4>1, <4>2, <4>4, DivExact
      <4>6. r * (k * j) = k * (r * j)
        BY <4>1
      <4> QED  BY <4>3, <4>4, <4>5, <4>6 DEF Multiple, d
    <3>3. Sum(new.base, B) = k * Sum(res.base, B) /\ Sum(res.base, B) \in Nat
      <4>1. Needs(new.base) \in [Secs -> Nat] /\ Needs(res.base) \in [Secs -> Nat]
        BY <1>3, NeedsNat
      <4>2. \A t \in B : Needs(new.base)[t] = k * Needs(res.base)[t]
        BY <3>2
      <4> QED  BY <1>5, <4>1, <4>2, SumScale, SumNat
    <3>4. k * Sum(res.base, B) <= k * res.used
      <4> DEFINE x == Sum(res.base, B)
                 y == res.used
      <4>1. x \in Nat /\ y \in Nat /\ x <= y
        BY <1>3, <3>3 DEF Kept
      <4> HIDE DEF x, y
      <4>2. k * x <= k * y
        BY <4>1
      <4> QED  BY <4>2 DEF x, y
    <3>5. k * Sum(res.base, B) \in Nat /\ k * res.used \in Nat
      BY <1>3, <3>3
    <3>6. mine + Sum(new.base, B) <= new.used
      BY <1>3, <1>4, <3>1, <3>3, <3>4, <3>5
    <3> QED  BY <3>2, <3>6
  <2> QED  BY <2>1, <2>2
<1>8. Sum(new.base, B) <= new.used
  BY <1>3, <1>4, <1>5, <1>7
<1>9. \A t \in B \cup {s} : Multiple(new.base, BaseT(AttrOf(t)))
  BY <1>2, <1>7 DEF par
<1>10. Kept(new, B) /\ Kept(new, B \cup {s})
  BY <1>2, <1>6, <1>7, <1>8, <1>9 DEF Kept
<1> QED  BY <1>10 DEF new, par

Books == \A c \in Cpus : Kept(trc[c], Booked_on(c))

LEMMA SameKept ==
  ASSUME conf' = conf, NEW c
  PROVE  Kept(trc[c], Booked_on(c))' <=> Kept(trc'[c], Booked_on(c)')
<1>1. \A b : Needs(b)' = Needs(b)
  BY SameConf DEF Needs, BaseT
<1> QED  BY <1>1, SameConf DEF Kept, BaseT

LEMMA BooksSame ==
  ASSUME Books, conf' = conf, trc' = trc, \A c \in Cpus : Booked_on(c)' = Booked_on(c)
  PROVE  Books'
BY SameKept DEF Books

(* Steps that give no CPU to a section whose demand is known.              *)
LEMMA BookedSame ==
  ASSUME UNCHANGED <<conf, assigned, refused>>
  PROVE  \A c : Booked_on(c)' = Booked_on(c)
BY SameConf DEF Booked_on

LEMMA BookOne ==
  ASSUME conf \in Inputs, trc \in [Cpus -> Tracer], assigned \in [Secs -> Cpus \cup {None}], Books,
         NEW s \in Secs, assigned[s] = None, NEW c \in Cpus,
         trc' = [trc EXCEPT ![c] = Book(@, AttrOf(s))],
         assigned' = [assigned EXCEPT ![s] = c], UNCHANGED <<conf, refused>>
  PROVE  Books' /\ trc' \in [Cpus -> Tracer] /\ assigned' \in [Secs' -> Cpus \cup {None}]
<1>1. Book(trc[c], AttrOf(s)) \in Tracer
  BY TaskFacts, BookFacts
<1>2. \A d \in Cpus : d # None
  BY ResTracerAssumption DEF None
<1>3. \A t \in Secs : assigned'[t] = IF t = s THEN c ELSE assigned[t]
  OBVIOUS
<1>4. /\ trc' \in [Cpus -> Tracer] /\ assigned' \in [Secs' -> Cpus \cup {None}]
      /\ \A d \in Cpus : trc'[d] = IF d = c THEN Book(trc[c], AttrOf(s)) ELSE trc[d]
  BY <1>1, SameConf
<1>5. ASSUME NEW d \in Cpus PROVE Kept(trc'[d], Booked_on(d)')
  <2>1. Kept(trc[d], Booked_on(d)) /\ Booked_on(d) \in SUBSET Secs /\ s \notin Booked_on(d)
    BY <1>2 DEF Books, Booked_on
  <2>2. CASE d = c
    <3>1. Booked_on(d)' = Booked_on(d) \/ Booked_on(d)' = Booked_on(d) \cup {s}
      BY <1>2, <1>3, <2>2, SameConf DEF Booked_on
    <3>2. trc[d] \in Tracer /\ trc'[d] = Book(trc[d], AttrOf(s))
      BY <1>4, <2>2
    <3>3. /\ Kept(Book(trc[d], AttrOf(s)), Booked_on(d))
          /\ Kept(Book(trc[d], AttrOf(s)), Booked_on(d) \cup {s})
      BY <2>1, <3>2, BookKeeps
    <3>4. CASE Booked_on(d)' = Booked_on(d)
      BY <3>2, <3>3, <3>4
    <3>5. CASE Booked_on(d)' = Booked_on(d) \cup {s}
      BY <3>2, <3>3, <3>5
    <3> QED  BY <3>1, <3>4, <3>5
  <2>3. CASE d # c
    <3>1. Booked_on(d)' = Booked_on(d)
      BY <1>2, <1>3, <2>3, SameConf DEF Booked_on
    <3> QED  BY <1>4, <2>1, <2>3, <3>1
  <2> QED  BY <2>2, <2>3
<1> QED  BY <1>4, <1>5, SameKept DEF Books

(* grepTracer() offers a CPU of the orchestrator, or none.                 *)
LEMMA GrepIn == grepTracer \in Cpus \cup {None}
<1> DEFINE last == Max({0} \cup Cpus)
           better(f, c) == \/ Below(trc[c], 100, f.max)
                           \/ f.cpu # None /\ ~trc[f.cpu].hm /\ trc[c].hm /\ Below(trc[c], 120, trc[f.cpu])
           try(f, c) ==
             IF \/ Below(trc[c], 100, f.max)
                \/ f.cpu # None /\ ~trc[f.cpu].hm /\ trc[c].hm /\ Below(trc[c], 120, trc[f.cpu])
             THEN [cpu |-> c, max |-> trc[c]] ELSE f
           start == [cpu |-> None, max |-> [base |-> 1, used |-> 1]]
           Body(g, n) == IF n = -1 THEN start ELSE IF n \in Cpus THEN try(g[n - 1], n) ELSE g[n - 1]
           Rec(g) == [n \in -1..last |-> Body(g, n)]
           f == CHOOSE g : g = Rec(g)
           V == [cpu : Cpus \cup {None}, max : {trc[c] : c \in Cpus} \cup {[base |-> 1, used |-> 1]}]
           h == [k \in 1..(last + 1) |-> [p \in V |-> IF k - 1 \in Cpus THEN try(p, k - 1) ELSE p]]
<1>1. grepTracer = f[last].cpu
  BY Zenon DEF grepTracer, ForEachTracer
<1>2. last \in Nat
  BY LastCpu
<1>3. start \in V
  OBVIOUS
<1>4. ASSUME NEW p \in V, NEW c \in Cpus PROVE try(p, c) \in V
  <2>1. [cpu |-> c, max |-> trc[c]] \in V
    OBVIOUS
  <2>2. try(p, c) = [cpu |-> c, max |-> trc[c]] \/ try(p, c) = p
    <3> HIDE DEF V
    <3> QED  OBVIOUS
  <2> HIDE DEF V, try
  <2> QED  BY <2>1, <2>2
<1>5. \E g : g = Rec(g)
  <2>1. PICK g : Iterates(g, last + 1, V, start, h)
    <3>1. \A k \in 1..(last + 1) : h[k] \in [V -> V]
      <4> HIDE DEF V, try, last
      <4> QED  BY <1>4
    <3>2. last + 1 \in Nat
      BY <1>2
    <3> HIDE DEF V, h, last, start
    <3> QED  BY <1>3, <3>1, <3>2, Iterate
  <2> DEFINE e == [n \in -1..last |-> g[n + 1]]
  <2> HIDE DEF V, last, start, try
  <2>2. /\ g[0] = start
        /\ \A k \in 1..(last + 1) : g[k] = IF k - 1 \in Cpus THEN try(g[k - 1], k - 1) ELSE g[k - 1]
    <3>1. \A k \in 1..(last + 1) : k - 1 \in 0..(last + 1)
      BY <1>2
    <3>2. g[0] = start /\ \A k \in 1..(last + 1) : g[k - 1] \in V /\ g[k] = h[k][g[k - 1]]
      <4> HIDE DEF h
      <4> QED  BY <2>1, <3>1 DEF Iterates
    <3> QED  BY <3>2
  <2>3. ASSUME NEW n \in -1..last PROVE e[n] = Body(e, n)
    <3>1. CASE n = -1
      BY <2>2, <3>1
    <3>2. CASE n # -1
      <4>1. n + 1 \in 1..(last + 1) /\ (n + 1) - 1 = n /\ n - 1 \in -1..last /\ (n - 1) + 1 = n
        BY <1>2, <3>2
      <4>2. e[n - 1] = g[n] /\ e[n] = g[n + 1]
        BY <4>1
      <4>3. g[n + 1] = IF n \in Cpus THEN try(g[n], n) ELSE g[n]
        BY <2>2, <4>1
      <4> HIDE DEF e
      <4> QED  BY <3>2, <4>2, <4>3
    <3> QED  BY <3>1, <3>2
  <2>4. e = Rec(e)
    <3> HIDE DEF Body
    <3> QED  BY <2>3
  <2> HIDE DEF e, Rec
  <2> QED  BY <2>4
<1>6. f = Rec(f)
  <2> HIDE DEF Rec
  <2> QED  BY <1>5
<1>7. \A n \in -1..last : f[n] = Body(f, n)
  <2> HIDE DEF f, Body
  <2> QED  BY <1>6
<1>8. f[last] \in V
  <2> HIDE DEF last, try, V, start, f
  <2> DEFINE S == {k \in Nat : k - 1 <= last => f[k - 1] \in V}
  <2>1. 0 \in S
    BY <1>2, <1>3, <1>7
  <2>2. ASSUME NEW k \in Nat, k \in S PROVE k + 1 \in S
    <3> SUFFICES ASSUME k <= last PROVE f[k] \in V
      BY <2>2
    <3>1. f[k - 1] \in V /\ k \in -1..last /\ k # -1
      BY <1>2, <2>2
    <3>2. f[k] = IF k \in Cpus THEN try(f[k - 1], k) ELSE f[k - 1]
      BY <1>7, <3>1
    <3> QED  BY <1>4, <3>1, <3>2
  <2>3. last + 1 \in S
    <3> HIDE DEF S
    <3> QED  BY <1>2, <2>1, <2>2, SetInduction
  <2> QED  BY <1>2, <2>3
<1> HIDE DEF f
<1> QED  BY <1>1, <1>8

(* The inductive invariant behind Accounted.  All sections are visited     *)
(* (Visits), each gets a CPU once, when it is closed or later (Fresh), and *)
(* what the first two loops leave without one is refused or has no run     *)
(* time to book (Tried): the last loop puts only these on a CPU.           *)
Phases == {"prepare", "known", "partial", "unknown", "execute", "ready", "failed"}

Typed ==
  /\ pc \in Phases /\ trc \in [Cpus -> Tracer]
  /\ \A s \in 0..Len(conf.secs) : mask[s] = NoMask \/ mask[s] \subseteq Nat
  /\ assigned \in [Secs -> Cpus \cup {None}]
  /\ lead \in [DOMAIN Policies -> Cpus \cup {None}]
  /\ cfix \subseteq Secs /\ refused \subseteq Secs

Visits ==
  /\ \A s \in met : Sec(s).kind = "cont" /\ Sec(s).up # 0 => Listed
  /\ \A x \in met \ open : Waiting(x) = {}
  /\ pc \notin {"prepare", "failed"} => Waiting(0) = {}

Fresh == \A s \in Secs : assigned[s] # None => s \in met \ open

Done(s) == assigned[s] # None \/ AttrOf(s).runtime = 0 \/ s \in refused
Tried ==
  /\ pc = "partial" => \A s \in met : Done(s) \/ \E i \in 1..Len(todo) : todo[i] = s
  /\ pc \in {"unknown", "execute"} => \A s \in met : Done(s)

BookInv == PlanInv /\ Typed /\ Visits /\ Fresh /\ Tried /\ Books

LEMMA SameInside ==
  ASSUME conf' = conf
  PROVE  \A x : Inside(x)' = Inside(x)
BY SameConf DEF Inside, Listed

LEMMA LessWaiting ==
  ASSUME conf' = conf, met \subseteq met'
  PROVE  \A x : Waiting(x)' \subseteq Waiting(x)
BY SameInside DEF Waiting

LEMMA MaskNat ==
  ASSUME NEW aff \in Int, NEW dep
  PROVE  createAffinityMask(aff, dep) \subseteq Nat
<1>1. CASE aff >= 0
  <2>1. {aff} \subseteq Nat
    BY <1>1
  <2> QED  BY <1>1, <2>1 DEF createAffinityMask
<1>2. CASE ~(aff >= 0)
  BY <1>2, ResTracerAssumption DEF createAffinityMask
<1> QED  BY <1>1, <1>2

LEMMA BookInit == Init => BookInv
<1> SUFFICES ASSUME Init PROVE BookInv
  OBVIOUS
<1>1. PlanInv /\ conf \in Inputs
  BY PlanInit DEF Init
<1>2. pc = "prepare" /\ met = {} /\ assigned = [s \in Secs |-> None]
  BY DEF Init
<1>3. Typed
  <2>1. \A c \in Cpus : trc[c] \in Tracer
    BY DEF Init, Free, Tracer
  <2>2. trc \in [Cpus -> Tracer]
    BY <2>1 DEF Init
  <2>3. createAffinityMask(conf.aff, Cpus) \subseteq Nat
    BY <1>1, SecsFacts, MaskNat
  <2>4. \A s \in 0..Len(conf.secs) : mask[s] = NoMask \/ mask[s] \subseteq Nat
    <3> DEFINE A == createAffinityMask(conf.aff, Cpus)
    <3>1. mask = [s \in 0..Len(conf.secs) |-> IF s = 0 THEN A ELSE NoMask]
      BY DEF Init
    <3> HIDE DEF A, NoMask
    <3> QED  BY <2>3, <3>1 DEF A
  <2> QED  BY <2>2, <2>4 DEF Init, Typed, Phases
<1>4. Visits /\ Fresh /\ Tried
  BY <1>2 DEF Visits, Fresh, Tried
<1>5. Books
  <2>1. \A c \in Cpus : c # None
    BY ResTracerAssumption DEF None
  <2> SUFFICES ASSUME NEW c \in Cpus PROVE Kept(trc[c], Booked_on(c))
    BY DEF Books
  <2>2. Booked_on(c) = {} /\ trc[c].base = 0 /\ trc[c].used = 0
    BY <1>2, <2>1 DEF Booked_on, Init, Free
  <2>3. SumFunctionOnSet(Needs(0), {}) = 0
    <3>1. Needs(0) \in [Secs -> Nat] /\ {} \in SUBSET Secs /\ IsFiniteSet({})
      BY <1>1, NeedsNat, FS_EmptySet
    <3> QED  BY <3>1, SumRec
  <2> QED  BY <2>2, <2>3 DEF Kept
<1> QED  BY <1>1, <1>3, <1>4, <1>5 DEF BookInv

LEMMA BookPush ==
  ASSUME BookInv, NEW s \in Waiting(Current), Push(s), pc = "prepare",
         UNCHANGED <<conf, mode, todo, affinity, lead, refused>>
  PROVE  BookInv'
<1>0. PlanInv /\ Shape /\ Typed /\ Visits /\ Fresh /\ Books
  BY DEF BookInv, PlanInv
<1>1. /\ met' = met \cup {s} /\ open' = open \cup {s}
      /\ UNCHANGED <<conf, assigned, trc, pc, cfix, lead, refused>>
  BY DEF Push
<1>2. s \in Inside(Current) /\ s \in Secs /\ s \notin met /\ Current = Sec(s).up
  BY DEF Waiting, Inside
<1>3. PlanInv'
  BY <1>0, PushStep
<1>4. Typed'
  <2>3. Sec(s).aff # Shared => affinity[s] \in Int
    <3>1. Len(conf.secs) \in Nat /\ Secs = 1..Len(conf.secs)
          /\ (Sec(s).aff = Shared \/ Sec(s).aff \in Int)
      BY <1>0, <1>2, SecsFacts DEF Shape
    <3>2. affinity[s] = Sec(s).aff
      BY <1>0, <1>1, <1>2, <3>1 DEF Shape, Running
    <3> QED  BY <3>1, <3>2
  <2>4. ASSUME NEW t \in 0..Len(conf.secs) PROVE mask'[t] = NoMask \/ mask'[t] \subseteq Nat
    <3>1. mask[t] = NoMask \/ mask[t] \subseteq Nat
      BY <1>0 DEF Typed
    <3>2. CASE mask' = mask
      BY <3>1, <3>2
    <3>3. CASE mask' # mask
      <4>1. PICK d : Sec(s).aff # Shared /\ mask' = [mask EXCEPT ![s] = createAffinityMask(affinity[s], d)]
        BY <3>3 DEF Push
      <4>2. createAffinityMask(affinity[s], d) \subseteq Nat
        BY <2>3, <4>1, MaskNat
      <4>3. mask'[t] = IF t = s THEN createAffinityMask(affinity[s], d) ELSE mask[t]
        BY <1>0, <4>1 DEF Shape
      <4> QED  BY <3>1, <4>2, <4>3
    <3> QED  BY <3>2, <3>3
  <2> QED  BY <1>0, <1>1, <2>4, SameConf DEF Typed, NoMask
<1>5. Visits'
  <2>1. \A x : Waiting(x)' \subseteq Waiting(x)
    BY <1>1, LessWaiting
  <2>2. Sec(s).kind = "cont" /\ Sec(s).up # 0 => Listed
    BY <1>2 DEF Inside
  <2>3. \A x \in met' \ open' : x \in met \ open
    BY <1>1
  <2> QED  BY <1>0, <1>1, <2>1, <2>2, <2>3, SameConf DEF Visits, Listed
<1>6. Fresh'
  BY <1>0, <1>1, <1>2, SameConf DEF Fresh
<1>7. Tried'
  BY <1>1 DEF Tried
<1>8. Books'
  BY <1>0, <1>1, BookedSame, BooksSame
<1> QED  BY <1>3, <1>4, <1>5, <1>6, <1>7, <1>8 DEF BookInv

LEMMA BookClose ==
  ASSUME BookInv, NEW s \in open, Close(s), Waiting(s) = {}, pc = "prepare",
         UNCHANGED <<conf, mode, todo, affinity, lead, refused>>
  PROVE  BookInv'
<1>0. PlanInv /\ Shape /\ Typed /\ Visits /\ Fresh /\ Books
  BY DEF BookInv, PlanInv
<1> DEFINE m == IF below[s] = {} THEN Mask(s) ELSE Mask(s) \cap below[s]
           o == Owner(s)
<1>1. /\ mask' = [mask EXCEPT ![o] = m] /\ addTracerFix(s, m)
      /\ open' = open \ {s} /\ met' = met
  BY DEF Close
<1>2. s \in met /\ s \in Secs /\ o \in 0..Len(conf.secs) /\ assigned[s] = None
  BY <1>0, AffinityOf DEF Shape, Running, Fresh
<1>3. m \subseteq mask[o]
  BY DEF Mask
<1> HIDE DEF m, o
<1>4. \/ UNCHANGED <<trc, assigned, cfix>> /\ pc' \in {pc, "failed"}
      \/ /\ \E c \in m : /\ trc' = [trc EXCEPT ![c] = Book(@, AttrOf(s))]
                         /\ assigned' = [assigned EXCEPT ![s] = c]
                         /\ \E d \in m : d \in Cpus
         /\ Cardinality(m) = 1 /\ cfix' = cfix \cup {s} /\ pc' = pc
  BY <1>1 DEF addTracerFix
<1>6. /\ Books' /\ trc' \in [Cpus -> Tracer] /\ assigned' \in [Secs' -> Cpus \cup {None}]
      /\ cfix' \subseteq Secs /\ pc' \in {pc, "failed"}
      /\ \A t \in Secs : t # s => assigned'[t] = assigned[t]
  <2>1. CASE UNCHANGED <<trc, assigned, cfix>> /\ pc' \in {pc, "failed"}
    <3>1. Books'
      BY <1>0, <2>1, BookedSame, BooksSame
    <3> QED  BY <1>0, <2>1, <3>1, SameConf DEF Typed
  <2>2. ASSUME Cardinality(m) = 1, cfix' = cfix \cup {s}, pc' = pc, NEW c \in m, NEW d \in m, d \in Cpus,
               trc' = [trc EXCEPT ![c] = Book(@, AttrOf(s))], assigned' = [assigned EXCEPT ![s] = c]
        PROVE  /\ Books' /\ trc' \in [Cpus -> Tracer] /\ assigned' \in [Secs' -> Cpus \cup {None}]
               /\ cfix' \subseteq Secs /\ pc' \in {pc, "failed"}
               /\ \A t \in Secs : t # s => assigned'[t] = assigned[t]
    <3>1. c \in Cpus
      <4>1. m \in Masks
        <5>1. mask[o] \in Masks /\ m \in SUBSET mask[o]
          BY <1>0, <1>2, <1>3 DEF Shape
        <5> QED  BY <5>1, FS_Subset DEF Masks
      <4> QED  BY <2>2, <4>1, OnlyOne
    <3>2. /\ conf \in Inputs /\ trc \in [Cpus -> Tracer] /\ assigned \in [Secs -> Cpus \cup {None}]
          /\ cfix \subseteq Secs
      BY <1>0 DEF Shape, Typed
    <3>3. Books' /\ trc' \in [Cpus -> Tracer] /\ assigned' \in [Secs' -> Cpus \cup {None}]
      BY <1>0, <1>2, <2>2, <3>1, <3>2, BookOne
    <3> QED  BY <1>2, <2>2, <3>2, <3>3
  <2> QED  BY <1>4, <2>1, <2>2
<1>7. PlanInv'
  BY <1>0, CloseStep
<1>8. Typed'
  <2>1. ASSUME NEW t \in 0..Len(conf.secs) PROVE mask'[t] = NoMask \/ mask'[t] \subseteq Nat \/ mask'[t] = {}
    <3>1. mask'[t] \subseteq mask[t] /\ (mask[t] = {-1} \/ mask[t] \subseteq Nat)
      BY <1>0, <1>1, <1>2, <1>3 DEF Shape, Typed, NoMask
    <3> QED  BY <3>1 DEF NoMask
  <2> QED  BY <1>0, <1>6, <2>1, SameConf DEF Typed, NoMask, Phases
<1>9. Visits'
  <2>1. \A x : Waiting(x)' \subseteq Waiting(x)
    BY <1>1, LessWaiting
  <2>2. \A x \in met' \ open' : x \in met \ open \/ x = s
    BY <1>1
  <2> QED  BY <1>0, <1>1, <1>6, <2>1, <2>2, SameConf DEF Visits, Listed
<1>10. Fresh'
  BY <1>0, <1>1, <1>2, <1>6, SameConf DEF Fresh
<1>11. Tried'
  BY <1>6 DEF Tried
<1> QED  BY <1>6, <1>7, <1>8, <1>9, <1>10, <1>11 DEF BookInv

LEMMA BookSort == ASSUME BookInv, Sort PROVE BookInv'
<1>1. PlanInv /\ Typed /\ Visits /\ Fresh /\ Books /\ Prepared
  BY DEF BookInv, Sort
<1>2. /\ pc' = "known" /\ UNCHANGED <<conf, met, open, mask, trc, assigned, cfix, lead, refused>>
  BY DEF Sort
<1>3. PlanInv'
  BY <1>1, SortStep
<1>4. Typed'
  BY <1>1, <1>2, SameConf DEF Typed, Phases
<1>5. Visits'
  <2>1. \A x : Waiting(x)' \subseteq Waiting(x)
    BY <1>2, LessWaiting
  <2> QED  BY <1>1, <1>2, <2>1, SameConf DEF Visits, Prepared, Listed
<1>6. Fresh' /\ Tried' /\ Books'
  BY <1>1, <1>2, SameConf, BookedSame, BooksSame DEF Fresh, Tried
<1> QED  BY <1>3, <1>4, <1>5, <1>6 DEF BookInv

LEMMA BookPlace == ASSUME BookInv, Place PROVE BookInv'
<1> DEFINE s == Head(todo)
           c == checkPeriod(trc, AttrOf(s), affinity[Owner(s)], -1)
<1>0. PlanInv /\ Shape /\ Running /\ Typed /\ Visits /\ Fresh /\ Tried /\ Books
  BY DEF BookInv, PlanInv, Place, Running
<1>1. /\ UNCHANGED <<conf, pc, met, open, mask, cfix, lead>> /\ todo' = Tail(todo)
      /\ pc \in {"known", "partial"} /\ s \in met /\ s \in Secs /\ todo # << >>
      /\ s \notin open
  BY <1>0, TakeHead DEF Place, Shape
<1>2. c \in Cpus \cup {None}
  <2>1. affinity[Owner(s)] \in Int
    BY <1>0, <1>1, AffinityOf
  <2>2. CASE affinity[Owner(s)] >= 0
    <3>1. c = getTracer(affinity[Owner(s)])
      BY <2>2 DEF checkPeriod
    <3> HIDE DEF c
    <3> QED  BY <3>1 DEF getTracer
  <2>3. CASE ~(affinity[Owner(s)] >= 0)
    BY <2>3, BestFits
  <2> QED  BY <2>2, <2>3
<1>3. \/ ~Wanted(s) /\ UNCHANGED <<trc, assigned, refused>>
      \/ Wanted(s) /\ c = None /\ refused' = refused \cup {s} /\ UNCHANGED <<trc, assigned>>
      \/ Wanted(s) /\ c # None /\ trc' = [trc EXCEPT ![c] = Book(@, AttrOf(s))]
         /\ assigned' = [assigned EXCEPT ![s] = c] /\ refused' = refused
  BY DEF Place, Fit
<1> HIDE DEF c
<1>4. conf \in Inputs /\ trc \in [Cpus -> Tracer] /\ assigned \in [Secs -> Cpus \cup {None}]
  BY <1>0 DEF Shape, Typed
<1>5. /\ Books' /\ trc' \in [Cpus -> Tracer] /\ assigned' \in [Secs' -> Cpus \cup {None}]
      /\ refused \subseteq refused' /\ refused' \subseteq refused \cup {s}
      /\ \A t \in Secs : assigned'[t] = assigned[t] \/ (t = s /\ assigned'[t] # None)
      /\ Wanted(s) => assigned'[s] # None \/ s \in refused'
  <2>1. CASE ~Wanted(s) /\ UNCHANGED <<trc, assigned, refused>>
    <3>1. Books'
      BY <1>0, <1>1, <2>1, BookedSame, BooksSame
    <3> QED  BY <1>1, <1>4, <2>1, <3>1, SameConf
  <2>2. CASE Wanted(s) /\ c = None /\ refused' = refused \cup {s} /\ UNCHANGED <<trc, assigned>>
    <3>1. \A d \in Cpus : Booked_on(d)' = Booked_on(d)
      <4>1. \A d \in Cpus : d # None
        BY ResTracerAssumption DEF None
      <4> QED  BY <1>1, <2>2, <4>1, SameConf DEF Booked_on, Wanted
    <3>2. Books'
      BY <1>0, <1>1, <2>2, <3>1, BooksSame
    <3> QED  BY <1>1, <1>4, <2>2, <3>2, SameConf
  <2>3. CASE Wanted(s) /\ c # None /\ trc' = [trc EXCEPT ![c] = Book(@, AttrOf(s))]
             /\ assigned' = [assigned EXCEPT ![s] = c] /\ refused' = refused
    <3>1. c \in Cpus /\ assigned[s] = None
      BY <1>2, <2>3 DEF Wanted
    <3>2. Books' /\ trc' \in [Cpus -> Tracer] /\ assigned' \in [Secs' -> Cpus \cup {None}]
      BY <1>0, <1>1, <1>4, <2>3, <3>1, BookOne
    <3> QED  BY <1>1, <1>4, <2>3, <3>2
  <2> QED  BY <1>3, <2>1, <2>2, <2>3
<1>6. PlanInv'
  BY <1>0, PlaceStep
<1>7. Typed'
  BY <1>0, <1>1, <1>5, SameConf DEF Typed
<1>8. Visits'
  <2>1. \A x : Waiting(x)' \subseteq Waiting(x)
    BY <1>1, LessWaiting
  <2> QED  BY <1>0, <1>1, <2>1, SameConf DEF Visits, Listed
<1>9. Fresh'
  BY <1>0, <1>1, <1>5, SameConf DEF Fresh
<1>10. Tried'
  <2> SUFFICES ASSUME pc = "partial", NEW t \in met
               PROVE  Done(t)' \/ \E i \in 1..Len(todo') : todo'[i] = t
    BY <1>1 DEF Tried
  <2>0. t \in Secs
    BY <1>0 DEF Shape
  <2>1. CASE Done(t)
    BY <1>1, <1>5, <2>0, <2>1, SameConf DEF Done
  <2>2. CASE ~Done(t)
    <3>1. PICK i \in 1..Len(todo) : todo[i] = t
      BY <1>0, <2>2 DEF Tried
    <3>2. todo \in Seq(met)
      BY <1>0 DEF Shape
    <3>3. CASE i = 1
      <4>1. t = s
        BY <1>1, <3>1, <3>2, <3>3
      <4>2. Wanted(s)
        BY <2>2, <4>1 DEF Done, Wanted
      <4> QED  BY <1>5, <4>1, <4>2 DEF Done
    <3>4. CASE i # 1
      <4>1. i - 1 \in 1..Len(todo') /\ todo'[i - 1] = t
        BY <1>1, <3>1, <3>2, <3>4
      <4> QED  BY <4>1
    <3> QED  BY <3>3, <3>4
  <2> QED  BY <2>1, <2>2
<1> QED  BY <1>5, <1>6, <1>7, <1>8, <1>9, <1>10 DEF BookInv

LEMMA BookNextLoop == ASSUME BookInv, NextLoop PROVE BookInv'
<1>1. PlanInv /\ Shape /\ Typed /\ Visits /\ Fresh /\ Tried /\ Books
  BY DEF BookInv, PlanInv
<1>2. /\ UNCHANGED <<conf, met, open, mask, trc, assigned, cfix, lead, refused>>
      /\ \/ pc = "known" /\ pc' = "partial" /\ todo' = aHead
         \/ pc = "partial" /\ pc' = "unknown"
         \/ pc = "unknown" /\ pc' = "execute"
      /\ todo = << >>
  BY DEF NextLoop
<1>3. PlanInv'
  BY <1>1, NextLoopStep
<1>4. Typed'
  BY <1>1, <1>2, SameConf DEF Typed, Phases
<1>5. Visits'
  <2>1. \A x : Waiting(x)' \subseteq Waiting(x)
    BY <1>2, LessWaiting
  <2> QED  BY <1>1, <1>2, <2>1, SameConf DEF Visits, Listed
<1>6. Tried'
  <2>1. \A s : Done(s)' = Done(s)
    BY <1>2, SameConf DEF Done
  <2>2. CASE pc = "known"
    <3>1. Enum(aHead, met) /\ todo' = aHead /\ met' = met
      BY <1>1, <1>2, <2>2 DEF Shape
    <3>2. \A s \in met' : \E i \in 1..Len(todo') : todo'[i] = s
      BY <3>1 DEF Enum
    <3> QED  BY <1>2, <2>2, <3>2 DEF Tried
  <2>3. CASE pc = "partial"
    <3>1. \A s \in met : Done(s)
      BY <1>1, <1>2, <2>3 DEF Tried
    <3> QED  BY <1>2, <2>1, <2>3, <3>1 DEF Tried
  <2>4. CASE pc = "unknown"
    BY <1>1, <1>2, <2>1, <2>4 DEF Tried
  <2> QED  BY <1>2, <2>2, <2>3, <2>4
<1>7. Fresh' /\ Books'
  BY <1>1, <1>2, SameConf, BookedSame, BooksSame DEF Fresh
<1> QED  BY <1>3, <1>4, <1>5, <1>6, <1>7 DEF BookInv

(* The last loop puts sections on a CPU without a booking: only those that *)
(* need none.                                                              *)
LEMMA BookGather == ASSUME BookInv, Gather PROVE BookInv'
<1> DEFINE s == Head(todo)
<1>1. PlanInv /\ Shape /\ Running /\ Typed /\ Visits /\ Fresh /\ Tried /\ Books
  BY DEF BookInv, PlanInv, Gather, Running
<1>2. /\ UNCHANGED <<conf, pc, met, open, mask, trc, cfix, refused>>
      /\ pc = "unknown" /\ s \in met /\ s \in Secs /\ s \notin open
  BY <1>1, TakeHead DEF Gather, Shape
<1>3. \/ assigned[s] # None /\ UNCHANGED <<lead, assigned>>
      \/ \E g : /\ assigned[s] = None
                /\ lead' = [lead EXCEPT ![g] = IF @ = None THEN grepTracer ELSE @]
                /\ assigned' = [assigned EXCEPT ![s] = lead'[g]]
                /\ g = Group(s)
  BY DEF Gather
<1>4. /\ lead' \in [DOMAIN Policies -> Cpus \cup {None}]
      /\ assigned' \in [Secs -> Cpus \cup {None}]
      /\ \A t \in Secs : t # s \/ assigned[s] # None => assigned'[t] = assigned[t]
  <2>1. CASE UNCHANGED <<lead, assigned>>
    BY <1>1, <2>1 DEF Typed
  <2>2. ASSUME NEW g, g = Group(s), assigned[s] = None,
               lead' = [lead EXCEPT ![g] = IF @ = None THEN grepTracer ELSE @],
               assigned' = [assigned EXCEPT ![s] = lead'[g]]
        PROVE  /\ lead' \in [DOMAIN Policies -> Cpus \cup {None}]
               /\ assigned' \in [Secs -> Cpus \cup {None}]
               /\ \A t \in Secs : t # s \/ assigned[s] # None => assigned'[t] = assigned[t]
    <3>1. g \in DOMAIN Policies
      <4>1. {"FIFO", "RR", "BATCH", "NORMAL"} \subseteq DOMAIN Policies
        BY DEF Policies
      <4>2. g \in {"FIFO", "RR", "BATCH", "NORMAL"}
        BY <2>2 DEF Group
      <4> QED  BY <4>1, <4>2
    <3> DEFINE D == DOMAIN Policies
               W == Cpus \cup {None}
    <3>2. lead \in [D -> W] /\ assigned \in [Secs -> W] /\ grepTracer \in W
      BY <1>1, GrepIn DEF Typed
    <3> HIDE DEF D, W
    <3>3. lead' \in [D -> W] /\ lead'[g] \in W
      BY <2>2, <3>1, <3>2 DEF D
    <3>4. assigned' \in [Secs -> W]
      BY <1>2, <2>2, <3>2, <3>3
    <3>5. \A t \in Secs : t # s \/ assigned[s] # None => assigned'[t] = assigned[t]
      BY <1>2, <2>2, <3>2
    <3> QED  BY <3>3, <3>4, <3>5 DEF D, W
  <2> QED  BY <1>3, <2>1, <2>2
<1>5. PlanInv'
  BY <1>1, GatherStep
<1>6. Typed'
  BY <1>1, <1>2, <1>4, SameConf DEF Typed
<1>7. Visits'
  <2>1. \A x : Waiting(x)' \subseteq Waiting(x)
    BY <1>2, LessWaiting
  <2> QED  BY <1>1, <1>2, <2>1, SameConf DEF Visits, Listed
<1>8. Fresh'
  BY <1>1, <1>2, <1>4, SameConf DEF Fresh
<1>9. Tried'
  <2>1. \A t \in met : Done(t) /\ t \in Secs
    BY <1>1, <1>2 DEF Tried, Shape
  <2>2. ASSUME NEW t \in met PROVE Done(t)'
    <3>1. CASE assigned'[t] = assigned[t]
      BY <1>2, <2>1, <3>1, SameConf DEF Done
    <3>2. CASE assigned'[t] # assigned[t]
      BY <1>2, <1>4, <2>1, <3>2, SameConf DEF Done
    <3> QED  BY <3>1, <3>2
  <2> QED  BY <1>2, <2>2 DEF Tried
<1>10. Books'
  <2>1. assigned[s] = None => AttrOf(s).runtime = 0 \/ s \in refused
    BY <1>1, <1>2 DEF Tried, Done
  <2>2. \A c \in Cpus : Booked_on(c)' = Booked_on(c)
    <3>1. \A c \in Cpus : c # None
      BY ResTracerAssumption DEF None
    <3> QED  BY <1>2, <1>4, <2>1, <3>1, SameConf DEF Booked_on
  <2> QED  BY <1>1, <1>2, <2>2, BooksSame
<1> QED  BY <1>5, <1>6, <1>7, <1>8, <1>9, <1>10 DEF BookInv

LEMMA BookReady == ASSUME BookInv, Execute \/ Skip PROVE BookInv'
<1>1. PlanInv /\ Typed /\ Visits /\ Fresh /\ Books
  BY DEF BookInv
<1>2. /\ pc' = "ready" /\ UNCHANGED <<conf, met, open, mask, trc, assigned, cfix, lead, refused>>
      /\ Waiting(0) = {}
  BY <1>1 DEF Execute, Skip, Prepared, Visits
<1>3. PlanInv'
  BY <1>1, ReadyStep
<1>4. Typed'
  BY <1>1, <1>2, SameConf DEF Typed, Phases
<1>5. Visits'
  <2>1. \A x : Waiting(x)' \subseteq Waiting(x)
    BY <1>2, LessWaiting
  <2> QED  BY <1>1, <1>2, <2>1, SameConf DEF Visits, Listed
<1>6. Fresh' /\ Tried' /\ Books'
  BY <1>1, <1>2, SameConf, BookedSame, BooksSame DEF Fresh, Tried
<1> QED  BY <1>3, <1>4, <1>5, <1>6 DEF BookInv

LEMMA BookStep == BookInv /\ [Next]_vars => BookInv'
<1> SUFFICES ASSUME BookInv, [Next]_vars PROVE BookInv'
  OBVIOUS
<1>1. CASE Prepare
  <2>1. pc = "prepare" /\ UNCHANGED <<conf, mode, todo, affinity, lead, refused>>
    BY <1>1 DEF Prepare
  <2>2. ASSUME NEW s \in Waiting(Current), Push(s) PROVE BookInv'
    BY <2>1, <2>2, BookPush
  <2>3. ASSUME Current # 0, Waiting(Current) = {}, Close(Current) PROVE BookInv'
    <3>1. Current \in open
      BY <2>3, CurrentIn DEF BookInv, PlanInv
    <3> QED  BY <2>1, <2>3, <3>1, BookClose
  <2> QED  BY <1>1, <2>2, <2>3 DEF Prepare
<1>2. CASE UNCHANGED vars
  <2>1. UNCHANGED <<conf, mode, pc, met, open, todo, aHead, mask, affinity, trc, assigned, cfix, lead, refused>>
    BY <1>2 DEF vars
  <2>2. PlanInv'
    BY PlanStep DEF BookInv
  <2>3. Visits'
    <3>1. \A x : Waiting(x)' \subseteq Waiting(x)
      BY <2>1, LessWaiting
    <3> QED  BY <2>1, <3>1, SameConf DEF Visits, BookInv, Listed
  <2>4. Tried'
    <3>1. \A s : Done(s)' = Done(s)
      BY <2>1, SameConf DEF Done
    <3> QED  BY <2>1, <3>1 DEF Tried, BookInv
  <2>5. Typed' /\ Fresh' /\ Books'
    BY <2>1, SameConf, BookedSame, BooksSame DEF Typed, Fresh, BookInv
  <2> QED  BY <2>2, <2>3, <2>4, <2>5 DEF BookInv
<1> QED  BY <1>1, <1>2, BookSort, BookPlace, BookNextLoop, BookGather, BookReady DEF Next

LEMMA BookTypes == BookInv => TypeOK
<1> SUFFICES ASSUME BookInv PROVE TypeOK
  OBVIOUS
<1>1. Shape /\ Typed /\ Visits
  BY DEF BookInv, PlanInv
<1>2. IsInjective(aHead) /\ Range(aHead) \subseteq Secs
  <2>1. CASE aHead = << >>
    BY <2>1 DEF IsInjective, Range
  <2>2. CASE Enum(aHead, met)
    <3>1. aHead \in Seq(met) /\ DOMAIN aHead = 1..Len(aHead) /\ met \subseteq Secs
      BY <1>1, <2>2 DEF Shape, Enum
    <3>2. IsInjective(aHead)
      BY <2>2, <3>1 DEF Enum, IsInjective
    <3> QED  BY <3>1, <3>2 DEF Range
  <2> QED  BY <1>1, <2>1, <2>2 DEF Shape
<1>3. ASSUME pc \in {"known", "partial", "unknown", "execute"}, NEW s \in Secs
      PROVE  s \in Range(aHead)
               <=> Sec(s).up = 0 \/ (Sec(s).up \in Range(aHead) /\ (Sec(s).kind = "cont" => Listed))
  <2>1. Enum(aHead, met) /\ open = {}
    BY <1>1, <1>3 DEF Shape, Running
  <2>2. Range(aHead) = met
    BY <2>1 DEF Enum, Range
  <2>3. s \in met => Sec(s).up \in met \cup {0} /\ (Sec(s).kind = "cont" /\ Sec(s).up # 0 => Listed)
    BY <1>1 DEF Shape, Visits
  <2>4. \A x \in met \cup {0} : Waiting(x) = {}
    BY <1>1, <1>3, <2>1 DEF Visits
  <2>5. Sec(s).up \in met \cup {0} /\ (Sec(s).kind = "cont" /\ Sec(s).up # 0 => Listed) => s \in met
    BY <2>4 DEF Waiting, Inside
  <2> QED  BY <2>2, <2>3, <2>5
<1>4. DOMAIN mask = 0..Len(conf.secs)
  BY <1>1 DEF Shape
<1> QED  BY <1>1, <1>2, <1>3, <1>4 DEF TypeOK, Typed, Phases

(* The types of the plan, and a section in it exactly if the one above is. *)
THEOREM PlanTypes == Spec => []TypeOK
BY BookInit, BookStep, BookTypes, PTL DEF Spec

(* The bookings of a CPU (addTracer(), checkUvalue()): the hyper-period is *)
(* a multiple of every period booked there, and the time used is at least  *)
(* what the sections put there need of it, in whatever order they came.    *)
THEOREM AccountedAlways == Spec => []Accounted
<1>1. BookInv => Accounted
  <2> SUFFICES ASSUME BookInv, NEW c \in Cpus
               PROVE  /\ \A s \in Booked_on(c) : trc[c].base % BaseT(AttrOf(s)) = 0
                      /\ SumFunctionOnSet(Needs(trc[c].base), Booked_on(c)) <= trc[c].used
    BY DEF Accounted
  <2>1. Kept(trc[c], Booked_on(c)) /\ conf \in Inputs
    BY DEF BookInv, Books, PlanInv, Shape
  <2>2. ASSUME NEW s \in Booked_on(c) PROVE trc[c].base % BaseT(AttrOf(s)) = 0
    <3>1. s \in Secs
      BY DEF Booked_on
    <3>2. BaseT(AttrOf(s)) \in Nat \ {0}
      BY <2>1, <3>1, TaskFacts
    <3>3. PICK k \in Nat : trc[c].base = k * BaseT(AttrOf(s))
      BY <2>1 DEF Kept, Multiple
    <3> QED  BY <3>2, <3>3, DivExact
  <2> QED  BY <2>1, <2>2 DEF Kept
<1> QED  BY <1>1, BookInit, BookStep, PTL DEF Spec

-----------------------------------------------------------------------------
(* The inductive invariant behind Nested.  What a section has set for      *)
(* itself lies in what the one above has, from the start if it had no CPU  *)
(* of its own, else when the one above is closed ("keep only necessary"):  *)
(* until then `below` holds it.                                            *)
Own(s) == Sec(s).aff # Shared

Boxed ==
  \A s \in met : Own(s) =>
    LET u == Sec(s).up IN
    /\ Sec(s).aff < 0 \/ s \notin open => mask[s] \subseteq Cpus
    /\ u = 0 /\ s \in open /\ Sec(s).aff < 0 => mask[s] = Cpus
    /\ u # 0 /\ Own(u) =>
         /\ u \in open /\ Sec(s).aff < 0 => mask[s] \subseteq mask[u]
         /\ u \in open /\ s \notin open => mask[s] \subseteq below[u]
         /\ u \notin open /\ (Sec(s).aff < 0 \/ Sec(u).aff < 0) => mask[s] \subseteq mask[u]

Narrow ==
  /\ below = [x \in 0..Len(conf.secs) |-> below[x]]
  /\ \A x \in Secs : Sec(x).kind = "pid" => below[x] = {}
  /\ \A s \in Secs \ met : mask[s] = NoMask
  /\ \A s \in open : Sec(s).up \in open \cup {0}
  /\ pc # "failed" => Boxed

NestInv == BookInv /\ Narrow

(* Only PIDs stand in a section that stands in none.                       *)
LEMMA InnerPid ==
  ASSUME Shape, Visits, NEW s \in met, Sec(s).up # 0
  PROVE  /\ Sec(s).kind = "pid" /\ Sec(s).up \in met /\ Sec(s).up < s
         /\ Sec(Sec(s).up).up = 0 /\ Sec(Sec(s).up).kind # "pid"
<1> DEFINE u == Sec(s).up
<1>1. conf \in Inputs /\ s \in Secs /\ u \in met /\ u \in Secs /\ u # 0 /\ s \in Nat /\ u \in Nat /\ u < s
  BY SecsFacts DEF Shape
<1>2. \A t \in Secs : Sec(t).up # 0 =>
        <<Sec(Sec(t).up).kind, Sec(t).kind>> \in {<<"img", "cont">>, <<"img", "pid">>, <<"cont", "pid">>}
  BY <1>1, PlanningAssumption DEF Secs, Sec
<1>3. Sec(s).kind # "cont" /\ (Sec(u).kind = "cont" => Sec(u).up = 0)
  BY <1>1 DEF Visits, Listed
<1>4. Sec(s).kind = "pid" /\ Sec(u).kind \in {"img", "cont"}
  BY <1>1, <1>2, <1>3
<1>5. Sec(u).up = 0
  <2>1. Sec(u).up # 0 => Sec(u).kind # "img"
    BY <1>1, <1>2
  <2> QED  BY <1>3, <1>4, <2>1
<1> QED  BY <1>1, <1>4, <1>5

LEMMA NestInit == Init => NestInv
<1> SUFFICES ASSUME Init PROVE NestInv
  OBVIOUS
<1>1. BookInv /\ conf \in Inputs
  BY BookInit DEF Init
<1>2. Len(conf.secs) \in Nat /\ Secs = 1..Len(conf.secs)
  BY <1>1, SecsFacts
<1>3. \A s \in Secs : mask[s] = NoMask /\ below[s] = {}
  <2> HIDE DEF NoMask
  <2> QED  BY <1>2 DEF Init
<1>4. below = [x \in 0..Len(conf.secs) |-> below[x]] /\ met = {} /\ open = {}
  BY DEF Init
<1> QED  BY <1>1, <1>3, <1>4 DEF NestInv, Narrow, Boxed

LEMMA NestPush ==
  ASSUME NestInv, NEW s \in Waiting(Current), Push(s), pc = "prepare",
         UNCHANGED <<conf, mode, todo, affinity, lead, refused>>
  PROVE  Narrow'
<1> DEFINE u == Sec(s).up
<1>0. Shape /\ Running /\ Visits /\ Narrow /\ Boxed
  BY DEF NestInv, Narrow, BookInv, PlanInv, Running
<1>1. /\ met' = met \cup {s} /\ open' = open \cup {s} /\ UNCHANGED <<conf, below, pc>>
      /\ mask' = IF Sec(s).aff = Shared THEN mask
                 ELSE [mask EXCEPT ![s] = createAffinityMask(affinity[s], IF u = 0 THEN Cpus ELSE Mask(u))]
  BY DEF Push
<1>2. s \in Secs /\ s \notin met /\ u \in open \cup {0} /\ u \in 0..(s - 1) /\ s \in 0..Len(conf.secs)
  BY <1>0, CurrentIn, SecsFacts DEF Waiting, Inside, Shape
<1>3. Own(s) => Sec(s).aff \in Int /\ affinity[s] = Sec(s).aff
  <2>1. Len(conf.secs) \in Nat /\ Secs = 1..Len(conf.secs) /\ (Sec(s).aff = Shared \/ Sec(s).aff \in Int)
    BY <1>0, <1>2, SecsFacts DEF Shape
  <2> QED  BY <1>0, <1>2, <2>1 DEF Own, Shape
<1>4. \A t \in Secs : t # s => mask'[t] = mask[t]
  <2>1. Secs \subseteq 0..Len(conf.secs) /\ mask = [t \in 0..Len(conf.secs) |-> mask[t]]
    BY <1>0, SecsFacts DEF Shape
  <2> QED  BY <1>1, <2>1
<1>5. Own(s) /\ Sec(s).aff < 0 => mask'[s] = Cpus \cap (IF u = 0 THEN Cpus ELSE Mask(u))
  <2> SUFFICES ASSUME Own(s), Sec(s).aff < 0
               PROVE  mask'[s] = Cpus \cap (IF u = 0 THEN Cpus ELSE Mask(u))
    OBVIOUS
  <2>1. mask'[s] = createAffinityMask(affinity[s], IF u = 0 THEN Cpus ELSE Mask(u))
    BY <1>0, <1>1, <1>2 DEF Own, Shape
  <2>2. ~(affinity[s] >= 0)
    BY <1>3
  <2> QED  BY <2>1, <2>2 DEF createAffinityMask
<1>6. u # 0 /\ Own(u) => Mask(u) = mask[u]
  <2>1. u # 0 => u \in Secs
    BY <1>0, <1>2 DEF Shape
  <2> QED  BY <1>0, <2>1, OwnerFacts DEF Shape, Mask, Own
<1>7. \A t : Own(t)' = Own(t)
  BY <1>1, SameConf DEF Own
<1>8. Boxed'
  <2> SUFFICES ASSUME NEW t \in met', Own(t)
               PROVE  LET v == Sec(t).up IN
                      /\ Sec(t).aff < 0 \/ t \notin open' => mask'[t] \subseteq Cpus
                      /\ v = 0 /\ t \in open' /\ Sec(t).aff < 0 => mask'[t] = Cpus
                      /\ v # 0 /\ Own(v) =>
                           /\ v \in open' /\ Sec(t).aff < 0 => mask'[t] \subseteq mask'[v]
                           /\ v \in open' /\ t \notin open' => mask'[t] \subseteq below[v]
                           /\ v \notin open' /\ (Sec(t).aff < 0 \/ Sec(v).aff < 0) => mask'[t] \subseteq mask'[v]
    BY <1>1, <1>7, SameConf DEF Boxed
  <2>1. CASE t = s
    <3>1. u # s /\ t \in open' /\ (u # 0 => u \in open')
      BY <1>1, <1>2, <2>1
    <3>2. Sec(t).aff < 0 => mask'[t] = Cpus \cap (IF u = 0 THEN Cpus ELSE Mask(u))
      BY <1>5, <2>1
    <3>3. u # 0 => mask'[u] = mask[u]
      BY <1>0, <1>2, <1>4, <3>1 DEF Shape
    <3> QED  BY <1>6, <2>1, <3>1, <3>2, <3>3
  <2>2. CASE t # s
    <3>1. t \in met /\ Sec(t).up \in met \cup {0} /\ (Sec(t).up # s \/ Sec(t).up = 0)
      BY <1>0, <1>1, <1>2, <2>2 DEF Shape
    <3>2. t \in met /\ (t \in open' <=> t \in open) /\ mask'[t] = mask[t]
      BY <1>0, <1>1, <1>4, <2>2 DEF Shape
    <3>3. Sec(t).up # 0 => (Sec(t).up \in open' <=> Sec(t).up \in open) /\ mask'[Sec(t).up] = mask[Sec(t).up]
      BY <1>0, <1>1, <1>4, <3>1 DEF Shape
    <3> QED  BY <1>0, <3>2, <3>3 DEF Boxed
  <2> QED  BY <2>1, <2>2
<1>9. \A t \in Secs \ met' : mask'[t] = NoMask
  BY <1>0, <1>1, <1>4 DEF Narrow
<1>10. \A t \in open' : Sec(t).up \in open' \cup {0}
  BY <1>0, <1>1, <1>2 DEF Narrow
<1> QED  BY <1>0, <1>1, <1>8, <1>9, <1>10, SameConf DEF Narrow, NoMask

LEMMA NestClose ==
  ASSUME NestInv, NEW s \in open, s = Current, Close(s), pc = "prepare",
         UNCHANGED <<conf, mode, todo, affinity, lead, refused>>
  PROVE  Narrow'
<1> DEFINE u == Sec(s).up
           o == Owner(s)
           m == IF below[s] = {} THEN Mask(s) ELSE Mask(s) \cap below[s]
<1>0. Shape /\ Running /\ Visits /\ Fixed /\ Narrow /\ Boxed
  BY DEF NestInv, Narrow, BookInv, PlanInv, Running
<1>1. /\ mask' = [mask EXCEPT ![o] = m] /\ below' = [below EXCEPT ![u] = @ \cup m] /\ addTracerFix(s, m)
      /\ open' = open \ {s} /\ met' = met /\ conf' = conf
  BY DEF Close
<1>2. /\ s \in met /\ s \in Secs /\ o \in met \cup {0} /\ o \in 0..Len(conf.secs)
      /\ u \in open \cup {0} /\ u \in 0..(s - 1) /\ s \in Nat
  BY <1>0, AffinityOf, SecsFacts DEF Shape, Narrow
<1>3. \A t \in open : t <= s
  BY <1>0, CurrentIn
<1>4. \A t \in met : Sec(t).up = s => t > s /\ t \notin open
  BY <1>0, <1>2, <1>3, SecsFacts DEF Shape
<1>5. Own(s) => o = s /\ Mask(s) = mask[s]
  BY <1>0, <1>2, OwnerFacts DEF Shape, Own, Mask
<1>6. u # 0 => below[s] = {} /\ m = mask[o]
  BY <1>0, <1>2, InnerPid DEF Narrow, Mask
<1>7. ~Own(s) => o = 0 \/ mask' = mask
  <2> SUFFICES ASSUME ~Own(s), o # 0 PROVE mask' = mask
    OBVIOUS
  <2>1. u # 0
    BY <1>0, <1>2, OwnerFacts DEF Shape, Own
  <2>2. m = mask[o]
    BY <1>6, <2>1
  <2> HIDE DEF m, o
  <2> QED  BY <1>0, <1>1, <1>2, <2>2 DEF Shape
<1>8. \A t \in Secs : (t # s \/ ~Own(s)) => mask'[t] = mask[t]
  <2>1. \A t \in Secs : t # 0
    BY <1>0, SecsFacts DEF Shape
  <2>2. \A t \in Secs : t # o => mask'[t] = mask[t]
    <3>1. Secs \subseteq 0..Len(conf.secs) /\ mask = [t \in 0..Len(conf.secs) |-> mask[t]]
      BY <1>0, SecsFacts DEF Shape
    <3> HIDE DEF m, o
    <3> QED  BY <1>1, <3>1
  <2> HIDE DEF m, o
  <2> QED  BY <1>5, <1>7, <2>1, <2>2
<1>9. Own(s) => mask'[s] = m /\ m \subseteq mask[s] /\ (u # 0 => m = mask[s])
  BY <1>0, <1>1, <1>2, <1>5, <1>6 DEF Shape
<1>10. /\ below' = [x \in 0..Len(conf.secs) |-> below'[x]] /\ below'[u] = below[u] \cup m
       /\ \A x \in Secs : x # u => below'[x] = below[x]
  <2>1. /\ u \in 0..Len(conf.secs) /\ below = [x \in 0..Len(conf.secs) |-> below[x]]
        /\ Secs \subseteq 0..Len(conf.secs)
    BY <1>0, <1>2, SecsFacts DEF Shape, Narrow
  <2> HIDE DEF u, m
  <2> QED  BY <1>1, <2>1
<1>11. m \subseteq below'[u] /\ \A x \in Secs : below[x] \subseteq below'[x]
  BY <1>10
<1>12. ASSUME pc' # "failed", Own(s) PROVE m \subseteq Cpus
  <2>1. CASE Sec(s).aff < 0
    <3>1. mask[s] \subseteq Cpus
      BY <1>0, <1>2, <1>12, <2>1 DEF Boxed
    <3> QED  BY <1>9, <1>12, <3>1
  <2>2. CASE ~(Sec(s).aff < 0)
    <3> DEFINE a == affinity[s]
    <3>1. a \in Int /\ a >= 0 /\ Owner(s) = s
      <4>1. Len(conf.secs) \in Nat /\ Secs = 1..Len(conf.secs) /\ Sec(s).aff \in Int
        BY <1>0, <1>2, <1>12, SecsFacts DEF Shape, Own
      <4>2. affinity[s] = Sec(s).aff
        BY <1>0, <1>2, <4>1 DEF Shape
      <4> QED  BY <1>5, <1>12, <2>2, <4>1, <4>2
    <3>2. mask[s] \subseteq {a}
      BY <1>0, <1>2, <3>1 DEF Fixed
    <3> HIDE DEF m, a
    <3>3. m = {} \/ m = {a}
      BY <1>9, <1>12, <3>2
    <3>4. CASE m = {a}
      <4>1. Cardinality(m) = 1
        BY <3>4, FS_Singleton
      <4>2. \E c \in m : c \in Cpus
        BY <1>1, <1>12, <4>1 DEF addTracerFix
      <4> QED  BY <3>4, <4>2
    <3> QED  BY <3>3, <3>4
  <2> QED  BY <2>1, <2>2
<1>13. \A t : Own(t)' = Own(t)
  BY <1>1, SameConf DEF Own
<1>14. ASSUME pc' # "failed" PROVE Boxed'
  <2> DEFINE Box(t) ==
        LET v == Sec(t).up IN
        /\ Sec(t).aff < 0 \/ t \notin open' => mask'[t] \subseteq Cpus
        /\ v = 0 /\ t \in open' /\ Sec(t).aff < 0 => mask'[t] = Cpus
        /\ v # 0 /\ Own(v) =>
             /\ v \in open' /\ Sec(t).aff < 0 => mask'[t] \subseteq mask'[v]
             /\ v \in open' /\ t \notin open' => mask'[t] \subseteq below'[v]
             /\ v \notin open' /\ (Sec(t).aff < 0 \/ Sec(v).aff < 0) => mask'[t] \subseteq mask'[v]
  <2> SUFFICES ASSUME NEW t \in met, Own(t) PROVE Box(t)
    BY <1>1, <1>13, SameConf DEF Boxed
  <2>0. t \in Secs /\ Sec(t).up \in met \cup {0}
    BY <1>0 DEF Shape
  <2>1. CASE t = s
    <3>1. mask'[t] = m /\ m \subseteq Cpus /\ t \notin open'
      BY <1>1, <1>9, <1>12, <1>14, <2>1
    <3>2. u # 0 => u \in Secs /\ u # s /\ u \in open'
      BY <1>0, <1>1, <1>2 DEF Shape
    <3>3. u # 0 => mask'[u] = mask[u] /\ m = mask[s]
      BY <1>8, <1>9, <2>1, <3>2
    <3>4. u # 0 /\ Own(u) /\ Sec(s).aff < 0 => mask[s] \subseteq mask[u]
      BY <1>0, <1>1, <1>2, <2>1, <3>2 DEF Boxed
    <3> HIDE DEF m
    <3> QED  BY <1>11, <2>1, <3>1, <3>2, <3>3, <3>4
  <2>2. CASE t # s /\ Sec(t).up = s
    <3>0. s # 0 /\ s \notin open' /\ t \notin open
      BY <1>1, <1>2, <1>4, <2>2
    <3>1. mask'[t] = mask[t] /\ t \notin open /\ s # 0 /\ s \notin open'
      BY <1>8, <2>0, <2>2, <3>0
    <3>2. mask[t] \subseteq Cpus
      BY <1>0, <3>1 DEF Boxed
    <3>3. ASSUME Own(s), Sec(t).aff < 0 \/ Sec(s).aff < 0 PROVE mask[t] \subseteq m
      <4>1. mask[t] \subseteq below[s]
        BY <1>0, <2>2, <3>1, <3>3 DEF Boxed
      <4>2. mask[t] \subseteq mask[s]
        <5>1. CASE Sec(t).aff < 0
          BY <1>0, <2>2, <3>1, <3>3, <5>1 DEF Boxed
        <5>2. CASE Sec(s).aff < 0
          <6>1. u = 0
            BY <1>0, <2>2, <3>1, InnerPid
          <6>2. mask[s] = Cpus
            BY <1>0, <1>2, <3>3, <5>2, <6>1 DEF Boxed
          <6> QED  BY <3>2, <6>2
        <5> QED  BY <3>3, <5>1, <5>2
      <4> QED  BY <1>5, <3>3, <4>1, <4>2
    <3>4. Own(s) => mask'[s] = m
      BY <1>9
    <3> HIDE DEF m
    <3> QED  BY <1>1, <2>2, <3>1, <3>2, <3>3, <3>4
  <2>3. CASE t # s /\ Sec(t).up # s
    <3>1. mask'[t] = mask[t] /\ (t \in open' <=> t \in open)
      BY <1>1, <1>8, <2>0, <2>3
    <3>2. Sec(t).up # 0 => /\ mask'[Sec(t).up] = mask[Sec(t).up]
                           /\ (Sec(t).up \in open' <=> Sec(t).up \in open)
      <4>1. Sec(t).up # 0 => Sec(t).up \in Secs
        BY <1>0, <2>0 DEF Shape
      <4> QED  BY <1>1, <1>8, <2>3, <4>1
    <3>3. Sec(t).up # 0 => below[Sec(t).up] \subseteq below'[Sec(t).up]
      BY <1>0, <1>11, <2>0 DEF Shape
    <3> QED  BY <1>0, <3>1, <3>2, <3>3 DEF Boxed
  <2> QED  BY <2>1, <2>2, <2>3
<1>15. \A x \in Secs : Sec(x).kind = "pid" => below'[x] = {}
  <2>1. u # 0 => Sec(u).kind # "pid"
    BY <1>0, <1>2, InnerPid
  <2>2. \A x \in Secs : x # 0
    BY <1>0, SecsFacts DEF Shape
  <2> HIDE DEF u
  <2> QED  BY <1>0, <1>10, <2>1, <2>2 DEF Narrow
<1>16. \A t \in Secs \ met : mask'[t] = NoMask
  BY <1>0, <1>2, <1>8 DEF Narrow
<1>17. \A t \in open' : Sec(t).up \in open' \cup {0}
  <2>1. \A t \in open : t \in met
    BY <1>0 DEF Shape
  <2> QED  BY <1>0, <1>1, <1>4, <2>1 DEF Narrow
<1> QED  BY <1>1, <1>10, <1>14, <1>15, <1>16, <1>17, SameConf DEF Narrow, NoMask

(* The masks are final when the last section is closed.                    *)
LEMMA NestKept ==
  ASSUME Narrow, UNCHANGED <<conf, met, open, mask, below>>, pc' = "failed" => pc = "failed"
  PROVE  Narrow'
<1>1. \A t : Own(t)' = Own(t)
  BY SameConf DEF Own
<1>2. Boxed' = Boxed
  BY <1>1, SameConf DEF Boxed
<1> QED  BY <1>2, SameConf DEF Narrow

LEMMA NestStep == NestInv /\ [Next]_vars => NestInv'
<1> SUFFICES ASSUME NestInv, [Next]_vars PROVE NestInv'
  OBVIOUS
<1>1. BookInv /\ BookInv' /\ Shape /\ Narrow
  BY BookStep DEF NestInv, BookInv, PlanInv
<1>2. CASE Prepare
  <2>1. pc = "prepare" /\ UNCHANGED <<conf, mode, todo, affinity, lead, refused>>
    BY <1>2 DEF Prepare
  <2>2. ASSUME NEW s \in Waiting(Current), Push(s) PROVE NestInv'
    BY <1>1, <2>1, <2>2, NestPush DEF NestInv
  <2>3. ASSUME Current # 0, Close(Current) PROVE NestInv'
    <3>1. Current \in open
      BY <1>1, <2>3, CurrentIn
    <3> QED  BY <1>1, <2>1, <2>3, <3>1, NestClose DEF NestInv
  <2> QED  BY <1>2, <2>2, <2>3 DEF Prepare
<1>3. CASE Sort \/ Place \/ NextLoop \/ Gather \/ Execute \/ Skip \/ UNCHANGED vars
  <2>1. UNCHANGED <<conf, met, open, mask, below>> /\ (pc' = "failed" => pc = "failed")
    BY <1>3 DEF Sort, Place, NextLoop, Gather, Execute, Skip, vars
  <2> QED  BY <1>1, <2>1, NestKept DEF NestInv
<1> QED  BY <1>2, <1>3 DEF Next

(* "Keep only necessary" (adaptPrepareSchedule()): when the plan is ready, *)
(* a PID may use no CPU that its image or container may not, unless both   *)
(* have a CPU set.                                                         *)
THEOREM NestedAlways == Spec => []Nested
<1>1. NestInv => Nested
  <2> SUFFICES ASSUME NestInv, NEW s \in Secs, pc \notin {"prepare", "failed"}, Sec(s).up # 0,
                      Mask(s) # NoMask, Owner(Sec(s).up) # 0,
                      Sec(Owner(s)).aff < 0 \/ Sec(Owner(Sec(s).up)).aff < 0
               PROVE  Mask(s) \subseteq Mask(Sec(s).up)
    BY DEF Nested
  <2> DEFINE u == Sec(s).up
  <2>1. Shape /\ Visits /\ Narrow /\ Boxed
    BY DEF NestInv, Narrow, BookInv, PlanInv
  <2>2. CASE ~Own(s)
    <3>1. Owner(s) = Owner(u)
      BY <2>1, <2>2, OwnerFacts DEF Shape, Own
    <3> QED  BY <3>1 DEF Mask
  <2>3. CASE Own(s)
    <3>1. Owner(s) = s
      BY <2>1, <2>3, OwnerFacts DEF Shape, Own
    <3>2. s \in met
      BY <2>1, <3>1 DEF Mask, Narrow
    <3>3. u \in met /\ u \in Secs /\ Sec(u).up = 0
      BY <2>1, <3>2, InnerPid DEF Shape
    <3>4. Owner(u) = u /\ Own(u)
      BY <2>1, <3>3, OwnerFacts DEF Shape, Own
    <3>5. u \notin open
      <4>1. open = {}
        BY <2>1 DEF Shape
      <4> QED  BY <4>1
    <3>6. mask[s] \subseteq mask[u]
      BY <2>1, <2>3, <3>1, <3>2, <3>4, <3>5 DEF Boxed
    <3> QED  BY <3>1, <3>4, <3>6 DEF Mask
  <2> QED  BY <2>2, <2>3
<1> QED  BY <1>1, NestInit, NestStep, PTL DEF Spec
=============================================================================
