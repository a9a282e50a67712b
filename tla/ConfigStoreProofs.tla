------------------------- MODULE ConfigStoreProofs -------------------------
(***************************************************************************)
(* Theorems about ConfigStore, for any files, containers and processes:    *)
(* where pointers lead, that links agree, who owns a block of settings,    *)
(* whose settings a process has, and that settings only become more        *)
(* specific.                                                               *)
(***************************************************************************)
EXTENDS ConfigStore, FiniteSetTheorems, TLAPS

(***************************************************************************)
(* Loops and searches.                                                     *)
(***************************************************************************)
(* A set that has 0 and with a number the next one has all. *)
LEMMA SetInduction ==
  ASSUME NEW S, 0 \in S, \A n \in Nat : n \in S => n + 1 \in S
  PROVE  Nat \subseteq S
<1> DEFINE T == Nat \ S
           R == {r \in Nat \X Nat : r[1] < r[2]}
<1>1. R = OpToRel(<, Nat)
  BY DEF OpToRel
<1>2. IsWellFoundedOn(R, Nat)
  BY <1>1, NatLessThanWellFounded
<1> SUFFICES ASSUME T # {} PROVE FALSE
  OBVIOUS
<1>3. PICK x \in T : \A y \in T : ~(<<y, x>> \in R)
  <2> T \subseteq Nat
    OBVIOUS
  <2> HIDE DEF T, R
  <2> QED  BY <1>2, WFMin
<1>4. x \in Nat /\ x # 0
  BY <1>3
<1>5. x - 1 \in Nat /\ <<x - 1, x>> \in R
  BY <1>4
<1>6. x - 1 \in S
  BY <1>3, <1>5
<1> QED  BY <1>3, <1>4, <1>5, <1>6

(* A loop of N rounds, round n applying h[n], has a value after each.      *)
Rounds(g, N, b, h) == g = [n \in 0..N |-> IF n = 0 THEN b ELSE h[n][g[n - 1]]]

(* There is such a function, whatever the loop runs over. *)
LEMMA RoundsExist ==
  ASSUME NEW N \in Nat, NEW V, NEW b \in V, NEW h \in [1..N -> [V -> V]]
  PROVE  \E g \in [0..N -> V] : Rounds(g, N, b, h)
<1> DEFINE Good(g, k) == \A n \in 0..k : g[n] = IF n = 0 THEN b ELSE h[n][g[n - 1]]
           S == {k \in Nat : k <= N => \E g \in [0..k -> V] : Good(g, k)}
<1>1. 0 \in S
  <2> DEFINE g == [n \in 0..0 |-> b]
  <2>1. g \in [0..0 -> V] /\ Good(g, 0)
    OBVIOUS
  <2> QED  BY <2>1
<1>2. ASSUME NEW k \in Nat, k \in S PROVE k + 1 \in S
  <2> SUFFICES ASSUME k + 1 <= N PROVE \E g \in [0..(k + 1) -> V] : Good(g, k + 1)
    <3> HIDE DEF Good
    <3> QED  OBVIOUS
  <2>1. PICK f \in [0..k -> V] : Good(f, k)
    BY <1>2
  <2> DEFINE g == [n \in 0..(k + 1) |-> IF n <= k THEN f[n] ELSE h[k + 1][f[k]]]
  <2>2. h[k + 1][f[k]] \in V
    BY <2>1
  <2>3. g \in [0..(k + 1) -> V]
    BY <2>1, <2>2
  <2>4. ASSUME NEW n \in 0..(k + 1) PROVE g[n] = IF n = 0 THEN b ELSE h[n][g[n - 1]]
    <3>1. CASE n <= k
      BY <2>1, <3>1
    <3>2. CASE n = k + 1
      BY <2>1, <3>2
    <3> QED  BY <3>1, <3>2
  <2> QED  BY <2>3, <2>4
<1>3. N \in S
  <2> HIDE DEF S
  <2> QED  BY <1>1, <1>2, SetInduction
<1>4. PICK g \in [0..N -> V] : Good(g, N)
  BY <1>3
<1>5. g = [n \in 0..N |-> g[n]]
  OBVIOUS
<1>6. Rounds(g, N, b, h)
  BY <1>4, <1>5 DEF Rounds
<1> QED  BY <1>6

(* What every round keeps holds at the end.                                *)
LEMMA RoundsKeep ==
  ASSUME NEW N \in Nat, NEW V, NEW g, g[0] \in V, \A n \in 1..N : g[n - 1] \in V => g[n] \in V
  PROVE  g[N] \in V
<1> DEFINE S == {n \in Nat : n <= N => g[n] \in V}
<1>1. 0 \in S
  OBVIOUS
<1>2. ASSUME NEW n \in Nat, n \in S PROVE n + 1 \in S
  <2> SUFFICES ASSUME n + 1 <= N PROVE g[n + 1] \in V
    OBVIOUS
  <2>1. n + 1 \in 1..N /\ g[(n + 1) - 1] \in V
    BY <1>2
  <2> QED  BY <2>1
<1>3. N \in S
  <2> HIDE DEF S
  <2> QED  BY <1>1, <1>2, SetInduction
<1> QED  BY <1>3

(* What adding a PID keeps, adding a list of them does; so for the other loops. *)
LEMMA AddPidsLoop ==
  ASSUME NEW V, NEW b \in V, NEW s, Len(s) \in Nat, NEW k, NEW i,
         \A d \in V : \A m \in 1..Len(s) : AddPid(d, s[m], k, i) \in V
  PROVE  AddPids(b, s, k, i) \in V
<1> DEFINE N == Len(s)
           Body(g) == [n \in 0 .. N |-> IF n = 0 THEN b
                                         ELSE Once(g[n - 1], LAMBDA d : AddPid(d, s[n], k, i))]
           f == CHOOSE g : g = Body(g)
           h == [m \in 1..N |-> [d \in V |-> AddPid(d, s[m], k, i)]]
<1>1. AddPids(b, s, k, i) = f[N]
  BY Zenon DEF AddPids, ForEach
<1>2. h \in [1..N -> [V -> V]]
  OBVIOUS
<1>3. \E g : g = Body(g)
  <2>1. PICK g \in [0..N -> V] : Rounds(g, N, b, h)
    <3> HIDE DEF h
    <3> QED  BY <1>2, RoundsExist
  <2>2. ASSUME NEW n \in 1..N PROVE h[n][g[n - 1]] = Once(g[n - 1], LAMBDA d : AddPid(d, s[n], k, i))
    <3>1. g[n - 1] \in V
      OBVIOUS
    <3> DEFINE d1 == g[n - 1]
    <3>2. h[n][d1] = AddPid(d1, s[n], k, i)
      BY <3>1
    <3>3. Once(d1, LAMBDA d : AddPid(d, s[n], k, i)) = AddPid(d1, s[n], k, i)
      <4> HIDE DEF d1
      <4> QED  BY Zenon DEF Once
    <3> HIDE DEF h
    <3> QED  BY <3>2, <3>3, Zenon
  <2>3. g = [n \in 0..N |-> IF n = 0 THEN b ELSE h[n][g[n - 1]]]
    BY <2>1 DEF Rounds
  <2>4. \A n \in 0..N : n # 0 => n \in 1..N
    OBVIOUS
  <2> HIDE DEF h, N
  <2>5. g = Body(g)
    BY <2>2, <2>3, <2>4, Zenon
  <2> QED  BY <2>5
<1>4. f = Body(f)
  <2> HIDE DEF Body
  <2> QED  BY <1>3
<1> HIDE DEF f
<1>5. f[0] = b
  <2>1. 0 \in 0..N
    OBVIOUS
  <2> HIDE DEF N
  <2> QED  BY <1>4, <2>1, Zenon
<1>6. ASSUME NEW n \in 1..N, f[n - 1] \in V PROVE f[n] \in V
  <2>1. n \in 0..N /\ n # 0
    OBVIOUS
  <2> DEFINE d1 == f[n - 1]
  <2>2. f[n] = Once(d1, LAMBDA d : AddPid(d, s[n], k, i))
    <3> HIDE DEF N
    <3> QED  BY <1>4, <2>1, Zenon
  <2>3. d1 \in V
    BY <1>6
  <2> HIDE DEF d1
  <2>4. Once(d1, LAMBDA d : AddPid(d, s[n], k, i)) = AddPid(d1, s[n], k, i)
    BY Zenon DEF Once
  <2> QED  BY <2>2, <2>3, <2>4
<1> HIDE DEF N, Body
<1>7. N \in Nat
  BY DEF N
<1>8. f[N] \in V
  BY <1>5, <1>6, <1>7, RoundsKeep
<1> QED  BY <1>1, <1>8

LEMMA AddContsLoop ==
  ASSUME NEW V, NEW b \in V, NEW s, Len(s) \in Nat, NEW i,
         \A d \in V : \A m \in 1..Len(s) : AddCont(d, s[m], i) \in V
  PROVE  AddConts(b, s, i) \in V
<1> DEFINE N == Len(s)
           Body(g) == [n \in 0 .. N |-> IF n = 0 THEN b
                                         ELSE Once(g[n - 1], LAMBDA d : AddCont(d, s[n], i))]
           f == CHOOSE g : g = Body(g)
           h == [m \in 1..N |-> [d \in V |-> AddCont(d, s[m], i)]]
<1>1. AddConts(b, s, i) = f[N]
  BY Zenon DEF AddConts, ForEach
<1>2. h \in [1..N -> [V -> V]]
  OBVIOUS
<1>3. \E g : g = Body(g)
  <2>1. PICK g \in [0..N -> V] : Rounds(g, N, b, h)
    <3> HIDE DEF h
    <3> QED  BY <1>2, RoundsExist
  <2>2. ASSUME NEW n \in 1..N PROVE h[n][g[n - 1]] = Once(g[n - 1], LAMBDA d : AddCont(d, s[n], i))
    <3>1. g[n - 1] \in V
      OBVIOUS
    <3> DEFINE d1 == g[n - 1]
    <3>2. h[n][d1] = AddCont(d1, s[n], i)
      BY <3>1
    <3>3. Once(d1, LAMBDA d : AddCont(d, s[n], i)) = AddCont(d1, s[n], i)
      <4> HIDE DEF d1
      <4> QED  BY Zenon DEF Once
    <3> HIDE DEF h
    <3> QED  BY <3>2, <3>3, Zenon
  <2>3. g = [n \in 0..N |-> IF n = 0 THEN b ELSE h[n][g[n - 1]]]
    BY <2>1 DEF Rounds
  <2>4. \A n \in 0..N : n # 0 => n \in 1..N
    OBVIOUS
  <2> HIDE DEF h, N
  <2>5. g = Body(g)
    BY <2>2, <2>3, <2>4, Zenon
  <2> QED  BY <2>5
<1>4. f = Body(f)
  <2> HIDE DEF Body
  <2> QED  BY <1>3
<1> HIDE DEF f
<1>5. f[0] = b
  <2>1. 0 \in 0..N
    OBVIOUS
  <2> HIDE DEF N
  <2> QED  BY <1>4, <2>1, Zenon
<1>6. ASSUME NEW n \in 1..N, f[n - 1] \in V PROVE f[n] \in V
  <2>1. n \in 0..N /\ n # 0
    OBVIOUS
  <2> DEFINE d1 == f[n - 1]
  <2>2. f[n] = Once(d1, LAMBDA d : AddCont(d, s[n], i))
    <3> HIDE DEF N
    <3> QED  BY <1>4, <2>1, Zenon
  <2>3. d1 \in V
    BY <1>6
  <2> HIDE DEF d1
  <2>4. Once(d1, LAMBDA d : AddCont(d, s[n], i)) = AddCont(d1, s[n], i)
    BY Zenon DEF Once
  <2> QED  BY <2>2, <2>3, <2>4
<1> HIDE DEF N, Body
<1>7. N \in Nat
  BY DEF N
<1>8. f[N] \in V
  BY <1>5, <1>6, <1>7, RoundsKeep
<1> QED  BY <1>1, <1>8

LEMMA AddImgsLoop ==
  ASSUME NEW V, NEW b \in V, NEW s, Len(s) \in Nat,
         \A d \in V : \A m \in 1..Len(s) : AddImg(d, s[m]) \in V
  PROVE  AddImgs(b, s) \in V
<1> DEFINE N == Len(s)
           Body(g) == [n \in 0 .. N |-> IF n = 0 THEN b
                                         ELSE Once(g[n - 1], LAMBDA d : AddImg(d, s[n]))]
           f == CHOOSE g : g = Body(g)
           h == [m \in 1..N |-> [d \in V |-> AddImg(d, s[m])]]
<1>1. AddImgs(b, s) = f[N]
  BY Zenon DEF AddImgs, ForEach
<1>2. h \in [1..N -> [V -> V]]
  OBVIOUS
<1>3. \E g : g = Body(g)
  <2>1. PICK g \in [0..N -> V] : Rounds(g, N, b, h)
    <3> HIDE DEF h
    <3> QED  BY <1>2, RoundsExist
  <2>2. ASSUME NEW n \in 1..N PROVE h[n][g[n - 1]] = Once(g[n - 1], LAMBDA d : AddImg(d, s[n]))
    <3>1. g[n - 1] \in V
      OBVIOUS
    <3> DEFINE d1 == g[n - 1]
    <3>2. h[n][d1] = AddImg(d1, s[n])
      BY <3>1
    <3>3. Once(d1, LAMBDA d : AddImg(d, s[n])) = AddImg(d1, s[n])
      <4> HIDE DEF d1
      <4> QED  BY Zenon DEF Once
    <3> HIDE DEF h
    <3> QED  BY <3>2, <3>3, Zenon
  <2>3. g = [n \in 0..N |-> IF n = 0 THEN b ELSE h[n][g[n - 1]]]
    BY <2>1 DEF Rounds
  <2>4. \A n \in 0..N : n # 0 => n \in 1..N
    OBVIOUS
  <2> HIDE DEF h, N
  <2>5. g = Body(g)
    BY <2>2, <2>3, <2>4, Zenon
  <2> QED  BY <2>5
<1>4. f = Body(f)
  <2> HIDE DEF Body
  <2> QED  BY <1>3
<1> HIDE DEF f
<1>5. f[0] = b
  <2>1. 0 \in 0..N
    OBVIOUS
  <2> HIDE DEF N
  <2> QED  BY <1>4, <2>1, Zenon
<1>6. ASSUME NEW n \in 1..N, f[n - 1] \in V PROVE f[n] \in V
  <2>1. n \in 0..N /\ n # 0
    OBVIOUS
  <2> DEFINE d1 == f[n - 1]
  <2>2. f[n] = Once(d1, LAMBDA d : AddImg(d, s[n]))
    <3> HIDE DEF N
    <3> QED  BY <1>4, <2>1, Zenon
  <2>3. d1 \in V
    BY <1>6
  <2> HIDE DEF d1
  <2>4. Once(d1, LAMBDA d : AddImg(d, s[n])) = AddImg(d1, s[n])
    BY Zenon DEF Once
  <2> QED  BY <2>2, <2>3, <2>4
<1> HIDE DEF N, Body
<1>7. N \in Nat
  BY DEF N
<1>8. f[N] \in V
  BY <1>5, <1>6, <1>7, RoundsKeep
<1> QED  BY <1>1, <1>8

LEMMA CopyPidsLoop ==
  ASSUME NEW V, NEW b \in V, NEW s, Len(s) \in Nat, NEW k,
         \A d \in V : \A m \in 1..Len(s) : CopyPid(d, s[m], k) \in V
  PROVE  CopyPids(b, s, k) \in V
<1> DEFINE N == Len(s)
           Body(g) == [n \in 0 .. N |-> IF n = 0 THEN b
                                         ELSE Once(g[n - 1], LAMBDA d : CopyPid(d, s[n], k))]
           f == CHOOSE g : g = Body(g)
           h == [m \in 1..N |-> [d \in V |-> CopyPid(d, s[m], k)]]
<1>1. CopyPids(b, s, k) = f[N]
  BY Zenon DEF CopyPids, ForEach
<1>2. h \in [1..N -> [V -> V]]
  OBVIOUS
<1>3. \E g : g = Body(g)
  <2>1. PICK g \in [0..N -> V] : Rounds(g, N, b, h)
    <3> HIDE DEF h
    <3> QED  BY <1>2, RoundsExist
  <2>2. ASSUME NEW n \in 1..N PROVE h[n][g[n - 1]] = Once(g[n - 1], LAMBDA d : CopyPid(d, s[n], k))
    <3>1. g[n - 1] \in V
      OBVIOUS
    <3> DEFINE d1 == g[n - 1]
    <3>2. h[n][d1] = CopyPid(d1, s[n], k)
      BY <3>1
    <3>3. Once(d1, LAMBDA d : CopyPid(d, s[n], k)) = CopyPid(d1, s[n], k)
      <4> HIDE DEF d1
      <4> QED  BY Zenon DEF Once
    <3> HIDE DEF h
    <3> QED  BY <3>2, <3>3, Zenon
  <2>3. g = [n \in 0..N |-> IF n = 0 THEN b ELSE h[n][g[n - 1]]]
    BY <2>1 DEF Rounds
  <2>4. \A n \in 0..N : n # 0 => n \in 1..N
    OBVIOUS
  <2> HIDE DEF h, N
  <2>5. g = Body(g)
    BY <2>2, <2>3, <2>4, Zenon
  <2> QED  BY <2>5
<1>4. f = Body(f)
  <2> HIDE DEF Body
  <2> QED  BY <1>3
<1> HIDE DEF f
<1>5. f[0] = b
  <2>1. 0 \in 0..N
    OBVIOUS
  <2> HIDE DEF N
  <2> QED  BY <1>4, <2>1, Zenon
<1>6. ASSUME NEW n \in 1..N, f[n - 1] \in V PROVE f[n] \in V
  <2>1. n \in 0..N /\ n # 0
    OBVIOUS
  <2> DEFINE d1 == f[n - 1]
  <2>2. f[n] = Once(d1, LAMBDA d : CopyPid(d, s[n], k))
    <3> HIDE DEF N
    <3> QED  BY <1>4, <2>1, Zenon
  <2>3. d1 \in V
    BY <1>6
  <2> HIDE DEF d1
  <2>4. Once(d1, LAMBDA d : CopyPid(d, s[n], k)) = CopyPid(d1, s[n], k)
    BY Zenon DEF Once
  <2> QED  BY <2>2, <2>3, <2>4
<1> HIDE DEF N, Body
<1>7. N \in Nat
  BY DEF N
<1>8. f[N] \in V
  BY <1>5, <1>6, <1>7, RoundsKeep
<1> QED  BY <1>1, <1>8

LEMMA RefreshPidsLoop ==
  ASSUME NEW V, NEW b \in V, NEW s, Len(s) \in Nat, NEW k,
         \A d \in V : \A m \in 1..Len(s) : RefreshPid(d, s[m], k) \in V
  PROVE  RefreshPids(b, s, k) \in V
<1> DEFINE N == Len(s)
           Body(g) == [n \in 0 .. N |-> IF n = 0 THEN b
                                         ELSE Once(g[n - 1], LAMBDA d : RefreshPid(d, s[n], k))]
           f == CHOOSE g : g = Body(g)
           h == [m \in 1..N |-> [d \in V |-> RefreshPid(d, s[m], k)]]
<1>1. RefreshPids(b, s, k) = f[N]
  BY Zenon DEF RefreshPids, ForEach
<1>2. h \in [1..N -> [V -> V]]
  OBVIOUS
<1>3. \E g : g = Body(g)
  <2>1. PICK g \in [0..N -> V] : Rounds(g, N, b, h)
    <3> HIDE DEF h
    <3> QED  BY <1>2, RoundsExist
  <2>2. ASSUME NEW n \in 1..N PROVE h[n][g[n - 1]] = Once(g[n - 1], LAMBDA d : RefreshPid(d, s[n], k))
    <3>1. g[n - 1] \in V
      OBVIOUS
    <3> DEFINE d1 == g[n - 1]
    <3>2. h[n][d1] = RefreshPid(d1, s[n], k)
      BY <3>1
    <3>3. Once(d1, LAMBDA d : RefreshPid(d, s[n], k)) = RefreshPid(d1, s[n], k)
      <4> HIDE DEF d1
      <4> QED  BY Zenon DEF Once
    <3> HIDE DEF h
    <3> QED  BY <3>2, <3>3, Zenon
  <2>3. g = [n \in 0..N |-> IF n = 0 THEN b ELSE h[n][g[n - 1]]]
    BY <2>1 DEF Rounds
  <2>4. \A n \in 0..N : n # 0 => n \in 1..N
    OBVIOUS
  <2> HIDE DEF h, N
  <2>5. g = Body(g)
    BY <2>2, <2>3, <2>4, Zenon
  <2> QED  BY <2>5
<1>4. f = Body(f)
  <2> HIDE DEF Body
  <2> QED  BY <1>3
<1> HIDE DEF f
<1>5. f[0] = b
  <2>1. 0 \in 0..N
    OBVIOUS
  <2> HIDE DEF N
  <2> QED  BY <1>4, <2>1, Zenon
<1>6. ASSUME NEW n \in 1..N, f[n - 1] \in V PROVE f[n] \in V
  <2>1. n \in 0..N /\ n # 0
    OBVIOUS
  <2> DEFINE d1 == f[n - 1]
  <2>2. f[n] = Once(d1, LAMBDA d : RefreshPid(d, s[n], k))
    <3> HIDE DEF N
    <3> QED  BY <1>4, <2>1, Zenon
  <2>3. d1 \in V
    BY <1>6
  <2> HIDE DEF d1
  <2>4. Once(d1, LAMBDA d : RefreshPid(d, s[n], k)) = RefreshPid(d1, s[n], k)
    BY Zenon DEF Once
  <2> QED  BY <2>2, <2>3, <2>4
<1> HIDE DEF N, Body
<1>7. N \in Nat
  BY DEF N
<1>8. f[N] \in V
  BY <1>5, <1>6, <1>7, RoundsKeep
<1> QED  BY <1>1, <1>8

(* A set of numbers has a least one, a bounded one also a greatest.        *)
LEMMA MinFacts ==
  ASSUME NEW S \in SUBSET Nat, S # {}
  PROVE  Min(S) \in S /\ \A x \in S : Min(S) <= x
<1> DEFINE T == {n \in Nat : \A m \in 0..n : m \notin S}
<1> SUFFICES ASSUME \A x \in S : \E y \in S : y < x PROVE FALSE
  <2>1. SUFFICES \E x \in S : \A y \in S : x <= y
    BY Zenon DEF Min
  <2> QED  OBVIOUS
<1>1. 0 \in T
  OBVIOUS
<1>2. \A n \in Nat : n \in T => n + 1 \in T
  <2> SUFFICES ASSUME NEW n \in Nat, n \in T PROVE n + 1 \notin S
    OBVIOUS
  <2> QED  OBVIOUS
<1>3. Nat \subseteq T
  <2> HIDE DEF T
  <2> QED  BY <1>1, <1>2, SetInduction
<1>4. PICK x \in S : x \in T
  BY <1>3
<1> QED  BY <1>4

LEMMA MaxFacts ==
  ASSUME NEW n \in Nat, NEW S \in SUBSET (1..n), S # {}
  PROVE  Max(S) \in S /\ \A x \in S : x <= Max(S)
<1> DEFINE T == {n - x : x \in S}
<1>1. T \in SUBSET Nat /\ T # {}
  <2>1. \A x \in S : n - x \in Nat
    OBVIOUS
  <2>2. PICK x \in S : TRUE
    OBVIOUS
  <2> QED  BY <2>1, <2>2
<1>2. PICK t \in T : \A u \in T : t <= u
  <2> HIDE DEF T
  <2> QED  BY <1>1, MinFacts
<1>3. PICK x \in S : t = n - x
  BY <1>2
<1>4. \A y \in S : x >= y
  <2> SUFFICES ASSUME NEW y \in S PROVE x >= y
    OBVIOUS
  <2>1. n - y \in T
    OBVIOUS
  <2>2. t <= n - y
    BY <1>2, <2>1
  <2> QED  BY <1>3, <2>2
<1>5. Max(S) \in S /\ \A y \in S : Max(S) >= y
  BY <1>4, Zenon DEF Max
<1> QED  BY <1>5

(* A search finds one of those it is for, the newest of them; or none is.  *)
LEMMA NewestFacts ==
  ASSUME NEW n \in Nat, NEW S \in SUBSET (1..n)
  PROVE  \/ S = {} /\ Newest(S) = 0
         \/ S # {} /\ Newest(S) \in S /\ Newest(S) # 0 /\ \A x \in S : x <= Newest(S)
<1>1. CASE S = {}
  BY <1>1 DEF Newest
<1>2. CASE S # {}
  <2>1. Max(S) \in S /\ \A x \in S : x <= Max(S)
    BY <1>2, MaxFacts
  <2> QED  BY <1>2, <2>1 DEF Newest
<1> QED  BY <1>1, <1>2

(* First: an element of the list that is one of S, if there is any. *)
LEMMA FirstFacts ==
  ASSUME NEW s \in Seq(Nat), NEW S
  PROVE  First(s, S) = 0 \/ First(s, S) \in ToSet(s) \cap S
<1> DEFINE hits == {i \in DOMAIN s : s[i] \in S}
<1>1. CASE hits = {}
  BY <1>1 DEF First
<1>2. CASE hits # {}
  <2>1. hits \in SUBSET Nat
    OBVIOUS
  <2>2. Min(hits) \in hits
    <3> HIDE DEF hits
    <3> QED  BY <1>2, <2>1, MinFacts
  <2>3. First(s, S) = s[Min(hits)]
    BY <1>2, Zenon DEF First
  <2> HIDE DEF First
  <2> QED  BY <2>2, <2>3 DEF ToSet
<1> QED  BY <1>1, <1>2

(* Lists of links.                                                         *)
LEMMA ToSetEmpty == ToSet(<< >>) = {}
  BY DEF ToSet

LEMMA ToSetOne == ASSUME NEW x PROVE ToSet(<<x>>) = {x}
  BY DEF ToSet

LEMMA ConcatFacts ==
  ASSUME NEW s \in Seq(Nat), NEW t \in Seq(Nat)
  PROVE  s \o t \in Seq(Nat) /\ ToSet(s \o t) = ToSet(s) \cup ToSet(t)
<1>1. s \o t \in Seq(Nat) /\ Len(s \o t) = Len(s) + Len(t)
  OBVIOUS
<1>2. ToSet(s \o t) \subseteq ToSet(s) \cup ToSet(t)
  BY DEF ToSet
<1>3. ToSet(s) \subseteq ToSet(s \o t)
  BY DEF ToSet
<1>4. ASSUME NEW x \in ToSet(t) PROVE x \in ToSet(s \o t)
  <2>1. PICK i \in 1..Len(t) : t[i] = x
    BY DEF ToSet
  <2>2. Len(s) + i \in DOMAIN (s \o t) /\ (s \o t)[Len(s) + i] = x
    BY <2>1
  <2> QED  BY <2>2 DEF ToSet
<1> QED  BY <1>1, <1>2, <1>3, <1>4

LEMMA PushFacts ==
  ASSUME NEW n \in Nat, NEW s \in Seq(Nat)
  PROVE  Push(n, s) \in Seq(Nat) /\ ToSet(Push(n, s)) = {n} \cup ToSet(s)
<1>1. <<n>> \in Seq(Nat)
  OBVIOUS
<1> QED  BY <1>1, ConcatFacts, ToSetOne DEF Push

(***************************************************************************)
(* What each change of the lists leaves.                                   *)
(***************************************************************************)
Same(x, y) == x.id = y.id /\ (x.own <=> y.own) /\ x.blk = y.blk

(* d is c with the PID e, which container k and image i have in their list. *)
PidAdded(c, d, e, k, i) ==
  /\ c \in Confs /\ d \in Confs
  /\ Len(d.img) = Len(c.img) /\ Len(d.cont) = Len(c.cont) /\ Len(d.pid) = Len(c.pid) + 1
  /\ \A p \in 1..Len(c.pid) : d.pid[p] = c.pid[p]
  /\ d.pid[Len(c.pid) + 1] = e
  /\ \A x \in 1..Len(c.cont) :
       /\ Same(d.cont[x], c.cont[x]) /\ (d.cont[x].ccrt <=> c.cont[x].ccrt) /\ d.cont[x].img = c.cont[x].img
       /\ ToSet(d.cont[x].pids) = ToSet(c.cont[x].pids) \cup (IF x = k THEN {Len(c.pid) + 1} ELSE {})
  /\ \A x \in 1..Len(c.img) :
       /\ Same(d.img[x], c.img[x]) /\ ToSet(d.img[x].conts) = ToSet(c.img[x].conts)
       /\ ToSet(d.img[x].pids) = ToSet(c.img[x].pids) \cup (IF x = i THEN {Len(c.pid) + 1} ELSE {})

(* d is c with the container e, which image i knows. *)
ContAdded(c, d, e, i) ==
  /\ c \in Confs /\ d \in Confs
  /\ Len(d.img) = Len(c.img) /\ Len(d.cont) = Len(c.cont) + 1 /\ d.pid = c.pid
  /\ \A x \in 1..Len(c.cont) : d.cont[x] = c.cont[x]
  /\ d.cont[Len(c.cont) + 1] = e
  /\ \A x \in 1..Len(c.img) :
       /\ Same(d.img[x], c.img[x]) /\ ToSet(d.img[x].pids) = ToSet(c.img[x].pids)
       /\ ToSet(d.img[x].conts) = ToSet(c.img[x].conts) \cup (IF x = i THEN {Len(c.cont) + 1} ELSE {})

(* d is c with the image e. *)
ImgAdded(c, d, e) ==
  /\ c \in Confs /\ d \in Confs
  /\ Len(d.img) = Len(c.img) + 1 /\ d.cont = c.cont /\ d.pid = c.pid
  /\ \A x \in 1..Len(c.img) : d.img[x] = c.img[x]
  /\ d.img[Len(c.img) + 1] = e

(* d is c with container k known to image i. *)
ImgLinked(c, d, k, i) ==
  /\ d \in Confs /\ d.cont = c.cont /\ d.pid = c.pid /\ Len(d.img) = Len(c.img)
  /\ \A x \in 1..Len(c.img) :
       /\ Same(d.img[x], c.img[x]) /\ ToSet(d.img[x].pids) = ToSet(c.img[x].pids)
       /\ ToSet(d.img[x].conts) = ToSet(c.img[x].conts) \cup (IF x = i THEN {k} ELSE {})

(* d is c after image i has become that of container k. *)
ImgLearnt(c, d, k, i) ==
  /\ c \in Confs /\ d \in Confs
  /\ Len(d.img) = Len(c.img) /\ Len(d.cont) = Len(c.cont) /\ d.pid = c.pid
  /\ \A x \in 1..Len(c.cont) : x # k => d.cont[x] = c.cont[x]
  /\ d.cont[k].id = c.cont[k].id /\ d.cont[k].img = i /\ ~d.cont[k].ccrt
  /\ d.cont[k].pids = c.cont[k].pids
  /\ (d.cont[k].own <=> c.img[i].own) /\ d.cont[k].blk = Copied(c.img[i], <<"cont", k>>)
  /\ \A x \in 1..Len(c.img) :
       /\ Same(d.img[x], c.img[x]) /\ ToSet(d.img[x].pids) = ToSet(c.img[x].pids)
       /\ ToSet(d.img[x].conts) = ToSet(c.img[x].conts) \cup (IF x = i THEN {k} ELSE {})

(* A structure with one list replaced, as a record. *)
LEMMA ExceptFields ==
  ASSUME NEW c \in Confs, NEW v
  PROVE  /\ [c EXCEPT !.img = v] = [img |-> v, cont |-> c.cont, pid |-> c.pid]
         /\ [c EXCEPT !.cont = v] = [img |-> c.img, cont |-> v, pid |-> c.pid]
         /\ [c EXCEPT !.pid = v] = [img |-> c.img, cont |-> c.cont, pid |-> v]
  BY DEF Confs

(* What the type says of each list. *)
LEMMA ConfFields ==
  ASSUME NEW c \in Confs
  PROVE  /\ c = [img |-> c.img, cont |-> c.cont, pid |-> c.pid]
         /\ c.img \in Seq(Images) /\ c.cont \in Seq(Conts) /\ c.pid \in Seq(Entries)
         /\ Len(c.img) \in Nat /\ Len(c.cont) \in Nat /\ Len(c.pid) \in Nat
         /\ DOMAIN c.img = 1..Len(c.img) /\ DOMAIN c.cont = 1..Len(c.cont) /\ DOMAIN c.pid = 1..Len(c.pid)
         /\ \A i \in 1..Len(c.img) : c.img[i] \in Images
         /\ \A k \in 1..Len(c.cont) : c.cont[k] \in Conts
         /\ \A p \in 1..Len(c.pid) : c.pid[p] \in Entries
<1>1. /\ c = [img |-> c.img, cont |-> c.cont, pid |-> c.pid]
      /\ c.img \in Seq(Images) /\ c.cont \in Seq(Conts) /\ c.pid \in Seq(Entries)
  BY DEF Confs
<1> QED  BY <1>1

ImgsLinked(list, new, x, n) ==
  /\ new \in Seq(Images) /\ Len(new) = Len(list)
  /\ \A y \in 1..Len(list) :
       /\ Same(new[y], list[y]) /\ new[y].conts = list[y].conts
       /\ ToSet(new[y].pids) = ToSet(list[y].pids) \cup (IF y = x THEN {n} ELSE {})

LEMMA LinkedImgs ==
  ASSUME NEW list \in Seq(Images), NEW x, NEW n \in Nat
  PROVE  ImgsLinked(list, Linked(list, x, n), x, n)
<1> DEFINE new == Linked(list, x, n)
<1>1. new = [y \in 1..Len(list) |-> IF y = x THEN [list[y] EXCEPT !.pids = Push(n, @)] ELSE list[y]]
  BY DEF Linked
<1>2. ASSUME NEW y \in 1..Len(list)
      PROVE  /\ new[y] \in Images /\ Same(new[y], list[y]) /\ new[y].conts = list[y].conts
             /\ ToSet(new[y].pids) = ToSet(list[y].pids) \cup (IF y = x THEN {n} ELSE {})
  <2>1. list[y] \in Images /\ list[y].pids \in Seq(Nat)
    <3>1. list[y] \in Images
      OBVIOUS
    <3> QED  BY <3>1 DEF Images
  <2>2. CASE y # x
    BY <1>1, <2>1, <2>2 DEF Same
  <2>3. CASE y = x
    <3> DEFINE ps == Push(n, list[y].pids)
    <3>1. ps \in Seq(Nat) /\ ToSet(ps) = {n} \cup ToSet(list[y].pids)
      BY <2>1, PushFacts
    <3>2. new[y] = [list[y] EXCEPT !.pids = ps]
      BY <1>1, <2>3
    <3> HIDE DEF ps, new
    <3>3. new[y] \in Images /\ new[y].pids = ps /\ new[y].conts = list[y].conts /\ Same(new[y], list[y])
      BY <2>1, <3>1, <3>2 DEF Images, Same
    <3> QED  BY <2>3, <3>1, <3>3
  <2> QED  BY <2>2, <2>3
<1> HIDE DEF new
<1>3. new \in Seq(Images) /\ Len(new) = Len(list)
  BY <1>1, <1>2
<1> QED  BY <1>2, <1>3 DEF ImgsLinked, new

ContsLinked(list, new, x, n) ==
  /\ new \in Seq(Conts) /\ Len(new) = Len(list)
  /\ \A y \in 1..Len(list) :
       /\ Same(new[y], list[y]) /\ (new[y].ccrt <=> list[y].ccrt)
       /\ new[y].img = list[y].img
       /\ ToSet(new[y].pids) = ToSet(list[y].pids) \cup (IF y = x THEN {n} ELSE {})

LEMMA LinkedConts ==
  ASSUME NEW list \in Seq(Conts), NEW x, NEW n \in Nat
  PROVE  ContsLinked(list, Linked(list, x, n), x, n)
<1> DEFINE new == Linked(list, x, n)
<1>1. new = [y \in 1..Len(list) |-> IF y = x THEN [list[y] EXCEPT !.pids = Push(n, @)] ELSE list[y]]
  BY DEF Linked
<1>2. ASSUME NEW y \in 1..Len(list)
      PROVE  /\ new[y] \in Conts /\ Same(new[y], list[y]) /\ (new[y].ccrt <=> list[y].ccrt) /\ new[y].img = list[y].img
             /\ ToSet(new[y].pids) = ToSet(list[y].pids) \cup (IF y = x THEN {n} ELSE {})
  <2>1. list[y] \in Conts /\ list[y].pids \in Seq(Nat)
    <3>1. list[y] \in Conts
      OBVIOUS
    <3> QED  BY <3>1 DEF Conts
  <2>2. CASE y # x
    BY <1>1, <2>1, <2>2 DEF Same
  <2>3. CASE y = x
    <3> DEFINE ps == Push(n, list[y].pids)
    <3>1. ps \in Seq(Nat) /\ ToSet(ps) = {n} \cup ToSet(list[y].pids)
      BY <2>1, PushFacts
    <3>2. new[y] = [list[y] EXCEPT !.pids = ps]
      BY <1>1, <2>3
    <3> HIDE DEF ps, new
    <3>3. new[y] \in Conts /\ new[y].pids = ps /\ (new[y].ccrt <=> list[y].ccrt) /\ new[y].img = list[y].img /\ Same(new[y], list[y])
      BY <2>1, <3>1, <3>2 DEF Conts, Same
    <3> QED  BY <2>3, <3>1, <3>3
  <2> QED  BY <2>2, <2>3
<1> HIDE DEF new
<1>3. new \in Seq(Conts) /\ Len(new) = Len(list)
  BY <1>1, <1>2
<1> QED  BY <1>2, <1>3 DEF ContsLinked, new

(* NewPid makes the first of the changes named above; the next ones the others. *)
LEMMA NewPidFacts ==
  ASSUME NEW c \in Confs, NEW e \in Entries, NEW k, NEW i
  PROVE  PidAdded(c, NewPid(c, e, k, i), e, k, i)
<1> DEFINE n == Len(c.pid) + 1
           d == NewPid(c, e, k, i)
<1>0. /\ c.img \in Seq(Images) /\ c.cont \in Seq(Conts) /\ c.pid \in Seq(Entries)
      /\ n \in Nat
  BY ConfFields
<1>1. d = [img |-> Linked(c.img, i, n), cont |-> Linked(c.cont, k, n), pid |-> Append(c.pid, e)]
  BY DEF NewPid
<1>2. /\ Append(c.pid, e) \in Seq(Entries) /\ Len(Append(c.pid, e)) = n
      /\ \A p \in 1..Len(c.pid) : Append(c.pid, e)[p] = c.pid[p]
      /\ Append(c.pid, e)[n] = e
  BY <1>0
<1>3. ImgsLinked(c.img, Linked(c.img, i, n), i, n)
  <2> HIDE DEF n, d
  <2> QED  BY <1>0, LinkedImgs
<1>4. ContsLinked(c.cont, Linked(c.cont, k, n), k, n)
  <2> HIDE DEF n, d
  <2> QED  BY <1>0, LinkedConts
<1>5. d \in Confs
  <2> HIDE DEF n, d
  <2> QED  BY <1>1, <1>2, <1>3, <1>4 DEF Confs, ImgsLinked, ContsLinked
<1>6. d.img = Linked(c.img, i, n) /\ d.cont = Linked(c.cont, k, n) /\ d.pid = Append(c.pid, e)
  BY <1>1
<1> HIDE DEF d
<1>7. \A x \in 1..Len(c.img) :
       /\ Same(d.img[x], c.img[x]) /\ ToSet(d.img[x].conts) = ToSet(c.img[x].conts)
       /\ ToSet(d.img[x].pids) = ToSet(c.img[x].pids) \cup (IF x = i THEN {Len(c.pid) + 1} ELSE {})
  BY <1>3, <1>6 DEF ImgsLinked
<1>8. \A x \in 1..Len(c.cont) :
       /\ Same(d.cont[x], c.cont[x]) /\ (d.cont[x].ccrt <=> c.cont[x].ccrt) /\ d.cont[x].img = c.cont[x].img
       /\ ToSet(d.cont[x].pids) = ToSet(c.cont[x].pids) \cup (IF x = k THEN {Len(c.pid) + 1} ELSE {})
  BY <1>4, <1>6 DEF ContsLinked
<1>9. Len(d.img) = Len(c.img) /\ Len(d.cont) = Len(c.cont) /\ Len(d.pid) = Len(c.pid) + 1
  BY <1>2, <1>3, <1>4, <1>6 DEF ImgsLinked, ContsLinked
<1>10. (\A p \in 1..Len(c.pid) : d.pid[p] = c.pid[p]) /\ d.pid[Len(c.pid) + 1] = e
  BY <1>2, <1>6
<1> QED  BY <1>5, <1>7, <1>8, <1>9, <1>10, Zenon DEF PidAdded, d

LEMMA NewContFacts ==
  ASSUME NEW c \in Confs, NEW e \in Conts
  PROVE  ContAdded(c, NewCont(c, e), e, 0)
<1> DEFINE d == NewCont(c, e)
<1>1. d = [img |-> c.img, cont |-> Append(c.cont, e), pid |-> c.pid]
  BY ExceptFields, Zenon DEF NewCont
<1>2. /\ Append(c.cont, e) \in Seq(Conts) /\ Len(Append(c.cont, e)) = Len(c.cont) + 1
      /\ \A x \in 1..Len(c.cont) : Append(c.cont, e)[x] = c.cont[x]
      /\ Append(c.cont, e)[Len(c.cont) + 1] = e
  BY ConfFields
<1>3. d \in Confs
  BY <1>1, <1>2, ConfFields DEF Confs
<1>4. d.img = c.img /\ d.cont = Append(c.cont, e) /\ d.pid = c.pid
  BY <1>1
<1> HIDE DEF d
<1>5. \A x \in 1..Len(c.img) :
       /\ Same(d.img[x], c.img[x]) /\ ToSet(d.img[x].pids) = ToSet(c.img[x].pids)
       /\ ToSet(d.img[x].conts) = ToSet(c.img[x].conts) \cup (IF x = 0 THEN {Len(c.cont) + 1} ELSE {})
  <2> SUFFICES ASSUME NEW x \in 1..Len(c.img)
               PROVE  /\ Same(d.img[x], c.img[x]) /\ ToSet(d.img[x].pids) = ToSet(c.img[x].pids)
                      /\ ToSet(d.img[x].conts) = ToSet(c.img[x].conts) \cup (IF x = 0 THEN {Len(c.cont) + 1} ELSE {})
    OBVIOUS
  <2>1. x # 0
    BY ConfFields
  <2> QED  BY <1>4, <2>1 DEF Same
<1>6. Len(d.img) = Len(c.img) /\ Len(d.cont) = Len(c.cont) + 1
  BY <1>2, <1>4
<1>7. (\A x \in 1..Len(c.cont) : d.cont[x] = c.cont[x]) /\ d.cont[Len(c.cont) + 1] = e
  BY <1>2, <1>4
<1> QED  BY <1>3, <1>4, <1>5, <1>6, <1>7, Zenon DEF ContAdded, d

LEMMA NewImgFacts ==
  ASSUME NEW c \in Confs, NEW e \in Images
  PROVE  ImgAdded(c, NewImg(c, e), e)
<1> DEFINE d == NewImg(c, e)
<1>1. d = [img |-> Append(c.img, e), cont |-> c.cont, pid |-> c.pid]
  BY ExceptFields, Zenon DEF NewImg
<1>2. /\ Append(c.img, e) \in Seq(Images) /\ Len(Append(c.img, e)) = Len(c.img) + 1
      /\ \A x \in 1..Len(c.img) : Append(c.img, e)[x] = c.img[x]
      /\ Append(c.img, e)[Len(c.img) + 1] = e
  BY ConfFields
<1>3. d \in Confs
  BY <1>1, <1>2, ConfFields DEF Confs
<1>4. d.img = Append(c.img, e) /\ d.cont = c.cont /\ d.pid = c.pid
  BY <1>1
<1> HIDE DEF d
<1> QED  BY <1>2, <1>3, <1>4 DEF ImgAdded, d

(* Image i learns of a container.                                          *)
LEMMA LinkImageFacts ==
  ASSUME NEW c \in Confs, NEW k \in Nat, NEW i \in 0..Len(c.img)
  PROVE  ImgLinked(c, LinkImage(c, k, i), k, i)
<1> DEFINE d == LinkImage(c, k, i)
<1> SUFFICES /\ d \in Confs /\ d.cont = c.cont /\ d.pid = c.pid /\ Len(d.img) = Len(c.img)
             /\ \A x \in 1..Len(c.img) :
                  /\ Same(d.img[x], c.img[x]) /\ ToSet(d.img[x].pids) = ToSet(c.img[x].pids)
                  /\ ToSet(d.img[x].conts) = ToSet(c.img[x].conts) \cup (IF x = i THEN {k} ELSE {})
  BY Zenon DEF ImgLinked
<1>1. CASE i = 0
  <2>1. d = c
    BY <1>1 DEF LinkImage
  <2>2. \A x \in 1..Len(c.img) : x # i
    BY <1>1, ConfFields
  <2> HIDE DEF d
  <2> QED  BY <2>1, <2>2 DEF Same
<1>2. CASE i # 0
  <2>0. i \in 1..Len(c.img) /\ c.img[i] \in Images /\ c.img[i].conts \in Seq(Nat)
    <3>1. i \in 1..Len(c.img) /\ c.img[i] \in Images
      BY <1>2, ConfFields
    <3> QED  BY <3>1 DEF Images
  <2> DEFINE ks == Push(k, c.img[i].conts)
             im == [c.img[i] EXCEPT !.conts = ks]
  <2>1. ks \in Seq(Nat) /\ ToSet(ks) = {k} \cup ToSet(c.img[i].conts)
    BY <2>0, PushFacts
  <2>2. d = [c EXCEPT !.img = [c.img EXCEPT ![i] = im]]
    BY <1>2, Zenon DEF LinkImage
  <2> HIDE DEF ks, d
  <2>3. im \in Images /\ im.conts = ks /\ Same(im, c.img[i]) /\ im.pids = c.img[i].pids
    BY <2>0, <2>1 DEF Images, Same
  <2> HIDE DEF im
  <2>4. d.img = [c.img EXCEPT ![i] = im] /\ d.cont = c.cont /\ d.pid = c.pid
        /\ d = [img |-> [c.img EXCEPT ![i] = im], cont |-> c.cont, pid |-> c.pid]
    <3>1. d = [img |-> [c.img EXCEPT ![i] = im], cont |-> c.cont, pid |-> c.pid]
      BY <2>2, ExceptFields, Zenon
    <3> QED  BY <3>1
  <2>5. d.img \in Seq(Images) /\ Len(d.img) = Len(c.img)
    BY <2>0, <2>3, <2>4, ConfFields
  <2>6. d \in Confs
    BY <2>4, <2>5, ConfFields DEF Confs
  <2>7. ASSUME NEW x \in 1..Len(c.img)
        PROVE  /\ Same(d.img[x], c.img[x]) /\ ToSet(d.img[x].pids) = ToSet(c.img[x].pids)
               /\ ToSet(d.img[x].conts) = ToSet(c.img[x].conts) \cup (IF x = i THEN {k} ELSE {})
    <3>1. CASE x = i
      <4>1. d.img[x] = im
        BY <2>0, <2>4, <3>1, ConfFields
      <4> QED  BY <2>1, <2>3, <3>1, <4>1
    <3>2. CASE x # i
      <4>1. d.img[x] = c.img[x]
        BY <2>0, <2>4, <3>2, ConfFields
      <4> QED  BY <3>2, <4>1 DEF Same
    <3> QED  BY <3>1, <3>2
  <2> QED  BY <2>4, <2>5, <2>6, <2>7
<1> QED  BY <1>1, <1>2

LEMMA LinkedContFacts ==
  ASSUME NEW c \in Confs, NEW e \in Conts, NEW i \in 0..Len(c.img)
  PROVE  ContAdded(c, LinkImage(NewCont(c, e), Len(c.cont) + 1, i), e, i)
<1> DEFINE n == Len(c.cont) + 1
           b == NewCont(c, e)
           d == LinkImage(b, n, i)
<1>1. ContAdded(c, b, e, 0)
  BY NewContFacts
<1>2. b \in Confs /\ n \in Nat /\ i \in 0..Len(b.img)
  BY <1>1, ConfFields DEF ContAdded
<1> HIDE DEF b, n
<1> HIDE DEF d
<1>a. ImgLinked(b, d, n, i)
  BY <1>2, LinkImageFacts DEF d
<1>3. /\ d \in Confs /\ d.cont = b.cont /\ d.pid = b.pid /\ Len(d.img) = Len(b.img)
      /\ \A x \in 1..Len(b.img) :
           /\ Same(d.img[x], b.img[x]) /\ ToSet(d.img[x].pids) = ToSet(b.img[x].pids)
           /\ ToSet(d.img[x].conts) = ToSet(b.img[x].conts) \cup (IF x = i THEN {n} ELSE {})
  BY <1>a DEF ImgLinked
<1>4. /\ Len(b.img) = Len(c.img) /\ Len(b.cont) = Len(c.cont) + 1 /\ b.pid = c.pid
      /\ \A x \in 1..Len(c.cont) : b.cont[x] = c.cont[x]
      /\ b.cont[Len(c.cont) + 1] = e
  BY <1>1 DEF ContAdded
<1>5. ASSUME NEW x \in 1..Len(c.img)
      PROVE  /\ Same(d.img[x], c.img[x]) /\ ToSet(d.img[x].pids) = ToSet(c.img[x].pids)
             /\ ToSet(d.img[x].conts) = ToSet(c.img[x].conts) \cup (IF x = i THEN {Len(c.cont) + 1} ELSE {})
  <2>1. x # 0
    BY ConfFields
  <2>2. /\ Same(b.img[x], c.img[x]) /\ ToSet(b.img[x].pids) = ToSet(c.img[x].pids)
        /\ ToSet(b.img[x].conts) = ToSet(c.img[x].conts)
    BY <1>1, <2>1 DEF ContAdded
  <2>3. /\ Same(d.img[x], b.img[x]) /\ ToSet(d.img[x].pids) = ToSet(b.img[x].pids)
        /\ ToSet(d.img[x].conts) = ToSet(b.img[x].conts) \cup (IF x = i THEN {n} ELSE {})
    BY <1>3, <1>4
  <2> QED  BY <2>2, <2>3 DEF Same, n
<1> QED  BY <1>3, <1>4, <1>5 DEF ContAdded, d, b, n

LEMMA ImageUpdateFacts ==
  ASSUME NEW c \in Confs, NEW k \in 1..Len(c.cont), NEW i \in 1..Len(c.img)
  PROVE  ImgLearnt(c, ImageUpdate(c, k, i), k, i)
<1> DEFINE b == LinkImage(c, k, i)
           d == ImageUpdate(c, k, i)
           blk == Copied(c.img[i], <<"cont", k>>)
           e == [b.cont[k] EXCEPT !.img = i, !.own = c.img[i].own, !.ccrt = FALSE, !.blk = blk]
<1>0. k \in Nat /\ i \in 0..Len(c.img) /\ i \in Nat
  BY ConfFields
<1>1. /\ b \in Confs /\ b.cont = c.cont /\ b.pid = c.pid /\ Len(b.img) = Len(c.img)
      /\ \A x \in 1..Len(c.img) :
           /\ Same(b.img[x], c.img[x]) /\ ToSet(b.img[x].pids) = ToSet(c.img[x].pids)
           /\ ToSet(b.img[x].conts) = ToSet(c.img[x].conts) \cup (IF x = i THEN {k} ELSE {})
  <2>1. ImgLinked(c, b, k, i)
    BY <1>0, LinkImageFacts
  <2> HIDE DEF b, d
  <2> QED  BY <2>1 DEF ImgLinked
<1>2. d = [b EXCEPT !.cont = [b.cont EXCEPT ![k] = e]]
  BY Zenon DEF ImageUpdate
<1> HIDE DEF b, d
<1>3. c.cont[k] \in Conts /\ c.img[i] \in Images
  BY ConfFields
<1>4. blk \in Blocks
  <2>1. c.img[i].blk \in Blocks
    BY <1>3 DEF Images
  <2>2. c.img[i].blk.val \in Settings
    BY <2>1 DEF Blocks
  <2>3. [at |-> <<"cont", k>>, val |-> c.img[i].blk.val] \in Blocks
    BY <2>2, <1>0 DEF Blocks
  <2> QED  BY <2>1, <2>3 DEF Copied
<1> HIDE DEF blk
<1>5. /\ e \in Conts /\ e.id = c.cont[k].id /\ e.img = i /\ ~e.ccrt /\ e.pids = c.cont[k].pids
      /\ (e.own <=> c.img[i].own) /\ e.blk = blk
  <2> DEFINE o == c.img[i].own
  <2>1. o \in BOOLEAN
    BY <1>3 DEF Images
  <2>2. e = [c.cont[k] EXCEPT !.img = i, !.own = o, !.ccrt = FALSE, !.blk = blk]
    BY <1>1
  <2> HIDE DEF o, e
  <2>3. e \in Conts
    BY <1>0, <1>3, <1>4, <2>1, <2>2 DEF Conts
  <2>4. e.id = c.cont[k].id /\ e.img = i /\ e.pids = c.cont[k].pids /\ e.blk = blk
    BY <1>3, <2>2 DEF Conts
  <2>5. e.own = o /\ e.ccrt = FALSE
    BY <1>3, <2>2 DEF Conts
  <2> QED  BY <2>3, <2>4, <2>5 DEF o
<1> HIDE DEF e
<1>6. d = [img |-> b.img, cont |-> [b.cont EXCEPT ![k] = e], pid |-> b.pid]
  BY <1>1, <1>2, ExceptFields, Zenon
<1>7. d.img = b.img /\ d.cont = [c.cont EXCEPT ![k] = e] /\ d.pid = c.pid
  BY <1>1, <1>6
<1>8. /\ [c.cont EXCEPT ![k] = e] \in Seq(Conts) /\ Len([c.cont EXCEPT ![k] = e]) = Len(c.cont)
      /\ [c.cont EXCEPT ![k] = e][k] = e
      /\ \A x \in 1..Len(c.cont) : x # k => [c.cont EXCEPT ![k] = e][x] = c.cont[x]
  BY <1>5, ConfFields
<1>9. d \in Confs
  BY <1>1, <1>6, <1>8, ConfFields DEF Confs
<1>10. /\ \A x \in 1..Len(c.cont) : x # k => d.cont[x] = c.cont[x]
       /\ d.cont[k] = e /\ Len(d.cont) = Len(c.cont) /\ Len(d.img) = Len(c.img)
  BY <1>1, <1>7, <1>8
<1>11. \A x \in 1..Len(c.img) :
           /\ Same(d.img[x], c.img[x]) /\ ToSet(d.img[x].pids) = ToSet(c.img[x].pids)
           /\ ToSet(d.img[x].conts) = ToSet(c.img[x].conts) \cup (IF x = i THEN {k} ELSE {})
  BY <1>1, <1>7
<1>12. /\ d.cont[k].id = c.cont[k].id /\ d.cont[k].img = i /\ ~d.cont[k].ccrt
       /\ d.cont[k].pids = c.cont[k].pids
       /\ (d.cont[k].own <=> c.img[i].own) /\ d.cont[k].blk = blk
  BY <1>5, <1>10
<1> QED  BY <1>7, <1>9, <1>10, <1>11, <1>12, Zenon DEF ImgLearnt, d, blk

(***************************************************************************)
(* What the configuration is like, besides the pointers that lead to       *)
(* entries.                                                                *)
(***************************************************************************)
(* An entry in a list of links points back at whose list it is in, and
   nothing is without image and container. *)
Linking(c) ==
  /\ \A i \in 1..Len(c.img) : \A k \in ToSet(c.img[i].conts) : c.cont[k].img = i
  /\ \A i \in 1..Len(c.img) : \A p \in ToSet(c.img[i].pids) : c.pid[p].img = i
  /\ \A k \in 1..Len(c.cont) : \A p \in ToSet(c.cont[k].pids) : c.pid[p].cont = k
  /\ \A p \in 1..Len(c.pid) : c.pid[p].cont # 0

(* The block is the global one, or an entry owns it and will free it.      *)
Owner(c, at) == \/ at = Global.at
                \/ \E i \in 1..Len(c.img) : c.img[i].own /\ at = <<"img", i>>
                \/ \E k \in 1..Len(c.cont) : c.cont[k].own /\ at = <<"cont", k>>
                \/ \E p \in 1..Len(c.pid) : c.pid[p].own /\ at = <<"pid", p>>

Owning(c) ==
  /\ \A i \in 1..Len(c.img) : Owner(c, c.img[i].blk.at) /\ (c.img[i].own => c.img[i].blk.at = <<"img", i>>)
  /\ \A k \in 1..Len(c.cont) : Owner(c, c.cont[k].blk.at) /\ (c.cont[k].own => c.cont[k].blk.at = <<"cont", k>>)
  /\ \A p \in 1..Len(c.pid) : Owner(c, c.pid[p].blk.at) /\ (c.pid[p].own => c.pid[p].blk.at = <<"pid", p>>)

(* What an entry e, at this place, may bring. *)
Brings(c, e, place) == IF e.own THEN e.blk.at = place ELSE Owner(c, e.blk.at)

(* Entries made at run time are newer than those of the file, for IDs. *)
Origins(j, c) ==
  /\ \A k \in 1..Len(c.cont) : c.cont[k].ccrt =>
       c.cont[k].id \in Containers /\ c.cont[k].img = 0 /\ ~c.cont[k].own /\ c.cont[k].blk = Global
  /\ \A k \in 1..Len(c.cont) : c.cont[k].id \notin Containers =>
       \A x \in 1..k : ~c.cont[x].ccrt /\ Configured(j, c.cont[x].id)
  /\ \A i \in 1..Len(c.img) : \A k \in ToSet(c.img[i].conts) : c.cont[k].id \in Containers

(* PIDs are listed where they belong, containers with an image of theirs. *)
Belongs(j, image, id) == PutInto(j, image, {id}) \/ (id \in Containers /\ Concerns(j, image, id))

Placing(j, c) ==
  /\ \A k \in 1..Len(c.cont) : \A p \in ToSet(c.cont[k].pids) : c.pid[p].cont \in {0, k} /\ c.pid[p].img = 0
  /\ \A i \in 1..Len(c.img) : \A p \in ToSet(c.img[i].pids) : c.pid[p].cont = -i
  /\ \A k \in 1..Len(c.cont) : c.cont[k].img # 0 => Belongs(j, c.img[c.cont[k].img].id, c.cont[k].id)

(***************************************************************************)
(* What each change keeps: pointers lead to entries.                       *)
(***************************************************************************)
LEMMA ConfOKIs ==
  ASSUME NEW c
  PROVE  ConfOK(c) <=>
           /\ c \in Confs
           /\ \A p \in 1..Len(c.pid) : PidOK(c, c.pid[p])
           /\ \A k \in 1..Len(c.cont) : ContOK(c, c.cont[k])
           /\ \A i \in 1..Len(c.img) : ImgOK(c, c.img[i])
  BY ConfFields DEF ConfOK

(* Pointers still lead to entries after each of the four changes. *)
LEMMA PidAddedOK ==
  ASSUME NEW c, NEW d, NEW e, NEW k, NEW i, ConfOK(c), PidAdded(c, d, e, k, i), PidOK(c, e)
  PROVE  ConfOK(d)
<1>1. c \in Confs /\ d \in Confs
  BY DEF PidAdded
<1>2. /\ Len(d.img) = Len(c.img) /\ Len(d.cont) = Len(c.cont) /\ Len(d.pid) = Len(c.pid) + 1
      /\ DOMAIN c.img = 1..Len(c.img) /\ DOMAIN c.cont = 1..Len(c.cont) /\ DOMAIN c.pid = 1..Len(c.pid)
      /\ DOMAIN d.img = 1..Len(c.img) /\ DOMAIN d.cont = 1..Len(c.cont)
      /\ DOMAIN d.pid = 1..(Len(c.pid) + 1) /\ Len(c.pid) \in Nat
  BY <1>1, ConfFields DEF PidAdded
<1>3. ASSUME NEW p \in 1..Len(d.pid) PROVE PidOK(d, d.pid[p])
  <2>1. CASE p = Len(c.pid) + 1
    BY <1>2, <2>1 DEF PidAdded, PidOK
  <2>2. CASE p # Len(c.pid) + 1
    <3>1. p \in 1..Len(c.pid) /\ PidOK(c, c.pid[p]) /\ d.pid[p] = c.pid[p]
      BY <1>2, <2>2, ConfOKIs DEF PidAdded
    <3> QED  BY <1>2, <3>1 DEF PidOK
  <2> QED  BY <2>1, <2>2
<1>4. ASSUME NEW x \in 1..Len(d.cont) PROVE ContOK(d, d.cont[x])
  <2>1. x \in 1..Len(c.cont) /\ ContOK(c, c.cont[x])
    BY <1>2, ConfOKIs
  <2>2. d.cont[x].img = c.cont[x].img /\ ToSet(d.cont[x].pids) \subseteq ToSet(c.cont[x].pids) \cup {Len(c.pid) + 1}
    BY <2>1 DEF PidAdded
  <2> QED  BY <1>2, <2>1, <2>2 DEF ContOK
<1>5. ASSUME NEW x \in 1..Len(d.img) PROVE ImgOK(d, d.img[x])
  <2>1. x \in 1..Len(c.img) /\ ImgOK(c, c.img[x])
    BY <1>2, ConfOKIs
  <2>2. /\ ToSet(d.img[x].conts) = ToSet(c.img[x].conts)
        /\ ToSet(d.img[x].pids) \subseteq ToSet(c.img[x].pids) \cup {Len(c.pid) + 1}
    BY <2>1 DEF PidAdded
  <2> QED  BY <1>2, <2>1, <2>2 DEF ImgOK
<1> QED  BY <1>1, <1>3, <1>4, <1>5, ConfOKIs

LEMMA ContAddedOK ==
  ASSUME NEW c, NEW d, NEW e, NEW i, ConfOK(c), ContAdded(c, d, e, i), ContOK(c, e)
  PROVE  ConfOK(d)
<1>1. c \in Confs /\ d \in Confs
  BY DEF ContAdded
<1>2. /\ Len(d.img) = Len(c.img) /\ Len(d.cont) = Len(c.cont) + 1 /\ d.pid = c.pid
      /\ DOMAIN c.img = 1..Len(c.img) /\ DOMAIN c.cont = 1..Len(c.cont)
      /\ DOMAIN d.img = 1..Len(c.img) /\ DOMAIN d.cont = 1..(Len(c.cont) + 1)
      /\ Len(c.cont) \in Nat /\ Len(c.img) \in Nat
  BY <1>1, ConfFields DEF ContAdded
<1>3. ASSUME NEW p \in 1..Len(d.pid) PROVE PidOK(d, d.pid[p])
  <2>1. PidOK(c, c.pid[p])
    BY <1>2, ConfOKIs
  <2> QED  BY <1>2, <2>1 DEF PidOK
<1>4. ASSUME NEW x \in 1..Len(d.cont) PROVE ContOK(d, d.cont[x])
  <2>1. CASE x = Len(c.cont) + 1
    BY <1>2, <2>1 DEF ContAdded, ContOK
  <2>2. CASE x # Len(c.cont) + 1
    <3>1. x \in 1..Len(c.cont) /\ ContOK(c, c.cont[x]) /\ d.cont[x] = c.cont[x]
      BY <1>2, <2>2, ConfOKIs DEF ContAdded
    <3> QED  BY <1>2, <3>1 DEF ContOK
  <2> QED  BY <2>1, <2>2
<1>5. ASSUME NEW x \in 1..Len(d.img) PROVE ImgOK(d, d.img[x])
  <2>1. x \in 1..Len(c.img) /\ ImgOK(c, c.img[x])
    BY <1>2, ConfOKIs
  <2>2. /\ ToSet(d.img[x].pids) = ToSet(c.img[x].pids)
        /\ ToSet(d.img[x].conts) \subseteq ToSet(c.img[x].conts) \cup {Len(c.cont) + 1}
    BY <2>1 DEF ContAdded
  <2> QED  BY <1>2, <2>1, <2>2 DEF ImgOK
<1> QED  BY <1>1, <1>3, <1>4, <1>5, ConfOKIs

LEMMA ImgAddedOK ==
  ASSUME NEW c, NEW d, NEW e, ConfOK(c), ImgAdded(c, d, e), ImgOK(c, e)
  PROVE  ConfOK(d)
<1>1. c \in Confs /\ d \in Confs
  BY DEF ImgAdded
<1>2. /\ Len(d.img) = Len(c.img) + 1 /\ d.cont = c.cont /\ d.pid = c.pid
      /\ DOMAIN c.img = 1..Len(c.img) /\ DOMAIN d.img = 1..(Len(c.img) + 1)
      /\ Len(c.img) \in Nat
  BY <1>1, ConfFields DEF ImgAdded
<1>3. ASSUME NEW p \in 1..Len(d.pid) PROVE PidOK(d, d.pid[p])
  <2>1. PidOK(c, c.pid[p])
    BY <1>2, ConfOKIs
  <2> QED  BY <1>2, <2>1 DEF PidOK
<1>4. ASSUME NEW x \in 1..Len(d.cont) PROVE ContOK(d, d.cont[x])
  <2>1. ContOK(c, c.cont[x])
    BY <1>2, ConfOKIs
  <2> QED  BY <1>2, <2>1 DEF ContOK
<1>5. ASSUME NEW x \in 1..Len(d.img) PROVE ImgOK(d, d.img[x])
  <2>1. CASE x = Len(c.img) + 1
    BY <1>2, <2>1 DEF ImgAdded, ImgOK
  <2>2. CASE x # Len(c.img) + 1
    <3>1. x \in 1..Len(c.img) /\ ImgOK(c, c.img[x]) /\ d.img[x] = c.img[x]
      BY <1>2, <2>2, ConfOKIs DEF ImgAdded
    <3> QED  BY <1>2, <3>1 DEF ImgOK
  <2> QED  BY <2>1, <2>2
<1> QED  BY <1>1, <1>3, <1>4, <1>5, ConfOKIs

LEMMA ImgLearntOK ==
  ASSUME NEW c, NEW d, NEW k \in 1..Len(c.cont), NEW i \in 1..Len(c.img), ConfOK(c), ImgLearnt(c, d, k, i)
  PROVE  ConfOK(d)
<1>1. c \in Confs /\ d \in Confs
  BY DEF ImgLearnt
<1>2. /\ Len(d.img) = Len(c.img) /\ Len(d.cont) = Len(c.cont) /\ d.pid = c.pid
      /\ DOMAIN c.img = 1..Len(c.img) /\ DOMAIN c.cont = 1..Len(c.cont)
      /\ DOMAIN d.img = 1..Len(c.img) /\ DOMAIN d.cont = 1..Len(c.cont)
      /\ Len(c.cont) \in Nat /\ Len(c.img) \in Nat
  BY <1>1, ConfFields DEF ImgLearnt
<1>3. ASSUME NEW p \in 1..Len(d.pid) PROVE PidOK(d, d.pid[p])
  <2>1. PidOK(c, c.pid[p])
    BY <1>2, ConfOKIs
  <2> QED  BY <1>2, <2>1 DEF PidOK
<1>4. ASSUME NEW x \in 1..Len(d.cont) PROVE ContOK(d, d.cont[x])
  <2>1. ContOK(c, c.cont[x])
    BY <1>2, ConfOKIs
  <2>2. CASE x = k
    BY <1>2, <2>1, <2>2 DEF ContOK, ImgLearnt
  <2>3. CASE x # k
    <3>1. d.cont[x] = c.cont[x]
      BY <1>2, <2>3 DEF ImgLearnt
    <3> QED  BY <1>2, <2>1, <3>1 DEF ContOK
  <2> QED  BY <2>2, <2>3
<1>5. ASSUME NEW x \in 1..Len(d.img) PROVE ImgOK(d, d.img[x])
  <2>1. x \in 1..Len(c.img) /\ ImgOK(c, c.img[x])
    BY <1>2, ConfOKIs
  <2>2. /\ ToSet(d.img[x].pids) = ToSet(c.img[x].pids)
        /\ ToSet(d.img[x].conts) \subseteq ToSet(c.img[x].conts) \cup {k}
    BY <2>1 DEF ImgLearnt
  <2> QED  BY <1>2, <2>1, <2>2 DEF ImgOK
<1> QED  BY <1>1, <1>3, <1>4, <1>5, ConfOKIs

(***************************************************************************)
(* Links agree.                                                            *)
(***************************************************************************)
LEMMA PidAddedLinks ==
  ASSUME NEW c, NEW d, NEW e, NEW k, NEW i, ConfOK(c), Linking(c), PidAdded(c, d, e, k, i),
         e.cont # 0, k \in 1..Len(c.cont) => e.cont = k, i \in 1..Len(c.img) => e.img = i
  PROVE  Linking(d)
<1> DEFINE n == Len(c.pid) + 1
<1>1. /\ Len(d.img) = Len(c.img) /\ Len(d.cont) = Len(c.cont) /\ Len(d.pid) = n
      /\ DOMAIN c.cont = 1..Len(c.cont) /\ DOMAIN c.pid = 1..Len(c.pid) /\ Len(c.pid) \in Nat
  BY ConfFields DEF PidAdded
<1>2. \A p \in DOMAIN c.pid : d.pid[p] = c.pid[p]
  BY <1>1 DEF PidAdded
<1>3. d.pid[n] = e
  BY DEF PidAdded
<1>4. ASSUME NEW x \in 1..Len(d.img), NEW y \in ToSet(d.img[x].conts) PROVE d.cont[y].img = x
  <2>1. x \in 1..Len(c.img) /\ y \in ToSet(c.img[x].conts) /\ ImgOK(c, c.img[x])
    BY <1>1, ConfOKIs DEF PidAdded
  <2>2. y \in 1..Len(c.cont) /\ c.cont[y].img = x
    BY <1>1, <2>1 DEF ImgOK, Linking
  <2> QED  BY <2>2 DEF PidAdded
<1>5. ASSUME NEW x \in 1..Len(d.img), NEW p \in ToSet(d.img[x].pids) PROVE d.pid[p].img = x
  <2>1. x \in 1..Len(c.img) /\ p \in ToSet(c.img[x].pids) \cup (IF x = i THEN {n} ELSE {})
    BY <1>1 DEF PidAdded
  <2>2. CASE p \in ToSet(c.img[x].pids)
    <3>1. ImgOK(c, c.img[x])
      BY <2>1, ConfOKIs
    <3>2. p \in DOMAIN c.pid /\ c.pid[p].img = x
      BY <2>1, <2>2, <3>1 DEF ImgOK, Linking
    <3> QED  BY <1>2, <3>2
  <2>3. CASE x = i /\ p = n
    BY <1>3, <2>1, <2>3
  <2> QED  BY <2>1, <2>2, <2>3
<1>6. ASSUME NEW x \in 1..Len(d.cont), NEW p \in ToSet(d.cont[x].pids) PROVE d.pid[p].cont = x
  <2>1. x \in 1..Len(c.cont) /\ p \in ToSet(c.cont[x].pids) \cup (IF x = k THEN {n} ELSE {})
    BY <1>1 DEF PidAdded
  <2>2. CASE p \in ToSet(c.cont[x].pids)
    <3>1. ContOK(c, c.cont[x])
      BY <2>1, ConfOKIs
    <3>2. p \in DOMAIN c.pid /\ c.pid[p].cont = x
      BY <2>1, <2>2, <3>1 DEF ContOK, Linking
    <3> QED  BY <1>2, <3>2
  <2>3. CASE x = k /\ p = n
    BY <1>3, <2>1, <2>3
  <2> QED  BY <2>1, <2>2, <2>3
<1>7. ASSUME NEW p \in 1..Len(d.pid) PROVE d.pid[p].cont # 0
  <2>1. CASE p = n
    BY <1>3, <2>1
  <2>2. CASE p # n
    <3>1. p \in 1..Len(c.pid)
      BY <1>1, <2>2
    <3> QED  BY <1>1, <1>2, <3>1 DEF Linking
  <2> QED  BY <2>1, <2>2
<1> QED  BY <1>4, <1>5, <1>6, <1>7 DEF Linking

LEMMA ContAddedLinks ==
  ASSUME NEW c, NEW d, NEW e, NEW i, ConfOK(c), Linking(c), ContAdded(c, d, e, i),
         ToSet(e.pids) = {}, i \in 1..Len(c.img) => e.img = i
  PROVE  Linking(d)
<1> DEFINE n == Len(c.cont) + 1
<1>1. /\ Len(d.img) = Len(c.img) /\ Len(d.cont) = n /\ d.pid = c.pid
      /\ DOMAIN c.cont = 1..Len(c.cont) /\ DOMAIN c.pid = 1..Len(c.pid) /\ Len(c.cont) \in Nat
  BY ConfFields DEF ContAdded
<1>2. \A x \in DOMAIN c.cont : d.cont[x] = c.cont[x]
  BY <1>1 DEF ContAdded
<1>3. d.cont[n] = e
  BY DEF ContAdded
<1>4. ASSUME NEW x \in 1..Len(d.img), NEW y \in ToSet(d.img[x].conts) PROVE d.cont[y].img = x
  <2>1. x \in 1..Len(c.img) /\ y \in ToSet(c.img[x].conts) \cup (IF x = i THEN {n} ELSE {})
    BY <1>1 DEF ContAdded
  <2>2. CASE y \in ToSet(c.img[x].conts)
    <3>1. ImgOK(c, c.img[x])
      BY <2>1, ConfOKIs
    <3>2. y \in DOMAIN c.cont /\ c.cont[y].img = x
      BY <1>1, <2>1, <2>2, <3>1 DEF ImgOK, Linking
    <3> QED  BY <1>2, <3>2
  <2>3. CASE x = i /\ y = n
    BY <1>3, <2>1, <2>3
  <2> QED  BY <2>1, <2>2, <2>3
<1>5. ASSUME NEW x \in 1..Len(d.img), NEW p \in ToSet(d.img[x].pids) PROVE d.pid[p].img = x
  BY <1>1 DEF ContAdded, Linking
<1>6. ASSUME NEW x \in 1..Len(d.cont), NEW p \in ToSet(d.cont[x].pids) PROVE d.pid[p].cont = x
  <2>1. x # n
    BY <1>3
  <2>2. x \in 1..Len(c.cont)
    BY <1>1, <2>1
  <2> QED  BY <1>1, <1>2, <2>2 DEF Linking
<1>7. \A p \in 1..Len(d.pid) : d.pid[p].cont # 0
  BY <1>1 DEF Linking
<1> QED  BY <1>4, <1>5, <1>6, <1>7 DEF Linking

LEMMA ImgAddedLinks ==
  ASSUME NEW c, NEW d, NEW e, ConfOK(c), Linking(c), ImgAdded(c, d, e),
         ToSet(e.pids) = {}, ToSet(e.conts) = {}
  PROVE  Linking(d)
<1>1. /\ Len(d.img) = Len(c.img) + 1 /\ Len(c.img) \in Nat /\ d.cont = c.cont /\ d.pid = c.pid
      /\ d.img[Len(c.img) + 1] = e /\ \A x \in 1..Len(c.img) : d.img[x] = c.img[x]
  BY ConfFields DEF ImgAdded
<1>2. ASSUME NEW x \in 1..Len(d.img)
      PROVE  /\ \A y \in ToSet(d.img[x].conts) : d.cont[y].img = x
             /\ \A p \in ToSet(d.img[x].pids) : d.pid[p].img = x
  <2>1. CASE x = Len(c.img) + 1
    BY <1>1, <2>1
  <2>2. CASE x # Len(c.img) + 1
    <3>1. x \in 1..Len(c.img)
      BY <1>1, <2>2
    <3> QED  BY <1>1, <3>1 DEF Linking
  <2> QED  BY <2>1, <2>2
<1> QED  BY <1>1, <1>2 DEF Linking

LEMMA ImgLearntLinks ==
  ASSUME NEW c, NEW d, NEW k \in 1..Len(c.cont), NEW i \in 1..Len(c.img), ConfOK(c), Linking(c),
         ImgLearnt(c, d, k, i), c.cont[k].img = 0
  PROVE  Linking(d)
<1>1. /\ Len(d.img) = Len(c.img) /\ Len(d.cont) = Len(c.cont) /\ d.pid = c.pid
      /\ DOMAIN c.cont = 1..Len(c.cont) /\ Len(c.img) \in Nat
      /\ \A x \in 1..Len(c.cont) : x # k => d.cont[x] = c.cont[x]
      /\ d.cont[k].img = i /\ d.cont[k].pids = c.cont[k].pids
  BY ConfFields DEF ImgLearnt
<1>2. ASSUME NEW x \in 1..Len(d.img), NEW y \in ToSet(d.img[x].conts) PROVE d.cont[y].img = x
  <2>1. x \in 1..Len(c.img) /\ y \in ToSet(c.img[x].conts) \cup (IF x = i THEN {k} ELSE {})
    BY <1>1 DEF ImgLearnt
  <2>2. CASE y \in ToSet(c.img[x].conts)
    <3>1. ImgOK(c, c.img[x])
      BY <2>1, ConfOKIs
    <3>2. y \in 1..Len(c.cont) /\ c.cont[y].img = x
      BY <1>1, <2>1, <2>2, <3>1 DEF ImgOK, Linking
    <3>3. x # 0
      BY <1>1
    <3> QED  BY <1>1, <3>2, <3>3
  <2>3. CASE x = i /\ y = k
    BY <1>1, <2>3
  <2> QED  BY <2>1, <2>2, <2>3
<1>3. \A x \in 1..Len(d.img) : \A p \in ToSet(d.img[x].pids) : d.pid[p].img = x
  BY <1>1 DEF ImgLearnt, Linking
<1>4. ASSUME NEW x \in 1..Len(d.cont), NEW p \in ToSet(d.cont[x].pids) PROVE d.pid[p].cont = x
  <2>1. d.cont[x].pids = c.cont[x].pids
    BY <1>1
  <2> QED  BY <1>1, <2>1 DEF Linking
<1>5. \A p \in 1..Len(d.pid) : d.pid[p].cont # 0
  BY <1>1 DEF Linking
<1> QED  BY <1>2, <1>3, <1>4, <1>5 DEF Linking

(***************************************************************************)
(* Blocks of settings have one owner.                                      *)
(***************************************************************************)
LEMMA PidAddedOwners ==
  ASSUME NEW c, NEW d, NEW e, NEW k, NEW i, Owning(c), PidAdded(c, d, e, k, i),
         Brings(c, e, <<"pid", Len(c.pid) + 1>>)
  PROVE  Owning(d)
<1> DEFINE n == Len(c.pid) + 1
<1>1. /\ Len(d.img) = Len(c.img) /\ Len(d.cont) = Len(c.cont) /\ Len(d.pid) = n /\ Len(c.pid) \in Nat
      /\ \A p \in 1..Len(c.pid) : d.pid[p] = c.pid[p]
      /\ d.pid[n] = e
      /\ \A x \in 1..Len(c.img) : Same(d.img[x], c.img[x])
      /\ \A x \in 1..Len(c.cont) : Same(d.cont[x], c.cont[x])
  BY ConfFields DEF PidAdded
<1>2. ASSUME NEW a, Owner(c, a) PROVE Owner(d, a)
  <2>1. CASE a = Global.at
    BY <2>1 DEF Owner
  <2>2. CASE \E x \in 1..Len(c.img) : c.img[x].own /\ a = <<"img", x>>
    BY <1>1, <2>2 DEF Owner, Same
  <2>3. CASE \E x \in 1..Len(c.cont) : c.cont[x].own /\ a = <<"cont", x>>
    BY <1>1, <2>3 DEF Owner, Same
  <2>4. CASE \E p \in 1..Len(c.pid) : c.pid[p].own /\ a = <<"pid", p>>
    <3>1. PICK p \in 1..Len(c.pid) : c.pid[p].own /\ a = <<"pid", p>>
      BY <2>4
    <3>2. p \in 1..Len(d.pid) /\ d.pid[p] = c.pid[p]
      BY <1>1
    <3> QED  BY <3>1, <3>2 DEF Owner
  <2> QED  BY <1>2, <2>1, <2>2, <2>3, <2>4 DEF Owner
<1>3. ASSUME NEW x \in 1..Len(d.img)
      PROVE  Owner(d, d.img[x].blk.at) /\ (d.img[x].own => d.img[x].blk.at = <<"img", x>>)
  BY <1>1, <1>2 DEF Owning, Same
<1>4. ASSUME NEW x \in 1..Len(d.cont)
      PROVE  Owner(d, d.cont[x].blk.at) /\ (d.cont[x].own => d.cont[x].blk.at = <<"cont", x>>)
  BY <1>1, <1>2 DEF Owning, Same
<1>5. Owner(d, e.blk.at) /\ (e.own => e.blk.at = <<"pid", n>>)
  <2>1. CASE e.own
    <3>1. n \in 1..Len(d.pid) /\ d.pid[n].own
      BY <1>1, <2>1
    <3>2. e.blk.at = <<"pid", n>>
      BY <2>1 DEF Brings
    <3> HIDE DEF n
    <3> QED  BY <3>1, <3>2 DEF Owner
  <2>2. CASE ~e.own
    BY <1>2, <2>2 DEF Brings
  <2> QED  BY <2>1, <2>2
<1>6. ASSUME NEW p \in 1..Len(d.pid)
      PROVE  Owner(d, d.pid[p].blk.at) /\ (d.pid[p].own => d.pid[p].blk.at = <<"pid", p>>)
  <2>1. CASE p = n
    BY <1>1, <1>5, <2>1
  <2>2. CASE p # n
    <3>1. p \in 1..Len(c.pid) /\ d.pid[p] = c.pid[p]
      BY <1>1, <2>2
    <3> QED  BY <1>2, <3>1 DEF Owning
  <2> QED  BY <2>1, <2>2
<1> QED  BY <1>3, <1>4, <1>6 DEF Owning

LEMMA ContAddedOwners ==
  ASSUME NEW c, NEW d, NEW e, NEW i, Owning(c), ContAdded(c, d, e, i),
         Brings(c, e, <<"cont", Len(c.cont) + 1>>)
  PROVE  Owning(d)
<1> DEFINE n == Len(c.cont) + 1
<1>1. /\ Len(d.img) = Len(c.img) /\ Len(d.cont) = n /\ d.pid = c.pid /\ Len(c.cont) \in Nat
      /\ \A k \in 1..Len(c.cont) : d.cont[k] = c.cont[k]
      /\ d.cont[n] = e
      /\ \A x \in 1..Len(c.img) : Same(d.img[x], c.img[x])
  BY ConfFields DEF ContAdded
<1>2. ASSUME NEW a, Owner(c, a) PROVE Owner(d, a)
  <2>1. CASE a = Global.at
    BY <2>1 DEF Owner
  <2>2. CASE \E x \in 1..Len(c.img) : c.img[x].own /\ a = <<"img", x>>
    BY <1>1, <2>2 DEF Owner, Same
  <2>3. CASE \E p \in 1..Len(c.pid) : c.pid[p].own /\ a = <<"pid", p>>
    BY <1>1, <2>3 DEF Owner
  <2>4. CASE \E k \in 1..Len(c.cont) : c.cont[k].own /\ a = <<"cont", k>>
    <3>1. PICK k \in 1..Len(c.cont) : c.cont[k].own /\ a = <<"cont", k>>
      BY <2>4
    <3>2. k \in 1..Len(d.cont) /\ d.cont[k] = c.cont[k]
      BY <1>1
    <3> QED  BY <3>1, <3>2 DEF Owner
  <2> QED  BY <1>2, <2>1, <2>2, <2>3, <2>4 DEF Owner
<1>3. ASSUME NEW x \in 1..Len(d.img)
      PROVE  Owner(d, d.img[x].blk.at) /\ (d.img[x].own => d.img[x].blk.at = <<"img", x>>)
  BY <1>1, <1>2 DEF Owning, Same
<1>4. ASSUME NEW x \in 1..Len(d.pid)
      PROVE  Owner(d, d.pid[x].blk.at) /\ (d.pid[x].own => d.pid[x].blk.at = <<"pid", x>>)
  BY <1>1, <1>2 DEF Owning
<1>5. Owner(d, e.blk.at) /\ (e.own => e.blk.at = <<"cont", n>>)
  <2>1. CASE e.own
    <3>1. n \in 1..Len(d.cont) /\ d.cont[n].own
      BY <1>1, <2>1
    <3>2. e.blk.at = <<"cont", n>>
      BY <2>1 DEF Brings
    <3> HIDE DEF n
    <3> QED  BY <3>1, <3>2 DEF Owner
  <2>2. CASE ~e.own
    BY <1>2, <2>2 DEF Brings
  <2> QED  BY <2>1, <2>2
<1>6. ASSUME NEW k \in 1..Len(d.cont)
      PROVE  Owner(d, d.cont[k].blk.at) /\ (d.cont[k].own => d.cont[k].blk.at = <<"cont", k>>)
  <2>1. CASE k = n
    BY <1>1, <1>5, <2>1
  <2>2. CASE k # n
    <3>1. k \in 1..Len(c.cont) /\ d.cont[k] = c.cont[k]
      BY <1>1, <2>2
    <3> QED  BY <1>2, <3>1 DEF Owning
  <2> QED  BY <2>1, <2>2
<1> QED  BY <1>3, <1>4, <1>6 DEF Owning

LEMMA ImgAddedOwners ==
  ASSUME NEW c, NEW d, NEW e, Owning(c), ImgAdded(c, d, e),
         Brings(c, e, <<"img", Len(c.img) + 1>>)
  PROVE  Owning(d)
<1> DEFINE n == Len(c.img) + 1
<1>1. /\ Len(d.img) = n /\ d.cont = c.cont /\ d.pid = c.pid /\ Len(c.img) \in Nat
      /\ \A x \in 1..Len(c.img) : d.img[x] = c.img[x]
      /\ d.img[n] = e
  BY ConfFields DEF ImgAdded
<1>2. ASSUME NEW a, Owner(c, a) PROVE Owner(d, a)
  <2>1. CASE a = Global.at
    BY <2>1 DEF Owner
  <2>2. CASE \E k \in 1..Len(c.cont) : c.cont[k].own /\ a = <<"cont", k>>
    BY <1>1, <2>2 DEF Owner
  <2>3. CASE \E p \in 1..Len(c.pid) : c.pid[p].own /\ a = <<"pid", p>>
    BY <1>1, <2>3 DEF Owner
  <2>4. CASE \E x \in 1..Len(c.img) : c.img[x].own /\ a = <<"img", x>>
    <3>1. PICK x \in 1..Len(c.img) : c.img[x].own /\ a = <<"img", x>>
      BY <2>4
    <3>2. x \in 1..Len(d.img) /\ d.img[x] = c.img[x]
      BY <1>1
    <3> QED  BY <3>1, <3>2 DEF Owner
  <2> QED  BY <1>2, <2>1, <2>2, <2>3, <2>4 DEF Owner
<1>3. ASSUME NEW x \in 1..Len(d.cont)
      PROVE  Owner(d, d.cont[x].blk.at) /\ (d.cont[x].own => d.cont[x].blk.at = <<"cont", x>>)
  BY <1>1, <1>2 DEF Owning
<1>4. ASSUME NEW x \in 1..Len(d.pid)
      PROVE  Owner(d, d.pid[x].blk.at) /\ (d.pid[x].own => d.pid[x].blk.at = <<"pid", x>>)
  BY <1>1, <1>2 DEF Owning
<1>5. Owner(d, e.blk.at) /\ (e.own => e.blk.at = <<"img", n>>)
  <2>1. CASE e.own
    <3>1. n \in 1..Len(d.img) /\ d.img[n].own
      BY <1>1, <2>1
    <3>2. e.blk.at = <<"img", n>>
      BY <2>1 DEF Brings
    <3> HIDE DEF n
    <3> QED  BY <3>1, <3>2 DEF Owner
  <2>2. CASE ~e.own
    BY <1>2, <2>2 DEF Brings
  <2> QED  BY <2>1, <2>2
<1>6. ASSUME NEW x \in 1..Len(d.img)
      PROVE  Owner(d, d.img[x].blk.at) /\ (d.img[x].own => d.img[x].blk.at = <<"img", x>>)
  <2>1. CASE x = n
    BY <1>1, <1>5, <2>1
  <2>2. CASE x # n
    <3>1. x \in 1..Len(c.img) /\ d.img[x] = c.img[x]
      BY <1>1, <2>2
    <3> QED  BY <1>2, <3>1 DEF Owning
  <2> QED  BY <2>1, <2>2
<1> QED  BY <1>3, <1>4, <1>6 DEF Owning

LEMMA ImgLearntOwners ==
  ASSUME NEW c, NEW d, NEW k \in 1..Len(c.cont), NEW i \in 1..Len(c.img), Owning(c),
         ImgLearnt(c, d, k, i), ~c.cont[k].own
  PROVE  Owning(d)
<1>1. /\ Len(d.img) = Len(c.img) /\ Len(d.cont) = Len(c.cont) /\ d.pid = c.pid
      /\ \A x \in 1..Len(c.cont) : x # k => d.cont[x] = c.cont[x]
      /\ (d.cont[k].own <=> c.img[i].own) /\ d.cont[k].blk = Copied(c.img[i], <<"cont", k>>)
      /\ \A x \in 1..Len(c.img) : Same(d.img[x], c.img[x])
  BY DEF ImgLearnt
<1>2. ASSUME NEW a, Owner(c, a) PROVE Owner(d, a)
  <2>1. CASE a = Global.at
    BY <2>1 DEF Owner
  <2>2. CASE \E x \in 1..Len(c.img) : c.img[x].own /\ a = <<"img", x>>
    BY <1>1, <2>2 DEF Owner, Same
  <2>3. CASE \E p \in 1..Len(c.pid) : c.pid[p].own /\ a = <<"pid", p>>
    BY <1>1, <2>3 DEF Owner
  <2>4. CASE \E x \in 1..Len(c.cont) : c.cont[x].own /\ a = <<"cont", x>>
    <3>1. PICK x \in 1..Len(c.cont) : c.cont[x].own /\ a = <<"cont", x>>
      BY <2>4
    <3>2. x \in 1..Len(d.cont) /\ d.cont[x] = c.cont[x]
      BY <1>1, <3>1
    <3> QED  BY <3>1, <3>2 DEF Owner
  <2> QED  BY <1>2, <2>1, <2>2, <2>3, <2>4 DEF Owner
<1>3. ASSUME NEW x \in 1..Len(d.img)
      PROVE  Owner(d, d.img[x].blk.at) /\ (d.img[x].own => d.img[x].blk.at = <<"img", x>>)
  BY <1>1, <1>2 DEF Owning, Same
<1>4. ASSUME NEW x \in 1..Len(d.pid)
      PROVE  Owner(d, d.pid[x].blk.at) /\ (d.pid[x].own => d.pid[x].blk.at = <<"pid", x>>)
  BY <1>1, <1>2 DEF Owning
<1>5. Owner(d, d.cont[k].blk.at) /\ (d.cont[k].own => d.cont[k].blk.at = <<"cont", k>>)
  <2>1. CASE d.cont[k].own
    <3>1. d.cont[k].blk.at = <<"cont", k>>
      BY <1>1, <2>1 DEF Copied
    <3> QED  BY <1>1, <2>1, <3>1 DEF Owner
  <2>2. CASE ~d.cont[k].own
    <3>1. d.cont[k].blk = c.img[i].blk
      BY <1>1, <2>2 DEF Copied
    <3>2. Owner(c, c.img[i].blk.at)
      BY DEF Owning
    <3> QED  BY <1>2, <2>2, <3>1, <3>2
  <2> QED  BY <2>1, <2>2
<1>6. ASSUME NEW x \in 1..Len(d.cont)
      PROVE  Owner(d, d.cont[x].blk.at) /\ (d.cont[x].own => d.cont[x].blk.at = <<"cont", x>>)
  <2>1. CASE x = k
    BY <1>5, <2>1
  <2>2. CASE x # k
    <3>1. x \in 1..Len(c.cont) /\ d.cont[x] = c.cont[x]
      BY <1>1, <2>2
    <3> QED  BY <1>2, <3>1 DEF Owning
  <2> QED  BY <2>1, <2>2
<1> QED  BY <1>3, <1>4, <1>6 DEF Owning

(***************************************************************************)
(* Where the containers come from.                                         *)
(***************************************************************************)
(* Nothing but the file was read yet. *)
Fresh(j, c) == /\ \A k \in 1..Len(c.cont) : ~c.cont[k].ccrt /\ Configured(j, c.cont[k].id)
               /\ \A i \in 1..Len(c.img) : ToSet(c.img[i].conts) = {}

(* An entry e that container list and image list may take. *)
Comes(j, c, e, i) ==
  \/ /\ e.id \in Containers
     /\ e.ccrt => e.img = 0 /\ ~e.own /\ e.blk = Global
  \/ /\ Fresh(j, c) /\ ~e.ccrt /\ Configured(j, e.id)
     /\ i \notin 1..Len(c.img)

(* PIDs do not touch the origin of containers. *)
LEMMA PidAddedOrigins ==
  ASSUME NEW j, NEW c, NEW d, NEW e, NEW k, NEW i, ConfOK(c), Origins(j, c), PidAdded(c, d, e, k, i)
  PROVE  Origins(j, d) /\ (Fresh(j, c) => Fresh(j, d))
<1>1. /\ Len(d.img) = Len(c.img) /\ Len(d.cont) = Len(c.cont) /\ Len(c.cont) \in Nat
      /\ DOMAIN c.cont = 1..Len(c.cont)
  BY ConfFields DEF PidAdded
<1>2. ASSUME NEW x \in 1..Len(c.cont)
      PROVE  /\ d.cont[x].id = c.cont[x].id /\ (d.cont[x].own <=> c.cont[x].own) /\ d.cont[x].blk = c.cont[x].blk
             /\ (d.cont[x].ccrt <=> c.cont[x].ccrt) /\ d.cont[x].img = c.cont[x].img
  BY DEF PidAdded, Same
<1>3. ASSUME NEW x \in 1..Len(c.img)
      PROVE  ToSet(d.img[x].conts) = ToSet(c.img[x].conts)
  BY DEF PidAdded
<1>4. ASSUME NEW x \in 1..Len(d.cont), d.cont[x].ccrt
      PROVE  d.cont[x].id \in Containers /\ d.cont[x].img = 0 /\ ~d.cont[x].own /\ d.cont[x].blk = Global
  BY <1>1, <1>2, <1>4 DEF Origins
<1>5. ASSUME NEW x \in 1..Len(d.cont), d.cont[x].id \notin Containers, NEW y \in 1..x
      PROVE  ~d.cont[y].ccrt /\ Configured(j, d.cont[y].id)
  <2>1. x \in 1..Len(c.cont) /\ y \in 1..Len(c.cont)
    BY <1>1
  <2> QED  BY <1>2, <1>5, <2>1 DEF Origins
<1>6. ASSUME NEW x \in 1..Len(d.img), NEW y \in ToSet(d.img[x].conts)
      PROVE  d.cont[y].id \in Containers
  <2>1. x \in 1..Len(c.img) /\ y \in ToSet(c.img[x].conts) /\ ImgOK(c, c.img[x])
    BY <1>1, <1>3, ConfOKIs
  <2>2. y \in 1..Len(c.cont) /\ c.cont[y].id \in Containers
    BY <1>1, <2>1 DEF ImgOK, Origins
  <2> QED  BY <1>2, <2>2
<1>7. Origins(j, d)
  BY <1>4, <1>5, <1>6 DEF Origins
<1>8. Fresh(j, c) => Fresh(j, d)
  BY <1>1, <1>2, <1>3 DEF Fresh
<1> QED  BY <1>7, <1>8

(* A new container is of the file, before any other, or for an ID. *)
LEMMA ContAddedOrigins ==
  ASSUME NEW j, NEW c, NEW d, NEW e, NEW i, ConfOK(c), Origins(j, c), ContAdded(c, d, e, i), Comes(j, c, e, i)
  PROVE  /\ Origins(j, d)
         /\ Fresh(j, c) /\ ~e.ccrt /\ Configured(j, e.id) /\ i \notin 1..Len(c.img) => Fresh(j, d)
<1> DEFINE n == Len(c.cont) + 1
<1>1. /\ Len(d.img) = Len(c.img) /\ Len(d.cont) = n /\ Len(c.cont) \in Nat
      /\ DOMAIN c.cont = 1..Len(c.cont) /\ d.cont[n] = e
  BY ConfFields DEF ContAdded
<1>2. \A x \in 1..Len(c.cont) : d.cont[x] = c.cont[x]
  BY DEF ContAdded
<1>3. ASSUME NEW x \in 1..Len(c.img)
      PROVE  ToSet(d.img[x].conts) = ToSet(c.img[x].conts) \cup (IF x = i THEN {n} ELSE {})
  BY DEF ContAdded
<1>4. ASSUME NEW x \in 1..Len(d.cont), d.cont[x].ccrt
      PROVE  d.cont[x].id \in Containers /\ d.cont[x].img = 0 /\ ~d.cont[x].own /\ d.cont[x].blk = Global
  <2>1. CASE x = n
    BY <1>1, <1>4, <2>1 DEF Comes
  <2>2. CASE x # n
    <3>1. x \in 1..Len(c.cont) /\ d.cont[x] = c.cont[x]
      BY <1>1, <1>2, <2>2
    <3> QED  BY <1>4, <3>1 DEF Origins
  <2> QED  BY <2>1, <2>2
<1>5. ASSUME NEW x \in 1..Len(d.cont), d.cont[x].id \notin Containers, NEW y \in 1..x
      PROVE  ~d.cont[y].ccrt /\ Configured(j, d.cont[y].id)
  <2>1. CASE x = n
    <3>1. Fresh(j, c) /\ ~e.ccrt /\ Configured(j, e.id)
      BY <1>1, <1>5, <2>1 DEF Comes
    <3>2. CASE y = n
      BY <1>1, <3>1, <3>2
    <3>3. CASE y # n
      <4>1. y \in 1..Len(c.cont) /\ d.cont[y] = c.cont[y]
        BY <1>1, <1>2, <3>3
      <4> QED  BY <3>1, <4>1 DEF Fresh
    <3> QED  BY <3>2, <3>3
  <2>2. CASE x # n
    <3>1. x \in 1..Len(c.cont) /\ y \in 1..Len(c.cont) /\ d.cont[x] = c.cont[x] /\ d.cont[y] = c.cont[y]
      BY <1>1, <1>2, <2>2
    <3> QED  BY <1>5, <3>1 DEF Origins
  <2> QED  BY <2>1, <2>2
<1>6. ASSUME NEW x \in 1..Len(d.img), NEW y \in ToSet(d.img[x].conts)
      PROVE  d.cont[y].id \in Containers
  <2>1. x \in 1..Len(c.img)
    BY <1>1
  <2>2. CASE y \in ToSet(c.img[x].conts)
    <3>1. ImgOK(c, c.img[x])
      BY <2>1, ConfOKIs
    <3>2. y \in 1..Len(c.cont) /\ c.cont[y].id \in Containers
      BY <1>1, <2>1, <2>2, <3>1 DEF ImgOK, Origins
    <3> QED  BY <1>2, <3>2
  <2>3. CASE y \notin ToSet(c.img[x].conts)
    <3>1. x = i /\ y = n
      BY <1>3, <2>1, <2>3
    <3> QED  BY <1>1, <2>1, <3>1 DEF Comes
  <2> QED  BY <2>2, <2>3
<1>7. Origins(j, d)
  BY <1>4, <1>5, <1>6 DEF Origins
<1>8. ASSUME Fresh(j, c), ~e.ccrt, Configured(j, e.id), i \notin 1..Len(c.img) PROVE Fresh(j, d)
  <2>1. ASSUME NEW x \in 1..Len(d.cont) PROVE ~d.cont[x].ccrt /\ Configured(j, d.cont[x].id)
    <3>1. CASE x = n
      BY <1>1, <1>8, <3>1
    <3>2. CASE x # n
      <4>1. x \in 1..Len(c.cont) /\ d.cont[x] = c.cont[x]
        BY <1>1, <1>2, <3>2
      <4> QED  BY <1>8, <4>1 DEF Fresh
    <3> QED  BY <3>1, <3>2
  <2>2. \A x \in 1..Len(d.img) : ToSet(d.img[x].conts) = {}
    BY <1>1, <1>3, <1>8 DEF Fresh
  <2> QED  BY <2>1, <2>2 DEF Fresh
<1> QED  BY <1>7, <1>8

LEMMA ImgAddedOrigins ==
  ASSUME NEW j, NEW c, NEW d, NEW e, Origins(j, c), ImgAdded(c, d, e), ToSet(e.conts) = {}
  PROVE  Origins(j, d) /\ (Fresh(j, c) => Fresh(j, d))
<1>1. /\ Len(d.img) = Len(c.img) + 1 /\ Len(c.img) \in Nat /\ d.cont = c.cont
      /\ d.img[Len(c.img) + 1] = e /\ \A x \in 1..Len(c.img) : d.img[x] = c.img[x]
  BY ConfFields DEF ImgAdded
<1>2. ASSUME NEW x \in 1..Len(d.img)
      PROVE  ToSet(d.img[x].conts) = {} \/ (x \in 1..Len(c.img) /\ d.img[x] = c.img[x])
  <2>1. CASE x = Len(c.img) + 1
    BY <1>1, <2>1
  <2>2. CASE x # Len(c.img) + 1
    BY <1>1, <2>2
  <2> QED  BY <2>1, <2>2
<1>3. Origins(j, d)
  BY <1>1, <1>2 DEF Origins
<1>4. Fresh(j, c) => Fresh(j, d)
  BY <1>1, <1>2 DEF Fresh
<1> QED  BY <1>3, <1>4

LEMMA ImgLearntOrigins ==
  ASSUME NEW j, NEW c, NEW d, NEW k \in 1..Len(c.cont), NEW i \in 1..Len(c.img), ConfOK(c), Origins(j, c),
         ImgLearnt(c, d, k, i), c.cont[k].ccrt
  PROVE  Origins(j, d)
<1>1. /\ Len(d.img) = Len(c.img) /\ Len(d.cont) = Len(c.cont) /\ Len(c.cont) \in Nat
      /\ DOMAIN c.cont = 1..Len(c.cont)
      /\ \A x \in 1..Len(c.cont) : x # k => d.cont[x] = c.cont[x]
      /\ d.cont[k].id = c.cont[k].id /\ ~d.cont[k].ccrt
  BY ConfFields DEF ImgLearnt
<1>2. c.cont[k].id \in Containers
  BY DEF Origins
<1>3. ASSUME NEW x \in 1..Len(d.cont), d.cont[x].ccrt
      PROVE  d.cont[x].id \in Containers /\ d.cont[x].img = 0 /\ ~d.cont[x].own /\ d.cont[x].blk = Global
  <2>1. x # k
    BY <1>1, <1>3
  <2> QED  BY <1>1, <1>3, <2>1 DEF Origins
<1>4. ASSUME NEW x \in 1..Len(d.cont), d.cont[x].id \notin Containers, NEW y \in 1..x
      PROVE  ~d.cont[y].ccrt /\ Configured(j, d.cont[y].id)
  <2>1. x \in 1..Len(c.cont) /\ y \in 1..Len(c.cont) /\ c.cont[x].id = d.cont[x].id
    BY <1>1
  <2>2. ~c.cont[y].ccrt /\ Configured(j, c.cont[y].id)
    BY <1>4, <2>1 DEF Origins
  <2>3. d.cont[y] = c.cont[y]
    BY <1>1, <2>1, <2>2
  <2> QED  BY <2>2, <2>3
<1>5. ASSUME NEW x \in 1..Len(d.img), NEW y \in ToSet(d.img[x].conts)
      PROVE  d.cont[y].id \in Containers
  <2>1. x \in 1..Len(c.img) /\ y \in ToSet(c.img[x].conts) \cup (IF x = i THEN {k} ELSE {})
    BY <1>1 DEF ImgLearnt
  <2>2. CASE y \in ToSet(c.img[x].conts)
    <3>1. ImgOK(c, c.img[x])
      BY <2>1, ConfOKIs
    <3>2. y \in 1..Len(c.cont) /\ c.cont[y].id \in Containers
      BY <1>1, <2>1, <2>2, <3>1 DEF ImgOK, Origins
    <3> QED  BY <1>1, <3>2
  <2>3. CASE y = k
    BY <1>1, <1>2, <2>3
  <2> QED  BY <2>1, <2>2, <2>3
<1> QED  BY <1>3, <1>4, <1>5 DEF Origins

(***************************************************************************)
(* Where PIDs and containers are listed.                                   *)
(***************************************************************************)
LEMMA PidAddedPlaces ==
  ASSUME NEW j, NEW c, NEW d, NEW e, NEW k, NEW i, ConfOK(c), Placing(j, c), PidAdded(c, d, e, k, i),
         k \in 1..Len(c.cont) => e.cont \in {0, k} /\ e.img = 0, i \in 1..Len(c.img) => e.cont = -i
  PROVE  Placing(j, d)
<1> DEFINE n == Len(c.pid) + 1
<1>1. /\ Len(d.img) = Len(c.img) /\ Len(d.cont) = Len(c.cont) /\ Len(d.pid) = n /\ d.pid[n] = e
      /\ DOMAIN c.pid = 1..Len(c.pid) /\ DOMAIN c.img = 1..Len(c.img) /\ Len(c.pid) \in Nat
      /\ Len(c.img) \in Nat
  BY ConfFields DEF PidAdded
<1>2. \A p \in DOMAIN c.pid : d.pid[p] = c.pid[p]
  BY <1>1 DEF PidAdded
<1>3. ASSUME NEW x \in 1..Len(d.cont), NEW p \in ToSet(d.cont[x].pids)
      PROVE  d.pid[p].cont \in {0, x} /\ d.pid[p].img = 0
  <2>1. x \in 1..Len(c.cont) /\ p \in ToSet(c.cont[x].pids) \cup (IF x = k THEN {n} ELSE {})
    BY <1>1 DEF PidAdded
  <2>2. CASE p \in ToSet(c.cont[x].pids)
    <3>1. ContOK(c, c.cont[x])
      BY <2>1, ConfOKIs
    <3>2. p \in DOMAIN c.pid /\ c.pid[p].cont \in {0, x} /\ c.pid[p].img = 0
      BY <2>1, <2>2, <3>1 DEF ContOK, Placing
    <3> QED  BY <1>2, <3>2
  <2>3. CASE x = k /\ p = n
    BY <1>1, <2>1, <2>3
  <2> QED  BY <2>1, <2>2, <2>3
<1>4. ASSUME NEW x \in 1..Len(d.img), NEW p \in ToSet(d.img[x].pids) PROVE d.pid[p].cont = -x
  <2>1. x \in 1..Len(c.img) /\ p \in ToSet(c.img[x].pids) \cup (IF x = i THEN {n} ELSE {})
    BY <1>1 DEF PidAdded
  <2>2. CASE p \in ToSet(c.img[x].pids)
    <3>1. ImgOK(c, c.img[x])
      BY <2>1, ConfOKIs
    <3>2. p \in DOMAIN c.pid /\ c.pid[p].cont = -x
      BY <2>1, <2>2, <3>1 DEF ImgOK, Placing
    <3> QED  BY <1>2, <3>2
  <2>3. CASE x = i /\ p = n
    BY <1>1, <2>1, <2>3
  <2> QED  BY <2>1, <2>2, <2>3
<1>5. ASSUME NEW x \in 1..Len(d.cont), d.cont[x].img # 0
      PROVE  Belongs(j, d.img[d.cont[x].img].id, d.cont[x].id)
  <2>1. x \in 1..Len(c.cont) /\ d.cont[x].img = c.cont[x].img /\ d.cont[x].id = c.cont[x].id
    BY <1>1 DEF PidAdded, Same
  <2>2. PICK y : y = c.cont[x].img
    OBVIOUS
  <2>3. y \in 1..Len(c.img)
    <3>1. ContOK(c, c.cont[x])
      BY <2>1, ConfOKIs
    <3> QED  BY <1>1, <1>5, <2>1, <2>2, <3>1 DEF ContOK
  <2>4. d.img[y].id = c.img[y].id
    BY <2>3 DEF PidAdded, Same
  <2>5. Belongs(j, c.img[y].id, c.cont[x].id)
    BY <1>5, <2>1, <2>2 DEF Placing
  <2> QED  BY <2>1, <2>2, <2>4, <2>5
<1> QED  BY <1>3, <1>4, <1>5 DEF Placing

LEMMA ContAddedPlaces ==
  ASSUME NEW j, NEW c, NEW d, NEW e, NEW i, ConfOK(c), Placing(j, c), ContAdded(c, d, e, i), ContOK(c, e),
         \A p \in ToSet(e.pids) : c.pid[p].cont = 0 /\ c.pid[p].img = 0,
         e.img # 0 => Belongs(j, c.img[e.img].id, e.id)
  PROVE  Placing(j, d)
<1> DEFINE n == Len(c.cont) + 1
<1>1. /\ Len(d.img) = Len(c.img) /\ Len(d.cont) = n /\ d.pid = c.pid /\ d.cont[n] = e
      /\ DOMAIN c.cont = 1..Len(c.cont) /\ DOMAIN c.img = 1..Len(c.img) /\ Len(c.cont) \in Nat
      /\ Len(c.img) \in Nat
  BY ConfFields DEF ContAdded
<1>2. \A x \in 1..Len(c.cont) : d.cont[x] = c.cont[x]
  BY DEF ContAdded
<1>3. ASSUME NEW x \in 1..Len(d.cont), NEW p \in ToSet(d.cont[x].pids)
      PROVE  d.pid[p].cont \in {0, x} /\ d.pid[p].img = 0
  <2>1. CASE x = n
    BY <1>1, <1>3, <2>1
  <2>2. CASE x # n
    <3>1. x \in 1..Len(c.cont) /\ d.cont[x] = c.cont[x]
      BY <1>1, <1>2, <2>2
    <3> QED  BY <1>1, <3>1 DEF Placing
  <2> QED  BY <2>1, <2>2
<1>4. ASSUME NEW x \in 1..Len(d.img), NEW p \in ToSet(d.img[x].pids) PROVE d.pid[p].cont = -x
  BY <1>1 DEF ContAdded, Placing
<1>5. ASSUME NEW x \in 1..Len(d.cont), d.cont[x].img # 0
      PROVE  Belongs(j, d.img[d.cont[x].img].id, d.cont[x].id)
  <2>1. PICK y : y = d.cont[x].img
    OBVIOUS
  <2>2. PICK m : m = d.cont[x].id
    OBVIOUS
  <2>3. y \in 1..Len(c.img) /\ Belongs(j, c.img[y].id, m)
    <3>1. CASE x = n
      BY <1>1, <1>5, <2>1, <2>2, <3>1 DEF ContOK
    <3>2. CASE x # n
      <4>1. x \in 1..Len(c.cont) /\ d.cont[x] = c.cont[x]
        BY <1>1, <1>2, <3>2
      <4>2. ContOK(c, c.cont[x])
        BY <4>1, ConfOKIs
      <4>3. y \in 1..Len(c.img)
        BY <1>1, <1>5, <2>1, <4>1, <4>2 DEF ContOK
      <4> QED  BY <1>5, <2>1, <2>2, <4>1, <4>3 DEF Placing
    <3> QED  BY <3>1, <3>2
  <2>4. d.img[y].id = c.img[y].id
    BY <2>3 DEF ContAdded, Same
  <2> QED  BY <2>1, <2>2, <2>3, <2>4
<1> QED  BY <1>3, <1>4, <1>5 DEF Placing

LEMMA ImgAddedPlaces ==
  ASSUME NEW j, NEW c, NEW d, NEW e, ConfOK(c), Placing(j, c), ImgAdded(c, d, e), ToSet(e.pids) = {}
  PROVE  Placing(j, d)
<1>1. /\ Len(d.img) = Len(c.img) + 1 /\ Len(c.img) \in Nat /\ d.cont = c.cont /\ d.pid = c.pid
      /\ d.img[Len(c.img) + 1] = e /\ DOMAIN c.img = 1..Len(c.img)
  BY ConfFields DEF ImgAdded
<1>2. \A x \in 1..Len(c.img) : d.img[x] = c.img[x]
  BY DEF ImgAdded
<1>3. ASSUME NEW x \in 1..Len(d.cont), NEW p \in ToSet(d.cont[x].pids)
      PROVE  d.pid[p].cont \in {0, x} /\ d.pid[p].img = 0
  BY <1>1 DEF Placing
<1>4. ASSUME NEW x \in 1..Len(d.img), NEW p \in ToSet(d.img[x].pids) PROVE d.pid[p].cont = -x
  <2>1. x # Len(c.img) + 1
    BY <1>1
  <2>2. x \in 1..Len(c.img) /\ d.img[x] = c.img[x]
    BY <1>1, <1>2, <2>1
  <2> QED  BY <1>1, <2>2 DEF Placing
<1>5. ASSUME NEW x \in 1..Len(d.cont), d.cont[x].img # 0
      PROVE  Belongs(j, d.img[d.cont[x].img].id, d.cont[x].id)
  <2>1. PICK y : y = c.cont[x].img
    OBVIOUS
  <2>2. ContOK(c, c.cont[x])
    BY <1>1, ConfOKIs
  <2>3. y \in 1..Len(c.img)
    BY <1>1, <1>5, <2>1, <2>2 DEF ContOK
  <2>4. d.img[y] = c.img[y] /\ Belongs(j, c.img[y].id, c.cont[x].id)
    BY <1>1, <1>2, <1>5, <2>1, <2>3 DEF Placing
  <2> QED  BY <1>1, <2>1, <2>4
<1> QED  BY <1>3, <1>4, <1>5 DEF Placing

LEMMA ImgLearntPlaces ==
  ASSUME NEW j, NEW c, NEW d, NEW k \in 1..Len(c.cont), NEW i \in 1..Len(c.img), ConfOK(c), Placing(j, c),
         ImgLearnt(c, d, k, i), Belongs(j, c.img[i].id, c.cont[k].id)
  PROVE  Placing(j, d)
<1>1. /\ Len(d.img) = Len(c.img) /\ Len(d.cont) = Len(c.cont) /\ d.pid = c.pid
      /\ DOMAIN c.img = 1..Len(c.img) /\ Len(c.img) \in Nat
      /\ \A x \in 1..Len(c.cont) : x # k => d.cont[x] = c.cont[x]
      /\ d.cont[k].id = c.cont[k].id /\ d.cont[k].img = i /\ d.cont[k].pids = c.cont[k].pids
  BY ConfFields DEF ImgLearnt
<1>2. \A x \in 1..Len(c.img) : d.img[x].id = c.img[x].id /\ ToSet(d.img[x].pids) = ToSet(c.img[x].pids)
  BY DEF ImgLearnt, Same
<1>3. ASSUME NEW x \in 1..Len(d.cont), NEW p \in ToSet(d.cont[x].pids)
      PROVE  d.pid[p].cont \in {0, x} /\ d.pid[p].img = 0
  <2>1. d.cont[x].pids = c.cont[x].pids
    BY <1>1
  <2> QED  BY <1>1, <2>1 DEF Placing
<1>4. ASSUME NEW x \in 1..Len(d.img), NEW p \in ToSet(d.img[x].pids) PROVE d.pid[p].cont = -x
  BY <1>1, <1>2 DEF Placing
<1>5. ASSUME NEW x \in 1..Len(d.cont), d.cont[x].img # 0
      PROVE  Belongs(j, d.img[d.cont[x].img].id, d.cont[x].id)
  <2>1. CASE x = k
    <3>1. d.img[i].id = c.img[i].id
      BY <1>2
    <3> QED  BY <1>1, <2>1, <3>1
  <2>2. CASE x # k
    <3>0. d.cont[x] = c.cont[x]
      BY <1>1, <2>2
    <3>1. PICK y : y = c.cont[x].img
      OBVIOUS
    <3>2. ContOK(c, c.cont[x])
      BY <1>1, ConfOKIs
    <3>3. y \in 1..Len(c.img)
      BY <1>1, <1>5, <3>0, <3>1, <3>2 DEF ContOK
    <3>4. d.img[y].id = c.img[y].id /\ Belongs(j, c.img[y].id, c.cont[x].id)
      BY <1>1, <1>2, <1>5, <3>0, <3>1, <3>3 DEF Placing
    <3> QED  BY <3>0, <3>1, <3>4
  <2> QED  BY <2>1, <2>2
<1> QED  BY <1>3, <1>4, <1>5 DEF Placing

(***************************************************************************)
(* The invariant of the configuration, and what no change takes back.      *)
(***************************************************************************)
Good(j, c) ==
  /\ ConfOK(c) /\ Owning(c) /\ Origins(j, c)
  /\ LoosePids(j) \/ Linking(c)
  /\ NestedPids(j) \/ Placing(j, c)

(* Entries of c are in d the same; only a container that had the global
   settings may have others. *)
Kept(c, d) ==
  /\ Len(d.img) = Len(c.img) /\ Len(c.cont) <= Len(d.cont) /\ Len(c.pid) <= Len(d.pid)
  /\ \A p \in 1..Len(c.pid) : d.pid[p] = c.pid[p]
  /\ \A x \in 1..Len(c.img) : d.img[x].id = c.img[x].id
  /\ \A x \in 1..Len(c.cont) : /\ d.cont[x].id = c.cont[x].id
                               /\ d.cont[x].blk = c.cont[x].blk \/ c.cont[x].blk = Global

LEMMA KeptSame == ASSUME NEW c \in Confs PROVE Kept(c, c)
  BY ConfFields DEF Kept

LEMMA KeptTwice ==
  ASSUME NEW b \in Confs, NEW c \in Confs, NEW d \in Confs, Kept(b, c), Kept(c, d)
  PROVE  Kept(b, d)
<1>1. /\ Len(b.cont) \in Nat /\ Len(c.cont) \in Nat /\ Len(d.cont) \in Nat
      /\ Len(b.pid) \in Nat /\ Len(c.pid) \in Nat /\ Len(d.pid) \in Nat
  BY ConfFields
<1>2. /\ Len(d.img) = Len(b.img) /\ Len(b.cont) <= Len(d.cont) /\ Len(b.pid) <= Len(d.pid)
  BY <1>1 DEF Kept
<1>3. ASSUME NEW p \in 1..Len(b.pid) PROVE d.pid[p] = b.pid[p]
  <2>1. p \in 1..Len(c.pid)
    BY <1>1 DEF Kept
  <2> QED  BY <2>1 DEF Kept
<1>4. \A x \in 1..Len(b.img) : d.img[x].id = b.img[x].id
  BY DEF Kept
<1>5. ASSUME NEW x \in 1..Len(b.cont)
      PROVE  d.cont[x].id = b.cont[x].id /\ (d.cont[x].blk = b.cont[x].blk \/ b.cont[x].blk = Global)
  <2>1. x \in 1..Len(c.cont)
    BY <1>1 DEF Kept
  <2> QED  BY <2>1 DEF Kept
<1> QED  BY <1>2, <1>3, <1>4, <1>5 DEF Kept

(* A PID that points at what learns of it keeps the invariant. *)
LEMMA PidAddedGood ==
  ASSUME NEW j, NEW c, NEW d, NEW e, NEW k, NEW i, Good(j, c), PidAdded(c, d, e, k, i),
         PidOK(c, e), Brings(c, e, <<"pid", Len(c.pid) + 1>>),
         LoosePids(j) \/ e.cont # 0,
         LoosePids(j) \/ (k \in 1..Len(c.cont) => e.cont = k),
         LoosePids(j) \/ (i \in 1..Len(c.img) => e.img = i),
         NestedPids(j) \/ (k \in 1..Len(c.cont) => e.cont \in {0, k} /\ e.img = 0),
         NestedPids(j) \/ (i \in 1..Len(c.img) => e.cont = -i)
  PROVE  Good(j, d) /\ Kept(c, d) /\ (Fresh(j, c) => Fresh(j, d))
<1>1. ConfOK(c) /\ Owning(c) /\ Origins(j, c)
  BY DEF Good
<1>2. ConfOK(d)
  BY <1>1, PidAddedOK
<1>3. Owning(d)
  BY <1>1, PidAddedOwners
<1>4. Origins(j, d) /\ (Fresh(j, c) => Fresh(j, d))
  BY <1>1, PidAddedOrigins
<1>5. LoosePids(j) \/ Linking(d)
  <2>1. CASE LoosePids(j)
    BY <2>1
  <2>2. CASE ~LoosePids(j)
    <3>1. Linking(c) /\ e.cont # 0 /\ (k \in 1..Len(c.cont) => e.cont = k) /\ (i \in 1..Len(c.img) => e.img = i)
      BY <2>2 DEF Good
    <3> QED  BY <1>1, <3>1, PidAddedLinks
  <2> QED  BY <2>1, <2>2
<1>6. NestedPids(j) \/ Placing(j, d)
  <2>1. CASE NestedPids(j)
    BY <2>1
  <2>2. CASE ~NestedPids(j)
    <3>1. /\ Placing(j, c) /\ (k \in 1..Len(c.cont) => e.cont \in {0, k} /\ e.img = 0)
          /\ (i \in 1..Len(c.img) => e.cont = -i)
      BY <2>2 DEF Good
    <3> QED  BY <1>1, <3>1, PidAddedPlaces
  <2> QED  BY <2>1, <2>2
<1>7. Kept(c, d)
  BY ConfFields DEF PidAdded, Kept, Same
<1> QED  BY <1>2, <1>3, <1>4, <1>5, <1>6, <1>7 DEF Good

(* A container that comes by itself, its PIDs come later. *)
LEMMA ContAddedGood ==
  ASSUME NEW j, NEW c, NEW d, NEW e, NEW i, Good(j, c), ContAdded(c, d, e, i),
         ContOK(c, e), Brings(c, e, <<"cont", Len(c.cont) + 1>>), Comes(j, c, e, i),
         LoosePids(j) \/ (ToSet(e.pids) = {} /\ (i \in 1..Len(c.img) => e.img = i)),
         NestedPids(j) \/ (/\ \A p \in ToSet(e.pids) : c.pid[p].cont = 0 /\ c.pid[p].img = 0
                           /\ e.img # 0 => Belongs(j, c.img[e.img].id, e.id))
  PROVE  Good(j, d) /\ Kept(c, d)
<1>1. ConfOK(c) /\ Owning(c) /\ Origins(j, c)
  BY DEF Good
<1>2. ConfOK(d)
  BY <1>1, ContAddedOK
<1>3. Owning(d)
  BY <1>1, ContAddedOwners
<1>4. Origins(j, d)
  BY <1>1, ContAddedOrigins
<1>5. LoosePids(j) \/ Linking(d)
  <2>1. CASE LoosePids(j)
    BY <2>1
  <2>2. CASE ~LoosePids(j)
    <3>1. Linking(c) /\ ToSet(e.pids) = {} /\ (i \in 1..Len(c.img) => e.img = i)
      BY <2>2 DEF Good
    <3> QED  BY <1>1, <3>1, ContAddedLinks
  <2> QED  BY <2>1, <2>2
<1>6. NestedPids(j) \/ Placing(j, d)
  <2>1. CASE NestedPids(j)
    BY <2>1
  <2>2. CASE ~NestedPids(j)
    <3>1. /\ Placing(j, c) /\ \A p \in ToSet(e.pids) : c.pid[p].cont = 0 /\ c.pid[p].img = 0
      BY <2>2 DEF Good
    <3>2. e.img # 0 => Belongs(j, c.img[e.img].id, e.id)
      BY <2>2
    <3> QED  BY <1>1, <3>1, <3>2, ContAddedPlaces
  <2> QED  BY <2>1, <2>2
<1>7. Kept(c, d)
  BY ConfFields DEF ContAdded, Kept, Same
<1> QED  BY <1>2, <1>3, <1>4, <1>5, <1>6, <1>7 DEF Good

(* An image that comes without containers. *)
LEMMA ImgAddedGood ==
  ASSUME NEW j, NEW c, NEW d, NEW e, Good(j, c), Fresh(j, c), ImgAdded(c, d, e),
         Brings(c, e, <<"img", Len(c.img) + 1>>), ToSet(e.pids) = {}, ToSet(e.conts) = {}
  PROVE  Good(j, d) /\ Fresh(j, d)
<1>1. ConfOK(c) /\ Owning(c) /\ Origins(j, c)
  BY DEF Good
<1>2. ConfOK(d)
  BY <1>1, ImgAddedOK DEF ImgOK
<1>3. Owning(d)
  BY <1>1, ImgAddedOwners
<1>4. Origins(j, d) /\ Fresh(j, d)
  BY <1>1, ImgAddedOrigins
<1>5. LoosePids(j) \/ Linking(d)
  BY <1>1, ImgAddedLinks DEF Good
<1>6. NestedPids(j) \/ Placing(j, d)
  BY <1>1, ImgAddedPlaces DEF Good
<1> QED  BY <1>2, <1>3, <1>4, <1>5, <1>6 DEF Good

(* An image learns of a container that points at it. *)
LEMMA ImgLearntGood ==
  ASSUME NEW j, NEW c, NEW d, NEW k \in 1..Len(c.cont), NEW i \in 1..Len(c.img), Good(j, c),
         ImgLearnt(c, d, k, i), c.cont[k].ccrt, NestedPids(j) \/ Belongs(j, c.img[i].id, c.cont[k].id)
  PROVE  Good(j, d) /\ Kept(c, d)
<1>1. ConfOK(c) /\ Owning(c) /\ Origins(j, c)
  BY DEF Good
<1>0. c.cont[k].img = 0 /\ ~c.cont[k].own /\ c.cont[k].blk = Global
  BY <1>1 DEF Origins
<1>2. ConfOK(d)
  BY <1>1, ImgLearntOK
<1>3. Owning(d)
  BY <1>0, <1>1, ImgLearntOwners
<1>4. Origins(j, d)
  BY <1>1, ImgLearntOrigins
<1>5. LoosePids(j) \/ Linking(d)
  BY <1>0, <1>1, ImgLearntLinks DEF Good
<1>6. NestedPids(j) \/ Placing(j, d)
  BY <1>1, ImgLearntPlaces DEF Good
<1>7. Kept(c, d)
  <2>1. /\ Len(d.img) = Len(c.img) /\ Len(d.cont) = Len(c.cont) /\ d.pid = c.pid
        /\ \A x \in 1..Len(c.cont) : x # k => d.cont[x] = c.cont[x]
        /\ d.cont[k].id = c.cont[k].id /\ \A x \in 1..Len(c.img) : d.img[x].id = c.img[x].id
        /\ Len(c.cont) \in Nat /\ Len(c.pid) \in Nat
    BY ConfFields DEF ImgLearnt, Same
  <2> QED  BY <1>0, <2>1 DEF Kept
<1> QED  BY <1>2, <1>3, <1>4, <1>5, <1>6, <1>7 DEF Good

(***************************************************************************)
(* Reading the file.                                                       *)
(***************************************************************************)
LEMMA SectionFacts ==
  ASSUME NEW set \in STRING, NEW at \in {"global", "img", "cont", "pid"} \X Nat, NEW parent \in Blocks
  PROVE  /\ Section(set, at, parent) \in Blocks
         /\ set # None => Section(set, at, parent).at = at
         /\ set = None => Section(set, at, parent) = parent
  BY DEF Section, Blocks, Settings, Text

LEMMA GlobalFacts == Global \in Blocks /\ \A c : Owner(c, Global.at)
<1>1. Global \in Blocks
  <2>1. <<"global", 0>> \in {"global", "img", "cont", "pid"} \X Nat
    OBVIOUS
  <2>2. "global" \in Settings
    BY DEF Settings
  <2> QED  BY <2>1, <2>2, Zenon DEF Global, Blocks
<1>2. \A c : Owner(c, Global.at)
  BY DEF Owner
<1> QED  BY <1>1, <1>2

(* Types of the entries, and that blocks have an owner. *)
LEMMA GoodFacts ==
  ASSUME NEW j, NEW c, Good(j, c)
  PROVE  /\ c \in Confs /\ Len(c.img) \in Nat /\ Len(c.cont) \in Nat /\ Len(c.pid) \in Nat
         /\ \A i \in 1..Len(c.img) : c.img[i] \in Images /\ c.img[i].blk \in Blocks /\ Owner(c, c.img[i].blk.at)
         /\ \A k \in 1..Len(c.cont) : c.cont[k] \in Conts /\ c.cont[k].blk \in Blocks /\ Owner(c, c.cont[k].blk.at)
         /\ \A p \in 1..Len(c.pid) : c.pid[p] \in Entries /\ c.pid[p].blk \in Blocks /\ Owner(c, c.pid[p].blk.at)
<1>1. c \in Confs /\ Owning(c)
  BY DEF Good, ConfOK
<1>2. ASSUME NEW i \in 1..Len(c.img) PROVE c.img[i] \in Images /\ c.img[i].blk \in Blocks /\ Owner(c, c.img[i].blk.at)
  <2>1. c.img[i] \in Images
    BY <1>1, ConfFields
  <2> QED  BY <1>1, <2>1 DEF Images, Owning
<1>3. ASSUME NEW k \in 1..Len(c.cont) PROVE c.cont[k] \in Conts /\ c.cont[k].blk \in Blocks /\ Owner(c, c.cont[k].blk.at)
  <2>1. c.cont[k] \in Conts
    BY <1>1, ConfFields
  <2> QED  BY <1>1, <2>1 DEF Conts, Owning
<1>4. ASSUME NEW p \in 1..Len(c.pid) PROVE c.pid[p] \in Entries /\ c.pid[p].blk \in Blocks /\ Owner(c, c.pid[p].blk.at)
  <2>1. c.pid[p] \in Entries
    BY <1>1, ConfFields
  <2> QED  BY <1>1, <2>1 DEF Entries, Owning
<1> QED  BY <1>1, <1>2, <1>3, <1>4, ConfFields

(* d comes of c by adding PIDs. *)
MorePids(j, c, d) == /\ Good(j, d) /\ Kept(c, d) /\ Len(d.cont) = Len(c.cont)
                     /\ Fresh(j, c) => Fresh(j, d)

(* parse_pid_data(): for a container, an image, or neither. *)
LEMMA AddPidGood ==
  ASSUME NEW j, NEW c, NEW s \in PidSections, NEW k \in 0..Len(c.cont), NEW i \in 0..Len(c.img), Good(j, c),
         LoosePids(j) \/ k # 0 \/ i # 0, NestedPids(j) \/ k = 0 \/ i = 0
  PROVE  MorePids(j, c, AddPid(c, s, k, i))
<1> DEFINE n == Len(c.pid) + 1
           parent == IF k # 0 THEN c.cont[k].blk ELSE IF i # 0 THEN c.img[i].blk ELSE Global
           blk == Section(s.set, <<"pid", n>>, parent)
           at == IF k # 0 THEN k ELSE -i
           e == [sig |-> s.cmd, own |-> s.set # None, blk |-> blk, cont |-> at, img |-> i]
           y == IF k # 0 THEN 0 ELSE i
           d == AddPid(c, s, k, i)
<1>1. d = NewPid(c, e, k, y)
  BY DEF AddPid
<1>2. /\ c \in Confs /\ Len(c.img) \in Nat /\ Len(c.cont) \in Nat /\ Len(c.pid) \in Nat
      /\ s.set \in STRING /\ s.cmd \in Cmds /\ n \in Nat
  BY GoodFacts DEF PidSections
<1>3. parent \in Blocks /\ Owner(c, parent.at)
  <2>1. CASE k # 0
    <3>1. k \in 1..Len(c.cont)
      BY <1>2, <2>1
    <3> QED  BY <2>1, <3>1, GoodFacts
  <2>2. CASE k = 0 /\ i # 0
    <3>1. i \in 1..Len(c.img)
      BY <1>2, <2>2
    <3> QED  BY <2>2, <3>1, GoodFacts
  <2>3. CASE k = 0 /\ i = 0
    BY <2>3, GlobalFacts
  <2> QED  BY <2>1, <2>2, <2>3
<1>4. <<"pid", n>> \in {"global", "img", "cont", "pid"} \X Nat
  BY <1>2
<1> HIDE DEF parent, n
<1>5. /\ blk \in Blocks /\ (s.set # None => blk.at = <<"pid", n>>)
      /\ (s.set = None => blk = parent)
  BY <1>2, <1>3, <1>4, SectionFacts
<1>50. at \in Int /\ i \in Nat
  BY <1>2
<1> HIDE DEF blk, at
<1>6. /\ e \in Entries /\ e.cont = at /\ e.img = i /\ e.blk = blk
      /\ (e.own <=> s.set # None)
  BY <1>2, <1>5, <1>50 DEF Entries
<1>7. DOMAIN c.img = 1..Len(c.img) /\ DOMAIN c.cont = 1..Len(c.cont)
  BY <1>2, ConfFields
<1> HIDE DEF e, d, at
<1>8. PidAdded(c, d, e, k, y)
  BY <1>1, <1>2, <1>6, NewPidFacts
<1>9. PidOK(c, e)
  BY <1>2, <1>6 DEF PidOK, at
<1>10. Brings(c, e, <<"pid", n>>)
  BY <1>3, <1>5, <1>6 DEF Brings
<1>11. LoosePids(j) \/ e.cont # 0
  BY <1>2, <1>6 DEF at
<1>12. (k \in 1..Len(c.cont) => e.cont = k) /\ (y \in 1..Len(c.img) => e.img = y)
  BY <1>2, <1>6 DEF at
<1>13. /\ NestedPids(j) \/ (k \in 1..Len(c.cont) => e.cont \in {0, k} /\ e.img = 0)
       /\ y \in 1..Len(c.img) => e.cont = -y
  BY <1>2, <1>6 DEF at
<1> HIDE DEF y
<1>14. Good(j, d) /\ Kept(c, d) /\ (Fresh(j, c) => Fresh(j, d))
  BY <1>8, <1>9, <1>10, <1>11, <1>12, <1>13, PidAddedGood DEF n
<1>15. Len(d.cont) = Len(c.cont)
  BY <1>8 DEF PidAdded
<1> QED  BY <1>14, <1>15 DEF MorePids, d

LEMMA GoodIsConf == ASSUME NEW j, NEW c, Good(j, c) PROVE c \in Confs
  BY DEF Good, ConfOK

LEMMA AddPidsGood ==
  ASSUME NEW j, NEW c, NEW s \in Seq(PidSections), NEW k \in 0..Len(c.cont), NEW i \in 0..Len(c.img), Good(j, c),
         s = << >> \/ LoosePids(j) \/ k # 0 \/ i # 0, s = << >> \/ NestedPids(j) \/ k = 0 \/ i = 0
  PROVE  MorePids(j, c, AddPids(c, s, k, i))
<1> DEFINE V == {d \in Confs : MorePids(j, c, d)}
<1>1. c \in V
  BY GoodIsConf, KeptSame DEF MorePids
<1>2. Len(s) \in Nat
  OBVIOUS
<1>3. ASSUME NEW d \in V, NEW m \in 1..Len(s) PROVE AddPid(d, s[m], k, i) \in V
  <2>1. s[m] \in PidSections /\ s # << >>
    OBVIOUS
  <2>2. Good(j, d) /\ Kept(c, d) /\ Len(d.cont) = Len(c.cont) /\ d \in Confs
    BY DEF MorePids
  <2>3. k \in 0..Len(d.cont) /\ i \in 0..Len(d.img)
    BY <2>2 DEF Kept
  <2>4. PICK t : t = s[m]
    OBVIOUS
  <2>5. PICK a : a = AddPid(d, t, k, i)
    OBVIOUS
  <2>6. MorePids(j, d, a)
    <3> HIDE DEF V
    <3> QED  BY <2>1, <2>2, <2>3, <2>4, <2>5, AddPidGood
  <2>7. Good(j, a) /\ Kept(d, a) /\ a \in Confs
    BY <2>6, GoodIsConf DEF MorePids
  <2>8. Kept(c, a)
    BY <2>2, <2>7, KeptTwice, GoodIsConf
  <2>9. a \in V
    BY <2>2, <2>6, <2>7, <2>8 DEF MorePids
  <2> QED  BY <2>4, <2>5, <2>9
<1> HIDE DEF V
<1>4. AddPids(c, s, k, i) \in V
  BY <1>1, <1>2, <1>3, AddPidsLoop
<1> QED  BY <1>4 DEF V

MoreConts(j, c, d) == Good(j, d) /\ Fresh(j, d) /\ Kept(c, d)

(* parse_container_data(): the container, then its PIDs. *)
LEMMA AddContGood ==
  ASSUME NEW j, NEW c, NEW s \in ContSections, NEW i \in 0..Len(c.img), Good(j, c), Fresh(j, c),
         Configured(j, s.id), i = 0 \/ PutInto(j, c.img[i].id, {s.id}),
         i = 0 \/ NestedPids(j) \/ s.pids = << >>
  PROVE  MoreConts(j, c, AddCont(c, s, i))
<1> DEFINE n == Len(c.cont) + 1
           parent == IF i # 0 THEN c.img[i].blk ELSE Global
           blk == Section(s.set, <<"cont", n>>, parent)
           e == [id |-> s.id, own |-> s.set # None, ccrt |-> FALSE, blk |-> blk, pids |-> << >>, img |-> i]
           b == NewCont(c, e)
           d == AddCont(c, s, i)
<1>1. d = AddPids(b, s.pids, n, i)
  BY DEF AddCont
<1>2. /\ c \in Confs /\ Len(c.img) \in Nat /\ Len(c.cont) \in Nat
      /\ s.set \in STRING /\ s.id \in Text /\ s.pids \in Seq(PidSections) /\ n \in Nat /\ i \in Nat
  BY GoodFacts DEF ContSections
<1>3. parent \in Blocks /\ Owner(c, parent.at)
  <2>1. CASE i # 0
    <3>1. i \in 1..Len(c.img)
      BY <1>2, <2>1
    <3> QED  BY <2>1, <3>1, GoodFacts
  <2>2. CASE i = 0
    BY <2>2, GlobalFacts
  <2> QED  BY <2>1, <2>2
<1>4. <<"cont", n>> \in {"global", "img", "cont", "pid"} \X Nat
  BY <1>2
<1> HIDE DEF parent, n
<1>5. /\ blk \in Blocks /\ (s.set # None => blk.at = <<"cont", n>>)
      /\ (s.set = None => blk = parent)
  BY <1>2, <1>3, <1>4, SectionFacts
<1> HIDE DEF blk
<1>6. << >> \in Seq(Nat)
  OBVIOUS
<1>7. /\ e \in Conts /\ e.id = s.id /\ ~e.ccrt /\ e.img = i /\ e.blk = blk /\ e.pids = << >>
      /\ (e.own <=> s.set # None)
  BY <1>2, <1>5, <1>6 DEF Conts
<1> HIDE DEF e
<1>8. ContAdded(c, b, e, 0)
  BY <1>2, <1>7, NewContFacts
<1> HIDE DEF b, d
<1>9. ContOK(c, e) /\ ToSet(e.pids) = {}
  BY <1>2, <1>7, ToSetEmpty DEF ContOK
<1>10. Brings(c, e, <<"cont", n>>)
  BY <1>3, <1>5, <1>7 DEF Brings
<1>11. 0 \notin 1..Len(c.img)
  OBVIOUS
<1>12. Comes(j, c, e, 0)
  BY <1>7, <1>11 DEF Comes
<1>13. e.img # 0 => Belongs(j, c.img[e.img].id, e.id)
  BY <1>7 DEF Belongs
<1>14. Good(j, b) /\ Kept(c, b)
  BY <1>8, <1>9, <1>10, <1>11, <1>12, <1>13, ContAddedGood DEF n
<1>15. Fresh(j, b)
  <2>1. ConfOK(c) /\ Origins(j, c)
    BY DEF Good
  <2> QED  BY <1>7, <1>8, <1>11, <1>12, <2>1, ContAddedOrigins
<1>16. Len(b.cont) = n /\ Len(b.img) = Len(c.img) /\ n # 0 /\ n \in 0..Len(b.cont) /\ i \in 0..Len(b.img)
  BY <1>2, <1>8 DEF ContAdded, n
<1>17. MorePids(j, b, d)
  BY <1>1, <1>2, <1>14, <1>16, AddPidsGood
<1>18. Good(j, d) /\ Kept(b, d) /\ Fresh(j, d)
  BY <1>15, <1>17 DEF MorePids
<1>19. Kept(c, d)
  BY <1>2, <1>14, <1>18, KeptTwice, GoodIsConf
<1> QED  BY <1>18, <1>19 DEF MoreConts, d

LEMMA AddContsGood ==
  ASSUME NEW j, NEW c, NEW s \in Seq(ContSections), NEW i \in 0..Len(c.img), Good(j, c), Fresh(j, c),
         \A m \in 1..Len(s) : /\ Configured(j, s[m].id)
                              /\ i = 0 \/ PutInto(j, c.img[i].id, {s[m].id})
                              /\ i = 0 \/ NestedPids(j) \/ s[m].pids = << >>
  PROVE  MoreConts(j, c, AddConts(c, s, i))
<1> DEFINE V == {d \in Confs : MoreConts(j, c, d)}
<1>1. c \in V
  BY GoodIsConf, KeptSame DEF MoreConts
<1>2. Len(s) \in Nat
  OBVIOUS
<1>3. ASSUME NEW d \in V, NEW m \in 1..Len(s) PROVE AddCont(d, s[m], i) \in V
  <2>1. s[m] \in ContSections
    OBVIOUS
  <2>2. Good(j, d) /\ Fresh(j, d) /\ Kept(c, d) /\ d \in Confs
    BY DEF MoreConts
  <2>3. i \in 0..Len(d.img) /\ (i # 0 => d.img[i].id = c.img[i].id)
    <3>1. Len(c.img) \in Nat
      BY GoodFacts
    <3> QED  BY <2>2, <3>1 DEF Kept
  <2>4. PICK t : t = s[m]
    OBVIOUS
  <2>5. /\ Configured(j, t.id) /\ (i = 0 \/ PutInto(j, c.img[i].id, {t.id}))
        /\ i = 0 \/ NestedPids(j) \/ t.pids = << >>
    BY <2>4
  <2>6. PICK a : a = AddCont(d, t, i)
    OBVIOUS
  <2>7. MoreConts(j, d, a)
    <3> HIDE DEF V
    <3>1. i = 0 \/ PutInto(j, d.img[i].id, {t.id})
      BY <2>3, <2>5
    <3> QED  BY <2>1, <2>2, <2>3, <2>4, <2>5, <2>6, <3>1, AddContGood
  <2>8. Good(j, a) /\ Fresh(j, a) /\ Kept(d, a) /\ a \in Confs
    BY <2>7, GoodIsConf DEF MoreConts
  <2>9. Kept(c, a)
    BY <2>2, <2>8, KeptTwice, GoodIsConf
  <2>10. a \in V
    BY <2>8, <2>9 DEF MoreConts
  <2> QED  BY <2>4, <2>6, <2>10
<1> HIDE DEF V
<1>4. AddConts(c, s, i) \in V
  BY <1>1, <1>2, <1>3, AddContsLoop
<1> QED  BY <1>4 DEF V

(* parse_image_data(): the image, its PIDs, then its containers. *)
LEMMA AddImgGood ==
  ASSUME NEW j \in Files, NEW c, NEW m \in 1..Len(j.images), Good(j, c), Fresh(j, c)
  PROVE  Good(j, AddImg(c, j.images[m])) /\ Fresh(j, AddImg(c, j.images[m]))
<1> DEFINE n == Len(c.img) + 1
<1>0. PICK s : s = j.images[m]
  OBVIOUS
<1> DEFINE blk == Section(s.set, <<"img", n>>, Global)
           e == [id |-> s.id, own |-> s.set # None, blk |-> blk, conts |-> << >>, pids |-> << >>]
           a == NewImg(c, e)
           b == AddPids(a, s.pids, 0, n)
           d == AddImg(c, s)
<1>1. d = AddConts(b, s.conts, n)
  BY DEF AddImg
<1>2. s \in ImgSections /\ DOMAIN j.images = 1..Len(j.images)
  <2>1. j.images \in Seq(ImgSections)
    BY DEF Files
  <2> QED  BY <1>0, <2>1
<1>3. /\ c \in Confs /\ Len(c.img) \in Nat /\ n \in Nat /\ s.id \in Text /\ s.set \in STRING
      /\ s.pids \in Seq(PidSections) /\ s.conts \in Seq(ContSections)
  BY <1>2, GoodFacts DEF ImgSections
<1>4. <<"img", n>> \in {"global", "img", "cont", "pid"} \X Nat
  BY <1>3
<1> HIDE DEF n
<1>5. /\ blk \in Blocks /\ (s.set # None => blk.at = <<"img", n>>)
      /\ (s.set = None => blk = Global)
  BY <1>3, <1>4, SectionFacts, GlobalFacts
<1> HIDE DEF blk
<1>6. << >> \in Seq(Nat)
  OBVIOUS
<1>7. /\ e \in Images /\ e.id = s.id /\ e.blk = blk /\ e.pids = << >> /\ e.conts = << >>
      /\ (e.own <=> s.set # None)
  BY <1>3, <1>5, <1>6 DEF Images
<1> HIDE DEF e
<1>8. ImgAdded(c, a, e)
  BY <1>3, <1>7, NewImgFacts
<1>9. ToSet(e.pids) = {} /\ ToSet(e.conts) = {}
  BY <1>7, ToSetEmpty
<1>10. Brings(c, e, <<"img", n>>)
  BY <1>5, <1>7, GlobalFacts DEF Brings
<1> HIDE DEF a
<1>11. Good(j, a) /\ Fresh(j, a)
  BY <1>8, <1>9, <1>10, ImgAddedGood DEF n
<1>12. Len(a.img) = n /\ a.img[n].id = s.id /\ n # 0 /\ n \in 0..Len(a.img) /\ 0 \in 0..Len(a.cont)
  <2>1. Len(a.cont) \in Nat
    BY <1>11, GoodFacts
  <2> QED  BY <1>3, <1>7, <1>8, <2>1 DEF ImgAdded, n
<1> HIDE DEF b, d
<1>13. MorePids(j, a, b)
  BY <1>3, <1>11, <1>12, AddPidsGood DEF b
<1>14. Good(j, b) /\ Fresh(j, b) /\ n \in 0..Len(b.img) /\ b.img[n].id = s.id
  BY <1>3, <1>11, <1>12, <1>13 DEF MorePids, Kept
<1>15. ASSUME NEW x \in 1..Len(s.conts)
       PROVE  /\ Configured(j, s.conts[x].id) /\ PutInto(j, s.id, {s.conts[x].id})
              /\ NestedPids(j) \/ s.conts[x].pids = << >>
  <2>1. x \in DOMAIN s.conts /\ m \in DOMAIN j.images
    BY <1>2, <1>3
  <2>2. Configured(j, s.conts[x].id)
    BY <1>0, <2>1 DEF Configured
  <2>3. PutInto(j, s.id, {s.conts[x].id})
    BY <1>0, <2>1 DEF PutInto
  <2>4. NestedPids(j) \/ s.conts[x].pids = << >>
    BY <1>0, <2>1 DEF NestedPids
  <2> QED  BY <2>2, <2>3, <2>4
<1>16. MoreConts(j, b, d)
  BY <1>1, <1>3, <1>14, <1>15, AddContsGood
<1> QED  BY <1>0, <1>16 DEF MoreConts, d

(* parse_config(): what was read of any file is as it should be. *)
LEMMA ParseGood ==
  ASSUME NEW j \in Files
  PROVE  Good(j, Parse(j))
<1> DEFINE empty == [img |-> << >>, cont |-> << >>, pid |-> << >>]
           V == {d \in Confs : Good(j, d) /\ Fresh(j, d)}
           a == AddImgs(empty, j.images)
           b == AddConts(a, j.conts, 0)
<1>1. Parse(j) = AddPids(b, j.pids, 0, 0)
  BY DEF Parse
<1>2. /\ j.images \in Seq(ImgSections) /\ j.conts \in Seq(ContSections) /\ j.pids \in Seq(PidSections)
      /\ Len(j.images) \in Nat /\ DOMAIN j.conts = 1..Len(j.conts)
  BY DEF Files
<1>3. empty \in V
  <2>1. empty \in Confs /\ 1..Len(empty.img) = {} /\ 1..Len(empty.cont) = {} /\ 1..Len(empty.pid) = {}
    BY DEF Confs
  <2> HIDE DEF empty
  <2>2. ConfOK(empty)
    BY <2>1, ConfOKIs
  <2>3. Linking(empty) /\ Placing(j, empty)
    BY <2>1 DEF Linking, Placing
  <2>4. Owning(empty)
    BY <2>1 DEF Owning
  <2>5. Origins(j, empty) /\ Fresh(j, empty)
    BY <2>1 DEF Origins, Fresh
  <2> QED  BY <2>1, <2>2, <2>3, <2>4, <2>5 DEF Good
<1> HIDE DEF empty
<1>4. ASSUME NEW d \in V, NEW m \in 1..Len(j.images) PROVE AddImg(d, j.images[m]) \in V
  <2>1. PICK e : e = AddImg(d, j.images[m])
    OBVIOUS
  <2>2. Good(j, d) /\ Fresh(j, d)
    OBVIOUS
  <2>3. Good(j, e) /\ Fresh(j, e)
    <3> HIDE DEF V
    <3> QED  BY <2>1, <2>2, AddImgGood
  <2> QED  BY <2>1, <2>3, GoodIsConf
<1> HIDE DEF V
<1>5. a \in V
  BY <1>2, <1>3, <1>4, AddImgsLoop
<1> HIDE DEF a
<1>6. Good(j, a) /\ Fresh(j, a)
  BY <1>5 DEF V
<1>7. 0 \in 0..Len(a.img) /\ 0 \in 0..Len(a.cont)
  BY <1>6, GoodFacts
<1>8. ASSUME NEW m \in 1..Len(j.conts) PROVE Configured(j, j.conts[m].id)
  BY <1>2 DEF Configured
<1> HIDE DEF b
<1>9. MoreConts(j, a, b)
  BY <1>2, <1>6, <1>7, <1>8, AddContsGood DEF b
<1>10. Good(j, b) /\ 0 \in 0..Len(b.img) /\ 0 \in 0..Len(b.cont)
  BY <1>9, GoodFacts DEF MoreConts
<1>11. j.pids = << >> \/ LoosePids(j)
  BY DEF LoosePids
<1>12. MorePids(j, b, Parse(j))
  BY <1>1, <1>2, <1>10, <1>11, AddPidsGood
<1> QED  BY <1>12 DEF MorePids

(***************************************************************************)
(* A container configured by name gets an entry for its ID.                *)
(***************************************************************************)
LEMMA CopiedFacts ==
  ASSUME NEW j, NEW c, Good(j, c), NEW e, e.blk \in Blocks, Owner(c, e.blk.at),
         NEW at \in {"global", "img", "cont", "pid"} \X Nat
  PROVE  /\ Copied(e, at) \in Blocks
         /\ e.own => Copied(e, at).at = at
         /\ ~e.own => Copied(e, at) = e.blk
  BY DEF Copied, Blocks

Moved(x, blk, k, e) ==
  e \in Entries /\ e.cont = k /\ e.img = x.img /\ e.blk = blk /\ (e.own <=> x.own)

LEMMA MovedEntry ==
  ASSUME NEW x \in Entries, NEW blk \in Blocks, NEW k \in Int
  PROVE  Moved(x, blk, k, [x EXCEPT !.blk = blk, !.cont = k])
<1> DEFINE e == [x EXCEPT !.blk = blk, !.cont = k]
<1>1. e \in Entries
  BY DEF Entries
<1>2. e.cont = k /\ e.img = x.img /\ e.blk = blk /\ (e.own <=> x.own)
  BY DEF Entries
<1> HIDE DEF e
<1>3. Moved(x, blk, k, e)
  BY <1>1, <1>2 DEF Moved
<1> QED  BY <1>3 DEF e

(* The copy of a PID is linked to the copy of its container. *)
LEMMA CopyPidGood ==
  ASSUME NEW j, NEW c, NEW p \in 1..Len(c.pid), NEW k \in 1..Len(c.cont), Good(j, c),
         NestedPids(j) \/ c.pid[p].img = 0
  PROVE  MorePids(j, c, CopyPid(c, p, k))
<1> DEFINE n == Len(c.pid) + 1
           blk == Copied(c.pid[p], <<"pid", n>>)
           e == [c.pid[p] EXCEPT !.blk = blk, !.cont = k]
           i == c.pid[p].img
           d == CopyPid(c, p, k)
<1>1. d = NewPid(c, e, k, i)
  BY DEF CopyPid
<1>2. /\ c \in Confs /\ Len(c.img) \in Nat /\ Len(c.cont) \in Nat /\ Len(c.pid) \in Nat /\ n \in Nat
      /\ c.pid[p] \in Entries /\ c.pid[p].blk \in Blocks /\ Owner(c, c.pid[p].blk.at)
  BY GoodFacts
<1>3. <<"pid", n>> \in {"global", "img", "cont", "pid"} \X Nat
  BY <1>2
<1> HIDE DEF n
<1>4. /\ blk \in Blocks /\ (c.pid[p].own => blk.at = <<"pid", n>>) /\ (~c.pid[p].own => blk = c.pid[p].blk)
  BY <1>2, <1>3, CopiedFacts
<1> HIDE DEF blk
<1>5. e \in Entries /\ e.cont = k /\ e.img = i /\ e.blk = blk /\ (e.own <=> c.pid[p].own)
  <2>1. k \in Int
    BY <1>2
  <2>2. c.pid[p] \in Entries
    BY <1>2
  <2>3. Moved(c.pid[p], blk, k, e)
    BY <1>4, <2>1, <2>2, MovedEntry
  <2> HIDE DEF e
  <2> QED  BY <2>3 DEF Moved
<1>6. PidOK(c, c.pid[p]) /\ DOMAIN c.cont = 1..Len(c.cont)
  BY <1>2, ConfOKIs, ConfFields DEF Good
<1> HIDE DEF e, d
<1>7. PidAdded(c, d, e, k, i)
  BY <1>1, <1>2, <1>5, NewPidFacts
<1>8. PidOK(c, e)
  BY <1>2, <1>5, <1>6 DEF PidOK
<1>9. Brings(c, e, <<"pid", n>>)
  BY <1>2, <1>4, <1>5 DEF Brings
<1>10. e.cont # 0
  BY <1>5
<1>11. NestedPids(j) \/ (/\ k \in 1..Len(c.cont) => e.cont \in {0, k} /\ e.img = 0
                         /\ i \in 1..Len(c.img) => e.cont = -i)
  BY <1>5
<1> HIDE DEF i
<1>12. Good(j, d) /\ Kept(c, d) /\ (Fresh(j, c) => Fresh(j, d))
  BY <1>5, <1>7, <1>8, <1>9, <1>10, <1>11, PidAddedGood DEF n
<1>13. Len(d.cont) = Len(c.cont)
  BY <1>7 DEF PidAdded
<1> QED  BY <1>12, <1>13 DEF MorePids, d

LEMMA InToSet ==
  ASSUME NEW s \in Seq(Nat), NEW m \in 1..Len(s)
  PROVE  s[m] \in ToSet(s)
  BY DEF ToSet

LEMMA CopyPidsGood ==
  ASSUME NEW j, NEW c, NEW s \in Seq(Nat), NEW k \in 1..Len(c.cont), Good(j, c),
         ToSet(s) \subseteq 1..Len(c.pid), NestedPids(j) \/ \A p \in ToSet(s) : c.pid[p].img = 0
  PROVE  MorePids(j, c, CopyPids(c, s, k))
<1> DEFINE V == {d \in Confs : MorePids(j, c, d)}
<1>1. c \in V
  BY GoodIsConf, KeptSame DEF MorePids
<1>2. Len(s) \in Nat
  OBVIOUS
<1>3. ASSUME NEW d \in V, NEW m \in 1..Len(s) PROVE CopyPid(d, s[m], k) \in V
  <2>1. Good(j, d) /\ Kept(c, d) /\ Len(d.cont) = Len(c.cont) /\ d \in Confs
    BY DEF MorePids
  <2>2. PICK p : p = s[m]
    OBVIOUS
  <2>3. p \in ToSet(s) /\ p \in 1..Len(c.pid) /\ (NestedPids(j) \/ c.pid[p].img = 0)
    BY <2>2, InToSet
  <2>4. k \in 1..Len(d.cont)
    BY <2>1
  <2>5. p \in 1..Len(d.pid) /\ d.pid[p] = c.pid[p]
    <3>1. Len(c.pid) \in Nat /\ Len(d.pid) \in Nat
      BY <2>1, GoodFacts
    <3> QED  BY <2>1, <2>3, <3>1 DEF Kept
  <2>6. PICK a : a = CopyPid(d, p, k)
    OBVIOUS
  <2>7. MorePids(j, d, a)
    <3> HIDE DEF V
    <3>1. NestedPids(j) \/ d.pid[p].img = 0
      BY <2>3, <2>5
    <3> QED  BY <2>1, <2>4, <2>5, <2>6, <3>1, CopyPidGood
  <2>8. Good(j, a) /\ Kept(d, a) /\ a \in Confs
    BY <2>7, GoodIsConf DEF MorePids
  <2>9. Kept(c, a)
    BY <2>1, <2>8, KeptTwice, GoodIsConf
  <2>10. a \in V
    BY <2>1, <2>7, <2>8, <2>9 DEF MorePids
  <2> QED  BY <2>2, <2>6, <2>10
<1> HIDE DEF V
<1>4. CopyPids(c, s, k) \in V
  BY <1>1, <1>2, <1>3, CopyPidsLoop
<1> QED  BY <1>4 DEF V

(* A copy that is new has no PIDs to refresh. *)
LEMMA RefreshNone == ASSUME NEW c, NEW k PROVE RefreshPids(c, << >>, k) = c
<1> DEFINE V == {c}
           s == << >>
<1>1. Len(s) \in Nat /\ \A d \in V : \A m \in 1..Len(s) : RefreshPid(d, s[m], k) \in V
  OBVIOUS
<1>2. c \in V
  OBVIOUS
<1> HIDE DEF V, s
<1>3. RefreshPids(c, s, k) \in V
  BY <1>1, <1>2, RefreshPidsLoop
<1> QED  BY <1>3 DEF V, s

(* No entry of c is hidden by a new one of d with the same ID. *)
Unseen(j, c, d) ==
  NamedTwice(j) \/ \A x \in 1..Len(d.cont), y \in 1..Len(c.cont) :
                      x > Len(c.cont) => d.cont[x].id # c.cont[y].id

(* After a search for the container with this ID: entry k, or none. *)
Started(j, c, id, d, k) ==
  /\ Good(j, d) /\ Kept(c, d) /\ Unseen(j, c, d)
  /\ k \in 0..Len(d.cont) /\ (k # 0 => d.cont[k].id = id)

(* dl is what a search by ID and name would find in the list. *)
Latest(c, id, dl) == \A x \in 1..Len(c.cont) : c.cont[x].id \in {id, NameOf[id]} => x <= dl

LEMMA NamesFacts ==
  ASSUME NEW id \in Containers
  PROVE  id \in Text /\ NameOf[id] \in Text /\ NameOf[id] \notin Containers /\ ImageOf[id] \in Text
  BY NamesAssumption

LEMMA LatestUnseen ==
  ASSUME NEW j, NEW c, NEW id \in Containers, NEW dl \in 1..Len(c.cont), Good(j, c),
         c.cont[dl].id = NameOf[id], Latest(c, id, dl), NEW y \in 1..Len(c.cont), c.cont[y].id = id
  PROVE  NamedTwice(j)
<1>1. Len(c.cont) \in Nat /\ y <= dl
  BY GoodFacts DEF Latest
<1>2. y \in 1..dl /\ dl \in 1..dl
  BY <1>1
<1>3. \A x \in 1..dl : Configured(j, c.cont[x].id)
  BY NamesFacts DEF Good, Origins
<1> QED  BY <1>2, <1>3 DEF NamedTwice

Renamed(x, id, blk, e) ==
  e \in Conts /\ e.id = id /\ (e.own <=> x.own) /\ (e.ccrt <=> x.ccrt) /\ e.blk = blk /\ e.pids = << >> /\ e.img = x.img

LEMMA RenamedCont ==
  ASSUME NEW x \in Conts, NEW id \in Text, NEW blk \in Blocks
  PROVE  Renamed(x, id, blk, [x EXCEPT !.id = id, !.blk = blk, !.pids = << >>])
<1> DEFINE e == [x EXCEPT !.id = id, !.blk = blk, !.pids = << >>]
<1>0. << >> \in Seq(Nat)
  OBVIOUS
<1>1. e \in Conts
  BY <1>0 DEF Conts
<1>2. e.id = id /\ (e.own <=> x.own) /\ (e.ccrt <=> x.ccrt) /\ e.blk = blk /\ e.pids = << >> /\ e.img = x.img
  BY DEF Conts
<1> HIDE DEF e
<1>3. Renamed(x, id, blk, e)
  BY <1>1, <1>2 DEF Renamed
<1> QED  BY <1>3 DEF e

(* duplicateOrRefreshContainer() never refreshes: an entry made at run time
   for the ID is newer than one of the file, and found before it. *)
LEMMA DuplicateGood ==
  ASSUME NEW j, NEW c, NEW id \in Containers, NEW dl \in 1..Len(c.cont), Good(j, c),
         c.cont[dl].id = NameOf[id], Latest(c, id, dl)
  PROVE  Started(j, c, id, DuplicateOrRefresh(c, id, dl).conf, DuplicateOrRefresh(c, id, dl).cont)
<1> DEFINE n == Len(c.cont) + 1
           S == {x \in DOMAIN c.cont : x # dl /\ c.cont[x].ccrt /\ c.cont[x].id = id}
           from == c.cont[dl]
           blk == Copied(from, <<"cont", n>>)
           e == [from EXCEPT !.id = id, !.blk = blk, !.pids = << >>]
           put == NewCont(c, e)
           b == LinkImage(put, n, from.img)
           d == CopyPids(b, from.pids, n)
           r == DuplicateOrRefresh(c, id, dl)
<1>1. /\ c \in Confs /\ Len(c.img) \in Nat /\ Len(c.cont) \in Nat /\ Len(c.pid) \in Nat
      /\ from \in Conts /\ from.blk \in Blocks /\ Owner(c, from.blk.at)
  BY GoodFacts
<1>2. DOMAIN c.cont = 1..Len(c.cont) /\ DOMAIN c.pid = 1..Len(c.pid) /\ n \in Nat /\ n # 0
      /\ from.pids \in Seq(Nat) /\ from.img \in Nat
  BY <1>1, ConfFields DEF Conts
<1>3. \A x \in 1..dl : ~c.cont[x].ccrt
  BY NamesFacts DEF Good, Origins
<1>4. S = {}
  BY <1>1, <1>2, <1>3 DEF Latest
<1>5. Newest(S) = 0
  BY <1>4 DEF Newest
<1>6. r = [conf |-> CopyPids(RefreshPids(b, e.pids, n), from.pids, n), cont |-> n, refresh |-> n]
  <2> HIDE DEF S
  <2>1. Newest({x \in DOMAIN c.cont : x # dl /\ c.cont[x].ccrt /\ c.cont[x].id = id}) = 0
    BY <1>5 DEF S
  <2> QED  BY <2>1, Zenon DEF DuplicateOrRefresh
<1>7. ~from.ccrt
  BY <1>2, <1>3, <1>1
<1>8. <<"cont", n>> \in {"global", "img", "cont", "pid"} \X Nat
  BY <1>2
<1> HIDE DEF n, S
<1>9. /\ blk \in Blocks /\ (from.own => blk.at = <<"cont", n>>) /\ (~from.own => blk = from.blk)
  <2> HIDE DEF from
  <2> QED  BY <1>1, <1>8, CopiedFacts
<1> HIDE DEF blk
<1>10. Renamed(from, id, blk, e)
  <2>1. from \in Conts /\ id \in Text
    BY <1>1, NamesFacts
  <2> HIDE DEF from
  <2> QED  BY <1>9, <2>1, RenamedCont
<1> HIDE DEF e
<1>11. /\ e \in Conts /\ e.id = id /\ (e.own <=> from.own) /\ ~e.ccrt /\ e.blk = blk /\ e.pids = << >>
       /\ e.img = from.img
  BY <1>7, <1>10 DEF Renamed
<1>12. ContOK(c, from)
  BY ConfOKIs DEF Good
<1>13. ToSet(from.pids) \subseteq 1..Len(c.pid) /\ from.img \in 0..Len(c.img)
  BY <1>2, <1>12 DEF ContOK
<1> HIDE DEF put, b, d, r
<1>14. ContAdded(c, b, e, from.img)
  BY <1>1, <1>11, <1>13, LinkedContFacts DEF n, put, b
<1>15. ContOK(c, e) /\ ToSet(e.pids) = {}
  BY <1>11, <1>13, ToSetEmpty DEF ContOK
<1>16. Brings(c, e, <<"cont", n>>)
  BY <1>1, <1>9, <1>11 DEF Brings
<1>17. Comes(j, c, e, from.img)
  BY <1>11 DEF Comes
<1>18. NestedPids(j) \/ (e.img # 0 => Belongs(j, c.img[e.img].id, e.id))
  <2>1. CASE NestedPids(j)
    BY <2>1
  <2>2. ASSUME ~NestedPids(j), e.img # 0 PROVE Belongs(j, c.img[e.img].id, e.id)
    <3>1. Belongs(j, c.img[e.img].id, NameOf[id])
      BY <1>11, <2>2 DEF Good, Placing
    <3>2. PICK image : image = c.img[e.img].id
      OBVIOUS
    <3>3. PutInto(j, image, {NameOf[id]})
      BY <3>1, <3>2, NamesFacts DEF Belongs
    <3>4. PutInto(j, image, {id, NameOf[id]})
      BY <3>3 DEF PutInto
    <3> QED  BY <1>11, <3>2, <3>4 DEF Belongs, Concerns
  <2> QED  BY <2>1, <2>2
<1>19. Good(j, b) /\ Kept(c, b)
  BY <1>11, <1>14, <1>15, <1>16, <1>17, <1>18, ContAddedGood DEF n
<1>20. b.pid = c.pid /\ Len(b.cont) = n /\ b.cont[n] = e /\ n \in 1..Len(b.cont)
  BY <1>1, <1>14 DEF ContAdded, n
<1>21. NestedPids(j) \/ \A p \in ToSet(from.pids) : b.pid[p].img = 0
  BY <1>20 DEF Good, Placing
<1>22. MorePids(j, b, d)
  BY <1>2, <1>13, <1>19, <1>20, <1>21, CopyPidsGood DEF d
<1>23. Good(j, d) /\ Kept(b, d) /\ Len(d.cont) = n
  BY <1>20, <1>22 DEF MorePids
<1>24. Kept(c, d)
  BY <1>19, <1>23, KeptTwice, GoodIsConf
<1>25. d.cont[n].id = id
  BY <1>11, <1>20, <1>23 DEF Kept
<1>26. Unseen(j, c, d)
  <2>1. ASSUME NEW x \in 1..Len(d.cont), NEW y \in 1..Len(c.cont), x > Len(c.cont), ~NamedTwice(j)
        PROVE  d.cont[x].id # c.cont[y].id
    <3>1. x = n
      BY <1>1, <1>23, <2>1 DEF n
    <3> QED  BY <1>25, <2>1, <3>1, LatestUnseen
  <2> QED  BY <2>1 DEF Unseen
<1>27. r.conf = d /\ r.cont = n
  <2>1. r = [conf |-> d, cont |-> n, refresh |-> n]
    BY <1>6, <1>11, RefreshNone DEF d
  <2> QED  BY <2>1
<1>28. n \in 0..Len(d.cont)
  BY <1>2, <1>23
<1>29. Started(j, c, id, d, n)
  BY <1>23, <1>24, <1>25, <1>26, <1>28 DEF Started
<1> QED  BY <1>27, <1>29 DEF r

(***************************************************************************)
(* findPidParameters() for an event of docker.                             *)
(***************************************************************************)
LEMMA StartedOn ==
  ASSUME NEW j, NEW c, NEW id, NEW b, NEW d, NEW k, Good(j, c), Started(j, c, id, b, k),
         Good(j, d), Kept(b, d), Len(d.cont) = Len(b.cont)
  PROVE  Started(j, c, id, d, k)
<1>1. /\ Good(j, b) /\ Kept(c, b) /\ Unseen(j, c, b) /\ k \in 0..Len(b.cont) /\ (k # 0 => b.cont[k].id = id)
  BY DEF Started
<1>2. Kept(c, d)
  BY <1>1, KeptTwice, GoodIsConf
<1>3. \A x \in 1..Len(b.cont) : d.cont[x].id = b.cont[x].id
  BY DEF Kept
<1>4. Unseen(j, c, d)
  BY <1>1, <1>3 DEF Unseen
<1>5. k # 0 => d.cont[k].id = id
  <2>1. Len(b.cont) \in Nat
    BY <1>1, GoodFacts
  <2> QED  BY <1>1, <1>3, <2>1
<1> QED  BY <1>1, <1>2, <1>4, <1>5 DEF Started

(* findPidParameters(): a container that takes the settings of its image. *)
LEMMA FromImageGood ==
  ASSUME NEW j, NEW c, NEW id \in Containers, NEW i \in 1..Len(c.img), Good(j, c),
         c.img[i].id = ImageOf[id], \A x \in 1..Len(c.cont) : c.cont[x].id # id
  PROVE  Started(j, c, id, FromImage(c, id, i), Len(c.cont) + 1)
<1> DEFINE n == Len(c.cont) + 1
           e == [id |-> id, own |-> FALSE, ccrt |-> FALSE, blk |-> c.img[i].blk, pids |-> << >>, img |-> i]
           d == FromImage(c, id, i)
<1>1. /\ c \in Confs /\ Len(c.img) \in Nat /\ Len(c.cont) \in Nat
      /\ c.img[i].blk \in Blocks /\ Owner(c, c.img[i].blk.at) /\ i \in Nat /\ i \in 0..Len(c.img)
  BY GoodFacts
<1>2. d = LinkImage(NewCont(c, e), n, i)
  BY DEF FromImage
<1>3. << >> \in Seq(Nat)
  OBVIOUS
<1>4. /\ e \in Conts /\ e.id = id /\ ~e.own /\ ~e.ccrt /\ e.blk = c.img[i].blk /\ e.pids = << >> /\ e.img = i
  BY <1>1, <1>3, NamesFacts DEF Conts
<1> HIDE DEF e, d
<1>5. ContAdded(c, d, e, i)
  BY <1>1, <1>2, <1>4, LinkedContFacts
<1>6. ContOK(c, e) /\ ToSet(e.pids) = {}
  BY <1>1, <1>4, ToSetEmpty DEF ContOK
<1>7. Brings(c, e, <<"cont", n>>)
  BY <1>1, <1>4 DEF Brings
<1>8. Comes(j, c, e, i)
  BY <1>4 DEF Comes
<1>9. Belongs(j, c.img[e.img].id, e.id)
  BY <1>4 DEF Belongs, Concerns
<1>10. Good(j, d) /\ Kept(c, d)
  BY <1>4, <1>5, <1>6, <1>7, <1>8, <1>9, ContAddedGood
<1>11. Len(d.cont) = n /\ d.cont[n] = e /\ n \in 0..Len(d.cont)
  BY <1>1, <1>5 DEF ContAdded
<1>12. Unseen(j, c, d)
  <2>1. ASSUME NEW x \in 1..Len(d.cont), NEW y \in 1..Len(c.cont), x > Len(c.cont)
        PROVE  d.cont[x].id # c.cont[y].id
    <3>1. x = n
      BY <1>1, <1>11, <2>1
    <3> QED  BY <1>4, <1>11, <3>1
  <2> QED  BY <2>1 DEF Unseen
<1>13. d.cont[n].id = id
  BY <1>4, <1>11
<1> HIDE DEF n
<1>14. Started(j, c, id, d, n)
  BY <1>10, <1>11, <1>12, <1>13 DEF Started
<1> QED  BY <1>14 DEF d, n

(* What a search has found: the configuration, and an entry or 0. *)
Result(r) == r = [conf |-> r.conf, cont |-> r.cont, refresh |-> r.refresh]

(* checkContainerMatch(): by ID as it is, by name as a copy. *)
LEMMA ResolveGood ==
  ASSUME NEW j, NEW c, NEW id \in Containers, Good(j, c)
  PROVE  LET all == Resolve(c, id, Newest(Matching(c, id)))
         IN /\ Result(all) /\ Started(j, c, id, all.conf, all.cont)
            /\ all.cont = 0 => all.conf = c /\ \A x \in 1..Len(c.cont) : c.cont[x].id # id
<1> DEFINE S == Matching(c, id)
           k == Newest(S)
           all == Resolve(c, id, k)
<1>1. c \in Confs /\ Len(c.cont) \in Nat /\ DOMAIN c.cont = 1..Len(c.cont)
  BY GoodFacts, ConfFields
<1>2. S = {x \in 1..Len(c.cont) : c.cont[x].id \in {id, NameOf[id]}}
  BY <1>1 DEF Matching
<1> HIDE DEF S
<1>3. S \in SUBSET (1..Len(c.cont))
  BY <1>2
<1>4. \/ S = {} /\ k = 0
      \/ k \in S /\ k # 0 /\ \A x \in S : x <= k
  BY <1>1, <1>3, NewestFacts
<1> HIDE DEF k
<1>5. CASE k # 0 /\ c.cont[k].id # id
  <2>1. k \in 1..Len(c.cont) /\ c.cont[k].id = NameOf[id]
    BY <1>2, <1>4, <1>5
  <2>2. Latest(c, id, k)
    BY <1>2, <1>4, <1>5 DEF Latest
  <2>3. all = DuplicateOrRefresh(c, id, k)
    BY <1>5 DEF Resolve
  <2>4. Started(j, c, id, all.conf, all.cont)
    BY <2>1, <2>2, <2>3, DuplicateGood
  <2>5. Result(DuplicateOrRefresh(c, id, k))
    BY DEF DuplicateOrRefresh, Result
  <2>6. DuplicateOrRefresh(c, id, k).cont # 0
    <3> DEFINE T == {x \in DOMAIN c.cont : x # k /\ c.cont[x].ccrt /\ c.cont[x].id = id}
    <3>1. T \in SUBSET (1..Len(c.cont))
      BY <1>1
    <3> HIDE DEF T
    <3>2. Newest(T) = 0 \/ Newest(T) # 0
      OBVIOUS
    <3>3. DuplicateOrRefresh(c, id, k).cont = IF Newest(T) = 0 THEN Len(c.cont) + 1 ELSE Newest(T)
      BY DEF DuplicateOrRefresh, T
    <3> QED  BY <1>1, <3>3
  <2> HIDE DEF all
  <2> QED  BY <2>3, <2>4, <2>5, <2>6 DEF all, k, S
<1>6. CASE k = 0 \/ c.cont[k].id = id
  <2>1. all = [conf |-> c, cont |-> k, refresh |-> 0]
    BY <1>6 DEF Resolve
  <2> HIDE DEF all
  <2>2. Result(all) /\ all.conf = c /\ all.cont = k
    BY <2>1 DEF Result
  <2>3. k \in 0..Len(c.cont) /\ (k # 0 => c.cont[k].id = id)
    <3>1. CASE k = 0
      BY <1>1, <3>1
    <3>2. CASE k # 0
      <4>1. k \in 1..Len(c.cont)
        BY <1>2, <1>4, <3>2
      <4> QED  BY <1>1, <1>6, <3>2, <4>1
    <3> QED  BY <3>1, <3>2
  <2>4. Unseen(j, c, c)
    BY <1>1 DEF Unseen
  <2>5. Started(j, c, id, c, k)
    BY <1>1, <2>3, <2>4, KeptSame DEF Started
  <2>6. k = 0 => \A x \in 1..Len(c.cont) : c.cont[x].id # id
    BY <1>2, <1>4
  <2> QED  BY <2>2, <2>5, <2>6 DEF all, k, S
<1> QED  BY <1>5, <1>6

(* The first search looks at the containers of the image, which are known
   by their ID: it duplicates none. *)
LEMMA ByImageSame ==
  ASSUME NEW j, NEW c, NEW id \in Containers, NEW i \in 1..Len(c.img), Good(j, c)
  PROVE  \E x : Resolve(c, id, First(c.img[i].conts, Matching(c, id))) = [conf |-> c, cont |-> x, refresh |-> 0]
<1> DEFINE s == c.img[i].conts
           k == First(s, Matching(c, id))
<1>1. c \in Confs /\ Len(c.cont) \in Nat /\ DOMAIN c.cont = 1..Len(c.cont) /\ c.img[i] \in Images
  BY GoodFacts, ConfFields
<1>2. s \in Seq(Nat)
  BY <1>1 DEF Images
<1>3. ASSUME k # 0 PROVE c.cont[k].id = id
  <2>1. k \in ToSet(s) \cap Matching(c, id)
    <3> HIDE DEF s
    <3> QED  BY <1>2, <1>3, FirstFacts
  <2> HIDE DEF k
  <2>2. c.cont[k].id \in Containers
    BY <2>1 DEF Good, Origins
  <2>3. c.cont[k].id \in {id, NameOf[id]}
    BY <2>1 DEF Matching
  <2> QED  BY <2>2, <2>3, NamesFacts
<1> HIDE DEF k
<1>4. Resolve(c, id, k) = [conf |-> c, cont |-> k, refresh |-> 0]
  BY <1>3 DEF Resolve
<1> QED  BY <1>4 DEF k

(* findPidParameters() for an event of docker. *)
LEMMA FindStartedGood ==
  ASSUME NEW j, NEW c, NEW id \in Containers, Good(j, c)
  PROVE  Started(j, c, id, FindStarted(c, id).conf, FindStarted(c, id).cont)
<1> DEFINE I == {x \in DOMAIN c.img : c.img[x].id = ImageOf[id]}
           i == Newest(I)
           Made(r)  == IF r.cont = 0 /\ i # 0
                       THEN [r EXCEPT !.conf = FromImage(@, id, i), !.cont = Len(r.conf.cont) + 1] ELSE r
           Known(r) == IF i # 0 /\ r.cont # 0 /\ r.conf.cont[r.cont].ccrt
                       THEN [r EXCEPT !.conf = ImageUpdate(@, r.cont, i)] ELSE r
           one == Resolve(c, id, IF i = 0 THEN 0 ELSE First(c.img[i].conts, Matching(c, id)))
           all == Resolve(c, id, Newest(Matching(c, id)))
           Fourth(a, r) == [Known(r) EXCEPT !.refresh = {a.refresh, @} \ {0}]
           Third(a, b) == Once(Made(b), LAMBDA r : Fourth(a, r))
           Second(a) == Once(Resolve(a.conf, id, Newest(Matching(a.conf, id))), LAMBDA b : Third(a, b))
<1>1. FindStarted(c, id) = Once(one, Second)
  BY Zenon DEF FindStarted
<1>2. FindStarted(c, id) = Second(one)
  <2> HIDE DEF one, Second
  <2> QED  BY <1>1, Zenon DEF Once
<1>3. c \in Confs /\ Len(c.img) \in Nat /\ DOMAIN c.img = 1..Len(c.img) /\ Len(c.cont) \in Nat
  BY GoodFacts, ConfFields
<1>4. i = 0 \/ (i # 0 /\ i \in 1..Len(c.img) /\ c.img[i].id = ImageOf[id])
  <2>1. I \in SUBSET (1..Len(c.img)) /\ I = {x \in 1..Len(c.img) : c.img[x].id = ImageOf[id]}
    BY <1>3
  <2> HIDE DEF I
  <2>2. i = 0 \/ (i # 0 /\ i \in I)
    BY <1>3, <2>1, NewestFacts
  <2> HIDE DEF i
  <2> QED  BY <2>1, <2>2
<1> HIDE DEF i, I
<1>5. one.conf = c
  <2>1. \E x : one = [conf |-> c, cont |-> x, refresh |-> 0]
    <3>1. CASE i = 0
      BY <3>1 DEF Resolve
    <3>2. CASE i # 0
      BY <1>4, <3>2, ByImageSame
    <3> QED  BY <3>1, <3>2
  <2> HIDE DEF one
  <2> QED  BY <2>1
<1>6. Second(one) = Third(one, all)
  <2>1. Second(one) = Once(all, LAMBDA b : Third(one, b))
    <3> HIDE DEF one, Third
    <3> QED  BY <1>5
  <2> HIDE DEF one, Second, Third, all
  <2> QED  BY <2>1, Zenon DEF Once
<1>7. Third(one, all) = Fourth(one, Made(all))
  <2> HIDE DEF one, all, Made, Fourth
  <2> QED  BY Zenon DEF Once
<1>8. /\ Result(all) /\ Started(j, c, id, all.conf, all.cont)
      /\ all.cont = 0 => all.conf = c /\ \A x \in 1..Len(c.cont) : c.cont[x].id # id
  BY ResolveGood
<1> HIDE DEF one, all
<1>9. Result(Made(all)) /\ Started(j, c, id, Made(all).conf, Made(all).cont)
  <2>1. CASE all.cont = 0 /\ i # 0
    <3> DEFINE d == FromImage(c, id, i)
               n == Len(c.cont) + 1
    <3>1. Made(all) = [conf |-> d, cont |-> n, refresh |-> all.refresh]
      <4> HIDE DEF d
      <4>1. all.conf = c
        BY <1>8, <2>1
      <4> QED  BY <1>8, <2>1, <4>1 DEF Result, d
    <3>2. Started(j, c, id, d, n)
      BY <1>4, <1>8, <2>1, FromImageGood
    <3> HIDE DEF d, n, Made
    <3> QED  BY <3>1, <3>2 DEF Result
  <2>2. CASE ~(all.cont = 0 /\ i # 0)
    <3>1. Made(all) = all
      BY <2>2
    <3> HIDE DEF Made
    <3> QED  BY <1>8, <3>1
  <2> QED  BY <2>1, <2>2
<1>10. PICK m : m = Made(all)
  OBVIOUS
<1> HIDE DEF Made
<1>11. Result(m) /\ Started(j, c, id, m.conf, m.cont)
  BY <1>9, <1>10
<1>12. Result(Known(m)) /\ Started(j, c, id, Known(m).conf, Known(m).cont)
  <2>1. CASE i # 0 /\ m.cont # 0 /\ m.conf.cont[m.cont].ccrt
    <3>1. PICK b, k : b = m.conf /\ k = m.cont
      OBVIOUS
    <3> DEFINE d == ImageUpdate(b, k, i)
    <3>2. Known(m) = [conf |-> d, cont |-> k, refresh |-> m.refresh]
      <4> HIDE DEF d
      <4> QED  BY <1>11, <2>1, <3>1 DEF Result, d
    <3>3. /\ Good(j, b) /\ Kept(c, b) /\ k \in 0..Len(b.cont) /\ b.cont[k].id = id
          /\ Started(j, c, id, b, k)
      BY <1>11, <2>1, <3>1 DEF Started
    <3>4. b \in Confs /\ k \in 1..Len(b.cont) /\ i \in 1..Len(b.img) /\ b.img[i].id = ImageOf[id]
      <4>1. Len(b.cont) \in Nat /\ b \in Confs
        BY <3>3, GoodFacts
      <4> QED  BY <1>4, <2>1, <3>1, <3>3, <4>1 DEF Kept
    <3>5. ImgLearnt(b, d, k, i)
      BY <3>4, ImageUpdateFacts
    <3>6. Belongs(j, b.img[i].id, b.cont[k].id)
      BY <3>3, <3>4 DEF Belongs, Concerns
    <3> HIDE DEF d, Known
    <3>7. Good(j, d) /\ Kept(b, d)
      BY <2>1, <3>1, <3>3, <3>4, <3>5, <3>6, ImgLearntGood
    <3>8. Started(j, c, id, d, k)
      <4>1. Len(d.cont) = Len(b.cont)
        BY <3>5 DEF ImgLearnt
      <4> QED  BY <3>3, <3>7, <4>1, StartedOn
    <3> QED  BY <3>2, <3>8 DEF Result
  <2>2. CASE ~(i # 0 /\ m.cont # 0 /\ m.conf.cont[m.cont].ccrt)
    <3>1. Known(m) = m
      BY <2>2
    <3> HIDE DEF Known
    <3> QED  BY <1>11, <3>1
  <2> QED  BY <2>1, <2>2
<1>13. PICK f : f = Known(m)
  OBVIOUS
<1> HIDE DEF Known
<1>14. Result(f) /\ Started(j, c, id, f.conf, f.cont)
  BY <1>12, <1>13
<1>15. FindStarted(c, id) = [f EXCEPT !.refresh = {one.refresh, @} \ {0}]
  BY <1>2, <1>6, <1>7, <1>10, <1>13
<1>16. FindStarted(c, id).conf = f.conf /\ FindStarted(c, id).cont = f.cont
  BY <1>14, <1>15 DEF Result
<1> QED  BY <1>14, <1>16

(***************************************************************************)
(* findPidParameters() for a process.                                      *)
(***************************************************************************)
(* The container of PID p is that with this ID, or its image is for it. *)
Fits(j, c, p, id) ==
  LET k == c.pid[p].cont
  IN IF k < 0 THEN Concerns(j, c.img[-k].id, id) ELSE k # 0 => c.cont[k].id = id

(* After a search for the parameters of a process: entry p, or none. *)
Detected(j, c, id, d, p) ==
  /\ Good(j, d) /\ Kept(c, d) /\ Unseen(j, c, d)
  /\ p \in 0..Len(d.pid)
  /\ p = 0 \/ NestedPids(j) \/ id = None \/ Fits(j, d, p, id)

LEMMA SameDetected ==
  ASSUME NEW j, NEW c, NEW id, NEW p \in 0..Len(c.pid), Good(j, c),
         p = 0 \/ NestedPids(j) \/ id = None \/ Fits(j, c, p, id)
  PROVE  Detected(j, c, id, c, p)
<1>1. c \in Confs /\ Len(c.cont) \in Nat
  BY GoodFacts
<1>2. Unseen(j, c, c)
  BY <1>1 DEF Unseen
<1> QED  BY <1>1, <1>2, KeptSame DEF Detected

LEMMA NewDetected ==
  ASSUME NEW j, NEW c, NEW id, NEW d, NEW e, NEW k, NEW i, Good(j, c), PidAdded(c, d, e, k, i), Good(j, d), Kept(c, d),
         e.cont \in Nat, e.cont # 0 => e.cont \in 1..Len(c.cont) /\ c.cont[e.cont].id = id
  PROVE  Detected(j, c, id, d, Len(c.pid) + 1)
<1> DEFINE n == Len(c.pid) + 1
<1>1. /\ Len(c.cont) \in Nat /\ Len(c.pid) \in Nat /\ Len(d.cont) = Len(c.cont) /\ Len(d.pid) = n /\ d.pid[n] = e
  BY GoodFacts DEF PidAdded
<1>2. Unseen(j, c, d)
  BY <1>1 DEF Unseen
<1>3. n \in 0..Len(d.pid)
  BY <1>1
<1>4. e.cont # 0 => d.cont[e.cont].id = id
  BY DEF Kept
<1> HIDE DEF n
<1>5. Fits(j, d, n, id)
  BY <1>1, <1>4 DEF Fits
<1>6. Detected(j, c, id, d, n)
  BY <1>2, <1>3, <1>5 DEF Detected
<1> QED  BY <1>6 DEF n

(* For a process of a container with an entry: its PIDs, then those of its image. *)
LEMMA FindInContGood ==
  ASSUME NEW j, NEW c, NEW k \in 1..Len(c.cont), NEW psig, NEW ghosts, Good(j, c), c.cont[k].id \in Containers
  PROVE  LET f == FindInCont(c, k, psig, ghosts)
         IN Detected(j, c, c.cont[k].id, f.conf, f.param) /\ f.shared = 0
<1> DEFINE id == c.cont[k].id
           i == c.cont[k].img
           s == Candidates(c, k)
           hit == First(s, Matches(c, psig, ghosts))
           n == Len(c.pid) + 1
           e == [sig |-> NoCmd, own |-> FALSE, blk |-> c.cont[k].blk, cont |-> k, img |-> 0]
           d == NewPid(c, e, k, 0)
           f == FindInCont(c, k, psig, ghosts)
<1>1. /\ c \in Confs /\ Len(c.img) \in Nat /\ Len(c.cont) \in Nat /\ Len(c.pid) \in Nat /\ n \in Nat
      /\ DOMAIN c.img = 1..Len(c.img) /\ DOMAIN c.cont = 1..Len(c.cont) /\ DOMAIN c.pid = 1..Len(c.pid)
      /\ c.cont[k] \in Conts /\ c.cont[k].blk \in Blocks /\ Owner(c, c.cont[k].blk.at)
  BY GoodFacts, ConfFields
<1>2. ContOK(c, c.cont[k]) /\ c.cont[k].pids \in Seq(Nat) /\ i \in 0..Len(c.img)
  <2>1. ContOK(c, c.cont[k])
    BY ConfOKIs DEF Good
  <2> QED  BY <1>1, <2>1 DEF Conts, ContOK
<1>3. /\ s \in Seq(Nat)
      /\ ToSet(s) = ToSet(c.cont[k].pids) \cup (IF i = 0 THEN {} ELSE ToSet(c.img[i].pids))
  <2> DEFINE t == IF i = 0 THEN << >> ELSE c.img[i].pids
  <2>1. CASE i = 0
    <3>1. s = c.cont[k].pids \o << >>
      BY <2>1 DEF Candidates
    <3>2. s = c.cont[k].pids
      BY <1>2, <3>1
    <3> HIDE DEF s
    <3> QED  BY <1>2, <2>1, <3>2
  <2>2. CASE i # 0
    <3>1. s = c.cont[k].pids \o c.img[i].pids
      BY <2>2 DEF Candidates
    <3>2. c.img[i] \in Images
      BY <1>1, <1>2, <2>2, GoodFacts
    <3>3. c.img[i].pids \in Seq(Nat)
      BY <3>2 DEF Images
    <3> HIDE DEF s
    <3> QED  BY <1>2, <2>2, <3>1, <3>3, ConcatFacts
  <2> QED  BY <2>1, <2>2
<1> HIDE DEF s
<1>4. hit = 0 \/ hit \in ToSet(s)
  BY <1>3, FirstFacts
<1>5. f = IF hit # 0 THEN [conf |-> c, param |-> hit, shared |-> 0]
                     ELSE [conf |-> d, param |-> n, shared |-> 0]
  BY DEF FindInCont, s
<1> HIDE DEF f, d, e, n, hit
<1>6. CASE hit # 0
  <2>1. CASE hit \in ToSet(c.cont[k].pids)
    <3>1. hit \in 0..Len(c.pid)
      BY <1>1, <1>2, <2>1 DEF ContOK
    <3>2. NestedPids(j) \/ Fits(j, c, hit, id)
      <4>1. CASE NestedPids(j)
        BY <4>1
      <4>2. CASE ~NestedPids(j)
        <5>1. c.pid[hit].cont \in {0, k}
          BY <2>1, <4>2 DEF Good, Placing
        <5> QED  BY <1>1, <5>1 DEF Fits
      <4> QED  BY <4>1, <4>2
    <3> QED  BY <1>5, <1>6, <3>1, <3>2, SameDetected DEF f
  <2>2. CASE hit \notin ToSet(c.cont[k].pids)
    <3>1. i # 0 /\ i \in 1..Len(c.img) /\ hit \in ToSet(c.img[i].pids)
      BY <1>1, <1>2, <1>3, <1>4, <1>6, <2>2
    <3>2. ImgOK(c, c.img[i])
      BY <3>1, ConfOKIs DEF Good
    <3>3. hit \in 0..Len(c.pid)
      BY <1>1, <3>1, <3>2 DEF ImgOK
    <3>4. NestedPids(j) \/ Fits(j, c, hit, id)
      <4>1. CASE NestedPids(j)
        BY <4>1
      <4>2. CASE ~NestedPids(j)
        <5>0. PICK x, image : x = i /\ image = c.img[i].id
          OBVIOUS
        <5>1. c.pid[hit].cont = -x /\ Belongs(j, image, id)
          BY <3>1, <4>2, <5>0 DEF Good, Placing
        <5>2. Concerns(j, image, id)
          <6>1. CASE PutInto(j, image, {id})
            <7>1. PutInto(j, image, {id, NameOf[id]})
              BY <6>1 DEF PutInto
            <7> QED  BY <7>1 DEF Concerns
          <6> QED  BY <5>1, <6>1 DEF Belongs
        <5>3. -x < 0 /\ -(-x) = x
          BY <3>1, <5>0
        <5> QED  BY <5>0, <5>1, <5>2, <5>3 DEF Fits
      <4> QED  BY <4>1, <4>2
    <3> QED  BY <1>5, <1>6, <3>3, <3>4, SameDetected DEF f
  <2> QED  BY <2>1, <2>2
<1>7. CASE hit = 0
  <2>1. /\ e \in Entries /\ e.cont = k /\ e.img = 0 /\ e.blk = c.cont[k].blk /\ ~e.own
    BY <1>1 DEF Entries, e
  <2>2. PidAdded(c, d, e, k, 0)
    BY <1>1, <2>1, NewPidFacts DEF d
  <2>3. PidOK(c, e)
    BY <1>1, <2>1 DEF PidOK
  <2>4. Brings(c, e, <<"pid", n>>)
    BY <1>1, <2>1 DEF Brings
  <2>5. e.cont # 0 /\ e.cont \in Nat /\ 0 \notin 1..Len(c.img)
    BY <2>1
  <2>6. Good(j, d) /\ Kept(c, d)
    BY <2>1, <2>2, <2>3, <2>4, <2>5, PidAddedGood DEF n
  <2>7. Detected(j, c, id, d, n)
    BY <2>1, <2>2, <2>5, <2>6, NewDetected DEF n
  <2> QED  BY <1>5, <1>7, <2>7 DEF f
<1> QED  BY <1>6, <1>7

LooseCopy(x, at, e) ==
  e \in Entries /\ e.own /\ e.blk.at = at /\ e.cont = x.cont /\ e.img = x.img

LEMMA LooseCopied ==
  ASSUME NEW x \in Entries, NEW at \in {"global", "img", "cont", "pid"} \X Nat
  PROVE  LooseCopy(x, at, [x EXCEPT !.own = TRUE, !.blk = [at |-> at, val |-> @.val]])
<1> DEFINE blk == [at |-> at, val |-> x.blk.val]
           e == [x EXCEPT !.own = TRUE, !.blk = blk]
<1>1. x.blk \in Blocks
  BY DEF Entries
<1>2. blk \in Blocks /\ blk.at = at
  BY <1>1 DEF Blocks
<1> HIDE DEF blk
<1>3. e \in Entries
  BY <1>2 DEF Entries
<1>4. e.own /\ e.blk = blk /\ e.cont = x.cont /\ e.img = x.img
  BY DEF Entries
<1> HIDE DEF e
<1>5. LooseCopy(x, at, e)
  BY <1>2, <1>3, <1>4 DEF LooseCopy
<1> QED  BY <1>5 DEF e, blk

PutCopy(x, at, k, g) == g \in Entries /\ g.own /\ g.blk.at = at /\ g.cont = k /\ g.img = x.img

LEMMA CopyPut ==
  ASSUME NEW x, NEW at, NEW e, LooseCopy(x, at, e), NEW k \in Int, NEW g, g = [e EXCEPT !.cont = k]
  PROVE  PutCopy(x, at, k, g)
<1>1. e \in Entries /\ e.own /\ e.blk.at = at /\ e.img = x.img
  BY DEF LooseCopy
<1>2. g \in Entries
  BY <1>1 DEF Entries
<1>3. g.blk = e.blk /\ g.cont = k /\ g.img = e.img
  BY <1>1 DEF Entries
<1>4. g.own
  BY <1>1 DEF Entries
<1> QED  BY <1>1, <1>2, <1>3, <1>4 DEF PutCopy

(* The entry that matched has neither container nor image. *)
Unplaced(j, c, hit) ==
  hit = 0 \/ (hit \in 1..Len(c.pid) /\ c.pid[hit].cont = 0 /\ c.pid[hit].img = 0 /\ LoosePids(j))

(* For a process of an unknown container: an entry made at run time. *)
LEMMA ReconstructGood ==
  ASSUME NEW j, NEW c, NEW id \in Containers, NEW psig \in Cmds, NEW hit, Good(j, c), Unplaced(j, c, hit),
         \A x \in 1..Len(c.cont) : c.cont[x].id # id
  PROVE  LET f == Reconstruct(c, id, psig, hit)
         IN Detected(j, c, id, f.conf, f.param) /\ f.shared = f.param
<1> DEFINE k == Len(c.cont) + 1
           n == Len(c.pid) + 1
           new == [sig |-> psig, own |-> FALSE, blk |-> Global, cont |-> k, img |-> 0]
           pids == IF hit = 0 THEN << >> ELSE <<hit>>
           group == [id |-> id, own |-> FALSE, ccrt |-> TRUE, blk |-> Global, img |-> 0, pids |-> pids]
           g == NewCont(c, group)
           copy == [CopyLoose(c, hit) EXCEPT !.cont = k]
           e == IF hit = 0 THEN new ELSE copy
           m == IF hit = 0 THEN k ELSE 0
           d == NewPid(g, e, m, 0)
           f == Reconstruct(c, id, psig, hit)
<1>1. f.conf = d /\ f.param = n /\ f.shared = n
  BY DEF Reconstruct
<1>2. /\ c \in Confs /\ Len(c.img) \in Nat /\ Len(c.cont) \in Nat /\ Len(c.pid) \in Nat /\ n \in Nat /\ k \in Nat
      /\ DOMAIN c.img = 1..Len(c.img) /\ DOMAIN c.cont = 1..Len(c.cont) /\ DOMAIN c.pid = 1..Len(c.pid)
  BY GoodFacts, ConfFields
<1>3. /\ pids \in Seq(Nat) /\ ToSet(pids) = IF hit = 0 THEN {} ELSE {hit}
  <2>1. CASE hit = 0
    BY <2>1, ToSetEmpty
  <2>2. CASE hit # 0
    BY <1>2, <2>2, ToSetOne DEF Unplaced
  <2> QED  BY <2>1, <2>2
<1> HIDE DEF pids
<1>4. /\ group \in Conts /\ group.id = id /\ ~group.own /\ group.ccrt /\ group.blk = Global /\ group.img = 0
      /\ group.pids = pids
  BY <1>3, GlobalFacts, NamesFacts DEF Conts
<1> HIDE DEF group
<1>5. ContAdded(c, g, group, 0)
  BY <1>2, <1>4, NewContFacts
<1>6. ContOK(c, group)
  BY <1>2, <1>3, <1>4 DEF ContOK, Unplaced
<1>7. Brings(c, group, <<"cont", k>>)
  BY <1>4, GlobalFacts DEF Brings
<1>8. Comes(j, c, group, 0)
  BY <1>4 DEF Comes
<1>9. /\ LoosePids(j) \/ (ToSet(group.pids) = {} /\ 0 \notin 1..Len(c.img))
      /\ \A p \in ToSet(group.pids) : c.pid[p].cont = 0 /\ c.pid[p].img = 0
  BY <1>3, <1>4 DEF Unplaced
<1> HIDE DEF g
<1>10. Good(j, g) /\ Kept(c, g)
  BY <1>4, <1>5, <1>6, <1>7, <1>8, <1>9, ContAddedGood
<1>11. /\ g \in Confs /\ Len(g.cont) = k /\ Len(g.img) = Len(c.img) /\ g.pid = c.pid /\ g.cont[k] = group
       /\ DOMAIN g.cont = 1..k /\ k # 0
  <2>1. g \in Confs /\ Len(g.cont) = k /\ Len(g.img) = Len(c.img) /\ g.pid = c.pid /\ g.cont[k] = group
    BY <1>5 DEF ContAdded
  <2> QED  BY <1>2, <2>1, ConfFields
<1>12. e \in Entries /\ e.cont = k /\ e.img = 0 /\ Brings(g, e, <<"pid", n>>)
  <2>1. CASE hit = 0
    <3>1. /\ new \in Entries /\ new.cont = k /\ new.img = 0 /\ ~new.own /\ new.blk = Global
      BY <1>2, GlobalFacts DEF Entries
    <3> HIDE DEF new
    <3>2. e = new
      BY <2>1
    <3> HIDE DEF e
    <3> QED  BY <3>1, <3>2, GlobalFacts DEF Brings
  <2>2. CASE hit # 0
    <3>1. c.pid[hit] \in Entries /\ <<"pid", n>> \in {"global", "img", "cont", "pid"} \X Nat /\ c.pid[hit].img = 0
      BY <1>2, <2>2, GoodFacts DEF Unplaced
    <3>2. LooseCopy(c.pid[hit], <<"pid", n>>, CopyLoose(c, hit))
      BY <3>1, LooseCopied DEF CopyLoose
    <3>3. PICK b : b = CopyLoose(c, hit)
      OBVIOUS
    <3>4. copy = [b EXCEPT !.cont = k]
      BY <3>3
    <3> HIDE DEF copy, k
    <3>5. copy \in Entries /\ copy.own /\ copy.blk.at = <<"pid", n>> /\ copy.cont = k /\ copy.img = c.pid[hit].img
      <4>1. k \in Int
        BY <1>2
      <4>2. LooseCopy(c.pid[hit], <<"pid", n>>, b)
        BY <3>2, <3>3
      <4>3. PutCopy(c.pid[hit], <<"pid", n>>, k, copy)
        BY <3>4, <4>1, <4>2, CopyPut
      <4> QED  BY <4>3 DEF PutCopy
    <3>6. e = copy
      BY <2>2
    <3> HIDE DEF e
    <3> QED  BY <3>1, <3>5, <3>6 DEF Brings
  <2> QED  BY <2>1, <2>2
<1> HIDE DEF e, k, d, f
<1>13. PidAdded(g, d, e, m, 0)
  BY <1>11, <1>12, NewPidFacts DEF d
<1>14. PidOK(g, e)
  BY <1>2, <1>11, <1>12 DEF PidOK
<1>15. Good(j, d) /\ Kept(g, d)
  <2>1. e.cont # 0 /\ 0 \notin 1..Len(g.img) /\ Brings(g, e, <<"pid", Len(g.pid) + 1>>)
    BY <1>11, <1>12
  <2>2. m \in 1..Len(g.cont) => e.cont = m
    BY <1>12
  <2> HIDE DEF m
  <2> QED  BY <1>10, <1>12, <1>13, <1>14, <2>1, <2>2, PidAddedGood
<1>16. Kept(c, d)
  BY <1>2, <1>10, <1>11, <1>15, KeptTwice, GoodIsConf
<1>17. /\ Len(d.cont) = k /\ Len(d.pid) = n /\ d.pid[n] = e /\ d.cont[k].id = id
  <2>1. k \in 1..Len(g.cont)
    BY <1>2, <1>11
  <2>2. Len(d.cont) = Len(g.cont) /\ d.cont[k].id = g.cont[k].id /\ Len(d.pid) = Len(g.pid) + 1 /\ d.pid[Len(g.pid) + 1] = e
    BY <1>13, <2>1 DEF PidAdded, Same
  <2> QED  BY <1>4, <1>11, <2>2
<1>18. Unseen(j, c, d)
  <2>1. ASSUME NEW x \in 1..Len(d.cont), NEW y \in 1..Len(c.cont), x > Len(c.cont)
        PROVE  d.cont[x].id # c.cont[y].id
    <3>1. x = k
      BY <1>2, <1>17, <2>1 DEF k
    <3> QED  BY <1>17, <3>1
  <2> QED  BY <2>1 DEF Unseen
<1>19. Fits(j, d, n, id) /\ n \in 0..Len(d.pid)
  <2>1. n \in 0..Len(d.pid)
    BY <1>2, <1>17
  <2>2. ~(k < 0)
    BY <1>2
  <2> HIDE DEF n
  <2> QED  BY <1>12, <1>17, <2>1, <2>2 DEF Fits
<1> HIDE DEF n
<1>20. Detected(j, c, id, d, n)
  BY <1>15, <1>16, <1>18, <1>19 DEF Detected
<1> QED  BY <1>1, <1>20 DEF f

(* For a process no container entry fits. *)
LEMMA FindLooseGood ==
  ASSUME NEW j, NEW c, NEW id \in Containers \cup {None}, NEW psig \in Cmds \cup {NoCmd},
         NEW ghosts \in SUBSET (1..Len(c.pid)), Good(j, c), \A x \in 1..Len(c.cont) : c.cont[x].id # id
  PROVE  LET f == FindLoose(c, id, psig, ghosts)
         IN Detected(j, c, id, f.conf, f.param) /\ f.shared \in {0, f.param}
<1> DEFINE S == {p \in Matches(c, psig, ghosts) : c.pid[p].cont = 0 /\ c.pid[p].img = 0}
           hit == Newest(S)
           f == FindLoose(c, id, psig, ghosts)
           n == Len(c.pid) + 1
           e == CopyLoose(c, hit)
           d == NewPid(c, e, 0, 0)
<1>1. /\ c \in Confs /\ Len(c.img) \in Nat /\ Len(c.cont) \in Nat /\ Len(c.pid) \in Nat /\ n \in Nat
      /\ DOMAIN c.img = 1..Len(c.img) /\ DOMAIN c.cont = 1..Len(c.cont) /\ DOMAIN c.pid = 1..Len(c.pid)
  BY GoodFacts, ConfFields
<1>2. f = IF id # None /\ psig # NoCmd THEN Reconstruct(c, id, psig, hit)
          ELSE IF hit = 0 THEN [conf |-> c, param |-> 0, shared |-> 0]
          ELSE [conf |-> d, param |-> n, shared |-> 0]
  BY DEF FindLoose
<1>3. Matches(c, psig, ghosts) \in SUBSET (1..Len(c.pid))
  BY <1>1 DEF Matches
<1>4. S \in SUBSET (1..Len(c.pid)) /\ \A p \in S : c.pid[p].cont = 0 /\ c.pid[p].img = 0
  BY <1>3
<1> HIDE DEF S
<1>5. hit = 0 \/ hit \in S
  BY <1>1, <1>4, NewestFacts
<1> HIDE DEF hit, f
<1>6. Unplaced(j, c, hit)
  <2>1. CASE hit = 0
    BY <2>1 DEF Unplaced
  <2>2. CASE hit \in S
    <3>1. hit \in 1..Len(c.pid) /\ c.pid[hit].cont = 0 /\ c.pid[hit].img = 0
      BY <1>4, <2>2
    <3>2. LoosePids(j)
      BY <3>1 DEF Good, Linking
    <3> QED  BY <3>1, <3>2 DEF Unplaced
  <2> QED  BY <1>5, <2>1, <2>2
<1>7. CASE id # None /\ psig # NoCmd
  <2>1. id \in Containers /\ psig \in Cmds /\ f = Reconstruct(c, id, psig, hit)
    BY <1>2, <1>7
  <2> QED  BY <1>6, <2>1, ReconstructGood DEF f
<1>8. CASE ~(id # None /\ psig # NoCmd) /\ hit = 0
  <2>1. f = [conf |-> c, param |-> 0, shared |-> 0]
    BY <1>2, <1>8
  <2>2. 0 \in 0..Len(c.pid)
    BY <1>1
  <2>3. Detected(j, c, id, c, 0)
    BY <2>2, SameDetected
  <2> QED  BY <2>1, <2>3 DEF f
<1>9. CASE ~(id # None /\ psig # NoCmd) /\ hit # 0
  <2>1. f = [conf |-> d, param |-> n, shared |-> 0]
    BY <1>2, <1>9
  <2>2. /\ hit \in 1..Len(c.pid) /\ c.pid[hit].cont = 0 /\ c.pid[hit].img = 0 /\ LoosePids(j)
        /\ c.pid[hit] \in Entries /\ <<"pid", n>> \in {"global", "img", "cont", "pid"} \X Nat
    BY <1>1, <1>6, <1>9, GoodFacts DEF Unplaced
  <2>3. LooseCopy(c.pid[hit], <<"pid", n>>, e)
    BY <2>2, LooseCopied DEF CopyLoose
  <2> HIDE DEF e, n, d
  <2>4. e \in Entries /\ e.own /\ e.blk.at = <<"pid", n>> /\ e.cont = 0 /\ e.img = 0
    BY <2>2, <2>3 DEF LooseCopy
  <2>5. PidAdded(c, d, e, 0, 0)
    BY <1>1, <2>4, NewPidFacts DEF d
  <2>6. PidOK(c, e) /\ Brings(c, e, <<"pid", n>>) /\ 0 \notin 1..Len(c.cont) /\ 0 \notin 1..Len(c.img)
    <3>1. PidOK(c, e)
      BY <1>1, <2>4 DEF PidOK
    <3>2. Brings(c, e, <<"pid", n>>)
      BY <2>4 DEF Brings
    <3> QED  BY <3>1, <3>2
  <2>7. Good(j, d) /\ Kept(c, d)
    BY <2>2, <2>5, <2>6, PidAddedGood DEF n
  <2>8. e.cont \in Nat /\ ~(e.cont # 0)
    BY <2>4
  <2>9. Detected(j, c, id, d, n)
    BY <2>5, <2>7, <2>8, NewDetected DEF n
  <2> QED  BY <2>1, <2>9 DEF f
<1> QED  BY <1>7, <1>8, <1>9

(* findPidParameters() for any process. *)
LEMMA FindPidGood ==
  ASSUME NEW j, NEW c, NEW id \in Containers \cup {None}, NEW psig \in Cmds \cup {NoCmd},
         NEW ghosts \in SUBSET (1..Len(c.pid)), Good(j, c)
  PROVE  LET f == FindPid(c, id, psig, ghosts)
         IN Detected(j, c, id, f.conf, f.param) /\ f.shared \in {0, f.param}
<1> DEFINE S == {x \in DOMAIN c.cont : c.cont[x].id = id}
           k == Newest(S)
           f == FindPid(c, id, psig, ghosts)
<1>1. /\ c \in Confs /\ Len(c.cont) \in Nat /\ DOMAIN c.cont = 1..Len(c.cont)
  BY GoodFacts, ConfFields
<1>2. f = IF k # 0 THEN FindInCont(c, k, psig, ghosts) ELSE FindLoose(c, id, psig, ghosts)
  BY DEF FindPid
<1>3. S \in SUBSET (1..Len(c.cont)) /\ S = {x \in 1..Len(c.cont) : c.cont[x].id = id}
  BY <1>1
<1> HIDE DEF S
<1>4. \/ S = {} /\ k = 0
      \/ k \in S /\ k # 0
  BY <1>1, <1>3, NewestFacts
<1> HIDE DEF k, f
<1>5. CASE k # 0
  <2>1. k \in 1..Len(c.cont) /\ c.cont[k].id = id
    BY <1>3, <1>4, <1>5
  <2>2. c.cont[k] \in Conts
    BY <2>1, GoodFacts
  <2>3. id \in Containers
    BY <2>1, <2>2 DEF Conts, Text
  <2>4. f = FindInCont(c, k, psig, ghosts)
    BY <1>2, <1>5
  <2> QED  BY <2>1, <2>3, <2>4, FindInContGood DEF f
<1>6. CASE k = 0
  <2>1. \A x \in 1..Len(c.cont) : c.cont[x].id # id
    BY <1>3, <1>4, <1>6
  <2>2. f = FindLoose(c, id, psig, ghosts)
    BY <1>2, <1>6
  <2> QED  BY <2>1, <2>2, FindLooseGood DEF f
<1> QED  BY <1>5, <1>6

(***************************************************************************)
(* What the properties of the run need of the configuration.               *)
(***************************************************************************)
LEMMA RankFacts ==
  /\ \A b \in Blocks : Rank(b) \in 0..3
  /\ Rank(Global) = 0
<1>1. ASSUME NEW b \in Blocks PROVE Rank(b) \in 0..3
  <2>1. b.at[1] \in {"global", "img", "cont", "pid"}
    BY DEF Blocks
  <2> QED  BY <2>1 DEF Rank
<1>2. Global.at[1] = "global"
  BY DEF Global
<1>3. Rank(Global) = 0
  BY <1>2 DEF Rank
<1> QED  BY <1>1, <1>3

(* Settings known for a container do not become less specific. *)
LEMMA LevelKept ==
  ASSUME NEW j, NEW c, NEW d, NEW id \in Containers, Good(j, c), Good(j, d), Kept(c, d), Unseen(j, c, d),
         ~NamedTwice(j)
  PROVE  Level(d, id) >= Level(c, id)
<1> DEFINE S == {y \in DOMAIN c.cont : c.cont[y].id = id}
           T == {y \in DOMAIN d.cont : d.cont[y].id = id}
           x == Newest(S)
           y == Newest(T)
<1>1. /\ c \in Confs /\ Len(c.cont) \in Nat /\ DOMAIN c.cont = 1..Len(c.cont)
      /\ d \in Confs /\ Len(d.cont) \in Nat /\ DOMAIN d.cont = 1..Len(d.cont) /\ Len(c.cont) <= Len(d.cont)
  BY GoodFacts, ConfFields DEF Kept
<1>2. /\ Level(c, id) = (IF x = 0 THEN -1 ELSE Rank(c.cont[x].blk))
      /\ Level(d, id) = (IF y = 0 THEN -1 ELSE Rank(d.cont[y].blk))
  BY DEF Level
<1>3. /\ S = {z \in 1..Len(c.cont) : c.cont[z].id = id} /\ S \in SUBSET (1..Len(c.cont))
      /\ T = {z \in 1..Len(d.cont) : d.cont[z].id = id} /\ T \in SUBSET (1..Len(d.cont))
  BY <1>1
<1> HIDE DEF S, T
<1>4. \/ S = {} /\ x = 0
      \/ x \in S /\ x # 0 /\ \A z \in S : z <= x
  BY <1>1, <1>3, NewestFacts
<1>5. \/ T = {} /\ y = 0
      \/ y \in T /\ y # 0 /\ \A z \in T : z <= y
  BY <1>1, <1>3, NewestFacts
<1> HIDE DEF x, y
<1>6. y # 0 => Rank(d.cont[y].blk) \in 0..3
  <2>1. ASSUME y # 0 PROVE d.cont[y].blk \in Blocks
    <3>1. y \in 1..Len(d.cont)
      BY <1>3, <1>5, <2>1
    <3> QED  BY <3>1, GoodFacts
  <2> QED  BY <2>1, RankFacts
<1>7. CASE x = 0
  <2>1. Level(c, id) = -1 /\ Level(d, id) \in -1..3
    BY <1>2, <1>6, <1>7
  <2> QED  BY <2>1
<1>8. CASE x # 0
  <2>1. x \in 1..Len(c.cont) /\ c.cont[x].id = id /\ \A z \in S : z <= x
    BY <1>3, <1>4, <1>8
  <2>2. x \in 1..Len(d.cont) /\ d.cont[x].id = id
    BY <1>1, <2>1 DEF Kept
  <2>3. y \in 1..Len(d.cont) /\ d.cont[y].id = id /\ x <= y /\ y # 0
    BY <1>3, <1>5, <2>2
  <2>4. y <= Len(c.cont)
    BY <1>1, <2>1, <2>3 DEF Unseen
  <2>5. y \in S
    <3>1. y \in 1..Len(c.cont)
      BY <1>1, <2>3, <2>4
    <3> QED  BY <1>3, <2>3, <3>1 DEF Kept
  <2>6. y = x
    BY <1>1, <2>1, <2>3, <2>5
  <2>7. d.cont[x].blk = c.cont[x].blk \/ c.cont[x].blk = Global
    BY <2>1 DEF Kept
  <2>8. Level(c, id) = Rank(c.cont[x].blk) /\ Level(d, id) = Rank(d.cont[x].blk) /\ Rank(d.cont[x].blk) \in 0..3
    BY <1>2, <1>6, <1>8, <2>3, <2>6
  <2> QED  BY <2>7, <2>8, RankFacts
<1> QED  BY <1>7, <1>8

(* What a step does to the settings that are known. *)
Settled(j, c, d) ==
  /\ ~NamedTwice(j) => \A k \in Containers : Level(d, k) >= Level(c, k)
  /\ Len(c.pid) <= Len(d.pid)
  /\ \A p \in 1..Len(c.pid) : d.pid[p].blk = c.pid[p].blk

(* What is kept does not become less specific. *)
LEMMA KeptSettled ==
  ASSUME NEW j, NEW c, NEW d, Good(j, c), Good(j, d), Kept(c, d), Unseen(j, c, d)
  PROVE  Settled(j, c, d)
<1>1. ~NamedTwice(j) => \A k \in Containers : Level(d, k) >= Level(c, k)
  BY LevelKept
<1> QED  BY <1>1 DEF Settled, Kept

(* Parameters that fit a container go on to do so. *)
LEMMA FitsKept ==
  ASSUME NEW j, NEW c, NEW d, NEW p \in 1..Len(c.pid), NEW id, Good(j, c), Kept(c, d), Fits(j, c, p, id)
  PROVE  Fits(j, d, p, id)
<1>1. PICK k : k = c.pid[p].cont
  OBVIOUS
<1>2. PidOK(c, c.pid[p]) /\ Len(c.img) \in Nat /\ Len(c.cont) \in Nat
  BY ConfOKIs, GoodFacts DEF Good
<1>3. k \in -Len(c.img)..Len(c.cont) /\ d.pid[p].cont = k
  BY <1>1, <1>2 DEF PidOK, Kept
<1>4. CASE k < 0
  <2>1. PICK i : i = -k
    OBVIOUS
  <2>2. i \in 1..Len(c.img) /\ Concerns(j, c.img[i].id, id)
    BY <1>1, <1>2, <1>3, <1>4, <2>1 DEF Fits
  <2>3. d.img[i].id = c.img[i].id
    BY <2>2 DEF Kept
  <2> QED  BY <1>3, <1>4, <2>1, <2>2, <2>3 DEF Fits
<1>5. CASE ~(k < 0)
  <2>1. k # 0 => k \in 1..Len(c.cont) /\ c.cont[k].id = id
    BY <1>1, <1>2, <1>3, <1>5 DEF Fits
  <2> QED  BY <1>3, <1>5, <2>1 DEF Fits, Kept
<1> QED  BY <1>4, <1>5

(* d is c but for a signature whose memory was freed. *)
SigFreed(c, d) ==
  /\ c \in Confs /\ d \in Confs /\ d.img = c.img /\ d.cont = c.cont /\ Len(d.pid) = Len(c.pid)
  /\ \A p \in 1..Len(c.pid) : /\ d.pid[p].cont = c.pid[p].cont /\ d.pid[p].img = c.pid[p].img
                              /\ d.pid[p].blk = c.pid[p].blk /\ (d.pid[p].own <=> c.pid[p].own)

LEMMA FreedFacts ==
  ASSUME NEW c \in Confs, NEW p \in 1..Len(c.pid)
  PROVE  SigFreed(c, [c EXCEPT !.pid[p].sig = Freed])
<1> DEFINE e == [c.pid[p] EXCEPT !.sig = Freed]
           list == [c.pid EXCEPT ![p] = e]
           d == [c EXCEPT !.pid = list]
<1>1. c.pid \in Seq(Entries) /\ c.pid[p] \in Entries /\ Len(c.pid) \in Nat
  BY ConfFields
<1>2. e \in Entries
  BY <1>1 DEF Entries
<1>3. e.cont = c.pid[p].cont /\ e.img = c.pid[p].img /\ e.blk = c.pid[p].blk /\ (e.own <=> c.pid[p].own)
  BY <1>1 DEF Entries
<1> HIDE DEF e
<1>4. list \in Seq(Entries) /\ Len(list) = Len(c.pid) /\ list[p] = e
  BY <1>1, <1>2
<1>5. \A x \in 1..Len(c.pid) : x # p => list[x] = c.pid[x]
  BY <1>1
<1> HIDE DEF list
<1>6. d = [img |-> c.img, cont |-> c.cont, pid |-> list]
  BY ExceptFields, Zenon
<1> HIDE DEF d
<1>7. d \in Confs /\ d.img = c.img /\ d.cont = c.cont /\ d.pid = list
  <2>1. c.img \in Seq(Images) /\ c.cont \in Seq(Conts)
    BY ConfFields
  <2> QED  BY <1>4, <1>6, <2>1 DEF Confs
<1>8. ASSUME NEW x \in 1..Len(c.pid)
      PROVE  /\ d.pid[x].cont = c.pid[x].cont /\ d.pid[x].img = c.pid[x].img
             /\ d.pid[x].blk = c.pid[x].blk /\ (d.pid[x].own <=> c.pid[x].own)
  <2>1. CASE x = p
    BY <1>3, <1>4, <1>7, <2>1
  <2>2. CASE x # p
    BY <1>5, <1>7, <2>2
  <2> QED  BY <2>1, <2>2
<1>9. SigFreed(c, d)
  BY <1>4, <1>7, <1>8 DEF SigFreed
<1> QED  BY <1>9 DEF d, list, e

(* A signature that is freed changes nothing the invariant is about. *)
LEMMA FreedGood ==
  ASSUME NEW j, NEW c, NEW d, Good(j, c), SigFreed(c, d)
  PROVE  Good(j, d) /\ Settled(j, c, d) /\ \A id : \A p \in 1..Len(c.pid) : Fits(j, c, p, id) => Fits(j, d, p, id)
<1>1. /\ d \in Confs /\ d.img = c.img /\ d.cont = c.cont /\ Len(d.pid) = Len(c.pid)
      /\ DOMAIN c.pid = 1..Len(c.pid) /\ DOMAIN d.pid = 1..Len(c.pid)
      /\ Len(c.pid) \in Nat
  BY ConfFields DEF SigFreed
<1>2. \A p \in DOMAIN c.pid : /\ d.pid[p].cont = c.pid[p].cont /\ d.pid[p].img = c.pid[p].img
                               /\ d.pid[p].blk = c.pid[p].blk /\ (d.pid[p].own <=> c.pid[p].own)
  BY <1>1 DEF SigFreed
<1>3. ConfOK(c) /\ Owning(c) /\ Origins(j, c)
  BY DEF Good
<1>4. ConfOK(d)
  <2>1. ASSUME NEW p \in 1..Len(d.pid) PROVE PidOK(d, d.pid[p])
    <3>1. PidOK(c, c.pid[p])
      BY <1>1, <1>3, ConfOKIs
    <3> QED  BY <1>1, <1>2, <3>1 DEF PidOK
  <2>2. ASSUME NEW k \in 1..Len(d.cont) PROVE ContOK(d, d.cont[k])
    <3>1. ContOK(c, c.cont[k])
      BY <1>1, <1>3, ConfOKIs
    <3> QED  BY <1>1, <3>1 DEF ContOK
  <2>3. ASSUME NEW i \in 1..Len(d.img) PROVE ImgOK(d, d.img[i])
    <3>1. ImgOK(c, c.img[i])
      BY <1>1, <1>3, ConfOKIs
    <3> QED  BY <1>1, <3>1 DEF ImgOK
  <2> QED  BY <1>1, <2>1, <2>2, <2>3, ConfOKIs
<1>5. Owning(d)
  <2>1. ASSUME NEW at, Owner(c, at) PROVE Owner(d, at)
    BY <1>1, <1>2, <2>1 DEF Owner
  <2>2. /\ \A i \in 1..Len(c.img) : Owner(d, c.img[i].blk.at) /\ (c.img[i].own => c.img[i].blk.at = <<"img", i>>)
        /\ \A k \in 1..Len(c.cont) : Owner(d, c.cont[k].blk.at) /\ (c.cont[k].own => c.cont[k].blk.at = <<"cont", k>>)
        /\ \A p \in 1..Len(c.pid) : Owner(d, c.pid[p].blk.at) /\ (c.pid[p].own => c.pid[p].blk.at = <<"pid", p>>)
    BY <1>3, <2>1 DEF Owning
  <2> QED  BY <1>1, <1>2, <2>2 DEF Owning
<1>6. Origins(j, d)
  BY <1>1, <1>3 DEF Origins
<1>7. ASSUME NEW x \in 1..Len(c.cont) PROVE ToSet(c.cont[x].pids) \subseteq DOMAIN c.pid
  BY <1>3, ConfOKIs DEF ContOK
<1>8. ASSUME NEW x \in 1..Len(c.img) PROVE ToSet(c.img[x].pids) \subseteq DOMAIN c.pid
  BY <1>3, ConfOKIs DEF ImgOK
<1>9. LoosePids(j) \/ Linking(d)
  <2>1. ASSUME Linking(c) PROVE Linking(d)
    BY <1>1, <1>2, <1>7, <1>8, <2>1 DEF Linking
  <2> QED  BY <2>1 DEF Good
<1>10. NestedPids(j) \/ Placing(j, d)
  <2>1. ASSUME Placing(j, c) PROVE Placing(j, d)
    BY <1>1, <1>2, <1>7, <1>8, <2>1 DEF Placing
  <2> QED  BY <2>1 DEF Good
<1>11. Good(j, d)
  BY <1>3, <1>4, <1>5, <1>6, <1>9, <1>10 DEF Good
<1>12. Settled(j, c, d)
  <2>1. ASSUME NEW k \in Containers PROVE Level(d, k) >= Level(c, k)
    <3>1. Level(d, k) = Level(c, k)
      BY <1>1 DEF Level
    <3>2. Level(c, k) \in Int
      <4>1. c \in Confs /\ DOMAIN c.cont = 1..Len(c.cont) /\ Len(c.cont) \in Nat
        BY ConfFields DEF SigFreed
      <4> DEFINE S == {y \in DOMAIN c.cont : c.cont[y].id = k}
                 x == Newest(S)
      <4>2. S \in SUBSET (1..Len(c.cont))
        BY <4>1
      <4>3. Level(c, k) = IF x = 0 THEN -1 ELSE Rank(c.cont[x].blk)
        BY DEF Level
      <4> HIDE DEF S
      <4>4. x = 0 \/ x \in 1..Len(c.cont)
        BY <4>1, <4>2, NewestFacts
      <4> HIDE DEF x
      <4>5. x = 0 \/ c.cont[x].blk \in Blocks
        BY <4>4, GoodFacts
      <4>6. x = 0 \/ Rank(c.cont[x].blk) \in 0..3
        BY <4>5, RankFacts
      <4> QED  BY <4>3, <4>6
    <3> QED  BY <3>1, <3>2
  <2> QED  BY <1>1, <1>2, <2>1 DEF Settled
<1>13. ASSUME NEW p \in 1..Len(c.pid), NEW id, Fits(j, c, p, id) PROVE Fits(j, d, p, id)
  BY <1>1, <1>2, <1>13 DEF Fits
<1> QED  BY <1>11, <1>12, <1>13

(***************************************************************************)
(* The invariant of the run, and that each action keeps it.                *)
(***************************************************************************)
Node(c) == [pid : BOOLEAN, psig : Cmds \cup {NoCmd}, upd : BOOLEAN,
            param : 0 .. Len(c.pid), shared : 0 .. Len(c.pid)]

(* Process p has this node: a process that is not listed has no parameters. *)
NodeOK(j, m, c, p, x) ==
  /\ x \in Node(c) /\ x.shared \in {0, x.param} /\ (x.pid \/ x.param = 0)
  /\ m # "CGRP" \/ x.param = 0 \/ NestedPids(j) \/ Fits(j, c, x.param, ContOf[p])

Inv ==
  /\ json \in Inputs /\ mode \in Modes /\ alive \in BOOLEAN
  /\ cmd \in [Pids -> Cmds] /\ cpuset \in [Containers -> Settings \cup {None}]
  /\ Good(json, conf)
  /\ nodes \in [Pids -> Node(conf)]
  /\ \A p \in Pids : NodeOK(json, mode, conf, p, nodes[p])

(* What a step makes of the configuration. *)
Changed(j, c, d) ==
  /\ Good(j, d) /\ Settled(j, c, d)
  /\ \A id : \A p \in 1..Len(c.pid) : Fits(j, c, p, id) => Fits(j, d, p, id)

(* A process keeps its parameters. *)
ParamKept(x, y) == x.param # 0 /\ y.param # 0 => y.param = x.param

LEMMA KeptChanged ==
  ASSUME NEW j, NEW c, NEW d, Good(j, c), Good(j, d), Kept(c, d), Unseen(j, c, d)
  PROVE  Changed(j, c, d)
<1>1. Settled(j, c, d)
  BY KeptSettled
<1>2. ASSUME NEW p \in 1..Len(c.pid), NEW id, Fits(j, c, p, id) PROVE Fits(j, d, p, id)
  BY <1>2, FitsKept
<1> QED  BY <1>1, <1>2 DEF Changed

LEMMA SameChanged ==
  ASSUME NEW j, NEW c, Good(j, c)
  PROVE  Changed(j, c, c)
<1>1. c \in Confs /\ Len(c.cont) \in Nat
  BY GoodFacts
<1>2. Unseen(j, c, c) /\ Kept(c, c)
  BY <1>1, KeptSame DEF Unseen
<1> QED  BY <1>2, KeptChanged

(* A node with its old parameters agrees with the new configuration. *)
LEMMA NodeChanged ==
  ASSUME NEW j, NEW m, NEW c, NEW d, NEW p \in Pids, NEW x, NEW y, Good(j, c), Changed(j, c, d),
         NodeOK(j, m, c, p, x), y \in Node(c), y.param = x.param, y.shared \in {0, x.shared},
         y.pid \/ y.param = 0
  PROVE  y \in Node(d) /\ NodeOK(j, m, d, p, y) /\ ParamKept(x, y)
<1>1. Len(c.pid) \in Nat /\ Len(d.pid) \in Nat /\ Len(c.pid) <= Len(d.pid)
  BY GoodFacts DEF Changed, Settled
<1>2. y \in Node(d)
  BY <1>1 DEF Node
<1>3. y.param \in 0..Len(c.pid)
  BY DEF Node
<1>4. m # "CGRP" \/ y.param = 0 \/ NestedPids(j) \/ Fits(j, d, y.param, ContOf[p])
  <2>1. ASSUME Fits(j, c, y.param, ContOf[p]), y.param # 0 PROVE Fits(j, d, y.param, ContOf[p])
    <3>1. y.param \in 1..Len(c.pid)
      BY <1>1, <1>3, <2>1
    <3> QED  BY <2>1, <3>1 DEF Changed
  <2> QED  BY <2>1 DEF NodeOK
<1>5. y.shared \in {0, y.param}
  BY DEF NodeOK
<1>6. NodeOK(j, m, d, p, y)
  BY <1>2, <1>4, <1>5 DEF NodeOK
<1> QED  BY <1>2, <1>6 DEF ParamKept

LEMMA NodeStays ==
  ASSUME NEW j, NEW m, NEW c, NEW d, NEW p \in Pids, NEW x, Good(j, c), Changed(j, c, d), NodeOK(j, m, c, p, x)
  PROVE  x \in Node(d) /\ NodeOK(j, m, d, p, x) /\ ParamKept(x, x)
<1>1. x \in Node(c) /\ (x.pid \/ x.param = 0)
  BY DEF NodeOK
<1>2. x.shared \in {0, x.shared}
  OBVIOUS
<1> QED  BY <1>1, <1>2, NodeChanged

(* setContainerAffinity(): what is written is the value of a block, or nothing. *)
LEMMA WriteSetFacts ==
  ASSUME NEW id, NEW blk \in Blocks, cpuset \in [Containers -> Settings \cup {None}], WriteSet(id, blk)
  PROVE  cpuset' \in [Containers -> Settings \cup {None}]
<1>1. PICK v : v = IF MaskOf(blk) = "empty" THEN None ELSE blk.val
  OBVIOUS
<1>2. v \in Settings \cup {None}
  <2>1. blk.val \in Settings
    BY DEF Blocks
  <2> QED  BY <1>1, <2>1
<1>3. cpuset' = [cpuset EXCEPT ![id] = v]
  BY <1>1 DEF WriteSet
<1> QED  BY <1>2, <1>3

(* setPidResources_u(): only the CPU set and the mark of the node change. *)
LEMMA WriteFacts ==
  ASSUME NEW p \in Pids, NEW j, NEW c, NEW node, NEW failed, Good(j, c), node.param \in 1..Len(c.pid),
         cpuset \in [Containers -> Settings \cup {None}], Write(p, c, node, failed)
  PROVE  /\ cpuset' \in [Containers -> Settings \cup {None}]
         /\ \E u : nodes' = [nodes EXCEPT ![p] = [node EXCEPT !.upd = node.upd \/ u]]
<1> DEFINE k == c.pid[node.param].cont
           done == IF mode = "CGRP"
                   THEN k # 0 /\ MaskOf(ContBlock(c, k)) # "null" /\ "set" \notin failed
                   ELSE failed \in {{}, Calls}
<1>1. /\ nodes' = [nodes EXCEPT ![p] = [node EXCEPT !.upd = node.upd \/ done]]
      /\ IF mode = "CGRP" /\ done THEN WriteSet(ContOf[p], ContBlock(c, k)) ELSE UNCHANGED cpuset
  BY Zenon DEF Write
<1>2. \E u : nodes' = [nodes EXCEPT ![p] = [node EXCEPT !.upd = node.upd \/ u]]
  BY <1>1, Zenon
<1>3. CASE mode = "CGRP" /\ done
  <2>1. k # 0 /\ k \in -Len(c.img)..Len(c.cont) /\ Len(c.img) \in Nat /\ Len(c.cont) \in Nat
    <3>1. PidOK(c, c.pid[node.param])
      BY ConfOKIs DEF Good
    <3> QED  BY <1>3, <3>1, GoodFacts DEF PidOK
  <2>2. ContBlock(c, k) \in Blocks
    <3>1. CASE k < 0
      <4>1. PICK i : i = -k
        OBVIOUS
      <4>2. i \in 1..Len(c.img)
        BY <2>1, <3>1, <4>1
      <4>3. c.img[i].blk \in Blocks
        BY <4>2, GoodFacts
      <4> QED  BY <3>1, <4>1, <4>3 DEF ContBlock
    <3>2. CASE ~(k < 0)
      <4>1. k \in 1..Len(c.cont)
        BY <2>1, <3>2
      <4>2. c.cont[k].blk \in Blocks
        BY <4>1, GoodFacts
      <4> QED  BY <3>2, <4>2 DEF ContBlock
    <3> QED  BY <3>1, <3>2
  <2>3. WriteSet(ContOf[p], ContBlock(c, k))
    BY <1>1, <1>3
  <2>4. PICK blk, id : blk = ContBlock(c, k) /\ id = ContOf[p]
    OBVIOUS
  <2> HIDE DEF done, k
  <2>5. blk \in Blocks /\ WriteSet(id, blk)
    BY <2>2, <2>3, <2>4
  <2> QED  BY <1>2, <2>5, WriteSetFacts
<1>4. CASE ~(mode = "CGRP" /\ done)
  <2>1. cpuset' = cpuset
    <3> HIDE DEF done, k
    <3> QED  BY <1>1, <1>4
  <2> QED  BY <1>2, <2>1
<1> QED  BY <1>3, <1>4

(* The invariant holds after the step, and nothing became less specific. *)
StepKeeps ==
  /\ Inv' /\ json' = json /\ Settled(json, conf, conf')
  /\ \A p \in Pids : ParamKept(nodes[p], nodes'[p])

(* A step is right if it is for each process and for the configuration. *)
LEMMA Together ==
  ASSUME Inv, json' = json, mode' = mode, alive' \in BOOLEAN, cmd' \in [Pids -> Cmds],
         cpuset' \in [Containers -> Settings \cup {None}], Changed(json, conf, conf'),
         NEW f, nodes' = [q \in Pids |-> f[q]],
         \A q \in Pids : /\ f[q] \in Node(conf') /\ NodeOK(json, mode, conf', q, f[q])
                         /\ ParamKept(nodes[q], f[q])
  PROVE  StepKeeps
<1>1. nodes' \in [Pids -> Node(conf')] /\ \A q \in Pids : nodes'[q] = f[q]
  OBVIOUS
<1>2. \A q \in Pids : NodeOK(json, mode, conf', q, nodes'[q]) /\ ParamKept(nodes[q], nodes'[q])
  BY <1>1
<1>3. ASSUME NEW q \in Pids PROVE NodeOK(json, mode, conf, q, nodes[q])'
  BY <1>2
<1>4. Node(conf)' = Node(conf') /\ Good(json, conf)'
  BY DEF Changed
<1>5. Inv'
  BY <1>1, <1>3, <1>4 DEF Inv
<1> QED  BY <1>2, <1>5 DEF StepKeeps, Changed

UpdSet(x, y) ==
  y.param = x.param /\ y.shared = x.shared /\ (y.pid <=> x.pid)

LEMMA UpdNode ==
  ASSUME NEW c, NEW x \in Node(c), NEW u \in BOOLEAN
  PROVE  [x EXCEPT !.upd = u] \in Node(c) /\ UpdSet(x, [x EXCEPT !.upd = u])
<1> DEFINE y == [x EXCEPT !.upd = u]
<1>1. y \in Node(c)
  BY DEF Node
<1>2. y.param = x.param /\ y.shared = x.shared /\ (y.pid <=> x.pid)
  BY DEF Node
<1> HIDE DEF y
<1>3. UpdSet(x, y)
  BY <1>2 DEF UpdSet
<1> QED  BY <1>1, <1>3 DEF y

(* The other processes stay, whatever is found for one. *)
LEMMA OneNode ==
  ASSUME Inv, json' = json, mode' = mode, alive' \in BOOLEAN, cmd' \in [Pids -> Cmds],
         cpuset' \in [Containers -> Settings \cup {None}], Changed(json, conf, conf'),
         NEW p \in Pids, NEW y, nodes' = [nodes EXCEPT ![p] = y],
         y \in Node(conf'), NodeOK(json, mode, conf', p, y), ParamKept(nodes[p], y)
  PROVE  StepKeeps
<1> DEFINE f == [q \in Pids |-> IF q = p THEN y ELSE nodes[q]]
<1>1. nodes' = [q \in Pids |-> f[q]]
  BY DEF Inv
<1>2. ASSUME NEW q \in Pids
      PROVE  f[q] \in Node(conf') /\ NodeOK(json, mode, conf', q, f[q]) /\ ParamKept(nodes[q], f[q])
  <2>1. CASE q = p
    BY <2>1
  <2>2. CASE q # p
    <3>1. f[q] = nodes[q]
      BY <2>2
    <3>2. NodeOK(json, mode, conf, q, nodes[q]) /\ Good(json, conf)
      BY DEF Inv
    <3> HIDE DEF f
    <3> QED  BY <3>1, <3>2, NodeStays
  <2> QED  BY <2>1, <2>2
<1> HIDE DEF f
<1> QED  BY <1>1, <1>2, Together

LEMMA SeenIdFacts ==
  ASSUME Inv, NEW p \in Pids
  PROVE  SeenId(p) \in Containers \cup {None} /\ (mode = "CGRP" => SeenId(p) = ContOf[p])
  BY ConfigAssumption DEF SeenId

(* setPidResources() for a new process. *)
LEMMA DetectKeeps ==
  ASSUME Inv, NEW p \in Pids, Detect(p)
  PROVE  StepKeeps
<1>0. PICK psig \in {cmd[p]} \cup (IF mode = "CGRP" THEN {NoCmd} ELSE {}),
           ghosts \in SUBSET {x \in DOMAIN conf.pid : conf.pid[x].sig = Freed}, failed \in SUBSET Calls :
        \E f \in {FindPid(conf, SeenId(p), psig, ghosts)} :
        LET node == [pid |-> TRUE, psig |-> psig, shared |-> f.shared, param |-> f.param, upd |-> FALSE]
        IN /\ conf' = f.conf
           /\ IF f.param # 0 THEN Write(p, f.conf, node, failed)
              ELSE /\ nodes' = [nodes EXCEPT ![p] = [node EXCEPT !.upd = TRUE]]
                   /\ UNCHANGED cpuset
  BY Zenon DEF Detect
<1>1. PICK f \in {FindPid(conf, SeenId(p), psig, ghosts)} :
        LET node == [pid |-> TRUE, psig |-> psig, shared |-> f.shared, param |-> f.param, upd |-> FALSE]
        IN /\ conf' = f.conf
           /\ IF f.param # 0 THEN Write(p, f.conf, node, failed)
              ELSE /\ nodes' = [nodes EXCEPT ![p] = [node EXCEPT !.upd = TRUE]]
                   /\ UNCHANGED cpuset
  BY <1>0
<1>2. /\ UNCHANGED <<json, mode, cmd, alive>> /\ ~nodes[p].pid
  BY DEF Detect
<1>3. /\ Good(json, conf) /\ cmd \in [Pids -> Cmds] /\ alive \in BOOLEAN
      /\ cpuset \in [Containers -> Settings \cup {None}]
      /\ NodeOK(json, mode, conf, p, nodes[p])
  BY DEF Inv
<1>4. psig \in Cmds \cup {NoCmd} /\ ghosts \in SUBSET (1..Len(conf.pid))
  BY <1>3, GoodFacts, ConfFields
<1>5. PICK id : id = SeenId(p)
  OBVIOUS
<1>6. f = FindPid(conf, id, psig, ghosts) /\ id \in Containers \cup {None} /\ (mode = "CGRP" => id = ContOf[p])
  BY <1>1, <1>5, SeenIdFacts
<1>7. Detected(json, conf, id, f.conf, f.param) /\ f.shared \in {0, f.param}
  BY <1>3, <1>4, <1>6, FindPidGood
<1>8. PICK d, n, s : d = f.conf /\ n = f.param /\ s = f.shared
  OBVIOUS
<1>9. /\ Good(json, d) /\ Kept(conf, d) /\ Unseen(json, conf, d) /\ n \in 0..Len(d.pid) /\ s \in {0, n}
      /\ n = 0 \/ NestedPids(json) \/ id = None \/ Fits(json, d, n, id)
      /\ conf' = d
  BY <1>1, <1>7, <1>8 DEF Detected
<1>10. Changed(json, conf, d)
  BY <1>3, <1>9, KeptChanged
<1> DEFINE node == [pid |-> TRUE, psig |-> psig, shared |-> s, param |-> n, upd |-> FALSE]
<1>11. node \in Node(d) /\ node.param = n /\ node.shared = s /\ node.pid
  <2>1. Len(d.pid) \in Nat
    BY <1>9, GoodFacts
  <2>2. s \in 0..Len(d.pid)
    BY <1>9, <2>1
  <2>3. node \in Node(d)
    BY <1>4, <1>9, <2>2 DEF Node
  <2> QED  BY <2>3
<1>12. IF n # 0 THEN Write(p, d, node, failed)
       ELSE nodes' = [nodes EXCEPT ![p] = [node EXCEPT !.upd = TRUE]] /\ UNCHANGED cpuset
  BY <1>1, <1>8
<1> HIDE DEF node
<1>13. /\ cpuset' \in [Containers -> Settings \cup {None}]
       /\ \E u \in BOOLEAN : nodes' = [nodes EXCEPT ![p] = [node EXCEPT !.upd = u]]
  <2>1. CASE n = 0
    BY <1>3, <1>12, <2>1
  <2>2. CASE n # 0
    <3>1. node.param \in 1..Len(d.pid) /\ Write(p, d, node, failed)
      BY <1>9, <1>11, <1>12, <2>2
    <3>2. PICK u : nodes' = [nodes EXCEPT ![p] = [node EXCEPT !.upd = node.upd \/ u]]
      BY <1>3, <1>9, <3>1, WriteFacts
    <3>3. PICK w : w = (node.upd \/ u)
      OBVIOUS
    <3>4. w \in BOOLEAN /\ nodes' = [nodes EXCEPT ![p] = [node EXCEPT !.upd = w]]
      BY <3>2, <3>3
    <3> QED  BY <1>3, <1>9, <3>1, <3>4, WriteFacts
  <2> QED  BY <2>1, <2>2
<1>14. PICK u \in BOOLEAN : nodes' = [nodes EXCEPT ![p] = [node EXCEPT !.upd = u]]
  BY <1>13
<1>15. PICK y : y = [node EXCEPT !.upd = u]
  OBVIOUS
<1>16. y \in Node(d) /\ y.param = n /\ y.shared = s /\ y.pid
  <2>1. y \in Node(d) /\ UpdSet(node, y)
    BY <1>11, <1>15, UpdNode
  <2> QED  BY <1>11, <2>1 DEF UpdSet
<1>17. NodeOK(json, mode, d, p, y)
  <2>1. mode # "CGRP" \/ y.param = 0 \/ NestedPids(json) \/ Fits(json, d, y.param, ContOf[p])
    <3>1. ASSUME mode = "CGRP" PROVE id # None /\ id = ContOf[p]
      BY <1>6, <3>1, ConfigAssumption, NamesAssumption DEF Text
    <3> QED  BY <1>9, <1>16, <3>1
  <2> QED  BY <1>9, <1>16, <2>1 DEF NodeOK
<1>18. ParamKept(nodes[p], y)
  BY <1>2, <1>3 DEF NodeOK, ParamKept
<1>19. /\ json' = json /\ mode' = mode /\ alive' \in BOOLEAN /\ cmd' \in [Pids -> Cmds]
       /\ nodes' = [nodes EXCEPT ![p] = y]
  BY <1>2, <1>3, <1>14, <1>15
<1> QED  BY <1>9, <1>10, <1>13, <1>16, <1>17, <1>18, <1>19, OneNode

(* updatePidAttr(): only what was written changes. *)
LEMMA RetryKeeps ==
  ASSUME Inv, NEW p \in Pids, NEW failed, Retry(p, failed)
  PROVE  StepKeeps
<1>1. /\ nodes[p].param # 0 /\ Write(p, conf, nodes[p], failed)
      /\ UNCHANGED <<json, mode, conf, cmd, alive>>
  BY DEF Retry
<1>2. /\ Good(json, conf) /\ cmd \in [Pids -> Cmds] /\ alive \in BOOLEAN
      /\ cpuset \in [Containers -> Settings \cup {None}]
      /\ nodes[p] \in Node(conf) /\ NodeOK(json, mode, conf, p, nodes[p])
  BY DEF Inv
<1>3. nodes[p].param \in 1..Len(conf.pid)
  <2>1. Len(conf.pid) \in Nat
    BY <1>2, GoodFacts
  <2> QED  BY <1>1, <1>2, <2>1 DEF Node
<1>4. PICK u : nodes' = [nodes EXCEPT ![p] = [nodes[p] EXCEPT !.upd = nodes[p].upd \/ u]]
  BY <1>1, <1>2, <1>3, WriteFacts
<1>5. PICK x : x = nodes[p]
  OBVIOUS
<1>6. PICK w : w = (x.upd \/ u)
  OBVIOUS
<1>7. w \in BOOLEAN /\ nodes' = [nodes EXCEPT ![p] = [x EXCEPT !.upd = w]]
  BY <1>4, <1>5, <1>6
<1>8. PICK y : y = [x EXCEPT !.upd = w]
  OBVIOUS
<1>9. y \in Node(conf) /\ UpdSet(x, y)
  BY <1>2, <1>5, <1>7, <1>8, UpdNode
<1>10. Changed(json, conf, conf)
  BY <1>2, SameChanged
<1>11. NodeOK(json, mode, conf, p, y) /\ ParamKept(x, y)
  <2>1. NodeOK(json, mode, conf, p, x)
    BY <1>2, <1>5
  <2>2. y.param = x.param /\ y.shared \in {0, x.shared} /\ (y.pid \/ y.param = 0)
    BY <1>9, <2>1 DEF UpdSet, NodeOK
  <2> QED  BY <1>2, <1>9, <1>10, <2>1, <2>2, NodeChanged
<1>12. cpuset' \in [Containers -> Settings \cup {None}]
  BY <1>1, <1>2, <1>3, WriteFacts
<1>13. /\ json' = json /\ mode' = mode /\ alive' \in BOOLEAN /\ cmd' \in [Pids -> Cmds] /\ conf' = conf
       /\ nodes' = [nodes EXCEPT ![p] = y]
  BY <1>1, <1>2, <1>7, <1>8
<1> QED  BY <1>5, <1>9, <1>10, <1>11, <1>12, <1>13, OneNode

Renewed(x, y) == y.param = x.param /\ y.shared = 0 /\ (y.pid <=> x.pid)

LEMMA RenewedNode ==
  ASSUME NEW c, Len(c.pid) \in Nat, NEW x \in Node(c), NEW psig \in Cmds
  PROVE  [x EXCEPT !.psig = psig, !.shared = 0] \in Node(c) /\ Renewed(x, [x EXCEPT !.psig = psig, !.shared = 0])
<1> DEFINE y == [x EXCEPT !.psig = psig, !.shared = 0]
<1>1. y \in Node(c)
  <2>1. 0 \in 0..Len(c.pid) /\ psig \in Cmds \cup {NoCmd}
    OBVIOUS
  <2>2. PICK z : z = [x EXCEPT !.psig = psig]
    OBVIOUS
  <2>3. z \in Node(c)
    BY <2>1, <2>2 DEF Node
  <2>4. [z EXCEPT !.shared = 0] \in Node(c)
    BY <2>1, <2>3 DEF Node
  <2>5. y = [z EXCEPT !.shared = 0]
    BY <2>2 DEF Node
  <2> QED  BY <2>4, <2>5
<1>2. y.param = x.param /\ y.shared = 0 /\ (y.pid <=> x.pid)
  BY DEF Node
<1> HIDE DEF y
<1>3. Renewed(x, y)
  BY <1>2 DEF Renewed
<1> QED  BY <1>1, <1>3 DEF y

(* updatePidCmdline(): the shared signature is freed and no longer shared. *)
LEMMA UpdateCmdlineKeeps ==
  ASSUME Inv, NEW p \in Pids, UpdateCmdline(p)
  PROVE  StepKeeps
<1>1. /\ nodes[p].pid
      /\ nodes' = [nodes EXCEPT ![p].psig = cmd[p], ![p].shared = 0]
      /\ conf' = IF nodes[p].shared = 0 THEN conf ELSE [conf EXCEPT !.pid[nodes[p].shared].sig = Freed]
      /\ UNCHANGED <<json, mode, cmd, cpuset, alive>>
  BY DEF UpdateCmdline
<1>2. /\ Good(json, conf) /\ cmd \in [Pids -> Cmds] /\ alive \in BOOLEAN
      /\ cpuset \in [Containers -> Settings \cup {None}]
      /\ nodes \in [Pids -> Node(conf)] /\ nodes[p] \in Node(conf) /\ NodeOK(json, mode, conf, p, nodes[p])
  BY DEF Inv
<1>3. PICK x, s : x = nodes[p] /\ s = cmd[p]
  OBVIOUS
<1>4. s \in Cmds /\ x \in Node(conf) /\ Len(conf.pid) \in Nat
  BY <1>2, <1>3, GoodFacts
<1>5. PICK y : y = [x EXCEPT !.psig = s, !.shared = 0]
  OBVIOUS
<1>6. y \in Node(conf) /\ Renewed(x, y)
  BY <1>4, <1>5, RenewedNode
<1>7. nodes' = [nodes EXCEPT ![p] = y]
  BY <1>1, <1>2, <1>3, <1>5
<1>8. Changed(json, conf, conf')
  <2>1. CASE x.shared = 0
    <3>1. conf' = conf
      BY <1>1, <1>3, <2>1
    <3> QED  BY <1>2, <3>1, SameChanged
  <2>2. CASE x.shared # 0
    <3>1. PICK m : m = x.shared
      OBVIOUS
    <3>2. m \in 1..Len(conf.pid) /\ conf' = [conf EXCEPT !.pid[m].sig = Freed]
      BY <1>1, <1>3, <1>4, <2>2, <3>1 DEF Node
    <3>3. SigFreed(conf, conf')
      <4>1. conf \in Confs
        BY <1>2, GoodFacts
      <4> QED  BY <3>2, <4>1, FreedFacts
    <3> QED  BY <1>2, <3>3, FreedGood DEF Changed
  <2> QED  BY <2>1, <2>2
<1>9. PICK d : d = conf'
  OBVIOUS
<1>10. y \in Node(d) /\ NodeOK(json, mode, d, p, y) /\ ParamKept(x, y)
  <2>1. NodeOK(json, mode, conf, p, x)
    BY <1>2, <1>3
  <2>2. y.param = x.param /\ y.shared \in {0, x.shared} /\ (y.pid \/ y.param = 0)
    BY <1>6, <2>1 DEF Renewed, NodeOK
  <2> QED  BY <1>2, <1>6, <1>8, <1>9, <2>1, <2>2, NodeChanged
<1>11. /\ json' = json /\ mode' = mode /\ alive' \in BOOLEAN /\ cmd' \in [Pids -> Cmds]
       /\ cpuset' \in [Containers -> Settings \cup {None}]
  BY <1>1, <1>2
<1> QED  BY <1>3, <1>7, <1>8, <1>9, <1>10, <1>11, OneNode

(* node_pop(). *)
LEMMA VanishKeeps ==
  ASSUME Inv, NEW p \in Pids, Vanish(p)
  PROVE  StepKeeps
<1>1. nodes' = [nodes EXCEPT ![p] = NoNode] /\ UNCHANGED <<json, mode, conf, cmd, cpuset, alive>>
  BY DEF Vanish
<1>2. /\ Good(json, conf) /\ cmd \in [Pids -> Cmds] /\ alive \in BOOLEAN
      /\ cpuset \in [Containers -> Settings \cup {None}]
  BY DEF Inv
<1>3. NoNode \in Node(conf) /\ NoNode.param = 0 /\ NoNode.shared = 0
  <2>1. 0 \in 0..Len(conf.pid)
    BY <1>2, GoodFacts
  <2> QED  BY <2>1 DEF NoNode, Node
<1>4. NodeOK(json, mode, conf, p, NoNode) /\ ParamKept(nodes[p], NoNode)
  BY <1>3 DEF NodeOK, ParamKept
<1>5. Changed(json, conf, conf)
  BY <1>2, SameChanged
<1>6. /\ json' = json /\ mode' = mode /\ alive' \in BOOLEAN /\ cmd' \in [Pids -> Cmds] /\ conf' = conf
      /\ cpuset' \in [Containers -> Settings \cup {None}]
  BY <1>1, <1>2
<1> HIDE DEF NoNode
<1> QED  BY <1>1, <1>3, <1>4, <1>5, <1>6, OneNode

(* execve() of a process; the program does not see it yet. *)
LEMMA ExecKeeps ==
  ASSUME Inv, NEW p \in Pids, Exec(p)
  PROVE  StepKeeps
<1>1. /\ \E c \in Cmds : cmd' = [cmd EXCEPT ![p] = c]
      /\ UNCHANGED <<json, mode, conf, nodes, cpuset, alive>>
  BY DEF Exec
<1>2. /\ Good(json, conf) /\ cmd \in [Pids -> Cmds] /\ alive \in BOOLEAN
      /\ cpuset \in [Containers -> Settings \cup {None}] /\ nodes \in [Pids -> Node(conf)]
  BY DEF Inv
<1>3. Changed(json, conf, conf)
  BY <1>2, SameChanged
<1>4. ASSUME NEW q \in Pids
      PROVE  nodes[q] \in Node(conf) /\ NodeOK(json, mode, conf, q, nodes[q]) /\ ParamKept(nodes[q], nodes[q])
  BY DEF Inv, ParamKept
<1>5. nodes' = [q \in Pids |-> nodes[q]]
  BY <1>1, <1>2
<1>6. /\ json' = json /\ mode' = mode /\ alive' \in BOOLEAN /\ cmd' \in [Pids -> Cmds] /\ conf' = conf
      /\ cpuset' \in [Containers -> Settings \cup {None}]
  BY <1>1, <1>2
<1> QED  BY <1>3, <1>4, <1>5, <1>6, Together

(* updateDocker() with cnt_add. *)
LEMMA DockerStartKeeps ==
  ASSUME Inv, NEW k \in Containers, DockerStart(k)
  PROVE  StepKeeps
<1>1. PICK f \in {FindStarted(conf, k)} :
        /\ alive
        /\ conf' = f.conf
        /\ nodes' = [p \in Pids |-> IF nodes[p].param # 0 /\ conf'.pid[nodes[p].param].cont \in f.refresh
                                    THEN [nodes[p] EXCEPT !.upd = FALSE] ELSE nodes[p]]
        /\ alive' = (f.cont = 0 \/ mode = "CGRP")
        /\ \/ /\ f.cont # 0 /\ mode = "CGRP" /\ MaskOf(ContBlock(conf', f.cont)) # "null"
              /\ WriteSet(k, ContBlock(conf', f.cont))
           \/ UNCHANGED cpuset
        /\ UNCHANGED <<json, mode, cmd>>
  BY Zenon DEF DockerStart
<1>2. /\ Good(json, conf) /\ cmd \in [Pids -> Cmds]
      /\ cpuset \in [Containers -> Settings \cup {None}] /\ nodes \in [Pids -> Node(conf)]
      /\ \A p \in Pids : NodeOK(json, mode, conf, p, nodes[p])
  BY DEF Inv
<1>3. Started(json, conf, k, f.conf, f.cont)
  BY <1>1, <1>2, FindStartedGood
<1>4. PICK d, n : d = f.conf /\ n = f.cont
  OBVIOUS
<1>5. Good(json, d) /\ Kept(conf, d) /\ Unseen(json, conf, d) /\ n \in 0..Len(d.cont) /\ conf' = d
  BY <1>1, <1>3, <1>4 DEF Started
<1>6. Changed(json, conf, d)
  BY <1>2, <1>5, KeptChanged
<1>7. alive' \in BOOLEAN
  BY <1>1
<1>8. cpuset' \in [Containers -> Settings \cup {None}]
  <2>1. (n # 0 /\ WriteSet(k, ContBlock(d, n))) \/ cpuset' = cpuset
    BY <1>1, <1>4, <1>5
  <2>2. CASE n # 0 /\ WriteSet(k, ContBlock(d, n))
    <3>1. n \in 1..Len(d.cont) /\ ~(n < 0)
      BY <1>5, <2>2, GoodFacts
    <3>2. d.cont[n].blk \in Blocks
      BY <1>5, <3>1, GoodFacts
    <3>3. ContBlock(d, n) \in Blocks
      BY <3>1, <3>2 DEF ContBlock
    <3> QED  BY <1>2, <2>2, <3>3, WriteSetFacts
  <2>3. CASE cpuset' = cpuset
    BY <1>2, <2>3
  <2> QED  BY <2>1, <2>2, <2>3
<1> DEFINE g == [p \in Pids |-> IF nodes[p].param # 0 /\ d.pid[nodes[p].param].cont \in f.refresh
                                THEN [nodes[p] EXCEPT !.upd = FALSE] ELSE nodes[p]]
<1>9. nodes' = [p \in Pids |-> g[p]]
  <2>1. nodes' = g
    BY <1>1, <1>5
  <2>2. g = [p \in Pids |-> g[p]]
    OBVIOUS
  <2> HIDE DEF g
  <2> QED  BY <2>1, <2>2
<1>10. ASSUME NEW p \in Pids
       PROVE  g[p] \in Node(d) /\ NodeOK(json, mode, d, p, g[p]) /\ ParamKept(nodes[p], g[p])
  <2>1. PICK x, y : x = nodes[p] /\ y = g[p]
    OBVIOUS
  <2>2. x \in Node(conf) /\ NodeOK(json, mode, conf, p, x)
    BY <1>2, <2>1
  <2>3. y = [x EXCEPT !.upd = FALSE] \/ y = x
    BY <2>1
  <2> HIDE DEF g
  <2>4. y \in Node(conf) /\ UpdSet(x, y)
    <3>1. CASE y = x
      BY <2>2, <3>1 DEF UpdSet
    <3>2. CASE y = [x EXCEPT !.upd = FALSE]
      BY <2>2, <3>2, UpdNode
    <3> QED  BY <2>3, <3>1, <3>2
  <2>5. y.param = x.param /\ y.shared \in {0, x.shared} /\ (y.pid \/ y.param = 0)
    BY <2>2, <2>4 DEF UpdSet, NodeOK
  <2>6. y \in Node(d) /\ NodeOK(json, mode, d, p, y) /\ ParamKept(x, y)
    BY <1>2, <1>6, <2>2, <2>4, <2>5, NodeChanged
  <2> QED  BY <2>1, <2>6
<1> HIDE DEF g
<1>11. json' = json /\ mode' = mode /\ cmd' \in [Pids -> Cmds]
  BY <1>1, <1>2
<1> QED  BY <1>5, <1>6, <1>7, <1>8, <1>9, <1>10, <1>11, Together

(* The invariant holds when the files are read and nothing is listed. *)
LEMMA InvInit == Init => Inv
<1> SUFFICES ASSUME Init PROVE Inv
  OBVIOUS
<1>1. /\ json \in Inputs /\ mode \in Modes /\ conf = Parse(json) /\ nodes = [p \in Pids |-> NoNode]
      /\ cmd = CmdOf /\ cpuset = [k \in Containers |-> None] /\ alive = TRUE
  BY DEF Init
<1>2. Good(json, conf)
  BY <1>1, FilesAssumption, ParseGood
<1>3. NoNode \in Node(conf) /\ NoNode.param = 0 /\ NoNode.shared = 0
  <2>1. 0 \in 0..Len(conf.pid)
    BY <1>2, GoodFacts
  <2> QED  BY <2>1 DEF NoNode, Node
<1>4. \A p \in Pids : NodeOK(json, mode, conf, p, NoNode)
  BY <1>3 DEF NodeOK
<1> HIDE DEF NoNode
<1>5. nodes \in [Pids -> Node(conf)] /\ \A p \in Pids : NodeOK(json, mode, conf, p, nodes[p])
  BY <1>1, <1>3, <1>4
<1>6. cmd \in [Pids -> Cmds] /\ cpuset \in [Containers -> Settings \cup {None}]
  BY <1>1, ConfigAssumption
<1> QED  BY <1>1, <1>2, <1>5, <1>6 DEF Inv

(* Every step keeps the invariant and the settings that are known. *)
LEMMA InvNext == Inv /\ [Next]_vars => StepKeeps
<1> SUFFICES ASSUME Inv, [Next]_vars PROVE StepKeeps
  OBVIOUS
<1>1. ASSUME NEW p \in Pids, Detect(p) PROVE StepKeeps
  BY <1>1, DetectKeeps
<1>2. ASSUME NEW p \in Pids, UpdateCmdline(p) PROVE StepKeeps
  BY <1>2, UpdateCmdlineKeeps
<1>3. ASSUME NEW p \in Pids, Vanish(p) PROVE StepKeeps
  BY <1>3, VanishKeeps
<1>4. ASSUME NEW p \in Pids, Exec(p) PROVE StepKeeps
  BY <1>4, ExecKeeps
<1>5. ASSUME NEW p \in Pids, NEW failed \in SUBSET Calls, Retry(p, failed) PROVE StepKeeps
  BY <1>5, RetryKeeps
<1>6. ASSUME NEW k \in Containers, DockerStart(k) PROVE StepKeeps
  BY <1>6, DockerStartKeeps
<1>7. CASE UNCHANGED vars
  <2>1. UNCHANGED <<json, mode, conf, nodes, cmd, cpuset, alive>>
    BY <1>7 DEF vars
  <2>2. Good(json, conf)
    BY DEF Inv
  <2>3. Settled(json, conf, conf)
    BY <2>2, SameChanged DEF Changed
  <2>4. Inv'
    BY <2>1 DEF Inv, NodeOK
  <2> QED  BY <2>1, <2>3, <2>4 DEF StepKeeps, ParamKept
<1> QED  BY <1>1, <1>2, <1>3, <1>4, <1>5, <1>6, <1>7 DEF Next

(***************************************************************************)
(* The theorems.                                                           *)
(***************************************************************************)
(* Inv holds in every state.                                               *)
LEMMA InvAlways == Spec => []Inv
<1>1. Init => Inv
  BY InvInit
<1>2. Inv /\ [Next]_vars => Inv'
  BY InvNext DEF StepKeeps
<1> QED  BY <1>1, <1>2, PTL DEF Spec

(* Every pointer of the configuration and of the run-time list is null or  *)
(* leads to an entry, whatever is detected, duplicated, refreshed and      *)
(* freed by findPidParameters() and its callers.                           *)
THEOREM TypesAlways == Spec => []TypeOK
<1>1. Inv => TypeOK
  <2> SUFFICES ASSUME Inv PROVE TypeOK
    OBVIOUS
  <2>1. ConfOK(conf) /\ nodes \in [Pids -> Node(conf)]
    BY DEF Inv, Good
  <2>2. nodes \in [Pids -> [pid : BOOLEAN, psig : Cmds \cup {NoCmd}, upd : BOOLEAN,
                            param : 0 .. Len(conf.pid), shared : 0 .. Len(conf.pid)]]
    BY <2>1, Zenon DEF Node
  <2>3. ASSUME NEW p \in Pids PROVE nodes[p].shared \in {0, nodes[p].param}
    BY DEF Inv, NodeOK
  <2> QED  BY <2>1, <2>2, <2>3 DEF TypeOK, Inv
<1> QED  BY <1>1, InvAlways, PTL

(* checkContParam() accepts lists whose members point back. *)
LEMMA LinkingAgrees ==
  ASSUME NEW pointer, NEW holders, \A x \in holders : x # 0 /\ pointer = x
  PROVE  Agrees(pointer, holders)
<1>1. CASE pointer = 0
  <2>1. holders = {}
    BY <1>1
  <2>2. Cardinality(holders) = 0
    BY <2>1, FS_EmptySet
  <2> QED  BY <1>1, <2>2 DEF Agrees
<1>2. CASE pointer # 0
  BY <1>2 DEF Agrees
<1> QED  BY <1>1, <1>2

(* checkContParam(), which dumpStats() runs at the end, finds no corrupted *)
(* link: an entry is in the lists of those only that it points back at.    *)
THEOREM LinksAlways == Spec => []LinksAgree
<1>1. Inv => LinksAgree
  <2> SUFFICES ASSUME Inv, ~LoosePids(json) PROVE LinksConsistent(conf)
    BY DEF LinksAgree
  <2>1. Linking(conf) /\ ConfOK(conf)
    BY DEF Inv, Good
  <2>2. /\ DOMAIN conf.img = 1..Len(conf.img) /\ DOMAIN conf.cont = 1..Len(conf.cont)
        /\ DOMAIN conf.pid = 1..Len(conf.pid) /\ Len(conf.img) \in Nat /\ Len(conf.cont) \in Nat
    BY <2>1, ConfFields DEF ConfOK
  <2>3. ASSUME NEW k \in DOMAIN conf.cont
        PROVE  Agrees(conf.cont[k].img, {i \in DOMAIN conf.img : k \in ToSet(conf.img[i].conts)})
    <3> DEFINE holders == {i \in DOMAIN conf.img : k \in ToSet(conf.img[i].conts)}
    <3>1. \A x \in holders : x # 0 /\ conf.cont[k].img = x
      BY <2>1, <2>2 DEF Linking
    <3> HIDE DEF holders
    <3>2. Agrees(conf.cont[k].img, holders)
      BY <3>1, LinkingAgrees
    <3> QED  BY <3>2 DEF holders
  <2>4. ASSUME NEW p \in DOMAIN conf.pid
        PROVE  Agrees(conf.pid[p].img, {i \in DOMAIN conf.img : p \in ToSet(conf.img[i].pids)})
    <3> DEFINE holders == {i \in DOMAIN conf.img : p \in ToSet(conf.img[i].pids)}
    <3>1. \A x \in holders : x # 0 /\ conf.pid[p].img = x
      BY <2>1, <2>2 DEF Linking
    <3> HIDE DEF holders
    <3>2. Agrees(conf.pid[p].img, holders)
      BY <3>1, LinkingAgrees
    <3> QED  BY <3>2 DEF holders
  <2>5. ASSUME NEW p \in DOMAIN conf.pid
        PROVE  Agrees(conf.pid[p].cont, {k \in DOMAIN conf.cont : p \in ToSet(conf.cont[k].pids)})
    <3> DEFINE holders == {k \in DOMAIN conf.cont : p \in ToSet(conf.cont[k].pids)}
    <3>1. \A x \in holders : x # 0 /\ conf.pid[p].cont = x
      BY <2>1, <2>2 DEF Linking
    <3> HIDE DEF holders
    <3>2. Agrees(conf.pid[p].cont, holders)
      BY <3>1, LinkingAgrees
    <3> QED  BY <3>2 DEF holders
  <2> QED  BY <2>3, <2>4, <2>5 DEF LinksConsistent
<1> QED  BY <1>1, InvAlways, PTL

(* Every entry uses an owned block, an owner its own. *)
LEMMA VisitedFacts ==
  ASSUME NEW j, NEW c, Good(j, c), NEW v \in Visited(c)
  PROVE  /\ Owner(c, Block(c, v))
         /\ c[v[1]][v[2]].own => Block(c, v) = v
<1>1. /\ DOMAIN c.img = 1..Len(c.img) /\ DOMAIN c.cont = 1..Len(c.cont) /\ DOMAIN c.pid = 1..Len(c.pid)
  BY GoodFacts, ConfFields
<1>2. Owning(c)
  BY DEF Good
<1>3. ASSUME NEW i \in DOMAIN c.img, v = <<"img", i>>
      PROVE  Owner(c, Block(c, v)) /\ (c[v[1]][v[2]].own => Block(c, v) = v)
  <2>1. c[v[1]][v[2]] = c.img[i]
    BY <1>3
  <2> QED  BY <1>1, <1>2, <1>3, <2>1 DEF Owning, Block
<1>4. ASSUME NEW k \in DOMAIN c.cont, v = <<"cont", k>>
      PROVE  Owner(c, Block(c, v)) /\ (c[v[1]][v[2]].own => Block(c, v) = v)
  <2>1. c[v[1]][v[2]] = c.cont[k]
    BY <1>4
  <2> QED  BY <1>1, <1>2, <1>4, <2>1 DEF Owning, Block
<1>5. ASSUME NEW p \in DOMAIN c.pid, v = <<"pid", p>>
      PROVE  Owner(c, Block(c, v)) /\ (c[v[1]][v[2]].own => Block(c, v) = v)
  <2>1. c[v[1]][v[2]] = c.pid[p]
    BY <1>5
  <2> QED  BY <1>1, <1>2, <1>5, <2>1 DEF Owning, Block
<1>6. \/ \E i \in DOMAIN c.img : v = <<"img", i>>
      \/ \E k \in DOMAIN c.cont : v = <<"cont", k>>
      \/ \E p \in DOMAIN c.pid : v = <<"pid", p>>
  BY DEF Visited
<1> QED  BY <1>3, <1>4, <1>5, <1>6

(* The owner of a block will be visited, and free it. *)
LEMMA OwnerReleases ==
  ASSUME NEW j, NEW c, Good(j, c), NEW at, Owner(c, at), at # Global.at
  PROVE  \E v \in Visited(c) : c[v[1]][v[2]].own /\ Block(c, v) = at
<1>1. /\ DOMAIN c.img = 1..Len(c.img) /\ DOMAIN c.cont = 1..Len(c.cont) /\ DOMAIN c.pid = 1..Len(c.pid)
  BY GoodFacts, ConfFields
<1>2. \E v \in Visited(c) : v = at /\ c[v[1]][v[2]].own
  <2>1. ASSUME NEW i \in 1..Len(c.img), c.img[i].own, at = <<"img", i>>
        PROVE  at \in Visited(c) /\ c[at[1]][at[2]].own
    <3>1. at \in Visited(c)
      BY <1>1, <2>1 DEF Visited
    <3>2. at[1] = "img" /\ at[2] = i
      BY <2>1
    <3> QED  BY <2>1, <3>1, <3>2
  <2>2. ASSUME NEW k \in 1..Len(c.cont), c.cont[k].own, at = <<"cont", k>>
        PROVE  at \in Visited(c) /\ c[at[1]][at[2]].own
    <3>1. at \in Visited(c)
      BY <1>1, <2>2 DEF Visited
    <3>2. at[1] = "cont" /\ at[2] = k
      BY <2>2
    <3> QED  BY <2>2, <3>1, <3>2
  <2>3. ASSUME NEW p \in 1..Len(c.pid), c.pid[p].own, at = <<"pid", p>>
        PROVE  at \in Visited(c) /\ c[at[1]][at[2]].own
    <3>1. at \in Visited(c)
      BY <1>1, <2>3 DEF Visited
    <3>2. at[1] = "pid" /\ at[2] = p
      BY <2>3
    <3> QED  BY <2>3, <3>1, <3>2
  <2> QED  BY <2>1, <2>2, <2>3 DEF Owner
<1> QED  BY <1>2, VisitedFacts

(* freeContParm() frees no block of settings twice at the end, and every   *)
(* block some entry uses is the global one or is freed by an entry that    *)
(* owns it, whatever was shared and copied before.                         *)
THEOREM BlocksAlways == Spec => []BlocksOwned
<1>1. Inv => BlocksOwned
  <2> SUFFICES ASSUME Inv PROVE BlocksOwned
    OBVIOUS
  <2>1. PICK c : c = conf
    OBVIOUS
  <2>2. Good(json, c)
    BY <2>1 DEF Inv
  <2> DEFINE own == {v \in Visited(c) : c[v[1]][v[2]].own}
             r == Released(c)
  <2>3. r = [e \in own |-> Block(c, e)] /\ DOMAIN r = own
    BY DEF Released
  <2>4. \A e \in own : r[e] = e
    BY <2>2, <2>3, VisitedFacts
  <2>5. IsInjective(r)
    <3> HIDE DEF own, r
    <3> QED  BY <2>3, <2>4 DEF IsInjective
  <2>6. ASSUME NEW e \in Visited(c) PROVE Block(c, e) \in Range(r) \cup {Global.at}
    <3>1. CASE Block(c, e) # Global.at
      <4>1. PICK at : at = Block(c, e)
        OBVIOUS
      <4>2. Owner(c, at) /\ at # Global.at
        BY <2>2, <3>1, <4>1, VisitedFacts
      <4>3. PICK v \in Visited(c) : c[v[1]][v[2]].own /\ Block(c, v) = at
        BY <2>2, <4>2, OwnerReleases
      <4>4. v \in DOMAIN r /\ r[v] = at
        BY <2>3, <4>3
      <4> HIDE DEF own, r
      <4> QED  BY <4>1, <4>4 DEF Range
    <3>2. CASE Block(c, e) = Global.at
      BY <3>2
    <3> QED  BY <3>1, <3>2
  <2> HIDE DEF own
  <2> QED  BY <2>1, <2>5, <2>6 DEF BlocksOwned
<1> QED  BY <1>1, InvAlways, PTL

(* In CGroup mode a process has the parameters of its own container or of  *)
(* an image for it, however it was detected and whatever docker reported   *)
(* in between: setPidResources_u() writes no other settings to its CPU     *)
(* set.                                                                    *)
THEOREM RightContainerAlways == Spec => []RightContainer
<1>1. Inv => RightContainer
  <2> SUFFICES ASSUME Inv, NEW p \in Pids, mode = "CGRP", nodes[p].param # 0, ~NestedPids(json)
               PROVE  LET k == conf.pid[nodes[p].param].cont
                      IN IF k < 0 THEN Concerns(json, conf.img[-k].id, ContOf[p])
                         ELSE k # 0 => conf.cont[k].id = ContOf[p]
    BY DEF RightContainer
  <2>1. Fits(json, conf, nodes[p].param, ContOf[p])
    BY DEF Inv, NodeOK
  <2> QED  BY <2>1 DEF Fits
<1> QED  BY <1>1, InvAlways, PTL

(* One step of OnlyMoreSpecific. *)
LEMMA StepSettles == Inv /\ [Next]_vars =>
  /\ ~NamedTwice(json) => \A k \in Containers : Level(conf', k) >= Level(conf, k)
  /\ \A p \in Pids : nodes[p].param # 0 /\ nodes'[p].param # 0 =>
       Rank(conf'.pid[nodes'[p].param].blk) >= Rank(conf.pid[nodes[p].param].blk)
<1> SUFFICES ASSUME Inv, [Next]_vars
             PROVE  /\ ~NamedTwice(json) => \A k \in Containers : Level(conf', k) >= Level(conf, k)
                    /\ \A p \in Pids : nodes[p].param # 0 /\ nodes'[p].param # 0 =>
                         Rank(conf'.pid[nodes'[p].param].blk) >= Rank(conf.pid[nodes[p].param].blk)
  OBVIOUS
<1>1. Settled(json, conf, conf') /\ \A p \in Pids : ParamKept(nodes[p], nodes'[p])
  BY InvNext DEF StepKeeps
<1>2. ~NamedTwice(json) => \A k \in Containers : Level(conf', k) >= Level(conf, k)
  BY <1>1 DEF Settled
<1>3. ASSUME NEW p \in Pids, nodes[p].param # 0, nodes'[p].param # 0
      PROVE  Rank(conf'.pid[nodes'[p].param].blk) >= Rank(conf.pid[nodes[p].param].blk)
  <2>1. PICK q : q = nodes[p].param
    OBVIOUS
  <2>2. nodes'[p].param = q
    BY <1>1, <1>3, <2>1 DEF ParamKept
  <2>3. Good(json, conf) /\ nodes[p] \in Node(conf)
    BY DEF Inv
  <2>4. q \in 1..Len(conf.pid)
    <3>1. Len(conf.pid) \in Nat
      BY <2>3, GoodFacts
    <3> QED  BY <1>3, <2>1, <2>3, <3>1 DEF Node
  <2>5. conf.pid[q].blk \in Blocks /\ conf'.pid[q].blk = conf.pid[q].blk
    <3>1. conf.pid[q].blk \in Blocks
      BY <2>3, <2>4, GoodFacts
    <3> QED  BY <1>1, <2>4, <3>1 DEF Settled
  <2>6. PICK r : r = Rank(conf.pid[q].blk)
    OBVIOUS
  <2>7. r \in 0..3 /\ Rank(conf'.pid[q].blk) = r
    BY <2>5, <2>6, RankFacts
  <2>8. r >= r
    BY <2>7
  <2> QED  BY <2>1, <2>2, <2>6, <2>7, <2>8
<1> QED  BY <1>2, <1>3

(* No event of docker and no detection falls back from settings of a       *)
(* container to those of its image or to the global ones, and the settings *)
(* of a listed process do not become less specific.                        *)
THEOREM OnlyMoreSpecificAlways == Spec => OnlyMoreSpecific
<1>1. Inv /\ [Next]_vars =>
        [/\ ~NamedTwice(json) => \A k \in Containers : Level(conf', k) >= Level(conf, k)
         /\ \A p \in Pids : nodes[p].param # 0 /\ nodes'[p].param # 0 =>
              Rank(conf'.pid[nodes'[p].param].blk) >= Rank(conf.pid[nodes[p].param].blk)]_vars
  BY StepSettles
<1> QED  BY <1>1, InvAlways, PTL DEF Spec, OnlyMoreSpecific

=============================================================================
