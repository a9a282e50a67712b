---------------------------- MODULE ResTracerProofs -------------------------
(***************************************************************************)
(* What holds of bookings for any CPUs and any tasks, and the facts about  *)
(* recursion, multiples and sums these and the proofs of the plan need.    *)
(***************************************************************************)
EXTENDS ResTracer, FiniteSetTheorems, TLAPS

-----------------------------------------------------------------------------
(* Induction.  The recursive functions of the model are unfolded with a    *)
(* set of the numbers for which a fact holds.                              *)
LEMMA SetInduction ==
  ASSUME NEW S, 0 \in S, \A n \in Nat : n \in S => n + 1 \in S
  PROVE  Nat \subseteq S
<1> DEFINE T == Nat \ S
           R == {r \in Nat \X Nat : r[1] < r[2]}
<1>1. R = OpToRel(<, Nat)
  BY DEF OpToRel
<1>2. IsWellFoundedOn(R, Nat)
  BY <1>1, NatLessThanWellFounded
<1> SUFFICES ASSUME T # {} PROVE FALSE
  OBVIOUS
<1>3. PICK x \in T : \A y \in T : ~(<<y, x>> \in R)
  <2> T \subseteq Nat
    OBVIOUS
  <2> HIDE DEF T, R
  <2> QED  BY <1>2, WFMin
<1>4. x \in Nat /\ x # 0
  BY <1>3
<1>5. x - 1 \in Nat /\ <<x - 1, x>> \in R
  BY <1>4
<1>6. x - 1 \in S
  BY <1>3, <1>5
<1> QED  BY <1>3, <1>4, <1>5, <1>6

(* A recursive definition has a solution if it uses what it defines for    *)
(* what is smaller only: H makes of a function the next approximation.     *)
Smaller(D, size, f, g, x) == \A y \in D : size[y] < size[x] => f[y] = g[y]

Shrinks(D, V, size, H) ==
  /\ size \in [D -> Nat] /\ H \in [[D -> V] -> [D -> V]]
  /\ \A f, g \in [D -> V] : \A x \in D : Smaller(D, size, f, g, x) => H[f][x] = H[g][x]

LEMMA Recursion ==
  ASSUME NEW D, NEW V, NEW size, NEW H, Shrinks(D, V, size, H), NEW start \in [D -> V]
  PROVE  \E f \in [D -> V] : f = H[f]
<1> DEFINE Good(f, n) == \A x \in D : size[x] < n => f[x] = H[f][x]
           S == {n \in Nat : \E f \in [D -> V] : Good(f, n)}
           U(f, g, m) == {n \in Nat : n <= m => \A x \in D : size[x] < n => f[x] = g[x]}
           F(n) == CHOOSE f \in [D -> V] : Good(f, n)
           G == [x \in D |-> F(size[x] + 1)[x]]
<1>0. /\ size \in [D -> Nat] /\ H \in [[D -> V] -> [D -> V]]
      /\ \A f, g \in [D -> V] : \A x \in D : Smaller(D, size, f, g, x) => H[f][x] = H[g][x]
  BY DEF Shrinks
<1>1. 0 \in S
  BY <1>0
<1>2. ASSUME NEW n \in Nat, n \in S PROVE n + 1 \in S
  <2>1. PICK f \in [D -> V] : Good(f, n)
    BY <1>2
  <2>2. ASSUME NEW x \in D, size[x] < n + 1 PROVE H[f][x] = H[H[f]][x]
    <3>1. \A y \in D : size[y] < size[x] => f[y] = H[f][y]
      BY <1>0, <2>1, <2>2
    <3> QED  BY <1>0, <3>1 DEF Smaller
  <2>3. H[f] \in [D -> V] /\ Good(H[f], n + 1)
    BY <1>0, <2>2
  <2> HIDE DEF Good
  <2> QED  BY <2>3
<1>3. \A n \in Nat : F(n) \in [D -> V] /\ Good(F(n), n)
  <2> HIDE DEF S, Good
  <2>1. Nat \subseteq S
    BY <1>1, <1>2, SetInduction
  <2> QED  BY <2>1 DEF S
<1>4. ASSUME NEW m \in Nat, NEW f \in [D -> V], NEW g \in [D -> V], Good(f, m), Good(g, m)
      PROVE  \A x \in D : size[x] < m => f[x] = g[x]
  <2>1. 0 \in U(f, g, m)
    BY <1>0
  <2>2. ASSUME NEW n \in Nat, n \in U(f, g, m) PROVE n + 1 \in U(f, g, m)
    <3> SUFFICES ASSUME n + 1 <= m, NEW x \in D, size[x] < n + 1 PROVE f[x] = g[x]
      BY <2>2
    <3>1. \A y \in D : size[y] < size[x] => f[y] = g[y]
      BY <1>0, <2>2
    <3>2. H[f][x] = H[g][x]
      BY <1>0, <3>1 DEF Smaller
    <3> QED  BY <1>0, <1>4, <3>2
  <2>3. m \in U(f, g, m)
    <3> HIDE DEF U
    <3> QED  BY <2>1, <2>2, SetInduction
  <2> QED  BY <2>3
<1> HIDE DEF F, Good
<1>5. G \in [D -> V]
  BY <1>0, <1>3
<1>6. ASSUME NEW x \in D PROVE G[x] = H[G][x]
  <2> DEFINE f == F(size[x] + 1)
  <2>1. f \in [D -> V] /\ Good(f, size[x] + 1)
    BY <1>0, <1>3
  <2>2. ASSUME NEW y \in D, size[y] < size[x] PROVE G[y] = f[y]
    <3> DEFINE g == F(size[y] + 1)
    <3>1. g \in [D -> V] /\ Good(g, size[y] + 1) /\ G[y] = g[y]
      BY <1>0, <1>3
    <3>2. Good(f, size[y] + 1)
      BY <1>0, <2>1, <2>2 DEF Good
    <3> HIDE DEF f, g, G
    <3> QED  BY <1>0, <1>4, <2>1, <3>1, <3>2
  <2>3. G[x] = f[x]
    OBVIOUS
  <2> HIDE DEF f, G
  <2>4. H[G][x] = H[f][x]
    BY <1>0, <1>5, <2>1, <2>2 DEF Smaller
  <2>5. f[x] = H[f][x]
    BY <1>0, <2>1 DEF Good
  <2> QED  BY <2>3, <2>4, <2>5
<1>7. G = H[G]
  <2> HIDE DEF G
  <2> QED  BY <1>0, <1>5, <1>6
<1> QED  BY <1>5, <1>7

(* A loop of N rounds, round n applying h[n], has a result after each.     *)
Iterates(f, N, V, b, h) ==
  /\ f \in [0..N -> V] /\ f[0] = b
  /\ \A n \in 1..N : f[n] = h[n][f[n - 1]]

LEMMA Iterate ==
  ASSUME NEW N \in Nat, NEW V, NEW b \in V, NEW h, \A n \in 1..N : h[n] \in [V -> V]
  PROVE  \E f : Iterates(f, N, V, b, h)
<1> DEFINE Good(f, k) == f[0] = b /\ \A n \in 1..k : f[n] = h[n][f[n - 1]]
           S == {k \in Nat : k <= N => \E f \in [0..k -> V] : Good(f, k)}
<1>1. 0 \in S
  <2> DEFINE f == [i \in 0..0 |-> b]
  <2>1. f \in [0..0 -> V] /\ Good(f, 0)
    OBVIOUS
  <2> QED  BY <2>1
<1>2. ASSUME NEW k \in Nat, k \in S PROVE k + 1 \in S
  <2> SUFFICES ASSUME k + 1 <= N PROVE \E f \in [0..(k + 1) -> V] : Good(f, k + 1)
    <3> HIDE DEF Good
    <3> QED  OBVIOUS
  <2>1. PICK f \in [0..k -> V] : Good(f, k)
    BY <1>2
  <2> DEFINE g == [i \in 0..(k + 1) |-> IF i <= k THEN f[i] ELSE h[k + 1][f[k]]]
  <2>2. h[k + 1][f[k]] \in V
    BY <2>1
  <2>3. g \in [0..(k + 1) -> V] /\ g[0] = b
    BY <2>1, <2>2
  <2>4. ASSUME NEW i \in 1..(k + 1) PROVE g[i] = h[i][g[i - 1]]
    <3>1. CASE i <= k
      BY <2>1, <3>1
    <3>2. CASE i = k + 1
      BY <2>1, <3>2
    <3> QED  BY <3>1, <3>2
  <2> QED  BY <2>3, <2>4
<1>3. N \in S
  <2> HIDE DEF S
  <2> QED  BY <1>1, <1>2, SetInduction
<1>4. PICK f \in [0..N -> V] : Good(f, N)
  BY <1>3
<1>5. Iterates(f, N, V, b, h)
  BY <1>4 DEF Iterates
<1> QED  BY <1>5

(* A finite set of numbers has a greatest one.                             *)
LEMMA FiniteMax ==
  ASSUME NEW S \in SUBSET Nat, IsFiniteSet(S), S # {}
  PROVE  Max(S) \in S /\ \A x \in S : x <= Max(S)
<1>1. PICK n \in Nat : ExistsBijection(1..n, S)
  BY FS_NatBijection
<1>2. PICK f \in [1..n -> S] : \A y \in S : \E i \in 1..n : f[i] = y
  BY <1>1 DEF ExistsBijection, Bijection, Surjection
<1> DEFINE T == {k \in Nat : k = 0 \/ k > n \/ \E j \in 1..k : \A i \in 1..k : f[i] <= f[j]}
<1>3. 0 \in T
  OBVIOUS
<1>4. ASSUME NEW k \in Nat, k \in T PROVE k + 1 \in T
  <2> SUFFICES ASSUME k + 1 <= n PROVE \E j \in 1..(k + 1) : \A i \in 1..(k + 1) : f[i] <= f[j]
    OBVIOUS
  <2>1. \A i \in 1..(k + 1) : f[i] \in Nat
    <3>1. ASSUME NEW i \in 1..(k + 1) PROVE i \in 1..n
      BY <1>1
    <3>2. \A i \in 1..n : f[i] \in S
      BY <1>2
    <3> QED  BY <3>1, <3>2
  <2>2. CASE k = 0
    <3>1. \A i \in 1..(k + 1) : i = 1
      BY <2>2
    <3>2. 1 \in 1..(k + 1) /\ f[1] \in Nat
      BY <2>1, <2>2
    <3>3. \A i \in 1..(k + 1) : f[i] <= f[1]
      BY <3>1, <3>2
    <3> QED  BY <3>2, <3>3
  <2>3. CASE k # 0
    <3>1. PICK j \in 1..k : \A i \in 1..k : f[i] <= f[j]
      BY <1>4, <2>3
    <3>2. CASE f[k + 1] <= f[j]
      BY <2>1, <3>1, <3>2
    <3>3. CASE ~(f[k + 1] <= f[j])
      <4>1. \A i \in 1..(k + 1) : f[i] <= f[k + 1]
        BY <2>1, <3>1, <3>3
      <4> QED  BY <4>1
    <3> QED  BY <3>2, <3>3
  <2> QED  BY <2>2, <2>3
<1>5. n \in T
  <2> HIDE DEF T
  <2> QED  BY <1>3, <1>4, SetInduction
<1>6. n # 0
  <2> SUFFICES ASSUME n = 0 PROVE FALSE
    OBVIOUS
  <2>1. PICK y \in S : TRUE
    OBVIOUS
  <2>2. PICK i \in 1..n : f[i] = y
    BY <1>2, <2>1
  <2> QED  BY <2>2
<1>7. PICK j \in 1..n : \A i \in 1..n : f[i] <= f[j]
  BY <1>5, <1>6
<1>8. f[j] \in S /\ \A y \in S : f[j] >= y
  BY <1>2, <1>7
<1>9. Max(S) \in S /\ \A y \in S : Max(S) >= y
  BY <1>8, Zenon DEF Max
<1> QED  BY <1>9

LEMMA LastCpu ==
  LET last == Max({0} \cup Cpus) IN last \in Nat /\ \A c \in Cpus : c \in 0..last
<1>1. {0} \cup Cpus \in SUBSET Nat /\ {0} \cup Cpus # {}
  BY ResTracerAssumption
<1>2. IsFiniteSet(Cpus \cup {0}) /\ Cpus \cup {0} = {0} \cup Cpus
  BY ResTracerAssumption, FS_AddElement
<1> DEFINE S == {0} \cup Cpus
           last == Max(S)
<1>3. last \in S /\ \A c \in S : c <= last
  <2> HIDE DEF S
  <2> QED  BY <1>1, <1>2, FiniteMax DEF S
<1> HIDE DEF last
<1>4. last \in Nat /\ \A c \in Cpus : c \in 0..last
  BY <1>1, <1>3, ResTracerAssumption
<1> QED  BY <1>4 DEF last

-----------------------------------------------------------------------------
(* Multiples and divisors.                                                 *)
LEMMA GcdRec ==
  \A a, b \in Nat : gcd[<<a, b>>] = IF b = 0 THEN a ELSE gcd[<<b, a % b>>]
<1> DEFINE D == Nat \X Nat
           size == [x \in D |-> x[2]]
           Body(f) == [p \in Nat \X Nat |-> IF p[2] = 0 THEN p[1] ELSE f[<<p[2], p[1] % p[2]>>]]
           H == [f \in [D -> Nat] |-> Body(f)]
<1>0. ASSUME NEW x \in D, x[2] # 0
      PROVE  x[1] \in Nat /\ x[2] \in Nat /\ <<x[2], x[1] % x[2]>> \in D /\ x[1] % x[2] < x[2]
  BY <1>0
<1>1. ASSUME NEW f \in [D -> Nat] PROVE Body(f) \in [D -> Nat]
  BY <1>0
<1>2. ASSUME NEW f \in [D -> Nat], NEW g \in [D -> Nat], NEW x \in D, Smaller(D, size, f, g, x)
      PROVE  Body(f)[x] = Body(g)[x]
  <2>1. CASE x[2] = 0
    BY <2>1
  <2>2. CASE x[2] # 0
    <3> DEFINE y == <<x[2], x[1] % x[2]>>
    <3>1. y \in D /\ size[y] < size[x]
      BY <1>0, <2>2
    <3>2. f[y] = g[y]
      <4> HIDE DEF D, size, y
      <4> QED  BY <1>2, <3>1 DEF Smaller
    <3> QED  BY <2>2, <3>2
  <2> QED  BY <2>1, <2>2
<1>3. \E f \in [D -> Nat] : f = H[f]
  <2> DEFINE start == [x \in D |-> 0]
  <2>1. H \in [[D -> Nat] -> [D -> Nat]]
    <3> HIDE DEF D, Body
    <3> QED  BY <1>1
  <2>2. \A f, g \in [D -> Nat] : \A x \in D : Smaller(D, size, f, g, x) => H[f][x] = H[g][x]
    <3> HIDE DEF D, Body, size
    <3> QED  BY <1>2
  <2>3. size \in [D -> Nat] /\ start \in [D -> Nat]
    OBVIOUS
  <2> HIDE DEF D, size, H, start
  <2>4. Shrinks(D, Nat, size, H)
    BY <2>1, <2>2, <2>3 DEF Shrinks
  <2> QED  BY <2>3, <2>4, Recursion
<1>4. gcd = CHOOSE f : f = Body(f)
  BY Zenon DEF gcd
<1>5. gcd = Body(gcd)
  <2> HIDE DEF Body
  <2> QED  BY <1>3, <1>4
<1> HIDE DEF gcd
<1> QED  BY <1>5
LEMMA DivMod ==
  ASSUME NEW a \in Nat, NEW d \in Nat, d > 0
  PROVE  /\ a \div d \in Nat /\ a % d \in Nat /\ a % d < d
         /\ a = d * (a \div d) + (a % d)
<1>1. a \div d \in Nat
  OBVIOUS
<1>2. a % d \in Nat /\ a % d < d
  OBVIOUS
<1>3. a = d * (a \div d) + (a % d)
  OBVIOUS
<1> QED  BY <1>1, <1>2, <1>3

LEMMA DivUnique ==
  ASSUME NEW d \in Nat \ {0}, NEW q \in Nat, NEW r \in Nat, r < d, NEW a \in Nat, a = d * q + r
  PROVE  a \div d = q /\ a % d = r
<1> DEFINE x == a \div d
           y == a % d
<1>1. x \in Nat /\ y \in Nat /\ y < d /\ a = d * x + y
  BY DivMod
<1> HIDE DEF x, y
<1>2. d * (x - q) = r - y
  <2>1. d * (x - q) = d * x - d * q
    BY <1>1
  <2>2. d * x \in Int /\ d * q \in Int
    BY <1>1
  <2> QED  BY <1>1, <2>1, <2>2
<1>3. CASE x > q
  <2>1. x - q \in Nat /\ x - q >= 1
    BY <1>1, <1>3
  <2>2. d * (x - q) >= d
    BY <2>1
  <2> QED  BY <1>1, <1>2, <2>2
<1>4. CASE x < q
  <2>1. q - x \in Nat /\ q - x >= 1
    BY <1>1, <1>4
  <2>2. d * (q - x) >= d /\ d * (q - x) = - (d * (x - q))
    BY <1>1, <2>1
  <2> QED  BY <1>1, <1>2, <2>2
<1>5. x = q
  BY <1>1, <1>3, <1>4
<1> QED  BY <1>1, <1>2, <1>5 DEF x, y

LEMMA DivExact ==
  ASSUME NEW d \in Nat \ {0}, NEW q \in Nat
  PROVE  (q * d) \div d = q /\ (q * d) % d = 0
<1>1. q * d \in Nat /\ q * d = d * q + 0
  OBVIOUS
<1> QED  BY <1>1, DivUnique

Multiple(a, d) == \E k \in Nat : a = k * d

LEMMA GcdDivides ==
  ASSUME NEW a \in Nat, NEW b \in Nat
  PROVE  gcd[<<a, b>>] \in Nat /\ Multiple(a, gcd[<<a, b>>]) /\ Multiple(b, gcd[<<a, b>>])
<1> DEFINE Good(x, y) == /\ gcd[<<x, y>>] \in Nat
                         /\ Multiple(x, gcd[<<x, y>>]) /\ Multiple(y, gcd[<<x, y>>])
           S == {n \in Nat : \A x, y \in Nat : y <= n => Good(x, y)}
<1>1. ASSUME NEW x \in Nat PROVE Good(x, 0)
  <2>1. gcd[<<x, 0>>] = x
    BY GcdRec
  <2>2. x = 1 * x /\ 0 = 0 * x /\ 1 \in Nat /\ 0 \in Nat
    OBVIOUS
  <2>3. Multiple(x, x) /\ Multiple(0, x)
    BY <2>2 DEF Multiple
  <2> QED  BY <2>1, <2>3
<1>2. ASSUME NEW x \in Nat, NEW y \in Nat, y # 0, Good(y, x % y) PROVE Good(x, y)
  <2> DEFINE q == x \div y
             r == x % y
             g == gcd[<<y, r>>]
  <2>1. q \in Nat /\ r \in Nat /\ x = y * q + r
    BY <1>2, DivMod
  <2>2. gcd[<<x, y>>] = g
    BY <1>2, GcdRec
  <2>3. g \in Nat /\ Multiple(y, g) /\ Multiple(r, g)
    BY <1>2
  <2> HIDE DEF q, r, g
  <2>4. PICK k \in Nat, j \in Nat : y = k * g /\ r = j * g
    BY <2>3 DEF Multiple
  <2>5. x = (k * q + j) * g /\ k * q + j \in Nat
    BY <2>1, <2>3, <2>4
  <2>6. Multiple(x, g)
    BY <2>5 DEF Multiple
  <2> QED  BY <2>2, <2>3, <2>6
<1>3. 0 \in S
  <2> HIDE DEF Good
  <2> QED  BY <1>1
<1>4. ASSUME NEW n \in Nat, n \in S PROVE n + 1 \in S
  <2> HIDE DEF Good
  <2> SUFFICES ASSUME NEW x \in Nat, NEW y \in Nat, y <= n + 1, y # 0 PROVE Good(x, y)
    BY <1>1
  <2>1. x % y \in Nat /\ x % y <= n
    BY DivMod
  <2> QED  BY <1>2, <1>4, <2>1
<1>5. b \in S
  <2> HIDE DEF S
  <2> QED  BY <1>3, <1>4, SetInduction
<1> QED  BY <1>5

LEMMA LcmFacts ==
  ASSUME NEW a \in Nat \ {0}, NEW b \in Nat \ {0}
  PROVE  lcm(a, b) \in Nat \ {0} /\ Multiple(lcm(a, b), a) /\ Multiple(lcm(a, b), b)
<1> DEFINE g == gcd[<<a, b>>]
<1>1. g \in Nat /\ Multiple(a, g) /\ Multiple(b, g)
  BY GcdDivides
<1>2. lcm(a, b) = (a \div g) * b
  BY DEF lcm
<1> HIDE DEF g
<1>3. PICK p \in Nat, q \in Nat : a = p * g /\ b = q * g
  BY <1>1 DEF Multiple
<1>4. g # 0 /\ p # 0
  BY <1>1, <1>3
<1>5. a \div g = p
  BY <1>1, <1>3, <1>4, DivExact
<1>6. p * b = q * a /\ p * b \in Nat \ {0}
  <2>1. p * b = p * (q * g) /\ q * a = q * (p * g)
    BY <1>3
  <2>2. p * (q * g) = q * (p * g)
    BY <1>1
  <2>3. p * b # 0
    BY <1>4
  <2> QED  BY <2>1, <2>2, <2>3
<1> QED  BY <1>2, <1>5, <1>6 DEF Multiple

-----------------------------------------------------------------------------
(* Sums over finite sets.                                                  *)
OneOf(T) == CHOOSE x \in T : TRUE

Sums(g, f, S) ==
  \A T \in SUBSET S : g[T] = IF T = {} THEN 0 ELSE f[OneOf(T)] + g[T \ {OneOf(T)}]

LEMMA LessOne ==
  ASSUME NEW S, IsFiniteSet(S), NEW T \in SUBSET S, T # {}
  PROVE  /\ OneOf(T) \in T /\ T \ {OneOf(T)} \in SUBSET S
         /\ Cardinality(T) \in Nat /\ Cardinality(T \ {OneOf(T)}) = Cardinality(T) - 1
<1>1. OneOf(T) \in T
  BY DEF OneOf
<1>2. IsFiniteSet(T)
  BY FS_Subset
<1> QED  BY <1>1, <1>2, FS_RemoveElement, FS_CardinalityType

LEMMA SumsExist ==
  ASSUME NEW D, NEW f \in [D -> Nat], NEW S \in SUBSET D, IsFiniteSet(S)
  PROVE  \E g : Sums(g, f, S) /\ SumFunctionOnSet(f, S) = g[S]
<1> DEFINE Body(g) == [T \in SUBSET S |-> IF T = {} THEN 0
                                          ELSE f[CHOOSE x \in T : TRUE] + g[T \ {CHOOSE x \in T : TRUE}]]
           size == [T \in SUBSET S |-> Cardinality(T)]
           V == SUBSET S
           H == [g \in [V -> Nat] |-> Body(g)]
           start == [T \in V |-> 0]
           iter == CHOOSE g : g = Body(g)
<1>1. \A T \in V : T # {} => /\ OneOf(T) \in T /\ T \ {OneOf(T)} \in V
                             /\ size[T \ {OneOf(T)}] < size[T]
  <2> SUFFICES ASSUME NEW T \in V, T # {}
               PROVE  /\ OneOf(T) \in T /\ T \ {OneOf(T)} \in V
                      /\ size[T \ {OneOf(T)}] < size[T]
    OBVIOUS
  <2>1. /\ OneOf(T) \in T /\ T \ {OneOf(T)} \in SUBSET S
        /\ Cardinality(T) \in Nat /\ Cardinality(T \ {OneOf(T)}) = Cardinality(T) - 1
    BY LessOne
  <2> QED  BY <2>1
<1>2. size \in [V -> Nat] /\ start \in [V -> Nat]
  <2>1. \A T \in V : Cardinality(T) \in Nat
    BY FS_Subset, FS_CardinalityType
  <2> QED  BY <2>1
<1>3. ASSUME NEW g, NEW T \in V
      PROVE  /\ T = {} => Body(g)[T] = 0
             /\ T # {} => Body(g)[T] = f[OneOf(T)] + g[T \ {OneOf(T)}]
  BY DEF OneOf
<1>4. \A g : Body(g) = [T \in V |-> Body(g)[T]]
  OBVIOUS
<1>5. SumFunctionOnSet(f, S) = iter[S]
  BY Zenon DEF SumFunctionOnSet, FoldFunctionOnSet, MapThenFoldSet
<1> HIDE DEF Body
<1>6. ASSUME NEW g \in [V -> Nat], NEW T \in V PROVE Body(g)[T] \in Nat
  <2>1. T # {} => f[OneOf(T)] \in Nat /\ g[T \ {OneOf(T)}] \in Nat
    BY <1>1
  <2>2. CASE T = {}
    <3>1. Body(g)[T] = 0
      BY <2>2 DEF Body
    <3> QED  BY <3>1
  <2>3. CASE T # {}
    <3>1. Body(g)[T] = f[OneOf(T)] + g[T \ {OneOf(T)}]
      BY <1>3, <2>3
    <3> QED  BY <2>1, <2>3, <3>1
  <2> QED  BY <2>2, <2>3
<1>7. ASSUME NEW g \in [V -> Nat] PROVE Body(g) \in [V -> Nat]
  <2> HIDE DEF V
  <2> QED  BY <1>4, <1>6
<1>8. Shrinks(V, Nat, size, H)
  <2>1. H \in [[V -> Nat] -> [V -> Nat]]
    <3> HIDE DEF V
    <3> QED  BY <1>7
  <2>2. ASSUME NEW g \in [V -> Nat], NEW h \in [V -> Nat], NEW T \in V, Smaller(V, size, g, h, T)
        PROVE  Body(g)[T] = Body(h)[T]
    <3>1. T # {} => g[T \ {OneOf(T)}] = h[T \ {OneOf(T)}]
      <4> HIDE DEF V, size
      <4> QED  BY <1>1, <2>2 DEF Smaller
    <3> QED  BY <1>3, <3>1
  <2> HIDE DEF V, size
  <2> QED  BY <1>2, <2>1, <2>2 DEF Shrinks
<1>9. \E g \in [V -> Nat] : g = H[g]
  <2> HIDE DEF V, size, H, start
  <2> QED  BY <1>2, <1>8, Recursion
<1>10. iter = Body(iter)
  <2>1. \E g : g = Body(g)
    <3> HIDE DEF V
    <3> QED  BY <1>9
  <2> QED  BY <2>1
<1> HIDE DEF iter
<1>11. Sums(iter, f, S)
  <2> SUFFICES ASSUME NEW T \in V
               PROVE  iter[T] = IF T = {} THEN 0 ELSE f[OneOf(T)] + iter[T \ {OneOf(T)}]
    BY DEF Sums
  <2> QED  BY <1>3, <1>10
<1> QED  BY <1>5, <1>11

LEMMA SumsSame ==
  ASSUME NEW S, IsFiniteSet(S), NEW g, NEW h, NEW e, NEW f,
         Sums(g, e, S), Sums(h, f, S), \A x \in S : e[x] = f[x]
  PROVE  g[S] = h[S]
<1> DEFINE N == {n \in Nat : \A T \in SUBSET S : Cardinality(T) <= n => g[T] = h[T]}
<1>1. ASSUME NEW T \in SUBSET S PROVE Cardinality(T) \in Nat /\ IsFiniteSet(T)
  BY FS_Subset, FS_CardinalityType
<1>2. 0 \in N
  <2> SUFFICES ASSUME NEW T \in SUBSET S, Cardinality(T) <= 0 PROVE g[T] = h[T]
    OBVIOUS
  <2>1. T = {}
    BY <1>1, FS_EmptySet
  <2> QED  BY <2>1 DEF Sums
<1>3. ASSUME NEW n \in Nat, n \in N PROVE n + 1 \in N
  <2> SUFFICES ASSUME NEW T \in SUBSET S, Cardinality(T) <= n + 1 PROVE g[T] = h[T]
    OBVIOUS
  <2>1. CASE T = {}
    BY <2>1 DEF Sums
  <2>2. CASE T # {}
    <3> DEFINE x == OneOf(T)
    <3>1. /\ x \in T /\ T \ {x} \in SUBSET S
          /\ Cardinality(T) \in Nat /\ Cardinality(T \ {x}) = Cardinality(T) - 1
      BY <2>2, LessOne
    <3>2. g[T] = e[x] + g[T \ {x}] /\ h[T] = f[x] + h[T \ {x}]
      BY <2>2 DEF Sums
    <3> HIDE DEF x
    <3>3. g[T \ {x}] = h[T \ {x}]
      BY <1>3, <3>1
    <3> QED  BY <3>1, <3>2, <3>3
  <2> QED  BY <2>1, <2>2
<1>4. Cardinality(S) \in N
  <2> HIDE DEF N
  <2> QED  BY <1>1, <1>2, <1>3, SetInduction
<1> QED  BY <1>1, <1>4

LEMMA SumRec ==
  ASSUME NEW D, NEW f \in [D -> Nat], NEW S \in SUBSET D, IsFiniteSet(S)
  PROVE  SumFunctionOnSet(f, S) =
           IF S = {} THEN 0 ELSE f[OneOf(S)] + SumFunctionOnSet(f, S \ {OneOf(S)})
<1>1. PICK g : Sums(g, f, S) /\ SumFunctionOnSet(f, S) = g[S]
  BY SumsExist
<1>2. CASE S = {}
  BY <1>1, <1>2 DEF Sums
<1>3. CASE S # {}
  <2> DEFINE x == OneOf(S)
             T == S \ {x}
  <2>1. x \in S /\ T \in SUBSET S /\ IsFiniteSet(T) /\ T \in SUBSET D
    BY <1>3, LessOne, FS_Subset
  <2>2. g[S] = f[x] + g[T]
    BY <1>1, <1>3 DEF Sums
  <2>3. PICK h : Sums(h, f, T) /\ SumFunctionOnSet(f, T) = h[T]
    <3> HIDE DEF T
    <3> QED  BY <2>1, SumsExist
  <2>4. Sums(g, f, T)
    <3> HIDE DEF T, x
    <3> QED  BY <1>1, <2>1 DEF Sums
  <2>5. g[T] = h[T]
    <3> HIDE DEF T, x
    <3> QED  BY <2>1, <2>3, <2>4, SumsSame
  <2> HIDE DEF T
  <2>6. SumFunctionOnSet(f, S) = f[x] + SumFunctionOnSet(f, T)
    BY <1>1, <2>2, <2>3, <2>5
  <2> QED  BY <1>3, <2>6 DEF T
<1> QED  BY <1>2, <1>3

LEMMA SumNat ==
  ASSUME NEW D, NEW f \in [D -> Nat], NEW S \in SUBSET D, IsFiniteSet(S)
  PROVE  SumFunctionOnSet(f, S) \in Nat
<1> DEFINE N == {n \in Nat : \A T \in SUBSET S : Cardinality(T) <= n => SumFunctionOnSet(f, T) \in Nat}
<1>1. ASSUME NEW T \in SUBSET S PROVE Cardinality(T) \in Nat /\ IsFiniteSet(T) /\ T \in SUBSET D
  BY FS_Subset, FS_CardinalityType
<1>2. 0 \in N
  <2> SUFFICES ASSUME NEW T \in SUBSET S, Cardinality(T) <= 0 PROVE SumFunctionOnSet(f, T) \in Nat
    OBVIOUS
  <2>1. T = {}
    BY <1>1, FS_EmptySet
  <2> QED  BY <1>1, <2>1, SumRec
<1>3. ASSUME NEW n \in Nat, n \in N PROVE n + 1 \in N
  <2> SUFFICES ASSUME NEW T \in SUBSET S, Cardinality(T) <= n + 1 PROVE SumFunctionOnSet(f, T) \in Nat
    OBVIOUS
  <2>1. CASE T = {}
    <3>1. SumFunctionOnSet(f, T) = 0
      BY <1>1, <2>1, SumRec
    <3> QED  BY <3>1
  <2>2. CASE T # {}
    <3> DEFINE x == OneOf(T)
    <3>1. /\ x \in T /\ T \ {x} \in SUBSET S
          /\ Cardinality(T) \in Nat /\ Cardinality(T \ {x}) = Cardinality(T) - 1
      BY <2>2, LessOne
    <3>2. SumFunctionOnSet(f, T) = f[x] + SumFunctionOnSet(f, T \ {x})
      BY <1>1, <2>2, SumRec
    <3> HIDE DEF x
    <3>3. SumFunctionOnSet(f, T \ {x}) \in Nat /\ f[x] \in Nat
      BY <1>1, <1>3, <3>1
    <3> QED  BY <3>2, <3>3
  <2> QED  BY <2>1, <2>2
<1>4. Cardinality(S) \in N
  <2> HIDE DEF N
  <2> QED  BY <1>1, <1>2, <1>3, SetInduction
<1> QED  BY <1>1, <1>4

LEMMA SumSame ==
  ASSUME NEW D, NEW e \in [D -> Nat], NEW f \in [D -> Nat], NEW S \in SUBSET D, IsFiniteSet(S),
         \A x \in S : e[x] = f[x]
  PROVE  SumFunctionOnSet(e, S) = SumFunctionOnSet(f, S)
<1>1. PICK g : Sums(g, e, S) /\ SumFunctionOnSet(e, S) = g[S]
  BY SumsExist
<1>2. PICK h : Sums(h, f, S) /\ SumFunctionOnSet(f, S) = h[S]
  BY SumsExist
<1> QED  BY <1>1, <1>2, SumsSame

(* Whichever element is taken first.                                       *)
LEMMA SumTake ==
  ASSUME NEW D, NEW f \in [D -> Nat], NEW S \in SUBSET D, IsFiniteSet(S), NEW y \in S
  PROVE  SumFunctionOnSet(f, S) = f[y] + SumFunctionOnSet(f, S \ {y})
<1> DEFINE Sum(T) == SumFunctionOnSet(f, T)
           N == {n \in Nat : \A T \in SUBSET S : \A z \in T :
                               Cardinality(T) <= n => Sum(T) = f[z] + Sum(T \ {z})}
<1>1. ASSUME NEW T \in SUBSET S
      PROVE  Cardinality(T) \in Nat /\ IsFiniteSet(T) /\ T \in SUBSET D /\ Sum(T) \in Nat
  <2>1. IsFiniteSet(T) /\ Cardinality(T) \in Nat /\ T \in SUBSET D
    BY FS_Subset, FS_CardinalityType
  <2> QED  BY <2>1, SumNat
<1>2. 0 \in N
  <2> SUFFICES ASSUME NEW T \in SUBSET S, NEW z \in T, Cardinality(T) <= 0 PROVE FALSE
    OBVIOUS
  <2> QED  BY <1>1, FS_EmptySet
<1>3. ASSUME NEW n \in Nat, n \in N PROVE n + 1 \in N
  <2> SUFFICES ASSUME NEW T \in SUBSET S, NEW z \in T, Cardinality(T) <= n + 1
               PROVE  Sum(T) = f[z] + Sum(T \ {z})
    OBVIOUS
  <2> DEFINE x == OneOf(T)
             R == (T \ {x}) \ {z}
  <2>1. /\ x \in T /\ T \ {x} \in SUBSET S
        /\ Cardinality(T) \in Nat /\ Cardinality(T \ {x}) = Cardinality(T) - 1
    BY LessOne
  <2>2. Sum(T) = f[x] + Sum(T \ {x})
    BY <1>1, SumRec
  <2> HIDE DEF x, Sum
  <2>3. CASE x = z
    BY <2>2, <2>3
  <2>4. CASE x # z
    <3>1. Sum(T \ {x}) = f[z] + Sum(R)
      BY <1>3, <2>1, <2>4
    <3>2. R = (T \ {z}) \ {x} /\ x \in T \ {z} /\ T \ {z} \in SUBSET S /\ R \in SUBSET S
      BY <2>1, <2>4
    <3>3. Cardinality(T \ {z}) <= n
      <4>1. Cardinality(T \ {z}) = Cardinality(T) - 1
        BY <1>1, FS_RemoveElement
      <4> QED  BY <2>1, <4>1
    <3>4. Sum(T \ {z}) = f[x] + Sum(R)
      BY <1>3, <3>2, <3>3
    <3>5. f[x] \in Nat /\ f[z] \in Nat /\ Sum(R) \in Nat
      BY <1>1, <2>1, <3>2
    <3> HIDE DEF R
    <3> QED  BY <2>2, <3>1, <3>4, <3>5
  <2> QED  BY <2>3, <2>4
<1>4. Cardinality(S) \in N
  <2> HIDE DEF N
  <2> QED  BY <1>1, <1>2, <1>3, SetInduction
<1> QED  BY <1>1, <1>4

LEMMA SumScale ==
  ASSUME NEW D, NEW e \in [D -> Nat], NEW f \in [D -> Nat], NEW S \in SUBSET D, IsFiniteSet(S),
         NEW k \in Nat, \A x \in S : e[x] = k * f[x]
  PROVE  SumFunctionOnSet(e, S) = k * SumFunctionOnSet(f, S)
<1> DEFINE N == {n \in Nat : \A T \in SUBSET S : Cardinality(T) <= n =>
                               SumFunctionOnSet(e, T) = k * SumFunctionOnSet(f, T)}
<1>1. ASSUME NEW T \in SUBSET S
      PROVE  /\ Cardinality(T) \in Nat /\ IsFiniteSet(T) /\ T \in SUBSET D
             /\ SumFunctionOnSet(f, T) \in Nat
  <2>1. IsFiniteSet(T) /\ Cardinality(T) \in Nat /\ T \in SUBSET D
    BY FS_Subset, FS_CardinalityType
  <2> QED  BY <2>1, SumNat
<1>2. SumFunctionOnSet(e, {}) = k * SumFunctionOnSet(f, {})
  <2>1. IsFiniteSet({}) /\ {} \in SUBSET D
    BY FS_EmptySet
  <2>2. SumFunctionOnSet(e, {}) = 0 /\ SumFunctionOnSet(f, {}) = 0
    BY <2>1, SumRec
  <2> QED  BY <2>2
<1>3. 0 \in N
  <2> SUFFICES ASSUME NEW T \in SUBSET S, Cardinality(T) <= 0
               PROVE  SumFunctionOnSet(e, T) = k * SumFunctionOnSet(f, T)
    OBVIOUS
  <2>1. T = {}
    BY <1>1, FS_EmptySet
  <2> QED  BY <1>2, <2>1
<1>4. ASSUME NEW n \in Nat, n \in N PROVE n + 1 \in N
  <2> SUFFICES ASSUME NEW T \in SUBSET S, Cardinality(T) <= n + 1
               PROVE  SumFunctionOnSet(e, T) = k * SumFunctionOnSet(f, T)
    OBVIOUS
  <2>1. CASE T = {}
    BY <1>2, <2>1
  <2>2. CASE T # {}
    <3> DEFINE x == OneOf(T)
               R == T \ {x}
    <3>1. /\ x \in T /\ R \in SUBSET S
          /\ Cardinality(T) \in Nat /\ Cardinality(R) = Cardinality(T) - 1
      BY <2>2, LessOne
    <3>2. /\ SumFunctionOnSet(e, T) = e[x] + SumFunctionOnSet(e, R)
          /\ SumFunctionOnSet(f, T) = f[x] + SumFunctionOnSet(f, R)
      BY <1>1, <2>2, SumRec
    <3> HIDE DEF x, R
    <3>3. SumFunctionOnSet(e, R) = k * SumFunctionOnSet(f, R)
      BY <1>4, <3>1
    <3>4. e[x] = k * f[x] /\ f[x] \in Nat /\ SumFunctionOnSet(f, R) \in Nat
      BY <1>1, <3>1
    <3> DEFINE a == f[x]
               b == SumFunctionOnSet(f, R)
    <3>5. k * (a + b) = k * a + k * b
      <4>1. a \in Nat /\ b \in Nat
        BY <3>4
      <4> HIDE DEF a, b
      <4> QED  BY <4>1
    <3> QED  BY <3>2, <3>3, <3>4, <3>5
  <2> QED  BY <2>1, <2>2
<1>5. Cardinality(S) \in N
  <2> HIDE DEF N
  <2> QED  BY <1>1, <1>3, <1>4, SetInduction
<1> QED  BY <1>1, <1>5

-----------------------------------------------------------------------------
(* Loops over a finite set of numbers, the least one last.                 *)
LEMMA LeastOne ==
  ASSUME NEW S \in SUBSET Nat, IsFiniteSet(S), NEW T \in SUBSET S, T # {}
  PROVE  /\ Min(T) \in T /\ T \ {Min(T)} \in SUBSET S
         /\ Cardinality(T) \in Nat /\ Cardinality(T \ {Min(T)}) = Cardinality(T) - 1
<1> DEFINE N == {n \in Nat : \A m \in T : m <= n => \E x \in T : \A y \in T : x <= y}
<1>0. T \in SUBSET Nat
  OBVIOUS
<1>1. 0 \in N
  BY <1>0
<1>2. ASSUME NEW n \in Nat, n \in N PROVE n + 1 \in N
  <2> SUFFICES ASSUME NEW m \in T, m <= n + 1 PROVE \E x \in T : \A y \in T : x <= y
    OBVIOUS
  <2>1. CASE \E y \in T : y <= n
    BY <1>2, <2>1
  <2>2. CASE \A y \in T : ~(y <= n)
    <3>1. \A y \in T : m <= y
      BY <1>0, <2>2
    <3> QED  BY <3>1
  <2> QED  BY <2>1, <2>2
<1>3. \E x \in T : \A y \in T : x <= y
  <2>1. PICK m \in T : TRUE
    OBVIOUS
  <2>2. m \in N
    <3> HIDE DEF N
    <3> QED  BY <1>0, <1>1, <1>2, SetInduction
  <2> QED  BY <1>0, <2>2
<1>4. Min(T) \in T
  BY <1>3, Zenon DEF Min
<1>5. IsFiniteSet(T)
  BY FS_Subset
<1> QED  BY <1>4, <1>5, FS_RemoveElement, FS_CardinalityType

LEMMA LoopInduction ==
  ASSUME NEW S \in SUBSET Nat, IsFiniteSet(S), NEW G, {} \in G,
         \A T \in SUBSET S : T # {} /\ T \ {Min(T)} \in G => T \in G
  PROVE  S \in G
<1> DEFINE N == {n \in Nat : \A T \in SUBSET S : Cardinality(T) <= n => T \in G}
<1>1. ASSUME NEW T \in SUBSET S PROVE Cardinality(T) \in Nat /\ IsFiniteSet(T)
  BY FS_Subset, FS_CardinalityType
<1>2. 0 \in N
  <2> SUFFICES ASSUME NEW T \in SUBSET S, Cardinality(T) <= 0 PROVE T \in G
    OBVIOUS
  <2>1. T = {}
    BY <1>1, FS_EmptySet
  <2> QED  BY <2>1
<1>3. ASSUME NEW n \in Nat, n \in N PROVE n + 1 \in N
  <2> SUFFICES ASSUME NEW T \in SUBSET S, Cardinality(T) <= n + 1 PROVE T \in G
    OBVIOUS
  <2> SUFFICES ASSUME T # {} PROVE T \in G
    OBVIOUS
  <2>1. /\ T \ {Min(T)} \in SUBSET S
        /\ Cardinality(T) \in Nat /\ Cardinality(T \ {Min(T)}) = Cardinality(T) - 1
    BY LeastOne
  <2>2. T \ {Min(T)} \in G
    BY <1>3, <2>1
  <2> QED  BY <2>2
<1>4. Cardinality(S) \in N
  <2> HIDE DEF N
  <2> QED  BY <1>1, <1>2, <1>3, SetInduction
<1> QED  BY <1>1, <1>4

(* A loop whose round for x applies h[x] has a result, one of those the    *)
(* rounds may have.                                                        *)
Loops(g, S, b, h) ==
  \A T \in SUBSET S : g[T] = IF T = {} THEN b ELSE h[Min(T)][g[T \ {Min(T)}]]

LEMMA LoopExists ==
  ASSUME NEW S \in SUBSET Nat, IsFiniteSet(S), NEW V, NEW b \in V, NEW h \in [S -> [V -> V]]
  PROVE  \E g \in [SUBSET S -> V] : Loops(g, S, b, h)
<1> DEFINE D == SUBSET S
           size == [T \in D |-> Cardinality(T)]
           Body(g) == [T \in D |-> IF T = {} THEN b ELSE h[Min(T)][g[T \ {Min(T)}]]]
           H == [g \in [D -> V] |-> Body(g)]
           start == [T \in D |-> b]
<1>1. \A T \in D : T # {} => /\ Min(T) \in S /\ T \ {Min(T)} \in D
                             /\ size[T \ {Min(T)}] < size[T]
  <2> SUFFICES ASSUME NEW T \in D, T # {}
               PROVE  Min(T) \in S /\ T \ {Min(T)} \in D /\ size[T \ {Min(T)}] < size[T]
    OBVIOUS
  <2>1. /\ Min(T) \in T /\ T \ {Min(T)} \in D
        /\ Cardinality(T) \in Nat /\ Cardinality(T \ {Min(T)}) = Cardinality(T) - 1
    BY LeastOne
  <2>2. size[T] = Cardinality(T) /\ size[T \ {Min(T)}] = Cardinality(T \ {Min(T)})
    BY <2>1
  <2> HIDE DEF size
  <2>3. size[T \ {Min(T)}] < size[T]
    BY <2>1, <2>2
  <2> QED  BY <2>1, <2>3
<1>2. size \in [D -> Nat] /\ start \in [D -> V]
  <2>1. \A T \in D : Cardinality(T) \in Nat
    BY FS_Subset, FS_CardinalityType
  <2> HIDE DEF D
  <2> QED  BY <2>1
<1>3. ASSUME NEW g \in [D -> V], NEW T \in D
      PROVE  Body(g)[T] \in V
  <2>1. CASE T = {}
    <3>1. Body(g)[T] = b
      BY <2>1
    <3> HIDE DEF Body
    <3> QED  BY <3>1
  <2>2. CASE T # {}
    <3>1. h[Min(T)] \in [V -> V] /\ g[T \ {Min(T)}] \in V
      BY <1>1, <2>2
    <3>2. Body(g)[T] = h[Min(T)][g[T \ {Min(T)}]]
      BY <2>2
    <3> HIDE DEF Body
    <3> QED  BY <3>1, <3>2
  <2> QED  BY <2>1, <2>2
<1>4. ASSUME NEW g \in [D -> V], NEW e \in [D -> V], NEW T \in D, Smaller(D, size, g, e, T)
      PROVE  Body(g)[T] = Body(e)[T]
  <2>1. T # {} => g[T \ {Min(T)}] = e[T \ {Min(T)}]
    <3> HIDE DEF D, size
    <3> QED  BY <1>1, <1>4 DEF Smaller
  <2>2. CASE T = {}
    BY <2>2
  <2>3. CASE T # {}
    <3>1. h[Min(T)][g[T \ {Min(T)}]] = h[Min(T)][e[T \ {Min(T)}]]
      BY <2>1, <2>3
    <3> QED  BY <2>3, <3>1
  <2> QED  BY <2>2, <2>3
<1>5. Shrinks(D, V, size, H)
  <2>0. ASSUME NEW g \in [D -> V] PROVE Body(g) \in [D -> V]
    <3>1. \A T \in D : Body(g)[T] \in V
      BY <1>3
    <3>2. Body(g) = [T \in D |-> Body(g)[T]]
      OBVIOUS
    <3> HIDE DEF Body, D
    <3> QED  BY <3>1, <3>2
  <2>1. H \in [[D -> V] -> [D -> V]]
    <3> HIDE DEF D, Body
    <3> QED  BY <2>0
  <2> HIDE DEF D, size, Body
  <2> QED  BY <1>2, <1>4, <2>1 DEF Shrinks
<1>6. PICK g \in [D -> V] : g = Body(g)
  <2>1. \E g \in [D -> V] : g = H[g]
    <3> HIDE DEF D, size, H, start
    <3> QED  BY <1>2, <1>5, Recursion
  <2> HIDE DEF D
  <2> QED  BY <2>1
<1>7. Loops(g, S, b, h)
  <2> SUFFICES ASSUME NEW T \in SUBSET S
               PROVE  g[T] = IF T = {} THEN b ELSE h[Min(T)][g[T \ {Min(T)}]]
    BY DEF Loops
  <2> QED  BY <1>6
<1> QED  BY <1>6, <1>7

-----------------------------------------------------------------------------
(* What a booking does to a tracer.                                        *)
LEMMA BaseTFacts ==
  ASSUME NEW par, par.period \in Nat
  PROVE  BaseT(par) \in Nat \ {0}
BY ResTracerAssumption DEF BaseT

LEMMA TracerRec ==
  ASSUME NEW b \in Nat, NEW u \in Nat, NEW h \in BOOLEAN
  PROVE  [base |-> b, used |-> u, hm |-> h] \in Tracer
BY DEF Tracer

LEMMA BookFacts ==
  ASSUME NEW res \in Tracer, NEW par, par.runtime \in Nat, par.period \in Nat
  PROVE  LET new == Book(res, par)
         IN  /\ new \in Tracer /\ new.base # 0 /\ Multiple(new.base, BaseT(par))
             /\ res.base # 0 =>
                  \E k \in Nat : /\ new.base = k * res.base
                                 /\ k * res.used + par.runtime * (new.base \div BaseT(par)) <= new.used
             /\ res.base = 0 => par.runtime * (new.base \div BaseT(par)) <= new.used
<1> DEFINE t == BaseT(par)
           hyper == IF res.base = 0 THEN t ELSE lcm(res.base, t)
           extra == IF Unknown(par) THEN (res.used * 10) \div 100 ELSE 0
           told  == IF res.base = 0 THEN res.used + extra
                    ELSE ((res.used + extra) * hyper) \div res.base
           mine == (par.runtime * hyper) \div t
           h == res.hm /\ (res.base = 0 \/ hyper \in {res.base, t})
           new == [base |-> hyper, used |-> told + mine, hm |-> h]
<1>1. Book(res, par) = new
  BY Zenon DEF Book, Booked, Once
<1>2. t \in Nat \ {0} /\ res.base \in Nat /\ res.used \in Nat
  BY BaseTFacts DEF Tracer
<1>3. extra \in Nat
  <2>1. (res.used * 10) \div 100 \in Nat
    <3>1. res.used * 10 \in Nat
      BY <1>2
    <3> QED  BY <3>1, DivMod
  <2> QED  BY <2>1
<1> HIDE DEF extra, t
<1>4. hyper \in Nat \ {0} /\ Multiple(hyper, t)
  <2>1. CASE res.base = 0
    <3>1. t = 1 * t
      BY <1>2
    <3> QED  BY <1>2, <2>1, <3>1 DEF Multiple
  <2>2. CASE res.base # 0
    BY <1>2, <2>2, LcmFacts
  <2> QED  BY <2>1, <2>2
<1>5. mine = par.runtime * (hyper \div t) /\ mine \in Nat
  <2> HIDE DEF hyper
  <2>1. PICK k \in Nat : hyper = k * t
    BY <1>4 DEF Multiple
  <2>2. hyper \div t = k
    BY <1>2, <2>1, DivExact
  <2>3. par.runtime * hyper = (par.runtime * k) * t /\ par.runtime * k \in Nat
    BY <1>2, <2>1
  <2>4. ((par.runtime * k) * t) \div t = par.runtime * k
    BY <1>2, <2>3, DivExact
  <2> QED  BY <2>2, <2>3, <2>4
<1>6. ASSUME res.base # 0
      PROVE  \E k \in Nat : hyper = k * res.base /\ told \in Nat /\ k * res.used <= told
  <2>1. PICK k \in Nat : hyper = k * res.base
    <3>1. Multiple(lcm(res.base, t), res.base)
      BY <1>2, <1>6, LcmFacts
    <3> QED  BY <1>6, <3>1 DEF Multiple
  <2>2. told = ((res.used + extra) * hyper) \div res.base
    BY <1>6
  <2> HIDE DEF hyper, told
  <2>3. (res.used + extra) * hyper = ((res.used + extra) * k) * res.base /\ (res.used + extra) * k \in Nat
    BY <1>2, <1>3, <2>1
  <2>4. told = (res.used + extra) * k
    BY <1>2, <1>6, <2>2, <2>3, DivExact
  <2>5. (res.used + extra) * k = k * res.used + k * extra /\ k * extra \in Nat /\ k * res.used \in Nat
    BY <1>2, <1>3
  <2> QED  BY <2>1, <2>3, <2>4, <2>5
<1>7. told \in Nat
  <2>1. CASE res.base = 0
    BY <1>2, <1>3, <2>1
  <2>2. CASE res.base # 0
    BY <1>6, <2>2
  <2> QED  BY <2>1, <2>2
<1>8. h \in BOOLEAN
  BY Zenon
<1> HIDE DEF h, told, mine, hyper
<1>9. new \in Tracer
  <2>1. told + mine \in Nat
    BY <1>5, <1>7
  <2> QED  BY <1>4, <1>8, <2>1, TracerRec
<1>10. new.base = hyper /\ new.used = told + mine
  OBVIOUS
<1> HIDE DEF new
<1>11. ASSUME res.base # 0
       PROVE  \E k \in Nat : new.base = k * res.base /\ k * res.used + par.runtime * (new.base \div t) <= new.used
  <2>1. PICK k \in Nat : hyper = k * res.base /\ told \in Nat /\ k * res.used <= told
    BY <1>6, <1>11
  <2>2. k * res.used \in Nat
    BY <1>2
  <2>3. k * res.used + mine <= told + mine
    BY <1>5, <2>1, <2>2
  <2> QED  BY <1>5, <1>10, <2>1, <2>3
<1>12. par.runtime * (new.base \div t) <= new.used
  BY <1>5, <1>7, <1>10
<1> QED  BY <1>1, <1>4, <1>9, <1>10, <1>11, <1>12 DEF t

(* A score of 0 or more says that the task fits.                           *)
LEMMA FitsOne ==
  ASSUME NEW res, NEW par, 0 <= checkUvalue(res, par)
  PROVE  ~OverUtilised(Book(res, par))
<1>1. checkUvalue(res, par) = Score(res, Book(res, par), BaseT(par))
  BY Zenon DEF checkUvalue, Once
<1> SUFFICES ASSUME OverUtilised(Book(res, par)) PROVE FALSE
  OBVIOUS
<1>2. Score(res, Book(res, par), BaseT(par)) = -1
  BY DEF Score
<1> QED  BY <1>1, <1>2

(* checkPeriod() offers a CPU only if the task fits there, but for a CPU   *)
(* that is fixed, which it does not check.                                 *)
LEMMA BestFits ==
  ASSUME NEW trcs, NEW par, NEW aff, NEW cpu, ~(aff >= 0),
         checkPeriod(trcs, par, aff, cpu) # None
  PROVE  /\ checkPeriod(trcs, par, aff, cpu) \in Cpus
         /\ 0 <= checkUvalue(trcs[checkPeriod(trcs, par, aff, cpu)], par)
<1> DEFINE last == Max({0} \cup Cpus)
           try(acc, c) ==
             Once(acc, LAMBDA best : Once(checkUvalue(trcs[c], par), LAMBDA score :
               IF Better(best, c, score, trcs, aff, cpu)
                 THEN [cpu |-> c, last |-> score, load |-> trcs[c]] ELSE best))
           start == [cpu |-> None, last |-> Worst, load |-> [base |-> 1, used |-> 10]]
           Body(g, n) == IF n = -1 THEN start ELSE IF n \in Cpus THEN try(g[n - 1], n) ELSE g[n - 1]
           Rec(g) == [n \in -1..last |-> Body(g, n)]
           f == CHOOSE g : g = Rec(g)
<1>1. checkPeriod(trcs, par, aff, cpu) = f[last].cpu
  BY Zenon DEF checkPeriod, ForEachTracer
<1>2. last \in Nat
  BY LastCpu
<1>3. \E g : g = Rec(g)
  <2> HIDE DEF last, start, try
  <2> DEFINE S == {k \in Nat : \E g : g = [n \in -1..(k - 1) |-> Body(g, n)]}
  <2>1. 0 \in S
    <3> DEFINE g == [n \in -1..(0 - 1) |-> start]
    <3>1. g = [n \in -1..(0 - 1) |-> Body(g, n)]
      OBVIOUS
    <3> QED  BY <3>1
  <2>2. ASSUME NEW k \in Nat, k \in S PROVE k + 1 \in S
    <3>1. PICK g : g = [n \in -1..(k - 1) |-> Body(g, n)]
      BY <2>2
    <3> DEFINE h == [n \in -1..((k + 1) - 1) |-> IF n < k THEN g[n] ELSE Body(g, n)]
    <3>2. \A n \in -1..((k + 1) - 1) : n # -1 => h[n - 1] = g[n - 1]
      BY <2>2
    <3>3. \A n \in -1..((k + 1) - 1) : Body(h, n) = Body(g, n)
      <4> HIDE DEF h
      <4> QED  BY <3>2
    <3>4. \A n \in -1..((k + 1) - 1) : h[n] = Body(h, n)
      <4>1. \A n \in -1..(k - 1) : g[n] = Body(g, n)
        <5> HIDE DEF Body
        <5> QED  BY <3>1
      <4>2. \A n \in -1..((k + 1) - 1) : h[n] = Body(g, n)
        <5> HIDE DEF Body
        <5>1. ASSUME NEW n \in -1..((k + 1) - 1) PROVE h[n] = Body(g, n)
          <6>1. CASE n < k
            BY <2>2, <4>1, <6>1
          <6>2. CASE ~(n < k)
            BY <6>2
          <6> QED  BY <6>1, <6>2
        <5> QED  BY <5>1
      <4> HIDE DEF Body, h
      <4> QED  BY <3>3, <4>2
    <3>5. h = [n \in -1..((k + 1) - 1) |-> Body(h, n)]
      <4> HIDE DEF Body
      <4> QED  BY <3>4
    <3> HIDE DEF Body, h
    <3>6. \E e : e = [n \in -1..((k + 1) - 1) |-> Body(e, n)]
      BY <3>5
    <3>7. k + 1 \in Nat
      OBVIOUS
    <3> QED  BY <3>6, <3>7
  <2>3. last + 1 \in S
    <3> HIDE DEF S
    <3> QED  BY <1>2, <2>1, <2>2, SetInduction
  <2> QED  BY <1>2, <2>3
<1>4. f = Rec(f)
  <2> HIDE DEF Rec
  <2> QED  BY <1>3
<1>5. \A n \in -1..last : f[n] = Body(f, n)
  <2> HIDE DEF f, Body
  <2> QED  BY <1>4
<1> DEFINE Good(acc) == /\ 0 <= acc.last
                        /\ acc.cpu # None => acc.cpu \in Cpus /\ acc.last = checkUvalue(trcs[acc.cpu], par)
<1>6. Good(start)
  BY DEF None, Worst
<1>7. ASSUME NEW acc, NEW c \in Cpus, Good(acc) PROVE Good(try(acc, c))
  <2> DEFINE score == checkUvalue(trcs[c], par)
             new == [cpu |-> c, last |-> score, load |-> trcs[c]]
  <2>1. try(acc, c) = IF Better(acc, c, score, trcs, aff, cpu) THEN new ELSE acc
    BY Zenon DEF Once
  <2>2. ASSUME Better(acc, c, score, trcs, aff, cpu) PROVE 0 <= score
    BY <1>7, <2>2 DEF Better
  <2>3. CASE Better(acc, c, score, trcs, aff, cpu)
    <3>1. try(acc, c) = new
      BY <2>1, <2>3
    <3>2. Good(new)
      BY <2>2, <2>3
    <3> HIDE DEF try, new
    <3> QED  BY <3>1, <3>2
  <2>4. CASE ~Better(acc, c, score, trcs, aff, cpu)
    <3>1. try(acc, c) = acc
      BY <2>1, <2>4
    <3> HIDE DEF try
    <3> QED  BY <1>7, <3>1
  <2> QED  BY <2>3, <2>4
<1>8. Good(f[last])
  <2> HIDE DEF last, try, Good, start, f
  <2> DEFINE S == {k \in Nat : k - 1 <= last => Good(f[k - 1])}
  <2>1. 0 \in S
    BY <1>2, <1>5, <1>6
  <2>2. ASSUME NEW k \in Nat, k \in S PROVE k + 1 \in S
    <3> SUFFICES ASSUME k <= last PROVE Good(f[k])
      BY <2>2
    <3>1. Good(f[k - 1]) /\ k \in -1..last /\ k # -1
      BY <1>2, <2>2
    <3>2. f[k] = IF k \in Cpus THEN try(f[k - 1], k) ELSE f[k - 1]
      BY <1>5, <3>1
    <3> QED  BY <1>7, <3>1, <3>2
  <2>3. last + 1 \in S
    <3> HIDE DEF S
    <3> QED  BY <1>2, <2>1, <2>2, SetInduction
  <2> QED  BY <1>2, <2>3
<1> HIDE DEF f
<1> QED  BY <1>1, <1>8
-----------------------------------------------------------------------------
(* Periods, and what is booked on a CPU when it is computed anew.          *)
LEMMA PowerNat == \A p \in Nat : Power[p] \in Nat \ {0}
<1> DEFINE Body(f) == [p \in Nat |-> IF p <= 1 THEN 1 ELSE 10 * f[(p + 9) \div 10]]
           size == [p \in Nat |-> p]
           V == Nat \ {0}
           H == [f \in [Nat -> V] |-> Body(f)]
           start == [p \in Nat |-> 1]
<1>1. ASSUME NEW p \in Nat, ~(p <= 1)
      PROVE  (p + 9) \div 10 \in Nat /\ (p + 9) \div 10 < p
  <2> DEFINE q == (p + 9) \div 10
             r == (p + 9) % 10
  <2>1. q \in Nat /\ r \in Nat /\ p + 9 = 10 * q + r
    BY DivMod
  <2> HIDE DEF q, r
  <2>2. q < p
    BY <1>1, <2>1
  <2> QED  BY <2>1, <2>2 DEF q
<1>2. ASSUME NEW f \in [Nat -> V] PROVE Body(f) \in [Nat -> V]
  BY <1>1
<1>3. ASSUME NEW f \in [Nat -> V], NEW g \in [Nat -> V], NEW p \in Nat, Smaller(Nat, size, f, g, p)
      PROVE  Body(f)[p] = Body(g)[p]
  <2>1. CASE p <= 1
    BY <2>1
  <2>2. CASE ~(p <= 1)
    <3> DEFINE q == (p + 9) \div 10
    <3>1. q \in Nat /\ size[q] < size[p]
      BY <1>1, <2>2
    <3>2. f[q] = g[q]
      <4> HIDE DEF size, q
      <4> QED  BY <1>3, <3>1 DEF Smaller
    <3> QED  BY <2>2, <3>2
  <2> QED  BY <2>1, <2>2
<1>4. \E f \in [Nat -> V] : f = H[f]
  <2>1. H \in [[Nat -> V] -> [Nat -> V]]
    <3> HIDE DEF Body, V
    <3> QED  BY <1>2
  <2>2. \A f, g \in [Nat -> V] : \A p \in Nat : Smaller(Nat, size, f, g, p) => H[f][p] = H[g][p]
    <3> HIDE DEF Body, size, V
    <3> QED  BY <1>3
  <2>3. size \in [Nat -> Nat] /\ start \in [Nat -> V]
    OBVIOUS
  <2> HIDE DEF size, H, start, V
  <2>4. Shrinks(Nat, V, size, H)
    BY <2>1, <2>2, <2>3 DEF Shrinks
  <2> QED  BY <2>3, <2>4, Recursion
<1>5. Power = CHOOSE f : f = Body(f)
  BY Zenon DEF Power
<1>6. Power = Body(Power)
  <2> HIDE DEF Body
  <2> QED  BY <1>4, <1>5
<1>7. \A p \in Nat : Power[p] = IF p <= 1 THEN 1 ELSE 10 * Power[(p + 9) \div 10]
  <2> HIDE DEF Power
  <2> QED  BY <1>6
<1> DEFINE N == {n \in Nat : \A p \in Nat : p <= n => Power[p] \in Nat \ {0}}
<1> HIDE DEF Power
<1>8. 0 \in N
  BY <1>7
<1>9. ASSUME NEW n \in Nat, n \in N PROVE n + 1 \in N
  <2> SUFFICES ASSUME NEW p \in Nat, p <= n + 1, ~(p <= 1) PROVE Power[p] \in Nat \ {0}
    BY <1>7
  <2>1. Power[(p + 9) \div 10] \in Nat \ {0}
    BY <1>1, <1>9
  <2>2. Power[p] = 10 * Power[(p + 9) \div 10]
    BY <1>7
  <2> QED  BY <2>1, <2>2
<1>10. Nat \subseteq N
  <2> HIDE DEF N
  <2> QED  BY <1>8, <1>9, SetInduction
<1> QED  BY <1>10

LEMMA PeriodMatchNat == ASSUME NEW p \in Nat PROVE findPeriodMatch(p) \in Nat
<1>1. CASE p = 0
  BY <1>1, ResTracerAssumption DEF findPeriodMatch
<1>2. CASE p # 0
  <2> DEFINE t == Power[p]
             q == (80 * p + t) \div (2 * t)
  <2>1. t \in Nat \ {0}
    BY PowerNat
  <2>2. findPeriodMatch(p) = (q * t) \div 40
    BY <1>2 DEF findPeriodMatch
  <2> HIDE DEF t
  <2>3. q \in Nat
    <3>1. 80 * p + t \in Nat /\ 2 * t \in Nat /\ 2 * t > 0
      BY <2>1
    <3> QED  BY <3>1, DivMod
  <2> HIDE DEF q
  <2>4. q * t \in Nat
    BY <2>1, <2>3
  <2> QED  BY <2>2, <2>4, DivMod
<1> QED  BY <1>1, <1>2

LEMMA RecomputeFacts ==
  ASSUME NEW S \in SUBSET Nat, IsFiniteSet(S), NEW res \in Tracer,
         NEW tasks, DOMAIN tasks = S,
         \A p \in S : tasks[p].runtime \in Nat /\ tasks[p].period \in Nat
  PROVE  /\ recomputeTimes(res, tasks).res \in Tracer
         /\ recomputeTimes(res, tasks).res.hm = res.hm
<1> DEFINE add(acc, par) ==
             Once(acc, LAMBDA a : Once(Book(a.res, par), LAMBDA new :
               [res |-> new, over |-> a.over \/ OverUtilised(new)]))
           start == [res |-> Free(FALSE), over |-> FALSE]
           Body(g) == [T \in SUBSET DOMAIN tasks |-> IF T = {} THEN start
                                                     ELSE add(g[T \ {Min(T)}], tasks[Min(T)])]
           f == CHOOSE g : g = Body(g)
           V == [res : Tracer, over : BOOLEAN]
           h == [p \in S |-> [a \in V |-> add(a, tasks[p])]]
<1>1. recomputeTimes(res, tasks) = [f[S] EXCEPT !.res.hm = res.hm]
  BY Zenon DEF recomputeTimes, Once
<1>2. start \in V
  <2>1. Free(FALSE) \in Tracer
    BY TracerRec DEF Free
  <2>2. \A r \in Tracer : [res |-> r, over |-> FALSE] \in V
    OBVIOUS
  <2> QED  BY <2>1, <2>2
<1>3. ASSUME NEW a \in V, NEW p \in S PROVE add(a, tasks[p]) \in V
  <2> DEFINE new == Book(a.res, tasks[p])
             x == [res |-> new, over |-> a.over \/ OverUtilised(new)]
  <2>1. add(a, tasks[p]) = x
    BY Zenon DEF Once
  <2>2. a.res \in Tracer
    OBVIOUS
  <2>3. new \in Tracer
    BY <2>2, BookFacts
  <2> DEFINE o == a.over \/ OverUtilised(new)
  <2>4. o \in BOOLEAN
    BY Zenon
  <2> HIDE DEF add, new, o
  <2>5. x = [res |-> new, over |-> o]
    BY Zenon DEF o
  <2> HIDE DEF x
  <2>6. [res |-> new, over |-> o] \in V
    BY <2>3, <2>4
  <2> HIDE DEF V
  <2> QED  BY <2>1, <2>5, <2>6
<1> HIDE DEF add, start, V
<1>4. \E g : g = Body(g)
  <2>1. h \in [S -> [V -> V]]
    BY <1>3
  <2>2. PICK g \in [SUBSET S -> V] : Loops(g, S, start, h)
    <3> HIDE DEF h
    <3> QED  BY <1>2, <2>1, LoopExists
  <2>3. ASSUME NEW T \in SUBSET S, T # {} PROVE Min(T) \in S /\ T \ {Min(T)} \in SUBSET S
    BY <2>3, LeastOne
  <2>4. \A T \in SUBSET S : g[T] = IF T = {} THEN start ELSE add(g[T \ {Min(T)}], tasks[Min(T)])
    <3> SUFFICES ASSUME NEW T \in SUBSET S
                 PROVE  g[T] = IF T = {} THEN start ELSE add(g[T \ {Min(T)}], tasks[Min(T)])
      OBVIOUS
    <3>1. g[T] = IF T = {} THEN start ELSE h[Min(T)][g[T \ {Min(T)}]]
      BY <2>2 DEF Loops
    <3>2. CASE T = {}
      BY <3>1, <3>2
    <3>3. CASE T # {}
      <4>1. Min(T) \in S /\ g[T \ {Min(T)}] \in V
        BY <2>2, <2>3, <3>3
      <4>2. h[Min(T)][g[T \ {Min(T)}]] = add(g[T \ {Min(T)}], tasks[Min(T)])
        BY <4>1
      <4> HIDE DEF h
      <4> QED  BY <3>1, <3>3, <4>2
    <3> QED  BY <3>2, <3>3
  <2>5. g = Body(g)
    <3>1. g = [T \in SUBSET S |-> g[T]]
      BY <2>2
    <3> QED  BY <2>4, <3>1
  <2> QED  BY <2>5
<1>5. f = Body(f)
  <2> HIDE DEF Body
  <2> QED  BY <1>4
<1>6. \A T \in SUBSET S : f[T] = IF T = {} THEN start ELSE add(f[T \ {Min(T)}], tasks[Min(T)])
  <2> HIDE DEF f
  <2> QED  BY <1>5
<1> HIDE DEF f
<1> DEFINE G == {T \in SUBSET S : f[T] \in V}
<1>7. {} \in G
  BY <1>2, <1>6
<1>8. ASSUME NEW T \in SUBSET S, T # {}, T \ {Min(T)} \in G PROVE T \in G
  <2>1. Min(T) \in S
    BY <1>8, LeastOne
  <2>2. f[T] = add(f[T \ {Min(T)}], tasks[Min(T)])
    BY <1>6, <1>8
  <2>3. f[T] \in V
    BY <1>3, <1>8, <2>1, <2>2
  <2> QED  BY <2>3
<1>9. S \in G
  <2> HIDE DEF G
  <2> QED  BY <1>7, <1>8, LoopInduction
<1> DEFINE r == f[S].res
<1>10. f[S] \in V /\ r \in Tracer
  BY <1>9 DEF V
<1>11. recomputeTimes(res, tasks).res = [r EXCEPT !.hm = res.hm]
  <2>1. [f[S] EXCEPT !.res.hm = res.hm].res = [f[S].res EXCEPT !.hm = res.hm]
    BY <1>10 DEF V
  <2> QED  BY <1>1, <2>1
<1>12. [r EXCEPT !.hm = res.hm] \in Tracer /\ [r EXCEPT !.hm = res.hm].hm = res.hm
  <2> HIDE DEF r
  <2> QED  BY <1>10 DEF Tracer
<1> QED  BY <1>11, <1>12
=============================================================================
