---------------------------- MODULE PidListProofs ---------------------------
(***************************************************************************)
(* The merge of scanNew(), for any set of PIDs: it keeps the list sorted;  *)
(* done node by node under dataMutex it is one atomic refresh of the       *)
(* registry of PIDs; the CGroup is exclusive exactly while nodes are       *)
(* listed; the siblings of a container know of each other.                 *)
(***************************************************************************)
EXTENDS PidList, FiniteSetTheorems, TLAPS

-----------------------------------------------------------------------------
(* Facts about nodes and the two things done to a list of them: flagging   *)
(* some and appending one.                                                 *)

LEMMA NodeName == ASSUME NEW n \in Node PROVE Name(n) \in Nat \ {0} /\ n.pid \in Int
<1>1. n.pid \in Pids \cup {-p : p \in Pids}
  BY DEF Node
<1>2. Pids \subseteq Nat \ {0}
  BY PidListAssumption
<1>3. CASE n.pid \in Pids
  <2>1. n.pid \in Nat \ {0}
    BY <1>2, <1>3
  <2> QED  BY <2>1 DEF Name, Abs
<1>4. CASE n.pid \in {-p : p \in Pids}
  <2>1. PICK p \in Pids : n.pid = -p
    BY <1>4
  <2>2. p \in Nat \ {0}
    BY <1>2
  <2> QED  BY <2>1, <2>2 DEF Name, Abs
<1> QED  BY <1>1, <1>3, <1>4

LEMMA NodeFlagged ==
  ASSUME NEW n \in Node
  PROVE  LET m == [n EXCEPT !.sibl = 1] IN m \in Node /\ Name(m) = Name(n) /\ m.pid = n.pid
BY DEF Node, Flag, Name

LEMMA MarkAllNames ==
  ASSUME NEW s \in Seq(Node), NEW S
  PROVE  /\ MarkAll(s, S) \in Seq(Node)
         /\ Len(MarkAll(s, S)) = Len(s)
         /\ \A i \in 1..Len(s) : Name(MarkAll(s, S)[i]) = Name(s[i])
<1> DEFINE m == MarkAll(s, S)
<1>1. /\ DOMAIN s = 1..Len(s) /\ Len(s) \in Nat
      /\ \A i \in 1..Len(s) : s[i] \in Node
  OBVIOUS
<1>2. \A i \in 1..Len(s) : m[i] \in Node /\ Name(m[i]) = Name(s[i])
  BY <1>1, NodeFlagged DEF MarkAll
<1>3. m = [i \in 1..Len(s) |-> m[i]]
  BY <1>1 DEF MarkAll
<1>4. m \in Seq(Node) /\ Len(m) = Len(s)
  BY <1>1, <1>2, <1>3
<1> QED  BY <1>2, <1>4

LEMMA AppendDescending ==
  ASSUME NEW s \in Seq(Node), NEW n \in Node, Descending(s),
         \A i \in 1..Len(s) : Name(s[i]) > Name(n)
  PROVE  Append(s, n) \in Seq(Node) /\ Descending(Append(s, n))
<1>1. /\ Append(s, n) \in Seq(Node) /\ Len(Append(s, n)) = Len(s) + 1
      /\ DOMAIN Append(s, n) = 1..(Len(s) + 1) /\ DOMAIN s = 1..Len(s)
      /\ Append(s, n)[Len(s) + 1] = n
      /\ \A i \in 1..Len(s) : Append(s, n)[i] = s[i]
  OBVIOUS
<1>2. ASSUME NEW i \in 1..(Len(s) + 1), NEW j \in 1..(Len(s) + 1), i < j
      PROVE  Name(Append(s, n)[i]) > Name(Append(s, n)[j])
  <2>1. CASE j = Len(s) + 1
    BY <1>1, <1>2, <2>1
  <2>2. CASE j # Len(s) + 1
    BY <1>1, <1>2, <2>2 DEF Descending
  <2> QED  BY <2>1, <2>2
<1> QED  BY <1>1, <1>2 DEF Descending

LEMMA HeadTail ==
  ASSUME NEW s \in Seq(Node), s # <<>>, Descending(s)
  PROVE  /\ Head(s) \in Node /\ Tail(s) \in Seq(Node) /\ Descending(Tail(s))
         /\ Len(s) > 0 /\ Head(s) = s[1] /\ Len(Tail(s)) = Len(s) - 1
         /\ \A i \in 1..Len(Tail(s)) : Tail(s)[i] = s[i + 1] /\ Name(Head(s)) > Name(Tail(s)[i])
<1>1. /\ Len(s) \in Nat \ {0} /\ Head(s) = s[1] /\ Head(s) \in Node
      /\ Tail(s) \in Seq(Node) /\ Len(Tail(s)) = Len(s) - 1
      /\ DOMAIN s = 1..Len(s) /\ DOMAIN Tail(s) = 1..(Len(s) - 1)
  OBVIOUS
<1>2. \A i \in 1..(Len(s) - 1) : Tail(s)[i] = s[i + 1]
  OBVIOUS
<1>3. \A i \in 1..(Len(s) - 1) : Name(Head(s)) > Name(Tail(s)[i])
  BY <1>1, <1>2 DEF Descending
<1>4. Descending(Tail(s))
  BY <1>1, <1>2 DEF Descending
<1> QED  BY <1>1, <1>2, <1>3, <1>4

-----------------------------------------------------------------------------
(* What the merge keeps of its two halves d and r and the new list l: all  *)
(* three are in descending order, the merged half d lies above the other   *)
(* two, and the new nodes are active.                                      *)
Above(s, t) == \A i \in 1..Len(s), j \in 1..Len(t) : Name(s[i]) > Name(t[j])

Halves(d, r, l) ==
  /\ d \in Seq(Node) /\ r \in Seq(Node) /\ l \in Seq(Node)
  /\ Descending(d) /\ Descending(r) /\ Descending(l)
  /\ Above(d, r)
  /\ \A i \in 1..Len(l) : l[i].pid > 0

Merged(d, r, l) == Halves(d, r, l) /\ Above(d, l)

LEMMA NameRetired ==
  ASSUME NEW n \in Node
  PROVE  LET a == [n EXCEPT !.pid = -@]
             b == [n EXCEPT !.pid = -Abs(@)]
         IN  /\ a \in Node /\ Name(a) = Name(n)
             /\ b \in Node /\ Name(b) = Name(n)
<1>1. n.pid \in Pids \cup {-p : p \in Pids} /\ n.pid \in Int
  BY NodeName DEF Node
<1>2. Pids \subseteq Nat \ {0}
  BY PidListAssumption
<1>3. /\ -n.pid \in Pids \cup {-p : p \in Pids}
      /\ -Abs(n.pid) \in Pids \cup {-p : p \in Pids}
  <2>1. CASE n.pid \in Pids
    <3>1. n.pid \in Nat \ {0}
      BY <1>2, <2>1
    <3>2. Abs(n.pid) = n.pid
      BY <3>1 DEF Abs
    <3> QED  BY <2>1, <3>2
  <2>2. CASE n.pid \in {-p : p \in Pids}
    <3>1. PICK p \in Pids : n.pid = -p
      BY <2>2
    <3>2. p \in Nat \ {0}
      BY <1>2
    <3>3. -n.pid = p /\ Abs(n.pid) = p
      BY <3>1, <3>2 DEF Abs
    <3> QED  BY <3>1, <3>3
  <2> QED  BY <1>1, <2>1, <2>2
<1>4. Abs(-n.pid) = Abs(n.pid) /\ Abs(-Abs(n.pid)) = Abs(n.pid)
  BY <1>1 DEF Abs
<1> QED  BY <1>3, <1>4 DEF Node, Name

(* Only names matter to the order.                                         *)
LEMMA SameNames ==
  ASSUME NEW s \in Seq(Node), NEW t \in Seq(Node), Len(s) = Len(t),
         \A i \in 1..Len(s) : Name(s[i]) = Name(t[i])
  PROVE  /\ Descending(s) => Descending(t)
         /\ \A u \in Seq(Node) : /\ Above(s, u) => Above(t, u)
                                 /\ Above(u, s) => Above(u, t)
<1>1. DOMAIN s = 1..Len(s) /\ DOMAIN t = 1..Len(s)
  OBVIOUS
<1> QED  BY <1>1 DEF Descending, Above

(* The two kinds of step: the first node of the old list, or the first     *)
(* new node, goes behind the merged half.                                  *)
LEMMA TakeOld ==
  ASSUME NEW d, NEW r, NEW l, Merged(d, r, l), r # <<>>,
         l # <<>> => Name(Head(r)) > Name(Head(l)),
         NEW n \in Node, Name(n) = Name(Head(r))
  PROVE  Merged(Append(d, n), Tail(r), l) /\ Merged(d, Tail(r), l)
<1>1. d \in Seq(Node) /\ r \in Seq(Node) /\ l \in Seq(Node)
      /\ Descending(d) /\ Descending(r) /\ Descending(l)
      /\ Above(d, r) /\ Above(d, l) /\ \A i \in 1..Len(l) : l[i].pid > 0
  BY DEF Merged, Halves
<1>2. /\ Head(r) \in Node /\ Tail(r) \in Seq(Node) /\ Descending(Tail(r))
      /\ Len(r) \in Nat \ {0} /\ Head(r) = r[1] /\ Len(Tail(r)) = Len(r) - 1
      /\ \A i \in 1..Len(Tail(r)) : Tail(r)[i] = r[i + 1] /\ Name(Head(r)) > Name(Tail(r)[i])
  BY <1>1, HeadTail
<1>3. Above(d, Tail(r))
  BY <1>1, <1>2 DEF Above
<1>4. \A i \in 1..Len(d) : Name(d[i]) > Name(n)
  BY <1>1, <1>2 DEF Above
<1>5. /\ Append(d, n) \in Seq(Node) /\ Descending(Append(d, n))
      /\ Len(d) \in Nat /\ Len(Append(d, n)) = Len(d) + 1
      /\ Append(d, n)[Len(d) + 1] = n /\ \A i \in 1..Len(d) : Append(d, n)[i] = d[i]
  BY <1>1, <1>4, AppendDescending
<1>6. \A i \in 1..Len(l) : Name(n) > Name(l[i])
  <2>1. SUFFICES ASSUME l # <<>> PROVE \A i \in 1..Len(l) : Name(n) > Name(l[i])
    BY <1>1
  <2>2. /\ Head(l) \in Node /\ Len(l) \in Nat \ {0} /\ Head(l) = l[1]
        /\ DOMAIN l = 1..Len(l) /\ \A i \in 1..Len(l) : l[i] \in Node
    BY <1>1, <2>1
  <2>3. \A i \in 1..Len(l) : i = 1 \/ Name(l[1]) > Name(l[i])
    BY <1>1, <2>2 DEF Descending
  <2>4. \A i \in 1..Len(l) : Name(l[i]) \in Nat
    BY <2>2, NodeName
  <2>5. Name(n) > Name(l[1]) /\ Name(n) \in Nat
    BY <2>1, <2>2, NodeName
  <2> QED  BY <2>2, <2>3, <2>4, <2>5
<1>7. Above(Append(d, n), Tail(r)) /\ Above(Append(d, n), l)
  <2>1. ASSUME NEW i \in 1..(Len(d) + 1), NEW j \in 1..Len(Tail(r))
        PROVE  Name(Append(d, n)[i]) > Name(Tail(r)[j])
    <3>1. CASE i = Len(d) + 1
      BY <1>2, <1>5, <3>1
    <3>2. CASE i \in 1..Len(d)
      BY <1>3, <1>5, <3>2 DEF Above
    <3> QED  BY <1>5, <3>1, <3>2
  <2>2. ASSUME NEW i \in 1..(Len(d) + 1), NEW j \in 1..Len(l)
        PROVE  Name(Append(d, n)[i]) > Name(l[j])
    <3>1. CASE i = Len(d) + 1
      BY <1>5, <1>6, <3>1
    <3>2. CASE i \in 1..Len(d)
      BY <1>1, <1>5, <3>2 DEF Above
    <3> QED  BY <1>5, <3>1, <3>2
  <2> QED  BY <1>5, <2>1, <2>2 DEF Above
<1> QED  BY <1>1, <1>2, <1>3, <1>5, <1>7 DEF Merged, Halves

LEMMA MarkKeeps ==
  ASSUME NEW d, NEW r, NEW l, Merged(d, r, l), NEW S
  PROVE  Merged(MarkAll(d, S), MarkAll(r, S), l)
<1> DEFINE e == MarkAll(d, S)
           q == MarkAll(r, S)
<1>1. d \in Seq(Node) /\ r \in Seq(Node) /\ l \in Seq(Node)
      /\ Descending(d) /\ Descending(r) /\ Descending(l)
      /\ Above(d, r) /\ Above(d, l) /\ \A i \in 1..Len(l) : l[i].pid > 0
  BY DEF Merged, Halves
<1>2. /\ e \in Seq(Node) /\ Len(d) = Len(e) /\ \A i \in 1..Len(d) : Name(d[i]) = Name(e[i])
      /\ q \in Seq(Node) /\ Len(r) = Len(q) /\ \A i \in 1..Len(r) : Name(r[i]) = Name(q[i])
  BY <1>1, MarkAllNames
<1> HIDE DEF e, q
<1>3. Descending(e) /\ Above(e, r) /\ Above(e, l)
  BY <1>1, <1>2, SameNames
<1>4. Descending(q) /\ Above(e, q)
  BY <1>1, <1>2, <1>3, SameNames
<1>5. Merged(e, q, l)
  BY <1>1, <1>2, <1>3, <1>4 DEF Merged, Halves
<1> QED  BY <1>5 DEF e, q

LEMMA TakeNew ==
  ASSUME NEW d, NEW r, NEW l, Merged(d, r, l), l # <<>>,
         \A i \in 1..Len(r) : Name(Head(l)) > Name(r[i]),
         NEW n \in Node, Name(n) = Name(Head(l))
  PROVE  Merged(Append(d, n), r, Tail(l))
<1>1. d \in Seq(Node) /\ r \in Seq(Node) /\ l \in Seq(Node)
      /\ Descending(d) /\ Descending(r) /\ Descending(l)
      /\ Above(d, r) /\ Above(d, l) /\ \A i \in 1..Len(l) : l[i].pid > 0
  BY DEF Merged, Halves
<1>2. /\ Head(l) \in Node /\ Tail(l) \in Seq(Node) /\ Descending(Tail(l))
      /\ Len(l) \in Nat \ {0} /\ Head(l) = l[1] /\ Len(Tail(l)) = Len(l) - 1
      /\ \A i \in 1..Len(Tail(l)) : Tail(l)[i] = l[i + 1] /\ Name(Head(l)) > Name(Tail(l)[i])
  BY <1>1, HeadTail
<1>3. \A i \in 1..Len(Tail(l)) : Tail(l)[i].pid > 0
  BY <1>1, <1>2
<1>4. \A i \in 1..Len(d) : Name(d[i]) > Name(n)
  BY <1>1, <1>2 DEF Above
<1>5. /\ Append(d, n) \in Seq(Node) /\ Descending(Append(d, n))
      /\ Len(d) \in Nat /\ Len(Append(d, n)) = Len(d) + 1
      /\ Append(d, n)[Len(d) + 1] = n /\ \A i \in 1..Len(d) : Append(d, n)[i] = d[i]
  BY <1>1, <1>4, AppendDescending
<1>6. Above(d, Tail(l))
  BY <1>1, <1>2 DEF Above
<1>7. Above(Append(d, n), r) /\ Above(Append(d, n), Tail(l))
  <2>1. ASSUME NEW i \in 1..(Len(d) + 1), NEW j \in 1..Len(r)
        PROVE  Name(Append(d, n)[i]) > Name(r[j])
    <3>1. CASE i = Len(d) + 1
      BY <1>5, <3>1
    <3>2. CASE i \in 1..Len(d)
      BY <1>1, <1>5, <3>2 DEF Above
    <3> QED  BY <1>5, <3>1, <3>2
  <2>2. ASSUME NEW i \in 1..(Len(d) + 1), NEW j \in 1..Len(Tail(l))
        PROVE  Name(Append(d, n)[i]) > Name(Tail(l)[j])
    <3>1. CASE i = Len(d) + 1
      BY <1>2, <1>5, <3>1
    <3>2. CASE i \in 1..Len(d)
      BY <1>5, <1>6, <3>2 DEF Above
    <3> QED  BY <1>5, <3>1, <3>2
  <2> QED  BY <1>5, <2>1, <2>2 DEF Above
<1> QED  BY <1>1, <1>2, <1>3, <1>5, <1>7 DEF Merged, Halves

(* Splice() is TakeNew, after flagging siblings.                           *)
LEMMA SpliceMerged ==
  ASSUME NEW r, NEW h, Merged(done, r, lnew), lnew # <<>>,
         \A i \in 1..Len(r) : Name(Head(lnew)) > Name(r[i]),
         Splice(r, h)
  PROVE  Merged(done', rest', Tail(lnew)) /\ (r = <<>> => rest' = <<>>)
<1> DEFINE S == Siblings(Head(lnew).pid, Reached(done, r, h))
           n == [Head(lnew) EXCEPT !.sibl = IF S # {} THEN 1 ELSE @]
<1>1. r \in Seq(Node) /\ lnew \in Seq(Node) /\ Head(lnew) \in Node
  BY HeadTail DEF Merged, Halves
<1>2. done' = Append(MarkAll(done, S), n) /\ rest' = MarkAll(r, S)
  BY DEF Splice
<1> HIDE DEF S
<1>3. n \in Node /\ Name(n) = Name(Head(lnew))
  BY <1>1 DEF Node, Flag, Name
<1> HIDE DEF n
<1>4. Merged(MarkAll(done, S), MarkAll(r, S), lnew)
  BY MarkKeeps
<1>5. \A i \in 1..Len(MarkAll(r, S)) : Name(Head(lnew)) > Name(MarkAll(r, S)[i])
  BY <1>1, MarkAllNames
<1>6. Merged(Append(MarkAll(done, S), n), MarkAll(r, S), Tail(lnew))
  BY <1>3, <1>4, <1>5, TakeNew
<1>7. ASSUME r = <<>> PROVE MarkAll(r, S) = <<>>
  <2>1. MarkAll(r, S) \in Seq(Node) /\ Len(MarkAll(r, S)) = Len(r) /\ Len(r) = 0
    BY <1>1, <1>7, MarkAllNames
  <2> QED  BY <2>1
<1> QED  BY <1>2, <1>6, <1>7

-----------------------------------------------------------------------------
(* The inductive invariant.  SortedInv alone is not inductive: it does not *)
(* say that the next node of the old list belongs behind the merged half   *)
(* when the two are looked at separately, nor that `rest` is used up       *)
(* whenever the update thread leaves the merge loop.                       *)
MergeInv ==
  /\ live \subseteq Pids
  /\ Halves(done, rest, lnew)
  /\ phase \in {"merge", "append"} => Above(done, lnew)
  /\ phase # "merge" => rest = <<>>

LEMMA MergeInvInit == Init => MergeInv
<1> SUFFICES ASSUME Init PROVE MergeInv
  OBVIOUS
<1>1. <<>> \in Seq(Node) /\ Len(<<>>) = 0 /\ DOMAIN <<>> = {}
  OBVIOUS
<1> QED  BY <1>1 DEF Init, MergeInv, Halves, Above, Descending

(* The new list as pidUpdate() leaves it. *)
LEMMA GatherMerged ==
  ASSUME MergeInv, Gather
  PROVE  lnew' \in Seq(Node) /\ Descending(lnew') /\ \A i \in 1..Len(lnew') : lnew'[i].pid > 0
<1>1. PICK S, s : S \subseteq live /\ s \in SortDescending(S)
                  /\ lnew' = [i \in DOMAIN s |-> NewNode(s[i], S)]
  <2>1. ASSUME NEW x \in SUBSET live, \E s \in SortDescending(x) : lnew' = [i \in DOMAIN s |-> NewNode(s[i], x)]
        PROVE  \E S, s : S \subseteq live /\ s \in SortDescending(S)
                  /\ lnew' = [i \in DOMAIN s |-> NewNode(s[i], S)]
    BY <2>1
  <2> QED  BY <2>1 DEF Gather
<1>2. S \subseteq Pids /\ S \subseteq Nat \ {0}
  BY <1>1, PidListAssumption DEF MergeInv
<1>3. Cardinality(S) \in Nat
  BY <1>2, PidListAssumption, FS_Subset, FS_CardinalityType
<1>4. /\ s \in [1..Cardinality(S) -> S] /\ DOMAIN s = 1..Cardinality(S)
      /\ \A i, j \in 1..Cardinality(S) : i < j => s[i] > s[j]
  BY <1>1 DEF SortDescending
<1>5. /\ DOMAIN lnew' = 1..Cardinality(S)
      /\ \A i \in 1..Cardinality(S) : lnew'[i] = NewNode(s[i], S)
  BY <1>1, <1>4
<1>6. \A p \in Pids : /\ NewNode(p, S) \in Node /\ NewNode(p, S).pid = p
                     /\ Name(NewNode(p, S)) = p /\ p \in Nat \ {0}
  BY PidListAssumption DEF NewNode, Node, Flag, Name, Abs
<1>7. \A i \in 1..Cardinality(S) : lnew'[i] \in Node /\ lnew'[i].pid > 0 /\ Name(lnew'[i]) = s[i]
  <2>1. ASSUME NEW p \in Pids
        PROVE  NewNode(p, S) \in Node /\ NewNode(p, S).pid > 0 /\ Name(NewNode(p, S)) = p
    BY <1>6
  <2>2. ASSUME NEW i \in 1..Cardinality(S)
        PROVE  s[i] \in Pids /\ lnew'[i] = NewNode(s[i], S)
    BY <1>2, <1>4, <1>5
  <2> QED  BY <2>1, <2>2
<1>8. lnew' = [i \in 1..Cardinality(S) |-> lnew'[i]]
  BY <1>1, <1>4
<1>9. lnew' \in Seq(Node) /\ Len(lnew') = Cardinality(S)
  BY <1>3, <1>5, <1>7, <1>8
<1>10. Descending(lnew')
  BY <1>4, <1>5, <1>7 DEF Descending
<1> QED  BY <1>7, <1>9, <1>10

LEMMA MergeInvStep ==
  ASSUME MergeInv, [Next]_vars
  PROVE  MergeInv'
<1>1. /\ live \subseteq Pids /\ Halves(done, rest, lnew)
      /\ phase \in {"merge", "append"} => Merged(done, rest, lnew)
      /\ phase # "merge" => rest = <<>>
      /\ done \in Seq(Node) /\ rest \in Seq(Node) /\ lnew \in Seq(Node)
  BY DEF MergeInv, Merged, Halves
<1>2. lnew # <<>> => /\ Head(lnew) \in Node /\ Head(lnew).pid > 0 /\ Name(Head(lnew)) = Head(lnew).pid
                     /\ Len(lnew) \in Nat \ {0} /\ Head(lnew) = lnew[1]
  <2>1. ASSUME lnew # <<>>
        PROVE  Len(lnew) \in Nat \ {0} /\ Head(lnew) = lnew[1] /\ Head(lnew) \in Node
    BY <1>1, <2>1
  <2>2. ASSUME lnew # <<>> PROVE Head(lnew).pid > 0
    BY <1>1, <2>1, <2>2 DEF Halves
  <2>3. ASSUME lnew # <<>> PROVE Name(Head(lnew)) = Head(lnew).pid
    BY <2>1, <2>2, <2>3, NodeName DEF Name, Abs
  <2> QED  BY <2>1, <2>2, <2>3
<1>3. rest # <<>> => /\ Head(rest) \in Node /\ Head(rest) = rest[1]
                     /\ \A i \in 1..Len(rest) : i = 1 \/ Name(Head(rest)) > Name(rest[i])
                     /\ \A i \in 1..Len(rest) : Name(rest[i]) \in Nat
  <2>1. ASSUME rest # <<>>
        PROVE  Len(rest) \in Nat \ {0} /\ Head(rest) = rest[1] /\ Head(rest) \in Node /\ DOMAIN rest = 1..Len(rest)
    BY <1>1, <2>1
  <2>2. ASSUME rest # <<>>, NEW i \in 1..Len(rest), i # 1
        PROVE  Name(Head(rest)) > Name(rest[i])
    BY <1>1, <2>1, <2>2 DEF Halves, Descending
  <2>3. \A i \in 1..Len(rest) : rest[i] \in Node
    BY <1>1
  <2> QED  BY <2>1, <2>2, <2>3, NodeName
<1>4. MergeInv' <=> /\ live' \subseteq Pids /\ Halves(done', rest', lnew')
                    /\ phase' \in {"merge", "append"} => Above(done', lnew')
                    /\ phase' # "merge" => rest' = <<>>
  BY DEF MergeInv
<1>5. CASE ProcStart
  BY <1>1, <1>4, <1>5 DEF ProcStart, Merged, list
<1>6. CASE ProcExit
  BY <1>1, <1>4, <1>6 DEF ProcExit, Merged, list
<1>7. CASE DirVanish
  BY <1>1, <1>4, <1>7 DEF DirVanish, Merged, list
<1>8. CASE Measure
  <2>1. DOMAIN done = 1..Len(done) /\ Len(done) \in Nat /\ \A i \in 1..Len(done) : done[i] \in Node
    BY <1>1
  <2>2. \A i \in 1..Len(done) : done'[i] \in Node /\ Name(done'[i]) = Name(done[i])
    BY <1>8, <2>1 DEF Measure, Node, Flag, Name
  <2>3. done' = [i \in 1..Len(done) |-> done'[i]]
    BY <1>8, <2>1 DEF Measure
  <2>4. done' \in Seq(Node) /\ Len(done') = Len(done)
    BY <2>1, <2>2, <2>3
  <2>5. live' = live /\ rest' = rest /\ lnew' = lnew /\ phase' = phase /\ phase \notin {"merge", "append"}
    BY <1>8 DEF Measure, env
  <2>6. Descending(done') /\ Above(done', rest)
    BY <1>1, <2>2, <2>4, SameNames DEF Halves
  <2> QED  BY <1>1, <1>4, <2>4, <2>5, <2>6 DEF Halves
<1>9. CASE Gather
  <2>1. live' = live /\ rest' = rest /\ done' = done /\ phase' = "gathered" /\ phase # "merge"
    BY <1>9 DEF Gather, env, list
  <2>2. Halves(done, rest, lnew')
    BY <1>1, <1>9, GatherMerged DEF Halves
  <2> QED  BY <1>1, <1>4, <2>1, <2>2
<1>10. CASE Lock
  <2>1. live' = live /\ rest' = done /\ done' = <<>> /\ lnew' = lnew /\ phase' = "merge"
    BY <1>10 DEF Lock, env
  <2>2. <<>> \in Seq(Node) /\ Len(<<>>) = 0 /\ DOMAIN <<>> = {}
    OBVIOUS
  <2>3. Above(<<>>, done) /\ Above(<<>>, lnew) /\ Descending(<<>>)
    BY <2>2 DEF Above, Descending
  <2>4. Halves(<<>>, done, lnew)
    BY <1>1, <2>2, <2>3 DEF Halves
  <2> QED  BY <1>1, <1>4, <2>1, <2>3, <2>4
<1>11. CASE Insert
  <2>1. live' = live /\ phase' = phase /\ phase = "merge" /\ lnew' = Tail(lnew) /\ lnew # <<>> /\ rest # <<>>
        /\ Splice(rest, head) /\ Head(lnew).pid > Name(Head(rest))
    BY <1>11 DEF Insert, Merging, scanframe, env
  <2>2. \A i \in 1..Len(rest) : Name(Head(lnew)) > Name(rest[i])
    BY <1>2, <1>3, <2>1, NodeName
  <2>3. Merged(done', rest', lnew')
    BY <1>1, <2>1, <2>2, SpliceMerged
  <2> QED  BY <1>1, <1>4, <2>1, <2>3 DEF Merged
<1>12. CASE Revive
  <2>1. live' = live /\ phase' = phase /\ phase = "merge" /\ lnew' = Tail(lnew) /\ lnew # <<>> /\ rest # <<>>
        /\ (\E h : Splice(Tail(rest), h)) /\ Head(lnew).pid = -Head(rest).pid
    BY <1>12 DEF Revive, Merging, scanframe, env
  <2>2. Name(Head(lnew)) = Name(Head(rest))
    BY <1>2, <1>3, <2>1, NodeName DEF Name, Abs
  <2>3. Descending(rest)
    BY <1>1 DEF Halves
  <2>4. /\ Tail(rest) \in Seq(Node) /\ Descending(Tail(rest))
        /\ Len(rest) \in Nat \ {0} /\ Len(Tail(rest)) = Len(rest) - 1 /\ Head(rest) = rest[1]
        /\ \A i \in 1..Len(Tail(rest)) : Tail(rest)[i] = rest[i + 1] /\ Name(Head(rest)) > Name(Tail(rest)[i])
    BY <1>1, <2>1, <2>3, HeadTail
  <2>5. Merged(done, Tail(rest), lnew)
    BY <1>1, <2>1, <2>4 DEF Merged, Halves, Above
  <2>6. Merged(done', rest', lnew')
    BY <2>1, <2>2, <2>4, <2>5, SpliceMerged
  <2> QED  BY <1>1, <1>4, <2>1, <2>6 DEF Merged
<1>13. CASE SkipRetired
  <2>1. live' = live /\ phase' = phase /\ phase = "merge" /\ lnew' = lnew /\ lnew # <<>> /\ rest # <<>>
        /\ done' = Append(done, Head(rest)) /\ rest' = Tail(rest) /\ Head(lnew).pid < Name(Head(rest))
    BY <1>13 DEF SkipRetired, Merging, scanframe, env
  <2>2. Name(Head(rest)) > Name(Head(lnew))
    BY <1>2, <1>3, <2>1, NodeName
  <2>3. Merged(done', rest', lnew')
    BY <1>1, <1>3, <2>1, <2>2, TakeOld
  <2> QED  BY <1>1, <1>4, <2>1, <2>3 DEF Merged
<1>14. CASE Retire
  <2>1. live' = live /\ phase' = phase /\ phase = "merge" /\ lnew' = lnew /\ lnew # <<>> /\ rest # <<>>
        /\ done' = Append(done, [Head(rest) EXCEPT !.pid = -@]) /\ rest' = Tail(rest)
        /\ Head(lnew).pid < Head(rest).pid
    BY <1>14 DEF Retire, Merging, scanframe, env
  <2>2. Name(Head(rest)) > Name(Head(lnew))
    BY <1>2, <1>3, <2>1, NodeName DEF Name, Abs
  <2>3. [Head(rest) EXCEPT !.pid = -@] \in Node /\ Name([Head(rest) EXCEPT !.pid = -@]) = Name(Head(rest))
    BY <1>3, <2>1, NameRetired
  <2>4. Merged(done', rest', lnew')
    BY <1>1, <2>1, <2>2, <2>3, TakeOld
  <2> QED  BY <1>1, <1>4, <2>1, <2>4 DEF Merged
<1>15. CASE Drop
  <2>1. live' = live /\ phase' = phase /\ phase = "merge" /\ lnew' = lnew /\ lnew # <<>> /\ rest # <<>>
        /\ done' = done /\ rest' = Tail(rest) /\ Head(lnew).pid < Head(rest).pid
    BY <1>15 DEF Drop, Merging, scanframe, env
  <2>2. Name(Head(rest)) > Name(Head(lnew))
    BY <1>2, <1>3, <2>1, NodeName DEF Name, Abs
  <2>3. Merged(done', rest', lnew')
    BY <1>1, <1>3, <2>1, <2>2, TakeOld
  <2> QED  BY <1>1, <1>4, <2>1, <2>3 DEF Merged
<1>16. CASE Keep
  <2>1. live' = live /\ phase' = phase /\ phase = "merge" /\ lnew' = Tail(lnew) /\ lnew # <<>> /\ rest # <<>>
        /\ done' = Append(done, Head(rest)) /\ rest' = Tail(rest) /\ Head(lnew).pid = Head(rest).pid
    BY <1>16 DEF Keep, Merging, scanframe, env
  <2>2. Name(Head(rest)) = Name(Head(lnew))
    BY <2>1 DEF Name
  <2>3. Descending(rest)
    BY <1>1 DEF Halves
  <2>4. /\ Tail(rest) \in Seq(Node) /\ Descending(Tail(rest))
        /\ Len(rest) \in Nat \ {0} /\ Len(Tail(rest)) = Len(rest) - 1 /\ Head(rest) = rest[1]
        /\ \A i \in 1..Len(Tail(rest)) : Tail(rest)[i] = rest[i + 1] /\ Name(Head(rest)) > Name(Tail(rest)[i])
    BY <1>1, <2>1, <2>3, HeadTail
  <2>5. Merged(done, Tail(rest), lnew)
    BY <1>1, <2>1, <2>4 DEF Merged, Halves, Above
  <2>6. Merged(done', rest', lnew')
    BY <1>3, <2>1, <2>2, <2>4, <2>5, TakeNew
  <2> QED  BY <1>1, <1>4, <2>1, <2>6 DEF Merged
<1>17. CASE DropRest
  <2>1. live' = live /\ phase' = phase /\ phase = "merge" /\ lnew' = lnew /\ lnew = <<>> /\ rest # <<>>
        /\ (done' = Append(done, [Head(rest) EXCEPT !.pid = -Abs(@)]) \/ done' = done) /\ rest' = Tail(rest)
    BY <1>17 DEF DropRest, scanframe, env
  <2>2. /\ [Head(rest) EXCEPT !.pid = -Abs(@)] \in Node
        /\ Name([Head(rest) EXCEPT !.pid = -Abs(@)]) = Name(Head(rest))
    BY <1>3, <2>1, NameRetired
  <2>3. Merged(done', rest', lnew')
    BY <1>1, <2>1, <2>2, TakeOld
  <2> QED  BY <1>1, <1>4, <2>1, <2>3 DEF Merged
<1>18. CASE EndMerge \/ EndAppend
  <2>1. live' = live /\ rest' = rest /\ done' = done /\ lnew' = lnew /\ phase' = "unlocked" /\ rest = <<>>
    BY <1>1, <1>18 DEF EndMerge, EndAppend, env
  <2> QED  BY <1>1, <1>4, <2>1
<1>19. CASE StartAppend
  <2>1. live' = live /\ rest' = rest /\ done' = done /\ lnew' = lnew /\ phase = "merge" /\ rest = <<>>
    BY <1>19 DEF StartAppend, env
  <2> QED  BY <1>1, <1>4, <2>1 DEF Merged
<1>20. CASE AppendNew
  <2>1. live' = live /\ phase' = phase /\ phase = "append" /\ lnew' = Tail(lnew) /\ lnew # <<>>
        /\ rest = <<>> /\ Splice(<<>>, head)
    BY <1>1, <1>20 DEF AppendNew, scanframe, env
  <2>2. Merged(done, <<>>, lnew) /\ \A i \in 1..Len(<<>>) : Name(Head(lnew)) > Name(<<>>[i])
    BY <1>1, <2>1
  <2>3. Merged(done', rest', lnew') /\ rest' = <<>>
    BY <2>1, <2>2, SpliceMerged
  <2> QED  BY <1>1, <1>4, <2>1, <2>3 DEF Merged
<1>21. CASE Regroup
  <2>1. live' = live /\ rest' = rest /\ done' = done /\ lnew' = lnew /\ phase' = "idle" /\ rest = <<>>
    BY <1>1, <1>21 DEF Regroup, env, list
  <2> QED  BY <1>1, <1>4, <2>1
<1>22. CASE \E c \in Containers : DockerRemove(c)
  <2>1. PICK c \in Containers : DockerRemove(c)
    BY <1>22
  <2>2. \A i \in DOMAIN done : ContidAddress(done[i]) # Fresh
    BY <1>1, NodeName DEF ContidAddress, Fresh
  <2>3. live' = live /\ rest' = rest /\ done' = done /\ lnew' = lnew /\ phase' = "rescan" /\ phase = "idle"
    BY <2>1, <2>2 DEF DockerRemove, env
  <2> QED  BY <1>1, <1>4, <2>3
<1>23. CASE UNCHANGED vars
  BY <1>1, <1>4, <1>23 DEF vars, env, list, Merged
<1> QED
  BY <1>5, <1>6, <1>7, <1>8, <1>9, <1>10, <1>11, <1>12, <1>13, <1>14, <1>15, <1>16, <1>17, <1>18,
     <1>19, <1>20, <1>21, <1>22, <1>23 DEF Next, Scan

(* Two descending halves, the first above the second, are one descending   *)
(* list.                                                                   *)
LEMMA MergeInvSorted == MergeInv => SortedInv
<1> SUFFICES ASSUME MergeInv PROVE SortedInv
  OBVIOUS
<1>1. /\ done \in Seq(Node) /\ rest \in Seq(Node) /\ lnew \in Seq(Node)
      /\ Descending(done) /\ Descending(rest) /\ Descending(lnew) /\ Above(done, rest)
      /\ phase \in {"merge", "append"} => Above(done, lnew)
  BY DEF MergeInv, Halves
<1>2. /\ DOMAIN done = 1..Len(done) /\ DOMAIN rest = 1..Len(rest) /\ DOMAIN lnew = 1..Len(lnew)
      /\ Len(done) \in Nat /\ Len(rest) \in Nat
      /\ Len(done \o rest) = Len(done) + Len(rest) /\ DOMAIN (done \o rest) = 1..(Len(done) + Len(rest))
      /\ \A i \in 1..Len(done) : (done \o rest)[i] = done[i]
      /\ \A i \in (Len(done) + 1)..(Len(done) + Len(rest)) : (done \o rest)[i] = rest[i - Len(done)]
  BY <1>1
<1>3. ASSUME NEW i \in 1..(Len(done) + Len(rest)), NEW j \in 1..(Len(done) + Len(rest)), i < j
      PROVE  Name((done \o rest)[i]) > Name((done \o rest)[j])
  <2>1. CASE j \in 1..Len(done)
    BY <1>1, <1>2, <1>3, <2>1 DEF Descending
  <2>2. CASE i \in 1..Len(done) /\ j > Len(done)
    <3>1. j - Len(done) \in 1..Len(rest) /\ j \in (Len(done) + 1)..(Len(done) + Len(rest))
      BY <1>2, <2>2
    <3> QED  BY <1>1, <1>2, <2>2, <3>1 DEF Above
  <2>3. CASE i > Len(done)
    <3>1. /\ i - Len(done) \in 1..Len(rest) /\ i \in (Len(done) + 1)..(Len(done) + Len(rest))
          /\ j - Len(done) \in 1..Len(rest) /\ j \in (Len(done) + 1)..(Len(done) + Len(rest))
          /\ i - Len(done) < j - Len(done)
      BY <1>2, <1>3, <2>3
    <3> QED  BY <1>1, <1>2, <3>1 DEF Descending
  <2> QED  BY <1>2, <1>3, <2>1, <2>2, <2>3
<1>4. Descending(List)
  BY <1>2, <1>3 DEF Descending, List
<1> QED  BY <1>1, <1>2, <1>4 DEF SortedInv, Above

(* The list is in strictly descending order of PIDs, without a duplicate,  *)
(* at every step of every merge, whatever processes come and go: the merge *)
(* of scanNew(), which assumes it, keeps it.                               *)
THEOREM SortedAlways == Spec => []SortedInv
<1>1. Init => MergeInv
  BY MergeInvInit
<1>2. MergeInv /\ [Next]_vars => MergeInv'
  BY MergeInvStep
<1>3. MergeInv => SortedInv
  BY MergeInvSorted
<1> QED  BY <1>1, <1>2, <1>3, PTL DEF Spec

-----------------------------------------------------------------------------
(* nhead.  What the steps of the merge do to the set of names.             *)
LEMMA NamesAppend ==
  ASSUME NEW s \in Seq(Node), NEW n \in Node
  PROVE  Names(Append(s, n)) = Names(s) \cup {Name(n)} /\ Append(s, n) # <<>>
<1>1. /\ DOMAIN s = 1..Len(s) /\ Len(s) \in Nat /\ Len(Append(s, n)) = Len(s) + 1 /\ Len(<<>>) = 0
      /\ DOMAIN Append(s, n) = 1..(Len(s) + 1) /\ Append(s, n)[Len(s) + 1] = n
      /\ \A i \in 1..Len(s) : Append(s, n)[i] = s[i]
  OBVIOUS
<1>2. 1..(Len(s) + 1) = 1..Len(s) \cup {Len(s) + 1}
  BY <1>1
<1>3. Append(s, n) # <<>>
  <2>1. Len(Append(s, n)) # Len(<<>>)
    BY <1>1
  <2> QED  BY <2>1
<1> QED  BY <1>1, <1>2, <1>3 DEF Names

LEMMA NamesMark ==
  ASSUME NEW s \in Seq(Node), NEW S
  PROVE  Names(MarkAll(s, S)) = Names(s)
<1>1. /\ DOMAIN s = 1..Len(s) /\ DOMAIN MarkAll(s, S) = 1..Len(s)
      /\ \A i \in 1..Len(s) : Name(MarkAll(s, S)[i]) = Name(s[i])
  <2>1. DOMAIN s = 1..Len(s)
    OBVIOUS
  <2>2. DOMAIN MarkAll(s, S) = DOMAIN s
    BY DEF MarkAll
  <2>3. \A i \in 1..Len(s) : Name(MarkAll(s, S)[i]) = Name(s[i])
    BY MarkAllNames
  <2> QED  BY <2>1, <2>2, <2>3
<1>2. Names(MarkAll(s, S)) = {Name(MarkAll(s, S)[i]) : i \in 1..Len(s)}
  BY <1>1 DEF Names
<1>3. Names(s) = {Name(s[i]) : i \in 1..Len(s)}
  BY <1>1 DEF Names
<1> QED  BY <1>1, <1>2, <1>3

LEMMA NamesHead ==
  ASSUME NEW s \in Seq(Node), s # <<>>
  PROVE  Head(s) \in Node /\ Names(s) = {Name(Head(s))} \cup Names(Tail(s))
<1>1. DOMAIN s = 1..Len(s) /\ Len(s) \in Nat
  OBVIOUS
<1>2. /\ Head(s) \in Node /\ Head(s) = s[1] /\ Len(s) > 0 /\ DOMAIN Tail(s) = 1..(Len(s) - 1)
      /\ \A i \in 1..(Len(s) - 1) : Tail(s)[i] = s[i + 1]
  OBVIOUS
<1>3. ASSUME NEW i \in 1..Len(s) PROVE Name(s[i]) \in {Name(Head(s))} \cup Names(Tail(s))
  <2>1. CASE i = 1
    BY <1>2, <2>1
  <2>2. CASE i # 1
    <3>1. i - 1 \in 1..(Len(s) - 1) /\ (i - 1) + 1 = i
      BY <1>1, <2>2
    <3>2. Tail(s)[i - 1] = s[i]
      BY <1>2, <3>1
    <3> QED  BY <1>2, <3>1, <3>2 DEF Names
  <2> QED  BY <2>1, <2>2
<1>4. ASSUME NEW i \in 1..(Len(s) - 1) PROVE Name(Tail(s)[i]) \in Names(s)
  <2>1. i + 1 \in 1..Len(s)
    BY <1>1
  <2> QED  BY <1>1, <1>2, <2>1 DEF Names
<1>5. Name(Head(s)) \in Names(s)
  BY <1>1, <1>2 DEF Names
<1>6. Names(s) \subseteq {Name(Head(s))} \cup Names(Tail(s))
  BY <1>1, <1>3 DEF Names
<1>7. Names(Tail(s)) \subseteq Names(s)
  BY <1>2, <1>4 DEF Names
<1> QED  BY <1>2, <1>5, <1>6, <1>7

LEMMA NamesConcat ==
  ASSUME NEW s \in Seq(Node), NEW t \in Seq(Node)
  PROVE  /\ Names(s \o t) = Names(s) \cup Names(t)
         /\ s \o t # <<>> => Head(s \o t) \in Node /\ Name(Head(s \o t)) \in Names(s) \cup Names(t)
<1>1. /\ DOMAIN s = 1..Len(s) /\ DOMAIN t = 1..Len(t) /\ Len(s) \in Nat /\ Len(t) \in Nat
      /\ s \o t \in Seq(Node) /\ DOMAIN (s \o t) = 1..(Len(s) + Len(t))
      /\ \A i \in 1..Len(s) : (s \o t)[i] = s[i]
  OBVIOUS
<1>2. ASSUME NEW i \in 1..Len(t)
      PROVE  (s \o t)[i + Len(s)] = t[i] /\ i + Len(s) \in 1..(Len(s) + Len(t))
  BY <1>1
<1>3. ASSUME NEW i \in 1..(Len(s) + Len(t)) PROVE Name((s \o t)[i]) \in Names(s) \cup Names(t)
  <2>1. CASE i \in 1..Len(s)
    BY <1>1, <2>1 DEF Names
  <2>2. CASE i > Len(s)
    <3>1. i - Len(s) \in 1..Len(t) /\ (i - Len(s)) + Len(s) = i
      BY <1>1, <2>2
    <3>2. (s \o t)[i] = t[i - Len(s)]
      BY <1>2, <3>1
    <3> QED  BY <1>1, <3>1, <3>2 DEF Names
  <2> QED  BY <1>1, <2>1, <2>2
<1>4. Names(s) \subseteq Names(s \o t)
  <2>1. 1..Len(s) \subseteq 1..(Len(s) + Len(t))
    BY <1>1
  <2> QED  BY <1>1, <2>1 DEF Names
<1>5. Names(t) \subseteq Names(s \o t)
  BY <1>1, <1>2 DEF Names
<1>6. Names(s \o t) = Names(s) \cup Names(t)
  BY <1>1, <1>3, <1>4, <1>5 DEF Names
<1>7. s \o t # <<>> => Head(s \o t) \in Node /\ Name(Head(s \o t)) \in Names(s \o t)
  BY <1>1, NamesHead
<1> QED  BY <1>6, <1>7

(* What a splice and a taken old node do to the listed names.              *)
LEMMA SpliceNames ==
  ASSUME NEW r \in Seq(Node), NEW h, done \in Seq(Node), lnew \in Seq(Node), lnew # <<>>, Splice(r, h)
  PROVE  /\ Names(done') \cup Names(rest') = Names(done) \cup Names(r) \cup {Name(Head(lnew))}
         /\ Names(done) \subseteq Names(done') /\ done' # <<>>
<1> DEFINE S == Siblings(Head(lnew).pid, Reached(done, r, h))
           n == [Head(lnew) EXCEPT !.sibl = IF S # {} THEN 1 ELSE @]
<1>1. Head(lnew) \in Node
  OBVIOUS
<1>2. done' = Append(MarkAll(done, S), n) /\ rest' = MarkAll(r, S)
  BY DEF Splice
<1> HIDE DEF S
<1>3. n \in Node /\ Name(n) = Name(Head(lnew))
  BY <1>1 DEF Node, Flag, Name
<1> HIDE DEF n
<1>4. MarkAll(done, S) \in Seq(Node)
  BY MarkAllNames
<1>5. Names(done') = Names(done) \cup {Name(n)} /\ Names(rest') = Names(r) /\ done' # <<>>
  BY <1>2, <1>3, <1>4, NamesAppend, NamesMark
<1> QED  BY <1>3, <1>5

(* The inductive invariant behind HeadInv: in the merge, nhead is one of   *)
(* the two halves as long as new nodes follow; the appending never ends    *)
(* with an empty list.                                                     *)
HeadIInv ==
  /\ phase = "merge" /\ lnew # <<>> /\ head # 0 => head \in Names(done) \cup Names(rest)
  /\ phase = "append" => (head # 0 => head \in Names(done)) /\ (done # <<>> \/ lnew # <<>>)
  /\ phase \notin {"merge", "append"} => head = IF done = <<>> THEN 0 ELSE Name(Head(done))

LEMMA HeadIInvStep ==
  ASSUME MergeInv, HeadIInv, [Next]_vars
  PROVE  HeadIInv'
<1>1. /\ done \in Seq(Node) /\ rest \in Seq(Node) /\ lnew \in Seq(Node)
      /\ phase # "merge" => rest = <<>>
  BY DEF MergeInv, Halves
<1>2. rest # <<>> => /\ Head(rest) \in Node /\ Tail(rest) \in Seq(Node)
                     /\ Names(rest) = {Name(Head(rest))} \cup Names(Tail(rest))
  BY <1>1, NamesHead
<1>3. lnew # <<>> => Head(lnew) \in Node /\ Tail(lnew) \in Seq(Node)
  BY <1>1
<1>4. done # <<>> => Head(done) \in Node /\ Name(Head(done)) \in Names(done)
  BY <1>1, NamesHead
<1>5. CASE ProcStart \/ ProcExit \/ DirVanish \/ Gather \/ Regroup \/ UNCHANGED vars
  <2>1. done' = done /\ rest' = rest /\ head' = head
    BY <1>5 DEF ProcStart, ProcExit, DirVanish, Gather, Regroup, vars, list
  <2>2. \/ phase' = phase /\ lnew' = lnew
        \/ phase \notin {"merge", "append"} /\ phase' \notin {"merge", "append"}
    BY <1>5 DEF ProcStart, ProcExit, DirVanish, Gather, Regroup, vars
  <2> QED  BY <2>1, <2>2 DEF HeadIInv
<1>6. CASE Measure
  <2>1. /\ head' = head /\ phase' = phase /\ phase \notin {"merge", "append"}
        /\ done' = [i \in DOMAIN done |-> [done[i] EXCEPT !.data = IF done[i].pid > 0 THEN 1 ELSE @]]
    BY <1>6 DEF Measure, list
  <2>2. DOMAIN done = 1..Len(done) /\ Len(done) \in Nat /\ \A i \in 1..Len(done) : done[i] \in Node
    BY <1>1
  <2>3. \A i \in 1..Len(done) : done'[i] \in Node /\ Name(done'[i]) = Name(done[i])
    BY <2>1, <2>2 DEF Node, Flag, Name
  <2>4. done' = [i \in 1..Len(done) |-> done'[i]]
    BY <2>1, <2>2
  <2>5. done' \in Seq(Node) /\ Len(done') = Len(done)
    BY <2>2, <2>3, <2>4
  <2>6. CASE done = <<>>
    BY <1>1, <2>1, <2>5, <2>6 DEF HeadIInv
  <2>7. CASE done # <<>>
    <3>1. Len(done) > 0 /\ Head(done) = done[1] /\ done' # <<>> /\ Head(done') = done'[1]
      BY <1>1, <2>5, <2>7
    <3>2. Name(Head(done')) = Name(Head(done))
      BY <2>2, <2>3, <3>1
    <3> QED  BY <2>1, <2>7, <3>1, <3>2 DEF HeadIInv
  <2> QED  BY <2>6, <2>7
<1>7. CASE Lock
  <2>1. phase = "gathered" /\ phase' = "merge" /\ rest' = done /\ done' = <<>> /\ head' = head
    BY <1>7 DEF Lock
  <2>2. head # 0 => head \in Names(done)
    BY <1>4, <2>1 DEF HeadIInv
  <2> QED  BY <2>1, <2>2 DEF HeadIInv
<1>8. CASE Insert
  <2>1. /\ phase = "merge" /\ phase' = "merge" /\ lnew # <<>> /\ lnew' = Tail(lnew) /\ head' = head
        /\ Splice(rest, head)
    BY <1>8 DEF Insert, Merging, scanframe
  <2>2. Names(done) \cup Names(rest) \subseteq Names(done') \cup Names(rest')
    BY <1>1, <2>1, SpliceNames
  <2> QED  BY <2>1, <2>2 DEF HeadIInv
<1>9. CASE Revive
  <2> DEFINE r == Tail(rest)
             h == IF done \o r = <<>> THEN 0 ELSE Name(Head(done \o r))
  <2>1. /\ phase = "merge" /\ phase' = "merge" /\ lnew # <<>> /\ rest # <<>> /\ lnew' = Tail(lnew) /\ head' = h
        /\ Splice(r, h)
    BY <1>9 DEF Revive, Merging, scanframe
  <2>2. r \in Seq(Node)
    BY <1>2, <2>1
  <2>3. h # 0 => h \in Names(done) \cup Names(r)
    BY <1>1, <2>2, NamesConcat
  <2>4. Names(done) \cup Names(r) \subseteq Names(done') \cup Names(rest')
    BY <1>1, <2>1, <2>2, SpliceNames
  <2> QED  BY <2>1, <2>3, <2>4 DEF HeadIInv
<1>10. CASE SkipRetired \/ Retire \/ Keep
  <2> DEFINE Moved(n) == n \in Node /\ Name(n) = Name(Head(rest)) /\ done' = Append(done, n)
  <2>1. /\ phase = "merge" /\ phase' = "merge" /\ lnew # <<>> /\ rest # <<>> /\ rest' = Tail(rest) /\ head' = head
        /\ done' = Append(done, Head(rest)) \/ done' = Append(done, [Head(rest) EXCEPT !.pid = -@])
    BY <1>10 DEF SkipRetired, Retire, Keep, Merging, scanframe
  <2>2. Moved(Head(rest)) \/ Moved([Head(rest) EXCEPT !.pid = -@])
    BY <1>2, <2>1, NameRetired
  <2>3. Names(done') = Names(done) \cup {Name(Head(rest))}
    BY <1>1, <2>2, NamesAppend
  <2> QED  BY <1>2, <2>1, <2>3 DEF HeadIInv
<1>11. CASE Drop
  <2>1. /\ phase = "merge" /\ phase' = "merge" /\ rest # <<>> /\ rest' = Tail(rest) /\ done' = done
        /\ head' = IF done \o rest' = <<>> THEN 0 ELSE Name(Head(done \o rest'))
    BY <1>11 DEF Drop, Merging, scanframe
  <2>2. head' # 0 => head' \in Names(done) \cup Names(rest')
    BY <1>1, <1>2, <2>1, NamesConcat
  <2> QED  BY <2>1, <2>2 DEF HeadIInv
<1>12. CASE DropRest
  <2>1. phase = "merge" /\ phase' = "merge" /\ lnew' = <<>>
    BY <1>12 DEF DropRest, scanframe
  <2> QED  BY <2>1 DEF HeadIInv
<1>13. CASE EndMerge
  <2>1. /\ head' = IF done = <<>> THEN 0 ELSE Name(Head(done))
        /\ done' = done /\ phase' = "unlocked"
    BY <1>13 DEF EndMerge
  <2> QED  BY <2>1 DEF HeadIInv
<1>14. CASE StartAppend
  <2>1. /\ head' = IF done = <<>> THEN 0 ELSE Name(Head(done))
        /\ done' = done /\ phase' = "append" /\ lnew' = lnew /\ lnew # <<>>
    BY <1>14 DEF StartAppend
  <2> QED  BY <1>4, <2>1 DEF HeadIInv
<1>15. CASE AppendNew
  <2>1. /\ phase = "append" /\ phase' = "append" /\ lnew # <<>> /\ head' = head /\ Splice(<<>>, head)
    BY <1>15 DEF AppendNew, scanframe
  <2>2. <<>> \in Seq(Node)
    OBVIOUS
  <2>3. Names(done) \subseteq Names(done') /\ done' # <<>>
    BY <1>1, <2>1, <2>2, SpliceNames
  <2> QED  BY <2>1, <2>3 DEF HeadIInv
<1>16. CASE EndAppend
  <2>1. phase = "append" /\ lnew = <<>> /\ head' = Name(Head(done)) /\ done' = done /\ phase' = "unlocked"
    BY <1>16 DEF EndAppend
  <2> QED  BY <2>1 DEF HeadIInv
<1>17. CASE \E c \in Containers : DockerRemove(c)
  <2>1. PICK c \in Containers : DockerRemove(c)
    BY <1>17
  <2>2. \A i \in DOMAIN done : ContidAddress(done[i]) # Fresh
    BY <1>1, NodeName DEF ContidAddress, Fresh
  <2>3. done' = done /\ head' = head /\ phase' = "rescan" /\ phase = "idle"
    BY <2>1, <2>2 DEF DockerRemove
  <2> QED  BY <2>3 DEF HeadIInv
<1> QED
  BY <1>5, <1>6, <1>7, <1>8, <1>9, <1>10, <1>11, <1>12, <1>13, <1>14, <1>15, <1>16, <1>17 DEF Next, Scan

(* nhead never points to a node that was dropped from the list while       *)
(* setPidResources() may follow it, and it is the first node whenever the  *)
(* update thread does not hold dataMutex.                                  *)
THEOREM HeadAlways == Spec => []HeadInv
<1>1. Init => MergeInv /\ HeadIInv
  BY MergeInvInit DEF Init, HeadIInv
<1>2. MergeInv /\ HeadIInv /\ [Next]_vars => MergeInv' /\ HeadIInv'
  BY MergeInvStep, HeadIInvStep
<1>3. MergeInv /\ HeadIInv => HeadInv
  <2> SUFFICES ASSUME MergeInv, HeadIInv PROVE HeadInv
    OBVIOUS
  <2>1. done \in Seq(Node) /\ rest \in Seq(Node) /\ (phase # "merge" => rest = <<>>)
    BY DEF MergeInv, Halves
  <2>2. Names(List) = Names(done) \cup Names(rest)
    BY <2>1, NamesConcat DEF List
  <2>3. done # <<>> => Name(Head(done)) \in Names(done)
    BY <2>1, NamesHead
  <2> QED  BY <2>2, <2>3 DEF HeadIInv, HeadInv
<1> QED  BY <1>1, <1>2, <1>3, PTL DEF Spec
-----------------------------------------------------------------------------
(* A list matters to the registry and to the CGroup by three sets of names *)
(* only: listed, active and measured.                                      *)
Measured(s) == {Name(s[i]) : i \in {j \in DOMAIN s : s[j].data = 1}}
Retired(s)  == Names(s) \ Active(s)

(* The three sets of a list, by its nodes.                                 *)
LEMMA ListViews ==
  ASSUME NEW s \in Seq(Node)
  PROVE  /\ DOMAIN s = 1..Len(s) /\ Len(s) \in Nat
         /\ \A x : x \in Names(s) <=> \E i \in 1..Len(s) : Name(s[i]) = x
         /\ \A x : x \in Active(s) <=> \E i \in 1..Len(s) : s[i].pid > 0 /\ Name(s[i]) = x
         /\ \A x : x \in Measured(s) <=> \E i \in 1..Len(s) : s[i].data = 1 /\ Name(s[i]) = x
<1>1. DOMAIN s = 1..Len(s) /\ Len(s) \in Nat /\ \A i \in 1..Len(s) : s[i] \in Node
  OBVIOUS
<1>2. \A i \in 1..Len(s) : s[i].pid > 0 => Name(s[i]) = s[i].pid
  BY <1>1, NodeName DEF Name, Abs
<1>3. \A x : x \in Names(s) <=> \E i \in 1..Len(s) : Name(s[i]) = x
  BY <1>1 DEF Names
<1>4. \A x : x \in Active(s) <=> \E i \in 1..Len(s) : s[i].pid > 0 /\ s[i].pid = x
  BY <1>1 DEF Active
<1>5. \A x : x \in Measured(s) <=> \E i \in 1..Len(s) : s[i].data = 1 /\ Name(s[i]) = x
  BY <1>1 DEF Measured
<1> QED  BY <1>1, <1>2, <1>3, <1>4, <1>5

LEMMA AppendViews ==
  ASSUME NEW s \in Seq(Node), NEW n \in Node
  PROVE  /\ Names(Append(s, n)) = Names(s) \cup {Name(n)}
         /\ Active(Append(s, n)) = Active(s) \cup (IF n.pid > 0 THEN {Name(n)} ELSE {})
         /\ Measured(Append(s, n)) = Measured(s) \cup (IF n.data = 1 THEN {Name(n)} ELSE {})
<1> DEFINE t == Append(s, n)
<1>1. /\ t \in Seq(Node) /\ Len(s) \in Nat /\ Len(t) = Len(s) + 1 /\ t[Len(s) + 1] = n
      /\ \A i \in 1..Len(s) : t[i] = s[i]
  OBVIOUS
<1> HIDE DEF t
<1>2. 1..Len(t) = 1..Len(s) \cup {Len(s) + 1}
  BY <1>1
<1>3. \A x : x \in Names(t) <=> x \in Names(s) \/ x = Name(n)
  BY <1>1, <1>2, ListViews
<1>4. \A x : x \in Active(t) <=> x \in Active(s) \/ (n.pid > 0 /\ x = Name(n))
  BY <1>1, <1>2, ListViews
<1>5. \A x : x \in Measured(t) <=> x \in Measured(s) \/ (n.data = 1 /\ x = Name(n))
  BY <1>1, <1>2, ListViews
<1>6. /\ Names(t) = Names(s) \cup {Name(n)}
      /\ Active(t) = Active(s) \cup (IF n.pid > 0 THEN {Name(n)} ELSE {})
      /\ Measured(t) = Measured(s) \cup (IF n.data = 1 THEN {Name(n)} ELSE {})
  BY <1>3, <1>4, <1>5
<1> QED  BY <1>6 DEF t

LEMMA AppendRetired ==
  ASSUME NEW s \in Seq(Node), NEW n \in Node, n.pid < 0
  PROVE  /\ Names(Append(s, n)) = Names(s) \cup {Name(n)}
         /\ Active(Append(s, n)) = Active(s)
         /\ Measured(Append(s, n)) = Measured(s) \cup (IF n.data = 1 THEN {Name(n)} ELSE {})
<1>1. ~(n.pid > 0)
  BY NodeName
<1> QED  BY <1>1, AppendViews

(* Flagging siblings changes none of the sets.                             *)
LEMMA MarkViews ==
  ASSUME NEW s \in Seq(Node), NEW S
  PROVE  /\ Names(MarkAll(s, S)) = Names(s)
         /\ Active(MarkAll(s, S)) = Active(s)
         /\ Measured(MarkAll(s, S)) = Measured(s)
<1> DEFINE t == MarkAll(s, S)
<1>1. DOMAIN s = 1..Len(s) /\ \A i \in 1..Len(s) : s[i] \in Node
  OBVIOUS
<1>2. \A i \in 1..Len(s) : t[i].pid = s[i].pid /\ t[i].data = s[i].data
  BY <1>1 DEF MarkAll, Node
<1>3. t \in Seq(Node) /\ Len(t) = Len(s) /\ \A i \in 1..Len(s) : Name(t[i]) = Name(s[i])
  BY MarkAllNames
<1> HIDE DEF t
<1>4. \A x : /\ x \in Names(t) <=> x \in Names(s)
             /\ x \in Active(t) <=> x \in Active(s)
             /\ x \in Measured(t) <=> x \in Measured(s)
  <2>1. \A i \in 1..Len(s) : Name(t[i]) = Name(s[i]) /\ t[i].pid = s[i].pid /\ t[i].data = s[i].data
    BY <1>2, <1>3
  <2>2. /\ \A x : x \in Names(t) <=> \E i \in 1..Len(s) : Name(t[i]) = x
        /\ \A x : x \in Active(t) <=> \E i \in 1..Len(s) : t[i].pid > 0 /\ Name(t[i]) = x
        /\ \A x : x \in Measured(t) <=> \E i \in 1..Len(s) : t[i].data = 1 /\ Name(t[i]) = x
    BY <1>3, ListViews
  <2>3. /\ \A x : x \in Names(s) <=> \E i \in 1..Len(s) : Name(s[i]) = x
        /\ \A x : x \in Active(s) <=> \E i \in 1..Len(s) : s[i].pid > 0 /\ Name(s[i]) = x
        /\ \A x : x \in Measured(s) <=> \E i \in 1..Len(s) : s[i].data = 1 /\ Name(s[i]) = x
    BY ListViews
  <2> TAKE x
  <2>4. x \in Names(t) <=> x \in Names(s)
    BY <2>1, <2>2, <2>3
  <2>5. x \in Active(t) <=> x \in Active(s)
    BY <2>1, <2>2, <2>3
  <2>6. x \in Measured(t) <=> x \in Measured(s)
    BY <2>1, <2>2, <2>3
  <2> QED  BY <2>4, <2>5, <2>6
<1>5. Names(t) = Names(s) /\ Active(t) = Active(s) /\ Measured(t) = Measured(s)
  BY <1>4
<1> QED  BY <1>5 DEF t

(* The first node of a sorted list is the only one of its name.            *)
LEMMA TailViews ==
  ASSUME NEW s \in Seq(Node), s # <<>>, Descending(s)
  PROVE  LET p == Name(Head(s))
         IN  /\ Head(s) \in Node /\ Tail(s) \in Seq(Node) /\ p \in Names(s)
             /\ p \in Active(s) <=> Head(s).pid > 0
             /\ p \in Measured(s) <=> Head(s).data = 1
             /\ Names(Tail(s)) = Names(s) \ {p}
             /\ Active(Tail(s)) = Active(s) \ {p}
             /\ Measured(Tail(s)) = Measured(s) \ {p}
<1> DEFINE p == Name(Head(s))
           t == Tail(s)
<1>1. /\ Head(s) \in Node /\ t \in Seq(Node) /\ Len(s) > 0 /\ Head(s) = s[1] /\ Len(t) = Len(s) - 1
      /\ \A i \in 1..Len(t) : t[i] = s[i + 1] /\ Name(Head(s)) > Name(t[i])
  BY HeadTail
<1>2. Len(s) \in Nat /\ p \in Nat /\ \A i \in 1..Len(t) : t[i] \in Node /\ Name(t[i]) \in Nat
  BY <1>1, NodeName
<1> HIDE DEF t
<1>3. \A i \in 1..Len(t) : Name(t[i]) # p
  BY <1>1, <1>2
<1>4. \A i \in 1..Len(s) : i # 1 => \E j \in 1..Len(t) : t[j] = s[i]
  <2>1. ASSUME NEW i \in 1..Len(s), i # 1 PROVE i - 1 \in 1..Len(t) /\ t[i - 1] = s[i]
    BY <1>1, <1>2, <2>1
  <2> QED  BY <2>1
<1>5. 1 \in 1..Len(s) /\ \A i \in 1..Len(t) : \E j \in 1..Len(s) : t[i] = s[j]
  <2>1. ASSUME NEW i \in 1..Len(t) PROVE i + 1 \in 1..Len(s) /\ t[i] = s[i + 1]
    BY <1>1, <1>2, <2>1
  <2>2. 1 \in 1..Len(s)
    BY <1>1, <1>2
  <2> QED  BY <2>1, <2>2
<1>6. /\ p = Name(s[1])
      /\ Head(s) = s[1]
  BY <1>1
<1>7. t \in Seq(Node)
  BY <1>1
<1> HIDE DEF p
<1>8. \A x : x \in Names(s) <=> x \in Names(t) \/ x = p
  <2>1. /\ \A x : x \in Names(s) <=> \E i \in 1..Len(s) : Name(s[i]) = x
        /\ \A x : x \in Names(t) <=> \E i \in 1..Len(t) : Name(t[i]) = x
    BY <1>7, ListViews
  <2> QED  BY <1>4, <1>5, <1>6, <2>1
<1>9. \A x : x \in Active(s) <=> x \in Active(t) \/ (x = p /\ Head(s).pid > 0)
  <2>1. /\ \A x : x \in Active(s) <=> \E i \in 1..Len(s) : s[i].pid > 0 /\ Name(s[i]) = x
        /\ \A x : x \in Active(t) <=> \E i \in 1..Len(t) : t[i].pid > 0 /\ Name(t[i]) = x
    BY <1>7, ListViews
  <2> QED  BY <1>4, <1>5, <1>6, <2>1
<1>13. \A x : x \in Measured(s) <=> x \in Measured(t) \/ (x = p /\ Head(s).data = 1)
  <2>1. /\ \A x : x \in Measured(s) <=> \E i \in 1..Len(s) : s[i].data = 1 /\ Name(s[i]) = x
        /\ \A x : x \in Measured(t) <=> \E i \in 1..Len(t) : t[i].data = 1 /\ Name(t[i]) = x
    BY <1>7, ListViews
  <2>2. ASSUME NEW x, x \in Measured(s) PROVE x \in Measured(t) \/ (x = p /\ Head(s).data = 1)
    BY <1>4, <1>6, <2>1, <2>2
  <2>3. ASSUME NEW x, x \in Measured(t) \/ (x = p /\ Head(s).data = 1) PROVE x \in Measured(s)
    BY <1>5, <1>6, <2>1, <2>3
  <2> QED  BY <2>2, <2>3
<1>10. p \notin Names(t) /\ p \notin Active(t) /\ p \notin Measured(t)
  BY <1>3, <1>7, ListViews
<1>11. /\ p \in Names(s)
       /\ p \in Active(s) <=> Head(s).pid > 0
       /\ p \in Measured(s) <=> Head(s).data = 1
  BY <1>8, <1>9, <1>13, <1>10
<1>12. /\ Names(t) = Names(s) \ {p}
       /\ Active(t) = Active(s) \ {p}
       /\ Measured(t) = Measured(s) \ {p}
  BY <1>8, <1>9, <1>13, <1>10
<1> QED  BY <1>1, <1>11, <1>12 DEF t, p

LEMMA EmptyViews == Names(<<>>) = {} /\ Active(<<>>) = {} /\ Measured(<<>>) = {}
<1>1. <<>> \in Seq(Node) /\ Len(<<>>) = 0 /\ 1..0 = {}
  OBVIOUS
<1> QED  BY <1>1, ListViews

LEMMA SubViews == ASSUME NEW s \in Seq(Node) PROVE Active(s) \subseteq Names(s) /\ Measured(s) \subseteq Names(s)
BY ListViews

(* What Splice() does to them: the first new node is listed and active.    *)
LEMMA SpliceViews ==
  ASSUME NEW r \in Seq(Node), NEW h, done \in Seq(Node), lnew \in Seq(Node), lnew # <<>>,
         Head(lnew).pid > 0, Head(lnew).data # 1, Splice(r, h)
  PROVE  LET p == Name(Head(lnew))
         IN  /\ Names(done') = Names(done) \cup {p}
             /\ Active(done') = Active(done) \cup {p}
             /\ Measured(done') = Measured(done)
             /\ Names(rest') = Names(r) /\ Active(rest') = Active(r) /\ Measured(rest') = Measured(r)
<1> DEFINE S == Siblings(Head(lnew).pid, Reached(done, r, h))
           n == [Head(lnew) EXCEPT !.sibl = IF S # {} THEN 1 ELSE @]
<1>1. Head(lnew) \in Node
  OBVIOUS
<1>2. done' = Append(MarkAll(done, S), n) /\ rest' = MarkAll(r, S)
  BY DEF Splice
<1> HIDE DEF S
<1>3. n \in Node /\ Name(n) = Name(Head(lnew)) /\ n.pid > 0 /\ n.data # 1
  BY <1>1 DEF Node, Flag, Name
<1> HIDE DEF n
<1>4. MarkAll(done, S) \in Seq(Node)
  BY MarkAllNames
<1>5. /\ Names(done') = Names(done) \cup {Name(n)}
      /\ Active(done') = Active(done) \cup {Name(n)}
      /\ Measured(done') = Measured(done)
  <2> DEFINE m == MarkAll(done, S)
  <2>1. m \in Seq(Node) /\ Names(m) = Names(done) /\ Active(m) = Active(done) /\ Measured(m) = Measured(done)
    BY <1>4, MarkViews
  <2> HIDE DEF m
  <2>2. /\ Names(Append(m, n)) = Names(m) \cup {Name(n)}
        /\ Active(Append(m, n)) = Active(m) \cup {Name(n)}
        /\ Measured(Append(m, n)) = Measured(m)
    BY <1>3, <2>1, AppendViews
  <2>3. done' = Append(m, n)
    BY <1>2 DEF m
  <2> QED  BY <2>1, <2>2, <2>3
<1>6. Names(rest') = Names(r) /\ Active(rest') = Active(r) /\ Measured(rest') = Measured(r)
  BY <1>2, MarkViews
<1> QED  BY <1>3, <1>5, <1>6

-----------------------------------------------------------------------------
(* The inductive invariant of the refinement.  In a merge, the names of    *)
(* the old list that are not in `rest` any more have been handled: each is *)
(* active again, or retired (with trackpids), or forgotten; none of them   *)
(* is still to come as new; the run-time data of a name is still there     *)
(* exactly if it stayed active or was retired.                             *)
Handled == Names(before) \ Names(rest)

InMerge ==
  /\ Names(rest) \subseteq Names(before)
  /\ Active(rest) = Active(before) \cap Names(rest)
  /\ Measured(rest) = Measured(before) \cap Names(rest)
  /\ Active(done) \cup Names(lnew) = found
  /\ Handled \cap Names(lnew) = {}
  /\ Retired(done) = IF trackpids THEN Handled \ Active(done) ELSE {}
  /\ Measured(done) = Measured(before) \cap ((Active(before) \cap Active(done)) \cup Retired(done))
  /\ Measured(lnew) = {}
  /\ ~trackpids => Retired(before) = {}

RefInv ==
  /\ before \in Seq(Node) /\ found \subseteq Pids
  /\ phase \in {"merge", "append"} => InMerge
  /\ phase = "gathered" => Names(lnew) = found /\ Measured(lnew) = {}
  /\ Settled /\ ~trackpids => Retired(done) = {}

(* A node goes from the new list behind the merged half.                   *)
LEMMA MergeNew ==
  ASSUME InMerge, before \in Seq(Node), NEW p,
         p \in Names(lnew), p \notin Names(rest),
         Names(done') = Names(done) \cup {p}, Active(done') = Active(done) \cup {p},
         Measured(done') = Measured(done),
         Names(rest') = Names(rest), Active(rest') = Active(rest), Measured(rest') = Measured(rest),
         Names(lnew') = Names(lnew) \ {p}, Measured(lnew') = {},
         before' = before, found' = found, trackpids' = trackpids
  PROVE  InMerge'
<1>1. p \notin Names(before) /\ p \notin Active(before) /\ p \notin Handled /\ p \notin Retired(done)
  <2>1. p \notin Names(before)
    BY DEF InMerge, Handled
  <2>2. Active(before) \subseteq Names(before)
    BY SubViews
  <2>3. Retired(done) \subseteq Handled
    BY DEF InMerge
  <2> QED  BY <2>1, <2>2, <2>3 DEF Handled
<1>2. Handled' = Handled
  BY DEF Handled
<1>3. Retired(done') = Retired(done) /\ Retired(before') = Retired(before)
  BY <1>1 DEF Retired
<1>4. Active(done') \cup Names(lnew') = found
  BY DEF InMerge
<1>5. Handled \cap Names(lnew') = {}
  BY DEF InMerge
<1>6. Retired(done) = IF trackpids THEN Handled \ Active(done') ELSE {}
  BY <1>1 DEF InMerge
<1>7. Measured(done') = Measured(before) \cap ((Active(before) \cap Active(done')) \cup Retired(done))
  BY <1>1 DEF InMerge
<1> QED  BY <1>2, <1>3, <1>4, <1>5, <1>6, <1>7 DEF InMerge

(* A name of both lists goes behind the merged half: its node stays, or it *)
(* was deactivated and the new one takes its place.                        *)
LEMMA MergeBack ==
  ASSUME InMerge, before \in Seq(Node), NEW p,
         p \in Names(lnew), p \in Names(rest),
         Names(done') = Names(done) \cup {p}, Active(done') = Active(done) \cup {p},
         Measured(done') = Measured(done) \cup (IF p \in Active(rest) THEN Measured(rest) \cap {p} ELSE {}),
         Names(rest') = Names(rest) \ {p}, Active(rest') = Active(rest) \ {p},
         Measured(rest') = Measured(rest) \ {p},
         Names(lnew') = Names(lnew) \ {p}, Measured(lnew') = {},
         before' = before, found' = found, trackpids' = trackpids
  PROVE  InMerge'
<1>1. p \in Names(before) /\ p \notin Handled /\ p \notin Retired(done)
      /\ (p \in Active(rest) <=> p \in Active(before))
      /\ (p \in Measured(rest) <=> p \in Measured(before))
  BY DEF InMerge, Handled
<1>2. Handled' = Handled \cup {p}
  BY <1>1 DEF Handled, InMerge
<1>3. Retired(done') = Retired(done) /\ Retired(before') = Retired(before)
  BY <1>1 DEF Retired
<1>4. Active(done') \cup Names(lnew') = found
  BY DEF InMerge
<1>5. Handled' \cap Names(lnew') = {}
  BY <1>2 DEF InMerge
<1>6. Retired(done) = IF trackpids THEN Handled' \ Active(done') ELSE {}
  <2>1. Handled' \ Active(done') = (Handled \ Active(done)) \ {p}
    BY <1>2
  <2>2. CASE trackpids
    BY <1>1, <2>1, <2>2 DEF InMerge
  <2>3. CASE ~trackpids
    BY <2>3 DEF InMerge
  <2> QED  BY <2>2, <2>3
<1>7. Measured(done') = Measured(before) \cap ((Active(before) \cap Active(done')) \cup Retired(done))
  BY <1>1 DEF InMerge
<1>8. /\ Names(rest') \subseteq Names(before)
      /\ Active(rest') = Active(before) \cap Names(rest')
      /\ Measured(rest') = Measured(before) \cap Names(rest')
  BY DEF InMerge
<1> QED  BY <1>3, <1>4, <1>5, <1>6, <1>7, <1>8 DEF InMerge

(* A node of the old list goes behind the merged half, deactivated.        *)
LEMMA MergeRetire ==
  ASSUME InMerge, before \in Seq(Node), NEW p,
         trackpids, p \in Names(rest), p \notin Names(lnew), p \notin Names(done), done \in Seq(Node),
         Names(done') = Names(done) \cup {p}, Active(done') = Active(done),
         Measured(done') = Measured(done) \cup (Measured(rest) \cap {p}),
         Names(rest') = Names(rest) \ {p}, Active(rest') = Active(rest) \ {p},
         Measured(rest') = Measured(rest) \ {p},
         lnew' = lnew, before' = before, found' = found, trackpids' = trackpids
  PROVE  InMerge'
<1>1. p \in Names(before) /\ p \notin Handled /\ p \notin Active(done)
      /\ (p \in Measured(rest) <=> p \in Measured(before))
  BY SubViews DEF InMerge, Handled
<1>2. Handled' = Handled \cup {p}
  BY <1>1 DEF Handled, InMerge
<1>3. Retired(done') = Retired(done) \cup {p} /\ Retired(before') = Retired(before)
  BY <1>1 DEF Retired
<1>4. Handled' \cap Names(lnew') = {}
  BY <1>2 DEF InMerge
<1>5. Retired(done') = Handled' \ Active(done')
  BY <1>1, <1>2, <1>3 DEF InMerge
<1>6. Measured(done') = Measured(before) \cap ((Active(before) \cap Active(done')) \cup Retired(done'))
  BY <1>1, <1>3 DEF InMerge
<1>7. /\ Names(rest') \subseteq Names(before)
      /\ Active(rest') = Active(before) \cap Names(rest')
      /\ Measured(rest') = Measured(before) \cap Names(rest')
  BY DEF InMerge
<1> QED  BY <1>3, <1>4, <1>5, <1>6, <1>7 DEF InMerge

(* A node of the old list is dropped.                                      *)
LEMMA MergeForget ==
  ASSUME InMerge, NEW p, ~trackpids, p \in Names(rest), p \notin Names(lnew),
         done' = done,
         Names(rest') = Names(rest) \ {p}, Active(rest') = Active(rest) \ {p},
         Measured(rest') = Measured(rest) \ {p},
         lnew' = lnew, before' = before, found' = found, trackpids' = trackpids
  PROVE  InMerge'
<1>1. Handled' \subseteq Handled \cup {p}
  BY DEF Handled, InMerge
<1>2. Handled' \cap Names(lnew') = {}
  BY <1>1 DEF InMerge
<1>3. /\ Names(rest') \subseteq Names(before)
      /\ Active(rest') = Active(before) \cap Names(rest')
      /\ Measured(rest') = Measured(before) \cap Names(rest')
  BY DEF InMerge
<1>4. Retired(done') = Retired(done) /\ Retired(before') = Retired(before)
  OBVIOUS
<1> QED  BY <1>2, <1>3, <1>4 DEF InMerge

(* The new list holds what the scan found, each PID once, without data.    *)
LEMMA GatherViews ==
  ASSUME MergeInv, Gather
  PROVE  found' \subseteq Pids /\ Names(lnew') = found' /\ Measured(lnew') = {}
<1>1. PICK s : /\ found' \subseteq live
               /\ s \in SortDescending(found')
               /\ lnew' = [i \in DOMAIN s |-> NewNode(s[i], found')]
  BY DEF Gather
<1>2. found' \subseteq Pids /\ found' \subseteq Nat \ {0}
  BY <1>1, PidListAssumption DEF MergeInv
<1> DEFINE c == Cardinality(found')
<1>3. IsFiniteSet(found') /\ c \in Nat
  BY <1>2, PidListAssumption, FS_Subset, FS_CardinalityType
<1>4. s \in [1..c -> found'] /\ \A i, j \in 1..c : i < j => s[i] > s[j]
  BY <1>1 DEF SortDescending
<1>5. DOMAIN s = 1..c /\ \A i \in 1..c : s[i] \in Nat /\ s[i] \in Pids
  BY <1>2, <1>4
<1> DEFINE R == {s[i] : i \in 1..c}
<1>6. R = found'
  <2>1. R \subseteq found'
    BY <1>4
  <2>2. \A i, j \in 1..c : s[i] = s[j] => i = j
    BY <1>3, <1>4, <1>5
  <2>3. s \in Bijection(1..c, R)
    BY <1>4, <2>2 DEF Bijection, Injection, Surjection, IsInjective
  <2>4. ExistsBijection(1..c, R)
    BY <2>3 DEF ExistsBijection
  <2>5. IsFiniteSet(1..c) /\ Cardinality(1..c) = c
    BY <1>3, FS_Interval
  <2>6. Cardinality(R) = c
    BY <2>4, <2>5, FS_Bijection
  <2> HIDE DEF R
  <2> QED  BY <1>3, <2>1, <2>6, FS_Subset
<1>7. \A p \in Pids : Name(NewNode(p, found')) = p /\ NewNode(p, found').data = 0
  BY PidListAssumption DEF NewNode, Name, Abs
<1>8. /\ DOMAIN lnew' = 1..c
      /\ \A i \in 1..c : Name(lnew'[i]) = s[i] /\ lnew'[i].data = 0
  BY <1>1, <1>5, <1>7
<1>9. Names(lnew') = R
  BY <1>8 DEF Names
<1>10. Measured(lnew') = {}
  BY <1>8 DEF Measured
<1> QED  BY <1>2, <1>6, <1>9, <1>10

(* updateStats() adds the active nodes to the measured ones.               *)
LEMMA MeasureViews ==
  ASSUME done \in Seq(Node), Measure
  PROVE  /\ Names(done') = Names(done) /\ Active(done') = Active(done)
         /\ Measured(done') = Measured(done) \cup Active(done)
<1> DEFINE t == done'
<1>1. DOMAIN done = 1..Len(done) /\ Len(done) \in Nat /\ \A i \in 1..Len(done) : done[i] \in Node
  OBVIOUS
<1>2. t = [i \in 1..Len(done) |-> [done[i] EXCEPT !.data = IF done[i].pid > 0 THEN 1 ELSE @]]
  BY <1>1 DEF Measure
<1>3. \A i \in 1..Len(done) : /\ t[i] \in Node /\ Name(t[i]) = Name(done[i]) /\ t[i].pid = done[i].pid
                              /\ t[i].data = IF done[i].pid > 0 THEN 1 ELSE done[i].data
  BY <1>1, <1>2 DEF Node, Flag, Name
<1>4. t \in Seq(Node) /\ Len(t) = Len(done)
  <2>1. t = [i \in 1..Len(done) |-> t[i]]
    BY <1>2
  <2> HIDE DEF t
  <2> QED  BY <1>1, <1>3, <2>1
<1> HIDE DEF t
<1>5. \A x : /\ x \in Names(t) <=> x \in Names(done)
             /\ x \in Active(t) <=> x \in Active(done)
  BY <1>3, <1>4, ListViews
<1>6. \A x : x \in Measured(t) <=> x \in Measured(done) \/ x \in Active(done)
  BY <1>3, <1>4, ListViews
<1>7. Names(t) = Names(done) /\ Active(t) = Active(done) /\ Measured(t) = Measured(done) \cup Active(done)
  BY <1>5, <1>6
<1> QED  BY <1>7 DEF t

-----------------------------------------------------------------------------
(* One step of the list under the mapping.                                 *)
Act == Active(Seen)
Ret == Retired(Seen)
Mea == Measured(Seen)

Stutters   == Act' = Act /\ Ret' = Ret /\ Mea' = Mea /\ trackpids' = trackpids
Refreshes  ==
  /\ found \subseteq Pids /\ trackpids' = trackpids
  /\ Act' = found
  /\ Ret' = IF trackpids THEN (Ret \cup Act) \ found ELSE {}
  /\ Mea' = Mea \cap ((Act \cap found) \cup Ret')
MeasuresIt == Mea' = Mea \cup Act /\ Act' = Act /\ Ret' = Ret /\ trackpids' = trackpids

(* What scanNew() found, and the machine, are as before.                   *)
Still == UNCHANGED <<live, dir, found>>

Mapped == RefInv' /\ (Stutters \/ (Refreshes /\ Still) \/ (MeasuresIt /\ Still))

(* Within a merge nobody sees a change; outside, only a change of `done`.  *)
LEMMA MergeMapped ==
  ASSUME RefInv, phase \in {"merge", "append"}, phase' \in {"merge", "append"}, InMerge',
         before' = before, found' = found, trackpids' = trackpids
  PROVE  Mapped
<1>1. Seen = before /\ Seen' = before /\ ~Settled'
  BY DEF Seen, Settled
<1>2. Stutters
  BY <1>1 DEF Stutters, Act, Ret, Mea, Retired, Measured
<1>3. RefInv'
  BY <1>1 DEF RefInv
<1> QED  BY <1>2, <1>3 DEF Mapped

LEMMA SettledMapped ==
  ASSUME RefInv, Settled, Settled', phase' = "gathered" => phase = "gathered" /\ lnew' = lnew,
         done' = done, before' = before, found' = found, trackpids' = trackpids
  PROVE  Mapped
<1>1. Seen = done /\ Seen' = done
  BY DEF Seen, Settled
<1>2. Stutters
  BY <1>1 DEF Stutters, Act, Ret, Mea, Retired, Measured
<1>3. RefInv'
  <2>1. Retired(done') = Retired(done)
    OBVIOUS
  <2>2. phase' \notin {"merge", "append"}
    BY DEF Settled
  <2>3. phase' = "gathered" => Names(lnew') = found' /\ Measured(lnew') = {}
    BY DEF RefInv
  <2> QED  BY <2>1, <2>2, <2>3 DEF RefInv
<1> QED  BY <1>2, <1>3 DEF Mapped

(* What the merge has to know of names: the merged half and the others     *)
(* share none, and the first one is the largest.                           *)
LEMMA AboveViews ==
  ASSUME NEW s \in Seq(Node), NEW t \in Seq(Node), Above(s, t)
  PROVE  Names(s) \cap Names(t) = {}
<1>1. \A i \in 1..Len(s), j \in 1..Len(t) : Name(s[i]) \in Nat /\ Name(t[j]) \in Nat /\ Name(s[i]) > Name(t[j])
  BY NodeName DEF Above
<1>2. \A x : ~(x \in Names(s) /\ x \in Names(t))
  BY <1>1, ListViews
<1> QED  BY <1>2

LEMMA HeadBounds ==
  ASSUME NEW s \in Seq(Node), s # <<>>, Descending(s)
  PROVE  \A x \in Names(s) : x \in Nat /\ x <= Name(Head(s))
<1>1. \A i \in 1..Len(s) : Name(s[i]) \in Nat /\ Name(s[i]) <= Name(Head(s))
  <2>1. DOMAIN s = 1..Len(s) /\ Len(s) \in Nat \ {0} /\ Head(s) = s[1] /\ \A i \in 1..Len(s) : s[i] \in Node
    OBVIOUS
  <2>2. \A i \in 1..Len(s) : Name(s[i]) \in Nat
    BY <2>1, NodeName
  <2>3. \A i \in 1..Len(s) : i = 1 \/ Name(s[1]) > Name(s[i])
    BY <2>1 DEF Descending
  <2> QED  BY <2>1, <2>2, <2>3
<1> QED  BY <1>1, ListViews

LEMMA RefInvStep ==
  ASSUME MergeInv, MergeInv', RefInv, [Next]_vars
  PROVE  Mapped
<1> DEFINE p == Name(Head(lnew))
           q == Name(Head(rest))
<1>1. /\ done \in Seq(Node) /\ rest \in Seq(Node) /\ lnew \in Seq(Node)
      /\ Descending(done) /\ Descending(rest) /\ Descending(lnew)
      /\ Above(done, rest)
      /\ phase # "merge" => rest = <<>>
      /\ \A i \in 1..Len(lnew) : lnew[i].pid > 0
  BY DEF MergeInv, Halves
<1>2. before \in Seq(Node) /\ found \subseteq Pids /\ (phase \in {"merge", "append"} => InMerge)
  BY DEF RefInv
<1> DEFINE NewHead ==
             /\ Head(lnew) \in Node /\ Head(lnew).pid > 0 /\ p = Head(lnew).pid
             /\ p \in Names(lnew) /\ p \in Nat
             /\ p \in Measured(lnew) <=> Head(lnew).data = 1
             /\ Names(Tail(lnew)) = Names(lnew) \ {p}
             /\ Measured(Tail(lnew)) = Measured(lnew) \ {p}
             /\ \A x \in Names(lnew) : x \in Nat /\ x <= p
           OldHead ==
             /\ Head(rest) \in Node /\ Tail(rest) \in Seq(Node) /\ q \in Names(rest) /\ q \in Nat
             /\ q \in Active(rest) <=> Head(rest).pid > 0
             /\ q \in Measured(rest) <=> Head(rest).data = 1
             /\ Names(Tail(rest)) = Names(rest) \ {q}
             /\ Active(Tail(rest)) = Active(rest) \ {q}
             /\ Measured(Tail(rest)) = Measured(rest) \ {q}
             /\ \A x \in Names(rest) : x \in Nat /\ x <= q
             /\ q \notin Names(done)
<1>3. ASSUME lnew # <<>> PROVE NewHead
  <2>1. Head(lnew) \in Node /\ Head(lnew).pid > 0
    BY <1>1, <1>3
  <2>2. p = Head(lnew).pid /\ p \in Nat
    BY <2>1, NodeName DEF Name, Abs
  <2> QED  BY <1>1, <1>3, <2>1, <2>2, TailViews, HeadBounds
<1>4. ASSUME rest # <<>> PROVE OldHead
  <2>1. Head(rest) \in Node /\ q \in Nat
    BY <1>1, <1>4, NodeName
  <2>2. q \in Names(rest) /\ Names(done) \cap Names(rest) = {}
    BY <1>1, <1>4, TailViews, AboveViews
  <2> QED  BY <1>1, <1>4, <2>1, <2>2, TailViews, HeadBounds
<1>5. ASSUME lnew # <<>>, InMerge
      PROVE  Measured(Tail(lnew)) = {} /\ Head(lnew).data # 1
  BY <1>3, <1>5 DEF InMerge
<1> HIDE DEF NewHead, OldHead
<1>6. CASE ProcStart \/ ProcExit \/ DirVanish \/ UNCHANGED vars
  <2>1. UNCHANGED <<trackpids, phase, done, rest, lnew, found, before>>
    BY <1>6 DEF ProcStart, ProcExit, DirVanish, vars, env, list
  <2>2. CASE Settled
    BY <2>1, <2>2, SettledMapped DEF Settled
  <2>3. CASE ~Settled
    <3>1. InMerge' <=> InMerge
      BY <2>1 DEF InMerge, Handled, Retired, Measured, Names, Active
    <3> QED  BY <1>2, <2>1, <2>3, <3>1, MergeMapped DEF Settled
  <2> QED  BY <2>2, <2>3
<1>7. CASE Measure
  <2>1. /\ phase' = phase /\ phase \in {"idle", "gathered", "unlocked"}
        /\ UNCHANGED <<trackpids, rest, lnew, found, before>> /\ Still
    BY <1>7 DEF Measure, env, Still
  <2>2. /\ Names(done') = Names(done) /\ Active(done') = Active(done)
        /\ Measured(done') = Measured(done) \cup Active(done)
    BY <1>1, <1>7, MeasureViews
  <2>3. Seen = done /\ Seen' = done'
    BY <2>1 DEF Seen, Settled
  <2>4. MeasuresIt
    BY <2>1, <2>2, <2>3 DEF MeasuresIt, Act, Ret, Mea, Retired
  <2>5. RefInv'
    BY <2>1, <2>2 DEF RefInv, Retired, Settled
  <2> QED  BY <2>1, <2>4, <2>5 DEF Mapped
<1>8. CASE Gather
  <2>1. phase \in {"idle", "rescan"} /\ phase' = "gathered" /\ UNCHANGED <<trackpids, done, rest, before>>
    BY <1>8 DEF Gather, env, list
  <2>2. found' \subseteq Pids /\ Names(lnew') = found' /\ Measured(lnew') = {}
    BY <1>8, GatherViews
  <2>3. Seen = done /\ Seen' = done /\ Settled
    BY <2>1 DEF Seen, Settled
  <2>4. Stutters
    BY <2>1, <2>3 DEF Stutters, Act, Ret, Mea, Retired, Measured
  <2>5. RefInv'
    BY <2>1, <2>2, <2>3 DEF RefInv, Retired
  <2> QED  BY <2>4, <2>5 DEF Mapped
<1>9. CASE Lock
  <2>1. /\ phase = "gathered" /\ phase' = "merge" /\ before' = done /\ rest' = done /\ done' = <<>>
        /\ UNCHANGED <<trackpids, lnew, found>>
    BY <1>9 DEF Lock, env
  <2>2. Seen = done /\ Seen' = done /\ Settled /\ ~Settled'
    BY <2>1 DEF Seen, Settled
  <2>3. Stutters
    BY <2>1, <2>2 DEF Stutters, Act, Ret, Mea, Retired, Measured
  <2>4. Active(done) \subseteq Names(done) /\ Measured(done) \subseteq Names(done)
    BY <1>1, SubViews
  <2>5. Names(lnew) = found /\ Measured(lnew) = {} /\ (~trackpids => Retired(done) = {})
    BY <2>1, <2>2 DEF RefInv
  <2>6. InMerge'
    BY <2>1, <2>4, <2>5, EmptyViews DEF InMerge, Handled, Retired
  <2> QED  BY <1>1, <1>2, <2>1, <2>2, <2>3, <2>6 DEF Mapped, RefInv
<1>10. CASE Insert
  <2>1. /\ phase = "merge" /\ rest # <<>> /\ lnew # <<>> /\ Head(lnew).pid > q
        /\ Splice(rest, head) /\ lnew' = Tail(lnew)
        /\ UNCHANGED <<trackpids, phase, found, before>>
    BY <1>10 DEF Insert, Merging, scanframe, env
  <2>2. NewHead /\ OldHead
    BY <1>3, <1>4, <2>1
  <2>3. p \notin Names(rest)
    BY <2>1, <2>2 DEF NewHead, OldHead
  <2>4. /\ Names(done') = Names(done) \cup {p} /\ Active(done') = Active(done) \cup {p}
        /\ Measured(done') = Measured(done)
        /\ Names(rest') = Names(rest) /\ Active(rest') = Active(rest) /\ Measured(rest') = Measured(rest)
    BY <1>1, <1>2, <1>5, <2>1, <2>2, SpliceViews DEF NewHead
  <2>5. p \in Names(lnew) /\ Names(lnew') = Names(lnew) \ {p} /\ Measured(lnew') = {}
    BY <1>2, <1>5, <2>1, <2>2 DEF NewHead
  <2> HIDE DEF p, q
  <2>6. InMerge'
    BY <1>2, <2>1, <2>3, <2>4, <2>5, MergeNew
  <2> QED  BY <2>1, <2>6, MergeMapped
<1>11. CASE Revive
  <2>1. /\ phase = "merge" /\ rest # <<>> /\ lnew # <<>> /\ Head(lnew).pid = -Head(rest).pid
        /\ (\E h : Splice(Tail(rest), h)) /\ lnew' = Tail(lnew)
        /\ UNCHANGED <<trackpids, phase, found, before>>
    BY <1>11 DEF Revive, Merging, scanframe, env
  <2>2. NewHead /\ OldHead
    BY <1>3, <1>4, <2>1
  <2>3. p = q /\ p \notin Active(rest)
    BY <2>1, <2>2, NodeName DEF NewHead, OldHead, Name, Abs
  <2>4. /\ Names(done') = Names(done) \cup {p} /\ Active(done') = Active(done) \cup {p}
        /\ Measured(done') = Measured(done)
        /\ Names(rest') = Names(Tail(rest)) /\ Active(rest') = Active(Tail(rest))
        /\ Measured(rest') = Measured(Tail(rest))
    BY <1>1, <1>2, <1>5, <2>1, <2>2, SpliceViews DEF NewHead, OldHead
  <2>5. p \in Names(lnew) /\ Names(lnew') = Names(lnew) \ {p} /\ Measured(lnew') = {}
    BY <1>2, <1>5, <2>1, <2>2 DEF NewHead
  <2>6. /\ p \in Names(rest) /\ Names(rest') = Names(rest) \ {p} /\ Active(rest') = Active(rest) \ {p}
        /\ Measured(rest') = Measured(rest) \ {p}
    BY <2>2, <2>3, <2>4 DEF OldHead
  <2> HIDE DEF p, q
  <2>7. InMerge'
    BY <1>2, <2>1, <2>3, <2>4, <2>5, <2>6, MergeBack
  <2> QED  BY <2>1, <2>7, MergeMapped
<1>12. ASSUME NEW n \in Node, n.pid < 0, Name(n) = q, n.data = Head(rest).data,
              phase = "merge", rest # <<>>, trackpids, q \notin Names(lnew),
              done' = Append(done, n), rest' = Tail(rest),
              UNCHANGED <<trackpids, phase, lnew, found, before>>
       PROVE  Mapped
  <2>1. OldHead
    BY <1>4, <1>12
  <2>2. /\ Names(done') = Names(done) \cup {q} /\ Active(done') = Active(done)
        /\ Measured(done') = Measured(done) \cup (Measured(rest) \cap {q})
    <3>1. /\ Names(Append(done, n)) = Names(done) \cup {Name(n)}
          /\ Active(Append(done, n)) = Active(done)
          /\ Measured(Append(done, n)) = Measured(done) \cup (IF n.data = 1 THEN {Name(n)} ELSE {})
      BY <1>1, <1>12, AppendRetired
    <3>2. q \in Measured(rest) <=> n.data = 1
      BY <1>12, <2>1 DEF OldHead
    <3> HIDE DEF q
    <3> QED  BY <1>12, <3>1, <3>2
  <2>3. /\ q \in Names(rest) /\ q \notin Names(done)
        /\ Names(rest') = Names(rest) \ {q} /\ Active(rest') = Active(rest) \ {q}
        /\ Measured(rest') = Measured(rest) \ {q}
    BY <1>12, <2>1 DEF OldHead
  <2> HIDE DEF q
  <2>4. InMerge'
    BY <1>1, <1>2, <1>12, <2>2, <2>3, MergeRetire
  <2> QED  BY <1>12, <2>4, MergeMapped
<1>13. CASE SkipRetired
  <2>1. /\ phase = "merge" /\ rest # <<>> /\ lnew # <<>> /\ Head(lnew).pid < q /\ Head(rest).pid < 0
        /\ done' = Append(done, Head(rest)) /\ rest' = Tail(rest)
        /\ UNCHANGED <<trackpids, phase, lnew, found, before>>
    BY <1>13 DEF SkipRetired, Merging, scanframe, env
  <2>2. NewHead /\ OldHead
    BY <1>3, <1>4, <2>1
  <2>3. q \notin Names(lnew)
    BY <2>1, <2>2 DEF NewHead, OldHead
  <2>4. trackpids
    <3>1. q \notin Active(rest)
      BY <2>1, <2>2, NodeName DEF OldHead
    <3>2. q \in Names(before) /\ q \notin Active(before)
      BY <1>2, <2>1, <2>2, <3>1 DEF InMerge, OldHead
    <3> QED  BY <1>2, <2>1, <3>2 DEF InMerge, Retired
  <2> QED  BY <1>12, <2>1, <2>2, <2>3, <2>4 DEF OldHead
<1>14. CASE Retire
  <2> DEFINE n == [Head(rest) EXCEPT !.pid = -@]
  <2>1. /\ phase = "merge" /\ rest # <<>> /\ lnew # <<>> /\ Head(lnew).pid < Head(rest).pid
        /\ done' = Append(done, n) /\ rest' = Tail(rest) /\ trackpids
        /\ UNCHANGED <<trackpids, phase, lnew, found, before>>
    BY <1>14 DEF Retire, Merging, scanframe, env
  <2>2. NewHead /\ OldHead
    BY <1>3, <1>4, <2>1
  <2>3. Head(rest).pid \in Int /\ Head(rest).pid > 0
    BY <2>1, <2>2, NodeName DEF NewHead, OldHead
  <2>4. q = Head(rest).pid
    BY <2>3 DEF Name, Abs
  <2>5. q \notin Names(lnew)
    BY <2>1, <2>2, <2>4 DEF NewHead, OldHead
  <2>6. n \in Node /\ Name(n) = q
    BY <2>2, NameRetired DEF OldHead
  <2>7. n.pid < 0 /\ n.data = Head(rest).data
    BY <2>2, <2>3 DEF OldHead, Node
  <2> HIDE DEF n
  <2> QED  BY <1>12, <2>1, <2>5, <2>6, <2>7
<1>15. CASE Drop
  <2>1. /\ phase = "merge" /\ rest # <<>> /\ lnew # <<>> /\ Head(lnew).pid < Head(rest).pid
        /\ ~trackpids /\ done' = done /\ rest' = Tail(rest)
        /\ UNCHANGED <<trackpids, phase, lnew, found, before>>
    BY <1>15 DEF Drop, Merging, scanframe, env
  <2>2. NewHead /\ OldHead
    BY <1>3, <1>4, <2>1
  <2>3. q = Head(rest).pid
    BY <2>1, <2>2, NodeName DEF NewHead, OldHead, Name, Abs
  <2>4. q \notin Names(lnew)
    BY <2>1, <2>2, <2>3 DEF NewHead, OldHead
  <2>5. /\ q \in Names(rest)
        /\ Names(rest') = Names(rest) \ {q} /\ Active(rest') = Active(rest) \ {q}
        /\ Measured(rest') = Measured(rest) \ {q}
    BY <2>1, <2>2 DEF OldHead
  <2> HIDE DEF q
  <2>6. InMerge'
    BY <1>2, <2>1, <2>4, <2>5, MergeForget
  <2> QED  BY <2>1, <2>6, MergeMapped
<1>16. CASE Keep
  <2>1. /\ phase = "merge" /\ rest # <<>> /\ lnew # <<>> /\ Head(lnew).pid = Head(rest).pid
        /\ done' = Append(done, Head(rest)) /\ rest' = Tail(rest) /\ lnew' = Tail(lnew)
        /\ UNCHANGED <<trackpids, phase, found, before>>
    BY <1>16 DEF Keep, Merging, scanframe, env
  <2>2. NewHead /\ OldHead
    BY <1>3, <1>4, <2>1
  <2>3. p = q /\ Head(rest).pid > 0 /\ p \in Active(rest)
    BY <2>1, <2>2 DEF NewHead, OldHead, Name
  <2>4. /\ Names(done') = Names(done) \cup {p} /\ Active(done') = Active(done) \cup {p}
        /\ Measured(done') = Measured(done) \cup (IF p \in Active(rest) THEN Measured(rest) \cap {p} ELSE {})
    <3>1. /\ Names(done') = Names(done) \cup {q} /\ Active(done') = Active(done) \cup {q}
          /\ Measured(done') = Measured(done) \cup (IF Head(rest).data = 1 THEN {q} ELSE {})
      BY <1>1, <2>1, <2>2, <2>3, AppendViews DEF OldHead
    <3>2. q \in Measured(rest) <=> Head(rest).data = 1
      BY <2>2 DEF OldHead
    <3> QED  BY <2>3, <3>1, <3>2
  <2>5. p \in Names(lnew) /\ Names(lnew') = Names(lnew) \ {p} /\ Measured(lnew') = {}
    BY <1>2, <1>5, <2>1, <2>2 DEF NewHead
  <2>6. /\ p \in Names(rest) /\ Names(rest') = Names(rest) \ {p} /\ Active(rest') = Active(rest) \ {p}
        /\ Measured(rest') = Measured(rest) \ {p}
    BY <2>1, <2>2, <2>3 DEF OldHead
  <2> HIDE DEF p, q
  <2>7. InMerge'
    BY <1>2, <2>1, <2>4, <2>5, <2>6, MergeBack
  <2> QED  BY <2>1, <2>7, MergeMapped
<1>17. CASE DropRest
  <2> DEFINE n == [Head(rest) EXCEPT !.pid = -Abs(@)]
  <2>1. /\ phase = "merge" /\ rest # <<>> /\ lnew = <<>> /\ rest' = Tail(rest)
        /\ done' = IF trackpids THEN Append(done, n) ELSE done
        /\ UNCHANGED <<trackpids, phase, lnew, found, before>>
    BY <1>17 DEF DropRest, scanframe, env
  <2>2. OldHead /\ Names(lnew) = {}
    BY <1>4, <2>1, EmptyViews
  <2>3. CASE trackpids
    <3>1. n \in Node /\ Name(n) = q
      BY <2>2, NameRetired DEF OldHead
    <3>2. n.pid < 0 /\ n.data = Head(rest).data
      <4>1. Abs(Head(rest).pid) \in Nat \ {0}
        BY <2>2, NodeName DEF OldHead, Name
      <4>2. n.pid = -Abs(Head(rest).pid) /\ n.data = Head(rest).data
        BY <2>2 DEF OldHead, Node
      <4> QED  BY <4>1, <4>2
    <3> HIDE DEF n
    <3> QED  BY <1>12, <2>1, <2>2, <2>3, <3>1, <3>2
  <2>4. CASE ~trackpids
    <3>1. /\ q \in Names(rest) /\ q \notin Names(lnew)
          /\ Names(rest') = Names(rest) \ {q} /\ Active(rest') = Active(rest) \ {q}
          /\ Measured(rest') = Measured(rest) \ {q}
      BY <2>1, <2>2 DEF OldHead
    <3> HIDE DEF q, n
    <3>2. InMerge'
      BY <1>2, <2>1, <2>4, <3>1, MergeForget
    <3> QED  BY <2>1, <3>2, MergeMapped
  <2> QED  BY <2>3, <2>4
<1>18. CASE StartAppend
  <2>1. /\ phase = "merge" /\ phase' = "append"
        /\ UNCHANGED <<trackpids, done, rest, lnew, found, before>>
    BY <1>18 DEF StartAppend, env
  <2>2. InMerge' <=> InMerge
    BY <2>1 DEF InMerge, Handled, Retired, Measured, Names, Active
  <2> QED  BY <1>2, <2>1, <2>2, MergeMapped
<1>19. CASE AppendNew
  <2>1. /\ phase = "append" /\ lnew # <<>> /\ Splice(<<>>, head) /\ lnew' = Tail(lnew)
        /\ UNCHANGED <<trackpids, phase, found, before>>
    BY <1>19 DEF AppendNew, scanframe, env
  <2>2. NewHead /\ rest = <<>> /\ <<>> \in Seq(Node)
    BY <1>1, <1>3, <2>1
  <2>3. p \notin Names(rest)
    BY <2>2, EmptyViews
  <2>4. /\ Names(done') = Names(done) \cup {p} /\ Active(done') = Active(done) \cup {p}
        /\ Measured(done') = Measured(done)
        /\ Names(rest') = Names(rest) /\ Active(rest') = Active(rest) /\ Measured(rest') = Measured(rest)
    BY <1>1, <1>2, <1>5, <2>1, <2>2, SpliceViews DEF NewHead
  <2>5. p \in Names(lnew) /\ Names(lnew') = Names(lnew) \ {p} /\ Measured(lnew') = {}
    BY <1>2, <1>5, <2>1, <2>2 DEF NewHead
  <2> HIDE DEF p, q
  <2>6. InMerge'
    BY <1>2, <2>1, <2>3, <2>4, <2>5, MergeNew
  <2> QED  BY <2>1, <2>6, MergeMapped
<1>20. CASE EndMerge \/ EndAppend
  <2>1. /\ phase \in {"merge", "append"} /\ phase' = "unlocked" /\ lnew = <<>> /\ rest = <<>>
        /\ UNCHANGED <<trackpids, done, rest, lnew, found, before>> /\ Still
    BY <1>1, <1>20 DEF EndMerge, EndAppend, env, Still
  <2>2. Seen = before /\ Seen' = done
    BY <2>1 DEF Seen, Settled
  <2>3. Names(lnew) = {} /\ Names(rest) = {}
    BY <2>1, EmptyViews
  <2>4. Active(before) \subseteq Names(before)
    BY <1>2, SubViews
  <2>5. Active(done) = found /\ Handled = Names(before)
    BY <1>2, <2>1, <2>3 DEF InMerge, Handled
  <2>6. Retired(done) = IF trackpids THEN (Retired(before) \cup Active(before)) \ found ELSE {}
    BY <1>2, <2>1, <2>4, <2>5 DEF InMerge, Retired
  <2>7. Refreshes
    BY <1>2, <2>1, <2>2, <2>5, <2>6 DEF Refreshes, Act, Ret, Mea, InMerge
  <2>8. RefInv'
    BY <1>2, <2>1, <2>6 DEF RefInv
  <2> QED  BY <2>1, <2>7, <2>8 DEF Mapped
<1>21. CASE Regroup
  <2>1. phase = "unlocked" /\ phase' = "idle" /\ UNCHANGED <<trackpids, done, rest, lnew, found, before>>
    BY <1>21 DEF Regroup, env, list
  <2> QED  BY <2>1, SettledMapped DEF Settled
<1>22. CASE \E c \in Containers : DockerRemove(c)
  <2>1. PICK c \in Containers : DockerRemove(c)
    BY <1>22
  <2>2. \A i \in DOMAIN done : ContidAddress(done[i]) # Fresh
    BY <1>1, NodeName DEF ContidAddress, Fresh
  <2>3. phase = "idle" /\ phase' = "rescan" /\ UNCHANGED <<trackpids, done, rest, lnew, found, before>>
    BY <2>1, <2>2 DEF DockerRemove, env
  <2> QED  BY <2>3, SettledMapped DEF Settled
<1> QED
  BY <1>6, <1>7, <1>8, <1>9, <1>10, <1>11, <1>13, <1>14, <1>15, <1>16, <1>17, <1>18, <1>19, <1>20, <1>21, <1>22
  DEF Next, Scan

(* The machine and the look of a scan.                                     *)
LEMMA MachineStep ==
  ASSUME MergeInv, [Next]_vars
  PROVE  \/ Still
         \/ /\ UNCHANGED <<dir, found>>
            /\ \/ \E p \in Pids \ live : live' = live \cup {p}
               \/ \E p \in live : live' = live \ {p}
         \/ dir /\ dir' = FALSE /\ UNCHANGED <<live, found>>
         \/ /\ UNCHANGED <<live, dir>>
            /\ found' = IF Detection = "cgroup" /\ ~dir THEN {} ELSE live
<1>1. CASE ProcStart
  BY <1>1 DEF ProcStart
<1>2. CASE ProcExit
  BY <1>2 DEF ProcExit
<1>3. CASE DirVanish
  BY <1>3 DEF DirVanish
<1>4. CASE Gather
  BY <1>4 DEF Gather, env
<1>5. CASE \/ Measure \/ Lock \/ Insert \/ Revive \/ SkipRetired \/ Retire \/ Drop \/ Keep
           \/ DropRest \/ EndMerge \/ StartAppend \/ AppendNew \/ EndAppend \/ Regroup
           \/ (\E c \in Containers : DockerRemove(c)) \/ UNCHANGED vars
  BY <1>5 DEF Measure, Lock, Insert, Revive, SkipRetired, Retire, Drop, Keep, DropRest, EndMerge,
     StartAppend, AppendNew, EndAppend, Regroup, DockerRemove, scanframe, env, vars, Still
<1> QED
  BY <1>1, <1>2, <1>3, <1>4, <1>5 DEF Next, Scan

LEMMA MappedStep ==
  ASSUME MergeInv, [Next]_vars, Mapped
  PROVE  [Registry!Next]_(Registry!rvars)
<1> DEFINE blind == Detection = "cgroup" /\ ~dir
<1>1. CASE Refreshes /\ Still
  BY <1>1 DEF Refreshes, Still, Act, Ret, Mea, Retired, Measured, Registry!Refresh, Registry!Next,
     Registry!machine
<1>2. CASE MeasuresIt /\ Still
  BY <1>2 DEF MeasuresIt, Still, Act, Ret, Mea, Retired, Measured, Registry!Next, Registry!Measure,
     Registry!machine
<1>3. CASE Stutters
  <2>1. UNCHANGED <<Registry!listed, trackpids>>
    BY <1>3 DEF Stutters, Act, Ret, Mea, Retired, Measured, Registry!listed
  <2>2. CASE Still
    BY <2>1, <2>2 DEF Still, Registry!rvars, Registry!machine
  <2>3. CASE UNCHANGED <<dir, found>> /\ \E p \in Pids \ live : live' = live \cup {p}
    BY <2>1, <2>3 DEF Registry!Next, Registry!Start
  <2>4. CASE UNCHANGED <<dir, found>> /\ \E p \in live : live' = live \ {p}
    BY <2>1, <2>4 DEF Registry!Next, Registry!Exit
  <2>5. CASE dir /\ dir' = FALSE /\ UNCHANGED <<live, found>>
    <3>1. CASE Detection = "cgroup"
      BY <2>1, <2>5, <3>1 DEF Registry!Next, Registry!Lose
    <3>2. CASE Detection # "cgroup"
      BY <2>1, <2>5, <3>2 DEF Registry!rvars, Registry!machine
    <3> QED  BY <3>1, <3>2
  <2>6. CASE UNCHANGED <<live, dir>> /\ found' = IF blind THEN {} ELSE live
    BY <2>1, <2>6 DEF Registry!Next, Registry!Look, Registry!machine
  <2> QED  BY <2>2, <2>3, <2>4, <2>5, <2>6, MachineStep
<1> QED  BY <1>1, <1>2, <1>3 DEF Mapped

(* A merge of scanNew(), node by node, under dataMutex, is one atomic      *)
(* refresh of the registry: for any set of PIDs and any history of         *)
(* processes, the active PIDs become exactly those found by the last look  *)
(* at the processes, which come and go meanwhile; a PID that stays keeps   *)
(* its data, one that leaves is retired with its data or forgotten, and    *)
(* nothing else changes the list.                                          *)
THEOREM RefinesRegistry == Spec => ImplementsRegistry
<1>1. Init => MergeInv /\ RefInv /\ Registry!Init
  <2> SUFFICES ASSUME Init PROVE RefInv /\ Registry!Init
    BY MergeInvInit
  <2>1. Seen = <<>> /\ before = <<>> /\ found = {} /\ done = <<>> /\ phase = "idle"
    BY DEF Init, Seen, Settled
  <2>2. RefInv
    BY <2>1, EmptyViews DEF RefInv, Retired
  <2>3. Registry!Init
    BY <2>1, EmptyViews, PidListAssumption DEF Init, Registry!Init, Measured
  <2> QED  BY <2>2, <2>3
<1>2. MergeInv /\ RefInv /\ [Next]_vars => MergeInv' /\ RefInv' /\ [Registry!Next]_(Registry!rvars)
  BY MergeInvStep, RefInvStep, MappedStep DEF Mapped
<1> QED  BY <1>1, <1>2, PTL DEF Spec, ImplementsRegistry, Registry!Spec

-----------------------------------------------------------------------------
(* Docker's CGroup.  Between the look at the old list and the change of    *)
(* the CGroup, wasEmpty says what the CGroup is still meant for.           *)
GroupFor(used) ==
  partition # "dry" /\ group.refused = 0 =>
    IF used THEN group.excl = 1 <=> partition = "exclusive"
            ELSE \/ group.excl = 0
                 \/ group.listed = 0 /\ (group.excl = 1 <=> partition = "exclusive")

GroupIInv ==
  /\ group \in Group /\ partition \in Partitions
  /\ IF phase \in {"idle", "rescan"} THEN GroupFor(done # <<>>) ELSE GroupFor(~wasEmpty)

LEMMA GroupIInvStep ==
  ASSUME MergeInv, HeadIInv, GroupIInv, [Next]_vars
  PROVE  GroupIInv'
<1>1. phase \notin {"merge", "append"} => (head = 0 <=> done = <<>>)
  <2>1. done # <<>> => Head(done) \in Node
    BY DEF MergeInv, Halves
  <2> QED  BY <2>1, NodeName DEF HeadIInv
<1>2. CASE ProcStart \/ ProcExit \/ DirVanish \/ UNCHANGED vars
  BY <1>2 DEF ProcStart, ProcExit, DirVanish, vars, env, list, GroupIInv, GroupFor
<1>3. CASE Measure
  <2>1. UNCHANGED <<phase, group, wasEmpty, partition>>
    BY <1>3 DEF Measure, env
  <2>2. done \in Seq(Node)
    BY DEF MergeInv, Halves
  <2>3. (done' = <<>>) <=> (done = <<>>)
    <3>1. DOMAIN done' = DOMAIN done
      BY <1>3 DEF Measure
    <3>2. done' \in Seq(Node)
      BY <1>3, MergeInvStep DEF MergeInv, Halves, Next
    <3> QED  BY <2>2, <3>1, <3>2
  <2> QED  BY <2>1, <2>3 DEF GroupIInv, GroupFor
<1>4. CASE Gather
  <2>1. /\ phase \in {"idle", "rescan"} /\ phase' = "gathered" /\ (wasEmpty' <=> (head = 0))
        /\ UNCHANGED <<group, done, partition>>
    BY <1>4 DEF Gather, list, env
  <2> QED  BY <1>1, <2>1 DEF GroupIInv, GroupFor
<1>5. CASE Regroup
  <2>1. /\ phase = "unlocked" /\ phase' = "idle" /\ done' = done
        /\ partition' = partition
    BY <1>5 DEF Regroup, list, env
  <2>2. /\ (head = 0 <=> done = <<>>) /\ group \in Group /\ GroupFor(~wasEmpty)
        /\ partition \in {"exclusive", "useall", "dry"}
    BY <1>1, <2>1, PidListAssumption DEF GroupIInv
  <2>3. PICK g \in IF head = 0 /\ ~wasEmpty THEN Written(0)
                   ELSE IF head # 0 /\ wasEmpty /\ partition # "useall" THEN Written(1) ELSE {group} :
               group' = [g EXCEPT !.listed = IF head = 0 THEN @ ELSE 1]
    BY <1>5 DEF Regroup
  <2>4. g \in Group
    BY <2>2, <2>3 DEF Written, Group, Flag
  <2>5. /\ group' \in Group /\ group'.excl = g.excl /\ group'.refused = g.refused
        /\ group'.listed = IF head = 0 THEN g.listed ELSE 1
    BY <2>3, <2>4 DEF Group, Flag
  <2>6. GroupFor(done # <<>>)'
    <3>1. CASE head = 0 /\ ~wasEmpty
      <4>1. partition = "dry" \/ g.refused = 1 \/ g.excl = 0
        BY <2>2, <2>3, <3>1 DEF Written, Group, Flag
      <4> QED  BY <2>1, <2>2, <2>5, <3>1, <4>1 DEF GroupFor
    <3>2. CASE head # 0 /\ wasEmpty /\ partition # "useall"
      <4>1. partition = "dry" \/ g.refused = 1 \/ (partition = "exclusive" /\ g.excl = 1)
        BY <2>2, <2>3, <3>2 DEF Written, Group, Flag
      <4> QED  BY <2>1, <2>2, <2>5, <3>2, <4>1 DEF GroupFor
    <3>3. CASE head # 0 /\ wasEmpty /\ partition = "useall"
      <4>1. g = group
        BY <2>3, <3>3
      <4> QED  BY <2>1, <2>2, <2>5, <3>3, <4>1 DEF GroupFor, Group, Flag
    <3>4. CASE (head = 0 /\ wasEmpty) \/ (head # 0 /\ ~wasEmpty)
      <4>1. g = group
        BY <2>3, <3>4
      <4> QED  BY <2>1, <2>2, <2>5, <3>4, <4>1 DEF GroupFor, Group, Flag
    <3> QED  BY <3>1, <3>2, <3>3, <3>4
  <2> QED  BY <2>1, <2>5, <2>6 DEF GroupIInv
<1>6. CASE \E c \in Containers : DockerRemove(c)
  <2>1. PICK c \in Containers : DockerRemove(c)
    BY <1>6
  <2>2. \A i \in DOMAIN done : ContidAddress(done[i]) # Fresh
    BY NodeName DEF ContidAddress, Fresh, MergeInv, Halves
  <2>3. phase = "idle" /\ phase' = "rescan" /\ UNCHANGED <<group, done, partition>>
    BY <2>1, <2>2 DEF DockerRemove, env
  <2> QED  BY <2>3 DEF GroupIInv, GroupFor
<1>7. CASE \/ Lock \/ Insert \/ Revive \/ SkipRetired \/ Retire \/ Drop \/ Keep
           \/ DropRest \/ EndMerge \/ StartAppend \/ AppendNew \/ EndAppend
  <2>1. /\ phase \notin {"idle", "rescan"} /\ phase' \notin {"idle", "rescan"}
        /\ UNCHANGED <<group, wasEmpty, partition>>
    BY <1>7 DEF Lock, Insert, Revive, SkipRetired, Retire, Drop, Keep, DropRest, EndMerge, StartAppend,
                AppendNew, EndAppend, Merging, scanframe, env
  <2> QED  BY <2>1 DEF GroupIInv, GroupFor
<1> QED
  BY <1>2, <1>3, <1>4, <1>5, <1>6, <1>7 DEF Next, Scan

(* Docker's CGroup has exclusive CPUs while nodes are listed, unless       *)
(* AFFINITY_USEALL, and none once the list has run empty, between two      *)
(* scans, if the last write was not refused: although it is changed only   *)
(* after the list was unlocked and from what scanNew() saw before it       *)
(* merged, and whatever prepareEnvironment() left.                         *)
THEOREM GroupAlways == Spec => []GroupInv
<1>1. Init => MergeInv /\ HeadIInv /\ GroupIInv
  BY MergeInvInit DEF Init, HeadIInv, GroupIInv, GroupFor, Prepared
<1>2. MergeInv /\ HeadIInv /\ GroupIInv /\ [Next]_vars => MergeInv' /\ HeadIInv' /\ GroupIInv'
  BY MergeInvStep, HeadIInvStep, GroupIInvStep
<1>3. GroupIInv => GroupInv
  BY DEF GroupIInv, GroupInv, GroupFor, Group, Flag
<1> QED  BY <1>1, <1>2, <1>3, PTL DEF Spec

-----------------------------------------------------------------------------
(* Types.  The sequences and sets of PIDs are part of the invariants above. *)
Scalars ==
  /\ {dir, trackpids} \subseteq BOOLEAN /\ wasEmpty \in BOOLEAN
  /\ mode \in {"cgroup", "parent", "cmdline"}
  /\ phase \in {"idle", "rescan", "gathered", "merge", "append", "unlocked"}
  /\ head \in Pids \cup {0}
  /\ partition \in Partitions /\ group \in Group

LEMMA NameIsPid == ASSUME NEW n \in Node PROVE Name(n) \in Pids
<1>1. Pids \subseteq Nat \ {0} /\ n.pid \in Pids \cup {-p : p \in Pids}
  BY PidListAssumption DEF Node
<1>2. CASE n.pid \in Pids
  <2>1. n.pid \in Nat
    BY <1>1, <1>2
  <2> QED  BY <1>2, <2>1 DEF Name, Abs
<1>3. CASE n.pid \in {-p : p \in Pids}
  <2>1. PICK p \in Pids : n.pid = -p
    BY <1>3
  <2>2. p \in Nat \ {0}
    BY <1>1
  <2>3. Name(n) = p
    BY <2>1, <2>2 DEF Name, Abs
  <2> QED  BY <2>3
<1> QED  BY <1>1, <1>2, <1>3

LEMMA ScalarsStep ==
  ASSUME MergeInv, HeadIInv, MergeInv', HeadIInv', Scalars, [Next]_vars
  PROVE  Scalars'
<1>1. /\ done \in Seq(Node) /\ rest \in Seq(Node) /\ lnew \in Seq(Node)
      /\ done' \in Seq(Node)
  BY DEF MergeInv, Halves
<1>2. UNCHANGED trackpids /\ (dir' = dir \/ dir' = FALSE)
  BY DEF Next, Scan, ProcStart, ProcExit, DirVanish, Measure, Gather, Lock, Insert, Revive, SkipRetired, Retire,
         Drop, Keep, DropRest, EndMerge, StartAppend, AppendNew, EndAppend, Regroup, DockerRemove,
         scanframe, env, vars
<1>3. wasEmpty' = wasEmpty \/ wasEmpty' = (head = 0)
  BY DEF Next, Scan, ProcStart, ProcExit, DirVanish, Measure, Gather, Lock, Insert, Revive, SkipRetired, Retire,
         Drop, Keep, DropRest, EndMerge, StartAppend, AppendNew, EndAppend, Regroup, DockerRemove,
         scanframe, env, vars
<1>4. mode' = mode \/ mode' = "parent"
  BY DEF Next, Scan, ProcStart, ProcExit, DirVanish, Measure, Gather, Lock, Insert, Revive, SkipRetired, Retire,
         Drop, Keep, DropRest, EndMerge, StartAppend, AppendNew, EndAppend, Regroup, DockerRemove,
         scanframe, env, vars
<1>5. phase' = phase \/ phase' \in {"idle", "rescan", "gathered", "merge", "append", "unlocked"}
  BY DEF Next, Scan, ProcStart, ProcExit, DirVanish, Measure, Gather, Lock, Insert, Revive, SkipRetired, Retire,
         Drop, Keep, DropRest, EndMerge, StartAppend, AppendNew, EndAppend, Regroup, DockerRemove,
         scanframe, env, vars
<1>6. partition' = partition /\ (group' = group \/ Regroup)
  BY DEF Next, Scan, ProcStart, ProcExit, DirVanish, Measure, Gather, Lock, Insert, Revive, SkipRetired, Retire,
         Drop, Keep, DropRest, EndMerge, StartAppend, AppendNew, EndAppend, Regroup, DockerRemove,
         scanframe, env, vars
<1>7. head' \in Pids \cup {0}
  <2>1. CASE Revive \/ Drop
    <3>1. \A r \in Seq(Node) : (IF done \o r = <<>> THEN 0 ELSE Name(Head(done \o r))) \in Pids \cup {0}
      BY <1>1, NamesConcat, NameIsPid
    <3>2. rest # <<>> /\ Tail(rest) \in Seq(Node)
      BY <1>1, <2>1 DEF Revive, Drop, Merging
    <3>3. head' = IF done \o Tail(rest) = <<>> THEN 0 ELSE Name(Head(done \o Tail(rest)))
      BY <2>1 DEF Revive, Drop
    <3> QED  BY <3>1, <3>2, <3>3
  <2>2. CASE EndMerge \/ StartAppend
    <3>1. head' = IF done = <<>> THEN 0 ELSE Name(Head(done))
      BY <2>2 DEF EndMerge, StartAppend
    <3>2. done # <<>> => Head(done) \in Node
      BY <1>1
    <3> QED  BY <3>1, <3>2, NameIsPid
  <2>3. CASE EndAppend
    <3>1. head' = Name(Head(done)) /\ done # <<>>
      BY <2>3 DEF EndAppend, HeadIInv
    <3>2. Head(done) \in Node
      BY <1>1, <3>1
    <3> QED  BY <3>1, <3>2, NameIsPid
  <2>4. CASE UNCHANGED head
    BY <2>4 DEF Scalars
  <2>5. Revive \/ Drop \/ EndMerge \/ StartAppend \/ EndAppend \/ UNCHANGED head
    BY DEF Next, Scan, ProcStart, ProcExit, DirVanish, Measure, Gather, Lock, Insert, SkipRetired, Retire,
         Keep, DropRest, AppendNew, Regroup, DockerRemove, list, vars
  <2> QED  BY <2>1, <2>2, <2>3, <2>4, <2>5
<1>8. group' \in Group
  <2>1. CASE Regroup
    <3>1. \A v \in {0, 1} : Written(v) \subseteq Group
      BY DEF Written, Scalars, Group, Flag
    <3>2. \E g \in Group : group' = [g EXCEPT !.listed = IF head = 0 THEN @ ELSE 1]
      BY <2>1, <3>1 DEF Regroup, Scalars
    <3> QED  BY <3>2 DEF Group, Flag
  <2> QED  BY <1>6, <2>1 DEF Scalars
<1> QED  BY <1>2, <1>3, <1>4, <1>5, <1>6, <1>7, <1>8 DEF Scalars

(* The variables keep their types, for any set of PIDs.                    *)
THEOREM PidListTypes == Spec => []TypeOK
<1>1. Init => MergeInv /\ HeadIInv /\ RefInv /\ Scalars
  <2> SUFFICES ASSUME Init PROVE HeadIInv /\ RefInv /\ Scalars
    BY MergeInvInit
  <2>1. HeadIInv
    BY DEF Init, HeadIInv
  <2>2. RefInv
    BY EmptyViews DEF Init, RefInv, Retired
  <2>3. Scalars
    BY PidListAssumption DEF Init, Scalars, Prepared
  <2> QED  BY <2>1, <2>2, <2>3
<1>2. MergeInv /\ HeadIInv /\ RefInv /\ Scalars /\ [Next]_vars
      => MergeInv' /\ HeadIInv' /\ RefInv' /\ Scalars'
  BY MergeInvStep, HeadIInvStep, RefInvStep, ScalarsStep DEF Mapped
<1>3. MergeInv /\ RefInv /\ Scalars => TypeOK
  BY DEF MergeInv, Halves, RefInv, Scalars, TypeOK
<1> QED  BY <1>1, <1>2, <1>3, PTL DEF Spec

-----------------------------------------------------------------------------
(* Siblings.  Here the flags of the nodes matter, so a list is looked at   *)
(* as the set of its nodes.  Linked(s, T, S): of the names in T, every     *)
(* active node of s with a sibling in S is flagged.                        *)
Nodes(s) == {s[i] : i \in DOMAIN s}
Marked(n, S) == IF Name(n) \in S THEN [n EXCEPT !.sibl = 1] ELSE n

Linked(s, T, S) ==
  \A n \in Nodes(s) : Name(n) \in T /\ n.pid > 0 /\ Siblings(n.pid, S) # {} => n.sibl = 1

LEMMA AppendNodes ==
  ASSUME NEW s \in Seq(Node), NEW n \in Node
  PROVE  Nodes(Append(s, n)) = Nodes(s) \cup {n}
<1> DEFINE t == Append(s, n)
<1>1. /\ DOMAIN s = 1..Len(s) /\ DOMAIN t = 1..(Len(s) + 1) /\ Len(s) \in Nat
      /\ t[Len(s) + 1] = n /\ \A i \in 1..Len(s) : t[i] = s[i]
  OBVIOUS
<1> HIDE DEF t
<1>2. 1..(Len(s) + 1) = 1..Len(s) \cup {Len(s) + 1}
  BY <1>1
<1>3. \A x : x \in Nodes(t) <=> x \in Nodes(s) \/ x = n
  BY <1>1, <1>2 DEF Nodes
<1>4. Nodes(t) = Nodes(s) \cup {n}
  BY <1>3
<1> QED  BY <1>4 DEF t

LEMMA TailNodes ==
  ASSUME NEW s \in Seq(Node), s # <<>>
  PROVE  Head(s) \in Nodes(s) /\ Nodes(Tail(s)) \subseteq Nodes(s)
<1>1. /\ DOMAIN s = 1..Len(s) /\ Len(s) \in Nat \ {0} /\ Head(s) = s[1]
      /\ DOMAIN Tail(s) = 1..(Len(s) - 1)
      /\ \A i \in 1..(Len(s) - 1) : Tail(s)[i] = s[i + 1] /\ i + 1 \in 1..Len(s)
  OBVIOUS
<1>2. Head(s) \in Nodes(s)
  BY <1>1 DEF Nodes
<1>3. ASSUME NEW n \in Nodes(Tail(s)) PROVE n \in Nodes(s)
  <2>1. PICK i \in 1..(Len(s) - 1) : n = Tail(s)[i]
    BY <1>1 DEF Nodes
  <2> QED  BY <1>1, <2>1 DEF Nodes
<1> QED  BY <1>2, <1>3

LEMMA MarkNodes ==
  ASSUME NEW s \in Seq(Node), NEW S
  PROVE  \A n \in Nodes(MarkAll(s, S)) : \E m \in Nodes(s) : n = Marked(m, S)
BY DEF Nodes, MarkAll, Marked

LEMMA NodesNames ==
  ASSUME NEW s \in Seq(Node)
  PROVE  /\ Nodes(s) \subseteq Node
         /\ \A n \in Nodes(s) : Name(n) \in Names(s) /\ (n.pid > 0 => n.pid = Name(n) /\ n.pid \in Active(s))
<1>1. DOMAIN s = 1..Len(s) /\ \A i \in 1..Len(s) : s[i] \in Node
  OBVIOUS
<1>2. \A n \in Node : n.pid > 0 => n.pid = Name(n)
  BY NodeName DEF Name, Abs
<1> QED  BY <1>1, <1>2 DEF Nodes, Names, Active

LEMMA LinkedLess ==
  ASSUME NEW s, NEW T, NEW U, NEW S, NEW R, Linked(s, T, S), U \subseteq T, R \subseteq S
  PROVE  Linked(s, U, R)
BY DEF Linked, Siblings

LEMMA LinkedAppend ==
  ASSUME NEW s \in Seq(Node), NEW n \in Node, NEW T, NEW S, Linked(s, T, S),
         Name(n) \in T /\ n.pid > 0 /\ Siblings(n.pid, S) # {} => n.sibl = 1
  PROVE  Linked(Append(s, n), T, S)
BY AppendNodes DEF Linked

LEMMA LinkedTail ==
  ASSUME NEW s \in Seq(Node), s # <<>>, NEW T, NEW S, Linked(s, T, S)
  PROVE  /\ Linked(Tail(s), T, S)
         /\ Name(Head(s)) \in T /\ Head(s).pid > 0 /\ Siblings(Head(s).pid, S) # {} => Head(s).sibl = 1
BY TailNodes DEF Linked

(* Flagging the siblings of a new PID p links a list to p as well.         *)
LEMMA LinkedMark ==
  ASSUME NEW s \in Seq(Node), NEW T, NEW S, NEW M, Linked(s, T, S)
  PROVE  /\ Linked(MarkAll(s, M), T, S)
         /\ \A p : Siblings(p, Names(s)) \subseteq M => Linked(MarkAll(s, M), T, S \cup {p})
<1>1. \A m \in Nodes(s) : /\ Name(Marked(m, M)) = Name(m) /\ Marked(m, M).pid = m.pid
                          /\ m.sibl = 1 => Marked(m, M).sibl = 1
                          /\ Name(m) \in M => Marked(m, M).sibl = 1
  BY NodesNames, NodeFlagged DEF Marked, Node
<1>2. Linked(MarkAll(s, M), T, S)
  <2> SUFFICES ASSUME NEW n \in Nodes(MarkAll(s, M)), Name(n) \in T, n.pid > 0, Siblings(n.pid, S) # {}
               PROVE  n.sibl = 1
    BY DEF Linked
  <2>1. PICK m \in Nodes(s) : n = Marked(m, M)
    BY MarkNodes
  <2>2. m.sibl = 1
    BY <1>1, <2>1 DEF Linked
  <2> QED  BY <1>1, <2>1, <2>2
<1>3. ASSUME NEW p, Siblings(p, Names(s)) \subseteq M
      PROVE  Linked(MarkAll(s, M), T, S \cup {p})
  <2> SUFFICES ASSUME NEW n \in Nodes(MarkAll(s, M)), Name(n) \in T, n.pid > 0,
                      Siblings(n.pid, S \cup {p}) # {}
               PROVE  n.sibl = 1
    BY DEF Linked
  <2>1. PICK m \in Nodes(s) : n = Marked(m, M)
    BY MarkNodes
  <2>2. m.pid = n.pid /\ Name(m) = Name(n) /\ Name(m) \in Names(s) /\ m.pid = Name(m)
    BY <1>1, <2>1, NodesNames
  <2>3. CASE Siblings(n.pid, S) # {}
    BY <1>1, <2>1, <2>2, <2>3 DEF Linked
  <2>4. CASE Siblings(n.pid, S) = {}
    <3>1. p \in Siblings(n.pid, S \cup {p})
      BY <2>4 DEF Siblings
    <3>2. Name(m) \in Siblings(p, Names(s))
      BY <2>2, <3>1 DEF Siblings
    <3> QED  BY <1>1, <1>3, <2>1, <3>2
  <2> QED  BY <2>3, <2>4
<1> QED  BY <1>2, <1>3

LEMMA LinkedEmpty == \A T, S : Linked(<<>>, T, S)
<1>1. Nodes(<<>>) = {}
  BY DEF Nodes
<1> QED  BY <1>1 DEF Linked

(* From the first node, a walk reaches the whole list.                     *)
LEMMA FromHead ==
  ASSUME NEW s \in Seq(Node), s # <<>>
  PROVE  From(s, Name(Head(s))) = Names(s)
<1>1. DOMAIN s = 1..Len(s) /\ Len(s) \in Nat \ {0} /\ Head(s) = s[1]
  OBVIOUS
<1>2. \A j \in 1..Len(s) : 1 \in 1..j
  BY <1>1
<1>3. {j \in DOMAIN s : \E k \in 1..j : Name(s[k]) = Name(Head(s))} = DOMAIN s
  BY <1>1, <1>2
<1> QED  BY <1>3 DEF From, Names

-----------------------------------------------------------------------------
(* The inductive invariant behind SiblingsMarked, when PIDs only grow.     *)
(* Known: a live process that is in none of the lists is younger than all  *)
(* of them, and one that is listed was found (or, between scans, is        *)
(* active), so a deactivated PID does not come back.  In a merge the new   *)
(* PIDs are therefore handled before any old node is, while nhead is still *)
(* the first of the rest: every sibling in the old list is reached.        *)
Known == Names(done) \cup Names(rest) \cup Names(lnew)
Young(p, S) == \A q \in S : p > q

Grown ==
  dir => /\ \A p \in live : p \in Known \/ Young(p, Known)
         /\ live \cap Known \subseteq IF phase \in {"gathered", "merge", "append"} THEN found ELSE Active(done)

Met == (found \cap Active(before)) \cup (found \ Names(lnew))
NoneBack(s) == \A p \in found : p \in Active(s) \/ Young(p, Names(s))

LinkedMerge ==
  /\ NoneBack(before)
  /\ Linked(done, Pids \ Names(before), found) /\ Linked(lnew, Pids \ Names(before), found)
  /\ Linked(done, Names(before), Met) /\ Linked(rest, Names(before), Met)
  /\ \/ Names(lnew) \subseteq Names(before)
     \/ Names(done) \cap Names(before) = {} /\ (rest # <<>> => head = Name(Head(rest)))

LinkedInv ==
  /\ phase \in {"idle", "rescan", "unlocked"} => lnew = <<>>
  /\ Grown
  /\ phase \in {"merge", "append"} => LinkedMerge
  /\ Settled => Linked(done, Pids, Active(done))
  /\ phase = "gathered" => Linked(lnew, Pids, found) /\ NoneBack(done)

(* In a merge names only move or leave, and what was found is kept.        *)
LEMMA GrownMerge ==
  ASSUME Grown, InMerge', done' \in Seq(Node), phase \in {"merge", "append"}, phase' \in {"merge", "append"},
         Known' \subseteq Known, UNCHANGED <<live, dir, found>>
  PROVE  Grown'
<1>1. found \subseteq Known'
  <2>1. Active(done') \subseteq Names(done')
    BY SubViews
  <2> QED  BY <2>1 DEF InMerge, Known
<1>2. ASSUME dir, NEW x \in live PROVE x \in Known' \/ Young(x, Known')
  BY <1>1, <1>2 DEF Grown, Young
<1>3. ASSUME dir PROVE live \cap Known' \subseteq found
  BY <1>3 DEF Grown
<1> QED  BY <1>2, <1>3 DEF Grown

LEMMA LinkedInvMerge ==
  ASSUME Grown', LinkedMerge', phase' \in {"merge", "append"}
  PROVE  LinkedInv'
BY DEF LinkedInv, Settled

(* No new PID is left once an old node is looked at.                       *)
LEMMA NoNewLeft ==
  ASSUME LinkedMerge, InMerge, NEW q \in Names(before), q \in Nat,
         \A x \in Names(lnew) : x \in Nat /\ x <= q, before \in Seq(Node)
  PROVE  Names(lnew) \subseteq Active(before) /\ Names(lnew) \subseteq Names(before)
<1>1. Names(lnew) \subseteq found
  BY DEF InMerge
<1>2. ASSUME NEW x \in Names(lnew) PROVE ~Young(x, Names(before))
  BY DEF Young
<1>3. Active(before) \subseteq Names(before)
  BY SubViews
<1> QED  BY <1>1, <1>2, <1>3 DEF LinkedMerge, NoneBack

(* An old node is passed: kept, deactivated or dropped.                    *)
LEMMA LinkedOld ==
  ASSUME LinkedMerge, done \in Seq(Node), rest \in Seq(Node), rest # <<>>, lnew \in Seq(Node),
         NEW n \in Node, n.pid > 0 => n = Head(rest), Name(Head(rest)) \in Names(before),
         done' = done \/ done' = Append(done, n), rest' = Tail(rest),
         lnew' = lnew \/ (lnew # <<>> /\ lnew' = Tail(lnew) /\ Names(lnew') = Names(lnew) \ {Name(Head(lnew))}),
         Names(lnew) \subseteq Active(before), Names(lnew) \subseteq Names(before),
         Names(lnew') \subseteq Names(lnew), before' = before, found' = found,
         Name(n) = Name(Head(rest))
  PROVE  LinkedMerge'
<1>1. /\ NoneBack(before) /\ Linked(done, Pids \ Names(before), found)
      /\ Linked(lnew, Pids \ Names(before), found)
      /\ Linked(done, Names(before), Met) /\ Linked(rest, Names(before), Met)
  BY DEF LinkedMerge
<1>2. Met' \subseteq Met
  BY DEF Met
<1>3. Linked(rest', Names(before), Met)
  BY <1>1, LinkedTail
<1>4. Linked(lnew', Pids \ Names(before), found)
  BY <1>1, LinkedTail
<1>5. Name(n) \in Names(before) /\ n.pid > 0 /\ Siblings(n.pid, Met) # {} => n.sibl = 1
  <2>1. /\ Name(Head(rest)) \in Names(before) /\ Head(rest).pid > 0 /\ Siblings(Head(rest).pid, Met) # {}
        => Head(rest).sibl = 1
    BY <1>1, LinkedTail
  <2> QED  BY <2>1
<1>6. Linked(done', Names(before), Met)
  BY <1>1, <1>5, LinkedAppend
<1>7. Linked(done', Pids \ Names(before), found)
  BY <1>1, LinkedAppend
<1>8. NoneBack(before)'
  BY <1>1 DEF NoneBack
<1>9. Linked(done', Names(before), Met') /\ Linked(rest', Names(before), Met')
  BY <1>2, <1>3, <1>6, LinkedLess
<1> QED  BY <1>4, <1>7, <1>8, <1>9 DEF LinkedMerge

(* A new node is spliced in before any old one is passed.                  *)
LEMMA LinkedNew ==
  ASSUME LinkedMerge, done \in Seq(Node), rest \in Seq(Node), lnew \in Seq(Node), lnew # <<>>,
         done' \in Seq(Node), rest' \in Seq(Node),
         NEW p, p = Name(Head(lnew)), p = Head(lnew).pid, p \in Names(lnew), p \notin Names(before),
         Names(rest) \subseteq Names(before), Head(lnew) \in Node, p > 0, p \in found,
         Splice(rest, head), lnew' = Tail(lnew), Names(lnew') = Names(lnew) \ {p},
         Names(done') = Names(done) \cup {p},
         before' = before, found' = found, head' = head
  PROVE  LinkedMerge'
<1> DEFINE S == Siblings(Head(lnew).pid, Reached(done, rest, head))
           n == [Head(lnew) EXCEPT !.sibl = IF S # {} THEN 1 ELSE @]
<1>1. /\ NoneBack(before) /\ Linked(done, Pids \ Names(before), found)
      /\ Linked(lnew, Pids \ Names(before), found)
      /\ Linked(done, Names(before), Met) /\ Linked(rest, Names(before), Met)
      /\ Names(done) \cap Names(before) = {}
      /\ rest # <<>> => head = Name(Head(rest))
  BY DEF LinkedMerge
<1>2. done' = Append(MarkAll(done, S), n) /\ rest' = MarkAll(rest, S)
  BY DEF Splice
<1>3. Siblings(p, Names(rest)) \subseteq S
  <2>1. CASE rest = <<>>
    BY <2>1, EmptyViews DEF Siblings
  <2>2. CASE rest # <<>>
    <3>1. head \in Names(rest)
      BY <1>1, <2>2, NamesHead
    <3>2. head \notin Names(done)
      BY <1>1, <3>1
    <3>3. Reached(done, rest, head) = Names(rest)
      BY <1>1, <2>2, <3>2, FromHead DEF Reached
    <3> QED  BY <3>3
  <2> QED  BY <2>1, <2>2
<1> HIDE DEF S
<1>4. n \in Node /\ Name(n) = p /\ n.pid = p /\ (Head(lnew).sibl = 1 => n.sibl = 1)
  BY DEF Node, Flag, Name
<1> HIDE DEF n
<1>5. MarkAll(done, S) \in Seq(Node)
  BY MarkAllNames
<1>6. Linked(rest', Names(before), Met \cup {p})
  BY <1>1, <1>2, <1>3, LinkedMark
<1>7. Met' \subseteq Met \cup {p}
  BY DEF Met
<1>8. Linked(rest', Names(before), Met')
  BY <1>6, <1>7, LinkedLess
<1>9. Linked(done', Names(before), Met')
  <2>1. \A m \in Nodes(done') : Name(m) \notin Names(before)
    BY <1>1, NodesNames
  <2> QED  BY <2>1 DEF Linked
<1>10. Linked(MarkAll(done, S), Pids \ Names(before), found)
  BY <1>1, LinkedMark
<1>11. /\ Linked(lnew', Pids \ Names(before), found)
       /\ p \in Pids \ Names(before) /\ Siblings(p, found) # {} => Head(lnew).sibl = 1
  BY <1>1, LinkedTail
<1>12. Linked(done', Pids \ Names(before), found)
  <2>1. Name(n) \in Pids \ Names(before) /\ n.pid > 0 /\ Siblings(n.pid, found) # {} => n.sibl = 1
    BY <1>4, <1>11
  <2> QED  BY <1>2, <1>4, <1>5, <1>10, <2>1, LinkedAppend
<1>13. Names(done') \cap Names(before) = {}
  BY <1>1
<1>14. ASSUME rest' # <<>> PROVE head = Name(Head(rest'))
  <2>1. /\ rest' \in Seq(Node) /\ Len(rest') = Len(rest)
        /\ \A i \in 1..Len(rest) : Name(rest'[i]) = Name(rest[i])
    BY <1>2, MarkAllNames
  <2>2. Len(rest) \in Nat \ {0} /\ rest # <<>> /\ Head(rest) = rest[1] /\ Head(rest') = rest'[1]
    BY <1>14, <2>1
  <2>3. Name(rest'[1]) = Name(rest[1])
    BY <2>1, <2>2
  <2> QED  BY <1>1, <2>2, <2>3
<1>15. NoneBack(before)'
  BY <1>1 DEF NoneBack
<1> QED  BY <1>8, <1>9, <1>11, <1>12, <1>13, <1>14, <1>15 DEF LinkedMerge

LEMMA LinkedInvStep ==
  ASSUME GrowingPids, Detection = "cgroup",
         MergeInv, HeadIInv, RefInv, LinkedInv, MergeInv', RefInv', [Next]_vars
  PROVE  LinkedInv'
<1> DEFINE p == Name(Head(lnew))
           q == Name(Head(rest))
<1>1. /\ done \in Seq(Node) /\ rest \in Seq(Node) /\ lnew \in Seq(Node)
      /\ done' \in Seq(Node) /\ rest' \in Seq(Node) /\ lnew' \in Seq(Node)
      /\ Descending(rest) /\ Descending(lnew)
      /\ phase # "merge" => rest = <<>>
      /\ live \subseteq Pids
  BY DEF MergeInv, Halves
<1>2. /\ before \in Seq(Node) /\ (phase \in {"merge", "append"} => InMerge /\ LinkedMerge)
      /\ phase' \in {"merge", "append"} => InMerge'
      /\ Grown /\ Names(List) = Names(done) \cup Names(rest)
  BY <1>1, NamesConcat DEF RefInv, LinkedInv, List
<1> DEFINE NewHead ==
             /\ Head(lnew) \in Node /\ p = Head(lnew).pid /\ p \in Nat /\ p > 0 /\ p \in Names(lnew)
             /\ Names(Tail(lnew)) = Names(lnew) \ {p}
             /\ \A x \in Names(lnew) : x \in Nat /\ x <= p
           OldHead ==
             /\ Head(rest) \in Node /\ q \in Names(rest) /\ q \in Nat
             /\ q \in Active(rest) <=> Head(rest).pid > 0
             /\ Names(Tail(rest)) = Names(rest) \ {q}
             /\ \A x \in Names(rest) : x \in Nat /\ x <= q
<1>3. ASSUME lnew # <<>> PROVE NewHead
  <2>1. Head(lnew) \in Node /\ Head(lnew).pid > 0
    BY <1>1, <1>3 DEF MergeInv, Halves
  <2>2. p = Head(lnew).pid /\ p \in Nat
    BY <2>1, NodeName DEF Name, Abs
  <2> QED  BY <1>1, <1>3, <2>1, <2>2, TailViews, HeadBounds
<1>4. ASSUME rest # <<>> PROVE OldHead
  <2>1. Head(rest) \in Node /\ q \in Nat
    BY <1>1, <1>4, NodeName
  <2> QED  BY <1>1, <1>4, <2>1, TailViews, HeadBounds
<1> HIDE DEF NewHead, OldHead
<1>5. CASE ProcStart
  <2>1. PICK x \in Pids \ live : /\ \A y \in live \cup Names(List) \cup Names(lnew) : x > y
                                /\ live' = live \cup {x}
    BY <1>5 DEF ProcStart
  <2>2. UNCHANGED <<dir, phase, done, rest, head, lnew, found, before>>
    BY <1>5 DEF ProcStart, list
  <2>3. Known' = Known /\ Known = Names(List) \cup Names(lnew) /\ Young(x, Known)
    BY <1>2, <2>1, <2>2 DEF Known, Young
  <2>4. x \notin Known
    <3>1. x \in Nat
      BY PidListAssumption
    <3> QED  BY <2>3, <3>1 DEF Young
  <2>5. Grown'
    <3>1. \A S : Young(x, S)' = Young(x, S)
      BY DEF Young
    <3> QED  BY <1>2, <2>1, <2>2, <2>3, <2>4 DEF Grown, Young
  <2> QED  BY <2>2, <2>5 DEF LinkedInv, LinkedMerge, NoneBack, Linked, Met, Settled
<1>6. CASE ProcExit \/ DirVanish \/ UNCHANGED vars
  <2>1. /\ UNCHANGED <<phase, done, rest, head, lnew, found, before>>
        /\ live' \subseteq live /\ (dir' => dir)
    BY <1>6 DEF ProcExit, DirVanish, vars, env, list
  <2>2. Grown'
    BY <1>2, <2>1 DEF Grown, Known, Young
  <2> QED  BY <2>1, <2>2 DEF LinkedInv, LinkedMerge, NoneBack, Linked, Met, Settled
<1>7. CASE Measure
  <2>1. /\ phase \in {"idle", "gathered", "unlocked"} /\ UNCHANGED <<dir, live, phase, rest, lnew, found>>
        /\ done' = [i \in DOMAIN done |-> [done[i] EXCEPT !.data = IF done[i].pid > 0 THEN 1 ELSE @]]
    BY <1>7 DEF Measure, env
  <2>2. Names(done') = Names(done) /\ Active(done') = Active(done)
    BY <1>1, <1>7, MeasureViews
  <2>3. Grown'
    BY <1>2, <2>1, <2>2 DEF Grown, Known, Young
  <2>4. Linked(done', Pids, Active(done))
    <3>1. DOMAIN done = 1..Len(done) /\ \A i \in 1..Len(done) : done[i] \in Node
      BY <1>1
    <3>2. \A m \in Nodes(done') : \E n \in Nodes(done) : m.pid = n.pid /\ m.sibl = n.sibl /\ Name(m) = Name(n)
      BY <2>1, <3>1 DEF Nodes, Node, Name
    <3>3. Linked(done, Pids, Active(done))
      BY <2>1 DEF LinkedInv, Settled
    <3> QED  BY <3>2, <3>3 DEF Linked
  <2>5. (phase = "gathered" => Linked(lnew, Pids, found) /\ NoneBack(done'))
        /\ (phase # "gathered" => lnew = <<>>)
    BY <2>1, <2>2 DEF LinkedInv, NoneBack
  <2> QED  BY <2>1, <2>2, <2>3, <2>4, <2>5 DEF LinkedInv, NoneBack, Linked
<1>8. CASE Gather
  <2>1. /\ phase \in {"idle", "rescan"} /\ phase' = "gathered" /\ rest = <<>>
        /\ UNCHANGED <<dir, live, done, rest>>
        /\ found' = IF Detection = "cgroup" /\ ~dir THEN {} ELSE live
        /\ \E s \in SortDescending(found') : lnew' = [i \in DOMAIN s |-> NewNode(s[i], found')]
    BY <1>1, <1>8 DEF Gather, env, list
  <2>2. lnew = <<>> /\ Linked(done, Pids, Active(done))
    BY <2>1 DEF LinkedInv, Settled
  <2>3. Names(lnew') = found'
    BY <1>8, GatherViews
  <2>4. Names(lnew) = {} /\ Names(rest) = {}
    BY <2>1, <2>2, EmptyViews
  <2>5. Grown'
    <3>1. dir => found' = live
      BY <2>1
    <3> QED  BY <2>1, <2>3, <3>1 DEF Grown, Known
  <2>6. NoneBack(done)'
    <3>1. CASE ~dir
      BY <2>1, <3>1 DEF NoneBack
    <3>2. CASE dir
      <4>1. found' = live /\ Known = Names(done)
        BY <2>1, <2>4, <3>2 DEF Known
      <4>2. \A x \in live : x \in Active(done) \/ Young(x, Names(done))
        BY <1>2, <2>1, <3>2, <4>1 DEF Grown
      <4> QED  BY <2>1, <4>1, <4>2 DEF NoneBack, Young
    <3> QED  BY <3>1, <3>2
  <2>7. Linked(lnew', Pids, found')
    <3>1. \A n \in Nodes(lnew') : \E x : n = NewNode(x, found')
      BY <2>1 DEF Nodes
    <3>2. \A x : Siblings(NewNode(x, found').pid, found') # {} => NewNode(x, found').sibl = 1
      BY DEF NewNode
    <3> QED  BY <3>1, <3>2 DEF Linked
  <2> QED  BY <2>1, <2>2, <2>5, <2>6, <2>7 DEF LinkedInv, Settled
<1>9. CASE Lock
  <2>1. /\ phase = "gathered" /\ phase' = "merge" /\ before' = done /\ rest' = done /\ done' = <<>>
        /\ rest = <<>> /\ UNCHANGED <<dir, live, lnew, found, head>>
    BY <1>1, <1>9 DEF Lock, env
  <2>2. /\ Linked(done, Pids, Active(done)) /\ Linked(lnew, Pids, found) /\ NoneBack(done)
        /\ Names(lnew) = found
    BY <2>1 DEF LinkedInv, Settled, RefInv
  <2>3. Grown'
    <3>1. Known' = Known
      BY <2>1, EmptyViews DEF Known
    <3> QED  BY <1>2, <2>1, <3>1 DEF Grown, Young
  <2>4. Met' \subseteq Active(done)
    BY <2>1, <2>2 DEF Met
  <2>5. Names(done) \subseteq Pids
    BY <1>1, ListViews, NameIsPid
  <2>6. Linked(done, Names(done), Met')
    BY <2>2, <2>4, <2>5, LinkedLess
  <2>7. Linked(lnew, Pids \ Names(done), found)
    BY <2>2, LinkedLess
  <2>8. done # <<>> => head = Name(Head(done))
    BY <2>1 DEF HeadIInv
  <2>9. LinkedMerge'
    BY <2>1, <2>2, <2>6, <2>7, <2>8, LinkedEmpty, EmptyViews DEF LinkedMerge, NoneBack, Young
  <2> QED  BY <2>1, <2>3, <2>9, LinkedInvMerge
<1>10. CASE Insert \/ AppendNew
  <2>1. /\ phase \in {"merge", "append"} /\ lnew # <<>> /\ Splice(rest, head) /\ lnew' = Tail(lnew)
        /\ rest # <<>> => Head(lnew).pid > q
        /\ UNCHANGED <<dir, live, phase, found, before, head>>
    BY <1>1, <1>10 DEF Insert, AppendNew, Merging, scanframe, env
  <2>2. NewHead /\ InMerge /\ LinkedMerge /\ InMerge'
    BY <1>2, <1>3, <2>1
  <2>3. p \notin Names(rest)
    BY <1>4, <2>1, <2>2, EmptyViews DEF NewHead, OldHead
  <2>4. p \notin Names(before) /\ p \in found /\ Names(rest) \subseteq Names(before)
    BY <2>2, <2>3 DEF NewHead, InMerge, Handled
  <2>5. /\ Names(done') = Names(done) \cup {p} /\ Names(rest') = Names(rest)
        /\ Names(lnew') = Names(lnew) \ {p}
    <3>1. Head(lnew).data # 1
      <4>1. Measured(lnew) = {}
        BY <2>2 DEF InMerge
      <4> QED  BY <1>1, <2>1, <4>1, TailViews
    <3> QED  BY <1>1, <2>1, <2>2, <3>1, SpliceViews DEF NewHead
  <2>6. LinkedMerge'
    BY <1>1, <2>1, <2>2, <2>4, <2>5, LinkedNew DEF NewHead
  <2>7. Known' \subseteq Known
    BY <2>2, <2>5 DEF Known, NewHead
  <2>8. Grown'
    BY <1>1, <1>2, <2>1, <2>2, <2>7, GrownMerge
  <2> QED  BY <2>1, <2>6, <2>8, LinkedInvMerge
<1>11. CASE Revive
  <2>1. phase = "merge" /\ rest # <<>> /\ lnew # <<>> /\ Head(lnew).pid = -Head(rest).pid
    BY <1>11 DEF Revive, Merging
  <2>2. NewHead /\ OldHead /\ InMerge /\ LinkedMerge
    BY <1>2, <1>3, <1>4, <2>1
  <2>3. p = q /\ p \notin Active(rest)
    BY <2>1, <2>2, NodeName DEF NewHead, OldHead, Name, Abs
  <2>4. q \in Names(before)
    BY <2>2 DEF InMerge, OldHead
  <2>5. p \in Active(before)
    BY <1>2, <2>2, <2>3, <2>4, NoNewLeft DEF NewHead, OldHead
  <2>6. p \in Active(rest)
    BY <2>2, <2>3, <2>5 DEF InMerge, OldHead
  <2> QED  BY <2>3, <2>6
<1>12. CASE SkipRetired \/ Retire \/ Drop \/ Keep \/ DropRest
  <2>1. /\ phase = "merge" /\ rest # <<>> /\ rest' = Tail(rest)
        /\ lnew' = lnew \/ (lnew # <<>> /\ lnew' = Tail(lnew))
        /\ lnew # <<>> => Head(lnew).pid < q \/ Head(lnew).pid < Head(rest).pid \/ Head(lnew).pid = Head(rest).pid
        /\ UNCHANGED <<dir, live, phase, found, before>>
    BY <1>12 DEF SkipRetired, Retire, Drop, Keep, DropRest, Merging, scanframe, env
  <2>2. OldHead /\ InMerge /\ LinkedMerge /\ InMerge'
    BY <1>2, <1>4, <2>1
  <2>3. Head(rest).pid \in Int /\ Head(rest).pid <= q
    BY <2>2, NodeName DEF OldHead, Name, Abs
  <2>4. \A x \in Names(lnew) : x \in Nat /\ x <= q
    <3>1. CASE lnew = <<>>
      BY <3>1, EmptyViews
    <3>2. CASE lnew # <<>>
      <4>1. NewHead
        BY <1>3, <3>2
      <4>2. p <= q
        BY <2>1, <2>2, <2>3, <3>2, <4>1 DEF NewHead, OldHead
      <4>3. q \in Nat /\ p \in Nat
        BY <2>2, <4>1 DEF NewHead, OldHead
      <4> HIDE DEF p, q
      <4> QED  BY <4>1, <4>2, <4>3 DEF NewHead
    <3> QED  BY <3>1, <3>2
  <2>5. q \in Names(before) /\ q \in Nat
    BY <2>2 DEF InMerge, OldHead
  <2>6. Names(lnew) \subseteq Active(before) /\ Names(lnew) \subseteq Names(before)
    BY <1>2, <2>2, <2>4, <2>5, NoNewLeft
  <2>7. PICK n \in Node : /\ n.pid > 0 => n = Head(rest)
                          /\ Name(n) = q /\ (done' = done \/ done' = Append(done, n))
    <3>1. CASE SkipRetired \/ Drop \/ Keep
      <4>1. done' = done \/ done' = Append(done, Head(rest))
        BY <3>1 DEF SkipRetired, Drop, Keep
      <4> QED  BY <2>2, <4>1 DEF OldHead
    <3>2. CASE Retire
      <4> DEFINE m == [Head(rest) EXCEPT !.pid = -@]
      <4>1. done' = Append(done, m) /\ lnew # <<>> /\ Head(lnew).pid < Head(rest).pid
        BY <3>2 DEF Retire, Merging
      <4>2. Head(rest).pid > 0
        BY <1>3, <2>3, <4>1 DEF NewHead
      <4>3. m \in Node /\ Name(m) = q
        BY <2>2, NameRetired DEF OldHead
      <4>4. ~(m.pid > 0)
        BY <2>2, <2>3, <4>2 DEF OldHead, Node
      <4> HIDE DEF m
      <4> QED  BY <4>1, <4>3, <4>4
    <3>3. CASE DropRest
      <4> DEFINE m == [Head(rest) EXCEPT !.pid = -Abs(@)]
      <4>1. done' = Append(done, m) \/ done' = done
        BY <3>3 DEF DropRest
      <4>2. m \in Node /\ Name(m) = q
        BY <2>2, NameRetired DEF OldHead
      <4>3. ~(m.pid > 0)
        <5>1. Abs(Head(rest).pid) \in Nat
          BY <2>2, NodeName DEF OldHead, Name
        <5>2. m.pid = -Abs(Head(rest).pid)
          BY <2>2 DEF OldHead, Node
        <5> QED  BY <5>1, <5>2
      <4> HIDE DEF m
      <4> QED  BY <4>1, <4>2, <4>3
    <3> QED  BY <1>12, <3>1, <3>2, <3>3
  <2>8. lnew # <<>> => Names(Tail(lnew)) = Names(lnew) \ {p}
    BY <1>3 DEF NewHead
  <2>9. LinkedMerge'
    BY <1>1, <2>1, <2>2, <2>5, <2>6, <2>7, <2>8, LinkedOld
  <2>10. Known' \subseteq Known
    <3>1. Names(done') \subseteq Names(done) \cup {q}
      <4>1. Names(Append(done, n)) = Names(done) \cup {Name(n)}
        BY <1>1, NamesAppend
      <4> QED  BY <2>7, <4>1
    <3>2. q \in Names(rest) /\ Names(rest') \subseteq Names(rest) /\ Names(lnew') \subseteq Names(lnew)
      BY <2>1, <2>2, <2>8 DEF OldHead
    <3> HIDE DEF q
    <3> QED  BY <3>1, <3>2 DEF Known
  <2>11. Grown'
    BY <1>1, <1>2, <2>1, <2>2, <2>10, GrownMerge
  <2> QED  BY <2>1, <2>9, <2>11, LinkedInvMerge
<1>13. CASE StartAppend
  <2>1. /\ phase = "merge" /\ phase' = "append" /\ rest = <<>>
        /\ UNCHANGED <<dir, live, done, rest, lnew, found, before>>
    BY <1>13 DEF StartAppend, env
  <2>2. LinkedMerge'
    <3>1. LinkedMerge
      BY <1>2, <2>1
    <3> QED  BY <2>1, <3>1 DEF LinkedMerge, NoneBack, Linked, Met, Young
  <2>3. Grown'
    BY <1>2, <2>1 DEF Grown, Known, Young
  <2> QED  BY <2>1, <2>2, <2>3, LinkedInvMerge
<1>14. CASE EndMerge \/ EndAppend
  <2>1. /\ phase \in {"merge", "append"} /\ phase' = "unlocked" /\ lnew = <<>> /\ rest = <<>>
        /\ UNCHANGED <<dir, live, done, rest, lnew, found, before>>
    BY <1>1, <1>14 DEF EndMerge, EndAppend, env
  <2>2. InMerge /\ LinkedMerge /\ Names(lnew) = {}
    BY <1>2, <2>1, EmptyViews
  <2>3. Active(done) = found /\ found \subseteq Met
    BY <2>2 DEF InMerge, Met
  <2>4. Linked(done, Pids, Active(done))
    <3>1. Linked(done, Pids \ Names(before), found) /\ Linked(done, Names(before), found)
      BY <2>2, <2>3, LinkedLess DEF LinkedMerge
    <3> QED  BY <2>3, <3>1 DEF Linked
  <2>5. Grown'
    BY <1>2, <2>1, <2>3 DEF Grown, Known, Young
  <2> QED  BY <2>1, <2>4, <2>5 DEF LinkedInv, Linked
<1>15. CASE Regroup
  <2>1. phase = "unlocked" /\ phase' = "idle" /\ UNCHANGED <<dir, live, done, rest, lnew, found>>
    BY <1>15 DEF Regroup, env, list
  <2> QED  BY <1>2, <2>1 DEF LinkedInv, Linked, Settled, Grown, Known, Young
<1>16. CASE \E c \in Containers : DockerRemove(c)
  <2>1. PICK c \in Containers : DockerRemove(c)
    BY <1>16
  <2>2. \A i \in DOMAIN done : ContidAddress(done[i]) # Fresh
    BY <1>1, NodeName DEF ContidAddress, Fresh
  <2>3. phase = "idle" /\ phase' = "rescan" /\ UNCHANGED <<dir, live, done, rest, lnew, found>>
    BY <2>1, <2>2 DEF DockerRemove, env
  <2> QED  BY <1>2, <2>3 DEF LinkedInv, Linked, Settled, Grown, Known, Young
<1> QED
  BY <1>5, <1>6, <1>7, <1>8, <1>9, <1>10, <1>11, <1>12, <1>13, <1>14, <1>15, <1>16 DEF Next, Scan

(* If PIDs are looked up in the CGroup tree and the kernel has not wrapped *)
(* its PIDs yet, two active PIDs of one container always know of each      *)
(* other between two scans, for any containers and any processes, although *)
(* setPidResources() looks for siblings in a list that is being merged and *)
(* only from nhead on.                                                     *)
THEOREM SiblingsAlways ==
  ASSUME GrowingPids, Detection = "cgroup"
  PROVE  Spec => []SiblingsMarked
<1>1. Init => MergeInv /\ HeadIInv /\ RefInv /\ LinkedInv
  <2> SUFFICES ASSUME Init PROVE HeadIInv /\ RefInv /\ LinkedInv
    BY MergeInvInit
  <2>1. HeadIInv
    BY DEF Init, HeadIInv
  <2>2. RefInv
    BY EmptyViews DEF Init, RefInv, Retired
  <2>3. LinkedInv
    BY LinkedEmpty DEF Init, LinkedInv, Grown
  <2> QED  BY <2>1, <2>2, <2>3
<1>2. MergeInv /\ HeadIInv /\ RefInv /\ LinkedInv /\ [Next]_vars
      => MergeInv' /\ HeadIInv' /\ RefInv' /\ LinkedInv'
  BY MergeInvStep, HeadIInvStep, RefInvStep, LinkedInvStep DEF Mapped
<1>3. MergeInv /\ LinkedInv => SiblingsMarked
  <2> SUFFICES ASSUME MergeInv, LinkedInv, phase = "idle", NEW i \in DOMAIN done,
                      done[i].pid > 0, Siblings(done[i].pid, Active(done)) # {}
               PROVE  done[i].sibl = 1
    BY DEF SiblingsMarked
  <2>1. Linked(done, Pids, Active(done)) /\ done[i] \in Nodes(done)
    BY DEF LinkedInv, Settled, Nodes
  <2>2. done[i] \in Node
    BY DEF MergeInv, Halves
  <2> QED  BY <2>1, <2>2, NameIsPid DEF Linked
<1> QED  BY <1>1, <1>2, <1>3, PTL DEF Spec
=============================================================================
