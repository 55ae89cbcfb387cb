----------------------------- MODULE GraphProofs -----------------------------
(***************************************************************************)
(* The graph of a function, whatever program it comes from: every          *)
(* operation of core.c that builds it, and the ones opt.c takes it apart   *)
(* with, keep the use lists in step with the inputs and each node in the   *)
(* shape of its kind.                                                      *)
(***************************************************************************)
EXTENDS Lowering, FiniteSetTheorems, SequenceTheorems, WellFoundedInduction, TLAPS

-----------------------------------------------------------------------------
\* Numbers, and functions made step by step.

(* A set of numbers has a least one.                                      *)
LEMMA LeastNumber ==
  ASSUME NEW S \in SUBSET Nat, S # {}
  PROVE  \E x \in S : \A y \in S : x <= y
<1>1. PICK x \in S : \A y \in S : ~(<<y, x>> \in OpToRel(<, Nat))
  BY WFMin, NatLessThanWellFounded
<1>2. ASSUME NEW y \in S
      PROVE  x <= y
  <2>1. x \in Nat /\ y \in Nat
    OBVIOUS
  <2>2. <<y, x>> \in Nat \X Nat /\ <<y, x>>[1] = y /\ <<y, x>>[2] = x
    BY <2>1
  <2>3. ~(y < x)
    BY <1>1, <2>2 DEF OpToRel
  <2> QED
    BY <2>1, <2>3
<1> QED
  BY <1>2

(* Induction, of a set of numbers.                                         *)
LEMMA SetInduction ==
  ASSUME NEW S, 0 \in S, \A n \in Nat : n \in S => n + 1 \in S
  PROVE  \A n \in Nat : n \in S
<1> SUFFICES ASSUME Nat \ S # {} PROVE FALSE
  OBVIOUS
<1>1. PICK x \in Nat \ S : \A y \in Nat \ S : x <= y
  BY LeastNumber
<1>2. x \in Nat /\ x \notin S /\ x # 0
  BY <1>1
<1>3. x - 1 \in Nat /\ x - 1 < x /\ x = (x - 1) + 1
  BY <1>2
<1>4. x - 1 \in S
  BY <1>1, <1>2, <1>3
<1> QED
  BY <1>2, <1>3, <1>4

(* A function defined step by step over 0..N has its defining equation.    *)
Steps(N, b, step) == CHOOSE g : g = [k \in 0..N |-> IF k = 0 THEN b ELSE step[g[k - 1]]]

(* A function given by its first value and a step has these values.        *)
LEMMA StepByStep ==
  ASSUME NEW N \in Nat, NEW b, NEW step
  PROVE  /\ DOMAIN Steps(N, b, step) = 0..N /\ Steps(N, b, step)[0] = b
         /\ \A k \in 1..N : Steps(N, b, step)[k] = step[Steps(N, b, step)[k - 1]]
<1> DEFINE Is(n, g) == g = [k \in 0..n |-> IF k = 0 THEN b ELSE step[g[k - 1]]]
           S == {n \in Nat : \E g : Is(n, g)}
<1>1. 0 \in S
  <2> DEFINE g == [k \in 0..0 |-> b]
  <2>1. Is(0, g)
    OBVIOUS
  <2> QED
    BY <2>1
<1>2. ASSUME NEW n \in Nat, n \in S PROVE n + 1 \in S
  <2>1. PICK g : Is(n, g)
    BY <1>2
  <2> DEFINE h == [k \in 0..(n + 1) |-> IF k = n + 1 THEN step[g[n]] ELSE g[k]]
  <2>2. \A k \in 0..(n + 1) : h[k] = IF k = 0 THEN b ELSE step[h[k - 1]]
    <3> TAKE k \in 0..(n + 1)
    <3>1. CASE k = n + 1
      <4>1. h[n] = g[n] /\ k # 0 /\ k - 1 = n
        BY <3>1
      <4> QED
        BY <3>1, <4>1
    <3>2. CASE k # n + 1
      <4>1. k \in 0..n /\ h[k] = g[k]
        BY <3>2
      <4>2. g[k] = IF k = 0 THEN b ELSE step[g[k - 1]]
        BY <2>1, <4>1
      <4>3. k # 0 => k - 1 \in 0..(n + 1) /\ k - 1 # n + 1
        BY <4>1
      <4>4. k # 0 => h[k - 1] = g[k - 1]
        BY <4>3
      <4> QED
        BY <4>1, <4>2, <4>4
    <3> QED
      BY <3>1, <3>2
  <2>3. Is(n + 1, h)
    <3>1. h = [k \in 0..(n + 1) |-> h[k]]
      OBVIOUS
    <3> HIDE DEF h
    <3> QED
      BY <2>2, <3>1
  <2> HIDE DEF h, Is
  <2>4. \E e : Is(n + 1, e)
    BY <2>3
  <2> QED
    BY <2>4
<1> HIDE DEF S
<1>3. N \in S
  BY <1>1, <1>2, SetInduction
<1>4. \E g : Is(N, g)
  BY <1>3 DEF S
<1>5. Is(N, CHOOSE g : Is(N, g))
  BY <1>4
<1> DEFINE g == CHOOSE g : Is(N, g)
<1>6. g = [k \in 0..N |-> IF k = 0 THEN b ELSE step[g[k - 1]]]
  BY <1>5
<1>7. DOMAIN g = 0..N /\ g[0] = b /\ \A k \in 1..N : g[k] = step[g[k - 1]]
  <2> HIDE DEF g
  <2>1. \A k \in 1..N : k \in 0..N /\ k # 0
    OBVIOUS
  <2> QED
    BY <1>6, <2>1
<1> QED
  BY <1>7 DEF Steps

-----------------------------------------------------------------------------
\* Entries picked from a sequence.

(* How many places of a set come before a place and with it.               *)
Rank(at, i) == Cardinality({j \in at : j <= i})

(* The members of a set of places are numbered without gaps from 1.        *)
LEMMA RanksCount ==
  ASSUME NEW N \in Nat, NEW at \in SUBSET (1..N)
  PROVE  /\ Cardinality(at) \in Nat
         /\ \A i \in at : Rank(at, i) \in 1..Cardinality(at)
         /\ \A i, j \in at : Rank(at, i) = Rank(at, j) => i = j
         /\ \A k \in 1..Cardinality(at) : \E i \in at : Rank(at, i) = k
<1> DEFINE upto(i) == {j \in at : j <= i}
           m == Cardinality(at)
<1>1. IsFiniteSet(at) /\ m \in Nat
  <2>1. IsFiniteSet(1..N)
    BY FS_Interval
  <2>2. IsFiniteSet(at)
    BY <2>1, FS_Subset
  <2> QED
    BY <2>2, FS_CardinalityType
<1>2. \A i \in at : IsFiniteSet(upto(i)) /\ Cardinality(upto(i)) \in 1..m /\ i \in upto(i)
  <2> TAKE i \in at
  <2>1. upto(i) \subseteq at /\ i \in upto(i)
    OBVIOUS
  <2> HIDE DEF upto
  <2>2. IsFiniteSet(upto(i)) /\ Cardinality(upto(i)) <= m
    BY <1>1, <2>1, FS_Subset
  <2>3. Cardinality(upto(i)) \in Nat /\ Cardinality(upto(i)) # 0
    BY <2>1, <2>2, FS_CardinalityType, FS_EmptySet
  <2> QED
    BY <1>1, <2>1, <2>2, <2>3
<1>3. \A i, j \in at : i < j => Cardinality(upto(i)) < Cardinality(upto(j))
  <2> SUFFICES ASSUME NEW i \in at, NEW j \in at, i < j
               PROVE  Cardinality(upto(i)) < Cardinality(upto(j))
    OBVIOUS
  <2>1. upto(i) \subseteq upto(j) /\ j \notin upto(i)
    <3>1. i \in Nat /\ j \in Nat /\ \A x \in at : x \in Nat
      OBVIOUS
    <3>2. ~(j <= i) /\ \A x \in Nat : x <= i => x <= j
      BY <3>1
    <3> QED
      BY <3>1, <3>2
  <2> HIDE DEF upto
  <2>2. upto(i) # upto(j)
    BY <1>2, <2>1
  <2>3. /\ Cardinality(upto(i)) <= Cardinality(upto(j))
        /\ Cardinality(upto(i)) # Cardinality(upto(j))
    BY <1>2, <2>1, <2>2, FS_Subset
  <2>4. Cardinality(upto(i)) \in 1..m /\ Cardinality(upto(j)) \in 1..m
    BY <1>2
  <2> HIDE DEF m
  <2> QED
    BY <1>1, <2>3, <2>4
<1>4. \A i, j \in at : Rank(at, i) = Rank(at, j) => i = j
  <2> SUFFICES ASSUME NEW i \in at, NEW j \in at, Rank(at, i) = Rank(at, j), i # j
               PROVE  FALSE
    OBVIOUS
  <2>1. i < j \/ j < i
    OBVIOUS
  <2>2. Cardinality(upto(i)) = Cardinality(upto(j)) /\ Cardinality(upto(i)) \in 1..m
    BY <1>2 DEF Rank
  <2> HIDE DEF upto, m
  <2> QED
    BY <1>1, <1>3, <2>1, <2>2
<1>5. \A k \in 1..m : \E i \in at : Rank(at, i) = k
  <2> DEFINE r == [i \in at |-> Rank(at, i)]
  <2>1. r \in [at -> 1..m] /\ \A i \in at : r[i] = Rank(at, i)
    BY <1>2 DEF Rank
  <2> HIDE DEF r
  <2>2. r \in Injection(at, 1..m)
    BY <1>4, <2>1 DEF Injection, IsInjective
  <2>3. IsFiniteSet(1..m) /\ Cardinality(1..m) = m
    BY <1>1, FS_Interval
  <2>4. r \in Surjection(at, 1..m)
    BY <2>2, <2>3, FS_Injection
  <2> QED
    BY <2>1, <2>4 DEF Surjection
<1> QED
  BY <1>1, <1>2, <1>4, <1>5 DEF Rank

(* t has what s has at the places in at, each place once.                  *)
PickedBy(m, p, t, s, at) ==
  /\ m \in Nat /\ p \in [1..m -> at]
  /\ t = [k \in 1..m |-> s[p[k]]]
  /\ \A k, l \in 1..m : p[k] = p[l] => k = l
  /\ \A i \in at : \E k \in 1..m : p[k] = i

(* Picked lists the chosen places of a sequence, each once.                *)
LEMMA PickedIs ==
  ASSUME NEW N \in Nat, NEW at \in SUBSET (1..N), NEW s
  PROVE  \E m, p : PickedBy(m, p, Picked(s, at), s, at)
<1> DEFINE m == Cardinality(at)
           p == [k \in 1..m |-> CHOOSE i \in at : Rank(at, i) = k]
<1>1. /\ m \in Nat
      /\ \A i \in at : Rank(at, i) \in 1..m
      /\ \A i, j \in at : Rank(at, i) = Rank(at, j) => i = j
      /\ \A k \in 1..m : \E i \in at : Rank(at, i) = k
  BY RanksCount
<1>2. Picked(s, at) = [k \in 1..m |-> s[p[k]]]
  <2>1. at \in SUBSET Int
    OBVIOUS
  <2>2. Picked(s, at) = [k \in 1..m |-> s[CHOOSE i \in at : Rank(at, i) = k]]
    BY <2>1, Zenon DEF Picked, Rank
  <2> QED
    BY <2>2
<1>3. \A k \in 1..m : p[k] \in at /\ Rank(at, p[k]) = k
  BY <1>1
<1>4. p \in [1..m -> at]
  BY <1>3
<1> HIDE DEF m, p
<1>5. \A k, l \in 1..m : p[k] = p[l] => k = l
  BY <1>3
<1>6. \A i \in at : \E k \in 1..m : p[k] = i
  BY <1>1, <1>3
<1>7. PickedBy(m, p, Picked(s, at), s, at)
  BY <1>1, <1>2, <1>4, <1>5, <1>6 DEF PickedBy
<1> QED
  BY <1>7

\* As a sequence.
LEMMA PickedSeq ==
  ASSUME NEW S, NEW s \in Seq(S), NEW at \in SUBSET DOMAIN s
  PROVE  /\ Picked(s, at) \in Seq(S)
         /\ \A k \in DOMAIN Picked(s, at) : \E i \in at : Picked(s, at)[k] = s[i]
         /\ \A i \in at : \E k \in DOMAIN Picked(s, at) : Picked(s, at)[k] = s[i]
         /\ (\A i, j \in at : s[i] = s[j] => i = j) =>
              \A k, l \in DOMAIN Picked(s, at) :
                Picked(s, at)[k] = Picked(s, at)[l] => k = l
<1>0. Len(s) \in Nat /\ DOMAIN s = 1..Len(s) /\ \A i \in DOMAIN s : s[i] \in S
  OBVIOUS
<1>1. PICK m, p : PickedBy(m, p, Picked(s, at), s, at)
  <2>1. PICK N \in Nat : N = Len(s)
    BY <1>0
  <2>2. at \in SUBSET (1..N)
    BY <1>0, <2>1
  <2> QED
    BY <2>2, PickedIs
<1> DEFINE t == Picked(s, at)
<1>2. DOMAIN t = 1..m /\ \A k \in 1..m : p[k] \in at /\ t[k] = s[p[k]] /\ s[p[k]] \in S
  BY <1>0, <1>1 DEF PickedBy
<1>3. t \in Seq(S)
  <2>1. t = [k \in 1..m |-> s[p[k]]] /\ m \in Nat
    BY <1>1 DEF PickedBy
  <2> HIDE DEF t
  <2> QED
    BY <1>2, <2>1
<1> HIDE DEF t
<1>4. \A k \in DOMAIN t : \E i \in at : t[k] = s[i]
  BY <1>2
<1>5. \A i \in at : \E k \in DOMAIN t : t[k] = s[i]
  BY <1>1, <1>2 DEF PickedBy
<1>6. (\A i, j \in at : s[i] = s[j] => i = j) =>
              \A k, l \in DOMAIN t : t[k] = t[l] => k = l
  BY <1>1, <1>2 DEF PickedBy
<1> QED
  BY <1>3, <1>4, <1>5, <1>6 DEF t

-----------------------------------------------------------------------------
\* Sequences as sets, and what a walk leaves of a node's inputs.

(* The elements of a sequence, and whether each is there once.             *)
LEMMA ToSetIs ==
  ASSUME NEW S, NEW s \in Seq(S)
  PROVE  /\ ToSet(s) \subseteq S
         /\ \A x : x \in ToSet(s) <=> \E i \in DOMAIN s : s[i] = x
BY DEF ToSet

Once(s) == \A i, j \in DOMAIN s : s[i] = s[j] => i = j

(* Fresh gives, each once, the nodes of a list that were not visited: the  *)
(* loop of the walk at core.c:473.                                         *)
LEMMA FreshIs ==
  ASSUME NEW S, NEW nodes \in Seq(S), NEW visited
  PROVE  /\ Fresh(nodes, visited) \in Seq(S)
         /\ ToSet(Fresh(nodes, visited)) = ToSet(nodes) \ visited
         /\ Once(Fresh(nodes, visited))
<1> DEFINE at == {i \in DOMAIN nodes : /\ nodes[i] \notin visited
                                       /\ \A j \in 1..(i - 1) : nodes[j] # nodes[i]}
           t == Fresh(nodes, visited)
<1>0. Len(nodes) \in Nat /\ DOMAIN nodes = 1..Len(nodes)
  OBVIOUS
<1>1. t = Picked(nodes, at) /\ at \in SUBSET DOMAIN nodes
  BY DEF Fresh
<1>2. \A i, j \in at : nodes[i] = nodes[j] => i = j
  <2> SUFFICES ASSUME NEW i \in at, NEW j \in at, nodes[i] = nodes[j], i # j
               PROVE  FALSE
    OBVIOUS
  <2>1. i \in Nat /\ j \in Nat /\ i >= 1 /\ j >= 1
    BY <1>0
  <2>2. i \in 1..(j - 1) \/ j \in 1..(i - 1)
    BY <2>1
  <2> QED
    BY <2>2
<1>3. \A x \in ToSet(nodes) \ visited : \E i \in at : nodes[i] = x
  <2> TAKE x \in ToSet(nodes) \ visited
  <2> DEFINE S0 == {i \in DOMAIN nodes : nodes[i] = x}
  <2>1. S0 \in SUBSET Nat /\ S0 # {}
    BY <1>0, ToSetIs
  <2> HIDE DEF S0
  <2>2. PICK i \in S0 : \A j \in S0 : i <= j
    BY <2>1, LeastNumber
  <2> USE DEF S0
  <2>3. i \in DOMAIN nodes /\ nodes[i] = x /\ i \in Nat /\ i >= 1 /\ i <= Len(nodes)
    BY <1>0, <2>2
  <2>4. ASSUME NEW j \in 1..(i - 1)
        PROVE  nodes[j] # nodes[i]
    <3>1. j \in DOMAIN nodes /\ ~(i <= j)
      BY <1>0, <2>3
    <3> QED
      BY <2>2, <2>3, <3>1
  <2>5. i \in at
    BY <2>3, <2>4
  <2> QED
    BY <2>3, <2>5
<1>4. \A i \in at : nodes[i] \in ToSet(nodes) \ visited
  BY ToSetIs
<1> HIDE DEF at, t
<1>5. /\ t \in Seq(S)
      /\ \A k \in DOMAIN t : \E i \in at : t[k] = nodes[i]
      /\ \A i \in at : \E k \in DOMAIN t : t[k] = nodes[i]
      /\ \A k, l \in DOMAIN t : t[k] = t[l] => k = l
  BY <1>1, <1>2, PickedSeq
<1>6. ToSet(t) = ToSet(nodes) \ visited
  BY <1>3, <1>4, <1>5 DEF ToSet
<1> QED
  BY <1>5, <1>6 DEF t, Once

-----------------------------------------------------------------------------
(* A set with END that no step of a walk leaves.                           *)
IsClosed(f, next, C) == f.end \in C /\ \A n \in C \cap Ids(f) : ToSet(next[n]) \subseteq C

(* What holds of a walk after k turns: order and stack have each node that *)
(* was met once, and what the nodes in order lead to was met.              *)
Walked(f, next, k, s) ==
  /\ s \in Walking /\ s.order \in Seq(Ids(f)) /\ s.stack \in Seq(Ids(f))
  /\ Once(s.order) /\ Once(s.stack) /\ ToSet(s.order) \cap ToSet(s.stack) = {}
  /\ s.visited = ToSet(s.order) \cup ToSet(s.stack)
  /\ f.end \in s.visited
  /\ \A n \in ToSet(s.order) : ToSet(next[n]) \subseteq s.visited
  /\ s.stack = <<>> \/ Len(s.order) = k

Turned(s, nodes) ==
  [order |-> Append(s.order, Last(s.stack)), stack |-> Front(s.stack) \o Fresh(nodes, s.visited),
   visited |-> s.visited \cup ToSet(Fresh(nodes, s.visited))]

(* A stack without its last element, and with more after that.             *)
LEMMA FrontIs ==
  ASSUME NEW S, NEW s \in Seq(S), s # <<>>
  PROVE  /\ Last(s) \in S /\ Front(s) \in Seq(S)
         /\ Len(s) \in Nat \ {0} /\ DOMAIN s = 1..Len(s)
         /\ Len(Front(s)) = Len(s) - 1
         /\ Last(s) = s[Len(s)]
         /\ DOMAIN Front(s) = 1..(Len(s) - 1)
         /\ \A i \in 1..(Len(s) - 1) : Front(s)[i] = s[i]
<1>1. Len(s) \in Nat \ {0} /\ DOMAIN s = 1..Len(s) /\ \A i \in 1..Len(s) : s[i] \in S
  BY EmptySeq, LenProperties
<1>2. Last(s) \in S /\ Last(s) = s[Len(s)]
  BY <1>1 DEF Last
<1>3. /\ Front(s) \in Seq(S) /\ Len(Front(s)) = Len(s) - 1
      /\ \A i \in 1..(Len(s) - 1) : Front(s)[i] = s[i]
  <2>1. Front(s) = SubSeq(s, 1, Len(s) - 1)
    BY DEF Front
  <2>2. \A i \in 1..(Len(s) - 1) : s[i] \in S
    BY <1>1
  <2> QED
    BY <1>1, <2>1, <2>2
<1>4. DOMAIN Front(s) = 1..(Len(s) - 1)
  BY <1>3, LenProperties
<1> QED
  BY <1>1, <1>2, <1>3, <1>4

-----------------------------------------------------------------------------
\* Ends of sequences.

(* What is in a sequence, but for its last element.                        *)
LEMMA FrontOf ==
  ASSUME NEW S, NEW s \in Seq(S), s # <<>>
  PROVE  /\ ToSet(s) = ToSet(Front(s)) \cup {Last(s)}
         /\ Once(s) => Once(Front(s)) /\ Last(s) \notin ToSet(Front(s))
<1>1. /\ Len(s) \in Nat \ {0} /\ DOMAIN s = 1..Len(s) /\ Last(s) = s[Len(s)]
      /\ DOMAIN Front(s) = 1..(Len(s) - 1)
      /\ \A i \in 1..(Len(s) - 1) : Front(s)[i] = s[i]
  BY FrontIs
<1>2. 1..Len(s) = 1..(Len(s) - 1) \cup {Len(s)} /\ Len(s) \notin 1..(Len(s) - 1)
  BY <1>1
<1> QED
  BY <1>1, <1>2 DEF ToSet, Once

(* What is in two sequences joined, and when each is in it once.           *)
LEMMA ConcatOf ==
  ASSUME NEW S, NEW s \in Seq(S), NEW t \in Seq(S)
  PROVE  /\ s \o t \in Seq(S)
         /\ ToSet(s \o t) = ToSet(s) \cup ToSet(t)
         /\ Once(s) /\ Once(t) /\ ToSet(s) \cap ToSet(t) = {} => Once(s \o t)
<1> DEFINE r == s \o t
<1>1. /\ Len(s) \in Nat /\ Len(t) \in Nat /\ DOMAIN s = 1..Len(s) /\ DOMAIN t = 1..Len(t)
      /\ r \in Seq(S) /\ DOMAIN r = 1..(Len(s) + Len(t))
      /\ \A i \in 1..(Len(s) + Len(t)) : r[i] = IF i <= Len(s) THEN s[i] ELSE t[i - Len(s)]
  BY ConcatProperties, LenProperties
<1> HIDE DEF r
<1>2. \A i \in DOMAIN s : i \in DOMAIN r /\ r[i] = s[i]
  BY <1>1
<1>3. \A i \in DOMAIN t : Len(s) + i \in DOMAIN r /\ r[Len(s) + i] = t[i]
  BY <1>1
<1>4. \A i \in DOMAIN r : \/ i \in DOMAIN s /\ r[i] = s[i]
                          \/ i - Len(s) \in DOMAIN t /\ r[i] = t[i - Len(s)]
  BY <1>1
<1>5. ToSet(r) = ToSet(s) \cup ToSet(t)
  BY <1>2, <1>3, <1>4 DEF ToSet
<1>6. ASSUME Once(s), Once(t), ToSet(s) \cap ToSet(t) = {}
      PROVE  Once(r)
  <2> SUFFICES ASSUME NEW i \in DOMAIN r, NEW j \in DOMAIN r, r[i] = r[j]
               PROVE  i = j
    BY DEF Once
  <2>1. /\ i \in DOMAIN s => r[i] \in ToSet(s)
        /\ j \in DOMAIN s => r[j] \in ToSet(s)
    BY <1>2 DEF ToSet
  <2>2. /\ i - Len(s) \in DOMAIN t => r[i] \in ToSet(t)
        /\ j - Len(s) \in DOMAIN t => r[j] \in ToSet(t)
    <3>1. i \in Nat /\ j \in Nat /\ Len(s) \in Nat
      BY <1>1
    <3>2. Len(s) + (i - Len(s)) = i /\ Len(s) + (j - Len(s)) = j
      BY <3>1
    <3> QED
      BY <1>3, <3>2 DEF ToSet
  <2>3. CASE i \in DOMAIN s /\ j \in DOMAIN s
    BY <1>2, <1>6, <2>3 DEF Once
  <2>4. CASE i - Len(s) \in DOMAIN t /\ j - Len(s) \in DOMAIN t
    <3>1. i - Len(s) = j - Len(s)
      <4>1. t[i - Len(s)] = t[j - Len(s)]
        <5>1. i \in Nat /\ j \in Nat /\ Len(s) \in Nat
          BY <1>1
        <5>2. Len(s) + (i - Len(s)) = i /\ Len(s) + (j - Len(s)) = j
          BY <5>1
        <5> QED
          BY <1>3, <2>4, <5>2
      <4> QED
        BY <1>6, <2>4, <4>1 DEF Once
    <3>2. i \in Nat /\ j \in Nat /\ Len(s) \in Nat
      BY <1>1
    <3> QED
      BY <3>1, <3>2
  <2> QED
    BY <1>4, <1>6, <2>1, <2>2, <2>3, <2>4
<1> QED
  BY <1>1, <1>5, <1>6 DEF r

(* What is in a sequence with one more element.                            *)
LEMMA AppendOf ==
  ASSUME NEW S, NEW s \in Seq(S), NEW e \in S
  PROVE  /\ Append(s, e) \in Seq(S) /\ Len(Append(s, e)) = Len(s) + 1
         /\ ToSet(Append(s, e)) = ToSet(s) \cup {e}
         /\ Once(s) /\ e \notin ToSet(s) => Once(Append(s, e))
<1> DEFINE t == Append(s, e)
<1>1. /\ Len(s) \in Nat /\ DOMAIN s = 1..Len(s)
      /\ t \in Seq(S) /\ Len(t) = Len(s) + 1 /\ DOMAIN t = 1..(Len(s) + 1)
      /\ t[Len(s) + 1] = e /\ \A i \in 1..Len(s) : t[i] = s[i]
  BY AppendProperties, LenProperties
<1>2. 1..(Len(s) + 1) = 1..Len(s) \cup {Len(s) + 1}
  BY <1>1
<1> HIDE DEF t
<1>3. ToSet(t) = ToSet(s) \cup {e}
  BY <1>1, <1>2 DEF ToSet
<1>4. ASSUME Once(s), e \notin ToSet(s) PROVE Once(t)
  BY <1>1, <1>2, <1>4 DEF Once, ToSet
<1> QED
  BY <1>1, <1>3, <1>4 DEF t

-----------------------------------------------------------------------------
\* A walk over the graph, turn by turn.

\* The graphs and edges that may be walked.
Walkable(f, next) == /\ f.next_id \in Nat /\ f.end \in Ids(f)
                     /\ next \in [Ids(f) -> Seq(Ids(f))]

(* The walk starts at the end node, and with nothing outside of a closed   *)
(* set (core.c:443).                                                       *)
LEMMA WalkStarts ==
  ASSUME NEW f, NEW next, Walkable(f, next)
  PROVE  /\ Walked(f, next, 0, [order |-> <<>>, stack |-> <<f.end>>, visited |-> {f.end}])
         /\ \A C : IsClosed(f, next, C) => {f.end} \subseteq C
<1> DEFINE N == Ids(f)
           s == [order |-> <<>>, stack |-> <<f.end>>, visited |-> {f.end}]
<1>1. f.end \in N /\ N \subseteq Int
  BY DEF Walkable, Ids
<1> HIDE DEF N
<1>2. <<>> \in Seq(N) /\ <<f.end>> \in Seq(N) /\ <<>> \in Seq(Int) /\ <<f.end>> \in Seq(Int)
      /\ Len(<<>>) = 0
  <2>1. f.end \in Int
    BY <1>1
  <2>2. <<f.end>> \in Seq(N)
    BY <1>1
  <2>3. <<f.end>> \in Seq(Int)
    BY <2>1
  <2> QED
    BY <2>2, <2>3, EmptySeq
<1>3. s \in Walking
  BY <1>1, <1>2 DEF Walking
<1>4. /\ ToSet(<<>>) = {} /\ ToSet(<<f.end>>) = {f.end}
      /\ Once(<<>>) /\ Once(<<f.end>>)
  BY DEF ToSet, Once
<1>5. Walked(f, next, 0, s)
  BY <1>2, <1>3, <1>4 DEF Walked, N
<1> QED
  BY <1>5 DEF IsClosed

(* A turn of the walk puts one node in the order and keeps the rest on the *)
(* stack, inside of any closed set.                                        *)
LEMMA WalkTurns ==
  ASSUME NEW f, NEW next, Walkable(f, next), NEW k \in Nat, NEW s,
         Walked(f, next, k, s), s.stack # <<>>
  PROVE  /\ Walked(f, next, k + 1, Turned(s, next[Last(s.stack)]))
         /\ \A C : IsClosed(f, next, C) /\ s.visited \subseteq C
                     => Turned(s, next[Last(s.stack)]).visited \subseteq C
<1> DEFINE N == Ids(f)
           x == Last(s.stack)
           fresh == Fresh(next[x], s.visited)
           t == Turned(s, next[x])
<1>0. N \subseteq Int
  BY DEF Walkable, Ids
<1>1. /\ s.order \in Seq(N) /\ s.stack \in Seq(N) /\ Once(s.order) /\ Once(s.stack)
      /\ ToSet(s.order) \cap ToSet(s.stack) = {}
      /\ s.visited = ToSet(s.order) \cup ToSet(s.stack)
      /\ f.end \in s.visited /\ Len(s.order) = k
      /\ \A n \in ToSet(s.order) : ToSet(next[n]) \subseteq s.visited
  BY DEF Walked
<1>2. x \in N /\ Front(s.stack) \in Seq(N) /\ next[x] \in Seq(N)
  BY <1>1, FrontIs DEF Walkable
<1>3. /\ fresh \in Seq(N) /\ Once(fresh) /\ ToSet(fresh) = ToSet(next[x]) \ s.visited
  BY <1>2, FreshIs
<1>4. /\ ToSet(s.stack) = ToSet(Front(s.stack)) \cup {x}
      /\ Once(Front(s.stack)) /\ x \notin ToSet(Front(s.stack))
  BY <1>1, FrontOf
<1>5. x \in s.visited /\ x \notin ToSet(s.order)
  BY <1>1, <1>4
<1>6. /\ t.order = Append(s.order, x)
      /\ t.stack = Front(s.stack) \o fresh
      /\ t.visited = s.visited \cup ToSet(fresh)
      /\ t = [order |-> t.order, stack |-> t.stack, visited |-> t.visited]
  BY DEF Turned
<1> HIDE DEF N, x, fresh, t
<1>7. /\ t.order \in Seq(N) /\ Len(t.order) = k + 1 /\ Once(t.order)
      /\ ToSet(t.order) = ToSet(s.order) \cup {x}
  BY <1>1, <1>2, <1>5, <1>6, AppendOf
<1>8. ToSet(Front(s.stack)) \cap ToSet(fresh) = {}
  BY <1>1, <1>3, <1>4
<1>9. /\ t.stack \in Seq(N) /\ Once(t.stack)
      /\ ToSet(t.stack) = ToSet(Front(s.stack)) \cup ToSet(fresh)
  BY <1>2, <1>3, <1>4, <1>6, <1>8, ConcatOf
<1>10. ToSet(t.order) \cap ToSet(t.stack) = {}
  BY <1>1, <1>3, <1>4, <1>5, <1>7, <1>9
<1>11. t.visited = ToSet(t.order) \cup ToSet(t.stack)
  BY <1>1, <1>3, <1>4, <1>6, <1>7, <1>9
<1>12. \A n \in ToSet(t.order) : ToSet(next[n]) \subseteq t.visited
  BY <1>1, <1>3, <1>6, <1>7
<1>13. t \in Walking
  <2>1. ToSet(t.order) \subseteq N /\ ToSet(t.stack) \subseteq N
    BY <1>7, <1>9, ToSetIs
  <2>2. t.order \in Seq(Int) /\ t.stack \in Seq(Int)
    BY <1>0, <1>7, <1>9, SeqMonotonic
  <2>3. t.visited \in SUBSET Int
    BY <1>0, <1>11, <2>1
  <2> QED
    BY <1>6, <2>2, <2>3 DEF Walking
<1>14. f.end \in t.visited
  BY <1>1, <1>6
<1>15. Walked(f, next, k + 1, t)
  BY <1>7, <1>9, <1>10, <1>11, <1>12, <1>13, <1>14 DEF Walked, N
<1>16. ASSUME NEW C, IsClosed(f, next, C), s.visited \subseteq C PROVE t.visited \subseteq C
  BY <1>2, <1>3, <1>5, <1>6, <1>16 DEF IsClosed, N
<1> QED
  BY <1>15, <1>16 DEF t, x

(* A walk that has met all there is has no stack left.                     *)
LEMMA WalkEnds ==
  ASSUME NEW f, NEW next, Walkable(f, next), NEW s, Walked(f, next, f.next_id, s)
  PROVE  s.stack = <<>>
<1> SUFFICES ASSUME s.stack # <<>> PROVE FALSE
  OBVIOUS
<1> DEFINE N == Ids(f)
           m == f.next_id
           o == s.order
<1>1. /\ m \in Nat /\ o \in Seq(N) /\ s.stack \in Seq(N) /\ Once(o)
      /\ ToSet(o) \cap ToSet(s.stack) = {} /\ Len(o) = m
  BY DEF Walked, Walkable
<1>2. Last(s.stack) \in N /\ Last(s.stack) \in ToSet(s.stack)
  BY <1>1, FrontIs, FrontOf
<1>3. IsFiniteSet(N) /\ Cardinality(N) = m
  <2>1. N = 0..(m - 1) /\ m - 1 \in Int /\ (m - 1) - 0 + 1 = m /\ (~(0 <= m - 1) => m = 0)
    BY <1>1 DEF Ids
  <2>2. IsFiniteSet(0..(m - 1)) /\ Cardinality(0..(m - 1)) = IF 0 <= m - 1 THEN (m - 1) - 0 + 1 ELSE 0
    BY <2>1, FS_Interval
  <2> QED
    BY <2>1, <2>2
<1>4. o \in [1..m -> N]
  BY <1>1, LenProperties
<1> HIDE DEF N, m, o
<1>5. o \in Injection(1..m, N)
  BY <1>1, <1>4 DEF Injection, IsInjective, Once
<1>6. IsFiniteSet(1..m) /\ Cardinality(1..m) = m
  BY <1>1, FS_Interval
<1>7. o \in Surjection(1..m, N)
  BY <1>3, <1>5, <1>6, FS_Injection
<1>8. PICK i \in 1..m : o[i] = Last(s.stack)
  BY <1>2, <1>7 DEF Surjection
<1>9. Last(s.stack) \in ToSet(o)
  BY <1>4, <1>8 DEF ToSet
<1> QED
  BY <1>1, <1>2, <1>9

-----------------------------------------------------------------------------
\* What a walk finds.

(* A walk comes to END and to all that its steps lead to, and to nothing   *)
(* else.                                                                   *)
LEMMA WalkIs ==
  ASSUME NEW f, NEW next, Walkable(f, next)
  PROVE  /\ Walk(f, next) \in Seq(Ids(f))
         /\ f.end \in ToSet(Walk(f, next))
         /\ \A n \in ToSet(Walk(f, next)) : ToSet(next[n]) \subseteq ToSet(Walk(f, next))
         /\ \A C : IsClosed(f, next, C) => ToSet(Walk(f, next)) \subseteq C
<1> DEFINE N == f.next_id
           b == [order |-> <<>>, stack |-> <<f.end>>, visited |-> {f.end}]
           turned == [s \in Walking |-> [nodes \in Seq(Int) |-> Turned(s, nodes)]]
           step == [s \in Walking |-> IF s.stack = <<>> THEN s
                                      ELSE turned[s][next[Last(s.stack)]]]
           turn == Steps(N, b, step)
           Ok(k) == /\ Walked(f, next, k, turn[k])
                    /\ \A C : IsClosed(f, next, C) => turn[k].visited \subseteq C
<1>0. N \in Nat
  BY DEF Walkable
<1>1. Walk(f, next) = turn[N].order
  BY Zenon DEF Walk, Steps, Turned
<1>2. turn[0] = b /\ \A k \in 1..N : turn[k] = step[turn[k - 1]]
  <2> HIDE DEF b, step, N
  <2> QED
    BY <1>0, StepByStep
<1>3. \A s \in Walking : step[s] = IF s.stack = <<>> THEN s
                                   ELSE turned[s][next[Last(s.stack)]]
  <2> HIDE DEF turned
  <2> QED
    OBVIOUS
<1>4. \A s \in Walking, nodes \in Seq(Int) : turned[s][nodes] = Turned(s, nodes)
  OBVIOUS
<1> HIDE DEF turn, step, turned
<1>5. Ok(0)
  BY <1>2, WalkStarts
<1>6. ASSUME NEW k \in Nat, k + 1 \in 1..N, Ok(k) PROVE Ok(k + 1)
  <2> DEFINE s == turn[k]
  <2>0. s \in Walking /\ Walked(f, next, k, s)
    BY <1>6 DEF Walked
  <2>1. turn[k + 1] = step[s]
    BY <1>2, <1>6
  <2>2. CASE s.stack = <<>>
    <3>1. turn[k + 1] = s
      BY <1>3, <2>0, <2>1, <2>2
    <3>2. Walked(f, next, k + 1, s)
      BY <2>0, <2>2 DEF Walked
    <3> QED
      BY <1>6, <3>1, <3>2
  <2>3. CASE s.stack # <<>>
    <3> DEFINE x == Last(s.stack)
    <3>1. x \in Ids(f)
      BY <2>0, <2>3, FrontIs DEF Walked
    <3>2. next[x] \in Seq(Int)
      <4>1. next[x] \in Seq(Ids(f)) /\ Ids(f) \subseteq Int
        BY <3>1 DEF Walkable, Ids
      <4> QED
        BY <4>1, SeqMonotonic
    <3>3. turn[k + 1] = Turned(s, next[x])
      BY <1>3, <1>4, <2>0, <2>1, <2>3, <3>2
    <3>4. /\ Walked(f, next, k + 1, Turned(s, next[x]))
          /\ \A C : IsClosed(f, next, C) /\ s.visited \subseteq C
                     => Turned(s, next[x]).visited \subseteq C
      BY <2>0, <2>3, WalkTurns
    <3> HIDE DEF x, s
    <3> QED
      BY <1>6, <3>3, <3>4 DEF s
  <2> QED
    BY <2>2, <2>3
<1> DEFINE S == {k \in Nat : k \in 0..N => Ok(k)}
<1>7. \A k \in Nat : k \in S
  <2>1. 0 \in S
    BY <1>5
  <2>2. ASSUME NEW k \in Nat, k \in S PROVE k + 1 \in S
    <3>1. k + 1 \in 0..N => k \in 0..N /\ k + 1 \in 1..N
      BY <1>0
    <3> HIDE DEF Ok
    <3>2. k + 1 \in 0..N => Ok(k + 1)
      BY <1>6, <2>2, <3>1
    <3> QED
      BY <3>2
  <2> HIDE DEF S
  <2> QED
    BY <2>1, <2>2, SetInduction
<1>8. Ok(N)
  <2> HIDE DEF Ok
  <2>1. N \in 0..N
    BY <1>0
  <2> QED
    BY <1>0, <1>7, <2>1
<1>9. turn[N].stack = <<>>
  BY <1>8, WalkEnds
<1>10. turn[N].visited = ToSet(Walk(f, next))
  <2>1. ToSet(<<>>) = {}
    BY DEF ToSet
  <2> QED
    BY <1>1, <1>8, <1>9, <2>1 DEF Walked
<1> QED
  BY <1>1, <1>8, <1>10 DEF Walked

-----------------------------------------------------------------------------
\* Graphs, and one input set.

Ins(f, n) == f.node[n].ins
Uses(f, n) == f.node[n].uses
Use(n, i) == [node |-> n, index |-> i]

IsNode(N, r) == /\ DOMAIN r = {"kind", "ins", "uses", "flags", "data"}
                /\ r.ins \in Seq(N \cup {Nil})
                /\ r.uses \in Seq([node : N, index : Nat])

IsGraph(f) == /\ DOMAIN f = {"node", "next_id", "start", "end", "allocas"}
              /\ f.next_id \in Nat /\ DOMAIN f.node = Ids(f)
              /\ \A n \in Ids(f) : IsNode(Ids(f), f.node[n])

\* Apart from inputs and uses, g is f.
Alike(f, g) == /\ g.next_id = f.next_id /\ g.start = f.start /\ g.end = f.end
               /\ g.allocas = f.allocas
               /\ \A n \in Ids(f) : /\ g.node[n].kind = f.node[n].kind
                                    /\ g.node[n].flags = f.node[n].flags
                                    /\ g.node[n].data = f.node[n].data

\* The inputs of one node are changed.
LEMMA InsSet ==
  ASSUME NEW f, IsGraph(f), NEW n \in Ids(f), NEW ins \in Seq(Ids(f) \cup {Nil})
  PROVE  LET g == [f EXCEPT !.node[n].ins = ins] IN
         /\ IsGraph(g) /\ Alike(f, g)
         /\ \A m \in Ids(f) : Ins(g, m) = IF m = n THEN ins ELSE Ins(f, m)
         /\ \A m \in Ids(f) : Uses(g, m) = Uses(f, m)
<1> DEFINE g == [f EXCEPT !.node[n].ins = ins]
           r == [f.node[n] EXCEPT !.ins = ins]
<1>1. /\ DOMAIN f = {"node", "next_id", "start", "end", "allocas"}
      /\ f.next_id \in Nat /\ DOMAIN f.node = Ids(f)
      /\ \A m \in Ids(f) : IsNode(Ids(f), f.node[m])
  BY DEF IsGraph
<1>2. /\ DOMAIN r = {"kind", "ins", "uses", "flags", "data"} /\ r.ins = ins
      /\ r.uses = Uses(f, n) /\ r.kind = f.node[n].kind
      /\ r.flags = f.node[n].flags /\ r.data = f.node[n].data
  BY <1>1 DEF IsNode, Uses
<1>3. /\ DOMAIN g = {"node", "next_id", "start", "end", "allocas"}
      /\ g.next_id = f.next_id /\ g.start = f.start /\ g.end = f.end /\ g.allocas = f.allocas
      /\ DOMAIN g.node = Ids(f) /\ g.node[n] = r
      /\ \A m \in Ids(f) : m # n => g.node[m] = f.node[m]
  BY <1>1
<1> HIDE DEF g, r
<1>4. Ids(g) = Ids(f)
  BY <1>3 DEF Ids
<1>5. \A m \in Ids(f) : IsNode(Ids(f), g.node[m])
  BY <1>1, <1>2, <1>3 DEF IsNode, Uses
<1>6. IsGraph(g) /\ Alike(f, g)
  BY <1>1, <1>2, <1>3, <1>4, <1>5 DEF IsGraph, Alike
<1>7. /\ \A m \in Ids(f) : Ins(g, m) = IF m = n THEN ins ELSE Ins(f, m)
      /\ \A m \in Ids(f) : Uses(g, m) = Uses(f, m)
  BY <1>2, <1>3 DEF Ins, Uses
<1> QED
  BY <1>6, <1>7 DEF g

\* The uses of one node are changed.
LEMMA UsesSet ==
  ASSUME NEW f, IsGraph(f), NEW n \in Ids(f),
         NEW uses \in Seq([node : Ids(f), index : Nat])
  PROVE  LET g == [f EXCEPT !.node[n].uses = uses] IN
         /\ IsGraph(g) /\ Alike(f, g)
         /\ \A m \in Ids(f) : Uses(g, m) = IF m = n THEN uses ELSE Uses(f, m)
         /\ \A m \in Ids(f) : Ins(g, m) = Ins(f, m)
<1> DEFINE g == [f EXCEPT !.node[n].uses = uses]
           r == [f.node[n] EXCEPT !.uses = uses]
<1>1. /\ DOMAIN f = {"node", "next_id", "start", "end", "allocas"}
      /\ f.next_id \in Nat /\ DOMAIN f.node = Ids(f)
      /\ \A m \in Ids(f) : IsNode(Ids(f), f.node[m])
  BY DEF IsGraph
<1>2. /\ DOMAIN r = {"kind", "ins", "uses", "flags", "data"} /\ r.uses = uses
      /\ r.ins = Ins(f, n) /\ r.kind = f.node[n].kind
      /\ r.flags = f.node[n].flags /\ r.data = f.node[n].data
  BY <1>1 DEF IsNode, Ins
<1>3. /\ DOMAIN g = {"node", "next_id", "start", "end", "allocas"}
      /\ g.next_id = f.next_id /\ g.start = f.start /\ g.end = f.end /\ g.allocas = f.allocas
      /\ DOMAIN g.node = Ids(f) /\ g.node[n] = r
      /\ \A m \in Ids(f) : m # n => g.node[m] = f.node[m]
  BY <1>1
<1> HIDE DEF g, r
<1>4. Ids(g) = Ids(f)
  BY <1>3 DEF Ids
<1>5. \A m \in Ids(f) : IsNode(Ids(f), g.node[m])
  BY <1>1, <1>2, <1>3 DEF IsNode, Ins
<1>6. IsGraph(g) /\ Alike(f, g)
  BY <1>1, <1>2, <1>3, <1>4, <1>5 DEF IsGraph, Alike
<1>7. /\ \A m \in Ids(f) : Uses(g, m) = IF m = n THEN uses ELSE Uses(f, m)
      /\ \A m \in Ids(f) : Ins(g, m) = Ins(f, m)
  BY <1>2, <1>3 DEF Ins, Uses
<1> QED
  BY <1>6, <1>7 DEF g

(* Graphs that are alike have the same nodes.                              *)
LEMMA AlikeIds ==
  ASSUME NEW f, NEW g, Alike(f, g)
  PROVE  Ids(g) = Ids(f)
BY DEF Alike, Ids

(* Two changes that leave graphs alike do so together.                     *)
LEMMA AlikeAlike ==
  ASSUME NEW f, NEW g, NEW h, Alike(f, g), Alike(g, h)
  PROVE  Alike(f, h)
BY AlikeIds DEF Alike

(* The inputs of a node are nodes or Nil, its uses name nodes and places.  *)
LEMMA NodeTypes ==
  ASSUME NEW f, IsGraph(f), NEW n \in Ids(f)
  PROVE  /\ Ins(f, n) \in Seq(Ids(f) \cup {Nil})
         /\ Len(Ins(f, n)) \in Nat /\ DOMAIN Ins(f, n) = 1..Len(Ins(f, n))
         /\ \A i \in DOMAIN Ins(f, n) : Ins(f, n)[i] \in Ids(f) \cup {Nil} /\ i \in Nat
         /\ Uses(f, n) \in Seq([node : Ids(f), index : Nat])
         /\ Len(Uses(f, n)) \in Nat /\ DOMAIN Uses(f, n) = 1..Len(Uses(f, n))
         /\ \A k \in DOMAIN Uses(f, n) : /\ Uses(f, n)[k].node \in Ids(f)
                                         /\ Uses(f, n)[k].index \in Nat
                                         /\ Uses(f, n)[k] = Use(Uses(f, n)[k].node, Uses(f, n)[k].index)
<1>1. Ins(f, n) \in Seq(Ids(f) \cup {Nil}) /\ Uses(f, n) \in Seq([node : Ids(f), index : Nat])
  BY DEF IsGraph, IsNode, Ins, Uses
<1> DEFINE ins == Ins(f, n)
           uses == Uses(f, n)
           N == Ids(f)
<1> HIDE DEF ins, uses, N
<1>2. /\ Len(ins) \in Nat /\ DOMAIN ins = 1..Len(ins)
      /\ \A i \in DOMAIN ins : ins[i] \in N \cup {Nil} /\ i \in Nat
  BY <1>1 DEF ins, N
<1>3. /\ Len(uses) \in Nat /\ DOMAIN uses = 1..Len(uses)
      /\ \A k \in DOMAIN uses : uses[k] \in [node : N, index : Nat]
  <2> DEFINE T == [node : N, index : Nat]
  <2>1. uses \in Seq(T)
    BY <1>1 DEF uses, N
  <2> HIDE DEF T
  <2>2. /\ Len(uses) \in Nat /\ DOMAIN uses = 1..Len(uses)
        /\ \A k \in DOMAIN uses : uses[k] \in T
    BY <2>1
  <2> QED
    BY <2>2 DEF T
<1>4. \A u \in [node : N, index : Nat] : u.node \in N /\ u.index \in Nat /\ u = Use(u.node, u.index)
  BY DEF Use
<1> QED
  BY <1>1, <1>2, <1>3, <1>4 DEF ins, uses, N

\* A node that is an input has a use more.
LEMMA SetInputIs ==
  ASSUME NEW f, IsGraph(f), NEW n \in Ids(f), NEW input \in Ids(f), NEW i \in DOMAIN Ins(f, n)
  PROVE  LET g == set_input(f, n, input, i) IN
         /\ IsGraph(g) /\ Alike(f, g)
         /\ \A m \in Ids(f) : Ins(g, m) = IF m = n THEN [Ins(f, n) EXCEPT ![i] = input]
                                          ELSE Ins(f, m)
         /\ \A m \in Ids(f) : Uses(g, m) = IF m = input THEN <<Use(n, i)>> \o Uses(f, m)
                                           ELSE Uses(f, m)
<1> DEFINE ins == [Ins(f, n) EXCEPT ![i] = input]
           h == [f EXCEPT !.node[n].ins = ins]
           uses == <<Use(n, i)>> \o Uses(h, input)
           g == [h EXCEPT !.node[input].uses = uses]
<1>1. set_input(f, n, input, i) = g
  <2>1. input # Nil
    BY DEF Ids, Nil
  <2> QED
    BY <2>1, Zenon DEF set_input, Ins, Uses, Use
<1>2. ins \in Seq(Ids(f) \cup {Nil}) /\ i \in Nat
  <2> DEFINE T == Ids(f) \cup {Nil}
             old == Ins(f, n)
  <2>1. old \in Seq(T) /\ DOMAIN old = 1..Len(old) /\ Len(old) \in Nat /\ input \in T
    BY NodeTypes
  <2>2. i \in 1..Len(old) /\ i \in Nat
    BY <2>1
  <2> HIDE DEF T, old
  <2>3. [old EXCEPT ![i] = input] \in Seq(T)
    BY <2>1, <2>2, ExceptSeq
  <2> QED
    BY <2>2, <2>3 DEF T, old
<1> HIDE DEF ins
<1>3. /\ IsGraph(h) /\ Alike(f, h)
      /\ \A m \in Ids(f) : Ins(h, m) = IF m = n THEN ins ELSE Ins(f, m)
      /\ \A m \in Ids(f) : Uses(h, m) = Uses(f, m)
  BY <1>2, InsSet
<1> HIDE DEF h
<1>4. Ids(h) = Ids(f)
  BY <1>3, AlikeIds
<1>5. uses \in Seq([node : Ids(f), index : Nat])
  <2>1. Use(n, i) \in [node : Ids(f), index : Nat]
    BY <1>2 DEF Use
  <2>2. Uses(f, input) \in Seq([node : Ids(f), index : Nat])
    BY NodeTypes
  <2> DEFINE T == [node : Ids(f), index : Nat]
  <2> HIDE DEF T
  <2>3. <<Use(n, i)>> \in Seq(T)
    BY <2>1 DEF T
  <2> QED
    BY <1>3, <2>2, <2>3, ConcatProperties DEF T
<1>6. uses = <<Use(n, i)>> \o Uses(f, input)
  BY <1>3
<1> HIDE DEF uses
<1>7. /\ IsGraph(g) /\ Alike(h, g)
      /\ \A m \in Ids(f) : Ins(g, m) = Ins(h, m)
      /\ \A m \in Ids(f) : Uses(g, m) = IF m = input THEN uses ELSE Uses(h, m)
  <2>1. input \in Ids(h) /\ uses \in Seq([node : Ids(h), index : Nat])
    BY <1>4, <1>5
  <2>2. /\ IsGraph(g) /\ Alike(h, g)
        /\ \A m \in Ids(h) : Ins(g, m) = Ins(h, m)
        /\ \A m \in Ids(h) : Uses(g, m) = IF m = input THEN uses ELSE Uses(h, m)
    BY <1>3, <2>1, UsesSet
  <2> QED
    BY <1>4, <2>2
<1> HIDE DEF g
<1>8. Alike(f, g)
  BY <1>3, <1>7, AlikeAlike
<1> QED
  BY <1>1, <1>3, <1>6, <1>7, <1>8 DEF ins

-----------------------------------------------------------------------------
\* Inputs and uses in step.

UseSet(f, n) == ToSet(Uses(f, n))

(* Among the nodes of H the uses are the inputs, read backwards.           *)
UsesName(f, H) ==
  \A n \in H : \A u \in UseSet(f, n) :
    u.node \in H /\ u.index \in DOMAIN Ins(f, u.node) /\ Ins(f, u.node)[u.index] = n

InsListed(f, H) ==
  \A m \in H : \A i \in DOMAIN Ins(f, m) :
    Ins(f, m)[i] # Nil => Ins(f, m)[i] \in H /\ Use(m, i) \in UseSet(f, Ins(f, m)[i])

Matched(f, H) == /\ H \subseteq Ids(f) /\ UsesName(f, H) /\ InsListed(f, H)
                 /\ \A n \in H : Once(Uses(f, n))

(* Sequences with one domain have one length.                              *)
LEMMA IntervalSame ==
  ASSUME NEW a \in Nat, NEW b \in Nat, 1..a = 1..b
  PROVE  a = b
<1>1. a # 0 => a \in 1..b
  OBVIOUS
<1>2. b # 0 => b \in 1..a
  OBVIOUS
<1> QED
  BY <1>1, <1>2

\* A use more, at the front.
LEMMA UseMore ==
  ASSUME NEW S, NEW s \in Seq(S), NEW u \in S
  PROVE  /\ ToSet(<<u>> \o s) = ToSet(s) \cup {u}
         /\ Once(s) /\ u \notin ToSet(s) => Once(<<u>> \o s)
<1>1. <<u>> \in Seq(S) /\ ToSet(<<u>>) = {u} /\ Once(<<u>>)
  BY DEF ToSet, Once
<1> DEFINE t == <<u>>
<1> HIDE DEF t
<1>2. t \in Seq(S) /\ ToSet(t) = {u} /\ Once(t)
  BY <1>1 DEF t
<1>3. /\ ToSet(t \o s) = ToSet(t) \cup ToSet(s)
      /\ Once(t) /\ Once(s) /\ ToSet(t) \cap ToSet(s) = {} => Once(t \o s)
  BY <1>2, ConcatOf
<1>4. /\ ToSet(t \o s) = ToSet(s) \cup {u}
      /\ Once(s) /\ u \notin ToSet(s) => Once(t \o s)
  BY <1>2, <1>3
<1> QED
  BY <1>4 DEF t

(* What is in the use list of a node.                                      *)
LEMMA UsesAre ==
  ASSUME NEW f, IsGraph(f), NEW n \in Ids(f)
  PROVE  /\ \A u \in UseSet(f, n) : /\ u.node \in Ids(f) /\ u.index \in Nat
                                    /\ u = Use(u.node, u.index)
                                    /\ u \in [node : Ids(f), index : Nat]
<1>1. /\ Uses(f, n) \in Seq([node : Ids(f), index : Nat])
      /\ \A k \in DOMAIN Uses(f, n) : /\ Uses(f, n)[k].node \in Ids(f)
                                         /\ Uses(f, n)[k].index \in Nat
                                         /\ Uses(f, n)[k] = Use(Uses(f, n)[k].node, Uses(f, n)[k].index)
  BY NodeTypes
<1> QED
  BY <1>1 DEF UseSet, ToSet, Use

(* A use is its node and its index.                                        *)
LEMMA UseIs ==
  ASSUME NEW n, NEW i, NEW m, NEW j
  PROVE  /\ Use(n, i).node = n /\ Use(n, i).index = i
         /\ Use(n, i) = Use(m, j) <=> n = m /\ i = j
<1>1. Use(n, i).node = n /\ Use(n, i).index = i /\ Use(m, j).node = m /\ Use(m, j).index = j
  BY DEF Use
<1> QED
  BY <1>1

(* What set_input makes of inputs and uses.                                *)
LEMMA SetInputMakes ==
  ASSUME NEW f, IsGraph(f), NEW n \in Ids(f), NEW input \in Ids(f), NEW i \in DOMAIN Ins(f, n)
  PROVE  LET g == set_input(f, n, input, i) IN
         /\ IsGraph(g) /\ Alike(f, g) /\ Ids(g) = Ids(f)
         /\ \A m \in Ids(f) : /\ DOMAIN Ins(g, m) = DOMAIN Ins(f, m)
                              /\ Len(Ins(g, m)) = Len(Ins(f, m))
                              /\ m # n => Ins(g, m) = Ins(f, m)
         /\ \A m \in Ids(f) : \A j \in DOMAIN Ins(f, m) :
              Ins(g, m)[j] = IF m = n /\ j = i THEN input ELSE Ins(f, m)[j]
         /\ \A m \in Ids(f) : UseSet(g, m) = IF m = input THEN UseSet(f, m) \cup {Use(n, i)}
                                             ELSE UseSet(f, m)
         /\ \A m \in Ids(f) : Once(Uses(f, m)) /\ (m = input => Use(n, i) \notin UseSet(f, m))
                              => Once(Uses(g, m))
<1> DEFINE g == set_input(f, n, input, i)
<1>1. /\ IsGraph(g) /\ Alike(f, g) /\ Ids(g) = Ids(f)
      /\ \A m \in Ids(f) : Ins(g, m) = IF m = n THEN [Ins(f, n) EXCEPT ![i] = input]
                                          ELSE Ins(f, m)
      /\ \A m \in Ids(f) : Uses(g, m) = IF m = input THEN <<Use(n, i)>> \o Uses(f, m)
                                           ELSE Uses(f, m)
  BY SetInputIs, AlikeIds
<1> HIDE DEF g
<1>2. /\ \A m \in Ids(f) : DOMAIN Ins(g, m) = DOMAIN Ins(f, m)
      /\ \A m \in Ids(f) : \A j \in DOMAIN Ins(f, m) :
           Ins(g, m)[j] = IF m = n /\ j = i THEN input ELSE Ins(f, m)[j]
  BY <1>1
<1>3. \A m \in Ids(f) : Len(Ins(g, m)) = Len(Ins(f, m))
  <2> TAKE m \in Ids(f)
  <2>1. /\ Len(Ins(g, m)) \in Nat /\ DOMAIN Ins(g, m) = 1..Len(Ins(g, m))
        /\ Len(Ins(f, m)) \in Nat /\ DOMAIN Ins(f, m) = 1..Len(Ins(f, m))
    BY <1>1, NodeTypes
  <2>2. 1..Len(Ins(g, m)) = 1..Len(Ins(f, m))
    BY <1>2, <2>1
  <2> QED
    BY <2>1, <2>2, IntervalSame
<1>4. /\ ToSet(<<Use(n, i)>> \o Uses(f, input)) = UseSet(f, input) \cup {Use(n, i)}
      /\ Once(Uses(f, input)) /\ Use(n, i) \notin UseSet(f, input)
           => Once(<<Use(n, i)>> \o Uses(f, input))
  <2> DEFINE T == [node : Ids(f), index : Nat]
             s == Uses(f, input)
             u == Use(n, i)
  <2>1. s \in Seq(T) /\ u \in T
    BY NodeTypes DEF Use
  <2> HIDE DEF T, s, u
  <2>2. /\ ToSet(<<u>> \o s) = ToSet(s) \cup {u}
        /\ Once(s) /\ u \notin ToSet(s) => Once(<<u>> \o s)
    BY <2>1, UseMore
  <2> QED
    BY <2>2 DEF s, u, UseSet
<1> QED
  BY <1>1, <1>2, <1>3, <1>4 DEF UseSet, g

(* set_input keeps inputs and uses in step where the input was Nil, as the *)
(* assertion of core.c:28 asks.                                            *)
LEMMA SetInputMatched ==
  ASSUME NEW f, IsGraph(f), NEW H, Matched(f, H), NEW n \in H, NEW input \in H,
         NEW i \in DOMAIN Ins(f, n), Ins(f, n)[i] = Nil
  PROVE  Matched(set_input(f, n, input, i), H)
<1> DEFINE g == set_input(f, n, input, i)
<1>0. n \in Ids(f) /\ input \in Ids(f) /\ H \subseteq Ids(f) /\ input # Nil /\ i \in Nat
  <2>1. n \in Ids(f) /\ input \in Ids(f) /\ H \subseteq Ids(f)
    BY DEF Matched
  <2>2. input # Nil
    BY <2>1 DEF Ids, Nil
  <2> QED
    BY <2>1, <2>2, NodeTypes
<1>3. Use(n, i) \notin UseSet(f, input)
  BY <1>0, UseIs DEF Matched, UsesName
<1>1. /\ Ids(g) = Ids(f)
      /\ \A m \in Ids(f) : UseSet(g, m) = IF m = input THEN UseSet(f, m) \cup {Use(n, i)}
                                          ELSE UseSet(f, m)
      /\ \A m \in Ids(f) : Once(Uses(f, m)) /\ (m = input => Use(n, i) \notin UseSet(f, m))
                              => Once(Uses(g, m))
  BY <1>0, SetInputMakes
<1>2. /\ \A m \in Ids(f) : DOMAIN Ins(g, m) = DOMAIN Ins(f, m)
      /\ \A m \in Ids(f) : \A j \in DOMAIN Ins(f, m) :
           Ins(g, m)[j] = IF m = n /\ j = i THEN input ELSE Ins(f, m)[j]
  BY <1>0, SetInputMakes
<1> HIDE DEF g
<1>4. /\ \A m \in Ids(f) : UseSet(g, m) = IF m = input THEN UseSet(f, m) \cup {Use(n, i)}
                                          ELSE UseSet(f, m)
      /\ \A m \in H : Once(Uses(g, m))
  BY <1>0, <1>1, <1>3 DEF Matched
<1>5. UsesName(g, H)
  <2> SUFFICES ASSUME NEW m \in H, NEW u \in UseSet(g, m)
               PROVE  u.node \in H /\ u.index \in DOMAIN Ins(g, u.node) /\ Ins(g, u.node)[u.index] = m
    BY DEF UsesName
  <2>1. CASE u \in UseSet(f, m)
    <3>1. u.node \in H /\ u.index \in DOMAIN Ins(f, u.node) /\ Ins(f, u.node)[u.index] = m
      BY <2>1 DEF Matched, UsesName
    <3>2. m # Nil
      BY <1>0 DEF Ids, Nil
    <3> QED
      BY <1>0, <1>2, <3>1, <3>2
  <2>2. CASE u = Use(n, i) /\ m = input
    <3>1. u.node = n /\ u.index = i
      BY <2>2, UseIs
    <3> QED
      BY <1>0, <1>2, <2>2, <3>1
  <2> QED
    BY <1>0, <1>4, <2>1, <2>2
<1>6. InsListed(g, H)
  <2> SUFFICES ASSUME NEW m \in H, NEW j \in DOMAIN Ins(g, m), Ins(g, m)[j] # Nil
               PROVE  Ins(g, m)[j] \in H /\ Use(m, j) \in UseSet(g, Ins(g, m)[j])
    BY DEF InsListed
  <2>1. CASE m = n /\ j = i
    BY <1>0, <1>2, <1>4, <2>1
  <2>2. CASE ~(m = n /\ j = i)
    <3>1. Ins(g, m)[j] = Ins(f, m)[j] /\ j \in DOMAIN Ins(f, m)
      BY <1>0, <1>2, <2>2
    <3>2. Ins(f, m)[j] \in H /\ Use(m, j) \in UseSet(f, Ins(f, m)[j])
      BY <3>1 DEF Matched, InsListed
    <3> QED
      BY <1>0, <1>4, <3>1, <3>2
  <2> QED
    BY <2>1, <2>2
<1> QED
  BY <1>0, <1>1, <1>4, <1>5, <1>6 DEF Matched, g

(* The function that set_inputs computes step by step is there.            *)
LEMMA SetInputsSteps ==
  ASSUME NEW f, NEW n, NEW ins, Len(ins) \in Nat
  PROVE  \E g : /\ g[0] = f /\ set_inputs(f, n, ins) = g[Len(ins)]
                /\ \A k \in 1..Len(ins) : g[k] = set_input(g[k - 1], n, ins[k], k)
<1> DEFINE Is(N, g) == g = [i \in 0..N |-> IF i = 0 THEN f ELSE set_input(g[i - 1], n, ins[i], i)]
           S == {N \in Nat : \E g : Is(N, g)}
<1>1. 0 \in S
  <2> DEFINE g == [i \in 0..0 |-> f]
  <2>1. Is(0, g)
    OBVIOUS
  <2> QED
    BY <2>1
<1>2. ASSUME NEW N \in Nat, N \in S PROVE N + 1 \in S
  <2>1. PICK g : Is(N, g)
    BY <1>2
  <2> DEFINE h == [i \in 0..(N + 1) |-> IF i = N + 1 THEN set_input(g[N], n, ins[N + 1], N + 1)
                                        ELSE g[i]]
  <2>2. \A i \in 0..(N + 1) : h[i] = IF i = 0 THEN f ELSE set_input(h[i - 1], n, ins[i], i)
    <3> TAKE i \in 0..(N + 1)
    <3>1. CASE i = N + 1
      <4>1. h[N] = g[N] /\ i # 0 /\ i - 1 = N
        BY <3>1
      <4> QED
        BY <3>1, <4>1
    <3>2. CASE i # N + 1
      <4>1. i \in 0..N /\ h[i] = g[i]
        BY <3>2
      <4>2. g[i] = IF i = 0 THEN f ELSE set_input(g[i - 1], n, ins[i], i)
        BY <2>1, <4>1
      <4>3. i # 0 => i - 1 \in 0..(N + 1) /\ i - 1 # N + 1
        BY <4>1
      <4>4. i # 0 => h[i - 1] = g[i - 1]
        BY <4>3
      <4> QED
        BY <4>1, <4>2, <4>4
    <3> QED
      BY <3>1, <3>2
  <2>3. Is(N + 1, h)
    <3>1. h = [i \in 0..(N + 1) |-> h[i]]
      OBVIOUS
    <3> HIDE DEF h
    <3> QED
      BY <2>2, <3>1
  <2> HIDE DEF h, Is
  <2>4. \E e : Is(N + 1, e)
    BY <2>3
  <2> QED
    BY <2>4
<1> HIDE DEF S
<1>3. Len(ins) \in S
  BY <1>1, <1>2, SetInduction
<1> DEFINE g == CHOOSE g : Is(Len(ins), g)
<1>4. \E e : Is(Len(ins), e)
  BY <1>3 DEF S
<1>5. Is(Len(ins), g)
  BY <1>4
<1>6. set_inputs(f, n, ins) = g[Len(ins)]
  BY Zenon DEF set_inputs
<1> HIDE DEF g
<1>7. \A i \in 0..Len(ins) : g[i] = IF i = 0 THEN f ELSE set_input(g[i - 1], n, ins[i], i)
  BY <1>5
<1>8. g[0] = f /\ \A k \in 1..Len(ins) : g[k] = set_input(g[k - 1], n, ins[k], k)
  BY <1>7
<1> QED
  BY <1>6, <1>8

-----------------------------------------------------------------------------
\* All inputs of a node set.

(* A node without inputs gets them: each has a use more.                   *)
LEMMA SetInputsIs ==
  ASSUME NEW f, IsGraph(f), NEW H, Matched(f, H), NEW n \in H, NEW ins \in Seq(H),
         Len(Ins(f, n)) = Len(ins), \A i \in DOMAIN Ins(f, n) : Ins(f, n)[i] = Nil
  PROVE  LET g == set_inputs(f, n, ins) IN
         /\ IsGraph(g) /\ Alike(f, g) /\ Matched(g, H) /\ Ins(g, n) = ins
         /\ \A m \in Ids(f) : m # n => Ins(g, m) = Ins(f, m)
<1> DEFINE L == Len(ins)
           Ok(k, h) == /\ IsGraph(h) /\ Alike(f, h) /\ Matched(h, H) /\ Len(Ins(h, n)) = L
                       /\ \A i \in 1..L : Ins(h, n)[i] = IF i <= k THEN ins[i] ELSE Nil
                       /\ \A m \in Ids(f) : m # n => Ins(h, m) = Ins(f, m)
<1>0. /\ L \in Nat /\ DOMAIN ins = 1..L /\ \A i \in 1..L : ins[i] \in H
      /\ n \in Ids(f) /\ H \subseteq Ids(f)
  BY DEF Matched
<1>1. PICK g : /\ g[0] = f /\ set_inputs(f, n, ins) = g[L]
               /\ \A k \in 1..L : g[k] = set_input(g[k - 1], n, ins[k], k)
  BY <1>0, SetInputsSteps
<1> DEFINE S == {k \in Nat : k \in 0..L => Ok(k, g[k])}
<1>2. 0 \in S
  <2>1. DOMAIN Ins(f, n) = 1..L
    BY <1>0, NodeTypes
  <2>2. Alike(f, f)
    BY DEF Alike
  <2> QED
    BY <1>1, <2>1, <2>2
<1>3. ASSUME NEW k \in Nat, k \in S PROVE k + 1 \in S
  <2> SUFFICES ASSUME k + 1 \in 0..L PROVE Ok(k + 1, g[k + 1])
    OBVIOUS
  <2> DEFINE h == g[k]
             e == set_input(h, n, ins[k + 1], k + 1)
  <2>0. k \in 0..L /\ k + 1 \in 1..L /\ (k + 1) - 1 = k
    BY <1>0
  <2>1. Ok(k, h)
    BY <1>3, <2>0
  <2>2. g[k + 1] = e
    BY <1>1, <2>0
  <2> HIDE DEF h, S
  <2>3. /\ Ids(h) = Ids(f) /\ n \in Ids(h) /\ DOMAIN Ins(h, n) = 1..L
        /\ ins[k + 1] \in H /\ H \subseteq Ids(h)
    BY <1>0, <2>0, <2>1, AlikeIds, NodeTypes
  <2>4. Ins(h, n)[k + 1] = Nil
    BY <1>0, <2>0, <2>1
  <2> HIDE DEF L
  <2>5. Matched(e, H)
    BY <2>0, <2>1, <2>3, <2>4, SetInputMatched
  <2>6. /\ IsGraph(e) /\ Alike(h, e)
        /\ \A m \in Ids(h) : m # n => Ins(e, m) = Ins(h, m)
        /\ Len(Ins(e, n)) = Len(Ins(h, n)) /\ DOMAIN Ins(e, n) = DOMAIN Ins(h, n)
        /\ \A i \in DOMAIN Ins(h, n) :
             Ins(e, n)[i] = IF i = k + 1 THEN ins[k + 1] ELSE Ins(h, n)[i]
    <3>1. ins[k + 1] \in Ids(h) /\ k + 1 \in DOMAIN Ins(h, n) /\ IsGraph(h) /\ n \in Ids(h)
      BY <2>0, <2>1, <2>3
    <3> QED
      BY <3>1, SetInputMakes
  <2> HIDE DEF e
  <2>7. Alike(f, e) /\ Ids(e) = Ids(f)
    BY <2>1, <2>6, AlikeAlike, AlikeIds
  <2>8. Len(Ins(e, n)) = L /\ DOMAIN Ins(e, n) = 1..L
    BY <2>1, <2>3, <2>6
  <2>9. \A i \in 1..L : Ins(e, n)[i] = IF i <= k + 1 THEN ins[i] ELSE Nil
    <3> TAKE i \in 1..L
    <3>1. Ins(e, n)[i] = IF i = k + 1 THEN ins[k + 1] ELSE Ins(h, n)[i]
      BY <2>3, <2>6
    <3>2. Ins(h, n)[i] = IF i <= k THEN ins[i] ELSE Nil
      BY <2>1
    <3> QED
      BY <1>0, <3>1, <3>2
  <2>10. \A m \in Ids(f) : m # n => Ins(e, m) = Ins(f, m)
    BY <2>1, <2>3, <2>6
  <2> QED
    BY <2>2, <2>5, <2>6, <2>7, <2>8, <2>9, <2>10
<1>4. L \in S
  <2> HIDE DEF S
  <2> QED
    BY <1>0, <1>2, <1>3, SetInduction
<1>5. Ok(L, g[L])
  BY <1>0, <1>4
<1> DEFINE e == g[L]
<1>6. Ins(e, n) = ins
  <2>1. Ins(e, n) \in Seq(Ids(e) \cup {Nil}) /\ Ids(e) = Ids(f)
    BY <1>0, <1>5, NodeTypes, AlikeIds
  <2>2. ins \in Seq(Ids(f) \cup {Nil})
    BY <1>0, SeqMonotonic
  <2>3. \A i \in 1..L : Ins(e, n)[i] = ins[i]
    BY <1>0, <1>5
  <2> DEFINE T == Ids(f) \cup {Nil}
             s == Ins(e, n)
  <2>4. s \in Seq(T) /\ ins \in Seq(T) /\ Len(s) = Len(ins) /\ \A i \in 1..Len(s) : s[i] = ins[i]
    BY <1>5, <2>1, <2>2, <2>3
  <2> HIDE DEF T, s
  <2> QED
    BY <2>4, SeqEqual DEF s
<1> QED
  BY <1>1, <1>5, <1>6

-----------------------------------------------------------------------------
\* New nodes.

(* init_ins makes a list of Nil (core.c:27).                               *)
LEMMA InitInsAre ==
  ASSUME NEW S, Nil \in S, NEW k \in Nat
  PROVE  /\ init_ins(k) \in Seq(S) /\ Len(init_ins(k)) = k /\ DOMAIN init_ins(k) = 1..k
         /\ \A i \in 1..k : init_ins(k)[i] = Nil
<1> DEFINE t == [i \in 1..k |-> Nil]
<1>1. t \in Seq(S) /\ Len(t) = k /\ DOMAIN t = 1..k /\ \A i \in 1..k : t[i] = Nil
  OBVIOUS
<1>2. init_ins(k) = <<>> \o t
  BY DEF init_ins
<1> HIDE DEF t
<1>3. <<>> \o t = t
  BY <1>1, ConcatEmptySeq
<1> QED
  BY <1>1, <1>2, <1>3

\* g is f with the new node n.
Makes(f, g, n, kind, k, data, flags) ==
  /\ IsGraph(g) /\ g.next_id = n + 1 /\ Ids(g) = Ids(f) \cup {n} /\ n \notin Ids(f)
  /\ n \in Nat /\ g.end = f.end /\ g.start = f.start /\ g.allocas = f.allocas
  /\ \A m \in Ids(f) : g.node[m] = f.node[m]
  /\ g.node[n].kind = kind /\ g.node[n].flags = flags /\ g.node[n].data = data
  /\ Len(Ins(g, n)) = k /\ DOMAIN Ins(g, n) = 1..k /\ \A i \in 1..k : Ins(g, n)[i] = Nil
  /\ Uses(g, n) = <<>>

(* new_node adds one node, without uses and with Nil inputs.               *)
LEMMA NodeMade ==
  ASSUME NEW f, IsGraph(f), NEW kind, NEW k \in Nat, NEW data, NEW flags, kind # "START"
  PROVE  Makes(f, new_node(f, kind, k, data, flags), f.next_id, kind, k, data, flags)
<1> DEFINE n == f.next_id
           g == new_node(f, kind, k, data, flags)
           N == Ids(f)
           r == [kind |-> kind, ins |-> init_ins(k), uses |-> <<>>, flags |-> flags, data |-> data]
           d == [m \in DOMAIN f.node \cup {n} |-> IF m \in DOMAIN f.node THEN f.node[m] ELSE r]
<1>1. /\ DOMAIN f = {"node", "next_id", "start", "end", "allocas"}
      /\ n \in Nat /\ DOMAIN f.node = N /\ \A m \in N : IsNode(N, f.node[m])
  BY DEF IsGraph
<1>2. n \notin N /\ N \cup {n} = 0..n /\ \A m \in N : m \in Nat
  BY <1>1 DEF Ids
<1>3. g = [f EXCEPT !.node = d, !.next_id = n + 1,
                    !.start = IF kind = "START" THEN n ELSE f.start]
  BY Zenon DEF new_node
<1> HIDE DEF d, r
<1>4. /\ DOMAIN g = {"node", "next_id", "start", "end", "allocas"}
      /\ g.next_id = n + 1 /\ g.node = d /\ g.end = f.end /\ g.allocas = f.allocas
      /\ g.start = f.start
  BY <1>1, <1>3
<1> HIDE DEF g
<1>5. Ids(g) = N \cup {n}
  BY <1>1, <1>2, <1>4 DEF Ids
<1>6. /\ DOMAIN d = N \cup {n} /\ d[n] = r /\ \A m \in N : d[m] = f.node[m]
  BY <1>1, <1>2 DEF d
<1>7. /\ DOMAIN r = {"kind", "ins", "uses", "flags", "data"} /\ r.kind = kind
      /\ r.ins = init_ins(k) /\ r.uses = <<>> /\ r.flags = flags /\ r.data = data
  BY DEF r
<1> DEFINE M == N \cup {n}
<1>8. IsNode(M, r)
  <2>1. init_ins(k) \in Seq(M \cup {Nil})
    BY InitInsAre
  <2> QED
    BY <1>7, <2>1 DEF IsNode
<1>9. ASSUME NEW m \in N
      PROVE  IsNode(M, f.node[m])
  <2>1. /\ DOMAIN f.node[m] = {"kind", "ins", "uses", "flags", "data"}
        /\ f.node[m].ins \in Seq(N \cup {Nil}) /\ f.node[m].uses \in Seq([node : N, index : Nat])
    BY <1>1 DEF IsNode
  <2>2. N \cup {Nil} \subseteq M \cup {Nil} /\ [node : N, index : Nat] \subseteq [node : M, index : Nat]
    OBVIOUS
  <2> DEFINE A == N \cup {Nil}
             B == M \cup {Nil}
             C == [node : N, index : Nat]
             D == [node : M, index : Nat]
             ins == f.node[m].ins
             uses == f.node[m].uses
  <2>3. ins \in Seq(A) /\ uses \in Seq(C) /\ A \subseteq B /\ C \subseteq D
    BY <2>1, <2>2
  <2> HIDE DEF A, B, C, D, ins, uses
  <2>4. ins \in Seq(B) /\ uses \in Seq(D)
    BY <2>3, SeqMonotonic
  <2> QED
    BY <2>1, <2>4 DEF IsNode, B, D, ins, uses
<1>10. IsGraph(g)
  <2>1. \A m \in M : IsNode(M, d[m])
    BY <1>6, <1>8, <1>9
  <2>2. n + 1 \in Nat
    BY <1>1
  <2> QED
    BY <1>4, <1>5, <1>6, <2>1, <2>2 DEF IsGraph
<1>11. /\ Len(Ins(g, n)) = k /\ DOMAIN Ins(g, n) = 1..k /\ \A i \in 1..k : Ins(g, n)[i] = Nil
       /\ Uses(g, n) = <<>>
  <2>1. Ins(g, n) = init_ins(k) /\ Uses(g, n) = <<>>
    BY <1>4, <1>6, <1>7 DEF Ins, Uses
  <2>2. Nil \in {Nil}
    OBVIOUS
  <2> QED
    BY <2>1, <2>2, InitInsAre
<1> QED
  BY <1>1, <1>2, <1>4, <1>5, <1>6, <1>7, <1>10, <1>11 DEF g, Makes

(* A new node without inputs matches.                                      *)
LEMMA NewNodeMatched ==
  ASSUME NEW f, IsGraph(f), NEW H, Matched(f, H), NEW g, IsGraph(g),
         NEW n, n \notin Ids(f), Ids(g) = Ids(f) \cup {n},
         \A m \in Ids(f) : g.node[m] = f.node[m],
         \A i \in DOMAIN Ins(g, n) : Ins(g, n)[i] = Nil, Uses(g, n) = <<>>
  PROVE  Matched(g, H) /\ Matched(g, H \cup {n})
<1>1. H \subseteq Ids(f) /\ H \subseteq Ids(g) /\ n \notin H
  BY DEF Matched
<1>2. \A m \in H : Ins(g, m) = Ins(f, m) /\ Uses(g, m) = Uses(f, m) /\ UseSet(g, m) = UseSet(f, m)
  BY <1>1 DEF Ins, Uses, UseSet
<1>3. UseSet(g, n) = {} /\ Once(Uses(g, n))
  BY DEF UseSet, ToSet, Once
<1>4. UsesName(g, H) /\ InsListed(g, H) /\ \A m \in H : Once(Uses(g, m))
  BY <1>2 DEF Matched, UsesName, InsListed
<1>5. UsesName(g, H \cup {n}) /\ InsListed(g, H \cup {n})
  BY <1>1, <1>3, <1>4 DEF UsesName, InsListed
<1> QED
  BY <1>1, <1>3, <1>4, <1>5 DEF Matched

(* A node gets its inputs for the first time.                              *)
LEMMA FilledIs ==
  ASSUME NEW f, IsGraph(f), NEW H, Matched(f, H), NEW n \in H, NEW ins \in Seq(H),
         Len(Ins(f, n)) = 0
  PROVE  LET g == Filled(f, n, ins) IN
         /\ IsGraph(g) /\ Alike(f, g) /\ Matched(g, H) /\ Ins(g, n) = ins
         /\ \A m \in Ids(f) : m # n => Ins(g, m) = Ins(f, m)
<1> DEFINE h == [f EXCEPT !.node[n].ins = init_ins(Len(ins))]
           g == set_inputs(h, n, ins)
<1>0. n \in Ids(f) /\ H \subseteq Ids(f) /\ Len(ins) \in Nat
  BY DEF Matched
<1>1. /\ init_ins(Len(ins)) \in Seq(Ids(f) \cup {Nil}) /\ Len(init_ins(Len(ins))) = Len(ins)
      /\ DOMAIN init_ins(Len(ins)) = 1..Len(ins)
      /\ \A i \in 1..Len(ins) : init_ins(Len(ins))[i] = Nil
  <2>1. Nil \in Ids(f) \cup {Nil}
    OBVIOUS
  <2> QED
    BY <1>0, <2>1, InitInsAre
<1>2. /\ IsGraph(h) /\ Alike(f, h)
      /\ \A m \in Ids(f) : Ins(h, m) = IF m = n THEN init_ins(Len(ins)) ELSE Ins(f, m)
      /\ \A m \in Ids(f) : Uses(h, m) = Uses(f, m)
  BY <1>0, <1>1, InsSet
<1> HIDE DEF h
<1>3. Ids(h) = Ids(f)
  BY <1>2, AlikeIds
<1>4. Matched(h, H)
  <2>1. \A m \in H : UseSet(h, m) = UseSet(f, m)
    BY <1>0, <1>2 DEF UseSet
  <2>2. DOMAIN Ins(f, n) = {}
    BY <1>0, NodeTypes
  <2>3. UsesName(h, H)
    <3> SUFFICES ASSUME NEW m \in H, NEW u \in UseSet(f, m)
                 PROVE  u.node \in H /\ u.index \in DOMAIN Ins(h, u.node) /\ Ins(h, u.node)[u.index] = m
      BY <2>1 DEF UsesName
    <3>1. u.node \in H /\ u.index \in DOMAIN Ins(f, u.node) /\ Ins(f, u.node)[u.index] = m
      BY DEF Matched, UsesName
    <3>2. u.node # n
      BY <2>2, <3>1
    <3> QED
      BY <1>0, <1>2, <3>1, <3>2
  <2>4. InsListed(h, H)
    <3> SUFFICES ASSUME NEW m \in H, NEW i \in DOMAIN Ins(h, m), Ins(h, m)[i] # Nil
                 PROVE  Ins(h, m)[i] \in H /\ Use(m, i) \in UseSet(h, Ins(h, m)[i])
      BY DEF InsListed
    <3>1. m # n
      BY <1>0, <1>1, <1>2
    <3>2. Ins(h, m) = Ins(f, m)
      BY <1>0, <1>2, <3>1
    <3>3. Ins(f, m)[i] \in H /\ Use(m, i) \in UseSet(f, Ins(f, m)[i])
      BY <3>2 DEF Matched, InsListed
    <3> QED
      BY <2>1, <3>2, <3>3
  <2> QED
    BY <1>0, <1>2, <1>3, <2>3, <2>4 DEF Matched
<1>5. Len(Ins(h, n)) = Len(ins) /\ \A i \in DOMAIN Ins(h, n) : Ins(h, n)[i] = Nil
  BY <1>0, <1>1, <1>2
<1>6. /\ IsGraph(g) /\ Alike(h, g) /\ Matched(g, H) /\ Ins(g, n) = ins
      /\ \A m \in Ids(h) : m # n => Ins(g, m) = Ins(h, m)
  BY <1>2, <1>4, <1>5, SetInputsIs
<1>7. Filled(f, n, ins) = g
  BY DEF Filled, h
<1> HIDE DEF g
<1>8. Alike(f, g)
  BY <1>2, <1>6, AlikeAlike
<1> QED
  BY <1>0, <1>2, <1>3, <1>6, <1>7, <1>8

-----------------------------------------------------------------------------
\* What is live.

(* What the walk of a graph goes by.                                       *)
LEMMA NextIs ==
  ASSUME NEW f, IsGraph(f), NEW n \in Ids(f)
  PROVE  /\ Inputs(f, n) \in Seq(Ids(f)) /\ Users(f, n) \in Seq(Ids(f))
         /\ ToSet(Inputs(f, n)) = {Ins(f, n)[i] : i \in {j \in DOMAIN Ins(f, n) : Ins(f, n)[j] # Nil}}
         /\ ToSet(Users(f, n)) = {u.node : u \in UseSet(f, n)}
<1> DEFINE ins == Ins(f, n)
           uses == Uses(f, n)
           N == Ids(f)
           at == {i \in DOMAIN ins : ins[i] # Nil}
           p == Picked(ins, at)
           t == [i \in DOMAIN uses |-> uses[i].node]
<1>1. /\ ins \in Seq(N \cup {Nil}) /\ \A i \in DOMAIN ins : ins[i] \in N \cup {Nil}
      /\ Len(uses) \in Nat /\ DOMAIN uses = 1..Len(uses)
      /\ \A k \in DOMAIN uses : uses[k].node \in N
  BY NodeTypes
<1>2. Inputs(f, n) = p /\ Users(f, n) = t
  BY DEF Inputs, Users, Ins, Uses
<1> HIDE DEF ins, uses, N
<1>3. at \in SUBSET DOMAIN ins
  OBVIOUS
<1> HIDE DEF at
<1>4. /\ p \in Seq(N \cup {Nil})
      /\ \A k \in DOMAIN p : \E i \in at : p[k] = ins[i]
      /\ \A i \in at : \E k \in DOMAIN p : p[k] = ins[i]
  <2> DEFINE T == N \cup {Nil}
  <2>1. ins \in Seq(T)
    BY <1>1
  <2> HIDE DEF T
  <2>2. /\ p \in Seq(T)
        /\ \A k \in DOMAIN p : \E i \in at : p[k] = ins[i]
        /\ \A i \in at : \E k \in DOMAIN p : p[k] = ins[i]
    BY <1>3, <2>1, PickedSeq
  <2> QED
    BY <2>2 DEF T
<1>5. \A i \in at : ins[i] \in N
  BY <1>1 DEF at
<1>6. p \in Seq(N)
  <2>1. p \in [1..Len(p) -> N] /\ Len(p) \in Nat
    <3>1. Len(p) \in Nat /\ DOMAIN p = 1..Len(p) /\ p = [k \in 1..Len(p) |-> p[k]]
      BY <1>4
    <3>2. \A k \in 1..Len(p) : p[k] \in N
      BY <1>4, <1>5, <3>1
    <3> HIDE DEF p
    <3> QED
      BY <3>1, <3>2
  <2> HIDE DEF p
  <2> QED
    BY <2>1
<1>7. ToSet(p) = {ins[i] : i \in at}
  BY <1>4 DEF ToSet
<1>8. t \in Seq(N)
  BY <1>1
<1>9. ToSet(t) = {u.node : u \in ToSet(uses)}
  BY DEF ToSet
<1> QED
  BY <1>2, <1>6, <1>7, <1>8, <1>9 DEF UseSet, at, N, ins, uses

(* The nodes a walk comes to: END, all inputs and all users; nothing else  *)
(* when a matched set has END.                                             *)
LEMMA LiveIs ==
  ASSUME NEW f, IsGraph(f), f.end \in Ids(f)
  PROVE  /\ func_walk_unspecified_order(f) \in Seq(Ids(f))
         /\ Live(f) = ToSet(func_walk_unspecified_order(f))
         /\ Live(f) \subseteq Ids(f) /\ f.end \in Live(f)
         /\ \A n \in Live(f) : \A i \in DOMAIN Ins(f, n) :
              Ins(f, n)[i] # Nil => Ins(f, n)[i] \in Live(f)
         /\ \A n \in Live(f) : \A u \in UseSet(f, n) : u.node \in Live(f)
         /\ \A H : Matched(f, H) /\ f.end \in H => Live(f) \subseteq H
<1> DEFINE N == Ids(f)
           next == [n \in N |-> Inputs(f, n) \o Users(f, n)]
           w == Walk(f, next)
<1>1. func_walk_unspecified_order(f) = w /\ Live(f) = ToSet(w)
  BY DEF func_walk_unspecified_order, Live
<1>2. \A n \in N : /\ next[n] \in Seq(N)
                   /\ ToSet(next[n]) = ToSet(Inputs(f, n)) \cup ToSet(Users(f, n))
  <2> TAKE n \in N
  <2>1. Inputs(f, n) \in Seq(N) /\ Users(f, n) \in Seq(N)
    BY NextIs
  <2> HIDE DEF N
  <2> QED
    BY <2>1, ConcatOf
<1>3. \A n \in N : \A x : x \in ToSet(next[n])
                     <=> \/ x # Nil /\ \E i \in DOMAIN Ins(f, n) : x = Ins(f, n)[i]
                         \/ \E u \in UseSet(f, n) : x = u.node
  <2> TAKE n \in N
  <2>1. /\ ToSet(Inputs(f, n)) = {Ins(f, n)[i] : i \in {j \in DOMAIN Ins(f, n) : Ins(f, n)[j] # Nil}}
        /\ ToSet(Users(f, n)) = {u.node : u \in UseSet(f, n)}
    BY NextIs
  <2> HIDE DEF next
  <2> QED
    BY <1>2, <2>1
<1>4. Walkable(f, next)
  <2>1. next \in [N -> Seq(N)]
    <3> HIDE DEF N
    <3> QED
      BY <1>2
  <2> HIDE DEF next
  <2> QED
    BY <2>1 DEF Walkable, IsGraph
<1> HIDE DEF next
<1>5. /\ w \in Seq(N) /\ f.end \in ToSet(w)
      /\ \A n \in ToSet(w) : ToSet(next[n]) \subseteq ToSet(w)
      /\ \A C : IsClosed(f, next, C) => ToSet(w) \subseteq C
  BY <1>4, WalkIs
<1>6. ToSet(w) \subseteq N
  <2> HIDE DEF N, w
  <2> QED
    BY <1>5, ToSetIs
<1> HIDE DEF w
<1>7. ASSUME NEW H, Matched(f, H), f.end \in H PROVE ToSet(w) \subseteq H
  <2>1. H \subseteq N /\ UsesName(f, H) /\ InsListed(f, H)
    BY <1>7 DEF Matched
  <2>2. \A n \in H : ToSet(next[n]) \subseteq H
    BY <1>3, <2>1 DEF UsesName, InsListed
  <2>3. IsClosed(f, next, H)
    BY <1>7, <2>2 DEF IsClosed
  <2> QED
    BY <1>5, <2>3
<1>8. \A n \in ToSet(w) : \A i \in DOMAIN Ins(f, n) :
              Ins(f, n)[i] # Nil => Ins(f, n)[i] \in ToSet(w)
  BY <1>3, <1>5, <1>6
<1>9. \A n \in ToSet(w) : \A u \in UseSet(f, n) : u.node \in ToSet(w)
  BY <1>3, <1>5, <1>6
<1> QED
  BY <1>1, <1>5, <1>6, <1>7, <1>8, <1>9

(* A graph whose nodes are in step is one that UsesMatchIns holds of: the  *)
(* live nodes are among them.                                              *)
LEMMA MatchedMeans ==
  ASSUME NEW f, IsGraph(f), NEW H, Matched(f, H), f.end \in H
  PROVE  UsesMatchIns(f)
<1>1. f.end \in Ids(f)
  BY DEF Matched
<1>2. Live(f) \subseteq H /\ H \subseteq Ids(f)
  BY <1>1, LiveIs DEF Matched
<1>3. \A n \in Live(f) : \A u \in ToSet(f.node[n].uses) :
        u.index \in DOMAIN f.node[u.node].ins /\ In(f, u.node, u.index) = n
  BY <1>2 DEF Matched, UsesName, UseSet, Uses, Ins, In
<1>4. ASSUME NEW n \in Live(f), NEW i \in DOMAIN f.node[n].ins, In(f, n, i) # Nil
      PROVE  Cardinality({k \in DOMAIN f.node[In(f, n, i)].uses :
                        f.node[In(f, n, i)].uses[k] = [node |-> n, index |-> i]}) = 1
  <2> DEFINE x == In(f, n, i)
             B == {k \in DOMAIN Uses(f, x) : Uses(f, x)[k] = Use(n, i)}
  <2>1. x \in H /\ Use(n, i) \in UseSet(f, x)
    BY <1>2, <1>4 DEF Matched, InsListed, In, Ins
  <2>2. PICK k \in DOMAIN Uses(f, x) : Uses(f, x)[k] = Use(n, i)
    BY <2>1 DEF UseSet, ToSet
  <2>3. B = {k}
    BY <2>1, <2>2 DEF Matched, Once
  <2> HIDE DEF B
  <2>4. Cardinality(B) = 1
    BY <2>3, FS_Singleton
  <2> QED
    BY <2>4 DEF B, Uses, Use
<1> QED
  BY <1>3, <1>4 DEF UsesMatchIns

-----------------------------------------------------------------------------
\* One element taken out of a sequence.

(* A sequence without the element at one place.                            *)
LEMMA RemoveAtIs ==
  ASSUME NEW S, NEW s \in Seq(S), NEW k \in 1..Len(s)
  PROVE  /\ RemoveAt(s, k) \in Seq(S) /\ Len(RemoveAt(s, k)) = Len(s) - 1
         /\ DOMAIN RemoveAt(s, k) = 1..(Len(s) - 1)
         /\ \A j \in 1..(Len(s) - 1) : RemoveAt(s, k)[j] = IF j < k THEN s[j] ELSE s[j + 1]
<1> DEFINE N == Len(s)
           a == SubSeq(s, 1, k - 1)
           b == SubSeq(s, k + 1, N)
<1>1. N \in Nat /\ k \in 1..N /\ k - 1 \in 0..N /\ DOMAIN s = 1..N
  OBVIOUS
<1>2. a \in Seq(S) /\ Len(a) = k - 1 /\ \A j \in 1..(k - 1) : a[j] = s[j]
  BY <1>1
<1>3. b \in Seq(S) /\ Len(b) = N - k /\ \A j \in 1..(N - k) : b[j] = s[k + j]
  <2>1. b \in Seq(S)
    BY <1>1
  <2>2. Len(b) = N - k
    <3>1. k + 1 \in 1..(N + 1) /\ N \in k..N
      BY <1>1
    <3>2. k + 1 \in Int /\ N \in Int /\ \A i \in (k + 1)..N : s[i] \in S
      BY <1>1
    <3>3. Len(b) = IF k + 1 <= N THEN N - (k + 1) + 1 ELSE 0
      BY <3>2, SubSeqProperties
    <3> HIDE DEF b, N
    <3> QED
      BY <1>1, <3>3
  <2>3. \A j \in 1..(N - k) : b[j] = s[k + j]
    BY <1>1
  <2> QED
    BY <2>1, <2>2, <2>3
<1>4. RemoveAt(s, k) = a \o b
  BY DEF RemoveAt
<1> HIDE DEF a, b, N
<1>5. /\ a \o b \in Seq(S) /\ Len(a \o b) = N - 1
      /\ \A j \in 1..(N - 1) : (a \o b)[j] = IF j <= k - 1 THEN a[j] ELSE b[j - (k - 1)]
  <2>1. /\ a \o b \in Seq(S) /\ Len(a \o b) = Len(a) + Len(b)
        /\ \A j \in 1..(Len(a) + Len(b)) : (a \o b)[j] = IF j <= Len(a) THEN a[j] ELSE b[j - Len(a)]
    BY <1>2, <1>3, ConcatProperties
  <2>2. Len(a) + Len(b) = N - 1
    BY <1>1, <1>2, <1>3
  <2> QED
    BY <1>2, <2>1, <2>2
<1>6. \A j \in 1..(N - 1) : (a \o b)[j] = IF j < k THEN s[j] ELSE s[j + 1]
  <2> TAKE j \in 1..(N - 1)
  <2>1. CASE j < k
    BY <1>1, <1>2, <1>5, <2>1
  <2>2. CASE ~(j < k)
    <3>1. j - (k - 1) \in 1..(N - k) /\ k + (j - (k - 1)) = j + 1
      BY <1>1, <2>2
    <3> QED
      BY <1>1, <1>3, <1>5, <2>2, <3>1
  <2> QED
    BY <2>1, <2>2
<1>7. DOMAIN (a \o b) = 1..(N - 1)
  BY <1>5
<1> QED
  BY <1>4, <1>5, <1>6, <1>7 DEF N

(* RemoveFirst takes out one element at most.                              *)
LEMMA RemoveFirstAt ==
  ASSUME NEW S, NEW s \in Seq(S), NEW e
  PROVE  \/ e \notin ToSet(s) /\ RemoveFirst(s, e) = s
         \/ \E k \in 1..Len(s) : s[k] = e /\ RemoveFirst(s, e) = RemoveAt(s, k)
<1> DEFINE I == {i \in 1..Len(s) : s[i] = e}
<1>1. CASE I = {}
  <2>1. ~ \E i \in 1..Len(s) : s[i] = e
    BY <1>1
  <2>2. RemoveFirst(s, e) = s
    BY <2>1, Zenon DEF RemoveFirst
  <2>3. e \notin ToSet(s)
    BY <2>1 DEF ToSet
  <2> QED
    BY <2>2, <2>3
<1>2. CASE I # {}
  <2>1. \E i \in 1..Len(s) : s[i] = e
    BY <1>2
  <2>2. I \in SUBSET Nat
    OBVIOUS
  <2>3. \E x \in I : \A y \in I : x <= y
    <3> HIDE DEF I
    <3> QED
      BY <1>2, <2>2, LeastNumber
  <2> DEFINE k == Min(I)
  <2>4. k \in I
    <3> HIDE DEF I
    <3> QED
      BY <2>3 DEF Min
  <2>5. SelectInSeq(s, LAMBDA v : v = e) = k
    BY <1>2, Zenon DEF SelectInSeq
  <2>6. RemoveFirst(s, e) = RemoveAt(s, SelectInSeq(s, LAMBDA v : v = e))
    BY <2>1, Zenon DEF RemoveFirst
  <2> QED
    BY <2>4, <2>5, <2>6
<1> QED
  BY <1>1, <1>2

(* The first occurrence of an element goes off a sequence.                 *)
LEMMA RemoveFirstIs ==
  ASSUME NEW S, NEW s \in Seq(S), NEW e
  PROVE  LET r == RemoveFirst(s, e) IN
         /\ r \in Seq(S) /\ ToSet(r) \subseteq ToSet(s) /\ ToSet(s) \ {e} \subseteq ToSet(r)
         /\ Once(s) => Once(r) /\ e \notin ToSet(r)
         /\ s = <<>> => r = <<>>
<1> DEFINE r == RemoveFirst(s, e)
<1>1. CASE e \notin ToSet(s) /\ r = s
  BY <1>1
<1>2. ASSUME NEW k \in 1..Len(s), s[k] = e, r = RemoveAt(s, k)
      PROVE  /\ r \in Seq(S) /\ ToSet(r) \subseteq ToSet(s) /\ ToSet(s) \ {e} \subseteq ToSet(r)
             /\ Once(s) => Once(r) /\ e \notin ToSet(r)
             /\ s = <<>> => r = <<>>
  <2> HIDE DEF r
  <2> DEFINE N == Len(s)
  <2>1. /\ N \in Nat /\ k \in 1..N /\ DOMAIN s = 1..N /\ r \in Seq(S)
        /\ DOMAIN r = 1..(N - 1) /\ \A j \in 1..(N - 1) : r[j] = IF j < k THEN s[j] ELSE s[j + 1]
    <3>1. N \in Nat /\ k \in 1..N /\ DOMAIN s = 1..N
      OBVIOUS
    <3>2. /\ RemoveAt(s, k) \in Seq(S) /\ DOMAIN RemoveAt(s, k) = 1..(N - 1)
          /\ \A j \in 1..(N - 1) : RemoveAt(s, k)[j] = IF j < k THEN s[j] ELSE s[j + 1]
      BY RemoveAtIs
    <3> QED
      BY <1>2, <3>1, <3>2
  <2> HIDE DEF N
  <2>2. ToSet(r) \subseteq ToSet(s)
    <3>1. ASSUME NEW j \in 1..(N - 1) PROVE \E i \in 1..N : r[j] = s[i]
      <4>1. j \in 1..N /\ j + 1 \in 1..N
        BY <2>1
      <4> QED
        BY <2>1, <4>1
    <3>2. \A j \in DOMAIN r : \E i \in DOMAIN s : r[j] = s[i]
      BY <2>1, <3>1
    <3> QED
      BY <3>2 DEF ToSet
  <2>3. ToSet(s) \ {e} \subseteq ToSet(r)
    <3> SUFFICES ASSUME NEW i \in 1..N, s[i] # e PROVE \E j \in 1..(N - 1) : r[j] = s[i]
      BY <2>1 DEF ToSet
    <3>1. CASE i < k
      <4>1. i \in 1..(N - 1)
        BY <2>1, <3>1
      <4> QED
        BY <2>1, <3>1, <4>1
    <3>2. CASE i > k
      <4>1. i - 1 \in 1..(N - 1) /\ ~(i - 1 < k) /\ (i - 1) + 1 = i
        BY <2>1, <3>2
      <4> QED
        BY <2>1, <4>1
    <3>3. i # k
      BY <1>2
    <3> QED
      BY <2>1, <3>1, <3>2, <3>3
  <2>4. ASSUME Once(s) PROVE Once(r) /\ e \notin ToSet(r)
    <3> DEFINE p(j) == IF j < k THEN j ELSE j + 1
    <3>1. \A j \in 1..(N - 1) : p(j) \in 1..N /\ p(j) # k /\ r[j] = s[p(j)]
      BY <2>1
    <3>2. \A i, j \in 1..(N - 1) : p(i) = p(j) => i = j
      BY <2>1
    <3> HIDE DEF p
    <3>3. Once(r)
      BY <2>1, <2>4, <3>1, <3>2 DEF Once
    <3>4. e \notin ToSet(r)
      BY <1>2, <2>1, <2>4, <3>1 DEF Once, ToSet
    <3> QED
      BY <3>3, <3>4
  <2>5. s # <<>>
    BY <2>1 DEF N
  <2> QED
    BY <2>1, <2>2, <2>3, <2>4, <2>5
<1>3. \/ e \notin ToSet(s) /\ r = s
      \/ \E k \in 1..Len(s) : s[k] = e /\ r = RemoveAt(s, k)
  BY RemoveFirstAt
<1> QED
  BY <1>1, <1>2, <1>3

-----------------------------------------------------------------------------
\* A node's uses taken out of its inputs.

(* An input of a node loses the use by that node.                          *)
LEMMA RemoveUseIs ==
  ASSUME NEW f, IsGraph(f), NEW n \in Ids(f), NEW i \in DOMAIN Ins(f, n)
  PROVE  LET g == find_and_remove_use(f, n, i) IN
         /\ IsGraph(g) /\ Alike(f, g) /\ Ids(g) = Ids(f)
         /\ \A m \in Ids(f) : Ins(g, m) = Ins(f, m)
         /\ \A m \in Ids(f) : /\ UseSet(g, m) \subseteq UseSet(f, m)
                              /\ UseSet(f, m) \ {Use(n, i)} \subseteq UseSet(g, m)
                              /\ Uses(f, m) = <<>> => Uses(g, m) = <<>>
                              /\ Once(Uses(f, m)) =>
                                   Once(Uses(g, m)) /\ (m = Ins(f, n)[i] => Use(n, i) \notin UseSet(g, m))
<1> DEFINE x == Ins(f, n)[i]
           u == Use(n, i)
           r == RemoveFirst(Uses(f, x), u)
           g == find_and_remove_use(f, n, i)
           h == [f EXCEPT !.node[x].uses = r]
<1>0. x \in Ids(f) \cup {Nil}
  BY NodeTypes
<1>1. CASE x = Nil
  <2>1. g = f
    BY <1>1 DEF find_and_remove_use, In, Ins
  <2>2. \A m \in Ids(f) : m # x
    BY <1>1 DEF Ids, Nil
  <2> HIDE DEF g, x
  <2>3. Alike(f, f)
    BY DEF Alike
  <2> QED
    BY <2>1, <2>2, <2>3 DEF x, g
<1>2. CASE x # Nil
  <2>0. x \in Ids(f)
    BY <1>0, <1>2
  <2>1. g = h
    BY <1>2, Zenon DEF find_and_remove_use, In, Ins, Uses, Use
  <2>2. /\ r \in Seq([node : Ids(f), index : Nat])
        /\ ToSet(r) \subseteq UseSet(f, x) /\ UseSet(f, x) \ {u} \subseteq ToSet(r)
        /\ Once(Uses(f, x)) => Once(r) /\ u \notin ToSet(r)
        /\ Uses(f, x) = <<>> => r = <<>>
    <3> DEFINE T == [node : Ids(f), index : Nat]
               s == Uses(f, x)
    <3>1. s \in Seq(T)
      BY <2>0, NodeTypes
    <3> HIDE DEF T, s, u
    <3>2. LET q == RemoveFirst(s, u) IN
          /\ q \in Seq(T) /\ ToSet(q) \subseteq ToSet(s) /\ ToSet(s) \ {u} \subseteq ToSet(q)
          /\ Once(s) => Once(q) /\ u \notin ToSet(q)
          /\ s = <<>> => q = <<>>
      BY <3>1, RemoveFirstIs
    <3> QED
      BY <3>2 DEF s, T, UseSet
  <2> HIDE DEF r, x, g
  <2>3. /\ IsGraph(h) /\ Alike(f, h)
        /\ \A m \in Ids(f) : Uses(h, m) = IF m = x THEN r ELSE Uses(f, m)
        /\ \A m \in Ids(f) : Ins(h, m) = Ins(f, m)
    BY <2>0, <2>2, UsesSet
  <2> HIDE DEF h
  <2>4. Ids(h) = Ids(f)
    BY <2>3, AlikeIds
  <2>5. ASSUME NEW m \in Ids(f)
        PROVE /\ UseSet(h, m) \subseteq UseSet(f, m)
              /\ UseSet(f, m) \ {u} \subseteq UseSet(h, m)
              /\ Uses(f, m) = <<>> => Uses(h, m) = <<>>
              /\ Once(Uses(f, m)) => Once(Uses(h, m)) /\ (m = x => u \notin UseSet(h, m))
    BY <2>2, <2>3 DEF UseSet
  <2> QED
    BY <2>1, <2>3, <2>4, <2>5 DEF x, g
<1> QED
  BY <1>1, <1>2

(* The function that remove_node computes step by step is there.           *)
Removal(f, n) ==
  LET after[i \in 0..Len(f.node[n].ins)] ==
        IF i = 0 THEN f ELSE find_and_remove_use(after[i - 1], n, i)
  IN after

(* remove_node takes the uses of a node out of its inputs one after the    *)
(* other (opt.c:290).                                                      *)
LEMMA RemovalSteps ==
  ASSUME NEW f, NEW n, Len(Ins(f, n)) \in Nat
  PROVE  /\ Removal(f, n)[0] = f
         /\ \A k \in 1..Len(Ins(f, n)) :
              Removal(f, n)[k] = find_and_remove_use(Removal(f, n)[k - 1], n, k)
<1> DEFINE L == Len(f.node[n].ins)
           Is(N, g) == g = [i \in 0..N |-> IF i = 0 THEN f ELSE find_and_remove_use(g[i - 1], n, i)]
           S == {N \in Nat : \E g : Is(N, g)}
<1>0. L \in Nat /\ L = Len(Ins(f, n))
  BY DEF Ins
<1>1. 0 \in S
  <2> DEFINE g == [i \in 0..0 |-> f]
  <2>1. Is(0, g)
    OBVIOUS
  <2> QED
    BY <2>1
<1>2. ASSUME NEW N \in Nat, N \in S PROVE N + 1 \in S
  <2>1. PICK g : Is(N, g)
    BY <1>2
  <2> DEFINE h == [i \in 0..(N + 1) |-> IF i = N + 1 THEN find_and_remove_use(g[N], n, N + 1)
                                        ELSE g[i]]
  <2>2. \A i \in 0..(N + 1) : h[i] = IF i = 0 THEN f ELSE find_and_remove_use(h[i - 1], n, i)
    <3> TAKE i \in 0..(N + 1)
    <3>1. CASE i = N + 1
      <4>1. h[N] = g[N] /\ i # 0 /\ i - 1 = N
        BY <3>1
      <4> QED
        BY <3>1, <4>1
    <3>2. CASE i # N + 1
      <4>1. i \in 0..N /\ h[i] = g[i]
        BY <3>2
      <4>2. g[i] = IF i = 0 THEN f ELSE find_and_remove_use(g[i - 1], n, i)
        BY <2>1, <4>1
      <4>3. i # 0 => i - 1 \in 0..(N + 1) /\ i - 1 # N + 1
        BY <4>1
      <4>4. i # 0 => h[i - 1] = g[i - 1]
        BY <4>3
      <4> QED
        BY <4>1, <4>2, <4>4
    <3> QED
      BY <3>1, <3>2
  <2>3. Is(N + 1, h)
    <3>1. h = [i \in 0..(N + 1) |-> h[i]]
      OBVIOUS
    <3> HIDE DEF h
    <3> QED
      BY <2>2, <3>1
  <2> HIDE DEF h, Is
  <2>4. \E e : Is(N + 1, e)
    BY <2>3
  <2> QED
    BY <2>4
<1> HIDE DEF S
<1>3. L \in S
  BY <1>0, <1>1, <1>2, SetInduction
<1> DEFINE g == CHOOSE g : Is(L, g)
<1>4. \E e : Is(L, e)
  BY <1>3 DEF S
<1>5. Is(L, g)
  BY <1>4
<1>6. Removal(f, n) = g
  BY Zenon DEF Removal
<1> HIDE DEF g, L
<1>7. \A i \in 0..L : g[i] = IF i = 0 THEN f ELSE find_and_remove_use(g[i - 1], n, i)
  BY <1>5
<1>8. g[0] = f /\ \A k \in 1..L : g[k] = find_and_remove_use(g[k - 1], n, k)
  BY <1>0, <1>7
<1> QED
  BY <1>0, <1>6, <1>8

(* A node goes off the lists of all its inputs.                            *)
LEMMA RemovalIs ==
  ASSUME NEW f, IsGraph(f), NEW n \in Ids(f)
  PROVE  LET L == Len(Ins(f, n))
             g == Removal(f, n)[L] IN
         /\ IsGraph(g) /\ Alike(f, g) /\ Ids(g) = Ids(f)
         /\ \A m \in Ids(f) : Ins(g, m) = Ins(f, m)
         /\ \A m \in Ids(f) :
              /\ UseSet(g, m) \subseteq UseSet(f, m)
              /\ \A u \in UseSet(f, m) : u.node # n => u \in UseSet(g, m)
              /\ Uses(f, m) = <<>> => Uses(g, m) = <<>>
              /\ \A k \in 0..L : Uses(Removal(f, n)[k], m) = <<>> => Uses(g, m) = <<>>
              /\ Once(Uses(f, m)) =>
                   /\ Once(Uses(g, m))
                   /\ \A i \in 1..L : m = Ins(f, n)[i] => Use(n, i) \notin UseSet(g, m)
<1> DEFINE L == Len(Ins(f, n))
           a == Removal(f, n)
           Same(k) == /\ IsGraph(a[k]) /\ Alike(f, a[k]) /\ Ids(a[k]) = Ids(f)
                      /\ \A m \in Ids(f) : Ins(a[k], m) = Ins(f, m)
           Less(k, m) ==
              /\ UseSet(a[k], m) \subseteq UseSet(f, m)
              /\ \A u \in UseSet(f, m) : u.node # n => u \in UseSet(a[k], m)
              /\ \A j \in 0..k : Uses(a[j], m) = <<>> => Uses(a[k], m) = <<>>
              /\ Once(Uses(f, m)) =>
                   /\ Once(Uses(a[k], m))
                   /\ \A i \in 1..k : m = Ins(f, n)[i] => Use(n, i) \notin UseSet(a[k], m)
           S == {k \in Nat : k \in 0..L => Same(k) /\ \A m \in Ids(f) : Less(k, m)}
<1>0. L \in Nat /\ DOMAIN Ins(f, n) = 1..L
  BY NodeTypes
<1>1. a[0] = f /\ \A k \in 1..L : a[k] = find_and_remove_use(a[k - 1], n, k)
  BY <1>0, RemovalSteps
<1> HIDE DEF L, a
<1>2. 0 \in S
  <2>1. Alike(f, f)
    BY DEF Alike
  <2> QED
    BY <1>1, <2>1
<1>3. ASSUME NEW k \in Nat, k \in S PROVE k + 1 \in S
  <2> SUFFICES ASSUME k + 1 \in 0..L PROVE Same(k + 1) /\ \A m \in Ids(f) : Less(k + 1, m)
    OBVIOUS
  <2>1. k \in 0..L /\ k + 1 \in 1..L /\ (k + 1) - 1 = k
    BY <1>0
  <2>2. Same(k) /\ \A m \in Ids(f) : Less(k, m)
    BY <1>3, <2>1
  <2> HIDE DEF S
  <2>3. a[k + 1] = find_and_remove_use(a[k], n, k + 1)
    BY <1>1, <2>1
  <2> DEFINE h == a[k]
             g == a[k + 1]
  <2>4. IsGraph(h) /\ n \in Ids(h) /\ k + 1 \in DOMAIN Ins(h, n) /\ Ids(h) = Ids(f) /\ Ins(h, n) = Ins(f, n)
    BY <1>0, <2>1, <2>2
  <2>5. /\ IsGraph(g) /\ Alike(h, g) /\ Ids(g) = Ids(h)
        /\ \A m \in Ids(h) : Ins(g, m) = Ins(h, m)
        /\ \A m \in Ids(h) :
             /\ UseSet(g, m) \subseteq UseSet(h, m)
             /\ UseSet(h, m) \ {Use(n, k + 1)} \subseteq UseSet(g, m)
             /\ Uses(h, m) = <<>> => Uses(g, m) = <<>>
             /\ Once(Uses(h, m)) =>
                  Once(Uses(g, m)) /\ (m = Ins(h, n)[k + 1] => Use(n, k + 1) \notin UseSet(g, m))
    BY <2>3, <2>4, RemoveUseIs
  <2>6. Alike(f, g)
    BY <2>2, <2>5, AlikeAlike
  <2> HIDE DEF h, g
  <2>7. Same(k + 1)
    BY <2>2, <2>5, <2>6 DEF g, h
  <2>8. ASSUME NEW m \in Ids(f) PROVE Less(k + 1, m)
    <3>1. /\ UseSet(h, m) \subseteq UseSet(f, m)
          /\ \A u \in UseSet(f, m) : u.node # n => u \in UseSet(h, m)
          /\ \A j \in 0..k : Uses(a[j], m) = <<>> => Uses(h, m) = <<>>
          /\ Once(Uses(f, m)) =>
               /\ Once(Uses(h, m))
               /\ \A i \in 1..k : m = Ins(f, n)[i] => Use(n, i) \notin UseSet(h, m)
      BY <2>2 DEF h
    <3> DEFINE x == Ins(f, n)[k + 1]
               u == Use(n, k + 1)
    <3>0. /\ UseSet(g, m) \subseteq UseSet(h, m)
          /\ UseSet(h, m) \ {u} \subseteq UseSet(g, m)
          /\ Uses(h, m) = <<>> => Uses(g, m) = <<>>
          /\ Once(Uses(h, m)) => Once(Uses(g, m)) /\ (m = x => u \notin UseSet(g, m))
      <4>1. m \in Ids(h) /\ x = Ins(h, n)[k + 1]
        BY <2>4
      <4>2. /\ UseSet(g, m) \subseteq UseSet(h, m)
            /\ UseSet(h, m) \ {Use(n, k + 1)} \subseteq UseSet(g, m)
            /\ Uses(h, m) = <<>> => Uses(g, m) = <<>>
            /\ Once(Uses(h, m)) => Once(Uses(g, m)) /\ (m = Ins(h, n)[k + 1] => Use(n, k + 1) \notin UseSet(g, m))
        BY <2>5, <4>1, Zenon
      <4> HIDE DEF x
      <4> QED
        BY <4>1, <4>2, Zenon
    <3>00. u.node = n
      BY UseIs
    <3>2. UseSet(g, m) \subseteq UseSet(f, m)
      BY <3>0, <3>1
    <3>3. \A v \in UseSet(f, m) : v.node # n => v \in UseSet(g, m)
      <4> HIDE DEF u
      <4> QED
        BY <3>0, <3>00, <3>1
    <3>4. \A j \in 0..(k + 1) : Uses(a[j], m) = <<>> => Uses(g, m) = <<>>
      <4> TAKE j \in 0..(k + 1)
      <4>1. j \in 0..k \/ j = k + 1
        OBVIOUS
      <4>2. j = k + 1 => a[j] = g
        BY DEF g
      <4> QED
        BY <3>0, <3>1, <4>1, <4>2
    <3>5. Once(Uses(f, m)) =>
             /\ Once(Uses(g, m))
             /\ \A i \in 1..(k + 1) : m = Ins(f, n)[i] => Use(n, i) \notin UseSet(g, m)
      <4>1. \A i \in 1..(k + 1) : i \in 1..k \/ i = k + 1
        OBVIOUS
      <4> QED
        BY <3>0, <3>1, <4>1
    <3> QED
      BY <3>2, <3>3, <3>4, <3>5 DEF g
  <2> QED
    BY <2>7, <2>8
<1>4. L \in S
  <2> HIDE DEF S
  <2> QED
    BY <1>0, <1>2, <1>3, SetInduction
<1>5. Same(L) /\ \A m \in Ids(f) : Less(L, m)
  BY <1>0, <1>4
<1>6. \A m \in Ids(f) : Uses(f, m) = <<>> => Uses(a[L], m) = <<>>
  BY <1>0, <1>1, <1>5
<1> QED
  BY <1>5, <1>6 DEF L, a

-----------------------------------------------------------------------------
\* Graphs that are held: in step, and each node in its shape.

(* END is one node, and no node's input.                                   *)
OneEnd(f) == \A n \in Ids(f) : /\ Kind(f, n) = "END" <=> n = f.end
                               /\ \A i \in DOMAIN Ins(f, n) : Ins(f, n)[i] # f.end

(* How many inputs a node has, where the passes count on it; a phi that    *)
(* has none yet has been made and not filled.                              *)
Shaped(f, n) ==
  /\ \A i \in DOMAIN Ins(f, n) : Ins(f, n)[i] # Nil
  /\ Kind(f, n) = "LOAD" => Len(Ins(f, n)) = 3
  /\ Kind(f, n) = "STORE" => Len(Ins(f, n)) = 4
  /\ Kind(f, n) = "REGION" => Len(Ins(f, n)) > 0
  /\ Kind(f, n) = "PHI" /\ Len(Ins(f, n)) # 0 =>
       /\ Kind(f, Ins(f, n)[1]) = "REGION"
       /\ Len(Ins(f, n)) = Len(Ins(f, Ins(f, n)[1])) + 1

(* The nodes of H are the graph: what was made and not removed.            *)
Held(f, H) == /\ IsGraph(f) /\ Matched(f, H) /\ f.end \in H /\ OneEnd(f)
              /\ \A n \in H : Shaped(f, n)

(* Where s may take the place of t: a region of a phi stays a region with  *)
(* as many inputs.                                                         *)
Stands(f, t, s) ==
  Kind(f, t) = "REGION" =>
    \/ Kind(f, s) = "REGION" /\ Len(Ins(f, s)) = Len(Ins(f, t))
    \/ \A u \in UseSet(f, t) : Kind(f, u.node) # "PHI"

(* The inputs of a held node are held, and the end node is none of them.   *)
LEMMA InputsAre ==
  ASSUME NEW f, NEW H, Held(f, H), NEW n \in H
  PROVE  /\ n \in Ids(f) /\ Ins(f, n) \in Seq(H \ {f.end})
         /\ Len(Ins(f, n)) \in Nat /\ DOMAIN Ins(f, n) = 1..Len(Ins(f, n))
         /\ \A i \in 1..Len(Ins(f, n)) : Ins(f, n)[i] \in H /\ Ins(f, n)[i] # f.end
<1>1. /\ n \in Ids(f) /\ IsGraph(f) /\ Matched(f, H) /\ Shaped(f, n) /\ OneEnd(f)
  BY DEF Held, Matched
<1>2. /\ Ins(f, n) \in Seq(Ids(f) \cup {Nil})
      /\ Len(Ins(f, n)) \in Nat /\ DOMAIN Ins(f, n) = 1..Len(Ins(f, n))
  BY <1>1, NodeTypes
<1>3. \A i \in 1..Len(Ins(f, n)) : Ins(f, n)[i] \in H /\ Ins(f, n)[i] # f.end
  BY <1>1, <1>2 DEF Matched, InsListed, Shaped, OneEnd
<1> DEFINE s == Ins(f, n)
           T == H \ {f.end}
           N == Ids(f) \cup {Nil}
<1>4. s \in Seq(T)
  <2>1. s \in Seq(N) /\ \A i \in 1..Len(s) : s[i] \in T
    BY <1>2, <1>3
  <2> HIDE DEF s, T, N
  <2>2. Len(s) \in Nat /\ s \in [1..Len(s) -> T]
    BY <2>1
  <2> QED
    BY <2>2
<1> QED
  BY <1>1, <1>2, <1>3, <1>4

(* A node without uses is removed.                                         *)
LEMMA RemovalHeld ==
  ASSUME NEW f, NEW H, Held(f, H), NEW n \in Ids(f), n # f.end, Uses(f, n) = <<>>
  PROVE  Held(Removal(f, n)[Len(Ins(f, n))], H \ {n})
<1> DEFINE L == Len(Ins(f, n))
           g == Removal(f, n)[L]
           K == H \ {n}
<1>0. /\ IsGraph(f) /\ Matched(f, H) /\ f.end \in H /\ OneEnd(f) /\ \A m \in H : Shaped(f, m)
      /\ H \subseteq Ids(f)
      /\ L \in Nat /\ DOMAIN Ins(f, n) = 1..L
  BY NodeTypes DEF Held, Matched
<1>1. /\ IsGraph(g) /\ Alike(f, g) /\ Ids(g) = Ids(f)
      /\ \A m \in Ids(f) : Ins(g, m) = Ins(f, m)
      /\ \A m \in Ids(f) :
              /\ UseSet(g, m) \subseteq UseSet(f, m)
              /\ \A u \in UseSet(f, m) : u.node # n => u \in UseSet(g, m)
              /\ Once(Uses(f, m)) =>
                   /\ Once(Uses(g, m))
                   /\ \A i \in 1..L : m = Ins(f, n)[i] => Use(n, i) \notin UseSet(g, m)
  BY <1>0, RemovalIs
<1> HIDE DEF g, L
<1>2. UseSet(f, n) = {}
  BY DEF UseSet, ToSet
<1>3. UsesName(g, K)
  <2> SUFFICES ASSUME NEW m \in K, NEW u \in UseSet(g, m)
               PROVE  u.node \in K /\ u.index \in DOMAIN Ins(g, u.node) /\ Ins(g, u.node)[u.index] = m
    BY DEF UsesName
  <2>1. m \in H /\ m \in Ids(f) /\ u \in UseSet(f, m)
    BY <1>0, <1>1
  <2>2. u.node \in H /\ u.index \in DOMAIN Ins(f, u.node) /\ Ins(f, u.node)[u.index] = m
    BY <1>0, <2>1 DEF Matched, UsesName
  <2>3. u = Use(u.node, u.index) /\ Once(Uses(f, m))
    BY <1>0, <2>1, UsesAre DEF Matched
  <2>4. u.node # n
    BY <1>0, <1>1, <2>1, <2>2, <2>3
  <2> QED
    BY <1>0, <1>1, <2>2, <2>4
<1>4. InsListed(g, K)
  <2> SUFFICES ASSUME NEW m \in K, NEW i \in DOMAIN Ins(g, m), Ins(g, m)[i] # Nil
               PROVE  Ins(g, m)[i] \in K /\ Use(m, i) \in UseSet(g, Ins(g, m)[i])
    BY DEF InsListed
  <2>1. m \in H /\ m \in Ids(f) /\ Ins(g, m) = Ins(f, m)
    BY <1>0, <1>1
  <2>2. Ins(f, m)[i] \in H /\ Use(m, i) \in UseSet(f, Ins(f, m)[i])
    BY <1>0, <2>1 DEF Matched, InsListed
  <2>3. Use(m, i).node # n
    BY UseIs
  <2>4. Ins(f, m)[i] # n
    BY <1>2, <2>2
  <2> QED
    BY <1>0, <1>1, <2>1, <2>2, <2>3, <2>4
<1>5. Matched(g, K)
  BY <1>0, <1>1, <1>3, <1>4 DEF Matched
<1>6. g.end = f.end /\ \A m \in Ids(f) : Kind(g, m) = Kind(f, m)
  BY <1>1 DEF Alike, Kind
<1>7. OneEnd(g)
  BY <1>0, <1>1, <1>6 DEF OneEnd
<1>8. \A m \in K : Shaped(g, m)
  <2> SUFFICES ASSUME NEW m \in K PROVE Shaped(g, m)
    OBVIOUS
  <2>1. m \in H /\ m \in Ids(f) /\ Shaped(f, m)
    BY <1>0
  <2>2. Len(Ins(f, m)) # 0 => Ins(f, m)[1] \in Ids(f)
    <3>1. Len(Ins(f, m)) # 0 => 1 \in 1..Len(Ins(f, m))
      BY <1>0, <2>1, NodeTypes
    <3> QED
      BY <1>0, <2>1, <3>1, InputsAre
  <2> QED
    BY <1>1, <1>6, <2>1, <2>2 DEF Shaped
<1> QED
  BY <1>0, <1>1, <1>5, <1>6, <1>7, <1>8 DEF Held, g, L

-----------------------------------------------------------------------------
\* One use moved to another node.

(* The first element of a sequence and the others.                         *)
LEMMA HeadOf ==
  ASSUME NEW S, NEW s \in Seq(S), s # <<>>
  PROVE  /\ Head(s) \in S /\ Tail(s) \in Seq(S) /\ ToSet(s) = {Head(s)} \cup ToSet(Tail(s))
         /\ Once(s) => Once(Tail(s)) /\ Head(s) \notin ToSet(Tail(s))
<1>1. /\ Head(s) = s[1] /\ Len(s) \in Nat \ {0} /\ DOMAIN s = 1..Len(s) /\ 1 \in 1..Len(s)
      /\ Tail(s) \in Seq(S) /\ Head(s) \in S
      /\ DOMAIN Tail(s) = 1..(Len(s) - 1)
      /\ \A i \in 1..(Len(s) - 1) : Tail(s)[i] = s[i + 1]
  OBVIOUS
<1> DEFINE t == Tail(s)
           N == Len(s)
<1> HIDE DEF t, N
<1>2. /\ Head(s) = s[1] /\ N \in Nat \ {0} /\ DOMAIN s = 1..N /\ t \in Seq(S)
      /\ DOMAIN t = 1..(N - 1) /\ \A i \in 1..(N - 1) : t[i] = s[i + 1] /\ i + 1 \in 1..N /\ i + 1 # 1
  BY <1>1 DEF t, N
<1>3. \A i \in 1..N : i = 1 \/ (i - 1 \in 1..(N - 1) /\ (i - 1) + 1 = i)
  BY <1>2
<1>4. ToSet(s) = {Head(s)} \cup ToSet(t)
  <2>1. \A x : (\E i \in 1..N : s[i] = x) <=> x = s[1] \/ \E i \in 1..(N - 1) : t[i] = x
    <3> TAKE x
    <3>1. ASSUME NEW i \in 1..N, s[i] = x PROVE x = s[1] \/ \E j \in 1..(N - 1) : t[j] = x
      <4>1. CASE i = 1
        BY <3>1, <4>1
      <4>2. CASE i # 1
        <5>1. i - 1 \in 1..(N - 1) /\ t[i - 1] = s[i]
          BY <1>2, <1>3, <4>2
        <5> QED
          BY <3>1, <5>1
      <4> QED
        BY <4>1, <4>2
    <3>2. ASSUME NEW j \in 1..(N - 1), t[j] = x PROVE \E i \in 1..N : s[i] = x
      BY <1>2, <3>2
    <3>3. 1 \in 1..N
      BY <1>2
    <3> QED
      BY <3>1, <3>2, <3>3
  <2>2. \A x : x \in ToSet(s) <=> \E i \in 1..N : s[i] = x
    BY <1>2 DEF ToSet
  <2>3. \A x : x \in ToSet(t) <=> \E i \in 1..(N - 1) : t[i] = x
    BY <1>2 DEF ToSet
  <2> QED
    BY <1>2, <2>1, <2>2, <2>3
<1>5. Once(s) => Once(t)
  <2>1. \A i, j \in 1..(N - 1) : i + 1 = j + 1 => i = j
    BY <1>2
  <2> QED
    BY <1>2, <2>1 DEF Once
<1>6. Once(s) => Head(s) \notin ToSet(t)
  <2>1. 1 \in 1..N
    BY <1>2
  <2>2. \A x \in ToSet(t) : \E i \in 1..(N - 1) : t[i] = x
    BY <1>2 DEF ToSet
  <2>3. ASSUME Once(s), NEW i \in 1..(N - 1), t[i] = s[1] PROVE FALSE
    <3>1. s[i + 1] = s[1] /\ i + 1 \in DOMAIN s /\ 1 \in DOMAIN s /\ i + 1 # 1
      BY <1>2, <2>1, <2>3
    <3> QED
      BY <2>3, <3>1 DEF Once
  <2> QED
    BY <1>2, <2>2, <2>3
<1> QED
  BY <1>1, <1>4, <1>5, <1>6 DEF t

(* One use moves from t to s.                                              *)
Moved(f, t, s) ==
  LET use == Head(f.node[t].uses)
  IN set_input([f EXCEPT !.node[t].uses = Tail(@)], use.node, s, use.index)

(* One turn of replace_node's loop, opt.c:309: a use of t is now one of s. *)
LEMMA MovedIs ==
  ASSUME NEW f, IsGraph(f), NEW t \in Ids(f), NEW s \in Ids(f), Uses(f, t) # <<>>, s # t,
         Head(Uses(f, t)).index \in DOMAIN Ins(f, Head(Uses(f, t)).node)
  PROVE  LET u == Head(Uses(f, t))
             g == Moved(f, t, s) IN
         /\ u \in UseSet(f, t) /\ u.node \in Ids(f)
         /\ IsGraph(g) /\ Alike(f, g) /\ Ids(g) = Ids(f)
         /\ \A m \in Ids(f) : /\ DOMAIN Ins(g, m) = DOMAIN Ins(f, m)
                              /\ Len(Ins(g, m)) = Len(Ins(f, m))
                              /\ m # u.node => Ins(g, m) = Ins(f, m)
         /\ \A m \in Ids(f) : \A j \in DOMAIN Ins(f, m) :
              Ins(g, m)[j] = IF m = u.node /\ j = u.index THEN s ELSE Ins(f, m)[j]
         /\ \A m \in Ids(f) : m # t /\ m # s => Uses(g, m) = Uses(f, m)
         /\ UseSet(g, s) = UseSet(f, s) \cup {u}
         /\ UseSet(g, t) \cup {u} = UseSet(f, t)
         /\ Once(Uses(f, s)) /\ u \notin UseSet(f, s) => Once(Uses(g, s))
         /\ Once(Uses(f, t)) => Once(Uses(g, t)) /\ u \notin UseSet(g, t)
<1> DEFINE u == Head(Uses(f, t))
           rest == Tail(Uses(f, t))
           h == [f EXCEPT !.node[t].uses = rest]
           a == u.node
           b == u.index
           g == set_input(h, a, s, b)
<1>1. Moved(f, t, s) = g
  BY Zenon DEF Moved, Uses
<1>2. /\ u \in [node : Ids(f), index : Nat] /\ rest \in Seq([node : Ids(f), index : Nat])
      /\ UseSet(f, t) = {u} \cup ToSet(rest)
      /\ Once(Uses(f, t)) => Once(rest) /\ u \notin ToSet(rest)
  <2> DEFINE T == [node : Ids(f), index : Nat]
             z == Uses(f, t)
  <2>1. z \in Seq(T) /\ z # <<>>
    BY NodeTypes
  <2> HIDE DEF T, z
  <2>2. /\ Head(z) \in T /\ Tail(z) \in Seq(T) /\ ToSet(z) = {Head(z)} \cup ToSet(Tail(z))
        /\ Once(z) => Once(Tail(z)) /\ Head(z) \notin ToSet(Tail(z))
    BY <2>1, HeadOf
  <2> QED
    BY <2>2 DEF T, z, UseSet
<1>3. u.node \in Ids(f) /\ u.index \in Nat /\ u = Use(u.node, u.index)
  BY <1>2 DEF Use
<1>4. u.index \in DOMAIN Ins(f, u.node)
  OBVIOUS
<1> HIDE DEF u, rest
<1>5. /\ IsGraph(h) /\ Alike(f, h)
      /\ \A m \in Ids(f) : Uses(h, m) = IF m = t THEN rest ELSE Uses(f, m)
      /\ \A m \in Ids(f) : Ins(h, m) = Ins(f, m)
  BY <1>2, UsesSet
<1> HIDE DEF h
<1>6. /\ Ids(h) = Ids(f) /\ u.index \in DOMAIN Ins(h, u.node)
      /\ IsGraph(h) /\ u.node \in Ids(h) /\ s \in Ids(h)
  BY <1>3, <1>4, <1>5, AlikeIds
<1>7. /\ IsGraph(g) /\ Alike(h, g) /\ Ids(g) = Ids(h)
      /\ \A m \in Ids(h) : Ins(g, m) = IF m = u.node THEN [Ins(h, u.node) EXCEPT ![u.index] = s]
                                          ELSE Ins(h, m)
      /\ \A m \in Ids(h) : Uses(g, m) = IF m = s THEN <<Use(u.node, u.index)>> \o Uses(h, m)
                                           ELSE Uses(h, m)
  <2>1. a \in Ids(h) /\ b \in DOMAIN Ins(h, a)
    BY <1>6
  <2> HIDE DEF a, b
  <2>2. /\ IsGraph(g) /\ Alike(h, g)
        /\ \A m \in Ids(h) : Ins(g, m) = IF m = a THEN [Ins(h, a) EXCEPT ![b] = s] ELSE Ins(h, m)
        /\ \A m \in Ids(h) : Uses(g, m) = IF m = s THEN <<Use(a, b)>> \o Uses(h, m) ELSE Uses(h, m)
    BY <1>6, <2>1, SetInputIs
  <2> QED
    BY <2>2, AlikeIds DEF a, b
<1>8. /\ \A m \in Ids(h) : /\ DOMAIN Ins(g, m) = DOMAIN Ins(h, m)
                           /\ Len(Ins(g, m)) = Len(Ins(h, m))
                           /\ m # u.node => Ins(g, m) = Ins(h, m)
      /\ \A m \in Ids(h) : \A j \in DOMAIN Ins(h, m) :
           Ins(g, m)[j] = IF m = u.node /\ j = u.index THEN s ELSE Ins(h, m)[j]
      /\ \A m \in Ids(h) : UseSet(g, m) = IF m = s THEN UseSet(h, m) \cup {Use(u.node, u.index)}
                                             ELSE UseSet(h, m)
      /\ \A m \in Ids(h) : Once(Uses(h, m)) /\ (m = s => Use(u.node, u.index) \notin UseSet(h, m))
                              => Once(Uses(g, m))
  <2>1. a \in Ids(h) /\ b \in DOMAIN Ins(h, a)
    BY <1>6
  <2> HIDE DEF a, b
  <2>2. /\ \A m \in Ids(h) : /\ DOMAIN Ins(g, m) = DOMAIN Ins(h, m)
                             /\ Len(Ins(g, m)) = Len(Ins(h, m))
                             /\ m # a => Ins(g, m) = Ins(h, m)
        /\ \A m \in Ids(h) : \A j \in DOMAIN Ins(h, m) :
           Ins(g, m)[j] = IF m = a /\ j = b THEN s ELSE Ins(h, m)[j]
        /\ \A m \in Ids(h) : UseSet(g, m) = IF m = s THEN UseSet(h, m) \cup {Use(a, b)}
                                             ELSE UseSet(h, m)
        /\ \A m \in Ids(h) : Once(Uses(h, m)) /\ (m = s => Use(a, b) \notin UseSet(h, m))
                              => Once(Uses(g, m))
    <3>1. IsGraph(h) /\ a \in Ids(h) /\ s \in Ids(h) /\ b \in DOMAIN Ins(h, a)
      BY <1>6, <2>1
    <3>2. \A m \in Ids(h) :
                             /\ DOMAIN Ins(g, m) = DOMAIN Ins(h, m)
                             /\ Len(Ins(g, m)) = Len(Ins(h, m))
                             /\ m # a => Ins(g, m) = Ins(h, m)
      BY <3>1, SetInputMakes
    <3>3. \A m \in Ids(h) : \A j \in DOMAIN Ins(h, m) :
           Ins(g, m)[j] = IF m = a /\ j = b THEN s ELSE Ins(h, m)[j]
      BY <3>1, SetInputMakes
    <3>4. \A m \in Ids(h) : UseSet(g, m) = IF m = s THEN UseSet(h, m) \cup {Use(a, b)}
                                             ELSE UseSet(h, m)
      BY <3>1, SetInputMakes
    <3>5. \A m \in Ids(h) : Once(Uses(h, m)) /\ (m = s => Use(a, b) \notin UseSet(h, m))
                              => Once(Uses(g, m))
      BY <3>1, SetInputMakes
    <3> QED
      BY <3>2, <3>3, <3>4, <3>5
  <2> QED
    BY <2>2 DEF a, b
<1> HIDE DEF g
<1>9. Alike(f, g)
  BY <1>5, <1>7, AlikeAlike
<1>10. \A m \in Ids(f) : m # t /\ m # s => Uses(g, m) = Uses(f, m)
  BY <1>5, <1>6, <1>7
<1>11. UseSet(g, s) = UseSet(f, s) \cup {u} /\ UseSet(g, t) = ToSet(rest)
  BY <1>3, <1>5, <1>6, <1>8 DEF UseSet
<1>12. Once(Uses(f, s)) /\ u \notin UseSet(f, s) => Once(Uses(g, s))
  BY <1>3, <1>5, <1>6, <1>8 DEF UseSet
<1>13. Once(Uses(f, t)) => Once(Uses(g, t)) /\ u \notin UseSet(g, t)
  <2>1. Uses(g, t) = rest
    BY <1>5, <1>6, <1>7
  <2> QED
    BY <1>2, <2>1 DEF UseSet
<1>14. /\ \A m \in Ids(f) : /\ DOMAIN Ins(g, m) = DOMAIN Ins(f, m)
                            /\ Len(Ins(g, m)) = Len(Ins(f, m))
                             /\ m # u.node => Ins(g, m) = Ins(f, m)
       /\ \A m \in Ids(f) : \A j \in DOMAIN Ins(f, m) :
           Ins(g, m)[j] = IF m = u.node /\ j = u.index THEN s ELSE Ins(f, m)[j]
  BY <1>5, <1>6, <1>8
<1>15. u \in UseSet(f, t) /\ UseSet(g, t) \cup {u} = UseSet(f, t)
  BY <1>2, <1>11
<1> QED
  BY <1>1, <1>3, <1>6, <1>7, <1>9, <1>10, <1>11, <1>12, <1>13, <1>14, <1>15 DEF u

(* Replacing one use keeps the graph held, where the nodes may stand for   *)
(* each other.                                                             *)
LEMMA MovedHeld ==
  ASSUME NEW f, NEW H, Held(f, H), NEW t \in H, NEW s \in H, Uses(f, t) # <<>>, s # t,
         s # f.end, Stands(f, t, s)
  PROVE  LET u == Head(Uses(f, t))
             g == Moved(f, t, s) IN
         /\ Held(g, H) /\ Stands(g, t, s) /\ u.node \in H /\ g.end = f.end /\ Ids(g) = Ids(f)
         /\ \A m \in Ids(f) : /\ Kind(g, m) = Kind(f, m) /\ Len(Ins(g, m)) = Len(Ins(f, m))
                              /\ m # u.node => Ins(g, m) = Ins(f, m)
                              /\ g.node[m].flags = f.node[m].flags
                              /\ g.node[m].data = f.node[m].data
         /\ \A m \in Ids(f) : m # t /\ m # s => Uses(g, m) = Uses(f, m)
<1> DEFINE u == Head(Uses(f, t))
           g == Moved(f, t, s)
<1>0. /\ IsGraph(f) /\ Matched(f, H) /\ f.end \in H /\ OneEnd(f) /\ \A m \in H : Shaped(f, m)
      /\ H \subseteq Ids(f) /\ t \in Ids(f) /\ s \in Ids(f)
  BY DEF Held, Matched
<1>1. /\ u \in UseSet(f, t)
      /\ \A v \in UseSet(f, t) : v.node \in H /\ v.index \in DOMAIN Ins(f, v.node) /\ Ins(f, v.node)[v.index] = t
  <2> DEFINE T == [node : Ids(f), index : Nat]
             z == Uses(f, t)
  <2>1. z \in Seq(T) /\ z # <<>>
    BY <1>0, NodeTypes
  <2> HIDE DEF T, z
  <2>2. ToSet(z) = {Head(z)} \cup ToSet(Tail(z))
    BY <2>1, HeadOf
  <2>3. u \in UseSet(f, t)
    BY <2>2 DEF z, UseSet
  <2> QED
    BY <1>0, <2>3 DEF Matched, UsesName
<1> HIDE DEF u
<1>2. u.index \in DOMAIN Ins(f, u.node)
  BY <1>1
<1>3. /\ u.node \in Ids(f)
      /\ IsGraph(g) /\ Alike(f, g) /\ Ids(g) = Ids(f)
      /\ \A m \in Ids(f) : /\ DOMAIN Ins(g, m) = DOMAIN Ins(f, m)
                           /\ Len(Ins(g, m)) = Len(Ins(f, m))
                           /\ m # u.node => Ins(g, m) = Ins(f, m)
      /\ \A m \in Ids(f) : \A j \in DOMAIN Ins(f, m) :
              Ins(g, m)[j] = IF m = u.node /\ j = u.index THEN s ELSE Ins(f, m)[j]
      /\ \A m \in Ids(f) : m # t /\ m # s => Uses(g, m) = Uses(f, m)
      /\ UseSet(g, s) = UseSet(f, s) \cup {u}
      /\ UseSet(g, t) \cup {u} = UseSet(f, t)
      /\ Once(Uses(f, s)) /\ u \notin UseSet(f, s) => Once(Uses(g, s))
      /\ Once(Uses(f, t)) => Once(Uses(g, t)) /\ u \notin UseSet(g, t)
  BY <1>0, <1>2, MovedIs DEF u
<1> HIDE DEF g
<1>4. u.node \in H /\ Ins(f, u.node)[u.index] = t
  BY <1>1
<1>5. /\ \A m \in H : m # t => u \notin UseSet(f, m)
      /\ \A m \in H : Once(Uses(f, m))
      /\ u \notin UseSet(g, t)
  BY <1>0, <1>3, <1>4 DEF Matched, UsesName
<1>6. \A m \in H : UseSet(g, m) = (IF m = t THEN UseSet(f, t) \ {u} ELSE IF m = s THEN UseSet(f, s) \cup {u}
                                  ELSE UseSet(f, m)) /\ Once(Uses(g, m))
  <2> TAKE m \in H
  <2>1. CASE m = t
    BY <1>3, <1>5, <2>1
  <2>2. CASE m = s
    BY <1>3, <1>5, <2>2
  <2>3. CASE m # t /\ m # s
    BY <1>0, <1>3, <1>5, <2>3 DEF UseSet
  <2> QED
    BY <2>1, <2>2, <2>3
<1>7. UsesName(g, H)
  <2> SUFFICES ASSUME NEW m \in H, NEW v \in UseSet(g, m)
               PROVE  v.node \in H /\ v.index \in DOMAIN Ins(g, v.node) /\ Ins(g, v.node)[v.index] = m
    BY DEF UsesName
  <2>1. CASE v = u /\ m = s
    BY <1>0, <1>2, <1>3, <1>4, <2>1
  <2>2. CASE v # u /\ v \in UseSet(f, m)
    <3>1. v.node \in H /\ v.index \in DOMAIN Ins(f, v.node) /\ Ins(f, v.node)[v.index] = m
      BY <1>0, <2>2 DEF Matched, UsesName
    <3>2. v = Use(v.node, v.index) /\ u = Use(u.node, u.index)
      BY <1>0, <1>1, <2>2, UsesAre
    <3> QED
      BY <1>0, <1>3, <2>2, <3>1, <3>2
  <2>3. m # t => u \notin UseSet(f, m)
    BY <1>5
  <2> QED
    BY <1>6, <2>1, <2>2, <2>3
<1>8. InsListed(g, H)
  <2> SUFFICES ASSUME NEW m \in H, NEW j \in DOMAIN Ins(g, m), Ins(g, m)[j] # Nil
               PROVE  Ins(g, m)[j] \in H /\ Use(m, j) \in UseSet(g, Ins(g, m)[j])
    BY DEF InsListed
  <2>0. u = Use(u.node, u.index)
    BY <1>0, <1>1, UsesAre
  <2>1. CASE m = u.node /\ j = u.index
    BY <1>0, <1>3, <2>0, <2>1
  <2>2. CASE ~(m = u.node /\ j = u.index)
    <3>1. Ins(g, m)[j] = Ins(f, m)[j] /\ j \in DOMAIN Ins(f, m)
      BY <1>0, <1>3, <2>2
    <3>2. Ins(f, m)[j] \in H /\ Use(m, j) \in UseSet(f, Ins(f, m)[j])
      BY <1>0, <3>1 DEF Matched, InsListed
    <3>3. Use(m, j) # u
      BY <2>0, <2>2, UseIs
    <3> QED
      BY <1>6, <3>1, <3>2, <3>3
  <2> QED
    BY <2>1, <2>2
<1>9. Matched(g, H)
  BY <1>0, <1>3, <1>6, <1>7, <1>8 DEF Matched
<1>10. /\ g.end = f.end
       /\ \A m \in Ids(f) : /\ Kind(g, m) = Kind(f, m)
                            /\ g.node[m].flags = f.node[m].flags
                            /\ g.node[m].data = f.node[m].data
  BY <1>3 DEF Alike, Kind
<1>11. OneEnd(g)
  BY <1>0, <1>3, <1>10 DEF OneEnd
<1>12. ASSUME NEW m \in H PROVE Shaped(g, m)
  <2>1. Shaped(f, m) /\ m \in Ids(f) /\ s # Nil
    <3>1. s # Nil
      BY <1>0 DEF Ids, Nil
    <3> QED
      BY <1>0, <3>1
  <2>2. \A i \in DOMAIN Ins(g, m) : Ins(g, m)[i] # Nil
    BY <1>3, <2>1 DEF Shaped
  <2>3. ASSUME Kind(g, m) = "PHI", Len(Ins(g, m)) # 0
        PROVE  /\ Kind(g, Ins(g, m)[1]) = "REGION"
               /\ Len(Ins(g, m)) = Len(Ins(g, Ins(g, m)[1])) + 1
    <3> DEFINE r == Ins(f, m)[1]
    <3>1. Len(Ins(f, m)) = Len(Ins(g, m)) /\ Kind(f, m) = "PHI"
      BY <1>3, <1>10, <2>1, <2>3
    <3>2. Kind(f, r) = "REGION" /\ Len(Ins(f, m)) = Len(Ins(f, r)) + 1
      BY <2>1, <2>3, <3>1 DEF Shaped
    <3>3. 1 \in DOMAIN Ins(f, m) /\ r \in H /\ r \in Ids(f)
      <4>1. 1 \in 1..Len(Ins(f, m))
        BY <1>0, <2>1, <2>3, <3>1, NodeTypes
      <4> QED
        BY <1>0, <4>1, InputsAre
    <3>4. CASE m = u.node /\ 1 = u.index
      <4>1. r = t
        BY <1>4, <3>4
      <4>2. Kind(f, u.node) = "PHI"
        BY <3>1, <3>4
      <4>3. Kind(f, s) = "REGION" /\ Len(Ins(f, s)) = Len(Ins(f, t))
        BY <1>1, <3>2, <4>1, <4>2 DEF Stands
      <4>4. Ins(g, m)[1] = s
        BY <1>3, <2>1, <3>3, <3>4
      <4> QED
        BY <1>0, <1>3, <1>10, <3>1, <3>2, <4>1, <4>3, <4>4
    <3>5. CASE ~(m = u.node /\ 1 = u.index)
      <4>1. Ins(g, m)[1] = r
        BY <1>3, <2>1, <3>3, <3>5
      <4> QED
        BY <1>3, <1>10, <3>1, <3>2, <3>3, <4>1
    <3> QED
      BY <3>4, <3>5
  <2> QED
    BY <1>3, <1>10, <2>1, <2>2, <2>3 DEF Shaped
<1>13. Stands(g, t, s)
  <2>1. UseSet(g, t) \subseteq UseSet(f, t)
    BY <1>3
  <2>2. \A v \in UseSet(g, t) : v.node \in Ids(f)
    BY <1>0, <1>1, <2>1
  <2>3. CASE \A v \in UseSet(f, t) : Kind(f, v.node) # "PHI"
    BY <1>10, <2>1, <2>2, <2>3 DEF Stands
  <2>4. CASE ~ \A v \in UseSet(f, t) : Kind(f, v.node) # "PHI"
    BY <1>0, <1>3, <1>10, <2>4 DEF Stands
  <2> QED
    BY <2>3, <2>4
<1> QED
  BY <1>0, <1>3, <1>4, <1>9, <1>10, <1>11, <1>12, <1>13 DEF Held, u, g

-----------------------------------------------------------------------------
\* Flags, and the phis of forwarding.

\* Apart from the flags of n, g is f.
Flagging(f, g, n) ==
  /\ IsGraph(g) /\ Ids(g) = Ids(f) /\ g.next_id = f.next_id
  /\ g.end = f.end /\ g.start = f.start /\ g.allocas = f.allocas
  /\ \A m \in Ids(f) : Uses(g, m) = Uses(f, m) /\ Ins(g, m) = Ins(f, m)
  /\ \A m \in Ids(f) : Kind(g, m) = Kind(f, m) /\ g.node[m].data = f.node[m].data
  /\ \A m \in Ids(f) : m # n => g.node[m] = f.node[m]

(* Setting flags changes nothing else.                                     *)
LEMMA FlagsSet ==
  ASSUME NEW f, IsGraph(f), NEW n \in Ids(f), NEW flags
  PROVE  Flagging(f, [f EXCEPT !.node[n].flags = flags], n)
<1> DEFINE g == [f EXCEPT !.node[n].flags = flags]
           r == [f.node[n] EXCEPT !.flags = flags]
<1>1. /\ DOMAIN f = {"node", "next_id", "start", "end", "allocas"}
      /\ f.next_id \in Nat /\ DOMAIN f.node = Ids(f)
      /\ \A m \in Ids(f) : IsNode(Ids(f), f.node[m])
  BY DEF IsGraph
<1>2. /\ DOMAIN r = {"kind", "ins", "uses", "flags", "data"} /\ r.uses = Uses(f, n)
      /\ r.ins = Ins(f, n) /\ r.kind = f.node[n].kind /\ r.data = f.node[n].data
  BY <1>1 DEF IsNode, Ins, Uses
<1>3. /\ DOMAIN g = {"node", "next_id", "start", "end", "allocas"}
      /\ g.next_id = f.next_id /\ g.start = f.start /\ g.end = f.end /\ g.allocas = f.allocas
      /\ DOMAIN g.node = Ids(f) /\ g.node[n] = r
      /\ \A m \in Ids(f) : m # n => g.node[m] = f.node[m]
  BY <1>1
<1> HIDE DEF g, r
<1>4. Ids(g) = Ids(f)
  BY <1>3 DEF Ids
<1>5. \A m \in Ids(f) : IsNode(Ids(f), g.node[m])
  BY <1>1, <1>2, <1>3 DEF IsNode, Ins, Uses
<1>6. IsGraph(g)
  BY <1>1, <1>3, <1>4, <1>5 DEF IsGraph
<1>7. /\ \A m \in Ids(f) : Uses(g, m) = Uses(f, m) /\ Ins(g, m) = Ins(f, m)
      /\ \A m \in Ids(f) : Kind(g, m) = Kind(f, m) /\ g.node[m].data = f.node[m].data
  BY <1>2, <1>3 DEF Ins, Uses, Kind
<1> QED
  BY <1>3, <1>4, <1>6, <1>7 DEF g, Flagging

(* A graph with the same inputs and uses on H matches as well.             *)
LEMMA MatchedSame ==
  ASSUME NEW f, NEW g, NEW H, Matched(f, H), H \subseteq Ids(g),
         \A m \in H : Uses(g, m) = Uses(f, m) /\ Ins(g, m) = Ins(f, m)
  PROVE  Matched(g, H)
BY DEF Matched, UsesName, InsListed, UseSet

(* A new phi without inputs keeps the graph held.                          *)
LEMMA PhiMade ==
  ASSUME NEW f, NEW H, Held(f, H)
  PROVE  LET g == cb_node_phi(f)
             p == f.next_id IN
         /\ Held(g, H \cup {p}) /\ g.end = f.end /\ Ids(g) = Ids(f) \cup {p} /\ p \notin Ids(f)
         /\ p \in Nat /\ p # f.end /\ p \notin H
         /\ \A m \in Ids(f) : g.node[m] = f.node[m]
         /\ Kind(g, p) = "PHI" /\ Len(Ins(g, p)) = 0 /\ Ins(g, p) = <<>>
<1> DEFINE g == cb_node_phi(f)
           p == f.next_id
<1>0. /\ IsGraph(f) /\ Matched(f, H) /\ f.end \in H /\ OneEnd(f) /\ \A n \in H : Shaped(f, n)
      /\ H \subseteq Ids(f)
  BY DEF Held, Matched
<1>1. /\ IsGraph(g) /\ Ids(g) = Ids(f) \cup {p} /\ p \notin Ids(f)
      /\ p \in Nat /\ g.end = f.end
      /\ \A m \in Ids(f) : g.node[m] = f.node[m]
      /\ g.node[p].kind = "PHI"
      /\ Len(Ins(g, p)) = 0 /\ DOMAIN Ins(g, p) = 1..0
      /\ Uses(g, p) = <<>>
  <2>1. "PHI" # "START" /\ 0 \in Nat /\ IsGraph(f)
    BY <1>0
  <2>2. Makes(f, new_node(f, "PHI", 0, 0, {"IS_PINNED"}), f.next_id, "PHI", 0, 0, {"IS_PINNED"})
    BY <2>1, NodeMade
  <2>3. Makes(f, g, p, "PHI", 0, 0, {"IS_PINNED"})
    BY <2>2 DEF cb_node_phi
  <2> QED
    BY <2>3 DEF Makes
<1> HIDE DEF g, p
<1>2. \A i \in DOMAIN Ins(g, p) : Ins(g, p)[i] = Nil
  BY <1>1
<1>3. Matched(g, H \cup {p})
  BY <1>0, <1>1, <1>2, NewNodeMatched
<1>4. \A m \in Ids(f) : Kind(g, m) = Kind(f, m) /\ Ins(g, m) = Ins(f, m)
  BY <1>1 DEF Kind, Ins
<1>5. p # f.end /\ Kind(g, p) = "PHI"
  BY <1>0, <1>1 DEF Kind
<1>6. OneEnd(g)
  BY <1>0, <1>1, <1>4, <1>5 DEF OneEnd
<1>7. \A m \in H \cup {p} : Shaped(g, m)
  <2>1. Shaped(g, p)
    BY <1>1, <1>5 DEF Shaped
  <2>2. ASSUME NEW m \in H PROVE Shaped(g, m)
    <3>1. m \in Ids(f) /\ Shaped(f, m)
      BY <1>0
    <3>2. Len(Ins(f, m)) # 0 => Ins(f, m)[1] \in Ids(f)
      <4>1. Len(Ins(f, m)) # 0 => 1 \in 1..Len(Ins(f, m))
        BY <1>0, <3>1, NodeTypes
      <4> QED
        BY <1>0, <3>1, <4>1, InputsAre
    <3> QED
      BY <1>4, <3>1, <3>2 DEF Shaped
  <2> QED
    BY <2>1, <2>2
<1>8. Ins(g, p) = <<>>
  <2>1. Ins(g, p) \in Seq(Ids(g) \cup {Nil})
    BY <1>1, NodeTypes
  <2> QED
    BY <1>1, <2>1, EmptySeq
<1> QED
  BY <1>0, <1>1, <1>3, <1>5, <1>6, <1>7, <1>8 DEF Held, g, p

(* A sequence with an element put before it.                               *)
LEMMA FirstOf ==
  ASSUME NEW S, NEW x \in S, NEW s \in Seq(S)
  PROVE  /\ <<x>> \o s \in Seq(S) /\ Len(<<x>> \o s) = Len(s) + 1
         /\ (<<x>> \o s)[1] = x
         /\ \A i \in 1..Len(s) : (<<x>> \o s)[i + 1] = s[i]
         /\ \A i \in 1..(Len(s) + 1) : (<<x>> \o s)[i] = IF i = 1 THEN x ELSE s[i - 1]
<1>1. <<x>> \in Seq(S) /\ Len(<<x>>) = 1 /\ <<x>>[1] = x
  OBVIOUS
<1> DEFINE t == <<x>>
<1> HIDE DEF t
<1>2. t \in Seq(S) /\ Len(t) = 1 /\ t[1] = x /\ Len(s) \in Nat
  BY <1>1 DEF t
<1>3. /\ t \o s \in Seq(S) /\ Len(t \o s) = Len(t) + Len(s)
      /\ \A i \in 1..(Len(t) + Len(s)) : (t \o s)[i] = IF i <= Len(t) THEN t[i] ELSE s[i - Len(t)]
  BY <1>2, ConcatProperties
<1>4. /\ Len(t \o s) = Len(s) + 1
      /\ \A i \in 1..(Len(s) + 1) : (t \o s)[i] = IF i = 1 THEN x ELSE s[i - 1]
  <2>1. Len(t) + Len(s) = Len(s) + 1
    BY <1>2
  <2>2. \A i \in 1..(Len(s) + 1) : (i <= 1 <=> i = 1)
    BY <1>2
  <2> QED
    BY <1>2, <1>3, <2>1, <2>2
<1>5. (t \o s)[1] = x /\ \A i \in 1..Len(s) : (t \o s)[i + 1] = s[i]
  <2>1. 1 \in 1..(Len(s) + 1) /\ \A i \in 1..Len(s) : i + 1 \in 1..(Len(s) + 1) /\ i + 1 # 1 /\ (i + 1) - 1 = i
    BY <1>2
  <2> QED
    BY <1>4, <2>1
<1> QED
  BY <1>3, <1>4, <1>5 DEF t

(* cb_set_phi_ins keeps the graph held where the phi had no inputs and     *)
(* gets one for each input of its region.                                  *)
LEMMA PhiFilled ==
  ASSUME NEW f, NEW H, Held(f, H), NEW p \in H, Kind(f, p) = "PHI", Len(Ins(f, p)) = 0,
         NEW region \in H, Kind(f, region) = "REGION",
         NEW ins \in Seq(H \ {f.end}), Len(ins) = Len(Ins(f, region))
  PROVE  LET g == cb_set_phi_ins(f, p, region, ins) IN
         /\ Held(g, H) /\ g.end = f.end /\ Ids(g) = Ids(f)
         /\ Ins(g, p) = <<region>> \o ins /\ Len(Ins(g, p)) = Len(ins) + 1
         /\ \A m \in Ids(f) : Kind(g, m) = Kind(f, m) /\ g.node[m].data = f.node[m].data
         /\ \A m \in Ids(f) : m # p => Ins(g, m) = Ins(f, m) /\ g.node[m].flags = f.node[m].flags
<1> DEFINE all == <<region>> \o ins
           h == Filled(f, p, all)
           g == cb_set_phi_ins(f, p, region, ins)
           T == H \ {f.end}
<1>0. /\ IsGraph(f) /\ Matched(f, H) /\ f.end \in H /\ OneEnd(f) /\ \A n \in H : Shaped(f, n)
      /\ H \subseteq Ids(f) /\ p \in Ids(f) /\ region \in Ids(f)
  BY DEF Held, Matched
<1>1. region \in T
  BY <1>0 DEF OneEnd
<1>2. /\ all \in Seq(T) /\ Len(all) = Len(ins) + 1 /\ all[1] = region
  <2>1. ins \in Seq(T)
    OBVIOUS
  <2> HIDE DEF T
  <2> QED
    BY <1>1, <2>1, FirstOf
<1>3. /\ all \in Seq(H) /\ \A i \in 1..Len(all) : all[i] \in T
      /\ Len(all) \in Nat \ {0} /\ DOMAIN all = 1..Len(all)
  <2>0. T \subseteq H
    OBVIOUS
  <2> HIDE DEF T, all
  <2>1. all \in Seq(H)
    BY <1>2, <2>0, SeqMonotonic
  <2>2. \A i \in 1..Len(all) : all[i] \in T
    BY <1>2
  <2>3. ins \in Seq(T)
    BY DEF T
  <2>4. Len(all) \in Nat \ {0} /\ DOMAIN all = 1..Len(all)
    BY <1>2, <2>3
  <2> QED
    BY <2>1, <2>2, <2>4
<1> HIDE DEF all
<1>4. /\ IsGraph(h) /\ Alike(f, h) /\ Matched(h, H) /\ Ins(h, p) = all
      /\ \A m \in Ids(f) : m # p => Ins(h, m) = Ins(f, m)
  BY <1>0, <1>3, FilledIs
<1>5. Ids(h) = Ids(f)
  BY <1>4, AlikeIds
<1>6. /\ h.end = f.end
      /\ \A m \in Ids(f) : /\ Kind(h, m) = Kind(f, m)
                           /\ h.node[m].data = f.node[m].data /\ h.node[m].flags = f.node[m].flags
  BY <1>4 DEF Alike, Kind
<1>7. g = h \/ g = [h EXCEPT !.node[p].flags = h.node[p].flags \cup {"PRODUCES_MEMORY"}]
  BY Zenon DEF cb_set_phi_ins, all
<1> HIDE DEF g, h
<1>8. /\ IsGraph(g) /\ Ids(g) = Ids(h) /\ g.end = h.end
      /\ \A m \in Ids(h) : Uses(g, m) = Uses(h, m) /\ Ins(g, m) = Ins(h, m)
      /\ \A m \in Ids(h) : Kind(g, m) = Kind(h, m) /\ g.node[m].data = h.node[m].data
      /\ \A m \in Ids(h) : m # p => g.node[m] = h.node[m]
  <2>1. CASE g = h
    BY <1>4, <2>1
  <2>2. CASE g = [h EXCEPT !.node[p].flags = h.node[p].flags \cup {"PRODUCES_MEMORY"}]
    <3> DEFINE fl == h.node[p].flags \cup {"PRODUCES_MEMORY"}
    <3>1. g = [h EXCEPT !.node[p].flags = fl]
      BY <2>2
    <3>2. p \in Ids(h)
      BY <1>0, <1>5
    <3> HIDE DEF fl
    <3>3. IsGraph(h)
      BY <1>4
    <3> HIDE DEF T
    <3> QED
      <4>1. Flagging(h, [h EXCEPT !.node[p].flags = fl], p)
        BY <3>2, <3>3, FlagsSet
      <4>2. Flagging(h, g, p)
        BY <3>1, <4>1
      <4> QED
        BY <4>2 DEF Flagging
  <2> QED
    BY <1>7, <2>1, <2>2
<1>9. Matched(g, H)
  <2>1. H \subseteq Ids(g) /\ \A m \in H : Uses(g, m) = Uses(h, m) /\ Ins(g, m) = Ins(h, m)
    BY <1>0, <1>5, <1>8
  <2> QED
    BY <1>4, <2>1, MatchedSame
<1>10. /\ g.end = f.end /\ Ids(g) = Ids(f)
       /\ \A m \in Ids(f) : Kind(g, m) = Kind(f, m) /\ g.node[m].data = f.node[m].data
       /\ \A m \in Ids(f) : m # p => Ins(g, m) = Ins(f, m) /\ g.node[m].flags = f.node[m].flags
       /\ Ins(g, p) = all
  BY <1>0, <1>4, <1>5, <1>6, <1>8
<1>11. OneEnd(g)
  <2> SUFFICES ASSUME NEW m \in Ids(f)
               PROVE  /\ Kind(g, m) = "END" <=> m = f.end
                      /\ \A i \in DOMAIN Ins(g, m) : Ins(g, m)[i] # f.end
    BY <1>10 DEF OneEnd
  <2>1. Kind(g, m) = "END" <=> m = f.end
    BY <1>0, <1>10 DEF OneEnd
  <2>2. CASE m = p
    BY <1>3, <1>10, <2>1, <2>2
  <2>3. CASE m # p
    BY <1>0, <1>10, <2>1, <2>3 DEF OneEnd
  <2> QED
    BY <2>2, <2>3
<1>12. ASSUME NEW m \in H PROVE Shaped(g, m)
  <2>0. m \in Ids(f) /\ Shaped(f, m) /\ H \subseteq Ids(f)
    BY <1>0
  <2>1. CASE m = p
    <3>1. \A i \in DOMAIN Ins(g, m) : Ins(g, m)[i] # Nil
      <4>1. \A x \in T : x # Nil
        BY <1>0 DEF Ids, Nil
      <4> QED
        BY <1>3, <1>10, <2>1, <4>1
    <3>2. Kind(g, m) = "PHI" /\ Ins(g, m)[1] = region /\ Len(Ins(g, m)) = Len(Ins(f, region)) + 1
      BY <1>2, <1>10, <2>0, <2>1
    <3>3. region # p
      OBVIOUS
    <3>4. Kind(g, region) = "REGION" /\ Ins(g, region) = Ins(f, region)
      BY <1>0, <1>10, <3>3
    <3> QED
      BY <3>1, <3>2, <3>4 DEF Shaped
  <2>2. CASE m # p
    <3>1. Ins(g, m) = Ins(f, m) /\ Kind(g, m) = Kind(f, m)
      BY <1>10, <2>0, <2>2
    <3>2. ASSUME Kind(f, m) = "PHI", Len(Ins(f, m)) # 0
          PROVE  /\ Kind(g, Ins(f, m)[1]) = "REGION"
                 /\ Len(Ins(f, m)) = Len(Ins(g, Ins(f, m)[1])) + 1
      <4> DEFINE r == Ins(f, m)[1]
      <4>1. r \in Ids(f)
        <5>1. 1 \in 1..Len(Ins(f, m))
          BY <1>0, <2>0, <3>2, NodeTypes
        <5> QED
          BY <1>0, <5>1, InputsAre
      <4>2. Kind(f, r) = "REGION" /\ Len(Ins(f, m)) = Len(Ins(f, r)) + 1
        BY <2>0, <3>2 DEF Shaped
      <4>3. r # p
        BY <4>2
      <4> QED
        BY <1>10, <4>1, <4>2, <4>3
    <3> QED
      BY <2>0, <3>1, <3>2 DEF Shaped
  <2> QED
    BY <2>1, <2>2
<1>13. Held(g, H)
  BY <1>0, <1>8, <1>9, <1>10, <1>11, <1>12 DEF Held
<1> QED
  BY <1>2, <1>10, <1>13 DEF g, all

\* Each phi has its region and values.
NoEmptyPhi(f, H) == \A n \in H : Kind(f, n) = "PHI" => Len(Ins(f, n)) # 0

-----------------------------------------------------------------------------
\* A graph that is being built.

-----------------------------------------------------------------------------
(* Lowering.  A node as it is made: regions and phis get their inputs      *)
(* later, a phi after its region.                                          *)
Whole(f, n) ==
  /\ Kind(f, n) # "END"
  /\ \A i \in DOMAIN Ins(f, n) : Ins(f, n)[i] # Nil
  /\ Kind(f, n) = "LOAD" => Len(Ins(f, n)) = 3
  /\ Kind(f, n) = "STORE" => Len(Ins(f, n)) = 4
  /\ Kind(f, n) = "PHI" /\ Len(Ins(f, n)) # 0 =>
       /\ Kind(f, Ins(f, n)[1]) = "REGION" /\ Len(Ins(f, Ins(f, n)[1])) # 0
       /\ Len(Ins(f, n)) = Len(Ins(f, Ins(f, n)[1])) + 1

Growing(f) == /\ IsGraph(f) /\ Matched(f, Ids(f)) /\ f.end = Nil /\ f.start \in Ids(f)
              /\ \A n \in Ids(f) : Whole(f, n)

\* The regions and phis that wait for their inputs.
Blank(f) == {n \in Ids(f) : Kind(f, n) \in {"REGION", "PHI"} /\ Len(Ins(f, n)) = 0}

\* g is f with one more node.
Grows(f, g, kind, blank) ==
  /\ Growing(g) /\ g.next_id = f.next_id + 1 /\ Ids(g) = Ids(f) \cup {f.next_id}
  /\ f.next_id \notin Ids(f) /\ f.next_id \in Nat /\ Kind(g, f.next_id) = kind
  /\ \A m \in Ids(f) : Kind(g, m) = Kind(f, m) /\ Ins(g, m) = Ins(f, m)
  /\ Blank(g) = Blank(f) \cup blank

(* While a graph is built, no input of a node is Nil.                      *)
LEMMA InputsExist ==
  ASSUME NEW f, Growing(f), NEW n \in Ids(f)
  PROVE  /\ Ins(f, n) \in Seq(Ids(f)) /\ Len(Ins(f, n)) \in Nat
         /\ DOMAIN Ins(f, n) = 1..Len(Ins(f, n))
         /\ \A i \in 1..Len(Ins(f, n)) : Ins(f, n)[i] \in Ids(f)
         /\ Len(Ins(f, n)) # 0 => Ins(f, n)[1] \in Ids(f)
<1>1. /\ Ins(f, n) \in Seq(Ids(f) \cup {Nil}) /\ Len(Ins(f, n)) \in Nat
      /\ DOMAIN Ins(f, n) = 1..Len(Ins(f, n))
      /\ \A i \in 1..Len(Ins(f, n)) : Ins(f, n)[i] \in Ids(f) \cup {Nil}
  BY NodeTypes DEF Growing
<1>2. \A i \in 1..Len(Ins(f, n)) : Ins(f, n)[i] \in Ids(f)
  BY <1>1 DEF Growing, Whole
<1>3. Len(Ins(f, n)) # 0 => 1 \in 1..Len(Ins(f, n))
  BY <1>1
<1>4. Ins(f, n) \in Seq(Ids(f))
  BY <1>1, <1>2
<1> QED
  BY <1>1, <1>2, <1>3, <1>4

\* A node n of this kind that has its k inputs is made.
Completes(f, g, h, n, kind) ==
  /\ IsGraph(h) /\ Alike(g, h) /\ Matched(h, Ids(g))
  /\ \A m \in Ids(f) : Ins(h, m) = Ins(g, m)
  /\ \A i \in DOMAIN Ins(h, n) : Ins(h, n)[i] # Nil
  /\ kind \notin {"END", "REGION", "PHI"}
  /\ kind = "LOAD" => Len(Ins(h, n)) = 3
  /\ kind = "STORE" => Len(Ins(h, n)) = 4

(* A new node that gets all its inputs makes the graph grow.               *)
LEMMA NodeCompletes ==
  ASSUME NEW f, Growing(f), NEW g, NEW h, NEW kind, NEW k, NEW data, NEW flags,
         Makes(f, g, f.next_id, kind, k, data, flags), Completes(f, g, h, f.next_id, kind)
  PROVE  Grows(f, h, kind, {})
<1> DEFINE n == f.next_id
<1>1. /\ g.next_id = n + 1 /\ Ids(g) = Ids(f) \cup {n} /\ n \notin Ids(f)
      /\ n \in Nat /\ g.end = f.end /\ g.start = f.start
      /\ \A m \in Ids(f) : g.node[m] = f.node[m]
      /\ g.node[n].kind = kind
  BY DEF Makes
<1>2. /\ IsGraph(h) /\ Alike(g, h) /\ Matched(h, Ids(g)) /\ Ids(h) = Ids(g)
      /\ \A m \in Ids(f) : Ins(h, m) = Ins(g, m)
      /\ \A i \in DOMAIN Ins(h, n) : Ins(h, n)[i] # Nil
      /\ kind \notin {"END", "REGION", "PHI"}
      /\ kind = "LOAD" => Len(Ins(h, n)) = 3
      /\ kind = "STORE" => Len(Ins(h, n)) = 4
  BY AlikeIds DEF Completes
<1> HIDE DEF n
<1>3. /\ h.next_id = n + 1 /\ h.end = f.end /\ h.start = f.start
      /\ \A m \in Ids(g) : Kind(h, m) = g.node[m].kind
  BY <1>1, <1>2 DEF Alike, Kind
<1>4. /\ \A m \in Ids(f) : Kind(h, m) = Kind(f, m) /\ Ins(h, m) = Ins(f, m)
      /\ Kind(h, n) = kind
  BY <1>1, <1>2, <1>3 DEF Kind, Ins
<1>5. \A m \in Ids(f) : Whole(h, m)
  <2> TAKE m \in Ids(f)
  <2>1. Whole(f, m) /\ (Len(Ins(f, m)) # 0 => Ins(f, m)[1] \in Ids(f))
    BY InputsExist DEF Growing
  <2> QED
    BY <1>4, <2>1 DEF Whole
<1>6. Whole(h, n)
  BY <1>2, <1>4 DEF Whole
<1>7. Growing(h)
  BY <1>1, <1>2, <1>3, <1>5, <1>6 DEF Growing
<1>8. Blank(h) = Blank(f)
  BY <1>1, <1>2, <1>4 DEF Blank
<1> QED
  BY <1>1, <1>2, <1>3, <1>4, <1>7, <1>8 DEF Grows, n

(* A new region or phi makes the graph grow, and waits for its inputs.     *)
LEMMA BlankMade ==
  ASSUME NEW f, Growing(f), NEW kind \in {"REGION", "PHI"}, NEW flags
  PROVE  Grows(f, new_node(f, kind, 0, 0, flags), kind, {f.next_id})
<1> DEFINE n == f.next_id
           h == new_node(f, kind, 0, 0, flags)
<1>0. IsGraph(f) /\ Matched(f, Ids(f)) /\ f.end = Nil /\ f.start \in Ids(f)
  BY DEF Growing
<1>1. Makes(f, h, n, kind, 0, 0, flags)
  <2>1. kind # "START" /\ 0 \in Nat
    OBVIOUS
  <2> QED
    BY <1>0, <2>1, NodeMade
<1> HIDE DEF h
<1>2. /\ IsGraph(h) /\ h.next_id = n + 1 /\ Ids(h) = Ids(f) \cup {n} /\ n \notin Ids(f)
      /\ n \in Nat /\ h.end = f.end /\ h.start = f.start
      /\ \A m \in Ids(f) : h.node[m] = f.node[m]
      /\ h.node[n].kind = kind
      /\ Len(Ins(h, n)) = 0 /\ DOMAIN Ins(h, n) = 1..0 /\ Uses(h, n) = <<>>
  BY <1>1 DEF Makes
<1> HIDE DEF n
<1>3. \A i \in DOMAIN Ins(h, n) : Ins(h, n)[i] = Nil /\ Ins(h, n)[i] # Nil
  BY <1>2
<1>4. Matched(h, Ids(h))
  BY <1>0, <1>2, <1>3, NewNodeMatched
<1>5. /\ \A m \in Ids(f) : Kind(h, m) = Kind(f, m) /\ Ins(h, m) = Ins(f, m)
      /\ Kind(h, n) = kind
  BY <1>2 DEF Kind, Ins
<1>6. \A m \in Ids(f) : Whole(h, m)
  <2> TAKE m \in Ids(f)
  <2>1. Whole(f, m) /\ (Len(Ins(f, m)) # 0 => Ins(f, m)[1] \in Ids(f))
    BY InputsExist DEF Growing
  <2> QED
    BY <1>5, <2>1 DEF Whole
<1>7. Whole(h, n)
  BY <1>2, <1>3, <1>5 DEF Whole
<1>8. Growing(h)
  BY <1>0, <1>2, <1>4, <1>6, <1>7 DEF Growing
<1>9. Blank(h) = Blank(f) \cup {n}
  BY <1>2, <1>5 DEF Blank
<1> QED
  BY <1>2, <1>5, <1>8, <1>9 DEF Grows, n, h

(* A node made with its inputs makes the graph grow.                       *)
LEMMA FullMade ==
  ASSUME NEW f, Growing(f), NEW kind, kind \notin {"START", "END", "REGION", "PHI"},
         NEW ins \in Seq(Ids(f)), NEW data, NEW flags,
         kind = "LOAD" => Len(ins) = 3, kind = "STORE" => Len(ins) = 4
  PROVE  Grows(f, new_filled(f, kind, ins, data, flags), kind, {})
<1> DEFINE n == f.next_id
           k == Len(ins)
           g == new_node(f, kind, k, data, flags)
           h == set_inputs(g, n, ins)
           H == Ids(g)
<1>0. IsGraph(f) /\ Matched(f, Ids(f)) /\ k \in Nat /\ \A i \in 1..k : ins[i] \in Ids(f)
  BY DEF Growing
<1>1. Makes(f, g, n, kind, k, data, flags)
  BY <1>0, NodeMade
<1> HIDE DEF g, k
<1>2. /\ IsGraph(g) /\ Ids(g) = Ids(f) \cup {n} /\ n \notin Ids(f)
      /\ \A m \in Ids(f) : g.node[m] = f.node[m]
      /\ Len(Ins(g, n)) = k /\ DOMAIN Ins(g, n) = 1..k /\ \A i \in 1..k : Ins(g, n)[i] = Nil
      /\ Uses(g, n) = <<>>
  BY <1>1 DEF Makes
<1> HIDE DEF n
<1>3. Matched(g, Ids(f) \cup {n})
  BY <1>0, <1>2, NewNodeMatched
<1>4. ins \in Seq(H) /\ n \in H /\ Matched(g, H) /\ Len(Ins(g, n)) = Len(ins)
      /\ \A i \in DOMAIN Ins(g, n) : Ins(g, n)[i] = Nil
  <2>1. Ids(f) \subseteq H
    BY <1>2
  <2> HIDE DEF H
  <2>2. ins \in Seq(H)
    BY <2>1, SeqMonotonic
  <2> QED
    BY <1>2, <1>3, <2>2 DEF H, k
<1> HIDE DEF H
<1>5. /\ IsGraph(h) /\ Alike(g, h) /\ Matched(h, H) /\ Ins(h, n) = ins
      /\ \A m \in Ids(g) : m # n => Ins(h, m) = Ins(g, m)
  BY <1>2, <1>4, SetInputsIs
<1> HIDE DEF h
<1>6. \A i \in DOMAIN ins : ins[i] # Nil
  <2>1. DOMAIN ins = 1..k
    BY DEF k
  <2>2. \A x \in Ids(f) : x # Nil
    BY <1>0 DEF Ids, Nil, IsGraph
  <2> QED
    BY <1>0, <2>1, <2>2
<1>7. \A m \in Ids(f) : Ins(h, m) = Ins(g, m)
  BY <1>2, <1>5
<1>8. Completes(f, g, h, n, kind)
  BY <1>5, <1>6, <1>7 DEF Completes, H
<1>9. Grows(f, h, kind, {})
  BY <1>1, <1>8, NodeCompletes DEF n
<1> QED
  BY <1>9 DEF h, g, n, k, new_filled

\* The i-th input of n is set.
SetsInput(f, g, n, i, input) ==
  /\ IsGraph(g) /\ Alike(f, g)
  /\ \A m \in Ids(f) : m # n => Ins(g, m) = Ins(f, m)
  /\ DOMAIN Ins(g, n) = DOMAIN Ins(f, n)
  /\ \A j \in DOMAIN Ins(f, n) : Ins(g, n)[j] = IF j = i THEN input ELSE Ins(f, n)[j]

(* SetInputIs, under one name.                                             *)
LEMMA InputSets ==
  ASSUME NEW f, IsGraph(f), NEW n \in Ids(f), NEW input \in Ids(f), NEW i \in DOMAIN Ins(f, n)
  PROVE  SetsInput(f, set_input(f, n, input, i), n, i, input)
BY SetInputMakes DEF SetsInput

(* A node without inputs makes the graph grow.                             *)
LEMMA LeafMade ==
  ASSUME NEW f, Growing(f), NEW kind, kind \notin {"START", "END", "REGION", "PHI", "LOAD", "STORE"},
         NEW data, NEW flags
  PROVE  Grows(f, new_leaf(f, kind, data, flags), kind, {})
<1> DEFINE n == f.next_id
           fl == flags \cup {"IS_LEAF"}
           g == new_node(f, kind, 1, data, fl)
           s == f.start
           h == set_input(g, n, s, 1)
           H == Ids(g)
<1>0. IsGraph(f) /\ Matched(f, Ids(f)) /\ s \in Ids(f)
  BY DEF Growing
<1>1. Makes(f, g, n, kind, 1, data, fl)
  <2> HIDE DEF fl
  <2>1. 1 \in Nat
    OBVIOUS
  <2> QED
    BY <1>0, <2>1, NodeMade
<1>2. s # Nil /\ g.start = s
  BY <1>0, <1>1 DEF Ids, Nil, IsGraph, Makes
<1>3. new_leaf(f, kind, data, flags) = h
  <2>1. get_start(g) = g
    BY <1>2 DEF get_start, new_node
  <2>2. new_leaf(f, kind, data, flags) = set_input(get_start(g), n, get_start(g).start, 1)
    BY Zenon DEF new_leaf
  <2> QED
    BY <1>2, <2>1, <2>2
<1> HIDE DEF g, fl, s
<1>4. /\ IsGraph(g) /\ Ids(g) = Ids(f) \cup {n} /\ n \notin Ids(f)
      /\ \A m \in Ids(f) : g.node[m] = f.node[m]
      /\ Len(Ins(g, n)) = 1 /\ DOMAIN Ins(g, n) = 1..1 /\ \A i \in 1..1 : Ins(g, n)[i] = Nil
      /\ Uses(g, n) = <<>>
  BY <1>1 DEF Makes
<1> HIDE DEF n
<1>5. Matched(g, Ids(f) \cup {n})
  BY <1>0, <1>4, NewNodeMatched
<1>6. /\ s \in H /\ n \in H /\ Matched(g, H) /\ 1 \in DOMAIN Ins(g, n) /\ Ins(g, n)[1] = Nil
      /\ s \in Ids(g) /\ n \in Ids(g)
  BY <1>0, <1>4, <1>5
<1>7. Matched(h, H)
  BY <1>4, <1>6, SetInputMatched
<1>8. SetsInput(g, h, n, 1, s)
  BY <1>4, <1>6, InputSets
<1> HIDE DEF h
<1>9. \A i \in DOMAIN Ins(h, n) : Ins(h, n)[i] # Nil
  BY <1>2, <1>4, <1>6, <1>8 DEF SetsInput
<1>10. \A m \in Ids(f) : Ins(h, m) = Ins(g, m)
  BY <1>4, <1>8 DEF SetsInput
<1>11. Completes(f, g, h, n, kind)
  BY <1>7, <1>8, <1>9, <1>10 DEF Completes, SetsInput
<1>12. Grows(f, h, kind, {})
  BY <1>1, <1>11, NodeCompletes DEF n
<1> QED
  BY <1>3, <1>12

-----------------------------------------------------------------------------
\* Regions and phis that get their inputs.

\* g is f where the blank n has k inputs.
Fills(f, g, n, k) ==
  /\ Growing(g) /\ g.next_id = f.next_id /\ Ids(g) = Ids(f)
  /\ \A m \in Ids(f) : Kind(g, m) = Kind(f, m)
  /\ \A m \in Ids(f) : m # n => Ins(g, m) = Ins(f, m)
  /\ Len(Ins(g, n)) = k /\ Blank(g) = Blank(f) \ {n}

\* What is known of a node just filled with these inputs.
Filling(f, h, n, ins) ==
  /\ IsGraph(h) /\ Ids(h) = Ids(f) /\ h.next_id = f.next_id /\ Matched(h, Ids(f))
  /\ h.end = f.end /\ h.start = f.start
  /\ \A m \in Ids(f) : Kind(h, m) = Kind(f, m)
  /\ \A m \in Ids(f) : m # n => Ins(h, m) = Ins(f, m)
  /\ Ins(h, n) = ins

(* FilledIs, under one name.                                               *)
LEMMA NodeFilling ==
  ASSUME NEW f, Growing(f), NEW n \in Ids(f), Len(Ins(f, n)) = 0, NEW ins \in Seq(Ids(f))
  PROVE  Filling(f, Filled(f, n, ins), n, ins)
<1> DEFINE h == Filled(f, n, ins)
           H == Ids(f)
<1>0. IsGraph(f) /\ Matched(f, H) /\ n \in H /\ ins \in Seq(H)
  BY DEF Growing
<1>1. /\ IsGraph(h) /\ Alike(f, h) /\ Matched(h, H) /\ Ins(h, n) = ins
      /\ \A m \in Ids(f) : m # n => Ins(h, m) = Ins(f, m)
  <2> HIDE DEF H
  <2> QED
    BY <1>0, FilledIs
<1> HIDE DEF h
<1>2. Ids(h) = Ids(f)
  BY <1>1, AlikeIds
<1> QED
  BY <1>1, <1>2 DEF Filling, Alike, Kind, h

(* A region or phi that waited and gets its inputs waits no longer; the    *)
(* others do.                                                              *)
LEMMA BlankFills ==
  ASSUME NEW f, Growing(f), NEW n \in Blank(f), NEW ins \in Seq(Ids(f)), NEW h,
         Filling(f, h, n, ins), Len(ins) # 0,
         Kind(f, n) = "PHI" => /\ Kind(f, ins[1]) = "REGION" /\ Len(Ins(f, ins[1])) # 0
                               /\ Len(ins) = Len(Ins(f, ins[1])) + 1
  PROVE  Fills(f, h, n, Len(ins))
<1>0. /\ Matched(f, Ids(f)) /\ f.end = Nil /\ f.start \in Ids(f) /\ f.next_id \in Nat
      /\ \A m \in Ids(f) : Whole(f, m)
      /\ n \in Ids(f) /\ Kind(f, n) \in {"REGION", "PHI"} /\ Len(Ins(f, n)) = 0
  BY DEF Growing, Blank, IsGraph
<1>1. /\ IsGraph(h) /\ Ids(h) = Ids(f) /\ h.next_id = f.next_id /\ Matched(h, Ids(f))
      /\ h.end = f.end /\ h.start = f.start
      /\ \A m \in Ids(f) : Kind(h, m) = Kind(f, m)
      /\ \A m \in Ids(f) : m # n => Ins(h, m) = Ins(f, m)
      /\ Ins(h, n) = ins
  BY DEF Filling
<1>2. /\ Len(ins) \in Nat \ {0} /\ DOMAIN ins = 1..Len(ins)
      /\ \A i \in 1..Len(ins) : ins[i] \in Ids(f) /\ ins[i] # Nil
  <2>1. \A x \in Ids(f) : x # Nil
    BY <1>0 DEF Ids, Nil
  <2> QED
    BY <2>1
<1>3. ins[1] \in Ids(f)
  <2>1. 1 \in 1..Len(ins)
    <3> DEFINE k == Len(ins)
    <3>1. k \in Nat \ {0}
      BY <1>2
    <3> HIDE DEF k
    <3>2. 1 \in 1..k
      BY <3>1
    <3> QED
      BY <3>2 DEF k
  <2> QED
    BY <1>2, <2>1
<1>4. Whole(h, n)
  <2>1. Kind(f, n) = "PHI" => ins[1] # n
    BY <1>0
  <2> QED
    BY <1>0, <1>1, <1>2, <1>3, <2>1 DEF Whole
<1>5. ASSUME NEW m \in Ids(f), m # n PROVE Whole(h, m)
  <2>1. Whole(f, m) /\ (Len(Ins(f, m)) # 0 => Ins(f, m)[1] \in Ids(f))
    BY <1>0, InputsExist
  <2>2. Kind(h, m) = Kind(f, m) /\ Ins(h, m) = Ins(f, m)
    BY <1>1, <1>5
  <2>3. ASSUME Kind(f, m) = "PHI", Len(Ins(f, m)) # 0
        PROVE  /\ Ins(f, m)[1] \in Ids(f) /\ Ins(f, m)[1] # n
    BY <1>0, <2>1, <2>3 DEF Whole
  <2> QED
    BY <1>1, <2>1, <2>2, <2>3 DEF Whole
<1>6. Growing(h)
  BY <1>0, <1>1, <1>4, <1>5 DEF Growing
<1>7. Blank(h) = Blank(f) \ {n}
  <2>1. n \notin Blank(h)
    BY <1>1, <1>2 DEF Blank
  <2>2. \A m \in Ids(f) : m # n => (m \in Blank(h) <=> m \in Blank(f))
    BY <1>1 DEF Blank
  <2>3. Blank(h) \subseteq Ids(f) /\ Blank(f) \subseteq Ids(f)
    BY <1>1 DEF Blank
  <2> QED
    BY <2>1, <2>2, <2>3
<1> QED
  BY <1>1, <1>6, <1>7 DEF Fills

(* cb_set_region_ins ends the wait of a region.                            *)
LEMMA RegionFills ==
  ASSUME NEW f, Growing(f), NEW r \in Blank(f), Kind(f, r) = "REGION",
         NEW ins \in Seq(Ids(f)), Len(ins) # 0
  PROVE  Fills(f, cb_set_region_ins(f, r, ins), r, Len(ins))
<1>1. Filling(f, Filled(f, r, ins), r, ins)
  BY NodeFilling DEF Blank
<1>2. Fills(f, Filled(f, r, ins), r, Len(ins))
  BY <1>1, BlankFills
<1> QED
  BY <1>2 DEF cb_set_region_ins

(* cb_set_phi_ins ends the wait of a phi whose region has its inputs.      *)
LEMMA BlankPhiFills ==
  ASSUME NEW f, Growing(f), NEW p \in Blank(f), Kind(f, p) = "PHI",
         NEW region \in Ids(f), Kind(f, region) = "REGION",
         NEW ins \in Seq(Ids(f)), Len(ins) # 0, Len(ins) = Len(Ins(f, region))
  PROVE  Fills(f, cb_set_phi_ins(f, p, region, ins), p, Len(ins) + 1)
<1> DEFINE all == <<region>> \o ins
           h == Filled(f, p, all)
           g == cb_set_phi_ins(f, p, region, ins)
<1>1. /\ all \in Seq(Ids(f)) /\ Len(all) = Len(ins) + 1 /\ all[1] = region
  BY FirstOf
<1>2. Len(ins) \in Nat /\ Len(all) # 0 /\ p \in Ids(f) /\ Len(Ins(f, p)) = 0
  BY <1>1 DEF Blank
<1>3. g = h \/ g = [h EXCEPT !.node[p].flags = h.node[p].flags \cup {"PRODUCES_MEMORY"}]
  BY Zenon DEF cb_set_phi_ins
<1> HIDE DEF all
<1>4. Filling(f, h, p, all)
  BY <1>1, <1>2, NodeFilling
<1> HIDE DEF h, g
<1>5. Filling(f, g, p, all)
  <2>1. CASE g = h
    BY <1>4, <2>1
  <2>2. CASE g = [h EXCEPT !.node[p].flags = h.node[p].flags \cup {"PRODUCES_MEMORY"}]
    <3> DEFINE fl == h.node[p].flags \cup {"PRODUCES_MEMORY"}
    <3>1. g = [h EXCEPT !.node[p].flags = fl]
      BY <2>2
    <3> HIDE DEF fl
    <3>2. p \in Ids(h) /\ IsGraph(h) /\ Matched(h, Ids(f)) /\ Ids(h) = Ids(f)
      BY <1>2, <1>4 DEF Filling
    <3>3. Flagging(h, [h EXCEPT !.node[p].flags = fl], p)
      BY <3>2, FlagsSet
    <3>4. Flagging(h, g, p)
      BY <3>1, <3>3
    <3>5. \A m \in Ids(f) : Uses(g, m) = Uses(h, m) /\ Ins(g, m) = Ins(h, m)
      BY <3>2, <3>4 DEF Flagging
    <3>6. Matched(g, Ids(f))
      <4>1. Ids(f) \subseteq Ids(g)
        BY <3>2, <3>4 DEF Flagging
      <4> DEFINE H == Ids(f)
      <4>2. H \subseteq Ids(g) /\ Matched(h, H) /\ \A m \in H : Uses(g, m) = Uses(h, m) /\ Ins(g, m) = Ins(h, m)
        BY <3>2, <3>5, <4>1
      <4> HIDE DEF H
      <4>3. Matched(g, H)
        BY <4>2, MatchedSame
      <4> QED
        BY <4>3 DEF H
    <3> QED
      BY <1>2, <1>4, <3>2, <3>4, <3>6 DEF Flagging, Filling
  <2> QED
    BY <1>3, <2>1, <2>2
<1>6. region \in Ids(f) /\ all \in Seq(Ids(f)) /\ Len(all) = Len(Ins(f, region)) + 1
  BY <1>1
<1>7. Fills(f, g, p, Len(all))
  BY <1>1, <1>2, <1>5, <1>6, BlankFills
<1> QED
  BY <1>1, <1>7 DEF g

\* An ALLOCA is a leaf that counts itself.
LEMMA AllocaMade ==
  ASSUME NEW f, Growing(f)
  PROVE  Grows(f, cb_node_alloca(f), "ALLOCA", {})
<1> DEFINE h == new_leaf(f, "ALLOCA", f.allocas, {})
           g == [h EXCEPT !.allocas = @ + 1]
<1>1. Grows(f, h, "ALLOCA", {})
  <2>1. "ALLOCA" \notin {"START", "END", "REGION", "PHI", "LOAD", "STORE"}
    OBVIOUS
  <2> QED
    BY <2>1, LeafMade
<1> HIDE DEF h
<1>2. /\ Growing(h) /\ h.next_id = f.next_id + 1
  BY <1>1 DEF Grows
<1>3. /\ DOMAIN g = DOMAIN h /\ g.node = h.node /\ g.next_id = h.next_id /\ g.end = h.end
      /\ g.start = h.start
  BY <1>2 DEF Growing, IsGraph
<1> HIDE DEF g
<1>4. Ids(g) = Ids(h) /\ \A m : Ins(g, m) = Ins(h, m) /\ Uses(g, m) = Uses(h, m) /\ Kind(g, m) = Kind(h, m)
  BY <1>3 DEF Ids, Ins, Uses, Kind
<1>5. IsGraph(g)
  BY <1>2, <1>3, <1>4 DEF Growing, IsGraph
<1>6. Matched(g, Ids(h))
  <2> DEFINE H == Ids(h)
  <2>1. Matched(h, H) /\ H \subseteq Ids(g) /\ \A m \in H : Uses(g, m) = Uses(h, m) /\ Ins(g, m) = Ins(h, m)
    BY <1>2, <1>4 DEF Growing
  <2> HIDE DEF H
  <2>2. Matched(g, H)
    BY <2>1, MatchedSame
  <2> QED
    BY <2>2 DEF H
<1>7. Growing(g)
  BY <1>2, <1>3, <1>4, <1>5, <1>6 DEF Growing, Whole
<1>8. Grows(f, g, "ALLOCA", {})
  BY <1>1, <1>3, <1>4, <1>7 DEF Grows, Blank
<1>9. cb_node_alloca(f) = g
  BY Zenon DEF cb_node_alloca, g, h
<1> QED
  BY <1>8, <1>9

-----------------------------------------------------------------------------
\* The end of a function.

(* One field of each of the entries that wait for a region.                *)
IsList(z, S, m) == z \in Seq(S) /\ Len(z) = m

(* A function on 1..m is a sequence.                                       *)
LEMMA ListIs ==
  ASSUME NEW S, NEW m \in Nat, NEW t, \A i \in 1..m : t[i] \in S
  PROVE  IsList([i \in 1..m |-> t[i]], S, m)
BY DEF IsList

(* A function made from a sequence entry by entry is a sequence.           *)
LEMMA FieldsAre ==
  ASSUME NEW S, NEW s, Len(s) \in Nat, DOMAIN s = 1..Len(s),
         NEW t, t = [i \in DOMAIN s |-> t[i]], \A i \in DOMAIN s : t[i] \in S
  PROVE  t \in Seq(S) /\ Len(t) = Len(s)
<1> DEFINE m == Len(s)
           z == [i \in 1..m |-> t[i]]
<1>1. m \in Nat /\ \A i \in 1..m : t[i] \in S
  OBVIOUS
<1>2. t = z
  OBVIOUS
<1> HIDE DEF m
<1>3. IsList([i \in 1..m |-> t[i]], S, m)
  BY <1>1, ListIs
<1>4. IsList(z, S, m)
  BY <1>3
<1> HIDE DEF z
<1>5. IsList(t, S, m)
  BY <1>2, <1>4
<1> QED
  BY <1>5 DEF m, IsList

(* A graph whose END is made last holds all its nodes.                     *)
LEMMA EndAdded ==
  ASSUME NEW f, Growing(f), Blank(f) = {}, NEW r \in Ids(f), NEW m \in Ids(f), NEW v \in Ids(f)
  PROVE  LET g == cb_node_end(f, r, m, v) IN Held(g, Ids(g)) /\ NoEmptyPhi(g, Ids(g))
<1> DEFINE n == f.next_id
           ins == <<r, m, v>>
           fl == {"IS_CFG", "IS_PINNED"}
           e == new_node(f, "END", 3, 0, fl)
           h == set_inputs(e, n, ins)
           g == [h EXCEPT !.end = n]
           H == Ids(e)
<1>0. IsGraph(f) /\ Matched(f, Ids(f)) /\ f.end = Nil /\ \A x \in Ids(f) : Whole(f, x)
  BY DEF Growing
<1>1. Makes(f, e, n, "END", 3, 0, fl)
  <2>1. "END" # "START" /\ 3 \in Nat
    OBVIOUS
  <2> HIDE DEF fl
  <2> QED
    BY <1>0, <2>1, NodeMade
<1>2. Len(ins) = 3 /\ ins \in Seq(Ids(f)) /\ \A i \in 1..3 : ins[i] \in {r, m, v}
  OBVIOUS
<1>3. cb_node_end(f, r, m, v) = g
  BY <1>2, Zenon DEF cb_node_end, new_filled
<1> HIDE DEF e, fl
<1>4. /\ IsGraph(e) /\ Ids(e) = Ids(f) \cup {n} /\ n \notin Ids(f) /\ e.end = f.end /\ n \in Nat
      /\ \A x \in Ids(f) : e.node[x] = f.node[x]
      /\ e.node[n].kind = "END"
      /\ Len(Ins(e, n)) = 3 /\ DOMAIN Ins(e, n) = 1..3 /\ \A i \in 1..3 : Ins(e, n)[i] = Nil
      /\ Uses(e, n) = <<>>
  BY <1>1 DEF Makes
<1> HIDE DEF n
<1>5. Matched(e, Ids(f) \cup {n})
  BY <1>0, <1>4, NewNodeMatched
<1>6. ins \in Seq(H) /\ n \in H /\ Matched(e, H) /\ Len(Ins(e, n)) = Len(ins)
      /\ \A i \in DOMAIN Ins(e, n) : Ins(e, n)[i] = Nil
  <2>1. Ids(f) \subseteq H
    BY <1>4
  <2> HIDE DEF H, ins
  <2>2. ins \in Seq(H)
    BY <1>2, <2>1, SeqMonotonic
  <2> QED
    BY <1>2, <1>4, <1>5, <2>2 DEF H
<1> HIDE DEF ins, H
<1>7. /\ IsGraph(h) /\ Alike(e, h) /\ Matched(h, H) /\ Ins(h, n) = ins
      /\ \A x \in Ids(e) : x # n => Ins(h, x) = Ins(e, x)
  BY <1>4, <1>6, SetInputsIs
<1> HIDE DEF h
<1>8. Ids(h) = H
  BY <1>7, AlikeIds DEF H
<1>9. /\ DOMAIN g = DOMAIN h /\ g.node = h.node /\ g.next_id = h.next_id /\ g.end = n
  BY <1>7 DEF IsGraph
<1> HIDE DEF g
<1>10. Ids(g) = Ids(h) /\ \A x : Ins(g, x) = Ins(h, x) /\ Uses(g, x) = Uses(h, x) /\ Kind(g, x) = Kind(h, x)
  BY <1>9 DEF Ids, Ins, Uses, Kind
<1>11. IsGraph(g)
  BY <1>7, <1>9, <1>10 DEF IsGraph
<1>12. Matched(g, H)
  <2>1. H \subseteq Ids(g) /\ \A x \in H : Uses(g, x) = Uses(h, x) /\ Ins(g, x) = Ins(h, x)
    BY <1>8, <1>10
  <2> QED
    BY <1>7, <2>1, MatchedSame
<1>13. H = Ids(f) \cup {n}
  BY <1>4 DEF H
<1>14. /\ \A x \in Ids(f) : Kind(g, x) = Kind(f, x) /\ Ins(g, x) = Ins(f, x)
       /\ Kind(g, n) = "END" /\ Ins(g, n) = ins
  <2>1. \A x \in Ids(e) : Kind(h, x) = e.node[x].kind
    BY <1>7 DEF Alike, Kind
  <2>2. \A x \in Ids(f) : x \in Ids(e) /\ x # n /\ e.node[x].kind = Kind(f, x) /\ Ins(e, x) = Ins(f, x)
    BY <1>4 DEF Kind, Ins
  <2> QED
    BY <1>4, <1>7, <1>10, <2>1, <2>2
<1>15. \A x \in Ids(f) : /\ Kind(f, x) # "END" /\ \A i \in DOMAIN Ins(f, x) : Ins(f, x)[i] \in Ids(f)
                         /\ Len(Ins(f, x)) # 0 => Ins(f, x)[1] \in Ids(f)
  BY <1>0, InputsExist DEF Whole
<1>16. DOMAIN ins = 1..3 /\ \A i \in DOMAIN ins : ins[i] \in Ids(f)
  BY <1>2 DEF ins
<1>17. OneEnd(g)
  BY <1>4, <1>8, <1>9, <1>10, <1>13, <1>14, <1>15, <1>16 DEF OneEnd
<1>18. \A x \in Ids(f) : Kind(f, x) \in {"REGION", "PHI"} => Len(Ins(f, x)) # 0
  BY DEF Blank
<1>19. \A x \in Ids(f) : Shaped(g, x)
  <2> TAKE x \in Ids(f)
  <2>1. Whole(f, x) /\ Len(Ins(f, x)) \in Nat
    BY <1>0, InputsExist
  <2>2. Kind(f, x) = "REGION" => Len(Ins(f, x)) > 0
    BY <1>18, <2>1
  <2> QED
    BY <1>14, <1>15, <2>1, <2>2 DEF Whole, Shaped
<1>20. Shaped(g, n)
  <2>1. \A x \in Ids(f) : x # Nil
    BY <1>0 DEF Ids, Nil, IsGraph
  <2> QED
    BY <1>14, <1>16, <2>1 DEF Shaped
<1>21. Held(g, H)
  BY <1>9, <1>11, <1>12, <1>13, <1>17, <1>19, <1>20 DEF Held
<1>22. NoEmptyPhi(g, H)
  BY <1>13, <1>14, <1>18 DEF NoEmptyPhi
<1>23. Held(g, Ids(g)) /\ NoEmptyPhi(g, Ids(g))
  BY <1>8, <1>10, <1>21, <1>22
<1> QED
  BY <1>3, <1>23

(* The end of lowering, lower.c:192: with the region and phis for the      *)
(* paths that return, the graph is held and no phi waits.                  *)
LEMMA EndIsMade ==
  ASSUME NEW f, Growing(f), Blank(f) = {},
         NEW paths \in Seq([ctrl : Ids(f), mem : Ids(f), value : Ids(f)]), Len(paths) # 0
  PROVE  Held(EndMade(f, paths), Ids(EndMade(f, paths))) /\ NoEmptyPhi(EndMade(f, paths), Ids(EndMade(f, paths)))
<1> DEFINE r == f.next_id
           f1 == cb_node_region(f)
           f2 == cb_node_phi(f1)
           f3 == cb_node_phi(f2)
           ctrls == Ctrls(paths)
           mems == Mems(paths)
           values == [i \in DOMAIN paths |-> paths[i].value]
           c == cb_set_region_ins(f3, r, ctrls)
           m == cb_set_phi_ins(c, r + 1, r, mems)
           v == cb_set_phi_ins(m, r + 2, r, values)
           k == Len(paths)
<1>0. EndMade(f, paths) = cb_node_end(v, r, r + 1, r + 2)
  BY Zenon DEF EndMade
<1>1. /\ k \in Nat /\ k # 0 /\ DOMAIN paths = 1..k
      /\ \A i \in 1..k : /\ paths[i].ctrl \in Ids(f) /\ paths[i].mem \in Ids(f)
                         /\ paths[i].value \in Ids(f)
  <2> DEFINE N == Ids(f)
             R == [ctrl : N, mem : N, value : N]
  <2>1. paths \in Seq(R)
    OBVIOUS
  <2>2. \A x \in R : x.ctrl \in N /\ x.mem \in N /\ x.value \in N
    OBVIOUS
  <2> HIDE DEF R, N
  <2>3. Len(paths) \in Nat /\ DOMAIN paths = 1..Len(paths) /\ \A i \in 1..Len(paths) : paths[i] \in R
    BY <2>1
  <2> QED
    BY <2>2, <2>3 DEF N
<1>2. /\ ctrls \in Seq(Ids(f)) /\ Len(ctrls) = k
      /\ mems \in Seq(Ids(f)) /\ Len(mems) = k
      /\ values \in Seq(Ids(f)) /\ Len(values) = k
  <2>1. ctrls = [i \in DOMAIN paths |-> ctrls[i]] /\ \A i \in DOMAIN paths : ctrls[i] \in Ids(f)
    BY <1>1 DEF Ctrls
  <2>2. mems = [i \in DOMAIN paths |-> mems[i]] /\ \A i \in DOMAIN paths : mems[i] \in Ids(f)
    BY <1>1 DEF Mems
  <2>3. values = [i \in DOMAIN paths |-> values[i]] /\ \A i \in DOMAIN paths : values[i] \in Ids(f)
    BY <1>1
  <2>4. Len(paths) \in Nat /\ DOMAIN paths = 1..Len(paths)
    BY <1>1
  <2> HIDE DEF ctrls, mems, values, k
  <2>5. ctrls \in Seq(Ids(f)) /\ Len(ctrls) = Len(paths)
    BY <2>1, <2>4, FieldsAre
  <2>6. mems \in Seq(Ids(f)) /\ Len(mems) = Len(paths)
    BY <2>2, <2>4, FieldsAre
  <2>7. values \in Seq(Ids(f)) /\ Len(values) = Len(paths)
    BY <2>3, <2>4, FieldsAre
  <2> QED
    BY <2>5, <2>6, <2>7 DEF k
<1> HIDE DEF ctrls, mems, values, k
<1>3. Grows(f, f1, "REGION", {r})
  BY BlankMade DEF cb_node_region
<1> HIDE DEF f1
<1>4. /\ Growing(f1) /\ f1.next_id = r + 1 /\ Ids(f1) = Ids(f) \cup {r} /\ r \notin Ids(f)
      /\ r \in Nat /\ Kind(f1, r) = "REGION" /\ Blank(f1) = {r}
  BY <1>3 DEF Grows
<1>5. Grows(f1, f2, "PHI", {r + 1})
  <2>1. Grows(f1, f2, "PHI", {f1.next_id})
    BY <1>4, BlankMade DEF cb_node_phi
  <2> QED
    BY <1>4, <2>1
<1> HIDE DEF f2
<1>6. /\ Growing(f2) /\ f2.next_id = r + 2 /\ Ids(f2) = Ids(f) \cup {r, r + 1}
      /\ Kind(f2, r) = "REGION" /\ Kind(f2, r + 1) = "PHI" /\ Blank(f2) = {r, r + 1}
  <2>1. f1.next_id + 1 = r + 2
    BY <1>4
  <2> QED
    BY <1>4, <1>5, <2>1 DEF Grows
<1>7. Grows(f2, f3, "PHI", {r + 2})
  <2>1. Grows(f2, f3, "PHI", {f2.next_id})
    BY <1>6, BlankMade DEF cb_node_phi
  <2> QED
    BY <1>6, <2>1
<1> HIDE DEF f3
<1>8. /\ Growing(f3) /\ Ids(f3) = Ids(f) \cup {r, r + 1, r + 2}
      /\ Kind(f3, r) = "REGION" /\ Kind(f3, r + 1) = "PHI" /\ Kind(f3, r + 2) = "PHI"
      /\ Blank(f3) = {r, r + 1, r + 2}
  BY <1>6, <1>7 DEF Grows
<1>9. r + 1 # r /\ r + 2 # r /\ r + 1 # r + 2
  BY <1>4
<1>10. Fills(f3, c, r, k)
  <2>1. r \in Blank(f3) /\ ctrls \in Seq(Ids(f3)) /\ Len(ctrls) # 0
    <3>1. Ids(f) \subseteq Ids(f3)
      BY <1>8
    <3> QED
      BY <1>1, <1>2, <1>8, <3>1, SeqMonotonic
  <2>2. Fills(f3, c, r, Len(ctrls))
    BY <1>8, <2>1, RegionFills
  <2> QED
    BY <1>2, <2>2
<1> HIDE DEF c
<1>11. /\ Growing(c) /\ Ids(c) = Ids(f) \cup {r, r + 1, r + 2} /\ Blank(c) = {r + 1, r + 2}
       /\ Kind(c, r) = "REGION" /\ Kind(c, r + 1) = "PHI" /\ Kind(c, r + 2) = "PHI"
       /\ Len(Ins(c, r)) = k
  BY <1>8, <1>9, <1>10 DEF Fills
<1>12. Fills(c, m, r + 1, k + 1)
  <2>1. /\ r + 1 \in Blank(c) /\ mems \in Seq(Ids(c)) /\ Len(mems) # 0 /\ r \in Ids(c)
        /\ Len(mems) = Len(Ins(c, r))
    <3>1. Ids(f) \subseteq Ids(c)
      BY <1>11
    <3> QED
      BY <1>1, <1>2, <1>11, <3>1, SeqMonotonic
  <2>2. Fills(c, m, r + 1, Len(mems) + 1)
    BY <1>11, <2>1, BlankPhiFills
  <2> QED
    BY <1>2, <2>2
<1> HIDE DEF m
<1>13. /\ Growing(m) /\ Ids(m) = Ids(f) \cup {r, r + 1, r + 2} /\ Blank(m) = {r + 2}
       /\ Kind(m, r) = "REGION" /\ Kind(m, r + 2) = "PHI" /\ Len(Ins(m, r)) = k
  BY <1>9, <1>11, <1>12 DEF Fills
<1>14. Fills(m, v, r + 2, k + 1)
  <2>1. /\ r + 2 \in Blank(m) /\ values \in Seq(Ids(m)) /\ Len(values) # 0 /\ r \in Ids(m)
        /\ Len(values) = Len(Ins(m, r))
    <3>1. Ids(f) \subseteq Ids(m)
      BY <1>13
    <3> QED
      BY <1>1, <1>2, <1>13, <3>1, SeqMonotonic
  <2>2. Fills(m, v, r + 2, Len(values) + 1)
    BY <1>13, <2>1, BlankPhiFills
  <2> QED
    BY <1>2, <2>2
<1> HIDE DEF v
<1>15. Growing(v) /\ Blank(v) = {} /\ r \in Ids(v) /\ r + 1 \in Ids(v) /\ r + 2 \in Ids(v)
  BY <1>13, <1>14 DEF Fills
<1> DEFINE g == cb_node_end(v, r, r + 1, r + 2)
<1>16. Held(g, Ids(g)) /\ NoEmptyPhi(g, Ids(g))
  <2> DEFINE a == r + 1
             b == r + 2
  <2>1. a \in Ids(v) /\ b \in Ids(v)
    BY <1>15
  <2> HIDE DEF a, b, r
  <2>2. LET e == cb_node_end(v, r, a, b) IN Held(e, Ids(e)) /\ NoEmptyPhi(e, Ids(e))
    BY <1>15, <2>1, EndAdded
  <2> QED
    BY <2>2 DEF a, b
<1> HIDE DEF g
<1> QED
  BY <1>0, <1>16 DEF g

-----------------------------------------------------------------------------
\* The nodes that are not reached are cut off.

\* What the nodes of H need is in H.
Closed(f, H) ==
  /\ H \subseteq Ids(f) /\ f.end \in H
  /\ \A n \in H : \A i \in DOMAIN Ins(f, n) : Ins(f, n)[i] # Nil => Ins(f, n)[i] \in H

\* f where the nodes of H forget the users outside of H.
UsedBy(f, n, H) == Picked(Uses(f, n), {k \in DOMAIN Uses(f, n) : Uses(f, n)[k].node \in H})

Pruned(f, H) == [f EXCEPT !.node = [n \in Ids(f) |->
                   IF n \notin H THEN f.node[n] ELSE [f.node[n] EXCEPT !.uses = UsedBy(f, n, H)]]]

(* cb_finalize_func cuts off what its walk does not find, and what it      *)
(* finds is closed under inputs.                                           *)
LEMMA FinalIs ==
  ASSUME NEW f, IsGraph(f), f.end \in Ids(f)
  PROVE  \E H : Closed(f, H) /\ cb_finalize_func(f) = Pruned(f, H)
<1> DEFINE N == Ids(f)
           next == [n \in N |-> Inputs(f, n)]
           w == Walk(f, next)
           H == ToSet(w)
<1>1. \A n \in N : /\ next[n] \in Seq(N)
                   /\ ToSet(next[n]) = {Ins(f, n)[i] : i \in {j \in DOMAIN Ins(f, n) : Ins(f, n)[j] # Nil}}
  BY NextIs
<1>2. Walkable(f, next)
  <2>1. next \in [N -> Seq(N)]
    <3> HIDE DEF N
    <3> QED
      BY <1>1
  <2> HIDE DEF next
  <2> QED
    BY <2>1 DEF Walkable, IsGraph
<1> HIDE DEF next
<1>3. /\ w \in Seq(N) /\ f.end \in H
      /\ \A n \in H : ToSet(next[n]) \subseteq H
  BY <1>2, WalkIs
<1>4. H \subseteq N
  <2> HIDE DEF N, w
  <2> QED
    BY <1>3, ToSetIs
<1>5. cb_finalize_func(f) = Pruned(f, H)
  <2>1. H \in SUBSET Int
    BY <1>4 DEF Ids, IsGraph
  <2> DEFINE forgetting == [useful \in SUBSET Int |->
        [f EXCEPT !.node = [n \in Ids(f) |->
           IF n \notin useful THEN f.node[n]
           ELSE [f.node[n] EXCEPT !.uses =
                   Picked(@, {k \in DOMAIN @ : @[k].node \in useful})]]]]
  <2>2. cb_finalize_func(f) = forgetting[H]
    BY Zenon DEF cb_finalize_func, next
  <2> HIDE DEF H
  <2>3. forgetting[H] = Pruned(f, H)
    BY <2>1 DEF Pruned, UsedBy, Uses
  <2> QED
    BY <2>2, <2>3
<1> HIDE DEF w
<1>6. Closed(f, H)
  <2>1. \A n \in H : \A i \in DOMAIN Ins(f, n) : Ins(f, n)[i] # Nil => Ins(f, n)[i] \in H
    <3> TAKE n \in H
    <3> TAKE i \in DOMAIN Ins(f, n)
    <3>1. n \in N
      BY <1>4
    <3>2. Ins(f, n)[i] # Nil => Ins(f, n)[i] \in ToSet(next[n])
      BY <1>1, <3>1
    <3> QED
      BY <1>3, <3>2
  <2> QED
    BY <1>3, <1>4, <2>1 DEF Closed
<1> QED
  BY <1>5, <1>6

(* The uses that stay when only the nodes of H do.                         *)
LEMMA UsedByIs ==
  ASSUME NEW f, IsGraph(f), NEW n \in Ids(f), NEW H
  PROVE  LET s == UsedBy(f, n, H) IN
         /\ s \in Seq([node : Ids(f), index : Nat])
         /\ \A u : u \in ToSet(s) <=> u \in UseSet(f, n) /\ u.node \in H
         /\ Once(Uses(f, n)) => Once(s)
<1> DEFINE S == [node : Ids(f), index : Nat]
           u == Uses(f, n)
           at == {k \in DOMAIN u : u[k].node \in H}
           s == UsedBy(f, n, H)
<1>1. u \in Seq(S) /\ at \in SUBSET DOMAIN u
  BY NodeTypes
<1>2. s = Picked(u, at)
  BY DEF UsedBy
<1>3. \A k : k \in at <=> k \in DOMAIN u /\ u[k].node \in H
  OBVIOUS
<1> HIDE DEF S, u, at
<1>4. /\ Picked(u, at) \in Seq(S)
      /\ \A k \in DOMAIN Picked(u, at) : \E i \in at : Picked(u, at)[k] = u[i]
      /\ \A i \in at : \E k \in DOMAIN Picked(u, at) : Picked(u, at)[k] = u[i]
      /\ (\A i, j \in at : u[i] = u[j] => i = j) =>
           \A k, l \in DOMAIN Picked(u, at) : Picked(u, at)[k] = Picked(u, at)[l] => k = l
  BY <1>1, PickedSeq
<1>5. /\ s \in Seq(S)
      /\ \A k \in DOMAIN s : \E i \in at : s[k] = u[i]
      /\ \A i \in at : \E k \in DOMAIN s : s[k] = u[i]
      /\ (\A i, j \in at : u[i] = u[j] => i = j) =>
           \A k, l \in DOMAIN s : s[k] = s[l] => k = l
  BY <1>2, <1>4
<1> HIDE DEF s
<1>6. /\ \A x : x \in ToSet(s) <=> \E k \in DOMAIN s : s[k] = x
      /\ \A x : x \in UseSet(f, n) <=> \E k \in DOMAIN u : u[k] = x
  BY <1>1, <1>5, ToSetIs DEF UseSet, u
<1>7. \A x : x \in ToSet(s) <=> x \in UseSet(f, n) /\ x.node \in H
  BY <1>3, <1>5, <1>6
<1>8. Once(u) => Once(s)
  BY <1>3, <1>5 DEF Once
<1> QED
  BY <1>5, <1>7, <1>8 DEF s, u, S

\* s has the users of n that are in H.
UsersIn(s, f, n, H) == \A u : u \in ToSet(s) <=> u \in UseSet(f, n) /\ u.node \in H

(* The uses that stay, under one name.                                     *)
LEMMA UsersLeft ==
  ASSUME NEW f, IsGraph(f), NEW n \in Ids(f), NEW H
  PROVE  UsersIn(UsedBy(f, n, H), f, n, H)
BY UsedByIs DEF UsersIn

(* Cutting off nodes changes nothing but use lists.                        *)
LEMMA PrunedIs ==
  ASSUME NEW f, IsGraph(f), NEW H, H \subseteq Ids(f)
  PROVE  LET g == Pruned(f, H) IN
         /\ IsGraph(g) /\ Ids(g) = Ids(f) /\ g.end = f.end
         /\ \A m \in Ids(f) : Ins(g, m) = Ins(f, m) /\ Kind(g, m) = Kind(f, m)
         /\ \A m \in H : Uses(g, m) = UsedBy(f, m, H)
<1> DEFINE g == Pruned(f, H)
           S == [node : Ids(f), index : Nat]
<1>1. /\ DOMAIN f = {"node", "next_id", "start", "end", "allocas"}
      /\ f.next_id \in Nat /\ DOMAIN f.node = Ids(f)
      /\ \A m \in Ids(f) : IsNode(Ids(f), f.node[m])
  BY DEF IsGraph
<1>2. /\ DOMAIN g = {"node", "next_id", "start", "end", "allocas"}
      /\ g.next_id = f.next_id /\ g.end = f.end /\ DOMAIN g.node = Ids(f)
      /\ \A m \in Ids(f) : g.node[m] = IF m \notin H THEN f.node[m]
                                       ELSE [f.node[m] EXCEPT !.uses = UsedBy(f, m, H)]
  BY <1>1 DEF Pruned
<1> HIDE DEF g
<1>4. \A m \in H : UsedBy(f, m, H) \in Seq(S)
  <2> TAKE m \in H
  <2>1. m \in Ids(f)
    OBVIOUS
  <2> QED
    BY <2>1, UsedByIs
<1>5. \A m \in Ids(f) : /\ IsNode(Ids(f), g.node[m]) /\ g.node[m].ins = f.node[m].ins
                        /\ g.node[m].kind = f.node[m].kind
                        /\ m \in H => g.node[m].uses = UsedBy(f, m, H)
  <2> TAKE m \in Ids(f)
  <2>1. IsNode(Ids(f), f.node[m])
    BY <1>1
  <2>2. CASE m \notin H
    BY <1>2, <2>1, <2>2
  <2>3. CASE m \in H
    <3> DEFINE t == UsedBy(f, m, H)
    <3>1. t \in Seq(S) /\ g.node[m] = [f.node[m] EXCEPT !.uses = t]
      BY <1>2, <1>4, <2>3
    <3> HIDE DEF t
    <3>2. /\ DOMAIN f.node[m] = {"kind", "ins", "uses", "flags", "data"}
          /\ f.node[m].ins \in Seq(Ids(f) \cup {Nil})
      BY <2>1 DEF IsNode
    <3>3. /\ DOMAIN g.node[m] = {"kind", "ins", "uses", "flags", "data"}
          /\ g.node[m].uses = t /\ g.node[m].ins = f.node[m].ins /\ g.node[m].kind = f.node[m].kind
      BY <3>1, <3>2
    <3> QED
      BY <3>1, <3>2, <3>3 DEF IsNode, t
  <2> QED
    BY <2>2, <2>3
<1>6. Ids(g) = Ids(f)
  BY <1>2 DEF Ids
<1>7. IsGraph(g)
  BY <1>1, <1>2, <1>5, <1>6 DEF IsGraph
<1> QED
  BY <1>2, <1>5, <1>6, <1>7 DEF Ins, Kind, Uses, g

(* The nodes END needs hold the graph that lowering leaves.                *)
LEMMA FinalHeld ==
  ASSUME NEW f, Held(f, Ids(f)), NoEmptyPhi(f, Ids(f))
  PROVE  \E H : Held(cb_finalize_func(f), H) /\ NoEmptyPhi(cb_finalize_func(f), H)
<1>0. /\ IsGraph(f) /\ Matched(f, Ids(f)) /\ f.end \in Ids(f) /\ OneEnd(f)
      /\ \A n \in Ids(f) : Shaped(f, n)
  BY DEF Held
<1>1. PICK H : Closed(f, H) /\ cb_finalize_func(f) = Pruned(f, H)
  BY <1>0, FinalIs
<1>2. H \subseteq Ids(f) /\ f.end \in H
      /\ \A n \in H : \A i \in DOMAIN Ins(f, n) : Ins(f, n)[i] # Nil => Ins(f, n)[i] \in H
  BY <1>1 DEF Closed
<1> DEFINE g == Pruned(f, H)
<1>3. /\ IsGraph(g) /\ Ids(g) = Ids(f) /\ g.end = f.end
      /\ \A m \in Ids(f) : Ins(g, m) = Ins(f, m) /\ Kind(g, m) = Kind(f, m)
      /\ \A m \in H : Uses(g, m) = UsedBy(f, m, H)
  BY <1>0, <1>2, PrunedIs
<1> HIDE DEF g
<1>4. \A m \in H : \A u : u \in UseSet(g, m) <=> u \in UseSet(f, m) /\ u.node \in H
  <2> TAKE m \in H
  <2>1. m \in Ids(f) /\ UseSet(g, m) = ToSet(UsedBy(f, m, H))
    BY <1>2, <1>3 DEF UseSet
  <2> QED
    <3>1. UsersIn(UsedBy(f, m, H), f, m, H)
      BY <1>0, <2>1, UsersLeft
    <3> QED
      BY <2>1, <3>1 DEF UsersIn
<1>5. \A m \in H : Once(Uses(g, m))
  <2> TAKE m \in H
  <2>1. m \in Ids(f) /\ Once(Uses(f, m))
    BY <1>0, <1>2 DEF Matched
  <2> QED
    BY <1>0, <1>3, <2>1, UsedByIs
<1>6. UsesName(g, H)
  <2> SUFFICES ASSUME NEW n \in H, NEW u \in UseSet(g, n)
               PROVE  u.node \in H /\ u.index \in DOMAIN Ins(g, u.node) /\ Ins(g, u.node)[u.index] = n
    BY DEF UsesName
  <2>1. u \in UseSet(f, n) /\ u.node \in H /\ n \in Ids(f) /\ u.node \in Ids(f)
    BY <1>2, <1>4
  <2>2. u.index \in DOMAIN Ins(f, u.node) /\ Ins(f, u.node)[u.index] = n
    BY <1>0, <2>1 DEF Matched, UsesName
  <2> QED
    BY <1>3, <2>1, <2>2
<1>7. InsListed(g, H)
  <2> SUFFICES ASSUME NEW m \in H, NEW i \in DOMAIN Ins(g, m), Ins(g, m)[i] # Nil
               PROVE  Ins(g, m)[i] \in H /\ Use(m, i) \in UseSet(g, Ins(g, m)[i])
    BY DEF InsListed
  <2>1. m \in Ids(f) /\ Ins(g, m) = Ins(f, m)
    BY <1>2, <1>3
  <2>2. Ins(f, m)[i] \in H /\ Use(m, i) \in UseSet(f, Ins(f, m)[i])
    BY <1>0, <1>2, <2>1 DEF Matched, InsListed
  <2>3. Use(m, i).node = m
    BY DEF Use
  <2> QED
    BY <1>4, <2>1, <2>2, <2>3
<1>8. Matched(g, H)
  BY <1>2, <1>3, <1>5, <1>6, <1>7 DEF Matched
<1>9. OneEnd(g)
  BY <1>0, <1>3 DEF OneEnd
<1>10. \A n \in H : Shaped(g, n)
  <2> TAKE n \in H
  <2>1. n \in Ids(f) /\ Shaped(f, n) /\ (Len(Ins(f, n)) # 0 => Ins(f, n)[1] \in Ids(f))
    <3>1. n \in Ids(f) /\ Len(Ins(f, n)) \in Nat /\ \A i \in 1..Len(Ins(f, n)) : Ins(f, n)[i] \in Ids(f)
      BY <1>2, InputsAre
    <3>2. Len(Ins(f, n)) # 0 => 1 \in 1..Len(Ins(f, n))
      BY <3>1
    <3> QED
      BY <1>0, <3>1, <3>2
  <2> QED
    BY <1>3, <2>1 DEF Shaped
<1>11. Held(g, H)
  BY <1>2, <1>3, <1>8, <1>9, <1>10 DEF Held
<1>12. NoEmptyPhi(g, H)
  BY <1>2, <1>3 DEF NoEmptyPhi
<1> QED
  BY <1>1, <1>11, <1>12 DEF g

-----------------------------------------------------------------------------
\* What one step of lowering adds.

\* g is f with more nodes, none of them blank.
Grew(f, g) == /\ Growing(g) /\ f.next_id \in Nat /\ g.next_id \in Nat /\ g.next_id >= f.next_id
              /\ Ids(f) \subseteq Ids(g) /\ Blank(g) = Blank(f)
              /\ \A m \in Ids(f) : Kind(g, m) = Kind(f, m)

(* A graph that grew by one node has it as its newest.                     *)
LEMMA OneMore ==
  ASSUME NEW f, NEW g, NEW kind, Grows(f, g, kind, {})
  PROVE  Grew(f, g) /\ Growing(g) /\ f.next_id \in Ids(g) /\ Newest(g) \in Ids(g) /\ Newest(g) = f.next_id
BY DEF Grows, Grew, Newest

(* Growing twice is growing.                                               *)
LEMMA GrewTwice ==
  ASSUME NEW f, NEW g, NEW h, Grew(f, g), Grew(g, h)
  PROVE  Grew(f, h)
<1>1. /\ Growing(h) /\ f.next_id \in Nat /\ g.next_id \in Nat /\ h.next_id \in Nat
      /\ g.next_id >= f.next_id /\ h.next_id >= g.next_id
      /\ Ids(f) \subseteq Ids(g) /\ Ids(g) \subseteq Ids(h) /\ Blank(g) = Blank(f) /\ Blank(h) = Blank(g)
      /\ \A m \in Ids(f) : Kind(g, m) = Kind(f, m)
      /\ \A m \in Ids(g) : Kind(h, m) = Kind(g, m)
  BY DEF Grew
<1>2. h.next_id >= f.next_id
  BY <1>1
<1> QED
  BY <1>1, <1>2 DEF Grew

(* Growing by nothing is growing.                                          *)
LEMMA SameGrew ==
  ASSUME NEW f, Growing(f)
  PROVE  Grew(f, f)
BY DEF Growing, IsGraph, Grew

\* g is f with a new node made last.
Adds(f, g) == Grew(f, g) /\ Newest(g) \in Ids(g) /\ f.next_id \in Ids(g)

(* ADD, SUB, MUL and DIV add a node.                                       *)
LEMMA BinaryAdded ==
  ASSUME NEW f, Growing(f), NEW kind \in BinaryKinds, NEW a \in Ids(f), NEW b \in Ids(f)
  PROVE  Adds(f, new_binary(f, kind, a, b))
<1> DEFINE ins == <<a, b>>
           g == new_filled(f, kind, ins, 0, {})
<1>1. new_binary(f, kind, a, b) = g
  BY DEF new_binary
<1>2. ins \in Seq(Ids(f)) /\ kind \notin {"START", "END", "REGION", "PHI", "LOAD", "STORE"}
  BY DEF BinaryKinds
<1> HIDE DEF ins
<1>3. Grows(f, g, kind, {})
  BY <1>2, FullMade
<1> HIDE DEF g
<1> QED
  BY <1>1, <1>3, OneMore DEF Adds

(* A load adds a node.                                                     *)
LEMMA LoadAdded ==
  ASSUME NEW f, Growing(f), NEW c \in Ids(f), NEW m \in Ids(f), NEW a \in Ids(f)
  PROVE  Adds(f, cb_node_load(f, c, m, a))
<1> DEFINE ins == <<c, m, a>>
           fl == {"READS_MEMORY"}
           g == new_filled(f, "LOAD", ins, 0, fl)
<1>1. cb_node_load(f, c, m, a) = g
  BY DEF cb_node_load
<1>2. ins \in Seq(Ids(f)) /\ Len(ins) = 3
  OBVIOUS
<1> HIDE DEF ins, fl
<1>3. Grows(f, g, "LOAD", {})
  BY <1>2, FullMade
<1> HIDE DEF g
<1> QED
  BY <1>1, <1>3, OneMore DEF Adds

(* A store adds a node.                                                    *)
LEMMA StoreAdded ==
  ASSUME NEW f, Growing(f), NEW c \in Ids(f), NEW m \in Ids(f), NEW a \in Ids(f), NEW v \in Ids(f)
  PROVE  Adds(f, cb_node_store(f, c, m, a, v))
<1> DEFINE ins == <<c, m, a, v>>
           fl == {"PRODUCES_MEMORY", "IS_PINNED"}
           g == new_filled(f, "STORE", ins, 0, fl)
<1>1. cb_node_store(f, c, m, a, v) = g
  BY DEF cb_node_store
<1>2. ins \in Seq(Ids(f)) /\ Len(ins) = 4
  OBVIOUS
<1> HIDE DEF ins, fl
<1>3. Grows(f, g, "STORE", {})
  BY <1>2, FullMade
<1> HIDE DEF g
<1> QED
  BY <1>1, <1>3, OneMore DEF Adds

(* null and constants add a node.                                          *)
LEMMA LeafAdded ==
  ASSUME NEW f, Growing(f), NEW value
  PROVE  /\ Adds(f, cb_node_null(f)) /\ Adds(f, cb_node_constant(f, value))
<1>1. Grows(f, new_leaf(f, "NULL", 0, {}), "NULL", {})
  BY LeafMade
<1>2. Grows(f, new_leaf(f, "CONSTANT", value, {}), "CONSTANT", {})
  BY LeafMade
<1> QED
  BY <1>1, <1>2, OneMore DEF Adds, cb_node_null, cb_node_constant

\* A projection of a node.
LEMMA ProjAdded ==
  ASSUME NEW f, Growing(f), NEW kind \in {"START_CTRL", "START_MEM", "BRANCH_FALSE", "BRANCH_TRUE"},
         NEW n \in Ids(f), NEW flags
  PROVE  Grows(f, new_proj(f, kind, n, flags), kind, {})
<1> DEFINE ins == <<n>>
           fl == flags \cup {"IS_PROJ"}
<1>1. new_proj(f, kind, n, flags) = new_filled(f, kind, ins, 0, fl)
  BY DEF new_proj
<1>2. ins \in Seq(Ids(f))
  OBVIOUS
<1> HIDE DEF ins, fl
<1>3. Grows(f, new_filled(f, kind, ins, 0, fl), kind, {})
  BY <1>2, FullMade
<1> QED
  BY <1>1, <1>3

\* The branch is followed by its two projections.
HasBranch(f, g) == Grew(f, g) /\ f.next_id + 1 \in Ids(g) /\ f.next_id + 2 \in Ids(g)

(* A branch adds itself and its two projections.                           *)
LEMMA BranchAdded ==
  ASSUME NEW f, Growing(f), NEW c \in Ids(f), NEW p \in Ids(f)
  PROVE  HasBranch(f, cb_node_branch(f, c, p))
<1> DEFINE n == f.next_id
           proj == {"IS_CFG", "STARTS_BASIC_BLOCK", "IS_PINNED"}
           fl == {"IS_CFG", "IS_PINNED"}
           ins == <<c, p>>
           g == new_filled(f, "BRANCH", ins, 0, fl)
           h == new_proj(g, "BRANCH_FALSE", n, proj)
           e == new_proj(h, "BRANCH_TRUE", n, proj)
<1>1. cb_node_branch(f, c, p) = e
  BY Zenon DEF cb_node_branch
<1>2. ins \in Seq(Ids(f))
  OBVIOUS
<1> HIDE DEF ins, fl, proj
<1>3. Grows(f, g, "BRANCH", {})
  BY <1>2, FullMade
<1> HIDE DEF g
<1>4. /\ Growing(g) /\ g.next_id = n + 1 /\ Ids(g) = Ids(f) \cup {n} /\ n \in Nat
  BY <1>3 DEF Grows
<1>5. Grows(g, h, "BRANCH_FALSE", {})
  <2>1. n \in Ids(g)
    BY <1>4
  <2> HIDE DEF n
  <2> QED
    BY <1>4, <2>1, ProjAdded
<1> HIDE DEF h
<1>6. /\ Growing(h) /\ h.next_id = n + 2 /\ Ids(h) = Ids(f) \cup {n, n + 1}
  BY <1>4, <1>5 DEF Grows
<1>7. Grows(h, e, "BRANCH_TRUE", {})
  <2>1. n \in Ids(h)
    BY <1>6
  <2> HIDE DEF n
  <2> QED
    BY <1>6, <2>1, ProjAdded
<1> HIDE DEF e
<1>8. Ids(e) = Ids(f) \cup {n, n + 1, n + 2}
  BY <1>6, <1>7 DEF Grows
<1>9. Grew(f, e)
  <2>1. Grew(f, g) /\ Grew(g, h) /\ Grew(h, e)
    BY <1>3, <1>5, <1>7, OneMore
  <2> QED
    BY <2>1, GrewTwice
<1> HIDE DEF n
<1>10. HasBranch(f, e)
  BY <1>8, <1>9 DEF HasBranch, n
<1> QED
  BY <1>1, <1>10

-----------------------------------------------------------------------------
\* START alone.
LEMMA StartMade ==
  /\ Growing(get_start(cb_new_func)) /\ get_start(cb_new_func).next_id = 1
  /\ get_start(cb_new_func).start = 0 /\ Blank(get_start(cb_new_func)) = {}
<1> DEFINE f == cb_new_func
           fl == {"IS_CFG", "STARTS_BASIC_BLOCK", "IS_PINNED"}
           ins == init_ins(0)
           r == [kind |-> "START", ins |-> ins, uses |-> <<>>, flags |-> fl, data |-> 0]
           d == [m \in DOMAIN f.node \cup {f.next_id} |-> IF m \in DOMAIN f.node THEN f.node[m] ELSE r]
           g == get_start(f)
<1>1. /\ f.node = <<>> /\ f.next_id = 0 /\ f.start = Nil /\ f.end = Nil
      /\ DOMAIN f = {"node", "next_id", "start", "end", "allocas"} /\ DOMAIN f.node = {}
  BY DEF cb_new_func
<1>2. g = IF "START" = "START" /\ f.start # Nil THEN f
          ELSE [f EXCEPT !.node = d, !.next_id = f.next_id + 1,
                         !.start = IF "START" = "START" THEN f.next_id ELSE f.start]
  BY Zenon DEF get_start, new_node
<1> HIDE DEF f, ins, fl
<1>3. /\ DOMAIN r = {"kind", "ins", "uses", "flags", "data"} /\ r.kind = "START" /\ r.ins = ins
      /\ r.uses = <<>>
  OBVIOUS
<1>4. DOMAIN d = {0} /\ d[0] = r
  BY <1>1
<1> HIDE DEF r, d
<1>5. /\ DOMAIN g = {"node", "next_id", "start", "end", "allocas"}
      /\ g.next_id = 1 /\ g.node = d /\ g.start = 0 /\ g.end = Nil
  BY <1>1, <1>2
<1> HIDE DEF g
<1>6. Ids(g) = {0} /\ Kind(g, 0) = "START" /\ Ins(g, 0) = ins /\ Uses(g, 0) = <<>>
  BY <1>3, <1>4, <1>5 DEF Ids, Kind, Ins, Uses
<1>7. /\ ins \in Seq({0} \cup {Nil}) /\ Len(ins) = 0 /\ DOMAIN ins = {}
  <2>1. Nil \in {0} \cup {Nil} /\ 0 \in Nat /\ 1..0 = {}
    OBVIOUS
  <2>2. ins \in Seq({0} \cup {Nil}) /\ Len(ins) = 0 /\ DOMAIN ins = 1..0
    BY <2>1, InitInsAre DEF ins
  <2> QED
    BY <2>1, <2>2
<1>8. IsGraph(g)
  <2>1. <<>> \in Seq([node : {0}, index : Nat])
    OBVIOUS
  <2>2. IsNode({0}, r)
    BY <1>3, <1>7, <2>1 DEF IsNode
  <2> QED
    BY <1>4, <1>5, <1>6, <2>2 DEF IsGraph
<1>9. Matched(g, Ids(g))
  <2>1. UseSet(g, 0) = {} /\ Once(Uses(g, 0))
    BY <1>6 DEF UseSet, ToSet, Once
  <2> QED
    BY <1>6, <1>7, <2>1 DEF Matched, UsesName, InsListed
<1>10. Whole(g, 0)
  BY <1>6, <1>7 DEF Whole
<1>11. Growing(g)
  BY <1>5, <1>6, <1>8, <1>9, <1>10 DEF Growing
<1>12. Blank(g) = {}
  BY <1>6 DEF Blank
<1> QED
  BY <1>5, <1>11, <1>12 DEF g, f

\* START and its two projections are nodes 0, 1 and 2.
LEMMA FirstNodes ==
  LET g == cb_node_start(cb_new_func) IN Growing(g) /\ g.next_id = 3 /\ Blank(g) = {}
<1> DEFINE s == get_start(cb_new_func)
           fc == {"IS_CFG", "IS_PINNED"}
           fm == {"PRODUCES_MEMORY"}
           c == new_proj(s, "START_CTRL", s.start, fc)
           m == new_proj(c, "START_MEM", c.start, fm)
<1>1. cb_node_start(cb_new_func) = m
  BY Zenon DEF cb_node_start
<1> HIDE DEF fc, fm
<1>2. Growing(s) /\ s.next_id = 1 /\ s.start \in Ids(s) /\ Blank(s) = {}
  BY StartMade DEF Growing
<1> HIDE DEF s
<1>3. Grows(s, c, "START_CTRL", {})
  BY <1>2, ProjAdded
<1> HIDE DEF c
<1>4. Growing(c) /\ c.next_id = 2 /\ c.start \in Ids(c) /\ Blank(c) = {}
  BY <1>2, <1>3 DEF Grows, Growing
<1>5. Grows(c, m, "START_MEM", {})
  BY <1>4, ProjAdded
<1> HIDE DEF m
<1>6. Growing(m) /\ m.next_id = 3 /\ Blank(m) = {}
  BY <1>4, <1>5 DEF Grows
<1> QED
  BY <1>1, <1>6
==============================================================================
