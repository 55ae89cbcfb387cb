--------------------------- MODULE WorklistProofs ---------------------------
(***************************************************************************)
(* The sparse set of Worklist keeps its two vectors in step and implements *)
(* a set of nodes, for every set of node ids.  The invariants are          *)
(* inductive together and not alone: worklist_remove needs both directions *)
(* of the index to know that the node it moves is not the one it drops.    *)
(***************************************************************************)
EXTENDS Worklist, SequenceTheorems, TLAPS

(* The invariants, of the list l with vectors p and s.                     *)
InStep(l, p, s) ==
  /\ l = [packed |-> p, sparse |-> s]
  /\ p \in Seq(Node)
  /\ s \in Seq(Nat \cup {Absent})
  /\ \A i \in 1..Len(p) : p[i] + 1 \in 1..Len(s) /\ s[p[i] + 1] = i - 1
  /\ \A j \in 1..Len(s) :
       s[j] # Absent => s[j] + 1 \in 1..Len(p) /\ p[s[j] + 1] = j - 1

InStepSelf(l) == InStep(l, l.packed, l.sparse)

IndexOK == /\ InStep(w, w.packed, w.sparse)
           /\ popped \in Node \cup {NoNode}

(* The loop of worklist_add grows sparse to cover id and changes no entry. *)
LEMMA PaddedShape ==
  ASSUME NEW s \in Seq(Nat \cup {Absent}), NEW id \in Nat
  PROVE  /\ Padded(s, id) \in Seq(Nat \cup {Absent})
         /\ Len(Padded(s, id)) \in Nat
         /\ Len(Padded(s, id)) > id
         /\ Len(Padded(s, id)) >= Len(s)
         /\ \A i \in 1..Len(Padded(s, id)) :
              Padded(s, id)[i] = IF i <= Len(s) THEN s[i] ELSE Absent
<1>1. CASE id < Len(s)
  BY <1>1 DEF Padded
<1>2. CASE ~(id < Len(s))
  <2> DEFINE k == id + 1 - Len(s)
             t == [i \in 1..k |-> Absent]
  <2>1. k \in Nat /\ Len(s) + k > id
    BY <1>2
  <2>2. t \in Seq(Nat \cup {Absent}) /\ Len(t) = k /\ \A i \in 1..k : t[i] = Absent
    BY <2>1
  <2>3. Padded(s, id) = s \o t
    BY <1>2 DEF Padded
  <2> HIDE DEF k, t
  <2>4. /\ s \o t \in Seq(Nat \cup {Absent})
        /\ Len(s \o t) = Len(s) + k
        /\ \A i \in 1..(Len(s) + k) :
             (s \o t)[i] = IF i <= Len(s) THEN s[i] ELSE t[i - Len(s)]
    BY <2>1, <2>2
  <2>5. \A i \in 1..(Len(s) + k) : ~(i <= Len(s)) => i - Len(s) \in 1..k
    BY <2>1
  <2> QED
    BY <2>1, <2>2, <2>3, <2>4, <2>5
<1> QED
  BY <1>1, <1>2

(* The entries of a list in step are ids, and sparse covers them.          *)
LEMMA Entry ==
  ASSUME NEW l, NEW p, NEW s, InStep(l, p, s), NEW i \in 1..Len(p)
  PROVE  /\ p[i] \in Node /\ p[i] \in Nat
         /\ p[i] + 1 \in 1..Len(s) /\ s[p[i] + 1] = i - 1
<1>1. p \in Seq(Node)
  BY DEF InStep
<1>2. p[i] \in Node
  BY <1>1
<1>3. p[i] \in Nat
  BY <1>2, NodeAssumption
<1> QED
  BY <1>2, <1>3 DEF InStep

(* The vectors of a list in step are its fields.                           *)
LEMMA Fields ==
  ASSUME NEW l, NEW p, NEW s, InStep(l, p, s)
  PROVE  InStepSelf(l) /\ Elements(l) = {p[i] : i \in 1..Len(p)}
<1>1. l = [packed |-> p, sparse |-> s]
  BY DEF InStep
<1>2. l.packed = p /\ l.sparse = s
  BY <1>1
<1> QED
  BY <1>2 DEF InStepSelf, Elements

(* What worklist_add makes of a list in step.                              *)
LEMMA AddedOK ==
  ASSUME NEW l, NEW p, NEW s, InStep(l, p, s), NEW n \in Node
  PROVE  InStepSelf(Added(l, n)) /\ Elements(Added(l, n)) = Elements(l) \cup {n}
<1> DEFINE u == Padded(s, n)
<1>0. /\ n \in Nat /\ p \in Seq(Node) /\ s \in Seq(Nat \cup {Absent})
      /\ Len(p) \in Nat /\ Len(s) \in Nat
      /\ l.packed = p /\ l.sparse = s
  BY NodeAssumption DEF InStep
<1>1. /\ u \in Seq(Nat \cup {Absent})
      /\ Len(u) \in Nat
      /\ n + 1 \in 1..Len(u)
      /\ Len(u) >= Len(s)
      /\ \A i \in 1..Len(u) : u[i] = IF i <= Len(s) THEN s[i] ELSE Absent
  BY <1>0, PaddedShape
<1>2. \A i \in 1..Len(p) : p[i] + 1 \in 1..Len(u) /\ u[p[i] + 1] = i - 1
  BY <1>0, <1>1 DEF InStep
<1>3. \A j \in 1..Len(u) :
        u[j] # Absent => u[j] + 1 \in 1..Len(p) /\ p[u[j] + 1] = j - 1
  <2> SUFFICES ASSUME NEW j \in 1..Len(u), u[j] # Absent
               PROVE  u[j] + 1 \in 1..Len(p) /\ p[u[j] + 1] = j - 1
    OBVIOUS
  <2>1. j \in 1..Len(s) /\ u[j] = s[j]
    BY <1>0, <1>1
  <2> QED
    BY <2>1 DEF InStep
<1>4. Added(l, n) = IF u[n + 1] # Absent THEN [l EXCEPT !.sparse = u]
                    ELSE [packed |-> Append(p, n),
                          sparse |-> [u EXCEPT ![n + 1] = Len(p)]]
  BY <1>0 DEF Added
<1> HIDE DEF u
<1>5. CASE u[n + 1] # Absent
  <2>1. Added(l, n) = [packed |-> p, sparse |-> u]
    BY <1>4, <1>5 DEF InStep
  <2>2. u[n + 1] + 1 \in 1..Len(p) /\ p[u[n + 1] + 1] = n
    BY <1>0, <1>1, <1>3, <1>5
  <2>3. InStep(Added(l, n), p, u)
    BY <1>0, <1>1, <1>2, <1>3, <2>1 DEF InStep
  <2>4. n \in {p[i] : i \in 1..Len(p)}
    BY <2>2
  <2>5. Elements(l) = {p[i] : i \in 1..Len(p)}
    BY Fields
  <2>6. InStepSelf(Added(l, n)) /\ Elements(Added(l, n)) = {p[i] : i \in 1..Len(p)}
    BY <2>3, Fields
  <2> QED
    BY <2>4, <2>5, <2>6
<1>6. CASE u[n + 1] = Absent
  <2> DEFINE q == Append(p, n)
             t == [u EXCEPT ![n + 1] = Len(p)]
  <2>1. Added(l, n) = [packed |-> q, sparse |-> t]
    BY <1>4, <1>6
  <2>2. /\ q \in Seq(Node)
        /\ Len(q) = Len(p) + 1
        /\ q[Len(p) + 1] = n
        /\ \A i \in 1..Len(p) : q[i] = p[i]
    BY <1>0
  <2>3. /\ t \in Seq(Nat \cup {Absent})
        /\ Len(t) = Len(u)
        /\ t[n + 1] = Len(p)
        /\ \A j \in 1..Len(u) : j # n + 1 => t[j] = u[j]
    BY <1>0, <1>1
  <2> HIDE DEF q, t
  <2>4. ASSUME NEW i \in 1..Len(p)
        PROVE  p[i] # n /\ p[i] \in Nat
    <3>1. p[i] \in Nat
      BY Entry
    <3>2. u[p[i] + 1] = i - 1 /\ i - 1 # Absent
      BY <1>0, <1>2 DEF Absent
    <3> QED
      BY <1>6, <3>1, <3>2
  <2>5. ASSUME NEW i \in 1..Len(q)
        PROVE  q[i] + 1 \in 1..Len(t) /\ t[q[i] + 1] = i - 1
    <3>1. CASE i = Len(p) + 1
      BY <1>0, <1>1, <2>2, <2>3, <3>1
    <3>2. CASE i # Len(p) + 1
      <4>1. i \in 1..Len(p) /\ q[i] = p[i]
        BY <1>0, <2>2, <3>2
      <4>2. p[i] + 1 # n + 1 /\ p[i] + 1 \in 1..Len(u) /\ u[p[i] + 1] = i - 1
        BY <1>0, <1>2, <2>4, <4>1
      <4> QED
        BY <2>3, <4>1, <4>2
    <3> QED
      BY <3>1, <3>2
  <2>6. ASSUME NEW j \in 1..Len(t), t[j] # Absent
        PROVE  t[j] + 1 \in 1..Len(q) /\ q[t[j] + 1] = j - 1
    <3>1. CASE j = n + 1
      BY <1>0, <2>2, <2>3, <3>1
    <3>2. CASE j # n + 1
      <4>1. t[j] = u[j] /\ u[j] + 1 \in 1..Len(p) /\ p[u[j] + 1] = j - 1
        BY <1>3, <2>3, <2>6, <3>2
      <4> QED
        BY <1>0, <2>2, <4>1
    <3> QED
      BY <3>1, <3>2
  <2>7. InStep(Added(l, n), q, t)
    BY <2>1, <2>2, <2>3, <2>5, <2>6 DEF InStep
  <2>8. {q[i] : i \in 1..Len(q)} = {p[i] : i \in 1..Len(p)} \cup {n}
    <3>1. 1..Len(q) = 1..Len(p) \cup {Len(p) + 1}
      BY <1>0, <2>2
    <3> QED
      BY <2>2, <3>1
  <2>9. Elements(l) = {p[i] : i \in 1..Len(p)}
    BY Fields
  <2>10. InStepSelf(Added(l, n)) /\ Elements(Added(l, n)) = {q[i] : i \in 1..Len(q)}
    BY <2>7, Fields
  <2> QED
    BY <2>8, <2>9, <2>10
<1> QED
  BY <1>5, <1>6

(* What worklist_remove makes of a list in step.                           *)
LEMMA RemovedOK ==
  ASSUME NEW l, NEW p, NEW s, InStep(l, p, s), NEW n \in Node
  PROVE  InStepSelf(Removed(l, n)) /\ Elements(Removed(l, n)) = Elements(l) \ {n}
<1>0. /\ n \in Nat /\ p \in Seq(Node) /\ s \in Seq(Nat \cup {Absent})
      /\ Len(p) \in Nat /\ Len(s) \in Nat
      /\ l.packed = p /\ l.sparse = s
  BY NodeAssumption DEF InStep
<1>1. \A i \in 1..Len(p) : /\ p[i] \in Node /\ p[i] \in Nat
                            /\ p[i] + 1 \in 1..Len(s) /\ s[p[i] + 1] = i - 1
  BY Entry
<1>2. CASE ~Holds(l, n)
  <2>1. Removed(l, n) = l
    BY <1>2 DEF Removed
  <2>2. ASSUME NEW i \in 1..Len(p)
        PROVE  p[i] # n
    <3>1. s[p[i] + 1] # Absent /\ p[i] < Len(s)
      BY <1>0, <1>1 DEF Absent
    <3> QED
      BY <1>0, <1>2, <3>1 DEF Holds
  <2>3. InStepSelf(l) /\ Elements(l) = {p[i] : i \in 1..Len(p)}
    BY Fields
  <2> QED
    BY <2>1, <2>2, <2>3
<1>3. CASE Holds(l, n)
  <2> DEFINE x == s[n + 1]
             k == Len(p)
             z == p[k]
             q == [i \in 1..(k - 1) |-> IF i = x + 1 THEN z ELSE p[i]]
             t == [[s EXCEPT ![z + 1] = x] EXCEPT ![n + 1] = Absent]
  <2>1. Removed(l, n) = [packed |-> q, sparse |-> t]
    BY <1>0, <1>3 DEF Removed
  <2>2. n + 1 \in 1..Len(s) /\ x # Absent
    BY <1>0, <1>3 DEF Holds
  <2>3. x \in Nat /\ x + 1 \in 1..k /\ p[x + 1] = n
    <3>1. x + 1 \in 1..k /\ p[x + 1] = (n + 1) - 1
      BY <2>2 DEF InStep
    <3>2. x \in Nat
      BY <1>0, <2>2
    <3> QED
      BY <1>0, <3>1, <3>2
  <2>4. /\ k \in Nat /\ k # 0 /\ k \in 1..k /\ z \in Node /\ z \in Nat
        /\ z + 1 \in 1..Len(s) /\ s[z + 1] = k - 1
    <3>1. k \in 1..k
      BY <1>0, <2>3
    <3> QED
      BY <1>0, <1>1, <3>1
  <2>5. /\ q \in Seq(Node)
        /\ Len(q) = k - 1
        /\ \A i \in 1..(k - 1) : q[i] = IF i = x + 1 THEN z ELSE p[i]
    BY <1>0, <2>3, <2>4
  <2>6. /\ t \in Seq(Nat \cup {Absent})
        /\ Len(t) = Len(s)
        /\ t[n + 1] = Absent
        /\ z # n => t[z + 1] = x
        /\ \A i \in 1..Len(s) : i # n + 1 /\ i # z + 1 => t[i] = s[i]
    BY <1>0, <2>2, <2>3, <2>4
  <2>7. z = n <=> x = k - 1
    BY <1>0, <2>3, <2>4
  <2> HIDE DEF q, t, z, k, x
  <2>8. ASSUME NEW i \in 1..k, i # x + 1, i # k
        PROVE  i \in 1..(k - 1) /\ q[i] = p[i] /\ p[i] # n /\ p[i] # z
    <3>1. p[i] \in Nat /\ s[p[i] + 1] = i - 1 /\ i \in 1..(k - 1)
      BY <1>0, <1>1, <2>4, <2>8 DEF k
    <3>2. s[n + 1] = x /\ i - 1 # x /\ i - 1 # k - 1
      BY <2>3, <2>4, <2>8 DEF x
    <3> QED
      BY <2>4, <2>5, <2>8, <3>1, <3>2
  <2>9. ASSUME NEW i \in 1..Len(q)
        PROVE  q[i] + 1 \in 1..Len(t) /\ t[q[i] + 1] = i - 1
    <3>0. i \in 1..(k - 1) /\ i \in 1..k /\ i # k
      BY <2>4, <2>5
    <3>1. CASE i = x + 1
      <4>1. q[i] = z /\ z # n
        BY <2>3, <2>4, <2>5, <2>7, <3>0, <3>1
      <4> QED
        BY <2>3, <2>4, <2>6, <3>1, <4>1
    <3>2. CASE i # x + 1
      <4>1. q[i] = p[i] /\ p[i] # n /\ p[i] # z
        BY <2>8, <3>0, <3>2
      <4>2. p[i] \in Nat /\ p[i] + 1 \in 1..Len(s) /\ s[p[i] + 1] = i - 1
        BY <1>1, <3>0 DEF k
      <4>3. p[i] + 1 # n + 1 /\ p[i] + 1 # z + 1
        BY <1>0, <2>4, <4>1, <4>2, SMTT(30)
      <4>4. t[p[i] + 1] = s[p[i] + 1]
        BY <2>6, <4>2, <4>3
      <4> QED
        BY <2>6, <4>1, <4>2, <4>4
    <3> QED
      BY <3>1, <3>2
  <2>10. ASSUME NEW j \in 1..Len(t), t[j] # Absent
         PROVE  t[j] + 1 \in 1..Len(q) /\ q[t[j] + 1] = j - 1
    <3>0. j # n + 1 /\ j \in 1..Len(s)
      BY <2>6, <2>10
    <3>1. CASE j = z + 1
      <4>1. z # n /\ t[j] = x /\ x + 1 \in 1..(k - 1)
        BY <2>3, <2>4, <2>6, <2>7, <3>0, <3>1
      <4> QED
        BY <2>4, <2>5, <3>1, <4>1
    <3>2. CASE j # z + 1
      <4>1. t[j] = s[j] /\ s[j] # Absent
        BY <2>6, <2>10, <3>0, <3>2
      <4>2. s[j] + 1 \in 1..k /\ p[s[j] + 1] = j - 1 /\ s[j] \in Nat
        BY <1>0, <3>0, <4>1 DEF InStep, k
      <4>3. s[j] # k - 1 /\ s[j] # x
        <5>1. s[j] = k - 1 => p[k] = j - 1
          BY <2>4, <4>2
        <5>2. s[j] = x => n = j - 1
          BY <2>3, <4>2
        <5> QED
          BY <1>0, <2>4, <3>0, <3>2, <5>1, <5>2, SMTT(30) DEF z
      <4>4. s[j] + 1 # x + 1 /\ s[j] + 1 # k
        BY <2>3, <2>4, <4>2, <4>3, SMTT(30)
      <4>5. s[j] + 1 \in 1..(k - 1) /\ q[s[j] + 1] = p[s[j] + 1]
        BY <2>8, <4>2, <4>4
      <4> QED
        BY <2>5, <4>1, <4>2, <4>5
    <3> QED
      BY <3>1, <3>2
  <2>11. {q[i] : i \in 1..Len(q)} = {p[i] : i \in 1..Len(p)} \ {n}
    <3>1. ASSUME NEW i \in 1..Len(q)
          PROVE  q[i] # n /\ \E j \in 1..Len(p) : q[i] = p[j]
      <4>0. i \in 1..(k - 1) /\ i \in 1..k /\ i # k
        BY <2>4, <2>5
      <4>1. CASE i = x + 1
        BY <2>3, <2>4, <2>5, <2>7, <4>0, <4>1 DEF z, k
      <4>2. CASE i # x + 1
        BY <2>8, <4>0, <4>2 DEF k
      <4> QED
        BY <4>1, <4>2
    <3>2. ASSUME NEW i \in 1..Len(p), p[i] # n
          PROVE  \E j \in 1..Len(q) : q[j] = p[i]
      <4>1. CASE i = k
        <5>1. p[i] = z /\ x + 1 \in 1..(k - 1)
          BY <2>3, <2>4, <2>7, <3>2, <4>1 DEF z
        <5> QED
          BY <2>5, <5>1
      <4>2. CASE i # k
        <5>1. i \in 1..k /\ i # x + 1
          BY <2>3, <3>2 DEF k
        <5> QED
          BY <2>5, <2>8, <4>2, <5>1
      <4> QED
        BY <4>1, <4>2
    <3> QED
      BY <3>1, <3>2, SMTT(30)
  <2>12. InStep(Removed(l, n), q, t)
    BY <2>1, <2>5, <2>6, <2>9, <2>10 DEF InStep
  <2>13. Elements(l) = {p[i] : i \in 1..Len(p)}
    BY Fields
  <2>14. /\ InStepSelf(Removed(l, n))
         /\ Elements(Removed(l, n)) = {q[i] : i \in 1..Len(q)}
    BY <2>12, Fields
  <2> QED
    BY <2>11, <2>13, <2>14
<1> QED
  BY <1>2, <1>3

(* What worklist_pop makes of a list in step.                              *)
LEMMA PoppedOK ==
  ASSUME NEW l, NEW p, NEW s, InStep(l, p, s), p # <<>>
  PROVE  /\ Top(l) \in Node
         /\ Top(l) \in Elements(l)
         /\ InStepSelf(Popped(l))
         /\ Elements(Popped(l)) = Elements(l) \ {Top(l)}
<1> DEFINE k == Len(p)
           z == p[k]
           q == SubSeq(p, 1, k - 1)
           t == [s EXCEPT ![z + 1] = Absent]
<1>0. /\ p \in Seq(Node) /\ s \in Seq(Nat \cup {Absent})
      /\ Len(p) \in Nat /\ Len(s) \in Nat
      /\ l.packed = p /\ l.sparse = s
  BY DEF InStep
<1>1. \A i \in 1..Len(p) : /\ p[i] \in Node /\ p[i] \in Nat
                            /\ p[i] + 1 \in 1..Len(s) /\ s[p[i] + 1] = i - 1
  BY Entry
<1>2. k \in Nat /\ k # 0 /\ k \in 1..k
  BY <1>0
<1>3. Top(l) = z /\ Popped(l) = [packed |-> q, sparse |-> t]
  BY <1>0 DEF Top, Popped
<1>4. z \in Node /\ z \in Nat /\ z + 1 \in 1..Len(s) /\ s[z + 1] = k - 1
  BY <1>1, <1>2
<1>5. /\ q \in Seq(Node)
      /\ Len(q) = k - 1
      /\ \A i \in 1..(k - 1) : q[i] = p[i]
  <2>1. \A i \in 1..(k - 1) : p[i] \in Node
    BY <1>1, <1>2
  <2>2. /\ q \in Seq(Node)
        /\ Len(q) = IF 1 <= k - 1 THEN (k - 1) - 1 + 1 ELSE 0
        /\ \A i \in 1..((k - 1) - 1 + 1) : q[i] = p[1 + i - 1]
    <3> HIDE DEF k
    <3>1. k - 1 \in Int /\ 1 \in Int
      BY <1>2
    <3> QED
      BY <2>1, <3>1, SubSeqProperties
  <2> HIDE DEF q, k
  <2>3. Len(q) = k - 1
    BY <1>2, <2>2
  <2>4. \A i \in 1..(k - 1) : i \in 1..((k - 1) - 1 + 1) /\ 1 + i - 1 = i
    BY <1>2
  <2> QED
    BY <2>2, <2>3, <2>4
<1>6. /\ t \in Seq(Nat \cup {Absent})
      /\ Len(t) = Len(s)
      /\ t[z + 1] = Absent
      /\ \A j \in 1..Len(s) : j # z + 1 => t[j] = s[j]
  BY <1>0, <1>4
<1> HIDE DEF t, z, k, q
<1>7. ASSUME NEW i \in 1..Len(q)
      PROVE  q[i] = p[i] /\ i \in 1..Len(p) /\ q[i] # z
  <2>1. i \in 1..(k - 1) /\ i \in 1..k /\ i # k /\ q[i] = p[i]
    BY <1>2, <1>5
  <2>2. s[p[i] + 1] = i - 1 /\ i - 1 # k - 1
    BY <1>1, <1>2, <2>1 DEF k
  <2> QED
    BY <1>4, <2>1, <2>2 DEF k
<1>8. ASSUME NEW i \in 1..Len(q)
      PROVE  q[i] + 1 \in 1..Len(t) /\ t[q[i] + 1] = i - 1
  <2>1. p[i] \in Nat /\ p[i] + 1 \in 1..Len(s) /\ s[p[i] + 1] = i - 1
    BY <1>1, <1>7
  <2>2. p[i] + 1 # z + 1
    BY <1>4, <1>7, <2>1
  <2> QED
    BY <1>6, <1>7, <2>1, <2>2
<1>9. ASSUME NEW j \in 1..Len(t), t[j] # Absent
      PROVE  t[j] + 1 \in 1..Len(q) /\ q[t[j] + 1] = j - 1
  <2>1. j # z + 1 /\ j \in 1..Len(s) /\ t[j] = s[j]
    BY <1>6, <1>9
  <2>2. s[j] + 1 \in 1..k /\ p[s[j] + 1] = j - 1 /\ s[j] \in Nat
    BY <1>0, <1>9, <2>1 DEF InStep, k
  <2>3. s[j] + 1 # k
    BY <1>4, <2>1, <2>2 DEF z
  <2> QED
    BY <1>2, <1>5, <2>1, <2>2, <2>3
<1>10. {q[i] : i \in 1..Len(q)} = {p[i] : i \in 1..Len(p)} \ {z}
  <2>1. ASSUME NEW i \in 1..Len(p), p[i] # z
        PROVE  i \in 1..Len(q) /\ q[i] = p[i]
    BY <1>2, <1>5, <2>1 DEF z, k
  <2> QED
    BY <1>7, <2>1
<1>11. InStep(Popped(l), q, t)
  BY <1>3, <1>5, <1>6, <1>8, <1>9 DEF InStep
<1>12. z \in {p[i] : i \in 1..Len(p)}
  BY <1>2 DEF z, k
<1>13. Elements(l) = {p[i] : i \in 1..Len(p)}
  BY Fields
<1>14. /\ InStepSelf(Popped(l))
       /\ Elements(Popped(l)) = {q[i] : i \in 1..Len(q)}
  BY <1>11, Fields
<1> QED
  BY <1>3, <1>4, <1>10, <1>12, <1>13, <1>14

(* The empty worklist is in step.                                          *)
LEMMA InitOK == Init => IndexOK /\ Members = {} /\ popped = NoNode
BY DEF Init, Empty, IndexOK, InStep, Members, Elements

(* worklist_add keeps the vectors in step and adds one member.             *)
LEMMA AddStep ==
  ASSUME IndexOK, NEW n \in Node, worklist_add(n)
  PROVE  IndexOK' /\ Members' = Members \cup {n} /\ popped' = popped
<1>1. InStepSelf(Added(w, n)) /\ Elements(Added(w, n)) = Elements(w) \cup {n}
  BY AddedOK DEF IndexOK
<1>2. w' = Added(w, n) /\ popped' = popped
  BY DEF worklist_add
<1> QED
  BY <1>1, <1>2 DEF IndexOK, InStepSelf, Members, Elements

(* worklist_remove keeps the vectors in step and takes out one member.     *)
LEMMA RemoveStep ==
  ASSUME IndexOK, NEW n \in Node, worklist_remove(n)
  PROVE  IndexOK' /\ Members' = Members \ {n} /\ popped' = popped
<1>1. InStepSelf(Removed(w, n)) /\ Elements(Removed(w, n)) = Elements(w) \ {n}
  BY RemovedOK DEF IndexOK
<1>2. w' = Removed(w, n) /\ popped' = popped
  BY DEF worklist_remove
<1> QED
  BY <1>1, <1>2 DEF IndexOK, InStepSelf, Members, Elements

(* worklist_pop keeps the vectors in step and takes out what it returns.   *)
LEMMA PopStep ==
  ASSUME IndexOK, worklist_pop
  PROVE  /\ IndexOK'
         /\ popped' \in Node
         /\ popped' \in Members
         /\ Members' = Members \ {popped'}
<1>1. Top(w) \in Node /\ Top(w) \in Members
  BY PoppedOK DEF IndexOK, Members, worklist_pop
<1>2. InStepSelf(Popped(w)) /\ Elements(Popped(w)) = Elements(w) \ {Top(w)}
  BY PoppedOK DEF IndexOK, worklist_pop
<1>3. w' = Popped(w) /\ popped' = Top(w)
  BY DEF worklist_pop
<1> QED
  BY <1>1, <1>2, <1>3 DEF IndexOK, InStepSelf, Members, Elements

(* reset_context leaves the empty worklist.                                *)
LEMMA ResetStep ==
  ASSUME IndexOK, reset_context
  PROVE  IndexOK' /\ Members' = {} /\ popped' = popped
<1>1. w' = Empty /\ popped' = popped
  BY DEF reset_context
<1>2. InStep(Empty, <<>>, <<>>)
  BY DEF Empty, InStep
<1>3. InStep(w, w.packed, w.sparse)' /\ Members' = {<<>>[i] : i \in 1..Len(<<>>)}
  BY <1>1, <1>2 DEF Empty, InStep, Members, Elements
<1>4. 1..Len(<<>>) = {}
  OBVIOUS
<1> QED
  BY <1>1, <1>3, <1>4 DEF IndexOK

(* The inductive invariant gives the three invariants of Worklist.         *)
LEMMA IndexMeans == IndexOK => TypeOK /\ PackedIsIndexed /\ SparseIsExact
<1> SUFFICES ASSUME IndexOK PROVE TypeOK /\ PackedIsIndexed /\ SparseIsExact
  OBVIOUS
<1> DEFINE p == w.packed
           s == w.sparse
<1>1. InStep(w, p, s) /\ popped \in Node \cup {NoNode}
  BY DEF IndexOK
<1> HIDE DEF p, s
<1>2. w = [packed |-> p, sparse |-> s] /\ p \in Seq(Node) /\ s \in Seq(Nat \cup {Absent})
  BY <1>1 DEF InStep
<1>3. TypeOK
  BY <1>1, <1>2 DEF TypeOK
<1>4. PackedIsIndexed /\ SparseIsExact
  BY <1>1 DEF InStep, PackedIsIndexed, SparseIsExact, p, s
<1> QED
  BY <1>3, <1>4

(* Every step keeps the vectors in step.                                   *)
LEMMA InvariantStep == IndexOK /\ [Next]_vars => IndexOK'
<1> SUFFICES ASSUME IndexOK, [Next]_vars
             PROVE  IndexOK'
  OBVIOUS
<1>1. CASE worklist_pop
  BY <1>1, PopStep
<1>2. CASE reset_context
  BY <1>2, ResetStep
<1>3. ASSUME NEW n \in Node, worklist_add(n)
      PROVE  IndexOK'
  BY <1>3, AddStep
<1>4. ASSUME NEW n \in Node, worklist_remove(n)
      PROVE  IndexOK'
  BY <1>4, RemoveStep
<1>5. CASE UNCHANGED vars
  BY <1>5 DEF vars, IndexOK, InStep
<1> QED
  BY <1>1, <1>2, <1>3, <1>4, <1>5 DEF Next

(* The two vectors of the worklist are in step in every reachable state:   *)
(* opt.c may test sparse alone to know whether a node is queued.           *)
THEOREM WorklistInvariant == Spec => [](TypeOK /\ PackedIsIndexed /\ SparseIsExact)
<1>1. Init => IndexOK
  BY InitOK
<1> QED
  BY <1>1, InvariantStep, IndexMeans, PTL DEF Spec

(* The worklist is a set of nodes: a removed node is never popped, and     *)
(* none is lost or popped twice.                                           *)
THEOREM WorklistImplementsNodeSet == Spec => ImplementsNodeSet
<1>1. Init => Set!Init
  BY InitOK DEF Set!Init
<1>2. IndexOK /\ [Next]_vars => [Set!Next]_Set!vars
  <2> SUFFICES ASSUME IndexOK, [Next]_vars
               PROVE  [Set!Next]_Set!vars
    OBVIOUS
  <2>1. CASE worklist_pop
    BY <2>1, PopStep DEF Set!Next, Set!Pop
  <2>2. CASE reset_context
    BY <2>2, ResetStep DEF Set!Next, Set!Clear
  <2>3. ASSUME NEW n \in Node, worklist_add(n)
        PROVE  Set!Next
    BY <2>3, AddStep DEF Set!Next, Set!Add
  <2>4. ASSUME NEW n \in Node, worklist_remove(n)
        PROVE  Set!Next
    BY <2>4, RemoveStep DEF Set!Next, Set!Remove
  <2>5. CASE UNCHANGED vars
    BY <2>5 DEF vars, Set!vars, Members
  <2> QED
    BY <2>1, <2>2, <2>3, <2>4, <2>5 DEF Next
<1>3. Init => IndexOK
  BY InitOK
<1> QED
  BY <1>1, <1>2, <1>3, InvariantStep, PTL DEF Spec, ImplementsNodeSet, Set!Spec
=============================================================================
