--------------------------- MODULE GvnTableProofs ---------------------------
(***************************************************************************)
(* The value table keeps every entry reachable and one entry per value,    *)
(* and so implements ValueTable, for every hash function and capacity.     *)
(* The proof never looks into the arithmetic of the probe: it uses only    *)
(* that the probe of a content is a fixed sequence of slots.               *)
(***************************************************************************)
EXTENDS GvnTable, WellFoundedInduction, TLAPS

Free == {NULL, TOMBSTONE}

\* EntriesAreReachable and NoTwoIdentical, of any table and contents.
Reachable(tab, cont) ==
  \A s \in Slots(tab) : tab.slot[s] \in Node => Reaches(tab, cont[tab.slot[s]], s)

Unique(tab, cont) ==
  \A r, s \in Slots(tab) :
    /\ tab.slot[r] \in Node /\ tab.slot[s] \in Node
    /\ cont[tab.slot[r]] = cont[tab.slot[s]]
    => r = s

\* No entry of tab has the content c.
Unknown(tab, cont, c) ==
  \A r \in Slots(tab) : tab.slot[r] \in Node => cont[tab.slot[r]] # c

(* While the table grows: the entries still to move are pairwise different *)
(* and different from those moved.                                         *)
Growing ==
  mode = "grow" =>
    /\ \A r, s \in next..(old.capacity - 1) :
         /\ old.slot[r] \in Node /\ old.slot[s] \in Node
         /\ content[old.slot[r]] = content[old.slot[s]]
         => r = s
    /\ \A s \in next..(old.capacity - 1) :
         old.slot[s] \in Node => Unknown(t, content, content[old.slot[s]])

(* The inductive invariant.                                                *)
Inv == TypeOK /\ Reachable(t, content) /\ Unique(t, content) /\ Growing

-----------------------------------------------------------------------------
(* Every set of natural numbers has a least element.                       *)
LEMMA LeastOf ==
  ASSUME NEW S, S \subseteq Nat, S # {}
  PROVE  Least(S) \in S /\ \A j \in S : Least(S) <= j
<1>1. \E x \in S : \A y \in S : ~(<<y, x>> \in OpToRel(<, Nat))
  BY WFMin, NatLessThanWellFounded
<1>2. PICK x \in S : \A y \in S : ~(<<y, x>> \in OpToRel(<, Nat))
  BY <1>1
<1>3. ASSUME NEW y \in S
      PROVE  x <= y
  <2>1. x \in Nat /\ y \in Nat
    OBVIOUS
  <2>2. <<y, x>> \in Nat \X Nat /\ <<y, x>>[1] = y /\ <<y, x>>[2] = x
    BY <2>1
  <2>3. ~(y < x)
    BY <1>2, <2>2 DEF OpToRel
  <2> QED
    BY <2>1, <2>3
<1> QED
  BY <1>3 DEF Least

(* The probe of a content stays in the table.                              *)
LEMMA ProbeInSlots ==
  ASSUME NEW tab, tab.capacity \in Nat, tab.capacity # 0,
         NEW c \in Content, NEW j \in Nat
  PROVE  Probe(tab, c, j) \in Slots(tab)
<1>1. Hash[c] + j \in Nat
  BY HashAssumption
<1> QED
  BY <1>1 DEF Probe, Slots

(* find returns an identical node, or a free slot when no entry that its   *)
(* probe can reach is identical.                                           *)
LEMMA FindReturns ==
  ASSUME content \in [Node -> Content],
         NEW tab, Shaped(tab), NEW n \in Node, NEW by_ptr \in BOOLEAN,
         NEW x, x = find(tab, n, by_ptr), x # NotFound
  PROVE  /\ x \in Slots(tab)
         /\ \/ tab.slot[x] \in Node /\ nodes_ident(tab.slot[x], n, by_ptr)
            \/ /\ tab.slot[x] \in Free
               /\ Reaches(tab, content[n], x)
               /\ \A s \in Slots(tab) :
                    tab.slot[s] \in Node /\ Reaches(tab, content[n], s)
                    => ~nodes_ident(tab.slot[s], n, by_ptr)
<1> DEFINE c == content[n]
           at(j) == tab.slot[Probe(tab, c, j)]
           stops == Stops(tab, n, by_ptr)
           j == Least(stops)
           e == Least(Empties(tab, n))
<1>1. stops # {}
  BY DEF find
<1>2. /\ tab.capacity \in Nat /\ tab.capacity # 0 /\ c \in Content
      /\ Slots(tab) \subseteq Nat
  BY <1>1 DEF Shaped, Stops, Slots
<1>3. \A i \in Slots(tab) : Probe(tab, c, i) \in Slots(tab)
  BY <1>2, ProbeInSlots
<1>4. \A i \in Slots(tab) : at(i) \in Node \cup Free
  BY <1>3 DEF Shaped, Free
<1>5. \A i : i \in stops <=> /\ i \in Slots(tab)
                             /\ \/ at(i) = NULL
                                \/ at(i) \in Node /\ nodes_ident(at(i), n, by_ptr)
  BY DEF Stops
<1>6. stops \subseteq Nat /\ stops \subseteq Slots(tab)
  BY <1>2, <1>5
<1>7. j \in stops /\ \A i \in stops : j <= i
  BY <1>1, <1>6, LeastOf
<1>8. x = Probe(tab, c, IF at(j) \in Node THEN j ELSE e)
  BY <1>1 DEF find
<1> HIDE DEF stops, j
<1>9. CASE at(j) \in Node
  <2>1. x = Probe(tab, c, j) /\ j \in Slots(tab)
    BY <1>6, <1>7, <1>8, <1>9
  <2>2. at(j) # NULL
    BY <1>9, MarkAssumption
  <2>3. nodes_ident(at(j), n, by_ptr)
    BY <1>5, <1>7, <2>2
  <2> QED
    BY <1>3, <1>9, <2>1, <2>3
<1>10. CASE at(j) \notin Node
  <2>1. at(j) = NULL /\ j \in Slots(tab)
    BY <1>5, <1>7, <1>10
  <2>2. \A i : i \in Empties(tab, n) <=> i \in Slots(tab) /\ at(i) \in Free
    BY DEF Empties, Free
  <2>3. Empties(tab, n) \subseteq Nat /\ j \in Empties(tab, n)
    BY <1>2, <2>1, <2>2 DEF Free
  <2>4. e \in Empties(tab, n) /\ \A i \in Empties(tab, n) : e <= i
    BY <2>3, LeastOf
  <2> HIDE DEF e
  <2>5. x = Probe(tab, c, e) /\ e \in Slots(tab) /\ at(e) \in Free
    BY <1>8, <1>10, <2>2, <2>4
  <2>6. ASSUME NEW i \in 0..(e - 1)
        PROVE  at(i) # NULL
    <3>1. i \in Slots(tab) /\ ~(e <= i)
      BY <1>2, <2>5 DEF Slots
    <3> QED
      BY <2>2, <2>4, <3>1 DEF Free
  <2>7. Reaches(tab, c, x)
    BY <2>5, <2>6 DEF Reaches
  <2>8. ASSUME NEW s \in Slots(tab), tab.slot[s] \in Node, Reaches(tab, c, s)
        PROVE  ~nodes_ident(tab.slot[s], n, by_ptr)
    <3>1. PICK k \in Slots(tab) : /\ Probe(tab, c, k) = s
                                  /\ \A i \in 0..(k - 1) : at(i) # NULL
      BY <2>8 DEF Reaches
    <3>2. ~(j < k)
      BY <1>2, <2>1, <3>1 DEF Slots
    <3>3. k # j
      BY <2>8, <2>1, <3>1, MarkAssumption
    <3>4. k \notin stops
      BY <1>2, <1>6, <1>7, <3>1, <3>2, <3>3
    <3> QED
      BY <1>5, <2>8, <3>1, <3>4
  <2> QED
    BY <1>3, <2>5, <2>7, <2>8
<1> QED
  BY <1>9, <1>10

(* find meets a node that is in the table.                                 *)
LEMMA FindMeets ==
  ASSUME content \in [Node -> Content],
         NEW tab, Shaped(tab), NEW n \in Node, NEW by_ptr \in BOOLEAN,
         NEW s \in Slots(tab), tab.slot[s] \in Node,
         nodes_ident(tab.slot[s], n, by_ptr), Reaches(tab, content[n], s)
  PROVE  find(tab, n, by_ptr) # NotFound
<1> DEFINE c == content[n]
           stops == Stops(tab, n, by_ptr)
<1>1. PICK k \in Slots(tab) : Probe(tab, c, k) = s
  BY DEF Reaches
<1>2. k \in stops
  BY <1>1 DEF Stops
<1>3. stops \subseteq Slots(tab) /\ Slots(tab) \subseteq Nat
  BY DEF Stops, Shaped, Slots
<1>4. Least(stops) \in stops
  BY <1>2, <1>3, LeastOf
<1>5. /\ tab.capacity \in Nat /\ tab.capacity # 0 /\ c \in Content
  BY DEF Shaped, Slots
<1>6. \A i \in Slots(tab) : Probe(tab, c, i) \in Slots(tab) /\ Probe(tab, c, i) # NotFound
  <2>1. \A i \in Slots(tab) : Probe(tab, c, i) \in Slots(tab)
    BY <1>3, <1>5, ProbeInSlots
  <2> QED
    BY <2>1, <1>3 DEF NotFound
<1>7. CASE tab.slot[Probe(tab, c, Least(stops))] \in Node
  <2>1. find(tab, n, by_ptr) = Probe(tab, c, Least(stops))
    BY <1>2, <1>7 DEF find
  <2> QED
    BY <1>3, <1>4, <1>6, <2>1
<1>8. CASE tab.slot[Probe(tab, c, Least(stops))] \notin Node
  <2>1. Least(stops) \in Empties(tab, n)
    BY <1>3, <1>4, <1>8 DEF Stops, Empties
  <2>2. Empties(tab, n) \subseteq Slots(tab)
    BY DEF Empties
  <2>3. Least(Empties(tab, n)) \in Slots(tab)
    BY <1>3, <2>1, <2>2, LeastOf
  <2>4. find(tab, n, by_ptr) = Probe(tab, c, Least(Empties(tab, n)))
    BY <1>2, <1>8 DEF find
  <2> QED
    BY <1>6, <2>3, <2>4
<1> QED
  BY <1>7, <1>8

(* A table stays reachable when no slot becomes NULL.                      *)
LEMMA ReachKept ==
  ASSUME NEW tab, NEW tab2, Shaped(tab), tab.capacity = tab2.capacity,
         \A i \in Slots(tab) : tab2.slot[i] = NULL => tab.slot[i] = NULL,
         NEW c \in Content, NEW s, Reaches(tab, c, s)
  PROVE  Reaches(tab2, c, s)
<1>1. PICK j \in Slots(tab) : /\ Probe(tab, c, j) = s
                              /\ \A i \in 0..(j - 1) : tab.slot[Probe(tab, c, i)] # NULL
  BY DEF Reaches
<1>2. /\ Slots(tab2) = Slots(tab) /\ tab.capacity \in Nat /\ tab.capacity # 0
      /\ \A i : Probe(tab2, c, i) = Probe(tab, c, i)
  BY <1>1 DEF Slots, Probe, Shaped
<1>3. ASSUME NEW i \in 0..(j - 1)
      PROVE  tab2.slot[Probe(tab2, c, i)] # NULL
  <2>1. Probe(tab, c, i) \in Slots(tab)
    BY <1>2, ProbeInSlots
  <2> QED
    BY <1>1, <1>2, <2>1
<1> QED
  BY <1>1, <1>2, <1>3 DEF Reaches

(* Inserting an unknown node where its probe comes.                        *)
LEMMA InsertKeeps ==
  ASSUME content \in [Node -> Content], NEW tab, Shaped(tab),
         Reachable(tab, content), Unique(tab, content),
         NEW n \in Node, NEW x \in Slots(tab), tab.slot[x] \in Free,
         Reaches(tab, content[n], x), Unknown(tab, content, content[n]),
         NEW new, new = Inserted(tab, x, n)
  PROVE  /\ Shaped(new) /\ Reachable(new, content) /\ Unique(new, content)
         /\ new.capacity = tab.capacity
         /\ Live(new) = Live(tab) \cup {n}
         /\ \A c \in Content : Unknown(tab, content, c) /\ c # content[n]
                              => Unknown(new, content, c)
<1>1. /\ tab.capacity \in Nat /\ tab.count \in Nat
      /\ tab.slot \in [Slots(tab) -> Node \cup {NULL, TOMBSTONE}]
      /\ tab = [capacity |-> tab.capacity, count |-> tab.count, slot |-> tab.slot]
  BY DEF Shaped
<1>2. new = [capacity |-> tab.capacity, count |-> tab.count + 1,
             slot |-> [tab.slot EXCEPT ![x] = n]]
  BY DEF Inserted
<1>3. /\ new.capacity = tab.capacity /\ new.count = tab.count + 1
      /\ new.slot = [tab.slot EXCEPT ![x] = n] /\ Slots(new) = Slots(tab)
  BY <1>2 DEF Slots
<1>4. Shaped(new)
  BY <1>1, <1>2, <1>3 DEF Shaped
<1>5. /\ new.slot[x] = n
      /\ \A i \in Slots(tab) : i # x => new.slot[i] = tab.slot[i]
  BY <1>1, <1>3
<1>6. \A i \in Slots(tab) : new.slot[i] = NULL => tab.slot[i] = NULL
  BY <1>5, MarkAssumption
<1>7. \A c \in Content, s \in Slots(tab) : Reaches(tab, c, s) => Reaches(new, c, s)
  BY <1>3, <1>6, ReachKept
<1>8. Reachable(new, content)
  <2> SUFFICES ASSUME NEW s \in Slots(tab), new.slot[s] \in Node
               PROVE  Reaches(new, content[new.slot[s]], s)
    BY <1>3 DEF Reachable
  <2>1. CASE s = x
    BY <1>5, <1>7, <2>1
  <2>2. CASE s # x
    BY <1>5, <1>7, <2>2 DEF Reachable
  <2> QED
    BY <2>1, <2>2
<1>9. Unique(new, content)
  BY <1>3, <1>5 DEF Unique, Unknown
<1>10. Live(new) = Live(tab) \cup {n}
  <2>1. tab.slot[x] \notin Node
    BY MarkAssumption DEF Free
  <2> QED
    BY <1>3, <1>5, <2>1 DEF Live
<1>11. \A c \in Content : Unknown(tab, content, c) /\ c # content[n]
                         => Unknown(new, content, c)
  BY <1>3, <1>5 DEF Unknown
<1> QED
  BY <1>3, <1>4, <1>8, <1>9, <1>10, <1>11

(* Marking a slot, of a node or free, with a tombstone.                    *)
LEMMA MarkKeeps ==
  ASSUME content \in [Node -> Content], NEW tab, Shaped(tab),
         Reachable(tab, content), Unique(tab, content), NEW x \in Slots(tab)
  PROVE  LET new == [tab EXCEPT !.slot[x] = TOMBSTONE] IN
         /\ Shaped(new) /\ Reachable(new, content) /\ Unique(new, content)
         /\ new.capacity = tab.capacity
         /\ Live(new) = Live(tab) \ {tab.slot[x]}
<1> DEFINE new == [tab EXCEPT !.slot[x] = TOMBSTONE]
<1>1. /\ tab.capacity \in Nat /\ tab.count \in Nat
      /\ tab.slot \in [Slots(tab) -> Node \cup {NULL, TOMBSTONE}]
      /\ tab = [capacity |-> tab.capacity, count |-> tab.count, slot |-> tab.slot]
  BY DEF Shaped
<1>2. new = [capacity |-> tab.capacity, count |-> tab.count,
             slot |-> [tab.slot EXCEPT ![x] = TOMBSTONE]]
  BY <1>1
<1> HIDE DEF new
<1>3. /\ new.capacity = tab.capacity /\ new.count = tab.count
      /\ new.slot = [tab.slot EXCEPT ![x] = TOMBSTONE] /\ Slots(new) = Slots(tab)
  BY <1>2 DEF Slots
<1>4. Shaped(new)
  BY <1>1, <1>2, <1>3 DEF Shaped
<1>5. /\ new.slot[x] = TOMBSTONE /\ TOMBSTONE \notin Node
      /\ \A i \in Slots(tab) : i # x => new.slot[i] = tab.slot[i]
  BY <1>1, <1>3, MarkAssumption
<1>6. \A i \in Slots(tab) : new.slot[i] = NULL => tab.slot[i] = NULL
  BY <1>5, MarkAssumption
<1>7. \A c \in Content, s \in Slots(tab) : Reaches(tab, c, s) => Reaches(new, c, s)
  BY <1>3, <1>6, ReachKept
<1>8. Reachable(new, content)
  BY <1>3, <1>5, <1>7 DEF Reachable
<1>9. Unique(new, content)
  BY <1>3, <1>5 DEF Unique
<1>10. Live(new) = Live(tab) \ {tab.slot[x]}
  <2>1. \A s \in Slots(tab) : tab.slot[s] \in Node /\ tab.slot[s] = tab.slot[x] => s = x
    BY DEF Unique
  <2> QED
    BY <1>3, <1>5, <2>1 DEF Live
<1> QED
  BY <1>3, <1>4, <1>8, <1>9, <1>10 DEF new

(* A fresh table.                                                          *)
LEMMA CallocIs ==
  ASSUME NEW n \in Nat, NEW cont
  PROVE  /\ Shaped(Calloc(n)) /\ Calloc(n).capacity = n
         /\ Reachable(Calloc(n), cont) /\ Unique(Calloc(n), cont)
         /\ Live(Calloc(n)) = {}
         /\ \A c : Unknown(Calloc(n), cont, c)
<1>1. /\ Calloc(n).capacity = n /\ Calloc(n).count = 0
      /\ Calloc(n).slot = [s \in 0..(n - 1) |-> NULL]
      /\ Slots(Calloc(n)) = 0..(n - 1)
  BY DEF Calloc, Slots
<1>2. \A s \in Slots(Calloc(n)) : Calloc(n).slot[s] \notin Node
  BY <1>1, MarkAssumption
<1>3. Shaped(Calloc(n))
  BY <1>1 DEF Shaped, Calloc
<1> QED
  BY <1>1, <1>2, <1>3 DEF Reachable, Unique, Live, Unknown

-----------------------------------------------------------------------------
(* The end of gvn_get: no slot to be found, the identical entry, or the    *)
(* node itself as a new entry.                                             *)
LEMMA LookupStep ==
  ASSUME Inv, NEW n \in Node, Lookup(n)
  PROVE  /\ Shaped(t') /\ Reachable(t', content) /\ Unique(t', content)
         /\ \/ fault' = TRUE /\ t' = t /\ result' = result
            \/ /\ fault' = fault /\ t' = t
               /\ result' \in Live(t) /\ content[result'] = content[n]
            \/ /\ fault' = fault /\ result' = n /\ Live(t') = Live(t) \cup {n}
               /\ \A m \in Live(t) : content[m] # content[n]
<1> DEFINE x == find(t, n, FALSE)
<1>1. /\ Shaped(t) /\ Reachable(t, content) /\ Unique(t, content)
      /\ content \in [Node -> Content]
  BY DEF Inv, TypeOK
<1>2. CASE x = NotFound
  BY <1>1, <1>2 DEF Lookup
<1>3. CASE x # NotFound
  <2>1. /\ x \in Slots(t)
        /\ \/ t.slot[x] \in Node /\ nodes_ident(t.slot[x], n, FALSE)
           \/ /\ t.slot[x] \in Free
              /\ Reaches(t, content[n], x)
              /\ \A s \in Slots(t) :
                   t.slot[s] \in Node /\ Reaches(t, content[n], s)
                   => ~nodes_ident(t.slot[s], n, FALSE)
    BY <1>1, <1>3, FindReturns
  <2>2. /\ t.slot[x] \in Free => t' = Inserted(t, x, n) /\ result' = n
        /\ t.slot[x] \notin Free => result' = t.slot[x] /\ t' = t
        /\ fault' = fault
    BY <1>3 DEF Lookup, Free
  <2> HIDE DEF x
  <2>3. CASE t.slot[x] \in Node
    BY <1>1, <2>1, <2>2, <2>3, MarkAssumption DEF Free, nodes_ident, Live
  <2>4. CASE t.slot[x] \notin Node
    <3>1. Unknown(t, content, content[n])
      BY <1>1, <2>1, <2>4 DEF Unknown, Reachable, nodes_ident
    <3>2. /\ Shaped(t') /\ Reachable(t', content) /\ Unique(t', content)
          /\ Live(t') = Live(t) \cup {n}
      BY <1>1, <2>1, <2>2, <2>4, <3>1, InsertKeeps, ZenonT(30)
    <3>3. \A m \in Live(t) : content[m] # content[n]
      BY <3>1 DEF Unknown, Live
    <3> QED
      BY <2>1, <2>2, <2>4, <3>2, <3>3
  <2> QED
    BY <2>3, <2>4
<1> QED
  BY <1>2, <1>3

(* A step of the growth moves one entry, which the new table cannot know.  *)
LEMMA MoveStep ==
  ASSUME Inv, mode = "grow", next # old.capacity, gvn_get_move
  PROVE  /\ Shaped(t') /\ Reachable(t', content) /\ Unique(t', content)
         /\ \/ fault' = TRUE /\ t' = t /\ next' = next
            \/ /\ fault' = fault /\ next' = next + 1
               /\ Live(t') = Live(t) \cup ({old.slot[next]} \cap Node)
               /\ \A c \in Content :
                    /\ Unknown(t, content, c)
                    /\ old.slot[next] \in Node => c # content[old.slot[next]]
                    => Unknown(t', content, c)
<1> DEFINE m == old.slot[next]
           x == find(t, m, TRUE)
<1>1. /\ Shaped(t) /\ Reachable(t, content) /\ Unique(t, content)
      /\ content \in [Node -> Content]
  BY DEF Inv, TypeOK
<1>2. /\ m \notin Node => next' = next + 1 /\ t' = t /\ fault' = fault
      /\ m \in Node /\ x = NotFound => fault' = TRUE /\ t' = t /\ next' = next
      /\ m \in Node /\ x # NotFound => /\ t' = Inserted(t, x, m)
                                       /\ next' = next + 1 /\ fault' = fault
  BY DEF gvn_get_move
<1>3. CASE m \notin Node
  BY <1>1, <1>2, <1>3
<1>4. CASE m \in Node /\ x = NotFound
  BY <1>1, <1>2, <1>4
<1>5. CASE m \in Node /\ x # NotFound
  <2>1. next \in next..(old.capacity - 1)
    BY DEF Inv, TypeOK, Shaped
  <2>2. Unknown(t, content, content[m])
    BY <1>5, <2>1 DEF Inv, Growing
  <2>3. /\ x \in Slots(t)
        /\ \/ t.slot[x] \in Node /\ nodes_ident(t.slot[x], m, TRUE)
           \/ t.slot[x] \in Free /\ Reaches(t, content[m], x)
    BY <1>1, <1>5, FindReturns
  <2> HIDE DEF x
  <2>4. t.slot[x] \notin Node
    BY <2>2, <2>3, MarkAssumption DEF Unknown, nodes_ident, Free
  <2>5. t' = Inserted(t, x, m) /\ t.slot[x] \in Free /\ Reaches(t, content[m], x) /\ m \in Node
    BY <1>2, <1>5, <2>3, <2>4
  <2> HIDE DEF m
  <2>6. /\ Shaped(t') /\ Reachable(t', content) /\ Unique(t', content)
        /\ Live(t') = Live(t) \cup {m}
        /\ \A c \in Content : Unknown(t, content, c) /\ c # content[m]
                             => Unknown(t', content, c)
    BY <1>1, <2>2, <2>3, <2>5, InsertKeeps
  <2> QED
    BY <1>2, <1>5, <2>6 DEF m
<1> QED
  BY <1>3, <1>4, <1>5

(* gvn_remove takes out the node it is given, and no other.                *)
LEMMA RemoveStep ==
  ASSUME Inv, NEW n \in Node, gvn_remove(n)
  PROVE  /\ Shaped(t') /\ Reachable(t', content) /\ Unique(t', content)
         /\ Live(t') = Live(t) \ {n}
<1> DEFINE x == find(t, n, TRUE)
<1>1. /\ Shaped(t) /\ Reachable(t, content) /\ Unique(t, content)
      /\ content \in [Node -> Content]
  BY DEF Inv, TypeOK
<1>2. t' = IF x = NotFound THEN t ELSE [t EXCEPT !.slot[x] = TOMBSTONE]
  BY DEF gvn_remove
<1>3. ASSUME NEW s \in Slots(t), t.slot[s] = n
      PROVE  t.slot[s] \in Node /\ Reaches(t, content[n], s) /\ nodes_ident(t.slot[s], n, TRUE)
  BY <1>1, <1>3 DEF Reachable, nodes_ident
<1>4. CASE x = NotFound
  <2>1. \A s \in Slots(t) : t.slot[s] # n
    BY <1>1, <1>3, <1>4, FindMeets
  <2> QED
    BY <1>1, <1>2, <1>4, <2>1 DEF Live
<1>5. CASE x # NotFound
  <2>1. /\ x \in Slots(t)
        /\ \/ t.slot[x] \in Node /\ nodes_ident(t.slot[x], n, TRUE)
           \/ /\ t.slot[x] \in Free
              /\ \A s \in Slots(t) :
                   t.slot[s] \in Node /\ Reaches(t, content[n], s)
                   => ~nodes_ident(t.slot[s], n, TRUE)
    BY <1>1, <1>5, FindReturns
  <2> HIDE DEF x
  <2>2. /\ Shaped(t') /\ Reachable(t', content) /\ Unique(t', content)
        /\ Live(t') = Live(t) \ {t.slot[x]}
    BY <1>1, <1>2, <1>5, <2>1, MarkKeeps
  <2>3. CASE t.slot[x] \in Node
    BY <2>1, <2>2, <2>3, MarkAssumption DEF nodes_ident, Free
  <2>4. CASE t.slot[x] \notin Node
    <3>1. \A s \in Slots(t) : t.slot[s] # n
      BY <1>3, <2>1, <2>4
    <3>2. n \notin Live(t) /\ t.slot[x] \notin Live(t)
      BY <2>4, <3>1 DEF Live
    <3> QED
      BY <2>2, <3>2
  <2> QED
    BY <2>3, <2>4
<1> QED
  BY <1>4, <1>5

-----------------------------------------------------------------------------
(* The empty table of Init satisfies the invariant.                        *)
LEMMA InvInit == Init => Inv
<1> SUFFICES ASSUME Init PROVE Inv
  OBVIOUS
<1>1. /\ Shaped(Calloc(0)) /\ Calloc(0).capacity = 0
      /\ Reachable(Calloc(0), content) /\ Unique(Calloc(0), content)
  BY CallocIs
<1> QED
  BY <1>1 DEF Init, Inv, TypeOK, Growing

(* Each action on its own, and stuttering, preserves the invariant.        *)
LEMMA InvStep == Inv /\ [Next]_vars => Inv'
<1> SUFFICES ASSUME Inv, [Next]_vars PROVE Inv'
  OBVIOUS
<1>1. /\ TypeOK /\ Shaped(t) /\ Shaped(old) /\ content \in [Node -> Content]
      /\ Reachable(t, content) /\ Unique(t, content)
  BY DEF Inv, TypeOK
<1>2. ASSUME NEW n \in Node, gvn_get(n)
      PROVE  Inv'
  <2>1. /\ Lookup(n) /\ mode = "idle" /\ content' = content
        /\ mode' = mode /\ arg' = arg /\ old' = old /\ next' = next
    BY <1>2 DEF gvn_get, call
  <2>2. /\ Shaped(t') /\ Reachable(t', content') /\ Unique(t', content')
        /\ result' \in Node \cup {NoNode} /\ fault' \in BOOLEAN
    BY <1>1, <2>1, LookupStep DEF TypeOK, Live
  <2> QED
    BY <1>1, <2>1, <2>2 DEF Inv, TypeOK, Growing
<1>3. ASSUME gvn_get_end
      PROVE  Inv'
  <2>1. /\ arg \in Node /\ Lookup(arg) /\ content' = content /\ mode' = "idle"
        /\ arg' = NoNode /\ old' = Calloc(0) /\ next' = 0
    BY <1>1, <1>3 DEF gvn_get_end, TypeOK
  <2>2. /\ Shaped(t') /\ Reachable(t', content') /\ Unique(t', content')
        /\ result' \in Node \cup {NoNode} /\ fault' \in BOOLEAN
    BY <1>1, <2>1, LookupStep DEF TypeOK, Live
  <2>3. Shaped(old')
    BY <2>1, CallocIs
  <2> QED
    BY <1>1, <2>1, <2>2, <2>3 DEF Inv, TypeOK, Growing
<1>4. ASSUME NEW n \in Node, gvn_get_grow(n)
      PROVE  Inv'
  <2>1. /\ t' = Calloc(NewCapacity) /\ old' = t /\ mode' = "grow" /\ arg' = n
        /\ next' = 0 /\ content' = content /\ result' = result /\ fault' = fault
    BY <1>4 DEF gvn_get_grow
  <2>2. NewCapacity \in Nat
    BY <1>1, CapacityAssumption DEF NewCapacity, Shaped
  <2>3. /\ Shaped(t') /\ Reachable(t', content') /\ Unique(t', content')
        /\ \A c : Unknown(t', content', c)
    BY <2>1, <2>2, CallocIs
  <2>4. Slots(t) = next'..(old'.capacity - 1) /\ next' <= old'.capacity
    BY <1>1, <2>1 DEF Slots, Shaped
  <2>5. Growing'
    BY <1>1, <2>1, <2>3, <2>4 DEF Growing, Unique
  <2>6. TypeOK'
    BY <1>1, <2>1, <2>3, <2>4 DEF TypeOK
  <2> QED
    BY <2>3, <2>5, <2>6 DEF Inv
<1>5. ASSUME gvn_get_move
      PROVE  Inv'
  <2>1. /\ mode = "grow" /\ content' = content /\ result' = result
        /\ arg' = arg /\ old' = old /\ old.capacity \in Nat /\ next \in Nat
        /\ next <= old.capacity
    BY <1>1, <1>5 DEF gvn_get_move, TypeOK, Shaped
  <2>2. CASE next = old.capacity
    <3>1. mode' = "lookup" /\ t' = t /\ next' = next /\ fault' = fault
      BY <1>5, <2>2 DEF gvn_get_move
    <3> QED
      BY <1>1, <2>1, <3>1 DEF Inv, TypeOK, Growing
  <2>3. CASE next # old.capacity
    <3>1. mode' = "grow"
      BY <1>5, <2>1, <2>3 DEF gvn_get_move
    <3>2. /\ Shaped(t') /\ Reachable(t', content) /\ Unique(t', content)
          /\ \/ fault' = TRUE /\ t' = t /\ next' = next
             \/ /\ fault' = fault /\ next' = next + 1
                /\ \A c \in Content :
                     /\ Unknown(t, content, c)
                     /\ old.slot[next] \in Node => c # content[old.slot[next]]
                     => Unknown(t', content, c)
      BY <1>5, <2>1, <2>3, MoveStep
    <3>3. /\ next' \in Nat /\ next' <= old.capacity /\ fault' \in BOOLEAN
          /\ next'..(old.capacity - 1) \subseteq next..(old.capacity - 1)
      <4>1. /\ next' \in Nat /\ next' <= old.capacity /\ next <= next'
            /\ old.capacity \in Int
        BY <2>1, <2>3, <3>2
      <4>2. next'..(old.capacity - 1) \subseteq next..(old.capacity - 1)
        BY <2>1, <4>1
      <4>3. fault' \in BOOLEAN
        BY <1>1, <3>2 DEF TypeOK
      <4> QED
        BY <4>1, <4>2, <4>3
    <3>4. TypeOK'
      BY <1>1, <2>1, <3>1, <3>2, <3>3 DEF TypeOK
    <3>5. ASSUME NEW s \in next'..(old.capacity - 1), old.slot[s] \in Node
          PROVE  Unknown(t', content, content[old.slot[s]])
      <4>1. Unknown(t, content, content[old.slot[s]]) /\ content[old.slot[s]] \in Content
        BY <1>1, <2>1, <3>3, <3>5 DEF Inv, Growing
      <4>2. CASE next' = next + 1
        <5>1. next \in next..(old.capacity - 1) /\ s \in next..(old.capacity - 1) /\ s # next
          BY <2>1, <2>3, <4>2
        <5>2. old.slot[next] \in Node => content[old.slot[s]] # content[old.slot[next]]
          BY <2>1, <3>5, <5>1 DEF Inv, Growing
        <5> QED
          BY <2>1, <3>2, <4>1, <4>2, <5>2
      <4>3. CASE next' = next
        BY <2>1, <3>2, <4>1, <4>3
      <4> QED
        BY <3>2, <4>2, <4>3
    <3>6. ASSUME NEW r \in next'..(old.capacity - 1), NEW s \in next'..(old.capacity - 1),
                 old.slot[r] \in Node, old.slot[s] \in Node,
                 content[old.slot[r]] = content[old.slot[s]]
          PROVE  r = s
      BY <2>1, <3>3, <3>6 DEF Inv, Growing
    <3>7. Growing'
      BY <2>1, <3>5, <3>6 DEF Growing
    <3> QED
      BY <2>1, <3>2, <3>4, <3>7 DEF Inv
  <2> QED
    BY <2>2, <2>3
<1>6. ASSUME NEW n \in Node, gvn_remove(n)
      PROVE  Inv'
  <2>1. /\ mode = "idle" /\ content' = content /\ result' = result /\ fault' = fault
        /\ mode' = mode /\ arg' = arg /\ old' = old /\ next' = next
    BY <1>6 DEF gvn_remove, call
  <2>2. Shaped(t') /\ Reachable(t', content') /\ Unique(t', content')
    BY <1>6, <2>1, RemoveStep
  <2> QED
    BY <1>1, <2>1, <2>2 DEF Inv, TypeOK, Growing
<1>7. ASSUME gvn_clear
      PROVE  Inv'
  <2>1. /\ t' = Calloc(t.capacity) /\ t.capacity \in Nat
        /\ mode = "idle" /\ content' = content /\ result' = result /\ fault' = fault
        /\ mode' = mode /\ arg' = arg /\ old' = old /\ next' = next
    BY <1>1, <1>7 DEF gvn_clear, call, Shaped
  <2>2. Shaped(t') /\ Reachable(t', content') /\ Unique(t', content')
    BY <2>1, CallocIs
  <2> QED
    BY <1>1, <2>1, <2>2 DEF Inv, TypeOK, Growing
<1>8. ASSUME NEW n \in Node, NEW c \in Content, mutate(n, c)
      PROVE  Inv'
  <2>1. /\ t' = t /\ n \notin Live(t) /\ content' = [content EXCEPT ![n] = c]
        /\ mode = "idle" /\ result' = result /\ fault' = fault
        /\ mode' = mode /\ arg' = arg /\ old' = old /\ next' = next
    BY <1>8 DEF mutate, call
  <2>2. \A s \in Slots(t) : t.slot[s] \in Node => content'[t.slot[s]] = content[t.slot[s]]
    BY <1>1, <2>1 DEF Live
  <2>3. Reachable(t', content') /\ Unique(t', content')
    BY <1>1, <2>1, <2>2 DEF Reachable, Unique
  <2>4. content' \in [Node -> Content]
    BY <1>1, <2>1
  <2> QED
    BY <1>1, <2>1, <2>3, <2>4 DEF Inv, TypeOK, Growing
<1>9. CASE UNCHANGED vars
  BY <1>9 DEF vars, call, Inv, TypeOK, Growing
<1> QED
  BY <1>2, <1>3, <1>4, <1>5, <1>6, <1>7, <1>8, <1>9 DEF Next

-----------------------------------------------------------------------------
(* gvn.c:38-114 with the growth of gvn_get: whatever is looked up, removed *)
(* or moved, and whatever the hashes, the table keeps every entry within   *)
(* reach of its probe and one entry per value.                             *)
THEOREM GvnInvariant == Spec => [](TypeOK /\ EntriesAreReachable /\ NoTwoIdentical)
<1>1. Inv => TypeOK /\ EntriesAreReachable /\ NoTwoIdentical
  BY DEF Inv, Reachable, Unique, EntriesAreReachable, NoTwoIdentical
<1> QED
  BY InvInit, InvStep, <1>1, PTL DEF Spec

(* In particular, no tombstone or growth comes between a probe and the     *)
(* entry it looks for.                                                     *)
THEOREM GvnEntriesReachable == Spec => []EntriesAreReachable
BY GvnInvariant, PTL

(* gvn_get's contract with opt.c:340: the node it returns has the content  *)
(* of the node it is given, and is in the table.                           *)
THEOREM GvnGetReturnsIdentical == Spec => GetReturnsIdentical
<1>1. ASSUME Inv, [Next]_vars, NEW n \in Node,
             gvn_get(n) \/ (n = arg /\ gvn_get_end), ~fault'
      PROVE  content[result'] = content[n] /\ result' \in Live(t)'
  <2>1. Lookup(n)
    BY <1>1 DEF gvn_get, gvn_get_end
  <2>2. n \in Live(t') <=> n \in Live(t)'
    BY DEF Live, Slots
  <2> QED
    BY <1>1, <2>1, LookupStep DEF Live, Slots
<1>2. Inv /\ [Next]_vars
      => [\A n \in Node :
            (\/ gvn_get(n)
             \/ n = arg /\ gvn_get_end) /\ ~fault'
            => content[result'] = content[n] /\ result' \in Live(t)']_vars
  BY <1>1
<1> QED
  BY InvInit, InvStep, <1>2, PTL DEF Spec, GetReturnsIdentical

(* Every gvn_get, gvn_remove and gvn_clear does to the set of entries what *)
(* ValueTable allows, and the moves of a growing table change no entry.    *)
LEMMA ValuesStep == Inv /\ [Next]_vars => [Values!Next]_(Values!vars)
<1> SUFFICES ASSUME Inv, [Next]_vars PROVE [Values!Next]_(Values!vars)
  OBVIOUS
<1> DEFINE entries == Live(t) \cup Unmoved
<1>1. /\ TypeOK /\ Shaped(t) /\ Shaped(old) /\ content \in [Node -> Content]
  BY DEF Inv, TypeOK
<1>2. mode # "grow" => entries = Live(t)
  BY DEF Unmoved
<1>3. mode' # "grow" => entries' = Live(t')
  BY DEF Unmoved, Live, Slots
<1>4. ASSUME NEW n \in Node, Lookup(n), mode # "grow", mode' # "grow", content' = content
      PROVE  [Values!Next]_(Values!vars)
  <2>1. CASE t' = t /\ result' = result
    BY <1>2, <1>3, <1>4, <2>1 DEF Values!vars
  <2>2. CASE t' = t /\ result' \in Live(t) /\ content[result'] = content[n]
    BY <1>2, <1>3, <1>4, <2>2 DEF Values!Next, Values!Get, Values!Identical
  <2>3. CASE /\ result' = n /\ Live(t') = Live(t) \cup {n}
             /\ \A m \in Live(t) : content[m] # content[n]
    BY <1>2, <1>3, <1>4, <2>3 DEF Values!Next, Values!Get, Values!Identical
  <2> QED
    BY <1>4, <2>1, <2>2, <2>3, LookupStep
<1>5. ASSUME NEW n \in Node, gvn_get(n)
      PROVE  [Values!Next]_(Values!vars)
  BY <1>4, <1>5 DEF gvn_get, call
<1>6. CASE gvn_get_end
  BY <1>1, <1>4, <1>6 DEF gvn_get_end, TypeOK
<1>7. ASSUME NEW n \in Node, gvn_get_grow(n)
      PROVE  entries' = entries /\ content' = content /\ result' = result
  <2>1. /\ t' = Calloc(NewCapacity) /\ old' = t /\ mode = "idle" /\ mode' = "grow"
        /\ next' = 0 /\ content' = content /\ result' = result
    BY <1>7 DEF gvn_get_grow
  <2>2. NewCapacity \in Nat
    BY <1>1, CapacityAssumption DEF NewCapacity, Shaped
  <2>3. Live(Calloc(NewCapacity)) = {}
    BY <2>2, CallocIs
  <2>4. Live(t)' = {}
    BY <2>1, <2>3 DEF Live, Slots
  <2>5. Unmoved' = Live(t)
    BY <2>1 DEF Unmoved, Live, Slots
  <2> QED
    BY <1>2, <2>1, <2>4, <2>5
<1>8. ASSUME gvn_get_move
      PROVE  entries' = entries /\ content' = content /\ result' = result
  <2>1. /\ mode = "grow" /\ content' = content /\ result' = result /\ old' = old
        /\ old.capacity \in Nat /\ next \in Nat /\ next <= old.capacity
    BY <1>1, <1>8 DEF gvn_get_move, TypeOK, Shaped
  <2>2. CASE next = old.capacity
    <3>1. mode' = "lookup" /\ t' = t
      BY <1>8, <2>2 DEF gvn_get_move
    <3>2. next..(old.capacity - 1) = {}
      BY <2>1, <2>2
    <3>3. Unmoved = {}
      BY <3>2 DEF Unmoved
    <3> QED
      BY <1>3, <2>1, <3>1, <3>3
  <2>3. CASE next # old.capacity
    <3>1. mode' = "grow"
      BY <1>8, <2>1, <2>3 DEF gvn_get_move
    <3>2. \/ t' = t /\ next' = next
          \/ next' = next + 1 /\ Live(t') = Live(t) \cup ({old.slot[next]} \cap Node)
      BY <1>8, <2>1, <2>3, MoveStep
    <3>3. next..(old.capacity - 1) = {next} \cup ((next + 1)..(old.capacity - 1))
      BY <2>1, <2>3
    <3>4. Live(t)' = Live(t')
      BY DEF Live, Slots
    <3>5. CASE t' = t /\ next' = next
      BY <2>1, <3>1, <3>4, <3>5 DEF Unmoved
    <3>6. CASE next' = next + 1 /\ Live(t') = Live(t) \cup ({old.slot[next]} \cap Node)
      <4>1. Unmoved = ({old.slot[next]} \cap Node) \cup Unmoved'
        BY <2>1, <3>1, <3>3, <3>6 DEF Unmoved
      <4> QED
        BY <2>1, <3>4, <3>6, <4>1
    <3> QED
      BY <3>2, <3>5, <3>6
  <2> QED
    BY <2>2, <2>3
<1>9. ASSUME NEW n \in Node, gvn_remove(n)
      PROVE  [Values!Next]_(Values!vars)
  <2>1. /\ mode = "idle" /\ content' = content /\ result' = result /\ mode' = mode
        /\ Live(t') = Live(t) \ {n}
    BY <1>9, RemoveStep DEF gvn_remove, call
  <2> QED
    BY <1>2, <1>3, <2>1 DEF Values!Next, Values!Remove
<1>10. CASE gvn_clear
  <2>1. /\ t' = Calloc(t.capacity) /\ t.capacity \in Nat
        /\ mode = "idle" /\ content' = content /\ result' = result /\ mode' = mode
    BY <1>1, <1>10 DEF gvn_clear, call, Shaped
  <2>2. Live(t') = {}
    BY <2>1, CallocIs
  <2> QED
    BY <1>2, <1>3, <2>1, <2>2 DEF Values!Next, Values!Clear
<1>11. ASSUME NEW n \in Node, NEW c \in Content, mutate(n, c)
       PROVE  [Values!Next]_(Values!vars)
  <2>1. /\ t' = t /\ n \notin Live(t) /\ content' = [content EXCEPT ![n] = c]
        /\ mode = "idle" /\ result' = result /\ mode' = mode
    BY <1>11 DEF mutate, call
  <2> QED
    BY <1>2, <1>3, <2>1 DEF Values!Next, Values!Mutate
<1>12. CASE UNCHANGED vars
  BY <1>12 DEF vars, call, Values!vars, Live, Slots, Unmoved
<1> QED
  BY <1>5, <1>6, <1>7, <1>8, <1>9, <1>10, <1>11, <1>12 DEF Next, Values!vars

(* gvn.c implements the table of values the optimizer relies on.           *)
THEOREM GvnImplementsValueTable == Spec => ImplementsValueTable
<1>1. Init => Values!Init
  <2> SUFFICES ASSUME Init PROVE Values!Init
    OBVIOUS
  <2>1. Live(Calloc(0)) = {}
    BY CallocIs
  <2> QED
    BY <2>1 DEF Init, Values!Init, Unmoved
<1> QED
  BY InvInit, InvStep, ValuesStep, <1>1, PTL DEF Spec, ImplementsValueTable, Values!Spec
=============================================================================
