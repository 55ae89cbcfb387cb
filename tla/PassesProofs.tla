----------------------------- MODULE PassesProofs -----------------------------
(***************************************************************************)
(* The passes over the graph, whatever the program: lower.c builds a graph *)
(* that is in step, and every step of opt.c keeps it so, forgets no node   *)
(* and changes no key of the value table.                                  *)
(***************************************************************************)
EXTENDS GraphProofs, Passes

-----------------------------------------------------------------------------
\* The worklist, by what WorklistProofs says of it.

WP == INSTANCE WorklistProofs WITH Node <- Nat, NoNode <- Nil, w <- opt.worklist,
                                   popped <- opt.node

\* The vectors of the worklist l are in step.
Sound(l) == WP!InStepSelf(l)

Listed(l) == W!Elements(l)

\* The worklist m is l with other elements.
Lists(m, S) == Sound(m) /\ Listed(m) = S

(* The worklist of the optimizer is the one WorklistProofs is about.       *)
LEMMA SameWorklist ==
  /\ WP!NodeAssumption
  /\ \A l, n : WP!Added(l, n) = W!Added(l, n)
  /\ \A l, n : WP!Removed(l, n) = W!Removed(l, n)
  /\ \A l : WP!Popped(l) = W!Popped(l) /\ WP!Top(l) = W!Top(l) /\ WP!Elements(l) = W!Elements(l)
<1>1. WP!NodeAssumption
  BY DEF WP!NodeAssumption, Nil
<1>2. ASSUME NEW l, NEW n
      PROVE  WP!Added(l, n) = W!Added(l, n) /\ WP!Removed(l, n) = W!Removed(l, n)
  BY DEF WP!Added, W!Added, WP!Padded, W!Padded, WP!Absent, W!Absent, WP!Removed, W!Removed,
         WP!Holds, W!Holds
<1>3. ASSUME NEW l
      PROVE  WP!Popped(l) = W!Popped(l) /\ WP!Top(l) = W!Top(l) /\ WP!Elements(l) = W!Elements(l)
  BY DEF WP!Popped, W!Popped, WP!Top, W!Top, WP!Elements, W!Elements, WP!Absent, W!Absent
<1> QED
  BY <1>1, <1>2, <1>3

(* worklist_add adds one node, for the vectors as opt.c keeps them.        *)
LEMMA AddLists ==
  ASSUME NEW l, Sound(l), NEW n \in Nat
  PROVE  Lists(Add(l, n), Listed(l) \cup {n})
<1>1. WP!InStep(l, l.packed, l.sparse)
  BY DEF Sound, WP!InStepSelf
<1>2. WP!InStepSelf(WP!Added(l, n)) /\ WP!Elements(WP!Added(l, n)) = WP!Elements(l) \cup {n}
  BY <1>1, SameWorklist, WP!AddedOK
<1> QED
  BY <1>2, SameWorklist DEF Sound, Listed, Lists, Add

(* worklist_remove takes one node out.                                     *)
LEMMA RemoveLists ==
  ASSUME NEW l, Sound(l), NEW n \in Nat
  PROVE  Lists(Unlisted(l, n), Listed(l) \ {n})
<1>1. WP!InStep(l, l.packed, l.sparse)
  BY DEF Sound, WP!InStepSelf
<1>2. WP!InStepSelf(WP!Removed(l, n)) /\ WP!Elements(WP!Removed(l, n)) = WP!Elements(l) \ {n}
  BY <1>1, SameWorklist, WP!RemovedOK
<1> QED
  BY <1>2, SameWorklist DEF Sound, Listed, Lists, Unlisted

(* worklist_pop takes out the node it returns.                             *)
LEMMA PopLists ==
  ASSUME NEW l, Sound(l), l.packed # <<>>
  PROVE  /\ Lists(W!Popped(l), Listed(l) \ {W!Top(l)})
         /\ W!Top(l) \in Listed(l)
<1>1. WP!InStep(l, l.packed, l.sparse)
  BY DEF Sound, WP!InStepSelf
<1>2. /\ WP!InStepSelf(WP!Popped(l)) /\ WP!Elements(WP!Popped(l)) = WP!Elements(l) \ {WP!Top(l)}
      /\ WP!Top(l) \in WP!Elements(l)
  BY <1>1, SameWorklist, WP!PoppedOK
<1> QED
  BY <1>2, SameWorklist DEF Sound, Listed, Lists

(* The worklist starts empty, and is empty when its vector is.             *)
LEMMA EmptyLists ==
  /\ Lists(W!Empty, {})
  /\ \A l : Sound(l) /\ l.packed = <<>> => Listed(l) = {}
  /\ \A l : Sound(l) => Listed(l) \subseteq Nat
<1>1. W!Empty = [packed |-> <<>>, sparse |-> <<>>]
  BY DEF W!Empty
<1>2. WP!InStep(W!Empty, <<>>, <<>>)
  BY <1>1 DEF WP!InStep
<1>3. Lists(W!Empty, {})
  BY <1>1, <1>2 DEF Lists, Sound, Listed, WP!InStepSelf, W!Elements
<1>4. ASSUME NEW l, Sound(l)
      PROVE  /\ l.packed = <<>> => Listed(l) = {}
             /\ Listed(l) \subseteq Nat
  <2>1. l.packed \in Seq(Nat)
    BY <1>4 DEF Sound, WP!InStepSelf, WP!InStep
  <2>2. \A i \in 1..Len(l.packed) : l.packed[i] \in Nat
    BY <2>1
  <2>3. l.packed = <<>> => 1..Len(l.packed) = {}
    OBVIOUS
  <2> QED
    BY <2>2, <2>3 DEF Listed, W!Elements
<1> QED
  BY <1>3, <1>4

-----------------------------------------------------------------------------
\* A use moved and a node removed, under one name each.

\* One use, by the node a, has moved from t to s.
HasMoved(f, g, H, t, s, a) ==
  /\ Held(g, H) /\ Stands(g, t, s) /\ a \in H /\ g.end = f.end /\ Ids(g) = Ids(f)
  /\ \A m \in Ids(f) : /\ Kind(g, m) = Kind(f, m) /\ Len(Ins(g, m)) = Len(Ins(f, m))
                       /\ m # a => Ins(g, m) = Ins(f, m)
                       /\ g.node[m].flags = f.node[m].flags
                       /\ g.node[m].data = f.node[m].data
  /\ \A m \in Ids(f) : m # t /\ m # s => Uses(g, m) = Uses(f, m)

(* A use that goes back to where it came from changes nothing.             *)
LEMMA MovedBack ==
  ASSUME NEW f, NEW H, Held(f, H), NEW t \in H, Uses(f, t) # <<>>, t # f.end, Stands(f, t, t)
  PROVE  HasMoved(f, Moved(f, t, t), H, t, t, Head(Uses(f, t)).node)
<1> DEFINE T == [node : Ids(f), index : Nat]
           z == Uses(f, t)
           u == Head(z)
           rest == Tail(z)
           a == u.node
           b == u.index
           h == [f EXCEPT !.node[t].uses = rest]
           g == set_input(h, a, t, b)
<1>0. /\ IsGraph(f) /\ Matched(f, H) /\ f.end \in H /\ OneEnd(f) /\ \A m \in H : Shaped(f, m)
      /\ H \subseteq Ids(f) /\ t \in Ids(f)
  BY DEF Held, Matched
<1>1. Moved(f, t, t) = g
  BY Zenon DEF Moved, Uses
<1>2. /\ z \in Seq(T) /\ u \in T /\ rest \in Seq(T) /\ u \in UseSet(f, t) /\ <<u>> \o rest = z
  <2>1. z \in Seq(T) /\ z # <<>>
    BY <1>0, NodeTypes
  <2> HIDE DEF T, z
  <2>2. /\ Head(z) \in T /\ Tail(z) \in Seq(T) /\ ToSet(z) = {Head(z)} \cup ToSet(Tail(z))
    BY <2>1, HeadOf
  <2>3. <<Head(z)>> \o Tail(z) = z
    BY <2>1
  <2> QED
    BY <2>1, <2>2, <2>3 DEF z, UseSet
<1>3. /\ a \in Ids(f) /\ b \in Nat /\ u = Use(a, b)
  BY <1>2 DEF Use
<1>4. a \in H /\ b \in DOMAIN Ins(f, a) /\ Ins(f, a)[b] = t
  BY <1>0, <1>2 DEF Matched, UsesName
<1>5. Ins(f, a) \in Seq(Ids(f) \cup {Nil})
  BY <1>3, <1>0, NodeTypes
<1>6. /\ IsGraph(h) /\ Alike(f, h)
      /\ \A m \in Ids(f) : Uses(h, m) = IF m = t THEN rest ELSE Uses(f, m)
      /\ \A m \in Ids(f) : Ins(h, m) = Ins(f, m)
  BY <1>0, <1>2, UsesSet
<1> HIDE DEF z, u, rest, a, b, h, T
<1>7. Ids(h) = Ids(f) /\ a \in Ids(h) /\ t \in Ids(h) /\ b \in DOMAIN Ins(h, a)
  BY <1>0, <1>3, <1>4, <1>6, AlikeIds
<1>8. /\ IsGraph(g) /\ Alike(h, g)
      /\ \A m \in Ids(h) : Ins(g, m) = IF m = a THEN [Ins(h, a) EXCEPT ![b] = t] ELSE Ins(h, m)
      /\ \A m \in Ids(h) : Uses(g, m) = IF m = t THEN <<Use(a, b)>> \o Uses(h, m) ELSE Uses(h, m)
  BY <1>6, <1>7, SetInputIs
<1> HIDE DEF g
<1>9. Alike(f, g) /\ Ids(g) = Ids(f)
  BY <1>6, <1>7, <1>8, AlikeAlike, AlikeIds
<1>10. [Ins(f, a) EXCEPT ![b] = t] = Ins(f, a)
  <2> DEFINE i == Ins(f, a)
  <2>1. i = [j \in DOMAIN i |-> i[j]] /\ b \in DOMAIN i /\ i[b] = t
    BY <1>4, <1>5
  <2> HIDE DEF i
  <2>2. [i EXCEPT ![b] = t] = [j \in DOMAIN i |-> IF j = b THEN t ELSE i[j]]
    OBVIOUS
  <2>3. [j \in DOMAIN i |-> IF j = b THEN t ELSE i[j]] = [j \in DOMAIN i |-> i[j]]
    BY <2>1
  <2>4. [i EXCEPT ![b] = t] = i
    BY <2>1, <2>2, <2>3
  <2> QED
    BY <2>4 DEF i
<1>11. \A m \in Ids(f) : Ins(g, m) = Ins(f, m)
  BY <1>3, <1>6, <1>7, <1>8, <1>10
<1>12. \A m \in Ids(f) : Uses(g, m) = Uses(f, m)
  <2>1. <<Use(a, b)>> \o rest = Uses(f, t)
    BY <1>2, <1>3 DEF z
  <2>2. Uses(h, t) = rest
    BY <1>0, <1>6
  <2>3. Uses(g, t) = Uses(f, t)
    BY <1>7, <1>8, <2>1, <2>2
  <2>4. \A m \in Ids(f) : m # t => Uses(g, m) = Uses(f, m)
    BY <1>6, <1>7, <1>8
  <2> QED
    BY <2>3, <2>4
<1>13. /\ g.end = f.end
       /\ \A m \in Ids(f) : /\ Kind(g, m) = Kind(f, m)
                            /\ g.node[m].flags = f.node[m].flags
                            /\ g.node[m].data = f.node[m].data
  BY <1>9 DEF Alike, Kind
<1>14. Matched(g, H)
  <2>1. H \subseteq Ids(g) /\ \A m \in H : Uses(g, m) = Uses(f, m) /\ Ins(g, m) = Ins(f, m)
    BY <1>0, <1>9, <1>11, <1>12
  <2> QED
    BY <1>0, <2>1, MatchedSame
<1>15. OneEnd(g)
  BY <1>0, <1>9, <1>11, <1>13 DEF OneEnd
<1>16. ASSUME NEW m \in H PROVE Shaped(g, m)
  <2>1. m \in Ids(f) /\ Shaped(f, m)
    BY <1>0
  <2>2. Len(Ins(f, m)) # 0 => Ins(f, m)[1] \in Ids(f)
    <3>1. Len(Ins(f, m)) # 0 => 1 \in 1..Len(Ins(f, m))
      BY <1>0, <2>1, NodeTypes
    <3> QED
      BY <1>0, <2>1, <3>1, InputsAre
  <2> QED
    BY <1>11, <1>13, <2>1, <2>2 DEF Shaped
<1>17. Held(g, H)
  BY <1>0, <1>8, <1>13, <1>14, <1>15, <1>16 DEF Held
<1>18. Stands(g, t, t)
  BY DEF Stands
<1>19. HasMoved(f, g, H, t, t, a)
  BY <1>4, <1>9, <1>11, <1>12, <1>13, <1>17, <1>18 DEF HasMoved
<1> QED
  BY <1>1, <1>19 DEF a, u, z

(* Replacing one use keeps the graph held, and changes no other node; the  *)
(* node may be replaced by itself.                                         *)
LEMMA MovedAny ==
  ASSUME NEW f, NEW H, Held(f, H), NEW t \in H, NEW s \in H, Uses(f, t) # <<>>,
         t # f.end, s # f.end, Stands(f, t, s)
  PROVE  HasMoved(f, Moved(f, t, s), H, t, s, Head(Uses(f, t)).node)
<1>1. CASE s = t
  BY <1>1, MovedBack
<1>2. CASE s # t
  <2>1. LET u == Head(Uses(f, t))
            g == Moved(f, t, s) IN
         /\ Held(g, H) /\ Stands(g, t, s) /\ u.node \in H /\ g.end = f.end /\ Ids(g) = Ids(f)
         /\ \A m \in Ids(f) : /\ Kind(g, m) = Kind(f, m) /\ Len(Ins(g, m)) = Len(Ins(f, m))
                              /\ m # u.node => Ins(g, m) = Ins(f, m)
                              /\ g.node[m].flags = f.node[m].flags
                              /\ g.node[m].data = f.node[m].data
         /\ \A m \in Ids(f) : m # t /\ m # s => Uses(g, m) = Uses(f, m)
    BY <1>2, MovedHeld
  <2> QED
    BY <2>1 DEF HasMoved
<1> QED
  BY <1>1, <1>2

\* The node n is off the lists of its inputs.
HasLeft(f, g, H, n) ==
  /\ Held(g, H \ {n}) /\ g.end = f.end /\ Ids(g) = Ids(f)
  /\ \A m \in Ids(f) : /\ Kind(g, m) = Kind(f, m) /\ Ins(g, m) = Ins(f, m)
                       /\ g.node[m].flags = f.node[m].flags
                       /\ g.node[m].data = f.node[m].data
                       /\ Uses(f, m) = <<>> => Uses(g, m) = <<>>
  /\ \A m \in Ids(f) : \A k \in 0..Len(Ins(f, n)) : Uses(Removal(f, n)[k], m) = <<>> => Uses(g, m) = <<>>

(* A node without uses that is removed leaves the others held and as they  *)
(* were.                                                                   *)
LEMMA RemovedAny ==
  ASSUME NEW f, NEW H, Held(f, H), NEW n \in Ids(f), n # f.end, Uses(f, n) = <<>>
  PROVE  HasLeft(f, Removal(f, n)[Len(Ins(f, n))], H, n)
<1> DEFINE L == Len(Ins(f, n))
           g == Removal(f, n)[L]
<1>1. IsGraph(f)
  BY DEF Held
<1>2. Held(g, H \ {n})
  BY RemovalHeld
<1>3. /\ Alike(f, g) /\ Ids(g) = Ids(f)
      /\ \A m \in Ids(f) : Ins(g, m) = Ins(f, m)
      /\ \A m \in Ids(f) :
           /\ Uses(f, m) = <<>> => Uses(g, m) = <<>>
           /\ \A k \in 0..L : Uses(Removal(f, n)[k], m) = <<>> => Uses(g, m) = <<>>
  BY <1>1, RemovalIs
<1> HIDE DEF g
<1>4. /\ g.end = f.end
      /\ \A m \in Ids(f) : /\ Kind(g, m) = Kind(f, m)
                           /\ g.node[m].flags = f.node[m].flags
                           /\ g.node[m].data = f.node[m].data
  BY <1>3 DEF Alike, Kind
<1>5. HasLeft(f, g, H, n)
  BY <1>2, <1>3, <1>4 DEF HasLeft
<1> QED
  BY <1>5 DEF g

-----------------------------------------------------------------------------
\* The invariant of the optimizer.

\* There is a new phi p.
HasPhi(f, g, H, p) ==
  /\ Held(g, H \cup {p}) /\ g.end = f.end /\ Ids(g) = Ids(f) \cup {p} /\ p \notin Ids(f)
  /\ p \in Nat /\ p \notin H
  /\ \A m \in Ids(f) : /\ g.node[m] = f.node[m] /\ Kind(g, m) = Kind(f, m)
                       /\ Ins(g, m) = Ins(f, m) /\ Uses(g, m) = Uses(f, m)
  /\ Kind(g, p) = "PHI" /\ Len(Ins(g, p)) = 0

(* PhiMade, under one name.                                                *)
LEMMA PhiAdded ==
  ASSUME NEW f, NEW H, Held(f, H)
  PROVE  HasPhi(f, cb_node_phi(f), H, f.next_id)
<1> DEFINE g == cb_node_phi(f)
           p == f.next_id
<1>1. /\ Held(g, H \cup {p}) /\ g.end = f.end /\ Ids(g) = Ids(f) \cup {p} /\ p \notin Ids(f)
      /\ p \in Nat /\ p # f.end /\ p \notin H
      /\ \A m \in Ids(f) : g.node[m] = f.node[m]
      /\ Kind(g, p) = "PHI" /\ Len(Ins(g, p)) = 0 /\ Ins(g, p) = <<>>
  BY PhiMade
<1> QED
  BY <1>1 DEF HasPhi, Kind, Ins, Uses

\* The phi p has its inputs.
HasFilled(f, g, H, p, region, ins) ==
  /\ Held(g, H) /\ g.end = f.end /\ Ids(g) = Ids(f)
  /\ Ins(g, p) = <<region>> \o ins /\ Len(Ins(g, p)) = Len(ins) + 1
  /\ \A m \in Ids(f) : Kind(g, m) = Kind(f, m) /\ g.node[m].data = f.node[m].data
  /\ \A m \in Ids(f) : m # p => Ins(g, m) = Ins(f, m) /\ g.node[m].flags = f.node[m].flags

(* PhiFilled, under one name.                                              *)
LEMMA PhiFills ==
  ASSUME NEW f, NEW H, Held(f, H), NEW p \in H, Kind(f, p) = "PHI", Len(Ins(f, p)) = 0,
         NEW region \in H, Kind(f, region) = "REGION",
         NEW ins \in Seq(H \ {f.end}), Len(ins) = Len(Ins(f, region))
  PROVE  HasFilled(f, cb_set_phi_ins(f, p, region, ins), H, p, region, ins)
BY PhiFilled DEF HasFilled

-----------------------------------------------------------------------------
(* The invariant of the optimizer: of the graph f, the nodes H made and    *)
(* not removed, and the state o of the passes.                             *)
IsOpt(o) == DOMAIN o = {"phase", "worklist", "table", "stack", "node", "ideal", "visited", "map",
                        "target", "source", "back", "states", "stores"}

\* The nodes the loop under way holds on to.
Underway(o) ==
  IF o.phase \in {"fill", "remove"} THEN ToSet(o.stack)
  ELSE IF o.phase \in {"effects", "forward", "number"} THEN {o.node}
  ELSE IF o.phase = "replace" THEN {o.target} ELSE {}

\* Each node is on the worklist, in the table or under way.
Kept(H, o) ==
  /\ Listed(o.worklist) \subseteq H /\ o.table \subseteq H
  /\ o.phase # "idle" => H \subseteq Listed(o.worklist) \cup o.table \cup Underway(o)

\* A walk over memory effects has visited phis and stores.
Effects(f, H, visited, stack) ==
  /\ visited \subseteq H
  /\ \A n \in visited : Kind(f, n) \in {"PHI", "STORE"}
  /\ \A n \in visited : Kind(f, n) = "PHI" =>
       \A i \in 2..Len(Ins(f, n)) : Ins(f, n)[i] \in visited \cup stack

LoadOK(f, H, o) == o.node \in H /\ Kind(f, o.node) = "LOAD"

EffectsOK(f, H, o) ==
  /\ LoadOK(f, H, o) /\ o.ideal = o.node
  /\ o.stack \in Seq(H \ {f.end})
  /\ Effects(f, H, o.visited, ToSet(o.stack))
  /\ Ins(f, o.node)[2] \in o.visited \cup ToSet(o.stack)

\* The value of v is known, or will be before item i is met.
Todo(o, i, v) ==
  v \in DOMAIN o.map \/ \E j \in DOMAIN o.stack : j > i /\ ~o.stack[j].processed /\ o.stack[j].node = v

\* What is mapped was visited; a phi is mapped to a phi of its own.
MapOK(f, H, o) ==
  /\ DOMAIN o.map \subseteq o.visited
  /\ \A n \in DOMAIN o.map : o.map[n] \in H /\ o.map[n] # f.end
  /\ \A n \in DOMAIN o.map : Kind(f, n) = "PHI" =>
       o.map[n] \notin o.visited /\ Kind(f, o.map[n]) = "PHI" /\ o.map[n] \notin o.table
  /\ \A n, m \in DOMAIN o.map :
       Kind(f, n) = "PHI" /\ Kind(f, m) = "PHI" /\ o.map[n] = o.map[m] => n = m

Items(o) ==
  /\ o.stack \in Seq([processed : BOOLEAN, node : o.visited])
  /\ \A i, j \in DOMAIN o.stack :
       o.stack[i].processed /\ o.stack[j].processed /\ o.stack[i].node = o.stack[j].node => i = j

\* The items of phis that wait for their inputs to be mapped.
Waiting(f, o) ==
  \A i \in DOMAIN o.stack : o.stack[i].processed =>
    LET n == o.stack[i].node IN
    /\ n \in DOMAIN o.map /\ Kind(f, n) = "PHI" /\ Len(Ins(f, o.map[n])) = 0
    /\ \A k \in 2..Len(Ins(f, n)) : Todo(o, i, Ins(f, n)[k])

\* A phi without inputs is one that waits.
Unfilled(f, H, o) ==
  \A p \in H : Kind(f, p) = "PHI" /\ Len(Ins(f, p)) = 0 =>
    \E i \in DOMAIN o.stack : o.stack[i].processed /\ o.map[o.stack[i].node] = p

ForwardOK(f, H, o) ==
  /\ LoadOK(f, H, o)
  /\ Effects(f, H, o.visited, {}) /\ Ins(f, o.node)[2] \in o.visited
  /\ \A n \in o.visited : Len(Ins(f, n)) # 0
  /\ MapOK(f, H, o) /\ Items(o) /\ Waiting(f, o) /\ Unfilled(f, H, o)
  /\ Todo(o, 0, Ins(f, o.node)[2])

NumberOK(f, H, o) == /\ o.node \in H /\ o.ideal \in H /\ (o.ideal = f.end <=> o.node = f.end)
                     /\ Stands(f, o.node, o.ideal)

ReplaceOK(f, H, o) ==
  /\ o.target \in Ids(f) /\ o.target # f.end
  /\ o.target \in H => o.source \in H /\ o.source # f.end
  /\ o.target \notin H => Uses(f, o.target) = <<>>
  /\ Stands(f, o.target, o.source)

RemoveOK(f, o) ==
  /\ o.stack \in Seq(Ids(f))
  /\ \A n \in ToSet(o.stack) : n # f.end /\ Uses(f, n) = <<>>

StoresOK(f, H, o) ==
  /\ o.stores \in Seq(Ids(f))
  /\ \A n \in ToSet(o.stores) : Kind(f, n) = "STORE" /\ (n \in H \/ Uses(f, n) = <<>>)

Sweeping(o) == \/ o.phase \in {"mark", "sweep"}
               \/ o.phase \in {"replace", "remove"} /\ o.back = "sweep"

PhaseOK(f, H, o) ==
  /\ o.phase = "fill" => o.stack \in Seq(H) /\ o.table = {}
  /\ o.phase = "effects" => EffectsOK(f, H, o)
  /\ o.phase = "forward" => ForwardOK(f, H, o)
  /\ o.phase # "forward" => NoEmptyPhi(f, H)
  /\ o.phase = "number" => NumberOK(f, H, o)
  /\ o.phase = "replace" => ReplaceOK(f, H, o)
  /\ o.phase = "remove" => RemoveOK(f, o)
  /\ o.phase \in {"replace", "remove"} => o.back \in {"peepholes", "sweep"}
  /\ Sweeping(o) => StoresOK(f, H, o)

OptOK(f, H, o) ==
  /\ IsOpt(o) /\ Sound(o.worklist) /\ Held(f, H) /\ Kept(H, o) /\ PhaseOK(f, H, o)

-----------------------------------------------------------------------------
\* The parts of the invariant, and its start.

(* The invariant, taken apart.                                             *)
LEMMA OptParts ==
  ASSUME NEW f, NEW H, NEW o, OptOK(f, H, o)
  PROVE  /\ IsOpt(o) /\ Sound(o.worklist) /\ Held(f, H) /\ IsGraph(f) /\ Matched(f, H)
         /\ H \subseteq Ids(f) /\ H \subseteq Nat /\ f.end \in H /\ f.end \in Ids(f) /\ OneEnd(f)
         /\ \A n \in H : Shaped(f, n)
         /\ Kept(H, o) /\ PhaseOK(f, H, o)
         /\ Listed(o.worklist) \subseteq H /\ o.table \subseteq H
<1>1. /\ IsOpt(o) /\ Sound(o.worklist) /\ Held(f, H) /\ Kept(H, o) /\ PhaseOK(f, H, o)
  BY DEF OptOK
<1>2. /\ IsGraph(f) /\ Matched(f, H) /\ f.end \in H /\ OneEnd(f) /\ \A n \in H : Shaped(f, n)
      /\ H \subseteq Ids(f)
  BY <1>1 DEF Held, Matched
<1>3. f.next_id \in Nat
  BY <1>2 DEF IsGraph
<1>4. Ids(f) \subseteq Nat
  BY <1>3 DEF Ids
<1> QED
  BY <1>1, <1>2, <1>4 DEF Kept

(* The graph that END's walk comes to is held as well as any that holds it. *)
LEMMA LiveHeld ==
  ASSUME NEW f, NEW H, Held(f, H)
  PROVE  /\ Held(f, Live(f)) /\ Live(f) \subseteq H
         /\ func_walk_unspecified_order(f) \in Seq(Ids(f))
         /\ func_walk_unspecified_order(f) \in Seq(Live(f))
         /\ Live(f) = ToSet(func_walk_unspecified_order(f))
<1>0. /\ IsGraph(f) /\ Matched(f, H) /\ f.end \in H /\ OneEnd(f) /\ \A n \in H : Shaped(f, n)
      /\ H \subseteq Ids(f)
  BY DEF Held, Matched
<1> DEFINE w == func_walk_unspecified_order(f)
<1>1. /\ w \in Seq(Ids(f)) /\ Live(f) = ToSet(w) /\ Live(f) \subseteq Ids(f) /\ f.end \in Live(f)
      /\ \A n \in Live(f) : \A i \in DOMAIN Ins(f, n) :
              Ins(f, n)[i] # Nil => Ins(f, n)[i] \in Live(f)
      /\ \A n \in Live(f) : \A u \in UseSet(f, n) : u.node \in Live(f)
      /\ Live(f) \subseteq H
  BY <1>0, LiveIs
<1> HIDE DEF w
<1>2. Matched(f, Live(f))
  BY <1>0, <1>1 DEF Matched, UsesName, InsListed
<1>3. w \in Seq(Live(f))
  <2>1. \A i \in 1..Len(w) : w[i] \in ToSet(w)
    BY <1>1, ToSetIs
  <2>2. w \in Seq(ToSet(w))
    BY <1>1, <2>1
  <2> QED
    BY <1>1, <2>2
<1>4. Held(f, Live(f))
  BY <1>0, <1>1, <1>2 DEF Held
<1> QED
  BY <1>1, <1>3, <1>4 DEF w

(* cb_opt_func starts with the live nodes, all to be put on the worklist.  *)
LEMMA StartStep ==
  ASSUME NEW H, OptOK(func, H, opt), cb_opt_func
  PROVE  OptOK(func', Live(func), opt')
<1> DEFINE w == func_walk_unspecified_order(func)
           N == Live(func)
<1>0. /\ IsOpt(opt) /\ Held(func, H) /\ PhaseOK(func, H, opt)
  BY OptParts
<1>1. /\ opt' = [opt EXCEPT !.phase = "fill", !.worklist = W!Empty, !.table = {}, !.stack = w]
      /\ func' = func /\ opt.phase = "idle"
  BY DEF cb_opt_func, In_phase
<1>2. /\ Held(func, N) /\ N \subseteq H /\ w \in Seq(N) /\ N = ToSet(w)
  BY <1>0, LiveHeld
<1> HIDE DEF w, N
<1>3. /\ IsOpt(opt') /\ opt'.phase = "fill" /\ opt'.worklist = W!Empty /\ opt'.table = {}
      /\ opt'.stack = w
  BY <1>0, <1>1 DEF IsOpt
<1>4. Sound(opt'.worklist) /\ Listed(opt'.worklist) = {}
  BY <1>3, EmptyLists DEF Lists
<1>5. Kept(N, opt')
  BY <1>2, <1>3, <1>4 DEF Kept, Underway
<1>6. NoEmptyPhi(func, N)
  BY <1>0, <1>1, <1>2 DEF PhaseOK, NoEmptyPhi
<1>7. PhaseOK(func, N, opt')
  BY <1>2, <1>3, <1>6 DEF PhaseOK, Sweeping
<1>8. OptOK(func, N, opt')
  BY <1>2, <1>3, <1>4, <1>5, <1>7 DEF OptOK
<1> QED
  BY <1>1, <1>8 DEF N

(* opt_fill moves one node from the list to the worklist.                  *)
LEMMA FillStep ==
  ASSUME NEW H, OptOK(func, H, opt), opt_fill
  PROVE  OptOK(func', H, opt')
<1>0. /\ IsOpt(opt) /\ Sound(opt.worklist) /\ Held(func, H) /\ Kept(H, opt) /\ PhaseOK(func, H, opt)
      /\ H \subseteq Nat
  BY OptParts
<1>1. opt.phase = "fill" /\ func' = func
  BY DEF opt_fill, In_phase
<1>2. opt.stack \in Seq(H) /\ opt.table = {} /\ NoEmptyPhi(func, H)
  BY <1>0, <1>1 DEF PhaseOK
<1>3. /\ Listed(opt.worklist) \subseteq H
      /\ H \subseteq Listed(opt.worklist) \cup ToSet(opt.stack)
  BY <1>0, <1>1, <1>2 DEF Kept, Underway
<1>4. CASE opt.stack = <<>>
  <2>1. opt' = [opt EXCEPT !.phase = "peepholes"]
    BY <1>4 DEF opt_fill
  <2>2. /\ IsOpt(opt') /\ opt'.phase = "peepholes" /\ opt'.worklist = opt.worklist
        /\ opt'.table = opt.table
    BY <1>0, <2>1 DEF IsOpt
  <2>3. ToSet(opt.stack) = {}
    BY <1>4 DEF ToSet
  <2>4. Kept(H, opt')
    BY <1>2, <1>3, <2>2, <2>3 DEF Kept, Underway
  <2>5. PhaseOK(func, H, opt')
    BY <1>2, <2>2 DEF PhaseOK, Sweeping
  <2> QED
    BY <1>0, <1>1, <2>2, <2>4, <2>5 DEF OptOK
<1>5. CASE opt.stack # <<>>
  <2> DEFINE x == Head(opt.stack)
             l == Add(opt.worklist, x)
  <2>1. opt' = [opt EXCEPT !.worklist = l, !.stack = Tail(@)]
    BY <1>5 DEF opt_fill
  <2>2. /\ x \in H /\ Tail(opt.stack) \in Seq(H)
        /\ ToSet(opt.stack) = {x} \cup ToSet(Tail(opt.stack))
    BY <1>2, <1>5, HeadOf
  <2>3. x \in Nat
    BY <1>0, <2>2
  <2> HIDE DEF x
  <2>4. Lists(l, Listed(opt.worklist) \cup {x})
    BY <1>0, <2>3, AddLists
  <2> HIDE DEF l
  <2>5. /\ IsOpt(opt') /\ opt'.phase = "fill" /\ opt'.worklist = l
        /\ opt'.table = {} /\ opt'.stack = Tail(opt.stack)
    BY <1>0, <1>1, <1>2, <2>1 DEF IsOpt
  <2>6. Sound(l) /\ Listed(l) = Listed(opt.worklist) \cup {x}
    BY <2>4 DEF Lists
  <2>7. Kept(H, opt')
    BY <1>3, <2>2, <2>5, <2>6 DEF Kept, Underway
  <2>8. PhaseOK(func, H, opt')
    BY <1>2, <2>2, <2>5 DEF PhaseOK, Sweeping
  <2> QED
    BY <1>0, <1>1, <2>5, <2>6, <2>7, <2>8 DEF OptOK
<1> QED
  BY <1>4, <1>5

-----------------------------------------------------------------------------
\* Peepholes.

(* The inputs the passes count on.                                         *)
LEMMA InputsFor ==
  ASSUME NEW f, NEW H, Held(f, H), NEW n \in H
  PROVE  /\ Kind(f, n) = "LOAD" => Ins(f, n)[2] \in H /\ Ins(f, n)[2] # f.end
         /\ Kind(f, n) = "STORE" => /\ Ins(f, n)[2] \in H /\ Ins(f, n)[2] # f.end
                                    /\ Ins(f, n)[4] \in H /\ Ins(f, n)[4] # f.end
                                    /\ Len(Ins(f, n)) # 0
         /\ Kind(f, n) = "REGION" => /\ Len(Ins(f, n)) \in Nat \ {0}
                                     /\ Ins(f, n)[1] \in H /\ Ins(f, n)[1] # f.end
         /\ Kind(f, n) = "PHI" /\ Len(Ins(f, n)) # 0 =>
              /\ Ins(f, n)[1] \in H /\ Ins(f, n)[1] # f.end /\ Kind(f, Ins(f, n)[1]) = "REGION"
              /\ Len(Ins(f, n)) = Len(Ins(f, Ins(f, n)[1])) + 1
<1> DEFINE ins == Ins(f, n)
           k == Len(ins)
<1>1. Shaped(f, n)
  BY DEF Held
<1>2. k \in Nat /\ \A i \in 1..k : ins[i] \in H /\ ins[i] # f.end
  BY InputsAre
<1>3. /\ Kind(f, n) = "LOAD" => k = 3
      /\ Kind(f, n) = "STORE" => k = 4
      /\ Kind(f, n) = "REGION" => k > 0
      /\ Kind(f, n) = "PHI" /\ k # 0 => Kind(f, ins[1]) = "REGION" /\ k = Len(Ins(f, ins[1])) + 1
  BY <1>1 DEF Shaped
<1> HIDE DEF ins, k
<1>4. /\ k # 0 => 1 \in 1..k
      /\ k = 3 \/ k = 4 => 2 \in 1..k
      /\ k = 4 => 4 \in 1..k
      /\ k > 0 => k # 0
  BY <1>2
<1>5. /\ k # 0 => ins[1] \in H /\ ins[1] # f.end
      /\ k = 3 \/ k = 4 => ins[2] \in H /\ ins[2] # f.end
      /\ k = 4 => ins[4] \in H /\ ins[4] # f.end
  BY <1>2, <1>4
<1> QED
  BY <1>2, <1>3, <1>4, <1>5 DEF ins, k

(* What is known of the node that opt_func takes from the worklist.        *)
LEMMA PopParts ==
  ASSUME NEW H, OptOK(func, H, opt), NEW kinds, Pop(kinds)
  PROVE  /\ opt.phase = "peepholes" /\ Popped \in H /\ Popped \in Nat /\ Popped \in Ids(func)
         /\ Kind(func, Popped) \in kinds
         /\ Sound(W!Popped(opt.worklist))
         /\ Listed(W!Popped(opt.worklist)) = Listed(opt.worklist) \ {Popped}
         /\ H \subseteq Listed(opt.worklist) \cup opt.table
         /\ NoEmptyPhi(func, H) /\ Shaped(func, Popped)
<1>0. /\ Sound(opt.worklist) /\ Kept(H, opt) /\ PhaseOK(func, H, opt)
      /\ Listed(opt.worklist) \subseteq H /\ H \subseteq Nat /\ H \subseteq Ids(func)
      /\ \A n \in H : Shaped(func, n)
  BY OptParts
<1>1. /\ opt.phase = "peepholes" /\ opt.worklist.packed # <<>> /\ Kind(func, Popped) \in kinds
  BY DEF Pop, In_phase
<1>2. Lists(W!Popped(opt.worklist), Listed(opt.worklist) \ {Popped}) /\ Popped \in Listed(opt.worklist)
  BY <1>0, <1>1, PopLists DEF Popped
<1>3. H \subseteq Listed(opt.worklist) \cup opt.table
  BY <1>0, <1>1 DEF Kept, Underway
<1>4. NoEmptyPhi(func, H)
  BY <1>0, <1>1 DEF PhaseOK
<1> QED
  BY <1>0, <1>1, <1>2, <1>3, <1>4 DEF Lists

(* What is left to show when a popped node is idealized.                   *)
LEMMA NumberStep ==
  ASSUME NEW H, OptOK(func, H, opt), NEW kinds, Pop(kinds), NEW o, IsOpt(o), o.phase = "number",
         Sound(o.worklist), Listed(o.worklist) \subseteq H,
         Listed(opt.worklist) \ {Popped} \subseteq Listed(o.worklist),
         o.table = opt.table \ {Popped}, o.node = Popped, NumberOK(func, H, o)
  PROVE  OptOK(func, H, o)
<1>0. /\ Held(func, H) /\ opt.table \subseteq H
      /\ H \subseteq Listed(opt.worklist) \cup opt.table /\ NoEmptyPhi(func, H)
  BY OptParts, PopParts
<1>1. Kept(H, o)
  BY <1>0 DEF Kept, Underway
<1>2. PhaseOK(func, H, o)
  BY <1>0 DEF PhaseOK, Sweeping
<1> QED
  BY <1>0, <1>1, <1>2 DEF OptOK

(* What the state is when a peephole has its answer.                       *)
LEMMA IdealIs ==
  ASSUME IsOpt(opt), NEW ideal
  PROVE  LET o == Idealized(ideal) IN
         /\ IsOpt(o) /\ o.phase = "number" /\ o.node = Popped /\ o.ideal = ideal
         /\ o.worklist = W!Popped(opt.worklist) /\ o.table = opt.table \ {Popped}
BY DEF IsOpt, Idealized

(* peephole_phi keeps the invariant: what it returns may stand for the     *)
(* phi.                                                                    *)
LEMMA PhiPeephole ==
  ASSUME NEW H, OptOK(func, H, opt), peephole_phi
  PROVE  OptOK(func', H, opt')
<1> DEFINE p == Popped
           inputs == PhiInputs(p)
           x == CHOOSE y \in inputs : TRUE
           r == In(func, p, 1)
<1>0. Pop({"PHI"}) /\ func' = func
  BY DEF peephole_phi
<1>1. /\ opt.phase = "peepholes" /\ p \in H /\ p \in Nat /\ p \in Ids(func)
      /\ Kind(func, p) \in {"PHI"}
      /\ Sound(W!Popped(opt.worklist))
      /\ Listed(W!Popped(opt.worklist)) = Listed(opt.worklist) \ {p}
      /\ NoEmptyPhi(func, H)
  BY <1>0, PopParts
<1>2. /\ IsOpt(opt) /\ Held(func, H) /\ OneEnd(func) /\ H \subseteq Nat
      /\ Listed(opt.worklist) \subseteq H
  BY OptParts
<1>3. /\ Len(Ins(func, p)) \in Nat /\ Len(Ins(func, p)) # 0
      /\ \A i \in 1..Len(Ins(func, p)) : Ins(func, p)[i] \in H /\ Ins(func, p)[i] # func.end
  BY <1>1, <1>2, InputsAre DEF NoEmptyPhi
<1>4. r \in H
  <2>1. 1 \in 1..Len(Ins(func, p))
    BY <1>3
  <2> QED
    BY <1>3, <2>1 DEF In, Ins
<1>5. \A y \in inputs : y \in H /\ y # func.end
  <2>1. \A i \in 2..Len(Ins(func, p)) : i \in 1..Len(Ins(func, p))
    BY <1>3
  <2> QED
    BY <1>3, <2>1 DEF PhiInputs, In, Ins
<1>6. p # func.end /\ Kind(func, p) # "REGION"
  BY <1>1, <1>2 DEF OneEnd
<1> HIDE DEF p, r
<1>7. CASE Cardinality(inputs) = 1
  <2>1. inputs # {}
    BY <1>7, FS_EmptySet
  <2>2. x \in H /\ x # func.end
    BY <1>5, <2>1
  <2> DEFINE o == Idealized(x)
             l == Add(W!Popped(opt.worklist), r)
  <2>3. opt' = [o EXCEPT !.worklist = Add(@, r)]
    BY <1>7 DEF peephole_phi, p, r
  <2> HIDE DEF x, inputs
  <2>4. /\ IsOpt(o) /\ o.phase = "number" /\ o.node = p /\ o.ideal = x
        /\ o.worklist = W!Popped(opt.worklist) /\ o.table = opt.table \ {p}
    BY <1>2, IdealIs DEF p
  <2> HIDE DEF o
  <2>5. Lists(l, Listed(W!Popped(opt.worklist)) \cup {r})
    <3>1. r \in Nat
      BY <1>2, <1>4
    <3> QED
      BY <1>1, <3>1, AddLists
  <2>6. opt' = [o EXCEPT !.worklist = l]
    BY <2>3, <2>4
  <2> HIDE DEF l
  <2>7. /\ IsOpt(opt') /\ opt'.phase = "number" /\ opt'.node = p /\ opt'.ideal = x
        /\ opt'.worklist = l /\ opt'.table = opt.table \ {p}
    BY <2>4, <2>6 DEF IsOpt
  <2>8. NumberOK(func, H, opt')
    BY <1>1, <1>6, <2>2, <2>7 DEF NumberOK, Stands
  <2>9. Sound(l) /\ Listed(l) \subseteq H /\ Listed(opt.worklist) \ {p} \subseteq Listed(l)
    BY <1>1, <1>2, <1>4, <2>5 DEF Lists
  <2>10. OptOK(func, H, opt')
    BY <1>0, <2>7, <2>8, <2>9, NumberStep DEF p
  <2> QED
    BY <1>0, <2>10
<1>8. CASE Cardinality(inputs) # 1
  <2>1. opt' = Idealized(p)
    BY <1>8 DEF peephole_phi, p
  <2>2. /\ IsOpt(opt') /\ opt'.phase = "number" /\ opt'.node = p /\ opt'.ideal = p
        /\ opt'.worklist = W!Popped(opt.worklist) /\ opt'.table = opt.table \ {p}
    BY <1>2, <2>1, IdealIs DEF p
  <2>3. NumberOK(func, H, opt')
    BY <1>1, <1>6, <2>2 DEF NumberOK, Stands
  <2>4. OptOK(func, H, opt')
    BY <1>0, <1>1, <1>2, <2>2, <2>3, NumberStep DEF p
  <2> QED
    BY <1>0, <2>4
<1> QED
  BY <1>7, <1>8

(* peephole_region keeps the invariant: a region gives way to its one      *)
(* input only when no phi uses it.                                         *)
LEMMA RegionPeephole ==
  ASSUME NEW H, OptOK(func, H, opt), peephole_region
  PROVE  OptOK(func', H, opt')
<1> DEFINE p == Popped
           x == RegionIdeal(p)
<1>0. Pop({"REGION"}) /\ func' = func /\ opt' = Idealized(x)
  BY DEF peephole_region
<1>1. /\ opt.phase = "peepholes" /\ p \in H /\ p \in Nat /\ p \in Ids(func)
      /\ Kind(func, p) \in {"REGION"}
      /\ Sound(W!Popped(opt.worklist))
      /\ Listed(W!Popped(opt.worklist)) = Listed(opt.worklist) \ {p}
      /\ Shaped(func, p)
  BY <1>0, PopParts
<1>2. /\ IsOpt(opt) /\ Held(func, H) /\ OneEnd(func) /\ Listed(opt.worklist) \subseteq H
  BY OptParts
<1>4. In(func, p, 1) \in H /\ In(func, p, 1) # func.end
  BY <1>1, <1>2, InputsFor DEF In, Ins
<1>5. p # func.end
  BY <1>1, <1>2 DEF OneEnd
<1>6. x \in H /\ x # func.end /\ Stands(func, p, x)
  <2>1. CASE \/ Len(func.node[p].ins) > 1
             \/ \E u \in ToSet(func.node[p].uses) : Kind(func, u.node) = "PHI"
    <3>1. x = p
      BY <2>1 DEF RegionIdeal
    <3> QED
      BY <1>1, <1>5, <3>1 DEF Stands
  <2>2. CASE ~(\/ Len(func.node[p].ins) > 1
               \/ \E u \in ToSet(func.node[p].uses) : Kind(func, u.node) = "PHI")
    <3>1. x = In(func, p, 1)
      BY <2>2 DEF RegionIdeal
    <3>2. \A u \in UseSet(func, p) : Kind(func, u.node) # "PHI"
      BY <2>2 DEF UseSet, Uses
    <3> QED
      BY <1>4, <3>1, <3>2 DEF Stands
  <2> QED
    BY <2>1, <2>2
<1> HIDE DEF p, x
<1>7. /\ IsOpt(opt') /\ opt'.phase = "number" /\ opt'.node = p /\ opt'.ideal = x
      /\ opt'.worklist = W!Popped(opt.worklist) /\ opt'.table = opt.table \ {p}
  BY <1>0, <1>2, IdealIs DEF p
<1>8. NumberOK(func, H, opt')
  BY <1>1, <1>5, <1>6, <1>7 DEF NumberOK
<1>9. OptOK(func, H, opt')
  BY <1>0, <1>1, <1>2, <1>7, <1>8, NumberStep DEF p
<1> QED
  BY <1>0, <1>9

(* A node without peephole keeps the invariant.                            *)
LEMMA OtherPeephole ==
  ASSUME NEW H, OptOK(func, H, opt), peephole_other
  PROVE  OptOK(func', H, opt')
<1> DEFINE p == Popped
<1>0. Pop(Kinds \ {"PHI", "REGION", "LOAD"}) /\ func' = func /\ opt' = Idealized(p)
  BY DEF peephole_other
<1>1. /\ opt.phase = "peepholes" /\ p \in H /\ Kind(func, p) # "REGION"
      /\ Sound(W!Popped(opt.worklist))
      /\ Listed(W!Popped(opt.worklist)) = Listed(opt.worklist) \ {p}
  BY <1>0, PopParts
<1>2. /\ IsOpt(opt) /\ Listed(opt.worklist) \subseteq H
  BY OptParts
<1> HIDE DEF p
<1>3. /\ IsOpt(opt') /\ opt'.phase = "number" /\ opt'.node = p /\ opt'.ideal = p
      /\ opt'.worklist = W!Popped(opt.worklist) /\ opt'.table = opt.table \ {p}
  BY <1>0, <1>2, IdealIs DEF p
<1>4. NumberOK(func, H, opt')
  BY <1>1, <1>3 DEF NumberOK, Stands
<1>5. OptOK(func, H, opt')
  BY <1>0, <1>1, <1>2, <1>3, <1>4, NumberStep DEF p
<1> QED
  BY <1>0, <1>5

(* peephole_load starts its walk over the effects at the load's memory.    *)
LEMMA LoadPeephole ==
  ASSUME NEW H, OptOK(func, H, opt), peephole_load
  PROVE  OptOK(func', H, opt')
<1> DEFINE p == Popped
           m == In(func, p, Mem)
           o == Idealized(p)
           T == H \ {func.end}
<1>0. Pop({"LOAD"}) /\ func' = func
      /\ opt' = [o EXCEPT !.phase = "effects", !.visited = {}, !.stack = <<m>>]
  BY DEF peephole_load
<1>1. /\ opt.phase = "peepholes" /\ p \in H /\ Kind(func, p) = "LOAD" /\ Shaped(func, p)
      /\ Sound(W!Popped(opt.worklist))
      /\ Listed(W!Popped(opt.worklist)) = Listed(opt.worklist) \ {p}
      /\ H \subseteq Listed(opt.worklist) \cup opt.table
      /\ NoEmptyPhi(func, H)
  BY <1>0, PopParts
<1>2. /\ IsOpt(opt) /\ Held(func, H) /\ Listed(opt.worklist) \subseteq H /\ opt.table \subseteq H
  BY OptParts
<1>3. m \in T /\ m = Ins(func, p)[2]
  BY <1>1, <1>2, InputsFor DEF In, Ins, Mem
<1>4. /\ IsOpt(o) /\ o.phase = "number" /\ o.node = p /\ o.ideal = p
      /\ o.worklist = W!Popped(opt.worklist) /\ o.table = opt.table \ {p}
  BY <1>2, IdealIs DEF p
<1> HIDE DEF p, m, o, T
<1>5. /\ IsOpt(opt') /\ opt'.phase = "effects" /\ opt'.node = p /\ opt'.ideal = p
      /\ opt'.worklist = W!Popped(opt.worklist) /\ opt'.table = opt.table \ {p}
      /\ opt'.stack = <<m>> /\ opt'.visited = {}
  BY <1>0, <1>4 DEF IsOpt
<1>6. <<m>> \in Seq(T) /\ m \in ToSet(<<m>>)
  BY <1>3 DEF ToSet
<1>7. EffectsOK(func, H, opt')
  <2>1. opt'.stack \in Seq(H \ {func.end})
    BY <1>5, <1>6 DEF T
  <2>2. Effects(func, H, opt'.visited, ToSet(opt'.stack))
    BY <1>5 DEF Effects
  <2>3. LoadOK(func, H, opt') /\ Ins(func, opt'.node)[2] \in opt'.visited \cup ToSet(opt'.stack)
    BY <1>1, <1>3, <1>5, <1>6 DEF LoadOK
  <2> QED
    BY <1>5, <2>1, <2>2, <2>3 DEF EffectsOK
<1>8. Kept(H, opt')
  BY <1>1, <1>2, <1>5 DEF Kept, Underway
<1>9. PhaseOK(func, H, opt')
  BY <1>1, <1>5, <1>7 DEF PhaseOK, Sweeping
<1>10. OptOK(func, H, opt')
  BY <1>1, <1>2, <1>5, <1>8, <1>9 DEF OptOK
<1> QED
  BY <1>0, <1>10

-----------------------------------------------------------------------------
\* The effects a load may see.

(* The inputs of a node after the first.                                   *)
LEMMA ValuesAre ==
  ASSUME NEW H, Held(func, H), NEW n \in H, Len(Ins(func, n)) # 0
  PROVE  LET v == Values(n)
             ins == Ins(func, n) IN
         /\ v \in Seq(H \ {func.end}) /\ Len(v) = Len(ins) - 1
         /\ \A i \in 1..Len(v) : i + 1 \in 2..Len(ins) /\ v[i] = ins[i + 1]
         /\ \A k \in 2..Len(ins) : k - 1 \in 1..Len(v) /\ v[k - 1] = ins[k]
<1> DEFINE T == H \ {func.end}
           ins == Ins(func, n)
           v == Values(n)
           k == Len(ins)
<1>1. ins \in Seq(T) /\ k \in Nat /\ k # 0
  BY InputsAre
<1>2. v = SubSeq(ins, 2, k)
  BY DEF Values, Ins
<1> HIDE DEF T, ins, v
<1>3. 2 \in 1..(k + 1) /\ k \in (2 - 1)..k
  BY <1>1
<1>4. /\ v \in Seq(T) /\ Len(v) = k - 1
      /\ \A i \in 1..(k - 1) : v[i] = ins[i + 1]
  <2>1. /\ SubSeq(ins, 2, k) \in Seq(T)
        /\ Len(SubSeq(ins, 2, k)) = (IF 2 <= k THEN k - 2 + 1 ELSE 0)
        /\ \A i \in 1..(k - 2 + 1) : SubSeq(ins, 2, k)[i] = ins[2 + i - 1]
    BY <1>1, <1>3, SubSeqProperties
  <2>2. k - 2 + 1 = k - 1 /\ (IF 2 <= k THEN k - 2 + 1 ELSE 0) = k - 1
    <3>1. k \in Nat /\ k # 0
      BY <1>1
    <3> HIDE DEF k
    <3>2. CASE k = 1
      BY <3>2
    <3>3. CASE 2 <= k
      BY <3>1, <3>3
    <3> QED
      BY <3>1, <3>2, <3>3
  <2>3. \A i \in 1..(k - 1) : 2 + i - 1 = i + 1
    OBVIOUS
  <2> QED
    BY <1>2, <2>1, <2>2, <2>3
<1>5. \A i \in 1..(k - 1) : i + 1 \in 2..k
  BY <1>1
<1>6. \A i \in 2..k : i - 1 \in 1..(k - 1) /\ v[i - 1] = ins[i]
  <2> TAKE i \in 2..k
  <2>1. i - 1 \in 1..(k - 1) /\ (i - 1) + 1 = i
    BY <1>1
  <2> QED
    BY <1>4, <2>1
<1> QED
  BY <1>4, <1>5, <1>6 DEF T, v, ins

(* A turn of the walk over the effects, opt.c:152, visits phis and stores  *)
(* only.                                                                   *)
LEMMA EffectsStep ==
  ASSUME NEW H, OptOK(func, H, opt), load_effects
  PROVE  OptOK(func', H, opt')
<1> DEFINE n == Last(opt.stack)
           front == Front(opt.stack)
           T == H \ {func.end}
           S == opt.visited \cup {n}
           rest == [opt EXCEPT !.stack = Front(@), !.visited = @ \cup {n}]
<1>0. opt.phase = "effects" /\ opt.stack # <<>> /\ func' = func
  BY DEF load_effects, In_phase
<1>1. /\ IsOpt(opt) /\ Sound(opt.worklist) /\ Held(func, H) /\ Kept(H, opt)
      /\ PhaseOK(func, H, opt) /\ OneEnd(func) /\ H \subseteq Ids(func)
  BY OptParts
<1>2. EffectsOK(func, H, opt) /\ NoEmptyPhi(func, H)
  BY <1>0, <1>1 DEF PhaseOK
<1>3. /\ LoadOK(func, H, opt) /\ opt.ideal = opt.node /\ opt.stack \in Seq(T)
      /\ Effects(func, H, opt.visited, ToSet(opt.stack))
      /\ Ins(func, opt.node)[2] \in opt.visited \cup ToSet(opt.stack)
  BY <1>2 DEF EffectsOK
<1>4. /\ n \in T /\ front \in Seq(T) /\ ToSet(opt.stack) = ToSet(front) \cup {n}
  <2> HIDE DEF T
  <2> QED
    BY <1>0, <1>3, FrontIs, FrontOf
<1>5. rest = [opt EXCEPT !.stack = front, !.visited = S]
  OBVIOUS
<1> HIDE DEF n, front, S, rest
<1>6. ASSUME n \in opt.visited \/ Kind(func, n) = "STORE", opt' = rest
      PROVE  OptOK(func, H, opt')
  <2>1. /\ IsOpt(opt') /\ opt'.phase = "effects" /\ opt'.stack = front /\ opt'.visited = S
        /\ opt'.worklist = opt.worklist /\ opt'.table = opt.table
        /\ opt'.node = opt.node /\ opt'.ideal = opt.ideal
    BY <1>0, <1>1, <1>5, <1>6 DEF IsOpt
  <2>2. Effects(func, H, S, ToSet(front))
    <3>1. S \subseteq H /\ \A m \in S : Kind(func, m) \in {"PHI", "STORE"}
      BY <1>3, <1>4, <1>6 DEF Effects, S
    <3>2. ASSUME NEW m \in S, Kind(func, m) = "PHI", NEW i \in 2..Len(Ins(func, m))
          PROVE  Ins(func, m)[i] \in S \cup ToSet(front)
      BY <1>3, <1>4, <1>6, <3>2 DEF Effects, S
    <3> QED
      BY <3>1, <3>2 DEF Effects
  <2>3. EffectsOK(func, H, opt')
    <3>1. Ins(func, opt.node)[2] \in S \cup ToSet(front)
      BY <1>3, <1>4 DEF S
    <3>2. opt'.stack \in Seq(H \ {func.end})
      BY <1>4, <2>1
    <3>3. LoadOK(func, H, opt')
      BY <1>3, <2>1 DEF LoadOK
    <3> QED
      BY <1>3, <2>1, <2>2, <3>1, <3>2, <3>3 DEF EffectsOK
  <2>4. Kept(H, opt')
    BY <1>0, <1>1, <2>1 DEF Kept, Underway
  <2>5. PhaseOK(func, H, opt')
    BY <1>2, <2>1, <2>3 DEF PhaseOK, Sweeping
  <2> QED
    BY <1>1, <2>1, <2>4, <2>5 DEF OptOK
<1>7. ASSUME Kind(func, n) = "PHI", opt' = [rest EXCEPT !.stack = @ \o Values(n)]
      PROVE  OptOK(func, H, opt')
  <2> DEFINE v == Values(n)
             t == front \o v
  <2>0. n \in H /\ Len(Ins(func, n)) # 0
    BY <1>2, <1>4, <1>7 DEF NoEmptyPhi
  <2>1. /\ v \in Seq(T) /\ \A i \in 2..Len(Ins(func, n)) : i - 1 \in 1..Len(v) /\ v[i - 1] = Ins(func, n)[i]
    BY <1>1, <2>0, ValuesAre
  <2>2. rest.stack = front
    BY <1>1, <1>5 DEF IsOpt
  <2>3. opt' = [rest EXCEPT !.stack = t]
    BY <1>7, <2>2
  <2>4. /\ t \in Seq(T) /\ ToSet(t) = ToSet(front) \cup ToSet(v)
    <3> HIDE DEF T, v
    <3> QED
      BY <1>4, <2>1, ConcatOf
  <2>5. \A i \in 2..Len(Ins(func, n)) : Ins(func, n)[i] \in ToSet(v)
    <3>1. DOMAIN v = 1..Len(v)
      BY <2>1
    <3> HIDE DEF v
    <3> QED
      BY <2>1, <3>1 DEF ToSet
  <2> HIDE DEF v, t
  <2>6. /\ IsOpt(opt') /\ opt'.phase = "effects" /\ opt'.stack = t /\ opt'.visited = S
        /\ opt'.worklist = opt.worklist /\ opt'.table = opt.table
        /\ opt'.node = opt.node /\ opt'.ideal = opt.ideal
    BY <1>0, <1>1, <1>5, <2>3 DEF IsOpt
  <2>7. Effects(func, H, S, ToSet(t))
    <3>1. S \subseteq H /\ \A m \in S : Kind(func, m) \in {"PHI", "STORE"}
      BY <1>3, <1>4, <1>7 DEF Effects, S
    <3>2. ASSUME NEW m \in S, Kind(func, m) = "PHI", NEW i \in 2..Len(Ins(func, m))
          PROVE  Ins(func, m)[i] \in S \cup ToSet(t)
      <4>1. CASE m = n
        BY <2>4, <2>5, <3>2, <4>1
      <4>2. CASE m # n
        BY <1>3, <1>4, <2>4, <3>2, <4>2 DEF Effects, S
      <4> QED
        BY <4>1, <4>2
    <3> QED
      BY <3>1, <3>2 DEF Effects
  <2>8. EffectsOK(func, H, opt')
    <3>1. Ins(func, opt.node)[2] \in S \cup ToSet(t)
      BY <1>3, <1>4, <2>4 DEF S
    <3>2. opt'.stack \in Seq(H \ {func.end})
      BY <2>4, <2>6
    <3>3. LoadOK(func, H, opt')
      BY <1>3, <2>6 DEF LoadOK
    <3> QED
      BY <1>3, <2>6, <2>7, <3>1, <3>2, <3>3 DEF EffectsOK
  <2>9. Kept(H, opt')
    BY <1>0, <1>1, <2>6 DEF Kept, Underway
  <2>10. PhaseOK(func, H, opt')
    BY <1>2, <2>6, <2>8 DEF PhaseOK, Sweeping
  <2> QED
    BY <1>1, <2>6, <2>9, <2>10 DEF OptOK
<1>8. ASSUME opt' = [opt EXCEPT !.phase = "number", !.stack = <<>>]
      PROVE  OptOK(func, H, opt')
  <2>1. /\ IsOpt(opt') /\ opt'.phase = "number"
        /\ opt'.worklist = opt.worklist /\ opt'.table = opt.table
        /\ opt'.node = opt.node /\ opt'.ideal = opt.node
    BY <1>1, <1>3, <1>8 DEF IsOpt
  <2>2. NumberOK(func, H, opt')
    <3>1. opt.node \in H /\ Kind(func, opt.node) = "LOAD"
      BY <1>3 DEF LoadOK
    <3> QED
      BY <2>1, <3>1 DEF NumberOK, Stands
  <2>4. Kept(H, opt')
    BY <1>0, <1>1, <2>1 DEF Kept, Underway
  <2>5. PhaseOK(func, H, opt')
    BY <1>2, <2>1, <2>2 DEF PhaseOK, Sweeping
  <2> QED
    BY <1>1, <2>1, <2>4, <2>5 DEF OptOK
<1>9. opt' = IF n \in opt.visited THEN rest
             ELSE IF Kind(func, n) = "PHI" THEN [rest EXCEPT !.stack = @ \o Values(n)]
             ELSE IF Kind(func, n) = "STORE" /\ SameAddress(n) THEN rest
             ELSE [opt EXCEPT !.phase = "number", !.stack = <<>>]
  BY DEF load_effects, n, rest
<1> QED
  BY <1>0, <1>6, <1>7, <1>8, <1>9

(* The walk over the effects ends with its load numbered, or with every    *)
(* effect visited and the forwarding begun.                                *)
LEMMA EffectsEnd ==
  ASSUME NEW H, OptOK(func, H, opt), load_effects_end
  PROVE  OptOK(func', H, opt')
<1> DEFINE m == In(func, opt.node, Mem)
           item == Item(FALSE, m)
<1>0. /\ opt.phase = "effects" /\ opt.stack = <<>> /\ func' = func
      /\ opt' = [opt EXCEPT !.phase = "forward", !.map = <<>>, !.stack = <<item>>]
  BY DEF load_effects_end, In_phase
<1>1. /\ IsOpt(opt) /\ Sound(opt.worklist) /\ Held(func, H) /\ Kept(H, opt)
      /\ PhaseOK(func, H, opt) /\ OneEnd(func) /\ H \subseteq Ids(func)
  BY OptParts
<1>2. EffectsOK(func, H, opt) /\ NoEmptyPhi(func, H)
  BY <1>0, <1>1 DEF PhaseOK
<1>3. ToSet(opt.stack) = {}
  BY <1>0 DEF ToSet
<1>4. /\ LoadOK(func, H, opt)
      /\ Effects(func, H, opt.visited, {})
      /\ Ins(func, opt.node)[2] \in opt.visited
  BY <1>2, <1>3 DEF EffectsOK
<1>5. m = Ins(func, opt.node)[2]
  BY DEF In, Ins, Mem
<1>6. \A n \in opt.visited : Len(Ins(func, n)) # 0
  <2> TAKE n \in opt.visited
  <2>1. n \in H /\ Kind(func, n) \in {"PHI", "STORE"}
    BY <1>4 DEF Effects
  <2> QED
    BY <1>1, <1>2, <2>1, InputsFor DEF NoEmptyPhi
<1>7. item.processed = FALSE /\ item.node = m /\ item \in [processed : BOOLEAN, node : opt.visited]
  BY <1>4, <1>5 DEF Item
<1> HIDE DEF m, item
<1>8. /\ IsOpt(opt') /\ opt'.phase = "forward" /\ opt'.map = <<>> /\ opt'.stack = <<item>>
      /\ opt'.visited = opt.visited /\ opt'.worklist = opt.worklist /\ opt'.table = opt.table
      /\ opt'.node = opt.node
  BY <1>0, <1>1 DEF IsOpt
<1>9. /\ DOMAIN <<item>> = {1} /\ <<item>>[1] = item
      /\ <<item>> \in Seq([processed : BOOLEAN, node : opt.visited])
  BY <1>7
<1>10. \A i \in DOMAIN opt'.stack : ~opt'.stack[i].processed
  BY <1>7, <1>8, <1>9
<1>11. MapOK(func, H, opt')
  BY <1>8 DEF MapOK
<1>12. Items(opt') /\ Waiting(func, opt')
  <2>1. opt'.stack \in Seq([processed : BOOLEAN, node : opt'.visited])
    BY <1>8, <1>9
  <2> QED
    BY <1>10, <2>1 DEF Items, Waiting
<1>13. Unfilled(func, H, opt')
  BY <1>2 DEF Unfilled, NoEmptyPhi
<1>14. Todo(opt', 0, m)
  <2>1. 1 \in DOMAIN opt'.stack /\ 1 > 0 /\ ~opt'.stack[1].processed /\ opt'.stack[1].node = m
    BY <1>7, <1>8, <1>9
  <2> QED
    BY <2>1 DEF Todo
<1>15. LoadOK(func, H, opt')
  BY <1>4, <1>8 DEF LoadOK
<1>16. ForwardOK(func, H, opt')
  BY <1>4, <1>5, <1>6, <1>8, <1>11, <1>12, <1>13, <1>14, <1>15 DEF ForwardOK
<1>17. Kept(H, opt')
  BY <1>0, <1>1, <1>8 DEF Kept, Underway
<1>18. PhaseOK(func, H, opt')
  BY <1>8, <1>16 DEF PhaseOK, Sweeping
<1>19. OptOK(func, H, opt')
  BY <1>1, <1>8, <1>17, <1>18 DEF OptOK
<1> QED
  BY <1>0, <1>19

-----------------------------------------------------------------------------
\* Forwarding through a store.

(* What had to be done is done or left to do when the top item goes.       *)
LEMMA TodoStays ==
  ASSUME NEW o, NEW p, NEW L \in Nat, DOMAIN o.stack = 1..L, DOMAIN o.map \subseteq DOMAIN p.map,
         1..(L - 1) \subseteq DOMAIN p.stack, \A j \in 1..(L - 1) : p.stack[j] = o.stack[j],
         o.stack[L].processed \/ o.stack[L].node \in DOMAIN p.map,
         NEW i, NEW v, Todo(o, i, v)
  PROVE  Todo(p, i, v)
<1>1. CASE v \in DOMAIN o.map
  BY <1>1 DEF Todo
<1>2. CASE v \notin DOMAIN o.map
  <2>1. PICK j \in 1..L : j > i /\ ~o.stack[j].processed /\ o.stack[j].node = v
    BY <1>2 DEF Todo
  <2>2. CASE j = L
    BY <2>1, <2>2 DEF Todo
  <2>3. CASE j # L
    <3>1. j \in 1..(L - 1)
      BY <2>3
    <3> QED
      BY <2>1, <3>1 DEF Todo
  <2> QED
    BY <2>2, <2>3
<1> QED
  BY <1>1, <1>2

(* The parts of the invariant while stores are forwarded.                  *)
LEMMA ForwardParts ==
  ASSUME NEW H, OptOK(func, H, opt), opt.phase = "forward"
  PROVE  /\ LoadOK(func, H, opt)
         /\ Effects(func, H, opt.visited, {}) /\ Ins(func, opt.node)[2] \in opt.visited
         /\ \A n \in opt.visited : Len(Ins(func, n)) # 0
         /\ MapOK(func, H, opt) /\ Items(opt) /\ Waiting(func, opt) /\ Unfilled(func, H, opt)
         /\ Todo(opt, 0, Ins(func, opt.node)[2])
         /\ H \subseteq Listed(opt.worklist) \cup opt.table \cup {opt.node}
<1>1. PhaseOK(func, H, opt) /\ Kept(H, opt)
  BY OptParts
<1>2. ForwardOK(func, H, opt)
  BY <1>1 DEF PhaseOK
<1>3. H \subseteq Listed(opt.worklist) \cup opt.table \cup {opt.node}
  BY <1>1 DEF Kept, Underway
<1> QED
  BY <1>2, <1>3 DEF ForwardOK

(* The top of the stack of forwarding.                                     *)
LEMMA TopItem ==
  ASSUME Items(opt), opt.stack # <<>>
  PROVE  LET s == opt.stack
             L == Len(s)
             R == [processed : BOOLEAN, node : opt.visited] IN
         /\ L \in Nat \ {0} /\ DOMAIN s = 1..L /\ Last(s) = s[L] /\ L \in 1..L
         /\ s[L].node \in opt.visited
         /\ \A i \in 1..L : s[i].node \in opt.visited
         /\ Front(s) \in Seq(R) /\ Len(Front(s)) = L - 1 /\ DOMAIN Front(s) = 1..(L - 1)
         /\ \A i \in 1..(L - 1) : Front(s)[i] = s[i] /\ i \in 1..L /\ i # L
<1> DEFINE s == opt.stack
           L == Len(s)
           R == [processed : BOOLEAN, node : opt.visited]
<1>1. s \in Seq(R) /\ s # <<>>
  BY DEF Items
<1> HIDE DEF s, R
<1>2. /\ L \in Nat \ {0} /\ DOMAIN s = 1..L /\ Last(s) = s[L]
      /\ Front(s) \in Seq(R) /\ Len(Front(s)) = L - 1 /\ DOMAIN Front(s) = 1..(L - 1)
      /\ \A i \in 1..(L - 1) : Front(s)[i] = s[i]
  BY <1>1, FrontIs
<1>3. \A i \in 1..L : s[i] \in R
  BY <1>1, <1>2
<1>4. \A i \in 1..L : s[i].node \in opt.visited
  BY <1>3 DEF R
<1>5. L \in 1..L /\ \A i \in 1..(L - 1) : i \in 1..L /\ i # L
  <2>1. L \in Nat \ {0}
    BY <1>2
  <2> HIDE DEF L
  <2> QED
    BY <2>1
<1> QED
  BY <1>2, <1>4, <1>5 DEF s, R

(* What is left to show when a step of the forwarding leaves the graph.    *)
LEMMA ForwardStep ==
  ASSUME NEW H, OptOK(func, H, opt), opt.phase = "forward", NEW o, IsOpt(o), o.phase = "forward",
         o.worklist = opt.worklist, o.table = opt.table, o.node = opt.node,
         o.visited = opt.visited,
         MapOK(func, H, o), Items(o), Waiting(func, o), Unfilled(func, H, o),
         Todo(o, 0, Ins(func, opt.node)[2])
  PROVE  OptOK(func, H, o)
<1>0. /\ Held(func, H) /\ Kept(H, opt) /\ Sound(opt.worklist)
  BY OptParts
<1>1. /\ LoadOK(func, H, opt)
      /\ Effects(func, H, opt.visited, {}) /\ Ins(func, opt.node)[2] \in opt.visited
      /\ \A n \in opt.visited : Len(Ins(func, n)) # 0
  BY ForwardParts
<1>2. LoadOK(func, H, o)
  BY <1>1 DEF LoadOK
<1>3. ForwardOK(func, H, o)
  BY <1>1, <1>2 DEF ForwardOK
<1>4. Kept(H, o)
  BY <1>0 DEF Kept, Underway
<1>5. PhaseOK(func, H, o)
  BY <1>3 DEF PhaseOK, Sweeping
<1> QED
  BY <1>0, <1>4, <1>5 DEF OptOK

(* A store that is met is mapped to the value it stores (opt.c:244).       *)
LEMMA StoreForwarded ==
  ASSUME NEW H, OptOK(func, H, opt), forward_store
  PROVE  OptOK(func', H, opt')
<1> DEFINE s == opt.stack
           L == Len(s)
           n == s[L].node
           front == Front(s)
           x == In(func, n, Value)
           map == With(opt.map, n, x)
<1>0. opt.phase = "forward" /\ opt.stack # <<>> /\ func' = func
  BY DEF forward_store, In_phase
<1>1. /\ IsOpt(opt) /\ Held(func, H)
      /\ Effects(func, H, opt.visited, {}) /\ MapOK(func, H, opt) /\ Items(opt)
      /\ Waiting(func, opt) /\ Unfilled(func, H, opt) /\ Todo(opt, 0, Ins(func, opt.node)[2])
  BY <1>0, OptParts, ForwardParts
<1>2. /\ L \in Nat \ {0} /\ DOMAIN s = 1..L /\ Last(s) = s[L] /\ L \in 1..L /\ n \in opt.visited
      /\ front \in Seq([processed : BOOLEAN, node : opt.visited])
      /\ DOMAIN front = 1..(L - 1)
      /\ \A i \in 1..(L - 1) : front[i] = s[i] /\ i \in 1..L /\ i # L
  BY <1>0, <1>1, TopItem
<1>3. Kind(func, n) = "STORE" /\ opt' = [opt EXCEPT !.stack = Front(@), !.map = With(@, n, x)]
  BY <1>2 DEF forward_store
<1>4. n \in H /\ x \in H /\ x # func.end
  <2>1. n \in H
    BY <1>1, <1>2 DEF Effects
  <2> QED
    BY <1>1, <1>3, <2>1, InputsFor DEF In, Ins, Value
<1> HIDE DEF x
<1>5. /\ IsOpt(opt') /\ opt'.phase = "forward" /\ opt'.stack = front /\ opt'.map = map
      /\ opt'.worklist = opt.worklist /\ opt'.table = opt.table /\ opt'.node = opt.node
      /\ opt'.visited = opt.visited
  BY <1>0, <1>1, <1>3 DEF IsOpt
<1> HIDE DEF n, front, s, L
<1>6. /\ DOMAIN map = DOMAIN opt.map \cup {n} /\ map[n] = x
      /\ \A y \in DOMAIN opt.map : y # n => map[y] = opt.map[y]
  BY DEF With
<1> HIDE DEF map
<1>7. MapOK(func, H, opt')
  BY <1>1, <1>2, <1>3, <1>4, <1>5, <1>6 DEF MapOK
<1>8. ASSUME NEW i \in 1..L, s[i].processed
      PROVE  /\ i \in 1..(L - 1) /\ s[i].node # n /\ map[s[i].node] = opt.map[s[i].node]
             /\ s[i].node \in DOMAIN opt.map
  <2>1. s[i].node \in DOMAIN opt.map /\ Kind(func, s[i].node) = "PHI"
    BY <1>1, <1>2, <1>8 DEF Waiting, s
  <2>2. s[i].node # n
    BY <1>3, <2>1
  <2>3. i # L
    BY <2>2 DEF n
  <2> QED
    BY <1>2, <1>6, <2>1, <2>2, <2>3
<1>9. ASSUME NEW i, NEW v, Todo(opt, i, v) PROVE Todo(opt', i, v)
  <2>1. /\ DOMAIN opt.stack = 1..L /\ DOMAIN opt.map \subseteq DOMAIN opt'.map
        /\ 1..(L - 1) \subseteq DOMAIN opt'.stack
        /\ \A j \in 1..(L - 1) : opt'.stack[j] = opt.stack[j]
        /\ opt.stack[L].node \in DOMAIN opt'.map
    BY <1>2, <1>5, <1>6 DEF s, n
  <2> QED
    BY <1>2, <1>9, <2>1, TodoStays
<1>10. Items(opt')
  BY <1>1, <1>2, <1>5 DEF Items, s
<1>11. Waiting(func, opt')
  <2> SUFFICES ASSUME NEW i \in 1..(L - 1), s[i].processed
               PROVE  LET m == s[i].node IN
                      /\ m \in DOMAIN map /\ Kind(func, m) = "PHI" /\ Len(Ins(func, map[m])) = 0
                      /\ \A k \in 2..Len(Ins(func, m)) : Todo(opt', i, Ins(func, m)[k])
    BY <1>2, <1>5 DEF Waiting
  <2>1. i \in 1..L
    BY <1>2
  <2> DEFINE m == s[i].node
  <2>2. /\ m \in DOMAIN opt.map /\ Kind(func, m) = "PHI" /\ Len(Ins(func, opt.map[m])) = 0
        /\ \A k \in 2..Len(Ins(func, m)) : Todo(opt, i, Ins(func, m)[k])
    BY <1>1, <1>2, <2>1 DEF Waiting, s
  <2>3. m \in DOMAIN map /\ map[m] = opt.map[m]
    BY <1>6, <1>8, <2>1
  <2>4. \A k \in 2..Len(Ins(func, m)) : Todo(opt', i, Ins(func, m)[k])
    BY <1>9, <2>2
  <2> QED
    BY <2>2, <2>3, <2>4
<1>12. Unfilled(func, H, opt')
  <2> SUFFICES ASSUME NEW p \in H, Kind(func, p) = "PHI" /\ Len(Ins(func, p)) = 0
               PROVE  \E i \in 1..(L - 1) : s[i].processed /\ map[s[i].node] = p
    BY <1>2, <1>5 DEF Unfilled
  <2>1. PICK i \in 1..L : s[i].processed /\ opt.map[s[i].node] = p
    BY <1>1, <1>2 DEF Unfilled, s
  <2> QED
    BY <1>8, <2>1
<1>13. Todo(opt', 0, Ins(func, opt.node)[2])
  BY <1>1, <1>9
<1>14. OptOK(func, H, opt')
  BY <1>0, <1>5, <1>7, <1>10, <1>11, <1>12, <1>13, ForwardStep
<1> QED
  BY <1>0, <1>14

-----------------------------------------------------------------------------
\* What forwarding puts on its stack for a phi.

(* A phi mapped before is passed over.                                     *)
LEMMA PhiPassed ==
  ASSUME NEW H, OptOK(func, H, opt), forward_phi, Mapped(Last(opt.stack).node)
  PROVE  OptOK(func', H, opt')
<1> DEFINE s == opt.stack
           L == Len(s)
           n == s[L].node
           front == Front(s)
<1>0. opt.phase = "forward" /\ opt.stack # <<>>
  BY DEF forward_phi, In_phase
<1>1. /\ IsOpt(opt) /\ Held(func, H)
      /\ Effects(func, H, opt.visited, {}) /\ MapOK(func, H, opt) /\ Items(opt)
      /\ Waiting(func, opt) /\ Unfilled(func, H, opt) /\ Todo(opt, 0, Ins(func, opt.node)[2])
  BY <1>0, OptParts, ForwardParts
<1>2. /\ L \in Nat \ {0} /\ DOMAIN s = 1..L /\ Last(s) = s[L] /\ L \in 1..L /\ n \in opt.visited
      /\ front \in Seq([processed : BOOLEAN, node : opt.visited])
      /\ DOMAIN front = 1..(L - 1)
      /\ \A i \in 1..(L - 1) : front[i] = s[i] /\ i \in 1..L /\ i # L
  BY <1>0, <1>1, TopItem
<1>3. /\ Kind(func, n) = "PHI" /\ ~s[L].processed /\ n \in DOMAIN opt.map
      /\ opt' = [opt EXCEPT !.stack = Front(@)] /\ func' = func
  BY <1>2 DEF forward_phi, Mapped
<1>5. /\ IsOpt(opt') /\ opt'.phase = "forward" /\ opt'.stack = front /\ opt'.map = opt.map
      /\ opt'.worklist = opt.worklist /\ opt'.table = opt.table /\ opt'.node = opt.node
      /\ opt'.visited = opt.visited
  BY <1>0, <1>1, <1>3 DEF IsOpt
<1> HIDE DEF n, front, s, L
<1>7. MapOK(func, H, opt')
  BY <1>1, <1>5 DEF MapOK
<1>9. ASSUME NEW i, NEW v, Todo(opt, i, v) PROVE Todo(opt', i, v)
  <2>1. /\ DOMAIN opt.stack = 1..L /\ DOMAIN opt.map \subseteq DOMAIN opt'.map
        /\ 1..(L - 1) \subseteq DOMAIN opt'.stack
        /\ \A j \in 1..(L - 1) : opt'.stack[j] = opt.stack[j]
        /\ opt.stack[L].node \in DOMAIN opt'.map
    BY <1>2, <1>3, <1>5 DEF s, n
  <2> QED
    BY <1>2, <1>9, <2>1, TodoStays
<1>10. Items(opt')
  BY <1>1, <1>2, <1>5 DEF Items, s
<1>11. Waiting(func, opt')
  <2> SUFFICES ASSUME NEW i \in 1..(L - 1), s[i].processed
               PROVE  LET m == s[i].node IN
                      /\ m \in DOMAIN opt.map /\ Kind(func, m) = "PHI" /\ Len(Ins(func, opt.map[m])) = 0
                      /\ \A k \in 2..Len(Ins(func, m)) : Todo(opt', i, Ins(func, m)[k])
    BY <1>2, <1>5 DEF Waiting
  <2>1. i \in 1..L
    BY <1>2
  <2> DEFINE m == s[i].node
  <2>2. /\ m \in DOMAIN opt.map /\ Kind(func, m) = "PHI" /\ Len(Ins(func, opt.map[m])) = 0
        /\ \A k \in 2..Len(Ins(func, m)) : Todo(opt, i, Ins(func, m)[k])
    BY <1>1, <1>2, <2>1 DEF Waiting, s
  <2>4. \A k \in 2..Len(Ins(func, m)) : Todo(opt', i, Ins(func, m)[k])
    BY <1>9, <2>2
  <2> QED
    BY <2>2, <2>4
<1>12. Unfilled(func, H, opt')
  <2> SUFFICES ASSUME NEW p \in H, Kind(func, p) = "PHI" /\ Len(Ins(func, p)) = 0
               PROVE  \E i \in 1..(L - 1) : s[i].processed /\ opt.map[s[i].node] = p
    BY <1>2, <1>5 DEF Unfilled
  <2>1. PICK i \in 1..L : s[i].processed /\ opt.map[s[i].node] = p
    BY <1>1, <1>2 DEF Unfilled, s
  <2>2. i # L
    BY <1>3, <2>1
  <2>3. i \in 1..(L - 1)
    BY <1>2, <2>2
  <2> QED
    BY <2>1, <2>3
<1>13. Todo(opt', 0, Ins(func, opt.node)[2])
  BY <1>1, <1>9
<1>14. OptOK(func, H, opt')
  BY <1>0, <1>5, <1>7, <1>10, <1>11, <1>12, <1>13, ForwardStep
<1> QED
  BY <1>3, <1>14

(* The items of a phi: its own, and those of the memory it takes.          *)
LEMMA PhiItemsAre ==
  ASSUME NEW H, Held(func, H), NEW visited, Effects(func, H, visited, {}),
         NEW n \in visited, Kind(func, n) = "PHI", Len(Ins(func, n)) # 0
  PROVE  LET t == PhiItems(n)
             k == Len(Ins(func, n)) IN
         /\ t \in Seq([processed : BOOLEAN, node : visited]) /\ Len(t) = k
         /\ k \in Nat \ {0} /\ DOMAIN t = 1..k
         /\ t[1].processed /\ t[1].node = n
         /\ \A i \in 2..k : ~t[i].processed /\ t[i].node = Ins(func, n)[i]
<1> DEFINE R == [processed : BOOLEAN, node : visited]
           ins == Ins(func, n)
           k == Len(ins)
           v == Values(n)
           rest == [i \in DOMAIN v |-> Item(FALSE, v[i])]
           t == <<Item(TRUE, n)>> \o rest
<1>0. n \in H /\ k \in Nat /\ \A i \in 2..k : ins[i] \in visited
  <2>1. n \in H /\ \A i \in 2..k : ins[i] \in visited
    BY DEF Effects
  <2> QED
    BY <2>1, InputsAre
<1>1. /\ v \in Seq(H \ {func.end}) /\ Len(v) = k - 1
      /\ \A i \in 1..Len(v) : i + 1 \in 2..k /\ v[i] = ins[i + 1]
      /\ \A i \in 2..k : i - 1 \in 1..Len(v) /\ v[i - 1] = ins[i]
  BY <1>0, ValuesAre
<1>2. DOMAIN v = 1..(k - 1) /\ k \in Nat \ {0}
  BY <1>0, <1>1
<1> HIDE DEF v, k
<1>3. \A i \in 1..(k - 1) : v[i] \in visited
  BY <1>0, <1>1
<1>4. /\ \A x : Item(FALSE, x).processed = FALSE /\ Item(FALSE, x).node = x
      /\ Item(TRUE, n).processed = TRUE /\ Item(TRUE, n).node = n
      /\ \A x \in visited : Item(FALSE, x) \in R
      /\ Item(TRUE, n) \in R
  BY DEF Item
<1>5. /\ rest \in Seq(R) /\ Len(rest) = k - 1 /\ DOMAIN rest = 1..(k - 1)
      /\ \A i \in 1..(k - 1) : ~rest[i].processed /\ rest[i].node = v[i]
  <2>1. /\ \A i \in 1..(k - 1) : rest[i] = Item(FALSE, v[i]) /\ rest[i] \in R
        /\ rest = [i \in 1..(k - 1) |-> rest[i]]
    BY <1>2, <1>3, <1>4
  <2> HIDE DEF R, rest
  <2>2. rest \in Seq(R) /\ Len(rest) = k - 1 /\ DOMAIN rest = 1..(k - 1)
    <3> DEFINE m == k - 1
               z == [i \in 1..m |-> rest[i]]
    <3>0. m \in Nat
      BY <1>2
    <3>1. \A i \in 1..m : rest[i] \in R
      BY <2>1
    <3>2. rest = z
      BY <2>1
    <3> HIDE DEF m
    <3>3. z \in Seq(R) /\ Len(z) = m /\ DOMAIN z = 1..m
      BY <3>0, <3>1
    <3> QED
      BY <3>2, <3>3 DEF m
  <2> QED
    BY <1>4, <2>1, <2>2
<1> DEFINE top == Item(TRUE, n)
<1>6. top \in R /\ top.processed /\ top.node = n
  BY <1>4
<1> HIDE DEF R, rest, top
<1>7. /\ <<top>> \o rest \in Seq(R) /\ Len(<<top>> \o rest) = Len(rest) + 1
      /\ \A i \in 1..(Len(rest) + 1) : (<<top>> \o rest)[i] = IF i = 1 THEN top ELSE rest[i - 1]
  BY <1>5, <1>6, FirstOf
<1>8. t = <<top>> \o rest
  BY DEF top
<1> HIDE DEF t
<1>9. /\ t \in Seq(R) /\ Len(t) = k /\ DOMAIN t = 1..k
      /\ \A i \in 1..k : t[i] = IF i = 1 THEN top ELSE rest[i - 1]
  <2>1. Len(rest) + 1 = k
    BY <1>2, <1>5
  <2>2. t \in Seq(R) /\ Len(t) = k /\ \A i \in 1..k : t[i] = IF i = 1 THEN top ELSE rest[i - 1]
    BY <1>7, <1>8, <2>1
  <2> QED
    BY <2>2
<1>10. t[1] = top
  <2>1. 1 \in 1..k
    BY <1>2
  <2> QED
    BY <1>9, <2>1
<1>11. \A i \in 2..k : ~t[i].processed /\ t[i].node = ins[i]
  <2> TAKE i \in 2..k
  <2>1. i \in 1..k /\ i # 1 /\ i - 1 \in 1..(k - 1)
    BY <1>2
  <2>2. t[i] = rest[i - 1] /\ v[i - 1] = ins[i]
    BY <1>1, <1>9, <2>1
  <2> QED
    BY <1>5, <2>1, <2>2
<1>12. PhiItems(n) = t
  BY DEF PhiItems, t, rest, v
<1> QED
  BY <1>2, <1>6, <1>9, <1>10, <1>11, <1>12 DEF R, k

-----------------------------------------------------------------------------
\* A phi gets a phi of its own.

\* q is s and then t.
Joined(q, s, t, S) ==
  /\ q \in Seq(S) /\ DOMAIN q = 1..(Len(s) + Len(t))
  /\ \A i \in 1..Len(s) : q[i] = s[i]
  /\ \A i \in 1..Len(t) : q[Len(s) + i] = t[i]

(* The entries of two sequences joined.                                    *)
LEMMA JoinIs ==
  ASSUME NEW S, NEW s \in Seq(S), NEW t \in Seq(S)
  PROVE  Joined(s \o t, s, t, S)
<1>1. Len(s) \in Nat /\ Len(t) \in Nat
  OBVIOUS
<1>2. /\ s \o t \in Seq(S) /\ Len(s \o t) = Len(s) + Len(t)
      /\ \A i \in 1..(Len(s) + Len(t)) : (s \o t)[i] = IF i <= Len(s) THEN s[i] ELSE t[i - Len(s)]
  BY ConcatProperties
<1>3. \A i \in 1..Len(s) : i \in 1..(Len(s) + Len(t)) /\ i <= Len(s)
  BY <1>1
<1>4. \A i \in 1..Len(t) : /\ Len(s) + i \in 1..(Len(s) + Len(t)) /\ ~(Len(s) + i <= Len(s))
                           /\ (Len(s) + i) - Len(s) = i
  BY <1>1
<1>5. DOMAIN (s \o t) = 1..(Len(s) + Len(t))
  BY <1>1, <1>2
<1>6. \A i \in 1..Len(s) : (s \o t)[i] = s[i]
  BY <1>2, <1>3
<1>7. \A i \in 1..Len(t) : (s \o t)[Len(s) + i] = t[i]
  BY <1>2, <1>4
<1> QED
  BY <1>2, <1>5, <1>6, <1>7 DEF Joined

\* Below L the items of q are those of s, and above it those of ins.
PhiStacked(q, s, R, L, k, n, ins) ==
  /\ q \in Seq(R) /\ DOMAIN q = 1..(L - 1 + k)
  /\ 1..(L - 1) \subseteq DOMAIN q /\ L \in DOMAIN q
  /\ \A i \in 1..(L - 1) : q[i] = s[i]
  /\ q[L].processed /\ q[L].node = n
  /\ \A i \in 2..k : LET j == L - 1 + i IN
       j \in DOMAIN q /\ j > L /\ ~q[j].processed /\ q[j].node = ins[i]
  /\ \A j \in DOMAIN q : j > L => ~q[j].processed
  /\ \A j \in DOMAIN q : q[j].processed => j \in 1..L

(* A stack whose top item, a phi, gives way to the items of that phi.      *)
LEMMA PhiStack ==
  ASSUME NEW R, NEW s, NEW front \in Seq(R), NEW L \in Nat \ {0}, Len(front) = L - 1,
         \A i \in 1..(L - 1) : front[i] = s[i],
         NEW t \in Seq(R), NEW k \in Nat \ {0}, Len(t) = k,
         NEW n, NEW ins, t[1].processed, t[1].node = n,
         \A i \in 2..k : ~t[i].processed /\ t[i].node = ins[i]
  PROVE  PhiStacked(front \o t, s, R, L, k, n, ins)
<1> DEFINE q == front \o t
           M == Len(front)
<1>0. front \in Seq(R) /\ t \in Seq(R)
  OBVIOUS
<1>1. /\ q \in Seq(R) /\ DOMAIN q = 1..(M + Len(t))
      /\ \A i \in 1..M : q[i] = front[i]
      /\ \A i \in 1..Len(t) : q[M + i] = t[i]
  <2>1. Joined(front \o t, front, t, R)
    BY <1>0, JoinIs
  <2>2. Joined(q, front, t, R)
    BY <2>1
  <2> HIDE DEF q
  <2> QED
    BY <2>2 DEF Joined
<1>2. M = L - 1
  OBVIOUS
<1> HIDE DEF q, M
<1>3. /\ DOMAIN q = 1..(L - 1 + k)
      /\ \A i \in 1..(L - 1) : q[i] = s[i]
      /\ \A i \in 1..k : q[L - 1 + i] = t[i]
  BY <1>1, <1>2
<1>4. q[L] = t[1]
  <2>1. 1 \in 1..k /\ L - 1 + 1 = L
    OBVIOUS
  <2> QED
    BY <1>3, <2>1
<1>5. \A i \in 2..k : LET j == L - 1 + i IN
        j \in DOMAIN q /\ j > L /\ ~q[j].processed /\ q[j].node = ins[i]
  <2> TAKE i \in 2..k
  <2>1. i \in 1..k /\ L - 1 + i \in 1..(L - 1 + k) /\ L - 1 + i > L
    OBVIOUS
  <2> QED
    BY <1>3, <2>1
<1>6. \A j \in DOMAIN q : j > L => ~q[j].processed
  <2> SUFFICES ASSUME NEW j \in 1..(L - 1 + k), j > L PROVE ~q[j].processed
    BY <1>3
  <2> DEFINE i == j - (L - 1)
  <2>1. i \in 2..k /\ L - 1 + i = j
    OBVIOUS
  <2> HIDE DEF i
  <2> QED
    BY <1>5, <2>1
<1>7. 1..(L - 1) \subseteq 1..(L - 1 + k) /\ L \in 1..(L - 1 + k)
  OBVIOUS
<1>8. \A j \in DOMAIN q : q[j].processed => j \in 1..L
  <2>1. \A j \in 1..(L - 1 + k) : ~(j > L) => j \in 1..L
    OBVIOUS
  <2> QED
    BY <1>3, <1>6, <2>1
<1> QED
  <2>1. PhiStacked(q, s, R, L, k, n, ins)
    BY <1>1, <1>3, <1>4, <1>5, <1>6, <1>7, <1>8 DEF PhiStacked
  <2> QED
    BY <2>1 DEF q

(* A phi that is met first is mapped to a new phi, and is to get its       *)
(* inputs when its own were met (opt.c:216).                               *)
LEMMA PhiForwarded ==
  ASSUME NEW H, OptOK(func, H, opt), forward_phi, ~Mapped(Last(opt.stack).node)
  PROVE  /\ OptOK(func', H \cup {func.next_id}, opt')
         /\ \A m \in Ids(func) : func'.node[m] = func.node[m]
         /\ Ids(func) \subseteq Ids(func')
<1> DEFINE s == opt.stack
           L == Len(s)
           n == s[L].node
           p == func.next_id
           g == func'
           G == H \cup {p}
           front == Front(s)
           R == [processed : BOOLEAN, node : opt.visited]
           t == PhiItems(n)
           q == front \o t
           k == Len(Ins(func, n))
           map == With(opt.map, n, p)
           l == Add(opt.worklist, p)
<1>0. opt.phase = "forward" /\ opt.stack # <<>>
  BY DEF forward_phi, In_phase
<1>1. /\ IsOpt(opt) /\ Held(func, H) /\ Sound(opt.worklist) /\ H \subseteq Ids(func)
      /\ Listed(opt.worklist) \subseteq H /\ opt.table \subseteq H
      /\ LoadOK(func, H, opt) /\ Ins(func, opt.node)[2] \in opt.visited
      /\ Effects(func, H, opt.visited, {}) /\ MapOK(func, H, opt) /\ Items(opt)
      /\ Waiting(func, opt) /\ Unfilled(func, H, opt) /\ Todo(opt, 0, Ins(func, opt.node)[2])
      /\ \A m \in opt.visited : Len(Ins(func, m)) # 0
      /\ H \subseteq Listed(opt.worklist) \cup opt.table \cup {opt.node}
  BY <1>0, OptParts, ForwardParts
<1>2. /\ L \in Nat \ {0} /\ DOMAIN s = 1..L /\ Last(s) = s[L] /\ L \in 1..L /\ n \in opt.visited
      /\ front \in Seq(R) /\ Len(front) = L - 1
      /\ DOMAIN front = 1..(L - 1)
      /\ \A i \in 1..(L - 1) : front[i] = s[i] /\ i \in 1..L /\ i # L
      /\ \A i \in 1..L : s[i].node \in opt.visited
  BY <1>0, <1>1, TopItem
<1>3. /\ Kind(func, n) = "PHI" /\ ~s[L].processed /\ n \notin DOMAIN opt.map
      /\ opt' = [opt EXCEPT !.map = With(@, n, p), !.worklist = Add(@, p),
                            !.stack = Front(@) \o PhiItems(n)]
      /\ g = cb_node_phi(func)
  BY <1>2 DEF forward_phi, Mapped
<1>4. HasPhi(func, g, H, p)
  BY <1>1, <1>3, PhiAdded
<1>5. /\ IsOpt(opt') /\ opt'.phase = "forward" /\ opt'.stack = q /\ opt'.map = map
      /\ opt'.worklist = l /\ opt'.table = opt.table /\ opt'.node = opt.node
      /\ opt'.visited = opt.visited
  BY <1>0, <1>1, <1>3 DEF IsOpt
<1>6. /\ t \in Seq(R) /\ Len(t) = k /\ k \in Nat \ {0}
      /\ t[1].processed /\ t[1].node = n
      /\ \A i \in 2..k : ~t[i].processed /\ t[i].node = Ins(func, n)[i]
  BY <1>1, <1>2, <1>3, PhiItemsAre
<1> HIDE DEF p, g, t, s, L, n, front, k, R
<1>7. /\ DOMAIN map = DOMAIN opt.map \cup {n} /\ map[n] = p
      /\ \A y \in DOMAIN opt.map : map[y] = opt.map[y]
  BY <1>3 DEF With
<1>8. /\ q \in Seq(R)
      /\ 1..(L - 1) \subseteq DOMAIN q /\ L \in DOMAIN q
      /\ \A i \in 1..(L - 1) : q[i] = s[i]
      /\ q[L].processed /\ q[L].node = n
      /\ \A i \in 2..k : LET j == L - 1 + i IN
              j \in DOMAIN q /\ j > L /\ ~q[j].processed /\ q[j].node = Ins(func, n)[i]
      /\ \A j \in DOMAIN q : q[j].processed => j \in 1..L
  <2> DEFINE ins == Ins(func, n)
  <2>0. k = k /\ \A i \in 2..k : ins[i] = Ins(func, n)[i]
    OBVIOUS
  <2>1. /\ t \in Seq(R) /\ Len(t) = k /\ k \in Nat \ {0} /\ t[1].processed /\ t[1].node = n
        /\ \A i \in 2..k : ~t[i].processed /\ t[i].node = ins[i]
    BY <1>6
  <2> HIDE DEF ins
  <2>2. PhiStacked(front \o t, s, R, L, k, n, ins)
    BY <1>2, <2>1, PhiStack
  <2>3. PhiStacked(q, s, R, L, k, n, ins)
    BY <2>2
  <2> HIDE DEF q
  <2> QED
    BY <2>0, <2>3 DEF PhiStacked
<1>9. /\ Held(g, G) /\ Ids(g) = Ids(func) \cup {p} /\ p \notin Ids(func) /\ p \in Nat /\ p \notin H
      /\ g.end = func.end
      /\ \A m \in Ids(func) : /\ g.node[m] = func.node[m] /\ Kind(g, m) = Kind(func, m)
                              /\ Ins(g, m) = Ins(func, m) /\ Uses(g, m) = Uses(func, m)
      /\ Kind(g, p) = "PHI" /\ Len(Ins(g, p)) = 0
  BY <1>4 DEF HasPhi
<1> HIDE DEF map, q
<1>10. Lists(l, Listed(opt.worklist) \cup {p})
  BY <1>1, <1>9, AddLists
<1>11. Sound(l) /\ Listed(l) = Listed(opt.worklist) \cup {p}
  BY <1>10 DEF Lists
<1> HIDE DEF l
<1>12. opt.visited \subseteq H /\ opt.visited \subseteq Ids(func) /\ opt.node \in H /\ opt.node \in Ids(func)
  BY <1>1 DEF Effects, LoadOK
<1>13. Effects(g, G, opt.visited, {})
  BY <1>1, <1>9, <1>12 DEF Effects
<1>14. LoadOK(g, G, opt') /\ Ins(g, opt.node) = Ins(func, opt.node)
  BY <1>1, <1>5, <1>9, <1>12 DEF LoadOK
<1>15. \A m \in opt.visited : Len(Ins(g, m)) # 0
  BY <1>1, <1>9, <1>12
<1>16. MapOK(g, G, opt')
  <2>0. /\ DOMAIN opt.map \subseteq opt.visited
        /\ \A m \in DOMAIN opt.map : opt.map[m] \in H /\ opt.map[m] # func.end
        /\ \A m \in DOMAIN opt.map : Kind(func, m) = "PHI" =>
             opt.map[m] \notin opt.visited /\ Kind(func, opt.map[m]) = "PHI" /\ opt.map[m] \notin opt.table
        /\ \A m, o \in DOMAIN opt.map :
             Kind(func, m) = "PHI" /\ Kind(func, o) = "PHI" /\ opt.map[m] = opt.map[o] => m = o
    BY <1>1 DEF MapOK
  <2>1. \A m \in DOMAIN opt.map : m \in Ids(func) /\ opt.map[m] \in Ids(func)
    BY <1>1, <1>12, <2>0
  <2>2. DOMAIN map \subseteq opt.visited
    BY <1>2, <1>7, <2>0
  <2>3. \A m \in DOMAIN map : map[m] \in G /\ map[m] # g.end
    <3>1. g.end \in H
      BY <1>1, <1>9, OptParts
    <3> QED
      BY <1>7, <1>9, <2>0, <3>1
  <2>4. ASSUME NEW m \in DOMAIN map, Kind(g, m) = "PHI"
        PROVE  map[m] \notin opt.visited /\ Kind(g, map[m]) = "PHI" /\ map[m] \notin opt.table
    <3>1. CASE m = n
      BY <1>1, <1>7, <1>9, <1>12, <3>1
    <3>2. CASE m # n
      <4>1. m \in DOMAIN opt.map /\ map[m] = opt.map[m] /\ Kind(func, m) = "PHI"
        BY <1>7, <1>9, <2>1, <2>4, <3>2
      <4> QED
        BY <1>9, <2>0, <2>1, <4>1
    <3> QED
      BY <3>1, <3>2
  <2>5. ASSUME NEW m \in DOMAIN map, NEW o \in DOMAIN map,
               Kind(g, m) = "PHI" /\ Kind(g, o) = "PHI" /\ map[m] = map[o]
        PROVE  m = o
    <3>1. \A y \in DOMAIN opt.map : map[y] = opt.map[y] /\ map[y] # p /\ Kind(func, y) = Kind(g, y)
      BY <1>7, <1>9, <2>0, <2>1
    <3> QED
      BY <1>7, <2>0, <2>5, <3>1
  <2> QED
    BY <1>5, <2>2, <2>3, <2>4, <2>5 DEF MapOK
<1>17. ASSUME NEW i, NEW v, Todo(opt, i, v) PROVE Todo(opt', i, v)
  <2>1. /\ DOMAIN opt.stack = 1..L /\ DOMAIN opt.map \subseteq DOMAIN opt'.map
        /\ 1..(L - 1) \subseteq DOMAIN opt'.stack
        /\ \A j \in 1..(L - 1) : opt'.stack[j] = opt.stack[j]
        /\ opt.stack[L].node \in DOMAIN opt'.map
    BY <1>2, <1>5, <1>7, <1>8 DEF s, n
  <2> QED
    BY <1>2, <1>17, <2>1, TodoStays
<1>18. ASSUME NEW i \in 1..L, s[i].processed
       PROVE  /\ i \in 1..(L - 1) /\ i \in DOMAIN opt.stack /\ s[i].node \in DOMAIN opt.map
              /\ s[i].node # n /\ q[i] = s[i]
  <2>1. i # L
    BY <1>3, <1>18
  <2>2. i \in 1..(L - 1)
    BY <1>2, <2>1
  <2>3. s[i].node \in DOMAIN opt.map
    BY <1>1, <1>2, <1>18 DEF Waiting, s
  <2> QED
    BY <1>2, <1>3, <1>8, <2>2, <2>3 DEF s
<1>19. ASSUME NEW i \in DOMAIN q, q[i].processed
       PROVE  \/ i = L
              \/ i \in 1..(L - 1) /\ i \in 1..L /\ s[i].processed /\ q[i] = s[i]
  <2>1. i \in 1..L
    BY <1>8, <1>19
  <2>2. i # L => i \in 1..(L - 1)
    BY <1>2, <2>1
  <2> QED
    BY <1>8, <1>19, <2>1, <2>2
<1>20. Items(opt')
  <2>1. \A i, j \in DOMAIN opt.stack :
          s[i].processed /\ s[j].processed /\ s[i].node = s[j].node => i = j
    BY <1>1 DEF Items, s
  <2>2. \A i, j \in DOMAIN q :
          q[i].processed /\ q[j].processed /\ q[i].node = q[j].node => i = j
    BY <1>2, <1>8, <1>18, <1>19, <2>1
  <2>3. opt'.stack \in Seq([processed : BOOLEAN, node : opt'.visited])
    BY <1>5, <1>8 DEF R
  <2> QED
    BY <1>5, <2>2, <2>3 DEF Items
<1>21. Waiting(g, opt')
  <2> SUFFICES ASSUME NEW i \in DOMAIN q, q[i].processed
               PROVE  LET m == q[i].node IN
                      /\ m \in DOMAIN map /\ Kind(g, m) = "PHI" /\ Len(Ins(g, map[m])) = 0
                      /\ \A j \in 2..Len(Ins(g, m)) : Todo(opt', i, Ins(g, m)[j])
    BY <1>5 DEF Waiting
  <2> DEFINE m == q[i].node
  <2>1. CASE i = L
    <3>1. m = n /\ map[m] = p /\ m \in DOMAIN map /\ Ins(g, m) = Ins(func, n) /\ Kind(g, m) = "PHI"
      BY <1>2, <1>3, <1>7, <1>8, <1>9, <1>12, <2>1
    <3>2. \A j \in 2..k : Todo(opt', L, Ins(func, n)[j])
      <4> TAKE j \in 2..k
      <4> DEFINE x == L - 1 + j
      <4>1. x \in DOMAIN q /\ x > L /\ ~q[x].processed /\ q[x].node = Ins(func, n)[j]
        BY <1>8
      <4> HIDE DEF x
      <4> QED
        BY <1>5, <4>1 DEF Todo
    <3> QED
      BY <1>9, <2>1, <3>1, <3>2 DEF k
  <2>2. CASE i # L
    <3>1. i \in 1..L /\ s[i].processed /\ m = s[i].node
      BY <1>19, <2>2
    <3>2. m \in DOMAIN opt.map /\ m \in opt.visited /\ m \in DOMAIN map /\ map[m] = opt.map[m]
      BY <1>2, <1>7, <1>18, <3>1
    <3>3. /\ Kind(func, m) = "PHI" /\ Len(Ins(func, opt.map[m])) = 0
          /\ \A j \in 2..Len(Ins(func, m)) : Todo(opt, i, Ins(func, m)[j])
      BY <1>1, <1>2, <3>1 DEF Waiting, s
    <3>4. opt.map[m] \in Ids(func) /\ m \in Ids(func)
      BY <1>1, <1>12, <3>2 DEF MapOK
    <3>5. \A j \in 2..Len(Ins(func, m)) : Todo(opt', i, Ins(func, m)[j])
      BY <1>17, <3>3
    <3> QED
      BY <1>9, <3>2, <3>3, <3>4, <3>5
  <2> QED
    BY <2>1, <2>2
<1>22. Unfilled(g, G, opt')
  <2> SUFFICES ASSUME NEW x \in G, Kind(g, x) = "PHI" /\ Len(Ins(g, x)) = 0
               PROVE  \E i \in DOMAIN q : q[i].processed /\ map[q[i].node] = x
    BY <1>5 DEF Unfilled
  <2>1. CASE x = p
    BY <1>7, <1>8, <2>1
  <2>2. CASE x # p
    <3>1. x \in H /\ Kind(func, x) = "PHI" /\ Len(Ins(func, x)) = 0
      BY <1>1, <1>9, <2>2
    <3>2. PICK i \in 1..L : s[i].processed /\ opt.map[s[i].node] = x
      BY <1>1, <1>2, <3>1 DEF Unfilled, s
    <3>3. i \in DOMAIN q /\ q[i] = s[i] /\ map[s[i].node] = opt.map[s[i].node]
      BY <1>7, <1>8, <1>18, <3>2
    <3> QED
      BY <3>2, <3>3
  <2> QED
    BY <2>1, <2>2
<1>23. Todo(opt', 0, Ins(func, opt.node)[2])
  BY <1>1, <1>17
<1>24. ForwardOK(g, G, opt')
  BY <1>1, <1>5, <1>13, <1>14, <1>15, <1>16, <1>20, <1>21, <1>22, <1>23 DEF ForwardOK
<1>25. Kept(G, opt')
  BY <1>1, <1>5, <1>11 DEF Kept, Underway
<1>26. PhaseOK(g, G, opt')
  BY <1>5, <1>24 DEF PhaseOK, Sweeping
<1>27. OptOK(g, G, opt')
  BY <1>5, <1>9, <1>11, <1>25, <1>26 DEF OptOK
<1> QED
  BY <1>9, <1>27 DEF g, p

-----------------------------------------------------------------------------
\* A phi of forwarding gets its inputs.

\* What the value table reads of the node m stays.
KeyStays(f, g, m) ==
  /\ Kind(g, m) = Kind(f, m) /\ Ins(g, m) = Ins(f, m)
  /\ g.node[m].flags = f.node[m].flags /\ g.node[m].data = f.node[m].data

(* What forwarding finds when it finishes a phi: its inputs are mapped, to *)
(* as many nodes as its region has inputs, and the new phi has none yet.   *)
Finishes(f, H, o, n, p, region, ins) ==
  /\ Kind(f, n) = "PHI" /\ p \in H /\ Kind(f, p) = "PHI" /\ Len(Ins(f, p)) = 0
  /\ n \in DOMAIN o.map /\ o.map[n] = p
  /\ region \in H /\ Kind(f, region) = "REGION" /\ region = Ins(f, n)[1]
  /\ ins \in Seq(H \ {f.end}) /\ Len(ins) = Len(Ins(f, region))
  /\ p \notin o.visited /\ p \notin o.table
  /\ \A k \in 2..Len(Ins(f, n)) : Ins(f, n)[k] \in DOMAIN o.map

(* When a phi is met again all of its values are mapped, and its region    *)
(* has as many inputs: the assertions at opt.c:235 and core.c:205.         *)
LEMMA PhiFinishes ==
  ASSUME NEW H, OptOK(func, H, opt), opt.phase = "forward", opt.stack # <<>>,
         Last(opt.stack).processed
  PROVE  LET n == Last(opt.stack).node IN
         /\ Finishes(func, H, opt, n, opt.map[n], In(func, n, 1), PhiValues(n))
         /\ \A i \in DOMAIN Values(n) : Mapped(Values(n)[i])
         /\ Len(Values(n)) = Len(Ins(func, In(func, n, 1)))
<1> DEFINE s == opt.stack
           L == Len(s)
           n == s[L].node
           p == opt.map[n]
           T == H \ {func.end}
           v == Values(n)
           c == PhiValues(n)
           k == Len(Ins(func, n))
           region == Ins(func, n)[1]
<1>1. /\ Held(func, H) /\ Effects(func, H, opt.visited, {})
      /\ MapOK(func, H, opt) /\ Items(opt) /\ Waiting(func, opt)
      /\ \A m \in opt.visited : Len(Ins(func, m)) # 0
  BY OptParts, ForwardParts
<1>2. /\ L \in Nat \ {0} /\ DOMAIN s = 1..L /\ Last(s) = s[L] /\ L \in 1..L /\ n \in opt.visited
      /\ s[L].processed
  BY <1>1, TopItem
<1> HIDE DEF L
<1>3. /\ n \in DOMAIN opt.map /\ Kind(func, n) = "PHI" /\ Len(Ins(func, p)) = 0
      /\ \A j \in 2..Len(Ins(func, n)) : Todo(opt, L, Ins(func, n)[j])
  BY <1>1, <1>2 DEF Waiting
<1>4. \A j \in 2..Len(Ins(func, n)) : Ins(func, n)[j] \in DOMAIN opt.map
  <2> TAKE j \in 2..Len(Ins(func, n))
  <2>1. Todo(opt, L, Ins(func, n)[j])
    BY <1>3
  <2>2. \A i \in 1..L : ~(i > L)
    BY <1>2
  <2> QED
    BY <1>2, <2>1, <2>2 DEF Todo
<1>5. /\ p \in H /\ Kind(func, p) = "PHI" /\ p \notin opt.visited /\ p \notin opt.table
      /\ \A m \in DOMAIN opt.map : opt.map[m] \in T
  BY <1>1, <1>3 DEF MapOK
<1>6. n \in H /\ Len(Ins(func, n)) # 0
  BY <1>1, <1>2 DEF Effects
<1> HIDE DEF n, p, s
<1>7. /\ region \in H /\ Kind(func, region) = "REGION"
      /\ Len(Ins(func, n)) = Len(Ins(func, region)) + 1
  BY <1>1, <1>3, <1>6, InputsFor
<1>8. /\ v \in Seq(T) /\ Len(v) = k - 1
      /\ \A i \in 1..Len(v) : i + 1 \in 2..k /\ v[i] = Ins(func, n)[i + 1]
  BY <1>1, <1>6, ValuesAre
<1>9. DOMAIN v = 1..Len(v) /\ Len(v) \in Nat
  BY <1>8
<1>10. \A i \in 1..Len(v) : v[i] \in DOMAIN opt.map
  BY <1>4, <1>8
<1>11. c = [i \in 1..Len(v) |-> opt.map[v[i]]]
  BY <1>9 DEF PhiValues
<1>12. Len(Ins(func, region)) \in Nat /\ k \in Nat
  BY <1>1, <1>6, <1>7, InputsAre
<1>13. Len(v) = Len(Ins(func, region))
  BY <1>7, <1>8, <1>12
<1>14. region = In(func, n, 1)
  BY DEF In, Ins
<1> HIDE DEF v, k, region, T, c
<1>15. c \in Seq(T) /\ Len(c) = Len(v)
  <2> DEFINE m == Len(v)
             z == [i \in 1..m |-> opt.map[v[i]]]
  <2>1. m \in Nat /\ \A i \in 1..m : opt.map[v[i]] \in T
    BY <1>5, <1>9, <1>10
  <2>2. c = z
    BY <1>11
  <2> HIDE DEF m
  <2>3. z \in Seq(T) /\ Len(z) = m
    BY <2>1
  <2> QED
    BY <2>2, <2>3 DEF m
<1>16. Finishes(func, H, opt, n, p, region, c)
  <2>1. c \in Seq(H \ {func.end}) /\ Len(c) = Len(Ins(func, region)) /\ region = Ins(func, n)[1]
    BY <1>13, <1>15 DEF T, region
  <2> QED
    BY <1>3, <1>4, <1>5, <1>7, <2>1 DEF Finishes, p
<1>17. n = Last(opt.stack).node
  BY <1>2 DEF n, s
<1>18. /\ \A i \in DOMAIN v : Mapped(v[i])
       /\ Len(v) = Len(Ins(func, region))
  BY <1>9, <1>10, <1>13 DEF Mapped
<1> QED
  BY <1>14, <1>16, <1>17, <1>18 DEF p, c, v

(* The phi of forwarding gets its inputs and keeps the invariant; no node  *)
(* of the table changes.                                                   *)
LEMMA PhiFinished ==
  ASSUME NEW H, OptOK(func, H, opt), forward_phi_ins
  PROVE  /\ OptOK(func', H, opt')
         /\ \A m \in opt.table : KeyStays(func, func', m)
<1> DEFINE s == opt.stack
           L == Len(s)
           n == s[L].node
           p == opt.map[n]
           g == func'
           front == Front(s)
           R == [processed : BOOLEAN, node : opt.visited]
           region == In(func, n, 1)
           ins == PhiValues(n)
<1>0. opt.phase = "forward" /\ opt.stack # <<>> /\ Last(opt.stack).processed
  BY DEF forward_phi_ins, In_phase
<1>1. /\ IsOpt(opt) /\ Held(func, H) /\ Sound(opt.worklist) /\ H \subseteq Ids(func)
      /\ Kept(H, opt) /\ opt.table \subseteq H
      /\ LoadOK(func, H, opt) /\ Ins(func, opt.node)[2] \in opt.visited
      /\ Effects(func, H, opt.visited, {}) /\ MapOK(func, H, opt) /\ Items(opt)
      /\ Waiting(func, opt) /\ Unfilled(func, H, opt) /\ Todo(opt, 0, Ins(func, opt.node)[2])
      /\ \A m \in opt.visited : Len(Ins(func, m)) # 0
  BY <1>0, OptParts, ForwardParts
<1>2. /\ L \in Nat \ {0} /\ DOMAIN s = 1..L /\ Last(s) = s[L] /\ L \in 1..L /\ n \in opt.visited
      /\ front \in Seq(R)
      /\ DOMAIN front = 1..(L - 1)
      /\ \A i \in 1..(L - 1) : front[i] = s[i] /\ i \in 1..L /\ i # L
      /\ \A i \in 1..L : s[i].node \in opt.visited
  BY <1>0, <1>1, TopItem
<1>3. Finishes(func, H, opt, n, p, region, ins)
  BY <1>0, <1>2, PhiFinishes
<1>4. /\ g = cb_set_phi_ins(func, p, region, ins) /\ opt' = [opt EXCEPT !.stack = Front(@)]
      /\ s[L].processed
  BY <1>0, <1>2 DEF forward_phi_ins
<1>5. /\ IsOpt(opt') /\ opt'.phase = "forward" /\ opt'.stack = front /\ opt'.map = opt.map
      /\ opt'.worklist = opt.worklist /\ opt'.table = opt.table /\ opt'.node = opt.node
      /\ opt'.visited = opt.visited
  BY <1>0, <1>1, <1>4 DEF IsOpt
<1> HIDE DEF region, ins, g, p, n, L, s, front, R
<1>6. /\ p \in H /\ Kind(func, p) = "PHI" /\ Len(Ins(func, p)) = 0 /\ Kind(func, n) = "PHI"
      /\ n \in DOMAIN opt.map /\ opt.map[n] = p
      /\ region \in H /\ Kind(func, region) = "REGION"
      /\ ins \in Seq(H \ {func.end}) /\ Len(ins) = Len(Ins(func, region))
      /\ p \notin opt.visited /\ p \notin opt.table
      /\ \A k \in 2..Len(Ins(func, n)) : Ins(func, n)[k] \in DOMAIN opt.map
  BY <1>3 DEF Finishes
<1>7. HasFilled(func, cb_set_phi_ins(func, p, region, ins), H, p, region, ins)
  BY <1>1, <1>6, PhiFills
<1>8. HasFilled(func, g, H, p, region, ins)
  BY <1>4, <1>7
<1>9. Len(ins) \in Nat
  BY <1>6
<1>10. /\ Held(g, H) /\ Ids(g) = Ids(func) /\ g.end = func.end
       /\ Len(Ins(g, p)) # 0
       /\ \A m \in Ids(func) : Kind(g, m) = Kind(func, m)
       /\ \A m \in Ids(func) : m # p => Ins(g, m) = Ins(func, m)
  BY <1>8, <1>9 DEF HasFilled
<1>11. opt.visited \subseteq Ids(func) /\ p \in Ids(func) /\ opt.node \in Ids(func) /\ opt.node # p
  BY <1>1, <1>6 DEF Effects, LoadOK
<1>12. \A m \in opt.visited : Kind(g, m) = Kind(func, m) /\ Ins(g, m) = Ins(func, m)
  BY <1>6, <1>10, <1>11
<1>13. Effects(g, H, opt.visited, {}) /\ \A m \in opt.visited : Len(Ins(g, m)) # 0
  BY <1>1, <1>12 DEF Effects
<1>14. LoadOK(g, H, opt') /\ Ins(g, opt.node) = Ins(func, opt.node)
  BY <1>1, <1>5, <1>10, <1>11 DEF LoadOK
<1>15. MapOK(g, H, opt')
  <2>1. \A m \in DOMAIN opt.map : /\ m \in opt.visited /\ m \in Ids(func) /\ opt.map[m] \in Ids(func)
                                  /\ Kind(g, m) = Kind(func, m) /\ Kind(g, opt.map[m]) = Kind(func, opt.map[m])
    BY <1>1, <1>10, <1>11 DEF MapOK
  <2> QED
    BY <1>1, <1>5, <1>10, <2>1 DEF MapOK
<1>16. Items(opt')
  BY <1>1, <1>2, <1>5 DEF Items, s, R
<1>17. ASSUME NEW i, NEW v, Todo(opt, i, v) PROVE Todo(opt', i, v)
  <2>1. /\ DOMAIN opt.stack = 1..L /\ DOMAIN opt.map \subseteq DOMAIN opt'.map
        /\ 1..(L - 1) \subseteq DOMAIN opt'.stack
        /\ \A j \in 1..(L - 1) : opt'.stack[j] = opt.stack[j]
        /\ opt.stack[L].processed
    BY <1>2, <1>4, <1>5 DEF s
  <2> QED
    BY <1>2, <1>17, <2>1, TodoStays
<1>18. Waiting(g, opt')
  <2> SUFFICES ASSUME NEW i \in 1..(L - 1), s[i].processed
               PROVE  LET m == s[i].node IN
                      /\ m \in DOMAIN opt.map /\ Kind(g, m) = "PHI" /\ Len(Ins(g, opt.map[m])) = 0
                      /\ \A k \in 2..Len(Ins(g, m)) : Todo(opt', i, Ins(g, m)[k])
    BY <1>2, <1>5 DEF Waiting
  <2> DEFINE m == s[i].node
  <2>1. i \in 1..L /\ i # L /\ m \in opt.visited
    BY <1>2
  <2>2. /\ m \in DOMAIN opt.map /\ Kind(func, m) = "PHI" /\ Len(Ins(func, opt.map[m])) = 0
        /\ \A k \in 2..Len(Ins(func, m)) : Todo(opt, i, Ins(func, m)[k])
    BY <1>1, <1>2, <2>1 DEF Waiting, s
  <2>3. m # n
    BY <1>1, <1>2, <1>4, <2>1 DEF Items, s, n
  <2>4. opt.map[m] # p /\ opt.map[m] \in Ids(func)
    BY <1>1, <1>6, <2>2, <2>3 DEF MapOK
  <2>5. Ins(g, opt.map[m]) = Ins(func, opt.map[m]) /\ Kind(g, m) = "PHI" /\ Ins(g, m) = Ins(func, m)
    BY <1>10, <1>12, <2>1, <2>2, <2>4
  <2>6. \A k \in 2..Len(Ins(g, m)) : Todo(opt', i, Ins(g, m)[k])
    BY <1>17, <2>2, <2>5
  <2> QED
    BY <2>2, <2>5, <2>6
<1>19. Unfilled(g, H, opt')
  <2> SUFFICES ASSUME NEW x \in H, Kind(g, x) = "PHI" /\ Len(Ins(g, x)) = 0
               PROVE  \E i \in 1..(L - 1) : s[i].processed /\ opt.map[s[i].node] = x
    BY <1>2, <1>5 DEF Unfilled
  <2>1. x # p /\ Kind(func, x) = "PHI" /\ Len(Ins(func, x)) = 0
    BY <1>1, <1>10
  <2>2. PICK i \in 1..L : s[i].processed /\ opt.map[s[i].node] = x
    BY <1>1, <1>2, <2>1 DEF Unfilled, s
  <2>3. i # L
    BY <1>6, <2>1, <2>2 DEF n
  <2>4. i \in 1..(L - 1)
    BY <1>2, <2>3
  <2> QED
    BY <2>2, <2>4
<1>20. Todo(opt', 0, Ins(g, opt'.node)[2]) /\ Ins(g, opt'.node)[2] \in opt'.visited
  BY <1>1, <1>5, <1>14, <1>17
<1>21. ForwardOK(g, H, opt')
  BY <1>5, <1>13, <1>14, <1>15, <1>16, <1>18, <1>19, <1>20 DEF ForwardOK
<1>22. Kept(H, opt') /\ PhaseOK(g, H, opt')
  BY <1>0, <1>1, <1>5, <1>21 DEF Kept, Underway, PhaseOK, Sweeping
<1>23. OptOK(g, H, opt')
  BY <1>1, <1>5, <1>10, <1>22 DEF OptOK
<1>24. \A m \in opt.table : KeyStays(func, g, m)
  <2> TAKE m \in opt.table
  <2>1. m \in Ids(func) /\ m # p
    BY <1>1, <1>6
  <2> QED
    BY <1>8, <2>1 DEF HasFilled, KeyStays
<1> QED
  BY <1>23, <1>24 DEF g

-----------------------------------------------------------------------------
\* The end of forwarding, and value numbering.

(* Forwarding ends with the value mapped to the load's memory; the load is *)
(* to be numbered with it (opt.c:250).                                     *)
LEMMA ForwardEnds ==
  ASSUME NEW H, OptOK(func, H, opt), forward_end
  PROVE  OptOK(func', H, opt')
<1> DEFINE m == Ins(func, opt.node)[2]
           x == opt.map[m]
<1>0. opt.phase = "forward" /\ opt.stack = <<>> /\ func' = func
  BY DEF forward_end, In_phase
<1>1. /\ IsOpt(opt) /\ Held(func, H) /\ Sound(opt.worklist) /\ OneEnd(func)
      /\ Kept(H, opt) /\ H \subseteq Ids(func)
      /\ LoadOK(func, H, opt) /\ MapOK(func, H, opt) /\ Unfilled(func, H, opt)
      /\ Todo(opt, 0, m)
  BY <1>0, OptParts, ForwardParts
<1>2. DOMAIN opt.stack = {}
  BY <1>0
<1>3. m \in DOMAIN opt.map
  BY <1>1, <1>2 DEF Todo
<1>4. x \in H /\ x # func.end
  BY <1>1, <1>3 DEF MapOK
<1>5. x = opt.map[In(func, opt.node, Mem)]
  BY DEF In, Ins, Mem
<1> HIDE DEF x
<1>6. /\ IsOpt(opt') /\ opt'.phase = "number" /\ opt'.ideal = x
      /\ opt'.worklist = opt.worklist /\ opt'.table = opt.table /\ opt'.node = opt.node
  <2>1. opt' = [opt EXCEPT !.phase = "number", !.ideal = x]
    BY <1>5 DEF forward_end
  <2> QED
    BY <1>1, <2>1 DEF IsOpt
<1>7. NoEmptyPhi(func, H)
  BY <1>1, <1>2 DEF Unfilled, NoEmptyPhi
<1>8. NumberOK(func, H, opt')
  <2>1. opt.node \in H /\ Kind(func, opt.node) = "LOAD" /\ opt.node \in Ids(func)
    BY <1>1 DEF LoadOK
  <2>2. opt.node # func.end
    BY <1>1, <2>1 DEF OneEnd
  <2> QED
    BY <1>4, <1>6, <2>1, <2>2 DEF NumberOK, Stands
<1>9. Kept(H, opt') /\ PhaseOK(func, H, opt')
  BY <1>0, <1>1, <1>6, <1>7, <1>8 DEF Kept, Underway, PhaseOK, Sweeping
<1> QED
  BY <1>0, <1>1, <1>6, <1>9 DEF OptOK

(* What is left to show when gvn_get has given the node known.             *)
LEMMA Numbered ==
  ASSUME NEW H, OptOK(func, H, opt), opt.phase = "number", NEW known \in H,
         known = opt.ideal \/ known \in opt.table,
         Kind(func, known) = Kind(func, opt.ideal), Ins(func, known) = Ins(func, opt.ideal),
         NEW o, IsOpt(o),
         o.phase = IF known = opt.node THEN "peepholes" ELSE "replace",
         o.target = opt.node, o.source = known, o.back = "peepholes",
         o.worklist = opt.worklist, o.table \in {opt.table, opt.table \cup {known}},
         known \in o.table
  PROVE  OptOK(func, H, o)
<1>1. /\ IsOpt(opt) /\ Held(func, H) /\ Sound(opt.worklist) /\ OneEnd(func)
      /\ Kept(H, opt) /\ PhaseOK(func, H, opt) /\ H \subseteq Ids(func)
  BY OptParts
<1>2. NumberOK(func, H, opt) /\ NoEmptyPhi(func, H)
  BY <1>1 DEF PhaseOK
<1>3. /\ opt.node \in H /\ opt.ideal \in H /\ (opt.ideal = func.end <=> opt.node = func.end)
      /\ Stands(func, opt.node, opt.ideal)
  BY <1>2 DEF NumberOK
<1>4. known = func.end <=> opt.ideal = func.end
  BY <1>1, <1>3 DEF OneEnd
<1>5. Stands(func, opt.node, known)
  BY <1>3 DEF Stands
<1>6. H \subseteq Listed(opt.worklist) \cup opt.table \cup {opt.node}
  BY <1>1 DEF Kept, Underway
<1>7. Kept(H, o)
  <2>1. o.table \subseteq H /\ opt.table \subseteq o.table /\ Listed(opt.worklist) \subseteq H
    BY <1>1 DEF Kept
  <2>2. CASE known = opt.node
    <3>1. H \subseteq Listed(o.worklist) \cup o.table
      BY <1>6, <2>1, <2>2
    <3> QED
      BY <2>1, <3>1 DEF Kept
  <2>3. CASE known # opt.node
    BY <1>6, <2>1, <2>3 DEF Kept, Underway
  <2> QED
    BY <2>2, <2>3
<1>8. o.phase = "replace" => ReplaceOK(func, H, o)
  <2> SUFFICES ASSUME known # opt.node PROVE ReplaceOK(func, H, o)
    OBVIOUS
  <2>1. opt.node # func.end /\ known # func.end
    BY <1>3, <1>4
  <2> QED
    BY <1>1, <1>3, <1>5, <2>1 DEF ReplaceOK
<1>9. PhaseOK(func, H, o)
  BY <1>2, <1>8 DEF PhaseOK, Sweeping
<1> QED
  BY <1>1, <1>7, <1>9 DEF OptOK

(* gvn_get of a node whose content is new puts it in the table.            *)
LEMMA NumbersNew ==
  ASSUME NEW H, OptOK(func, H, opt), gvn_new
  PROVE  OptOK(func', H, opt')
<1> DEFINE x == opt.ideal
<1>0. /\ opt.phase = "number" /\ func' = func
      /\ opt' = [opt EXCEPT !.table = @ \cup {opt.ideal}, !.target = opt.node,
                            !.source = opt.ideal, !.back = "peepholes",
                            !.phase = IF opt.ideal = opt.node THEN "peepholes" ELSE "replace"]
  BY DEF gvn_new, In_phase
<1>1. IsOpt(opt) /\ PhaseOK(func, H, opt)
  BY OptParts
<1>2. x \in H
  BY <1>0, <1>1 DEF PhaseOK, NumberOK
<1>3. /\ IsOpt(opt') /\ opt'.phase = (IF x = opt.node THEN "peepholes" ELSE "replace")
      /\ opt'.target = opt.node /\ opt'.source = x /\ opt'.back = "peepholes"
      /\ opt'.worklist = opt.worklist /\ opt'.table = opt.table \cup {x}
  BY <1>0, <1>1 DEF IsOpt
<1>4. OptOK(func, H, opt')
  BY <1>0, <1>2, <1>3, Numbered
<1> QED
  BY <1>0, <1>4

(* gvn_get of a known content gives a node that may stand for the one      *)
(* asked for.                                                              *)
LEMMA NumbersKnown ==
  ASSUME NEW H, OptOK(func, H, opt), gvn_known
  PROVE  OptOK(func', H, opt')
<1>0. /\ opt.phase = "number" /\ func' = func
      /\ \E x \in V!Identical(opt.ideal) :
           opt' = [opt EXCEPT !.target = opt.node, !.source = x, !.back = "peepholes",
                              !.phase = IF x = opt.node THEN "peepholes" ELSE "replace"]
  BY DEF gvn_known, In_phase
<1>1. /\ IsOpt(opt) /\ PhaseOK(func, H, opt) /\ opt.table \subseteq H /\ H \subseteq Ids(func)
  BY OptParts
<1>2. opt.ideal \in H
  BY <1>0, <1>1 DEF PhaseOK, NumberOK
<1>3. PICK known \in V!Identical(opt.ideal) :
        opt' = [opt EXCEPT !.target = opt.node, !.source = known, !.back = "peepholes",
                           !.phase = IF known = opt.node THEN "peepholes" ELSE "replace"]
  BY <1>0
<1>4. known \in opt.table /\ Contents(func)[known] = Contents(func)[opt.ideal]
  BY DEF V!Identical
<1>5. Kind(func, known) = Kind(func, opt.ideal) /\ Ins(func, known) = Ins(func, opt.ideal)
  <2>1. known \in Ids(func) /\ opt.ideal \in Ids(func)
    BY <1>1, <1>2, <1>4
  <2> QED
    BY <1>4, <2>1 DEF Contents, Ins
<1>6. /\ IsOpt(opt') /\ opt'.phase = (IF known = opt.node THEN "peepholes" ELSE "replace")
      /\ opt'.target = opt.node /\ opt'.source = known /\ opt'.back = "peepholes"
      /\ opt'.worklist = opt.worklist /\ opt'.table = opt.table
  BY <1>1, <1>3 DEF IsOpt
<1>7. known \in H
  BY <1>1, <1>4
<1>8. OptOK(func, H, opt')
  BY <1>0, <1>4, <1>5, <1>6, <1>7, Numbered
<1> QED
  BY <1>0, <1>8

-----------------------------------------------------------------------------
\* Uses replaced, nodes removed.

(* One use replaced (opt.c:309): the invariant stays, and what is in the   *)
(* table keeps its key, as the user is taken out first (opt.c:313).        *)
LEMMA UseMoves ==
  ASSUME NEW H, OptOK(func, H, opt), replace_use
  PROVE  /\ OptOK(func', H, opt')
         /\ \A m \in opt'.table : KeyStays(func, func', m)
<1> DEFINE t == opt.target
           s == opt.source
           a == Head(Uses(func, t)).node
           g == func'
           l == Add(opt.worklist, a)
<1>0. opt.phase = "replace" /\ Uses(func, t) # <<>>
  BY DEF replace_use, In_phase, Uses
<1>1. /\ IsOpt(opt) /\ Held(func, H) /\ Sound(opt.worklist) /\ H \subseteq Ids(func)
      /\ Kept(H, opt) /\ PhaseOK(func, H, opt) /\ H \subseteq Nat
  BY OptParts
<1>2. ReplaceOK(func, H, opt) /\ NoEmptyPhi(func, H) /\ opt.back \in {"peepholes", "sweep"}
  BY <1>0, <1>1 DEF PhaseOK
<1>3. t \in H /\ s \in H /\ t # func.end /\ s # func.end /\ Stands(func, t, s)
  BY <1>0, <1>2 DEF ReplaceOK
<1>4. g = Moved(func, t, s)
  BY DEF replace_use, Moved, Uses
<1>5. opt' = [opt EXCEPT !.table = @ \ {a}, !.worklist = Add(@, a)]
  BY DEF replace_use, Forget, Revisit, Uses
<1>6. /\ IsOpt(opt') /\ opt'.phase = opt.phase /\ opt'.back = opt.back /\ opt'.target = t
      /\ opt'.source = s /\ opt'.stores = opt.stores
      /\ opt'.table = opt.table \ {a} /\ opt'.worklist = l
  BY <1>1, <1>5 DEF IsOpt
<1> HIDE DEF t, s, g
<1>7. HasMoved(func, g, H, t, s, a)
  BY <1>0, <1>1, <1>3, <1>4, MovedAny
<1> HIDE DEF a
<1>8. /\ Held(g, H) /\ Stands(g, t, s) /\ a \in H /\ g.end = func.end /\ Ids(g) = Ids(func)
      /\ \A m \in Ids(func) : /\ Kind(g, m) = Kind(func, m) /\ Len(Ins(g, m)) = Len(Ins(func, m))
                              /\ m # a => Ins(g, m) = Ins(func, m)
                              /\ g.node[m].flags = func.node[m].flags
                              /\ g.node[m].data = func.node[m].data
      /\ \A m \in Ids(func) : m # t /\ m # s => Uses(g, m) = Uses(func, m)
  BY <1>7 DEF HasMoved
<1>9. Lists(l, Listed(opt.worklist) \cup {a})
  BY <1>1, <1>8, AddLists
<1>10. Sound(l) /\ Listed(l) = Listed(opt.worklist) \cup {a}
  BY <1>9 DEF Lists
<1> HIDE DEF l
<1>11. Kept(H, opt')
  <2>1. /\ Listed(opt.worklist) \subseteq H /\ opt.table \subseteq H
        /\ H \subseteq Listed(opt.worklist) \cup opt.table \cup {t}
    BY <1>0, <1>1 DEF Kept, Underway, t
  <2>2. H \subseteq Listed(l) \cup opt'.table \cup {t} /\ Listed(l) \subseteq H /\ opt'.table \subseteq H
    BY <1>6, <1>8, <1>10, <2>1
  <2> QED
    BY <1>0, <1>6, <2>2 DEF Kept, Underway
<1>12. NoEmptyPhi(g, H)
  BY <1>1, <1>2, <1>8 DEF NoEmptyPhi
<1>13. ReplaceOK(g, H, opt')
  BY <1>1, <1>3, <1>6, <1>8 DEF ReplaceOK
<1>14. Sweeping(opt') => StoresOK(g, H, opt')
  <2> SUFFICES ASSUME Sweeping(opt') PROVE StoresOK(g, H, opt')
    OBVIOUS
  <2>1. Sweeping(opt)
    BY <1>0, <1>6 DEF Sweeping
  <2>2. StoresOK(func, H, opt)
    BY <1>1, <2>1 DEF PhaseOK
  <2>3. /\ opt.stores \in Seq(Ids(func))
        /\ \A n \in ToSet(opt.stores) : Kind(func, n) = "STORE" /\ (n \in H \/ Uses(func, n) = <<>>)
    BY <2>2 DEF StoresOK
  <2>4. ToSet(opt.stores) \subseteq Ids(func)
    BY <2>3, ToSetIs
  <2>5. \A n \in ToSet(opt.stores) : Kind(g, n) = "STORE" /\ (n \in H \/ Uses(g, n) = <<>>)
    BY <1>3, <1>8, <2>3, <2>4
  <2> QED
    BY <1>6, <1>8, <2>3, <2>5 DEF StoresOK
<1>15. PhaseOK(g, H, opt')
  BY <1>0, <1>2, <1>6, <1>12, <1>13, <1>14 DEF PhaseOK
<1>16. OptOK(g, H, opt')
  BY <1>6, <1>8, <1>10, <1>11, <1>15 DEF OptOK
<1>17. \A m \in opt'.table : KeyStays(func, g, m)
  <2> TAKE m \in opt'.table
  <2>1. m \in Ids(func) /\ m # a
    BY <1>1, <1>6 DEF Kept
  <2> QED
    BY <1>8, <2>1 DEF KeyStays
<1> QED
  BY <1>16, <1>17 DEF g

(* When no use is left the replaced node is to be removed.                 *)
LEMMA ReplaceEnds ==
  ASSUME NEW H, OptOK(func, H, opt), replace_end
  PROVE  OptOK(func', H, opt')
<1> DEFINE t == opt.target
           s == <<t>>
<1>0. /\ opt.phase = "replace" /\ Uses(func, t) = <<>> /\ func' = func
      /\ opt' = [opt EXCEPT !.phase = "remove", !.stack = s]
  BY DEF replace_end, In_phase, Uses
<1>1. /\ IsOpt(opt) /\ Held(func, H) /\ Sound(opt.worklist) /\ H \subseteq Ids(func)
      /\ Kept(H, opt) /\ PhaseOK(func, H, opt)
  BY OptParts
<1>2. ReplaceOK(func, H, opt) /\ NoEmptyPhi(func, H) /\ opt.back \in {"peepholes", "sweep"}
  BY <1>0, <1>1 DEF PhaseOK
<1>3. t \in Ids(func) /\ t # func.end
  BY <1>2 DEF ReplaceOK
<1>4. s \in Seq(Ids(func)) /\ ToSet(s) = {t}
  BY <1>3 DEF ToSet
<1> HIDE DEF s
<1>5. /\ IsOpt(opt') /\ opt'.phase = "remove" /\ opt'.stack = s /\ opt'.back = opt.back
      /\ opt'.stores = opt.stores /\ opt'.table = opt.table /\ opt'.worklist = opt.worklist
  BY <1>0, <1>1 DEF IsOpt
<1>6. RemoveOK(func, opt')
  BY <1>0, <1>3, <1>4, <1>5 DEF RemoveOK
<1>7. Kept(H, opt')
  BY <1>0, <1>1, <1>4, <1>5 DEF Kept, Underway
<1>8. Sweeping(opt') => StoresOK(func, H, opt')
  <2>1. Sweeping(opt') => Sweeping(opt)
    BY <1>0, <1>5 DEF Sweeping
  <2> QED
    BY <1>1, <1>5, <2>1 DEF PhaseOK, StoresOK
<1>9. PhaseOK(func, H, opt')
  BY <1>2, <1>5, <1>6, <1>8 DEF PhaseOK
<1> QED
  BY <1>0, <1>1, <1>5, <1>7, <1>9 DEF OptOK

\* The inputs of n that are left without uses, as its removal goes on.
Unused(f, n) ==
  {i \in DOMAIN Ins(f, n) : Ins(f, n)[i] # Nil /\ Uses(Removal(f, n)[i], Ins(f, n)[i]) = <<>>}

(* A node removed (opt.c:280) leaves worklist, table and uses; its inputs  *)
(* that have no use left come next.                                        *)
LEMMA NodeRemoved ==
  ASSUME NEW H, OptOK(func, H, opt), remove_node
  PROVE  /\ OptOK(func', H \ {Last(opt.stack)}, opt')
         /\ \A m \in opt'.table : KeyStays(func, func', m)
<1> DEFINE n == Last(opt.stack)
           front == Front(opt.stack)
           ins == Ins(func, n)
           g == func'
           G == H \ {n}
           more == Picked(ins, Unused(func, n))
           s == front \o more
           l == Unlisted(opt.worklist, n)
<1>0. opt.phase = "remove" /\ opt.stack # <<>>
  BY DEF remove_node, In_phase
<1>1. /\ IsOpt(opt) /\ Held(func, H) /\ Sound(opt.worklist) /\ H \subseteq Ids(func)
      /\ Kept(H, opt) /\ PhaseOK(func, H, opt) /\ H \subseteq Nat /\ IsGraph(func) /\ OneEnd(func)
  BY OptParts
<1>2. RemoveOK(func, opt) /\ NoEmptyPhi(func, H) /\ opt.back \in {"peepholes", "sweep"}
  BY <1>0, <1>1 DEF PhaseOK
<1>3. /\ opt.stack \in Seq(Ids(func))
      /\ \A m \in ToSet(opt.stack) : m # func.end /\ Uses(func, m) = <<>>
  BY <1>2 DEF RemoveOK
<1>4. /\ n \in Ids(func) /\ front \in Seq(Ids(func)) /\ ToSet(opt.stack) = ToSet(front) \cup {n}
  BY <1>0, <1>3, FrontIs, FrontOf
<1>5. n # func.end /\ Uses(func, n) = <<>>
  BY <1>3, <1>4
<1>6. g = Removal(func, n)[Len(ins)]
  BY Zenon DEF remove_node, Removal, Ins
<1>7. opt' = [opt EXCEPT !.stack = front \o more, !.table = @ \ {n}, !.worklist = l]
  <2>1. opt' = [opt EXCEPT !.stack = Front(@) \o Picked(Ins(func, n),
                   {i \in DOMAIN Ins(func, n) : /\ Ins(func, n)[i] # Nil
                                                /\ Removal(func, n)[i].node[Ins(func, n)[i]].uses = <<>>}),
                           !.table = @ \ {n}, !.worklist = Unlisted(@, n)]
    BY Zenon DEF remove_node, Removal, Ins
  <2> QED
    BY <2>1 DEF Unused, Uses
<1> HIDE DEF n, front, g
<1>8. /\ IsOpt(opt') /\ opt'.phase = "remove" /\ opt'.stack = s /\ opt'.back = opt.back
      /\ opt'.stores = opt.stores /\ opt'.table = opt.table \ {n} /\ opt'.worklist = l
  BY <1>0, <1>1, <1>7 DEF IsOpt
<1>9. HasLeft(func, Removal(func, n)[Len(Ins(func, n))], H, n)
  BY <1>1, <1>4, <1>5, RemovedAny
<1>10. /\ Held(g, G) /\ g.end = func.end /\ Ids(g) = Ids(func)
       /\ \A m \in Ids(func) : /\ Kind(g, m) = Kind(func, m) /\ Ins(g, m) = Ins(func, m)
                               /\ g.node[m].flags = func.node[m].flags
                               /\ g.node[m].data = func.node[m].data
                               /\ Uses(func, m) = <<>> => Uses(g, m) = <<>>
       /\ \A m \in Ids(func) : \A k \in 0..Len(ins) : Uses(Removal(func, n)[k], m) = <<>> => Uses(g, m) = <<>>
  BY <1>6, <1>9 DEF HasLeft
<1>11. /\ ins \in Seq(Ids(func) \cup {Nil}) /\ Len(ins) \in Nat /\ DOMAIN ins = 1..Len(ins)
       /\ \A i \in DOMAIN ins : ins[i] \in Ids(func) \cup {Nil}
  BY <1>1, <1>4, NodeTypes
<1>12. \A i \in DOMAIN ins : ins[i] # func.end
  BY <1>1, <1>4 DEF OneEnd
<1>13. \A i \in Unused(func, n) : /\ i \in DOMAIN ins /\ ins[i] \in Ids(func) /\ ins[i] # func.end
                                  /\ Uses(g, ins[i]) = <<>>
  <2> TAKE i \in Unused(func, n)
  <2>1. i \in DOMAIN ins /\ ins[i] # Nil /\ Uses(Removal(func, n)[i], ins[i]) = <<>>
    BY DEF Unused
  <2>2. i \in 0..Len(ins) /\ ins[i] \in Ids(func)
    BY <1>11, <2>1
  <2> QED
    BY <1>10, <1>12, <2>1, <2>2
<1> HIDE DEF ins
<1>14. /\ more \in Seq(Ids(func) \cup {Nil})
       /\ \A k \in DOMAIN more : \E i \in Unused(func, n) : more[k] = ins[i]
  <2>1. Unused(func, n) \in SUBSET DOMAIN ins
    BY <1>13
  <2> QED
    BY <1>11, <2>1, PickedSeq
<1> HIDE DEF more
<1>15. \A k \in DOMAIN more : more[k] \in Ids(func) /\ more[k] # func.end /\ Uses(g, more[k]) = <<>>
  BY <1>13, <1>14
<1>16. /\ more \in Seq(Ids(func))
       /\ \A m \in ToSet(more) : m # func.end /\ Uses(g, m) = <<>>
  <2>1. more \in Seq(Ids(func))
    BY <1>14, <1>15
  <2>2. \A m \in ToSet(more) : \E k \in DOMAIN more : more[k] = m
    BY <2>1, ToSetIs
  <2> QED
    BY <1>15, <2>1, <2>2
<1>17. s \in Seq(Ids(func)) /\ ToSet(s) = ToSet(front) \cup ToSet(more)
  BY <1>4, <1>16, ConcatOf
<1> HIDE DEF s
<1>18. ToSet(front) \subseteq Ids(func)
  BY <1>4, ToSetIs
<1>19. RemoveOK(g, opt')
  <2>1. \A m \in ToSet(s) : m # g.end /\ Uses(g, m) = <<>>
    BY <1>3, <1>4, <1>10, <1>16, <1>17, <1>18
  <2> QED
    BY <1>8, <1>10, <1>17, <2>1 DEF RemoveOK
<1>20. Lists(l, Listed(opt.worklist) \ {n})
  <2>1. n \in Nat
    BY <1>1, <1>4 DEF IsGraph, Ids
  <2> QED
    BY <1>1, <2>1, RemoveLists
<1>21. Sound(l) /\ Listed(l) = Listed(opt.worklist) \ {n}
  BY <1>20 DEF Lists
<1> HIDE DEF l
<1>22. Kept(G, opt')
  <2>1. /\ Listed(opt.worklist) \subseteq H /\ opt.table \subseteq H
        /\ H \subseteq Listed(opt.worklist) \cup opt.table \cup ToSet(opt.stack)
    BY <1>0, <1>1 DEF Kept, Underway
  <2>2. /\ Listed(l) \subseteq G /\ opt'.table \subseteq G
        /\ G \subseteq Listed(l) \cup opt'.table \cup ToSet(s)
    BY <1>4, <1>8, <1>17, <1>21, <2>1
  <2> QED
    BY <1>8, <2>2 DEF Kept, Underway
<1>23. NoEmptyPhi(g, G)
  BY <1>1, <1>2, <1>10 DEF NoEmptyPhi
<1>24. Sweeping(opt') => StoresOK(g, G, opt')
  <2> SUFFICES ASSUME Sweeping(opt') PROVE StoresOK(g, G, opt')
    OBVIOUS
  <2>1. Sweeping(opt)
    BY <1>0, <1>8 DEF Sweeping
  <2>2. StoresOK(func, H, opt)
    BY <1>1, <2>1 DEF PhaseOK
  <2>3. /\ opt.stores \in Seq(Ids(func))
        /\ \A m \in ToSet(opt.stores) : Kind(func, m) = "STORE" /\ (m \in H \/ Uses(func, m) = <<>>)
    BY <2>2 DEF StoresOK
  <2>4. ToSet(opt.stores) \subseteq Ids(func)
    BY <2>3, ToSetIs
  <2>5. \A m \in ToSet(opt.stores) : Kind(g, m) = "STORE" /\ (m \in G \/ Uses(g, m) = <<>>)
    BY <1>5, <1>10, <2>3, <2>4
  <2> QED
    BY <1>8, <1>10, <2>3, <2>5 DEF StoresOK
<1>25. PhaseOK(g, G, opt')
  BY <1>2, <1>8, <1>19, <1>23, <1>24 DEF PhaseOK
<1>26. OptOK(g, G, opt')
  BY <1>8, <1>10, <1>21, <1>22, <1>25 DEF OptOK
<1>27. \A m \in opt'.table : KeyStays(func, g, m)
  <2> TAKE m \in opt'.table
  <2>1. m \in Ids(func)
    BY <1>1, <1>8 DEF Kept
  <2> QED
    BY <1>10, <2>1 DEF KeyStays
<1> QED
  BY <1>26, <1>27 DEF g, n

(* When nothing is left to remove, the loop goes on where it was.          *)
LEMMA RemoveEnds ==
  ASSUME NEW H, OptOK(func, H, opt), remove_end
  PROVE  OptOK(func', H, opt')
<1>0. /\ opt.phase = "remove" /\ opt.stack = <<>> /\ func' = func
      /\ opt' = [opt EXCEPT !.phase = opt.back]
  BY DEF remove_end, In_phase
<1>1. /\ IsOpt(opt) /\ Held(func, H) /\ Sound(opt.worklist)
      /\ Kept(H, opt) /\ PhaseOK(func, H, opt)
  BY OptParts
<1>2. NoEmptyPhi(func, H) /\ opt.back \in {"peepholes", "sweep"}
  BY <1>0, <1>1 DEF PhaseOK
<1>3. /\ IsOpt(opt') /\ opt'.phase = opt.back
      /\ opt'.stores = opt.stores /\ opt'.table = opt.table /\ opt'.worklist = opt.worklist
  BY <1>0, <1>1 DEF IsOpt
<1>4. ToSet(opt.stack) = {}
  BY <1>0 DEF ToSet
<1>5. Kept(H, opt')
  BY <1>0, <1>1, <1>2, <1>3, <1>4 DEF Kept, Underway
<1>6. Sweeping(opt') => StoresOK(func, H, opt')
  <2>1. Sweeping(opt') => Sweeping(opt)
    BY <1>0, <1>2, <1>3 DEF Sweeping
  <2> QED
    BY <1>1, <1>3, <2>1 DEF PhaseOK, StoresOK
<1>7. PhaseOK(func, H, opt')
  BY <1>2, <1>3, <1>6 DEF PhaseOK
<1> QED
  BY <1>0, <1>1, <1>3, <1>5, <1>7 DEF OptOK

-----------------------------------------------------------------------------
\* Dead stores, and a step of the optimizer.

\* A step of dead store elimination, from p to o, that leaves the graph f.
Sweeps(f, H, p, o) ==
  /\ p.phase \in {"peepholes", "mark", "sweep"} /\ IsOpt(o)
  /\ o.worklist = p.worklist /\ o.table = p.table
  /\ \/ o.phase \in {"peepholes", "done"}
     \/ o.phase \in {"mark", "sweep"} /\ StoresOK(f, H, o)
     \/ o.phase = "replace" /\ o.back = "sweep" /\ ReplaceOK(f, H, o) /\ StoresOK(f, H, o)

(* Such a step keeps the invariant.                                        *)
LEMMA SweepingStep ==
  ASSUME NEW H, OptOK(func, H, opt), NEW o, Sweeps(func, H, opt, o)
  PROVE  OptOK(func, H, o)
<1>0. /\ Held(func, H) /\ Sound(opt.worklist) /\ Kept(H, opt) /\ PhaseOK(func, H, opt)
  BY OptParts
<1>1. NoEmptyPhi(func, H)
  BY <1>0 DEF PhaseOK, Sweeps
<1>2. H \subseteq Listed(opt.worklist) \cup opt.table
  BY <1>0 DEF Kept, Underway, Sweeps
<1>3. Kept(H, o)
  BY <1>0, <1>2 DEF Kept, Sweeps
<1>4. PhaseOK(func, H, o)
  BY <1>1 DEF PhaseOK, Sweeping, Sweeps
<1> QED
  BY <1>0, <1>3, <1>4 DEF OptOK, Sweeps

(* What is known while dead stores are sought.                             *)
LEMMA SweepingParts ==
  ASSUME NEW H, OptOK(func, H, opt), opt.phase \in {"mark", "sweep"}
  PROVE  /\ IsOpt(opt) /\ StoresOK(func, H, opt)
         /\ opt.stores \in Seq(Ids(func)) /\ OneEnd(func) /\ Held(func, H)
         /\ \A n \in ToSet(opt.stores) : Kind(func, n) = "STORE" /\ (n \in H \/ Uses(func, n) = <<>>)
<1>1. IsOpt(opt) /\ PhaseOK(func, H, opt) /\ OneEnd(func) /\ Held(func, H)
  BY OptParts
<1>2. StoresOK(func, H, opt)
  BY <1>1 DEF PhaseOK, Sweeping
<1> QED
  BY <1>1, <1>2 DEF StoresOK

(* dead_store_elim collects stores of the graph.                           *)
LEMMA EliminationStarts ==
  ASSUME NEW H, OptOK(func, H, opt), dead_store_elim
  PROVE  OptOK(func', H, opt')
<1> DEFINE w == func_walk_unspecified_order(func)
           at == {i \in DOMAIN w : Kind(func, w[i]) = "STORE"}
           stores == Picked(w, at)
<1>0. /\ opt.phase = "peepholes" /\ func' = func
      /\ \E read : opt' = [opt EXCEPT !.phase = "mark", !.states = {}, !.stack = read, !.stores = stores]
  BY DEF dead_store_elim, In_phase
<1>1. IsOpt(opt) /\ Held(func, H) /\ H \subseteq Ids(func)
  BY OptParts
<1>2. /\ w \in Seq(Ids(func)) /\ w \in Seq(Live(func)) /\ Live(func) \subseteq H
  BY <1>1, LiveHeld
<1> HIDE DEF w
<1>3. at \in SUBSET DOMAIN w
  OBVIOUS
<1>4. \A i \in at : Kind(func, w[i]) = "STORE" /\ w[i] \in H
  BY <1>2
<1> HIDE DEF at
<1>5. /\ stores \in Seq(Ids(func))
      /\ \A k \in DOMAIN stores : \E i \in at : stores[k] = w[i]
  BY <1>2, <1>3, PickedSeq
<1> HIDE DEF stores
<1>6. PICK read : opt' = [opt EXCEPT !.phase = "mark", !.states = {}, !.stack = read, !.stores = stores]
  BY <1>0
<1>7. /\ IsOpt(opt') /\ opt'.phase = "mark" /\ opt'.stores = stores
      /\ opt'.worklist = opt.worklist /\ opt'.table = opt.table
  BY <1>1, <1>6 DEF IsOpt
<1>8. \A n \in ToSet(stores) : Kind(func, n) = "STORE" /\ n \in H
  <2>1. \A n \in ToSet(stores) : \E k \in DOMAIN stores : stores[k] = n
    BY <1>5, ToSetIs
  <2> QED
    BY <1>4, <1>5, <2>1
<1>9. StoresOK(func, H, opt')
  BY <1>5, <1>7, <1>8 DEF StoresOK
<1>10. OptOK(func, H, opt')
  <2>1. Sweeps(func, H, opt, opt')
    BY <1>0, <1>7, <1>9 DEF Sweeps
  <2> QED
    BY <2>1, SweepingStep
<1> QED
  BY <1>0, <1>10

(* Marking what is observed changes nothing of the graph.                  *)
LEMMA MarkStep ==
  ASSUME NEW H, OptOK(func, H, opt), dse_mark \/ dse_mark_end
  PROVE  OptOK(func', H, opt')
<1>0. /\ opt.phase = "mark" /\ func' = func
      /\ \/ \E states, stack : opt' = [opt EXCEPT !.states = states, !.stack = stack]
         \/ opt' = [opt EXCEPT !.phase = "sweep"]
  <2>1. CASE dse_mark
    <3> DEFINE n == Last(opt.stack)
    <3>1. /\ opt.phase = "mark" /\ func' = func
          /\ \/ opt' = [opt EXCEPT !.states = opt.states, !.stack = Front(opt.stack)]
             \/ opt' = [opt EXCEPT !.states = opt.states \cup {n},
                                   !.stack = Front(opt.stack) \o MemoryInputs(n)]
      <4>1. /\ opt.phase = "mark" /\ func' = func
            /\ opt' = IF n \in opt.states THEN [opt EXCEPT !.stack = Front(@)]
                      ELSE [[opt EXCEPT !.stack = Front(@)] EXCEPT !.states = @ \cup {n},
                                                           !.stack = @ \o MemoryInputs(n)]
        BY <2>1 DEF dse_mark, In_phase
      <4>2. IsOpt(opt)
        BY OptParts
      <4> HIDE DEF n
      <4> QED
        BY <4>1, <4>2 DEF IsOpt
    <3> QED
      BY <3>1
  <2>2. CASE dse_mark_end
    BY <2>2 DEF dse_mark_end, In_phase
  <2> QED
    BY <2>1, <2>2
<1>1. IsOpt(opt) /\ StoresOK(func, H, opt)
  BY <1>0, SweepingParts
<1>2. /\ IsOpt(opt') /\ opt'.phase \in {"mark", "sweep"} /\ opt'.stores = opt.stores
      /\ opt'.worklist = opt.worklist /\ opt'.table = opt.table
  <2>1. CASE \E states, stack : opt' = [opt EXCEPT !.states = states, !.stack = stack]
    <3>1. PICK states, stack : opt' = [opt EXCEPT !.states = states, !.stack = stack]
      BY <2>1
    <3> QED
      BY <1>0, <1>1, <3>1 DEF IsOpt
  <2>2. CASE opt' = [opt EXCEPT !.phase = "sweep"]
    BY <1>1, <2>2 DEF IsOpt
  <2> QED
    BY <1>0, <2>1, <2>2
<1>3. StoresOK(func, H, opt')
  BY <1>1, <1>2 DEF StoresOK
<1>4. OptOK(func, H, opt')
  <2>1. Sweeps(func, H, opt, opt')
    BY <1>0, <1>2, <1>3 DEF Sweeps
  <2> QED
    BY <2>1, SweepingStep
<1> QED
  BY <1>0, <1>4

(* A dead store gives way to the memory before it.                         *)
LEMMA SweepStep ==
  ASSUME NEW H, OptOK(func, H, opt), dse_sweep
  PROVE  OptOK(func', H, opt')
<1> DEFINE n == Head(opt.stores)
           t == Tail(opt.stores)
           m == In(func, n, Mem)
           rest == [opt EXCEPT !.stores = Tail(@)]
<1>0. /\ opt.phase = "sweep" /\ func' = func /\ opt.stores # <<>>
      /\ opt' = IF n \in opt.states THEN rest
                ELSE [rest EXCEPT !.phase = "replace", !.back = "sweep", !.target = n, !.source = m]
  BY DEF dse_sweep, In_phase
<1>1. /\ IsOpt(opt) /\ opt.stores \in Seq(Ids(func)) /\ OneEnd(func) /\ Held(func, H)
      /\ \A x \in ToSet(opt.stores) : Kind(func, x) = "STORE" /\ (x \in H \/ Uses(func, x) = <<>>)
  BY <1>0, SweepingParts
<1>2. n \in Ids(func) /\ t \in Seq(Ids(func)) /\ ToSet(opt.stores) = {n} \cup ToSet(t)
  BY <1>0, <1>1, HeadOf
<1>3. Kind(func, n) = "STORE" /\ (n \in H \/ Uses(func, n) = <<>>) /\ n # func.end
  BY <1>1, <1>2 DEF OneEnd
<1>4. n \in H => m \in H /\ m # func.end
  BY <1>1, <1>3, InputsFor DEF In, Ins, Mem
<1> HIDE DEF n, m
<1>5. /\ IsOpt(opt') /\ opt'.stores = t
      /\ opt'.worklist = opt.worklist /\ opt'.table = opt.table
      /\ \/ opt'.phase = "sweep"
         \/ opt'.phase = "replace" /\ opt'.back = "sweep" /\ opt'.target = n /\ opt'.source = m
  <2>1. CASE n \in opt.states
    <3>1. opt' = rest
      BY <1>0, <2>1
    <3> QED
      BY <1>0, <1>1, <3>1 DEF IsOpt
  <2>2. CASE n \notin opt.states
    <3>1. opt' = [rest EXCEPT !.phase = "replace", !.back = "sweep", !.target = n, !.source = m]
      BY <1>0, <2>2
    <3> QED
      BY <1>1, <3>1 DEF IsOpt
  <2> QED
    BY <2>1, <2>2
<1>6. StoresOK(func, H, opt')
  BY <1>1, <1>2, <1>5 DEF StoresOK
<1>7. opt'.phase = "replace" => ReplaceOK(func, H, opt')
  BY <1>2, <1>3, <1>4, <1>5 DEF ReplaceOK, Stands
<1>8. OptOK(func, H, opt')
  <2>1. Sweeps(func, H, opt, opt')
    BY <1>0, <1>5, <1>6, <1>7 DEF Sweeps
  <2> QED
    BY <2>1, SweepingStep
<1> QED
  BY <1>0, <1>8

(* After the sweep the peepholes go on, or the pass ends.                  *)
LEMMA SweepEnds ==
  ASSUME NEW H, OptOK(func, H, opt), dse_end
  PROVE  OptOK(func', H, opt')
<1>0. /\ opt.phase = "sweep" /\ func' = func
      /\ opt' = [opt EXCEPT !.phase = IF Again THEN "peepholes" ELSE "done"]
  BY DEF dse_end, In_phase
<1>1. IsOpt(opt)
  BY OptParts
<1>2. /\ IsOpt(opt') /\ opt'.phase \in {"peepholes", "done"}
      /\ opt'.worklist = opt.worklist /\ opt'.table = opt.table
  BY <1>0, <1>1 DEF IsOpt
<1>3. OptOK(func, H, opt')
  <2>1. Sweeps(func, H, opt, opt')
    BY <1>0, <1>2 DEF Sweeps
  <2> QED
    BY <2>1, SweepingStep
<1> QED
  BY <1>0, <1>3

(* Every step of the optimizer leaves a graph of some nodes, and what the  *)
(* value table reads of the nodes that stay in it.                         *)
LEMMA OptStep ==
  ASSUME NEW H, OptOK(func, H, opt), OptNext
  PROVE  \E G : OptOK(func', G, opt')
<1>1. CASE cb_opt_func
  BY <1>1, StartStep
<1>2. CASE opt_fill
  BY <1>2, FillStep
<1>3. CASE peephole_phi
  BY <1>3, PhiPeephole
<1>4. CASE peephole_region
  BY <1>4, RegionPeephole
<1>5. CASE peephole_load
  BY <1>5, LoadPeephole
<1>6. CASE peephole_other
  BY <1>6, OtherPeephole
<1>7. CASE load_effects
  BY <1>7, EffectsStep
<1>8. CASE load_effects_end
  BY <1>8, EffectsEnd
<1>9. CASE forward_store
  BY <1>9, StoreForwarded
<1>10. CASE forward_phi
  BY <1>10, PhiPassed, PhiForwarded
<1>11. CASE forward_phi_ins
  BY <1>11, PhiFinished
<1>12. CASE forward_end
  BY <1>12, ForwardEnds
<1>13. CASE gvn_new
  BY <1>13, NumbersNew
<1>14. CASE gvn_known
  BY <1>14, NumbersKnown
<1>15. CASE replace_use
  BY <1>15, UseMoves
<1>16. CASE replace_end
  BY <1>16, ReplaceEnds
<1>17. CASE remove_node
  BY <1>17, NodeRemoved
<1>18. CASE remove_end
  BY <1>18, RemoveEnds
<1>19. CASE dead_store_elim
  BY <1>19, EliminationStarts
<1>20. CASE dse_mark \/ dse_mark_end
  BY <1>20, MarkStep
<1>21. CASE dse_sweep
  BY <1>21, SweepStep
<1>22. CASE dse_end
  BY <1>22, SweepEnds
<1> QED
  BY <1>1, <1>2, <1>3, <1>4, <1>5, <1>6, <1>7, <1>8, <1>9, <1>10, <1>11, <1>12, <1>13, <1>14,
     <1>15, <1>16, <1>17, <1>18, <1>19, <1>20, <1>21, <1>22 DEF OptNext

(* A step of the optimizer keeps the key of each node that stays in the    *)
(* table.                                                                  *)
LEMMA OptKeeps ==
  ASSUME NEW H, OptOK(func, H, opt), OptNext, NEW m \in opt.table \cap opt'.table
  PROVE  KeyStays(func, func', m)
<1>0. opt.table \subseteq H /\ H \subseteq Ids(func)
  BY OptParts
<1>1. CASE func' = func
  BY <1>1 DEF KeyStays
<1>2. CASE func' # func
  <2>1. \/ forward_phi /\ ~Mapped(Last(opt.stack).node)
        \/ forward_phi_ins \/ replace_use \/ remove_node
    BY <1>2 DEF OptNext, cb_opt_func, opt_fill, peephole_phi, peephole_region, peephole_load,
                peephole_other, load_effects, load_effects_end, forward_store, forward_phi,
                forward_end, gvn_new, gvn_known, replace_end, remove_end, dead_store_elim,
                dse_mark, dse_mark_end, dse_sweep, dse_end
  <2>2. CASE forward_phi /\ ~Mapped(Last(opt.stack).node)
    <3>1. func'.node[m] = func.node[m]
      BY <1>0, <2>2, PhiForwarded
    <3> QED
      BY <3>1 DEF KeyStays, Kind, Ins
  <2>3. CASE forward_phi_ins
    BY <2>3, PhiFinished
  <2>4. CASE replace_use
    BY <2>4, UseMoves
  <2>5. CASE remove_node
    BY <2>5, NodeRemoved
  <2> QED
    BY <2>1, <2>2, <2>3, <2>4, <2>5
<1> QED
  BY <1>1, <1>2

-----------------------------------------------------------------------------
\* The invariant of lowering.

(* The invariant of lowering, of the graph f, the locals l and the         *)
(* program c.                                                              *)
Place(l, c) ==
  /\ DOMAIN l = {"stage", "block", "inst", "ctrl", "mem", "has_return", "value_map",
                 "end_paths", "data_map"}
  /\ l.stage \in {"start", "block", "code", "connect"}
  /\ l.block \in Nat \ {0} /\ l.block <= Len(c) + 1
  /\ l.stage = "start" => l.block = 1
  /\ l.stage = "code" => /\ l.block \in DOMAIN c
                         /\ l.inst \in Nat \ {0} /\ l.inst <= Len(c[l.block]) + 1

\* The block b has its region; the instruction i of it was lowered; its
\* region waits for inputs.
Begun(l, b) == l.stage = "connect" \/ b < l.block \/ (l.stage = "code" /\ b = l.block)
Ran(l, b, i) == \/ l.stage = "connect" \/ b < l.block
                \/ l.stage = "code" /\ b = l.block /\ i < l.inst
Open(l, b) == IF l.stage = "connect" THEN b >= l.block ELSE Begun(l, b)

Entry(f) == [ctrl : Ids(f), mem : Ids(f)]
Path(f) == [ctrl : Ids(f), mem : Ids(f), value : Ids(f)]

BuiltOK(f, l) == IF l.stage = "start" THEN f = cb_new_func ELSE Growing(f) /\ f.next_id >= 3

CarriesOK(f, l) == l.stage = "code" => l.ctrl \in Ids(f) /\ l.mem \in Ids(f)

Heads(l, c) == /\ DOMAIN l.data_map = DOMAIN c
               /\ \A b \in DOMAIN c : DOMAIN l.data_map[b] = {"region", "mem_phi", "ins"}

HeadsOK(f, l, c) ==
  /\ Heads(l, c)
  /\ \A b \in DOMAIN c : Begun(l, b) =>
       /\ l.data_map[b].region \in Ids(f) /\ Kind(f, l.data_map[b].region) = "REGION"
       /\ l.data_map[b].mem_phi \in Ids(f) /\ Kind(f, l.data_map[b].mem_phi) = "PHI"
  /\ \A a, b \in DOMAIN c : Begun(l, a) /\ Begun(l, b) =>
       /\ l.data_map[a].region = l.data_map[b].region => a = b
       /\ l.data_map[a].mem_phi = l.data_map[b].mem_phi => a = b

WaitsOK(f, l, c) ==
  /\ \A n \in Blank(f) : \E b \in DOMAIN c :
       Open(l, b) /\ (n = l.data_map[b].region \/ n = l.data_map[b].mem_phi)
  /\ \A b \in DOMAIN c : Open(l, b) =>
       l.data_map[b].region \in Blank(f) /\ l.data_map[b].mem_phi \in Blank(f)

EntriesOK(f, l, c) == \A b \in DOMAIN c : l.data_map[b].ins \in Seq(Entry(f))

ValuesOK(f, l, c) ==
  /\ \A v \in DOMAIN l.value_map : l.value_map[v] \in Ids(f)
  /\ \A b \in DOMAIN c : \A i \in DOMAIN c[b] :
       Ran(l, b, i) /\ c[b][i].kind \in Producing => c[b][i].out \in DOMAIN l.value_map

JumpsOK(l, c) ==
  /\ \A b \in DOMAIN c : \A i \in DOMAIN c[b] :
       Ran(l, b, i) /\ c[b][i].kind \in Jumping =>
         \A k \in DOMAIN c[b][i].data : Len(l.data_map[c[b][i].data[k]].ins) # 0
  /\ l.stage = "connect" => Len(l.data_map[1].ins) # 0

Ends(c, b) == \A i \in DOMAIN c[b] : c[b][i].kind \notin Jumping

PathsOK(f, l, c) ==
  /\ l.end_paths \in Seq(Path(f))
  /\ l.stage = "code" /\ l.has_return => Len(l.end_paths) # 0
  /\ \A b \in DOMAIN c : (l.stage = "connect" \/ b < l.block) /\ Ends(c, b) => Len(l.end_paths) # 0

LowOK(f, l, c) == /\ Place(l, c) /\ BuiltOK(f, l) /\ CarriesOK(f, l) /\ HeadsOK(f, l, c)
                  /\ WaitsOK(f, l, c) /\ EntriesOK(f, l, c) /\ ValuesOK(f, l, c)
                  /\ JumpsOK(l, c) /\ PathsOK(f, l, c)

-----------------------------------------------------------------------------

(* What is known of a block of a program.                                  *)
LEMMA ProgramIs ==
  ASSUME NEW c, IsProgram(c), NEW b \in DOMAIN c
  PROVE  /\ DOMAIN c = 1..Len(c) /\ Len(c) \in Nat \ {0} /\ 1 \in DOMAIN c /\ b \in Nat \ {0}
         /\ DOMAIN c[b] = 1..Len(c[b]) /\ Len(c[b]) \in Nat
         /\ b # 1 => \E a \in DOMAIN c : \E i \in DOMAIN c[a] :
                       /\ c[a][i].kind \in Jumping
                       /\ \E k \in DOMAIN c[a][i].data : c[a][i].data[k] = b
         /\ \E a \in DOMAIN c : Ends(c, a)
<1>1. /\ DOMAIN c = 1..Len(c) /\ Len(c) \in Nat \ {0}
      /\ DOMAIN c[b] = 1..Len(c[b]) /\ Len(c[b]) \in Nat
  BY DEF IsProgram
<1>2. b # 1 => \E a \in DOMAIN c : \E i \in DOMAIN c[a] :
                 /\ c[a][i].kind \in Jumping
                 /\ \E k \in DOMAIN c[a][i].data : c[a][i].data[k] = b
  BY DEF IsProgram
<1>3. \E a \in DOMAIN c : Ends(c, a)
  BY DEF IsProgram, Ends
<1>4. 1 \in 1..Len(c)
  <2> DEFINE k == Len(c)
  <2>1. k \in Nat \ {0}
    BY <1>1
  <2> HIDE DEF k
  <2> QED
    BY <2>1 DEF k
<1> QED
  BY <1>1, <1>2, <1>3, <1>4

\* The instruction x of the block b.
IsInst(c, b, i, x) ==
  /\ DOMAIN x.ins = 1..Len(x.ins) /\ Len(x.ins) \in Operands(x.kind)
  /\ \A k \in DOMAIN x.ins : \E a \in DOMAIN c : \E j \in DOMAIN c[a] :
       Earlier(a, j, b, i) /\ c[a][j].kind \in Producing /\ c[a][j].out = x.ins[k]
  /\ x.kind \in Jumping =>
       /\ i = Len(c[b]) /\ DOMAIN x.data = 1..Targets(x.kind)
       /\ \A k \in DOMAIN x.data : x.data[k] \in DOMAIN c

(* What is known of an instruction of a program.                           *)
LEMMA InstIs ==
  ASSUME NEW c, IsProgram(c), NEW b \in DOMAIN c, NEW i \in DOMAIN c[b]
  PROVE  IsInst(c, b, i, c[b][i])
BY DEF IsProgram, IsInst

(* The operands of the instruction to lower have their nodes: value_map    *)
(* was written before it is read (lower.c:47).                             *)
LEMMA ArgIs ==
  ASSUME NEW f, NEW l, NEW c, IsProgram(c), LowOK(f, l, c), l.stage = "code",
         l.inst \in DOMAIN c[l.block], NEW k, k \in DOMAIN c[l.block][l.inst].ins
  PROVE  l.value_map[c[l.block][l.inst].ins[k]] \in Ids(f)
<1> DEFINE x == c[l.block][l.inst]
<1>1. l.block \in DOMAIN c /\ ValuesOK(f, l, c)
  BY DEF LowOK, Place
<1>2. IsInst(c, l.block, l.inst, x)
  BY <1>1, InstIs
<1> HIDE DEF x
<1>3. k \in DOMAIN x.ins
  BY DEF x
<1>4. PICK a \in DOMAIN c : \E j \in DOMAIN c[a] :
        Earlier(a, j, l.block, l.inst) /\ c[a][j].kind \in Producing /\ c[a][j].out = x.ins[k]
  BY <1>2, <1>3 DEF IsInst
<1>5. PICK j \in DOMAIN c[a] :
        Earlier(a, j, l.block, l.inst) /\ c[a][j].kind \in Producing /\ c[a][j].out = x.ins[k]
  BY <1>4
<1>6. Ran(l, a, j)
  BY <1>5 DEF Earlier, Ran
<1>7. x.ins[k] \in DOMAIN l.value_map
  BY <1>1, <1>5, <1>6 DEF ValuesOK
<1> QED
  BY <1>1, <1>7 DEF ValuesOK, x

(* The entries of blocks stay entries while nodes are added.               *)
LEMMA EntriesGrow ==
  ASSUME NEW f, NEW g, NEW l, NEW c, EntriesOK(f, l, c), Ids(f) \subseteq Ids(g)
  PROVE  EntriesOK(g, l, c)
<1> DEFINE S == Entry(f)
           T == Entry(g)
<1>1. S \subseteq T
  BY DEF Entry
<1> HIDE DEF S, T
<1>2. \A b \in DOMAIN c : l.data_map[b].ins \in Seq(T)
  <2> TAKE b \in DOMAIN c
  <2> DEFINE s == l.data_map[b].ins
  <2>1. s \in Seq(S)
    BY DEF EntriesOK, S
  <2> HIDE DEF s
  <2>2. s \in Seq(T)
    BY <1>1, <2>1, SeqMonotonic
  <2> QED
    BY <2>2 DEF s
<1> QED
  BY <1>2 DEF EntriesOK, T

(* The paths that return stay paths while nodes are added.                 *)
LEMMA PathsGrow ==
  ASSUME NEW f, NEW g, NEW s \in Seq(Path(f)), Ids(f) \subseteq Ids(g)
  PROVE  s \in Seq(Path(g))
<1> DEFINE S == Path(f)
           T == Path(g)
<1>1. S \subseteq T /\ s \in Seq(S)
  BY DEF Path
<1> HIDE DEF S, T
<1>2. s \in Seq(T)
  BY <1>1, SeqMonotonic
<1> QED
  BY <1>2 DEF T

(* A sequence with one more element.                                       *)
LEMMA MoreIs ==
  ASSUME NEW S, NEW s \in Seq(S), NEW e \in S
  PROVE  Append(s, e) \in Seq(S) /\ Len(Append(s, e)) = Len(s) + 1 /\ Len(s) \in Nat
OBVIOUS

\* m has the entries of l, and perhaps more.
Entered(g, l, m, c) ==
  /\ Heads(m, c) /\ EntriesOK(g, m, c)
  /\ \A b \in DOMAIN c :
       /\ m.data_map[b].region = l.data_map[b].region
       /\ m.data_map[b].mem_phi = l.data_map[b].mem_phi
       /\ Len(l.data_map[b].ins) # 0 => Len(m.data_map[b].ins) # 0

(* A step that leaves data_map alone keeps the entries.                    *)
LEMMA SameEntered ==
  ASSUME NEW g, NEW l, NEW m, NEW c, Heads(l, c), EntriesOK(g, l, c), m.data_map = l.data_map
  PROVE  Entered(g, l, m, c)
BY DEF Entered, Heads, EntriesOK

(* Entries kept twice are kept.                                            *)
LEMMA EnteredTwice ==
  ASSUME NEW g, NEW l, NEW m, NEW q, NEW c, Entered(g, l, m, c), Entered(g, m, q, c)
  PROVE  Entered(g, l, q, c)
BY DEF Entered

\* A block gets one more entry.
Pushes(g, l, m, b, c) ==
  /\ DOMAIN m = DOMAIN l /\ m.stage = l.stage /\ m.block = l.block /\ m.inst = l.inst
  /\ m.ctrl = l.ctrl /\ m.mem = l.mem /\ m.has_return = l.has_return
  /\ m.value_map = l.value_map /\ m.end_paths = l.end_paths
  /\ Entered(g, l, m, c) /\ Len(m.data_map[b].ins) # 0

(* push_block_entry gives a block one more entry and the others none       *)
(* (lower.c:38).                                                           *)
LEMMA EntryPushed ==
  ASSUME NEW g, NEW l, NEW c, "data_map" \in DOMAIN l, Heads(l, c), EntriesOK(g, l, c),
         NEW b \in DOMAIN c, NEW r \in Ids(g), NEW p \in Ids(g)
  PROVE  Pushes(g, l, push_block_entry(l, b, r, p), b, c)
<1> DEFINE e == [ctrl |-> r, mem |-> p]
           s == l.data_map[b].ins
           t == Append(s, e)
           m == push_block_entry(l, b, r, p)
           S == Entry(g)
<1>1. e \in S
  BY DEF Entry
<1>2. s \in Seq(S)
  BY DEF EntriesOK
<1>3. m = [l EXCEPT !.data_map[b].ins = t]
  BY Zenon DEF push_block_entry
<1> HIDE DEF e, s, S
<1>4. t \in Seq(S) /\ Len(t) = Len(s) + 1 /\ Len(s) \in Nat
  BY <1>1, <1>2, MoreIs
<1> HIDE DEF t
<1>5. Len(t) # 0
  BY <1>4
<1>6. DOMAIN l.data_map = DOMAIN c /\ DOMAIN l.data_map[b] = {"region", "mem_phi", "ins"}
  BY DEF Heads
<1>7. /\ DOMAIN m = DOMAIN l /\ m.stage = l.stage /\ m.block = l.block /\ m.inst = l.inst
      /\ m.ctrl = l.ctrl /\ m.mem = l.mem /\ m.has_return = l.has_return
      /\ m.value_map = l.value_map /\ m.end_paths = l.end_paths
      /\ m.data_map = [l.data_map EXCEPT ![b].ins = t]
  BY <1>3
<1> HIDE DEF m
<1>8. /\ DOMAIN m.data_map = DOMAIN c
      /\ \A a \in DOMAIN c : a # b => m.data_map[a] = l.data_map[a]
      /\ m.data_map[b] = [l.data_map[b] EXCEPT !.ins = t]
  BY <1>6, <1>7
<1>9. /\ DOMAIN m.data_map[b] = {"region", "mem_phi", "ins"} /\ m.data_map[b].ins = t
      /\ m.data_map[b].region = l.data_map[b].region
      /\ m.data_map[b].mem_phi = l.data_map[b].mem_phi
  BY <1>6, <1>8
<1>10. Heads(m, c)
  BY <1>8, <1>9 DEF Heads
<1>11. EntriesOK(g, m, c)
  BY <1>4, <1>8, <1>9 DEF EntriesOK, S
<1>12. Entered(g, l, m, c)
  BY <1>5, <1>8, <1>9, <1>10, <1>11 DEF Entered
<1> QED
  BY <1>5, <1>7, <1>9, <1>12 DEF Pushes, m

-----------------------------------------------------------------------------
\* One instruction is lowered.

\* A path out of the function is one more.
Leaves(g, l, m) ==
  /\ DOMAIN m = DOMAIN l /\ m.stage = l.stage /\ m.block = l.block /\ m.inst = l.inst
  /\ m.ctrl = l.ctrl /\ m.mem = l.mem /\ m.has_return = l.has_return
  /\ m.value_map = l.value_map /\ m.data_map = l.data_map
  /\ m.end_paths \in Seq(Path(g)) /\ Len(m.end_paths) # 0

(* push_end_path adds one path that returns (lower.c:31).                  *)
LEMMA PathPushed ==
  ASSUME NEW g, NEW l, "end_paths" \in DOMAIN l, l.end_paths \in Seq(Path(g)),
         l.ctrl \in Ids(g), l.mem \in Ids(g), NEW v \in Ids(g)
  PROVE  Leaves(g, l, push_end_path(l, v))
<1> DEFINE e == [ctrl |-> l.ctrl, mem |-> l.mem, value |-> v]
           s == l.end_paths
           t == Append(s, e)
           m == push_end_path(l, v)
           S == Path(g)
<1>1. e \in S /\ s \in Seq(S)
  BY DEF Path
<1>2. m = [l EXCEPT !.end_paths = t]
  BY Zenon DEF push_end_path
<1> HIDE DEF e, s, S
<1>3. t \in Seq(S) /\ Len(t) = Len(s) + 1 /\ Len(s) \in Nat
  BY <1>1, MoreIs
<1> HIDE DEF t
<1>4. Len(t) # 0
  BY <1>3
<1> HIDE DEF m
<1>5. /\ DOMAIN m = DOMAIN l /\ m.stage = l.stage /\ m.block = l.block /\ m.inst = l.inst
      /\ m.ctrl = l.ctrl /\ m.mem = l.mem /\ m.has_return = l.has_return
      /\ m.value_map = l.value_map /\ m.data_map = l.data_map /\ m.end_paths = t
  BY <1>2
<1> QED
  BY <1>3, <1>4, <1>5 DEF Leaves, m, S

\* What the instruction x at hand did.
Runs(f, g, l, m, c, x) ==
  /\ Grew(f, g)
  /\ DOMAIN m = DOMAIN l /\ m.stage = l.stage /\ m.block = l.block /\ m.inst = l.inst + 1
  /\ m.ctrl \in Ids(g) /\ m.mem \in Ids(g)
  /\ Entered(g, l, m, c)
  /\ m.end_paths \in Seq(Path(g))
  /\ Len(l.end_paths) # 0 => Len(m.end_paths) # 0
  /\ m.has_return => Len(m.end_paths) # 0
  /\ DOMAIN l.value_map \subseteq DOMAIN m.value_map
  /\ \A v \in DOMAIN m.value_map : m.value_map[v] \in Ids(g)
  /\ x.kind \in Producing => x.out \in DOMAIN m.value_map
  /\ x.kind \in Jumping => \A k \in DOMAIN x.data : Len(m.data_map[x.data[k]].ins) # 0

(* Where regions and phis stay, so does what is known of them.             *)
LEMMA HeadsKept ==
  ASSUME NEW f, NEW g, NEW l, NEW m, NEW c, LowOK(f, l, c), Ids(f) \subseteq Ids(g),
         \A n \in Ids(f) : Kind(g, n) = Kind(f, n), Blank(g) = Blank(f),
         Heads(m, c), \A b \in DOMAIN c : /\ m.data_map[b].region = l.data_map[b].region
                                          /\ m.data_map[b].mem_phi = l.data_map[b].mem_phi,
         \A b \in DOMAIN c : Begun(m, b) <=> Begun(l, b),
         \A b \in DOMAIN c : Open(m, b) <=> Open(l, b)
  PROVE  HeadsOK(g, m, c) /\ WaitsOK(g, m, c)
<1>1. HeadsOK(f, l, c) /\ WaitsOK(f, l, c)
  BY DEF LowOK
<1>2. HeadsOK(g, m, c)
  BY <1>1 DEF HeadsOK
<1>3. WaitsOK(g, m, c)
  BY <1>1 DEF WaitsOK
<1> QED
  BY <1>2, <1>3

(* Lowering one instruction keeps the invariant, where it does what Runs   *)
(* says.                                                                   *)
LEMMA InstRuns ==
  ASSUME NEW f, NEW g, NEW l, NEW m, NEW c, IsProgram(c), LowOK(f, l, c), l.stage = "code",
         l.inst \in DOMAIN c[l.block], Runs(f, g, l, m, c, c[l.block][l.inst])
  PROVE  LowOK(g, m, c)
<1> DEFINE x == c[l.block][l.inst]
           at == l.block
           k == Len(c[at])
<1>1. /\ DOMAIN l = {"stage", "block", "inst", "ctrl", "mem", "has_return", "value_map",
                     "end_paths", "data_map"}
      /\ at \in Nat \ {0} /\ at <= Len(c) + 1 /\ at \in DOMAIN c
      /\ Growing(f) /\ f.next_id >= 3
      /\ HeadsOK(f, l, c) /\ WaitsOK(f, l, c) /\ ValuesOK(f, l, c) /\ JumpsOK(l, c) /\ PathsOK(f, l, c)
  BY DEF LowOK, Place, BuiltOK
<1>2. DOMAIN c[at] = 1..k /\ k \in Nat
  BY <1>1, ProgramIs
<1>3. /\ Grew(f, g)
      /\ DOMAIN m = DOMAIN l /\ m.stage = "code" /\ m.block = at /\ m.inst = l.inst + 1
      /\ m.ctrl \in Ids(g) /\ m.mem \in Ids(g)
      /\ Entered(g, l, m, c)
      /\ m.end_paths \in Seq(Path(g))
      /\ Len(l.end_paths) # 0 => Len(m.end_paths) # 0
      /\ m.has_return => Len(m.end_paths) # 0
      /\ DOMAIN l.value_map \subseteq DOMAIN m.value_map
      /\ \A v \in DOMAIN m.value_map : m.value_map[v] \in Ids(g)
      /\ x.kind \in Producing => x.out \in DOMAIN m.value_map
      /\ x.kind \in Jumping => \A j \in DOMAIN x.data : Len(m.data_map[x.data[j]].ins) # 0
  BY DEF Runs
<1>4. /\ Growing(g) /\ g.next_id \in Nat /\ g.next_id >= f.next_id /\ Ids(f) \subseteq Ids(g)
      /\ f.next_id \in Nat
      /\ Blank(g) = Blank(f) /\ \A n \in Ids(f) : Kind(g, n) = Kind(f, n)
  BY <1>3 DEF Grew
<1>5. l.inst \in 1..k
  BY <1>2
<1> HIDE DEF k, at
<1>6. Place(m, c)
  <2>1. m.inst \in Nat \ {0} /\ m.inst <= k + 1
    <3> DEFINE p == l.inst
               q == m.inst
    <3>1. p \in 1..k /\ k \in Nat /\ q = p + 1
      BY <1>2, <1>3, <1>5
    <3> HIDE DEF p, q
    <3>2. q \in Nat \ {0} /\ q <= k + 1
      BY <3>1
    <3> QED
      BY <3>2 DEF q
  <2> QED
    BY <1>1, <1>3, <2>1 DEF Place, k
<1>7. BuiltOK(g, m) /\ CarriesOK(g, m)
  BY <1>1, <1>3, <1>4 DEF BuiltOK, CarriesOK
<1>8. \A b \in DOMAIN c : (Begun(m, b) <=> Begun(l, b)) /\ (Open(m, b) <=> Open(l, b))
  BY <1>1, <1>3 DEF Begun, Open, at
<1>9. HeadsOK(g, m, c) /\ WaitsOK(g, m, c)
  <2>1. Heads(m, c) /\ \A b \in DOMAIN c : /\ m.data_map[b].region = l.data_map[b].region
                                           /\ m.data_map[b].mem_phi = l.data_map[b].mem_phi
    BY <1>3 DEF Entered
  <2> QED
    BY <1>4, <1>8, <2>1, HeadsKept
<1>10. EntriesOK(g, m, c)
  BY <1>3 DEF Entered
<1>11. ASSUME NEW b \in DOMAIN c, NEW i \in DOMAIN c[b], Ran(m, b, i)
       PROVE  Ran(l, b, i) \/ (c[b][i] = x /\ b = at /\ i = l.inst)
  <2>1. b \in Nat /\ i \in Nat
    <3>1. b \in Nat /\ DOMAIN c[b] = 1..Len(c[b])
      BY ProgramIs
    <3> QED
      BY <3>1
  <2>2. b < at \/ (b = at /\ i < l.inst + 1)
    BY <1>3, <1>11 DEF Ran
  <2>3. b < at \/ (b = at /\ i < l.inst) \/ (b = at /\ i = l.inst)
    BY <1>5, <2>1, <2>2, <1>2
  <2> QED
    BY <2>3 DEF Ran, at
<1> HIDE DEF x
<1>12. ValuesOK(g, m, c)
  <2>1. ASSUME NEW b \in DOMAIN c, NEW i \in DOMAIN c[b], Ran(m, b, i), c[b][i].kind \in Producing
        PROVE  c[b][i].out \in DOMAIN m.value_map
    BY <1>1, <1>3, <1>11, <2>1 DEF ValuesOK
  <2> QED
    BY <1>3, <2>1 DEF ValuesOK
<1>13. JumpsOK(m, c)
  <2>1. ASSUME NEW b \in DOMAIN c, NEW i \in DOMAIN c[b], Ran(m, b, i), c[b][i].kind \in Jumping,
               NEW j \in DOMAIN c[b][i].data
        PROVE  Len(m.data_map[c[b][i].data[j]].ins) # 0
    <3>1. IsInst(c, b, i, c[b][i])
      BY InstIs
    <3>2. c[b][i].data[j] \in DOMAIN c
      BY <2>1, <3>1 DEF IsInst
    <3>3. CASE Ran(l, b, i)
      <4>1. Len(l.data_map[c[b][i].data[j]].ins) # 0
        BY <1>1, <2>1, <3>3 DEF JumpsOK
      <4> QED
        BY <1>3, <3>2, <4>1 DEF Entered
    <3>4. CASE c[b][i] = x
      BY <1>3, <2>1, <3>4
    <3> QED
      BY <1>11, <2>1, <3>3, <3>4
  <2> QED
    BY <1>3, <2>1 DEF JumpsOK
<1>14. PathsOK(g, m, c)
  <2>1. \A b \in DOMAIN c : b < at /\ Ends(c, b) => Len(l.end_paths) # 0
    BY <1>1 DEF PathsOK, at
  <2> QED
    BY <1>3, <2>1 DEF PathsOK
<1> QED
  BY <1>6, <1>7, <1>9, <1>10, <1>12, <1>13, <1>14 DEF LowOK

-----------------------------------------------------------------------------
\* Instructions that make a value.

Locals == {"stage", "block", "inst", "ctrl", "mem", "has_return", "value_map", "end_paths", "data_map"}

(* The parts of the invariant that one instruction needs.                  *)
LEMMA LowParts ==
  ASSUME NEW f, NEW l, NEW c, LowOK(f, l, c)
  PROVE  /\ DOMAIN l = Locals /\ Heads(l, c) /\ EntriesOK(f, l, c)
         /\ l.end_paths \in Seq(Path(f))
         /\ \A v \in DOMAIN l.value_map : l.value_map[v] \in Ids(f)
         /\ l.stage # "start" => Growing(f) /\ f.next_id >= 3
         /\ l.stage = "code" => /\ l.ctrl \in Ids(f) /\ l.mem \in Ids(f) /\ l.block \in DOMAIN c
                                /\ l.has_return => Len(l.end_paths) # 0
BY DEF LowOK, Place, HeadsOK, PathsOK, ValuesOK, BuiltOK, CarriesOK, Locals

(* The instruction at hand.                                                *)
LEMMA AtIs ==
  ASSUME NEW kind, At(kind)
  PROVE  /\ low.stage = "code" /\ low.inst \in DOMAIN cfg[low.block]
         /\ cfg[low.block][low.inst].kind = kind
BY DEF At, Inst, Code

(* An instruction that moves no entry and no path.                         *)
LEMMA PlainRuns ==
  ASSUME NEW f, NEW g, NEW l, NEW m, NEW c, NEW x, LowOK(f, l, c), l.stage = "code", Grew(f, g),
         DOMAIN m = DOMAIN l, m.stage = l.stage, m.block = l.block, m.inst = l.inst + 1,
         m.ctrl = l.ctrl, m.mem \in Ids(g), m.has_return = l.has_return,
         m.end_paths = l.end_paths, m.data_map = l.data_map,
         DOMAIN l.value_map \subseteq DOMAIN m.value_map,
         \A v \in DOMAIN m.value_map : m.value_map[v] \in Ids(g),
         x.kind \in Producing => x.out \in DOMAIN m.value_map, x.kind \notin Jumping
  PROVE  Runs(f, g, l, m, c, x)
<1>1. /\ Heads(l, c) /\ EntriesOK(f, l, c) /\ l.end_paths \in Seq(Path(f))
      /\ l.ctrl \in Ids(f) /\ (l.has_return => Len(l.end_paths) # 0)
  BY LowParts
<1>2. Ids(f) \subseteq Ids(g)
  BY DEF Grew
<1>3. Entered(g, l, m, c)
  BY <1>1, <1>2, EntriesGrow, SameEntered
<1>4. l.end_paths \in Seq(Path(g))
  BY <1>1, <1>2, PathsGrow
<1> QED
  BY <1>1, <1>2, <1>3, <1>4 DEF Runs

(* An instruction whose value is the node v.                               *)
LEMMA ValueRuns ==
  ASSUME NEW f, NEW g, NEW l, NEW m, NEW c, NEW x, LowOK(f, l, c), l.stage = "code", Grew(f, g),
         NEW v \in Ids(g), x.kind \in Producing,
         m = [l EXCEPT !.value_map = With(l.value_map, x.out, v), !.inst = l.inst + 1]
  PROVE  Runs(f, g, l, m, c, x)
<1> DEFINE w == With(l.value_map, x.out, v)
<1>1. /\ DOMAIN l = Locals /\ l.mem \in Ids(f)
      /\ \A u \in DOMAIN l.value_map : l.value_map[u] \in Ids(f)
  BY LowParts
<1>2. Ids(f) \subseteq Ids(g)
  BY DEF Grew
<1>3. /\ DOMAIN w = DOMAIN l.value_map \cup {x.out}
      /\ \A u \in DOMAIN w : w[u] = IF u = x.out THEN v ELSE l.value_map[u]
  BY DEF With
<1>4. m = [l EXCEPT !.value_map = w, !.inst = l.inst + 1]
  OBVIOUS
<1> HIDE DEF w
<1>5. /\ DOMAIN m = DOMAIN l /\ m.stage = l.stage /\ m.block = l.block /\ m.inst = l.inst + 1
      /\ m.ctrl = l.ctrl /\ m.mem = l.mem /\ m.has_return = l.has_return
      /\ m.end_paths = l.end_paths /\ m.data_map = l.data_map /\ m.value_map = w
  BY <1>1, <1>4 DEF Locals
<1>6. /\ \A u \in DOMAIN w : w[u] \in Ids(g)
      /\ DOMAIN l.value_map \subseteq DOMAIN w /\ x.out \in DOMAIN w
  BY <1>1, <1>2, <1>3
<1>7. x.kind \notin Jumping
  BY DEF Producing, Jumping
<1>8. m.mem \in Ids(g)
  BY <1>1, <1>2, <1>5
<1> QED
  BY <1>5, <1>6, <1>7, <1>8, PlainRuns

(* An instruction that adds a node and maps its value to it keeps the      *)
(* invariant.                                                              *)
LEMMA ProduceRuns ==
  ASSUME IsProgram(cfg), LowOK(func, low, cfg), NEW kind \in Producing, At(kind),
         NEW f, Adds(func, f), Produce(f, low)
  PROVE  LowOK(func', low', cfg)
<1> DEFINE x == cfg[low.block][low.inst]
           v == Newest(f)
<1>1. low.stage = "code" /\ low.inst \in DOMAIN cfg[low.block] /\ x.kind = kind
  BY AtIs
<1>2. /\ func' = f
      /\ low' = [[low EXCEPT !.value_map = With(low.value_map, x.out, v)] EXCEPT !.inst = @ + 1]
  BY DEF Produce, Proceed, Inst, Code
<1> HIDE DEF x
<1>3. v \in Ids(f) /\ Grew(func, f) /\ DOMAIN low = Locals
  BY LowParts DEF Adds
<1> HIDE DEF v
<1>4. low' = [low EXCEPT !.value_map = With(low.value_map, x.out, v), !.inst = low.inst + 1]
  BY <1>2, <1>3 DEF Locals
<1>5. Runs(func, f, low, low', cfg, x)
  BY <1>1, <1>3, <1>4, ValueRuns
<1> QED
  BY <1>1, <1>2, <1>5, InstRuns DEF x

(* What the lowering of an instruction reads: nodes of the graph.          *)
LEMMA ArgsAre ==
  ASSUME IsProgram(cfg), LowOK(func, low, cfg), NEW kind, At(kind)
  PROVE  /\ Growing(func) /\ low.ctrl \in Ids(func) /\ low.mem \in Ids(func)
         /\ kind \in {"CAST", "LOAD", "BRANCH"} => Arg(1) \in Ids(func)
         /\ kind \in {"ADD", "SUB", "MUL", "DIV", "STORE"} => Arg(1) \in Ids(func) /\ Arg(2) \in Ids(func)
         /\ kind = "RETURN" /\ Inst.ins # <<>> => Arg(1) \in Ids(func)
<1> DEFINE x == cfg[low.block][low.inst]
           k == Len(x.ins)
<1>1. low.stage = "code" /\ low.inst \in DOMAIN cfg[low.block] /\ x.kind = kind
  BY AtIs
<1>2. Growing(func) /\ low.ctrl \in Ids(func) /\ low.mem \in Ids(func) /\ low.block \in DOMAIN cfg
  BY <1>1, LowParts
<1>3. IsInst(cfg, low.block, low.inst, x)
  BY <1>1, <1>2, InstIs
<1>4. \A i : i \in DOMAIN x.ins => Arg(i) \in Ids(func)
  BY <1>1, ArgIs DEF Arg, Inst, Code
<1>5. Inst = x
  BY DEF Inst, Code
<1> HIDE DEF x
<1>6. DOMAIN x.ins = 1..k /\ k \in Operands(kind)
  BY <1>1, <1>3 DEF IsInst
<1>7. k = 0 => x.ins = <<>>
  <2>1. CASE k = 0
    <3>1. DOMAIN x.ins = {} /\ k = Len(x.ins)
      BY <1>6, <2>1
    <3> QED
      BY <3>1
  <2> QED
    BY <2>1
<1> HIDE DEF k
<1>8. /\ kind \in {"CAST", "LOAD", "BRANCH"} => k = 1
      /\ kind \in {"ADD", "SUB", "MUL", "DIV", "STORE"} => k = 2
      /\ kind = "RETURN" => k \in {0, 1}
  BY <1>6 DEF Operands
<1>9. /\ k = 1 => 1 \in DOMAIN x.ins
      /\ k = 2 => 1 \in DOMAIN x.ins /\ 2 \in DOMAIN x.ins
  BY <1>6
<1> QED
  BY <1>2, <1>4, <1>5, <1>7, <1>8, <1>9

-----------------------------------------------------------------------------
\* Each of them.

(* Constants, arithmetic, loads and locals keep the invariant.             *)
LEMMA ValuesLower ==
  ASSUME IsProgram(cfg), LowOK(func, low, cfg),
         \/ lower_INT_CONST \/ lower_ADD \/ lower_SUB \/ lower_MUL \/ lower_DIV
         \/ lower_LOAD \/ lower_ALLOCA
  PROVE  LowOK(func', low', cfg)
<1>1. CASE lower_INT_CONST
  <2>1. At("INT_CONST") /\ Produce(cb_node_constant(func, Inst.data), low)
    BY <1>1 DEF lower_INT_CONST
  <2>2. Adds(func, cb_node_constant(func, Inst.data))
    BY <2>1, ArgsAre, LeafAdded
  <2> QED
    BY <2>1, <2>2, ProduceRuns DEF Producing
<1>2. ASSUME NEW sem \in {"ADD", "SUB", "MUL", "DIV"}, NEW kind \in BinaryKinds, lower_binary(sem, kind)
      PROVE  LowOK(func', low', cfg)
  <2>1. At(sem) /\ Produce(new_binary(func, kind, Arg(1), Arg(2)), low)
    BY <1>2 DEF lower_binary
  <2>2. Adds(func, new_binary(func, kind, Arg(1), Arg(2)))
    <3>1. Growing(func) /\ Arg(1) \in Ids(func) /\ Arg(2) \in Ids(func)
      BY <2>1, ArgsAre
    <3> QED
      BY <3>1, BinaryAdded
  <2> QED
    BY <2>1, <2>2, ProduceRuns DEF Producing
<1>3. CASE lower_ADD \/ lower_SUB \/ lower_MUL \/ lower_DIV
  BY <1>2, <1>3 DEF lower_ADD, lower_SUB, lower_MUL, lower_DIV, BinaryKinds
<1>4. CASE lower_LOAD
  <2>1. At("LOAD") /\ Produce(cb_node_load(func, low.ctrl, low.mem, Arg(1)), low)
    BY <1>4 DEF lower_LOAD
  <2>2. Adds(func, cb_node_load(func, low.ctrl, low.mem, Arg(1)))
    <3>1. Growing(func) /\ Arg(1) \in Ids(func) /\ low.ctrl \in Ids(func) /\ low.mem \in Ids(func)
      BY <2>1, ArgsAre
    <3> QED
      BY <3>1, LoadAdded
  <2> QED
    BY <2>1, <2>2, ProduceRuns DEF Producing
<1>5. CASE lower_ALLOCA
  <2>1. At("ALLOCA") /\ Produce(cb_node_alloca(func), low)
    BY <1>5 DEF lower_ALLOCA
  <2>2. Adds(func, cb_node_alloca(func))
    BY <2>1, ArgsAre, AllocaMade, OneMore DEF Adds
  <2> QED
    BY <2>1, <2>2, ProduceRuns DEF Producing
<1> QED
  BY <1>1, <1>3, <1>4, <1>5

(* lower_CAST keeps the invariant.                                         *)
LEMMA CastLowers ==
  ASSUME IsProgram(cfg), LowOK(func, low, cfg), lower_CAST
  PROVE  LowOK(func', low', cfg)
<1> DEFINE x == cfg[low.block][low.inst]
           v == Arg(1)
<1>1. /\ At("CAST") /\ func' = func
      /\ low' = [[low EXCEPT !.value_map = With(low.value_map, x.out, v)] EXCEPT !.inst = @ + 1]
  BY DEF lower_CAST, Proceed, Inst, Code
<1>2. low.stage = "code" /\ low.inst \in DOMAIN cfg[low.block] /\ x.kind = "CAST"
  BY <1>1, AtIs
<1>3. Growing(func) /\ v \in Ids(func) /\ DOMAIN low = Locals
  BY <1>1, ArgsAre, LowParts
<1> HIDE DEF x, v
<1>4. low' = [low EXCEPT !.value_map = With(low.value_map, x.out, v), !.inst = low.inst + 1]
  BY <1>1, <1>3 DEF Locals
<1>5. Runs(func, func', low, low', cfg, x)
  <2>1. Grew(func, func) /\ x.kind \in Producing
    BY <1>2, <1>3, SameGrew DEF Producing
  <2>2. Runs(func, func, low, low', cfg, x)
    BY <1>2, <1>3, <1>4, <2>1, ValueRuns
  <2> QED
    BY <1>1, <2>2
<1> QED
  BY <1>2, <1>5, InstRuns DEF x

(* lower_STORE keeps the invariant: the store is the memory of what        *)
(* follows.                                                                *)
LEMMA StoreLowers ==
  ASSUME IsProgram(cfg), LowOK(func, low, cfg), lower_STORE
  PROVE  LowOK(func', low', cfg)
<1> DEFINE x == cfg[low.block][low.inst]
           n == func.next_id
           g == cb_node_store(func, low.ctrl, low.mem, Arg(1), Arg(2))
<1>1. /\ At("STORE") /\ func' = g
      /\ low' = [[low EXCEPT !.mem = n] EXCEPT !.inst = @ + 1]
  BY DEF lower_STORE, Proceed
<1>2. low.stage = "code" /\ low.inst \in DOMAIN cfg[low.block] /\ x.kind = "STORE"
  BY <1>1, AtIs
<1>3. DOMAIN low = Locals /\ \A v \in DOMAIN low.value_map : low.value_map[v] \in Ids(func)
  BY LowParts
<1>4. Adds(func, g)
  <2>1. /\ Growing(func) /\ Arg(1) \in Ids(func) /\ Arg(2) \in Ids(func)
        /\ low.ctrl \in Ids(func) /\ low.mem \in Ids(func)
    BY <1>1, ArgsAre
  <2> QED
    BY <2>1, StoreAdded
<1> HIDE DEF x, g, n
<1>5. Grew(func, g) /\ n \in Ids(g) /\ Ids(func) \subseteq Ids(g)
  BY <1>4 DEF Adds, Grew, n
<1>6. /\ DOMAIN low' = DOMAIN low /\ low'.stage = low.stage /\ low'.block = low.block
      /\ low'.inst = low.inst + 1 /\ low'.ctrl = low.ctrl /\ low'.mem = n
      /\ low'.has_return = low.has_return /\ low'.end_paths = low.end_paths
      /\ low'.data_map = low.data_map /\ low'.value_map = low.value_map
  BY <1>1, <1>3 DEF Locals
<1>7. x.kind \notin Jumping /\ x.kind \notin Producing
  BY <1>2 DEF Producing, Jumping
<1>8. \A v \in DOMAIN low'.value_map : low'.value_map[v] \in Ids(g)
  BY <1>3, <1>5, <1>6
<1>9. Runs(func, g, low, low', cfg, x)
  BY <1>2, <1>5, <1>6, <1>7, <1>8, PlainRuns
<1> QED
  BY <1>1, <1>2, <1>9, InstRuns DEF x

(* lower_RETURN keeps the invariant: the block has its path to the end.    *)
LEMMA ReturnLowers ==
  ASSUME IsProgram(cfg), LowOK(func, low, cfg), lower_RETURN
  PROVE  LowOK(func', low', cfg)
<1> DEFINE x == cfg[low.block][low.inst]
           g == IF Inst.ins = <<>> THEN cb_node_null(func) ELSE func
           v == IF Inst.ins = <<>> THEN Newest(g) ELSE Arg(1)
           l == [low EXCEPT !.has_return = TRUE]
           p == push_end_path(l, v)
<1>1. At("RETURN") /\ func' = g /\ low' = [p EXCEPT !.inst = @ + 1]
  BY Zenon DEF lower_RETURN, Proceed
<1>2. low.stage = "code" /\ low.inst \in DOMAIN cfg[low.block] /\ x.kind = "RETURN"
  BY <1>1, AtIs
<1>3. /\ DOMAIN low = Locals /\ \A u \in DOMAIN low.value_map : low.value_map[u] \in Ids(func)
      /\ Heads(low, cfg) /\ EntriesOK(func, low, cfg) /\ low.end_paths \in Seq(Path(func))
  BY LowParts
<1>4. Growing(func) /\ low.ctrl \in Ids(func) /\ low.mem \in Ids(func)
  BY <1>1, ArgsAre
<1>5. Grew(func, g) /\ v \in Ids(g)
  <2>1. CASE Inst.ins = <<>>
    <3>1. g = cb_node_null(func) /\ v = Newest(g)
      BY <2>1
    <3> HIDE DEF g, v
    <3> QED
      BY <1>4, <3>1, LeafAdded DEF Adds
  <2>2. CASE Inst.ins # <<>>
    <3>1. g = func /\ v = Arg(1) /\ v \in Ids(func)
      BY <1>1, <2>2, ArgsAre
    <3> HIDE DEF g, v
    <3> QED
      BY <1>4, <3>1, SameGrew
  <2> QED
    BY <2>1, <2>2
<1> HIDE DEF x, g, v
<1>6. Ids(func) \subseteq Ids(g)
  BY <1>5 DEF Grew
<1>7. /\ DOMAIN l = Locals /\ l.stage = low.stage /\ l.block = low.block /\ l.inst = low.inst
      /\ l.ctrl = low.ctrl /\ l.mem = low.mem /\ l.value_map = low.value_map
      /\ l.data_map = low.data_map /\ l.end_paths = low.end_paths
  BY <1>3 DEF Locals
<1> HIDE DEF l
<1>8. l.end_paths \in Seq(Path(g)) /\ l.ctrl \in Ids(g) /\ l.mem \in Ids(g) /\ "end_paths" \in DOMAIN l
  BY <1>3, <1>4, <1>6, <1>7, PathsGrow DEF Locals
<1>9. Leaves(g, l, p)
  BY <1>5, <1>8, PathPushed
<1> HIDE DEF p
<1>10. /\ DOMAIN p = Locals /\ p.stage = low.stage /\ p.block = low.block /\ p.inst = low.inst
       /\ p.ctrl = low.ctrl /\ p.mem = low.mem /\ p.value_map = low.value_map
       /\ p.data_map = low.data_map /\ p.end_paths \in Seq(Path(g)) /\ Len(p.end_paths) # 0
  BY <1>7, <1>9 DEF Leaves
<1>11. /\ DOMAIN low' = Locals /\ low'.stage = low.stage /\ low'.block = low.block
       /\ low'.inst = low.inst + 1 /\ low'.ctrl = low.ctrl /\ low'.mem = low.mem
       /\ low'.value_map = low.value_map /\ low'.data_map = low.data_map
       /\ low'.end_paths \in Seq(Path(g)) /\ Len(low'.end_paths) # 0
  BY <1>1, <1>10 DEF Locals
<1>12. Entered(g, low, low', cfg)
  BY <1>3, <1>6, <1>11, EntriesGrow, SameEntered
<1>13. x.kind \notin Jumping /\ x.kind \notin Producing
  BY <1>2 DEF Producing, Jumping
<1>14. \A u \in DOMAIN low.value_map : low.value_map[u] \in Ids(g)
  BY <1>3, <1>6
<1>15. Runs(func, g, low, low', cfg, x)
  BY <1>3, <1>4, <1>5, <1>6, <1>11, <1>12, <1>13, <1>14 DEF Runs
<1> QED
  BY <1>1, <1>2, <1>15, InstRuns DEF x

-----------------------------------------------------------------------------
\* Jumps, and the start.

(* An instruction that enters blocks: m is the state before the next       *)
(* instruction is turned to.                                               *)
LEMMA JumpRuns ==
  ASSUME NEW f, NEW g, NEW l, NEW m, NEW c, NEW x, LowOK(f, l, c), l.stage = "code", Grew(f, g),
         DOMAIN m = DOMAIN l, m.stage = l.stage, m.block = l.block, m.inst = l.inst + 1,
         m.ctrl = l.ctrl, m.mem = l.mem, m.has_return = l.has_return,
         m.end_paths = l.end_paths, m.value_map = l.value_map, Entered(g, l, m, c),
         x.kind \in Jumping, \A k \in DOMAIN x.data : Len(m.data_map[x.data[k]].ins) # 0
  PROVE  Runs(f, g, l, m, c, x)
<1>1. /\ l.end_paths \in Seq(Path(f)) /\ l.ctrl \in Ids(f) /\ l.mem \in Ids(f)
      /\ (l.has_return => Len(l.end_paths) # 0)
      /\ \A v \in DOMAIN l.value_map : l.value_map[v] \in Ids(f)
  BY LowParts
<1>2. Ids(f) \subseteq Ids(g)
  BY DEF Grew
<1>3. l.end_paths \in Seq(Path(g))
  BY <1>1, <1>2, PathsGrow
<1>4. x.kind \notin Producing
  BY DEF Producing, Jumping
<1> QED
  BY <1>1, <1>2, <1>3, <1>4 DEF Runs

(* lower_GOTO keeps the invariant: its target has one more entry.          *)
LEMMA GotoLowers ==
  ASSUME IsProgram(cfg), LowOK(func, low, cfg), lower_GOTO
  PROVE  LowOK(func', low', cfg)
<1> DEFINE x == cfg[low.block][low.inst]
           b == x.data[1]
           p == push_block_entry(low, b, low.ctrl, low.mem)
<1>1. At("GOTO") /\ func' = func /\ low' = [p EXCEPT !.inst = @ + 1]
  BY DEF lower_GOTO, Proceed, Inst, Code
<1>2. low.stage = "code" /\ low.inst \in DOMAIN cfg[low.block] /\ x.kind = "GOTO"
  BY <1>1, AtIs
<1>3. /\ DOMAIN low = Locals /\ Heads(low, cfg) /\ EntriesOK(func, low, cfg)
      /\ low.block \in DOMAIN cfg
  BY <1>2, LowParts
<1>4. Growing(func) /\ low.ctrl \in Ids(func) /\ low.mem \in Ids(func)
  BY <1>1, ArgsAre
<1>5. IsInst(cfg, low.block, low.inst, x)
  BY <1>2, <1>3, InstIs
<1> HIDE DEF x
<1>6. DOMAIN x.data = {1} /\ b \in DOMAIN cfg /\ x.kind \in Jumping
  <2>1. DOMAIN x.data = 1..1 /\ \A k \in DOMAIN x.data : x.data[k] \in DOMAIN cfg
    BY <1>2, <1>5 DEF IsInst, Jumping, Targets
  <2> QED
    BY <1>2, <2>1 DEF Jumping
<1>7. Pushes(func, low, p, b, cfg)
  <2>1. "data_map" \in DOMAIN low
    BY <1>3 DEF Locals
  <2> HIDE DEF b
  <2> QED
    BY <1>3, <1>4, <1>6, <2>1, EntryPushed
<1> HIDE DEF p, b
<1>8. /\ DOMAIN p = Locals /\ p.stage = low.stage /\ p.block = low.block /\ p.inst = low.inst
      /\ p.ctrl = low.ctrl /\ p.mem = low.mem /\ p.has_return = low.has_return
      /\ p.value_map = low.value_map /\ p.end_paths = low.end_paths
      /\ Entered(func, low, p, cfg) /\ Len(p.data_map[b].ins) # 0
  BY <1>3, <1>7 DEF Pushes
<1>9. /\ DOMAIN low' = Locals /\ low'.stage = low.stage /\ low'.block = low.block
      /\ low'.inst = low.inst + 1 /\ low'.ctrl = low.ctrl /\ low'.mem = low.mem
      /\ low'.has_return = low.has_return /\ low'.value_map = low.value_map
      /\ low'.end_paths = low.end_paths /\ low'.data_map = p.data_map
  BY <1>1, <1>8 DEF Locals
<1>10. Entered(func, low, low', cfg)
  BY <1>8, <1>9 DEF Entered, Heads, EntriesOK
<1>11. \A k \in DOMAIN x.data : Len(low'.data_map[x.data[k]].ins) # 0
  BY <1>6, <1>8, <1>9 DEF b
<1>12. Runs(func, func, low, low', cfg, x)
  BY <1>2, <1>3, <1>4, <1>6, <1>9, <1>10, <1>11, SameGrew, JumpRuns
<1> QED
  BY <1>1, <1>2, <1>12, InstRuns DEF x

(* lower_BRANCH keeps the invariant: both targets have one more entry.     *)
LEMMA BranchLowers ==
  ASSUME IsProgram(cfg), LowOK(func, low, cfg), lower_BRANCH
  PROVE  LowOK(func', low', cfg)
<1> DEFINE x == cfg[low.block][low.inst]
           a == x.data[1]
           b == x.data[2]
           n == func.next_id
           g == cb_node_branch(func, low.ctrl, Arg(1))
           p == push_block_entry(low, a, n + 2, low.mem)
           q == push_block_entry(p, b, n + 1, low.mem)
<1>1. At("BRANCH") /\ func' = g /\ low' = [q EXCEPT !.inst = @ + 1]
  BY Zenon DEF lower_BRANCH, Proceed, Inst, Code
<1>2. low.stage = "code" /\ low.inst \in DOMAIN cfg[low.block] /\ x.kind = "BRANCH"
  BY <1>1, AtIs
<1>3. /\ DOMAIN low = Locals /\ Heads(low, cfg) /\ EntriesOK(func, low, cfg)
      /\ low.block \in DOMAIN cfg
  BY <1>2, LowParts
<1>4. Growing(func) /\ low.ctrl \in Ids(func) /\ low.mem \in Ids(func) /\ Arg(1) \in Ids(func)
  BY <1>1, ArgsAre
<1>5. IsInst(cfg, low.block, low.inst, x)
  BY <1>2, <1>3, InstIs
<1>6. HasBranch(func, g)
  BY <1>4, BranchAdded
<1> HIDE DEF x, g
<1>7. DOMAIN x.data = {1, 2} /\ a \in DOMAIN cfg /\ b \in DOMAIN cfg /\ x.kind \in Jumping
  <2>1. DOMAIN x.data = 1..2 /\ \A k \in DOMAIN x.data : x.data[k] \in DOMAIN cfg
    BY <1>2, <1>5 DEF IsInst, Jumping, Targets
  <2> QED
    BY <1>2, <2>1 DEF Jumping
<1>8. Grew(func, g) /\ n + 1 \in Ids(g) /\ n + 2 \in Ids(g) /\ Ids(func) \subseteq Ids(g)
  BY <1>6 DEF HasBranch, Grew
<1>9. EntriesOK(g, low, cfg) /\ low.mem \in Ids(g)
  BY <1>3, <1>4, <1>8, EntriesGrow
<1>10. Pushes(g, low, p, a, cfg)
  <2>1. "data_map" \in DOMAIN low
    BY <1>3 DEF Locals
  <2> DEFINE r == n + 2
  <2>2. r \in Ids(g)
    BY <1>8
  <2> HIDE DEF a, n, r
  <2>3. Pushes(g, low, push_block_entry(low, a, r, low.mem), a, cfg)
    BY <1>3, <1>7, <1>9, <2>1, <2>2, EntryPushed
  <2> QED
    BY <2>3 DEF r
<1> HIDE DEF p
<1>11. /\ DOMAIN p = Locals /\ p.stage = low.stage /\ p.block = low.block /\ p.inst = low.inst
       /\ p.ctrl = low.ctrl /\ p.mem = low.mem /\ p.has_return = low.has_return
       /\ p.value_map = low.value_map /\ p.end_paths = low.end_paths
       /\ Entered(g, low, p, cfg) /\ Len(p.data_map[a].ins) # 0
  BY <1>3, <1>10 DEF Pushes
<1>12. Pushes(g, p, q, b, cfg)
  <2>1. "data_map" \in DOMAIN p /\ Heads(p, cfg) /\ EntriesOK(g, p, cfg)
    BY <1>11 DEF Locals, Entered
  <2> DEFINE r == n + 1
             s == low.mem
  <2>2. r \in Ids(g) /\ s \in Ids(g)
    BY <1>8, <1>9
  <2> HIDE DEF b, n, r, s
  <2>3. Pushes(g, p, push_block_entry(p, b, r, s), b, cfg)
    BY <1>7, <2>1, <2>2, EntryPushed
  <2> QED
    BY <2>3 DEF r, s
<1> HIDE DEF q, a, b, n
<1>13. /\ DOMAIN q = Locals /\ q.stage = low.stage /\ q.block = low.block /\ q.inst = low.inst
       /\ q.ctrl = low.ctrl /\ q.mem = low.mem /\ q.has_return = low.has_return
       /\ q.value_map = low.value_map /\ q.end_paths = low.end_paths
       /\ Entered(g, p, q, cfg) /\ Len(q.data_map[b].ins) # 0
  BY <1>11, <1>12 DEF Pushes
<1>14. Entered(g, low, q, cfg) /\ Len(q.data_map[a].ins) # 0
  <2>1. Len(q.data_map[a].ins) # 0
    BY <1>7, <1>11, <1>13 DEF Entered
  <2> QED
    BY <1>11, <1>13, <2>1, EnteredTwice
<1>15. /\ DOMAIN low' = Locals /\ low'.stage = low.stage /\ low'.block = low.block
       /\ low'.inst = low.inst + 1 /\ low'.ctrl = low.ctrl /\ low'.mem = low.mem
       /\ low'.has_return = low.has_return /\ low'.value_map = low.value_map
       /\ low'.end_paths = low.end_paths /\ low'.data_map = q.data_map
  BY <1>1, <1>13 DEF Locals
<1>16. Entered(g, low, low', cfg)
  BY <1>14, <1>15 DEF Entered, Heads, EntriesOK
<1>17. \A k \in DOMAIN x.data : Len(low'.data_map[x.data[k]].ins) # 0
  BY <1>7, <1>13, <1>14, <1>15 DEF a, b
<1>18. Runs(func, g, low, low', cfg, x)
  BY <1>2, <1>3, <1>7, <1>8, <1>15, <1>16, <1>17, JumpRuns
<1> QED
  BY <1>1, <1>2, <1>18, InstRuns DEF x

-----------------------------------------------------------------------------
(* START is made.                                                          *)
LEMMA StartLowers ==
  ASSUME IsProgram(cfg), LowOK(func, low, cfg), lower_start
  PROVE  LowOK(func', low', cfg)
<1>1. /\ low.stage = "start" /\ func' = cb_node_start(func)
      /\ low' = [low EXCEPT !.stage = "block"]
  BY DEF lower_start
<1>2. /\ func = cb_new_func /\ DOMAIN low = Locals /\ low.block = 1
      /\ HeadsOK(func, low, cfg) /\ WaitsOK(func, low, cfg) /\ EntriesOK(func, low, cfg)
      /\ ValuesOK(func, low, cfg) /\ JumpsOK(low, cfg) /\ PathsOK(func, low, cfg)
      /\ low.block <= Len(cfg) + 1
  BY <1>1 DEF LowOK, BuiltOK, Place, Locals
<1>3. /\ Growing(func') /\ func'.next_id = 3 /\ Blank(func') = {}
  BY <1>1, <1>2, FirstNodes
<1>4. Ids(func) = {} /\ Blank(func) = {}
  BY <1>2 DEF Ids, Blank, cb_new_func
<1>5. /\ DOMAIN low' = Locals /\ low'.stage = "block" /\ low'.block = 1
      /\ low'.value_map = low.value_map /\ low'.data_map = low.data_map
      /\ low'.end_paths = low.end_paths /\ low'.has_return = low.has_return
  BY <1>1, <1>2 DEF Locals
<1>6. Place(low', cfg)
  BY <1>2, <1>5 DEF Place, Locals
<1>7. BuiltOK(func', low') /\ CarriesOK(func', low')
  BY <1>3, <1>5 DEF BuiltOK, CarriesOK
<1>8. \A b \in DOMAIN cfg : /\ Begun(low', b) <=> Begun(low, b)
                            /\ Open(low', b) <=> Open(low, b)
                            /\ ~Begun(low, b) /\ ~Open(low, b)
  <2> TAKE b \in DOMAIN cfg
  <2>1. b \in Nat \ {0}
    BY ProgramIs
  <2> QED
    BY <1>1, <1>2, <1>5, <2>1 DEF Begun, Open
<1>9. \A b, i : ~(b < 1) => (Ran(low', b, i) <=> Ran(low, b, i))
  BY <1>1, <1>2, <1>5 DEF Ran
<1>10. HeadsOK(func', low', cfg)
  BY <1>2, <1>5, <1>8 DEF HeadsOK, Heads
<1>11. WaitsOK(func', low', cfg)
  BY <1>3, <1>8 DEF WaitsOK
<1>12. EntriesOK(func', low', cfg)
  <2>1. Ids(func) \subseteq Ids(func')
    BY <1>4
  <2>2. EntriesOK(func', low, cfg)
    BY <1>2, <2>1, EntriesGrow
  <2> QED
    BY <1>5, <2>2 DEF EntriesOK
<1>13. ValuesOK(func', low', cfg)
  <2>1. \A v \in DOMAIN low'.value_map : low'.value_map[v] \in Ids(func')
    BY <1>2, <1>4, <1>5 DEF ValuesOK
  <2>2. ASSUME NEW b \in DOMAIN cfg, NEW i \in DOMAIN cfg[b], Ran(low', b, i)
        PROVE  Ran(low, b, i)
    <3>1. b \in Nat \ {0}
      BY ProgramIs
    <3> QED
      BY <1>9, <2>2, <3>1
  <2> QED
    BY <1>2, <1>5, <2>1, <2>2 DEF ValuesOK
<1>14. JumpsOK(low', cfg)
  <2>2. ASSUME NEW b \in DOMAIN cfg, NEW i \in DOMAIN cfg[b], Ran(low', b, i)
        PROVE  Ran(low, b, i)
    <3>1. b \in Nat \ {0}
      BY ProgramIs
    <3> QED
      BY <1>9, <2>2, <3>1
  <2> QED
    BY <1>2, <1>5, <2>2 DEF JumpsOK
<1>15. PathsOK(func', low', cfg)
  <2>1. Ids(func) \subseteq Ids(func')
    BY <1>4
  <2>2. low'.end_paths \in Seq(Path(func'))
    <3>1. low.end_paths \in Seq(Path(func))
      BY <1>2 DEF PathsOK
    <3> QED
      BY <1>5, <2>1, <3>1, PathsGrow
  <2>3. \A b \in DOMAIN cfg : ~(b < 1)
    BY ProgramIs
  <2> QED
    BY <1>5, <2>2, <2>3 DEF PathsOK
<1> QED
  BY <1>6, <1>7, <1>10, <1>11, <1>12, <1>13, <1>14, <1>15 DEF LowOK

-----------------------------------------------------------------------------
\* A block begins.

\* A region and a phi more, which wait for their inputs.
Founds(f, g) ==
  /\ Growing(g) /\ f.next_id \in Nat /\ g.next_id = f.next_id + 2
  /\ Ids(g) = Ids(f) \cup {f.next_id, f.next_id + 1}
  /\ f.next_id \notin Ids(f) /\ f.next_id + 1 \notin Ids(f)
  /\ Kind(g, f.next_id) = "REGION" /\ Kind(g, f.next_id + 1) = "PHI"
  /\ \A m \in Ids(f) : Kind(g, m) = Kind(f, m)
  /\ Blank(g) = Blank(f) \cup {f.next_id, f.next_id + 1}

(* A block begins with a region and a phi that wait.                       *)
LEMMA BlockFounds ==
  ASSUME NEW f, Growing(f)
  PROVE  Founds(f, cb_node_phi(cb_node_region(f)))
<1> DEFINE n == f.next_id
           r == cb_node_region(f)
           g == cb_node_phi(r)
<1>1. Grows(f, r, "REGION", {n})
  BY BlankMade DEF cb_node_region
<1> HIDE DEF r
<1>2. /\ Growing(r) /\ r.next_id = n + 1 /\ Ids(r) = Ids(f) \cup {n} /\ n \notin Ids(f)
      /\ n \in Nat /\ Kind(r, n) = "REGION" /\ Blank(r) = Blank(f) \cup {n}
      /\ \A m \in Ids(f) : Kind(r, m) = Kind(f, m)
  BY <1>1 DEF Grows
<1>3. Grows(r, g, "PHI", {n + 1})
  <2>1. Grows(r, g, "PHI", {r.next_id})
    BY <1>2, BlankMade DEF cb_node_phi
  <2> QED
    BY <1>2, <2>1
<1> HIDE DEF g
<1>4. /\ Growing(g) /\ g.next_id = n + 2 /\ Ids(g) = Ids(r) \cup {n + 1} /\ n + 1 \notin Ids(r)
      /\ Kind(g, n + 1) = "PHI" /\ Blank(g) = Blank(r) \cup {n + 1}
      /\ \A m \in Ids(r) : Kind(g, m) = Kind(r, m)
  BY <1>2, <1>3 DEF Grows
<1> HIDE DEF n
<1>5. Founds(f, g)
  BY <1>2, <1>4 DEF Founds, n
<1> QED
  BY <1>5 DEF g, r

(* The parts of the invariant that say nothing of the stage.               *)
LEMMA StageParts ==
  ASSUME NEW f, NEW l, NEW c, IsProgram(c), LowOK(f, l, c)
  PROVE  /\ DOMAIN l = Locals /\ l.block \in Nat \ {0} /\ l.block <= Len(c) + 1 /\ Len(c) \in Nat \ {0}
         /\ DOMAIN c = 1..Len(c)
         /\ HeadsOK(f, l, c) /\ WaitsOK(f, l, c) /\ EntriesOK(f, l, c)
         /\ ValuesOK(f, l, c) /\ JumpsOK(l, c) /\ PathsOK(f, l, c)
         /\ l.stage # "start" => Growing(f) /\ f.next_id >= 3
<1>1. DOMAIN c = 1..Len(c) /\ Len(c) \in Nat \ {0}
  BY DEF IsProgram
<1> QED
  BY <1>1 DEF LowOK, Place, BuiltOK, Locals

(* The value map, the entries and the paths, when they stay and no         *)
(* instruction is run.                                                     *)
NoneRuns(l, m, c) == \A b \in DOMAIN c : \A i \in DOMAIN c[b] : Ran(m, b, i) => Ran(l, b, i)

JumpsMade(l, m, c) ==
  \A b \in DOMAIN c : \A i \in DOMAIN c[b] :
    Ran(m, b, i) /\ c[b][i].kind \in Jumping =>
      \A k \in DOMAIN c[b][i].data : Len(l.data_map[c[b][i].data[k]].ins) # 0

(* While no instruction is lowered, values and jumps stay.                 *)
LEMMA MapsKept ==
  ASSUME NEW f, NEW g, NEW l, NEW m, NEW c, LowOK(f, l, c), Ids(f) \subseteq Ids(g),
         m.value_map = l.value_map, NoneRuns(l, m, c)
  PROVE  ValuesOK(g, m, c) /\ JumpsMade(l, m, c)
BY DEF LowOK, ValuesOK, JumpsOK, NoneRuns, JumpsMade

\* The head of a block is entered.
Enters(l, m, c, r, p) ==
  /\ DOMAIN m = Locals /\ m.stage = "code" /\ m.block = l.block /\ m.inst = 1
  /\ m.has_return = FALSE /\ m.ctrl = r /\ m.mem = p
  /\ m.value_map = l.value_map /\ m.end_paths = l.end_paths
  /\ Heads(m, c) /\ \A b \in DOMAIN c : m.data_map[b].ins = l.data_map[b].ins
  /\ \A b \in DOMAIN c : b # l.block => m.data_map[b] = l.data_map[b]
  /\ m.data_map[l.block].region = r /\ m.data_map[l.block].mem_phi = p

(* The locals when a block begins.                                         *)
LEMMA BlockEnters ==
  ASSUME NEW l, NEW c, DOMAIN l = Locals, Heads(l, c), l.block \in DOMAIN c, NEW r, NEW p
  PROVE  Enters(l, [l EXCEPT !.stage = "code", !.inst = 1, !.has_return = FALSE,
                             !.ctrl = r, !.mem = p,
                             !.data_map[l.block].region = r,
                             !.data_map[l.block].mem_phi = p], c, r, p)
<1> DEFINE a == l.block
           d == [l.data_map EXCEPT ![a].region = r, ![a].mem_phi = p]
           m == [l EXCEPT !.stage = "code", !.inst = 1, !.has_return = FALSE,
                             !.ctrl = r, !.mem = p,
                             !.data_map[a].region = r,
                             !.data_map[a].mem_phi = p]
<1>1. /\ DOMAIN l.data_map = DOMAIN c /\ a \in DOMAIN c
      /\ \A b \in DOMAIN c : DOMAIN l.data_map[b] = {"region", "mem_phi", "ins"}
  BY DEF Heads
<1>2. /\ DOMAIN m = Locals /\ m.stage = "code" /\ m.block = l.block /\ m.inst = 1
      /\ m.has_return = FALSE /\ m.ctrl = r /\ m.mem = p
      /\ m.value_map = l.value_map /\ m.end_paths = l.end_paths /\ m.data_map = d
  BY DEF Locals
<1>3. /\ DOMAIN d = DOMAIN c /\ \A b \in DOMAIN c : b # a => d[b] = l.data_map[b]
      /\ d[a] = [l.data_map[a] EXCEPT !.region = r, !.mem_phi = p]
  BY <1>1
<1>4. /\ DOMAIN d[a] = {"region", "mem_phi", "ins"} /\ d[a].ins = l.data_map[a].ins
      /\ d[a].region = r /\ d[a].mem_phi = p
  BY <1>1, <1>3
<1> HIDE DEF d, m
<1>5. Heads(m, c) /\ \A b \in DOMAIN c : m.data_map[b].ins = l.data_map[b].ins
  BY <1>1, <1>2, <1>3, <1>4 DEF Heads
<1>6. Enters(l, m, c, r, p)
  BY <1>2, <1>3, <1>4, <1>5 DEF Enters
<1> QED
  BY <1>6 DEF m

(* lower_block keeps the invariant.                                        *)
LEMMA BlockLowers ==
  ASSUME IsProgram(cfg), LowOK(func, low, cfg), lower_block
  PROVE  LowOK(func', low', cfg)
<1> DEFINE r == func.next_id
           p == r + 1
           at == low.block
<1>1. /\ low.stage = "block" /\ at \in DOMAIN cfg /\ func' = cb_node_phi(cb_node_region(func))
      /\ low' = [low EXCEPT !.stage = "code", !.inst = 1, !.has_return = FALSE,
                            !.ctrl = r, !.mem = p,
                            !.data_map[at].region = r,
                            !.data_map[at].mem_phi = p]
  BY Zenon DEF lower_block, Blocks
<1>2. /\ DOMAIN low = Locals /\ at \in Nat \ {0} /\ at <= Len(cfg) + 1
      /\ HeadsOK(func, low, cfg) /\ WaitsOK(func, low, cfg) /\ EntriesOK(func, low, cfg)
      /\ JumpsOK(low, cfg) /\ PathsOK(func, low, cfg)
      /\ Growing(func) /\ func.next_id >= 3
  BY <1>1, StageParts
<1>3. Founds(func, func')
  BY <1>1, <1>2, BlockFounds
<1>4. /\ Growing(func') /\ r \in Nat /\ func'.next_id = r + 2
      /\ Ids(func') = Ids(func) \cup {r, p} /\ r \notin Ids(func) /\ p \notin Ids(func)
      /\ Kind(func', r) = "REGION" /\ Kind(func', p) = "PHI"
      /\ \A m \in Ids(func) : Kind(func', m) = Kind(func, m)
      /\ Blank(func') = Blank(func) \cup {r, p}
  BY <1>3 DEF Founds
<1>5. Enters(low, low', cfg, r, p)
  <2> HIDE DEF r, p
  <2>1. Heads(low, cfg)
    BY <1>2 DEF HeadsOK
  <2> QED
    BY <1>1, <1>2, <2>1, BlockEnters
<1>6. /\ DOMAIN low' = Locals /\ low'.stage = "code" /\ low'.block = at /\ low'.inst = 1
      /\ low'.has_return = FALSE /\ low'.ctrl = r /\ low'.mem = p
      /\ low'.value_map = low.value_map /\ low'.end_paths = low.end_paths
      /\ Heads(low', cfg) /\ \A b \in DOMAIN cfg : low'.data_map[b].ins = low.data_map[b].ins
      /\ \A b \in DOMAIN cfg : b # at => low'.data_map[b] = low.data_map[b]
      /\ low'.data_map[at].region = r /\ low'.data_map[at].mem_phi = p
  BY <1>5 DEF Enters
<1>7. func'.next_id >= 3
  BY <1>2, <1>4
<1>8. /\ \A b \in DOMAIN cfg : Begun(low', b) <=> Begun(low, b) \/ b = at
      /\ \A b \in DOMAIN cfg : Open(low', b) <=> Begun(low', b)
      /\ \A b \in DOMAIN cfg : Open(low, b) <=> Begun(low, b)
      /\ \A b \in DOMAIN cfg : Begun(low, b) => b # at
  BY <1>1, <1>2, <1>6 DEF Begun, Open
<1> HIDE DEF r, p
<1>9. Place(low', cfg)
  <2>1. Len(cfg[at]) \in Nat
    BY <1>1, ProgramIs
  <2>2. low'.inst \in Nat \ {0} /\ low'.inst <= Len(cfg[at]) + 1
    BY <1>6, <2>1
  <2> QED
    BY <1>1, <1>2, <1>6, <2>2 DEF Place, Locals
<1>10. BuiltOK(func', low') /\ CarriesOK(func', low')
  BY <1>4, <1>6, <1>7 DEF BuiltOK, CarriesOK
<1>11. HeadsOK(func', low', cfg)
  <2>1. \A b \in DOMAIN cfg : Begun(low', b) =>
          /\ low'.data_map[b].region \in Ids(func') /\ Kind(func', low'.data_map[b].region) = "REGION"
          /\ low'.data_map[b].mem_phi \in Ids(func') /\ Kind(func', low'.data_map[b].mem_phi) = "PHI"
          /\ b # at => low'.data_map[b].region \in Ids(func) /\ low'.data_map[b].mem_phi \in Ids(func)
    BY <1>2, <1>4, <1>6, <1>8 DEF HeadsOK
  <2>2. ASSUME NEW a \in DOMAIN cfg, NEW b \in DOMAIN cfg, Begun(low', a), Begun(low', b)
        PROVE  /\ low'.data_map[a].region = low'.data_map[b].region => a = b
               /\ low'.data_map[a].mem_phi = low'.data_map[b].mem_phi => a = b
    <3>1. CASE a = at /\ b = at
      BY <3>1
    <3>2. CASE a # at /\ b = at
      BY <1>4, <1>6, <2>1, <2>2, <3>2
    <3>3. CASE a = at /\ b # at
      BY <1>4, <1>6, <2>1, <2>2, <3>3
    <3>4. CASE a # at /\ b # at
      BY <1>2, <1>6, <1>8, <2>2, <3>4 DEF HeadsOK
    <3> QED
      BY <3>1, <3>2, <3>3, <3>4
  <2> QED
    BY <1>6, <2>1, <2>2 DEF HeadsOK
<1>12. WaitsOK(func', low', cfg)
  <2>1. ASSUME NEW n \in Blank(func')
        PROVE  \E b \in DOMAIN cfg :
                 Open(low', b) /\ (n = low'.data_map[b].region \/ n = low'.data_map[b].mem_phi)
    <3>1. CASE n \in Blank(func)
      <4>1. PICK b \in DOMAIN cfg :
              Open(low, b) /\ (n = low.data_map[b].region \/ n = low.data_map[b].mem_phi)
        BY <1>2, <3>1 DEF WaitsOK
      <4> QED
        BY <1>6, <1>8, <4>1
    <3>2. CASE n \in {r, p}
      BY <1>1, <1>6, <1>8, <3>2
    <3> QED
      BY <1>4, <2>1, <3>1, <3>2
  <2>2. ASSUME NEW b \in DOMAIN cfg, Open(low', b)
        PROVE  low'.data_map[b].region \in Blank(func') /\ low'.data_map[b].mem_phi \in Blank(func')
    BY <1>2, <1>4, <1>6, <1>8, <2>2 DEF WaitsOK
  <2> QED
    BY <2>1, <2>2 DEF WaitsOK
<1>13. Ids(func) \subseteq Ids(func')
  BY <1>4
<1>14. EntriesOK(func', low', cfg)
  <2>1. EntriesOK(func', low, cfg)
    BY <1>2, <1>13, EntriesGrow
  <2> QED
    BY <1>6, <2>1 DEF EntriesOK
<1>15. ASSUME NEW b \in DOMAIN cfg, NEW i \in DOMAIN cfg[b], Ran(low', b, i)
       PROVE  Ran(low, b, i)
  <2>1. i \in Nat \ {0}
    <3>1. DOMAIN cfg[b] = 1..Len(cfg[b])
      BY ProgramIs
    <3> QED
      BY <3>1
  <2> QED
    BY <1>6, <1>15, <2>1 DEF Ran
<1>16. ValuesOK(func', low', cfg) /\ JumpsMade(low, low', cfg)
  <2>1. NoneRuns(low, low', cfg)
    BY <1>15 DEF NoneRuns
  <2> QED
    BY <1>6, <1>13, <2>1, MapsKept
<1>17. JumpsOK(low', cfg)
  <2>1. ASSUME NEW b \in DOMAIN cfg, NEW i \in DOMAIN cfg[b], Ran(low', b, i), cfg[b][i].kind \in Jumping,
               NEW k \in DOMAIN cfg[b][i].data
        PROVE  Len(low'.data_map[cfg[b][i].data[k]].ins) # 0
    <3>1. cfg[b][i].data[k] \in DOMAIN cfg
      BY <2>1, InstIs DEF IsInst
    <3> QED
      BY <1>6, <1>16, <2>1, <3>1 DEF JumpsMade
  <2> QED
    BY <1>6, <2>1 DEF JumpsOK
<1>18. PathsOK(func', low', cfg)
  <2>1. low'.end_paths \in Seq(Path(func'))
    <3>1. low.end_paths \in Seq(Path(func))
      BY <1>2 DEF PathsOK
    <3> QED
      BY <1>6, <1>13, <3>1, PathsGrow
  <2> QED
    BY <1>1, <1>2, <1>6, <2>1 DEF PathsOK
<1> QED
  BY <1>9, <1>10, <1>11, <1>12, <1>14, <1>16, <1>17, <1>18 DEF LowOK

-----------------------------------------------------------------------------
\* A block ends.

(* The entries of the jumps that were lowered, when entries are kept.      *)
LEMMA JumpsKept ==
  ASSUME NEW l, NEW m, NEW c, IsProgram(c), JumpsMade(l, m, c), m.stage = "connect" => Len(m.data_map[1].ins) # 0,
         \A b \in DOMAIN c : Len(l.data_map[b].ins) # 0 => Len(m.data_map[b].ins) # 0
  PROVE  JumpsOK(m, c)
<1>1. ASSUME NEW b \in DOMAIN c, NEW i \in DOMAIN c[b], Ran(m, b, i), c[b][i].kind \in Jumping,
             NEW k \in DOMAIN c[b][i].data
      PROVE  Len(m.data_map[c[b][i].data[k]].ins) # 0
  <2>1. c[b][i].data[k] \in DOMAIN c
    BY <1>1, InstIs DEF IsInst
  <2> QED
    BY <1>1, <2>1 DEF JumpsMade
<1> QED
  BY <1>1 DEF JumpsOK

\* A block that jumps nowhere ends with a path out of the function.
LEMMA NoSuccessors ==
  ASSUME NEW c, IsProgram(c), NEW b \in DOMAIN c, Ends(c, b)
  PROVE  Successors(c[b]) = 0
<1> DEFINE s == c[b]
           k == Len(s)
<1>1. DOMAIN s = 1..k /\ k \in Nat
  BY ProgramIs
<1>2. \A i \in DOMAIN s : s[i].kind \notin Jumping
  BY DEF Ends
<1> HIDE DEF s
<1>3. s # <<>> => Last(s).kind \notin {"GOTO", "BRANCH"}
  <2>1. CASE k = 0
    <3>1. DOMAIN s = {} /\ Len(s) = 0
      BY <1>1, <2>1
    <3>2. s = <<>>
      BY <3>1
    <3> QED
      BY <3>2
  <2>2. CASE k # 0
    <3>1. Last(s) = s[k]
      BY DEF Last
    <3> HIDE DEF k
    <3>2. k \in 1..k
      BY <1>1, <2>2
    <3> QED
      BY <1>1, <1>2, <3>1, <3>2 DEF Jumping
  <2> QED
    BY <2>1, <2>2
<1>4. Successors(s) = 0
  BY <1>3 DEF Successors
<1> QED
  BY <1>4 DEF s

\* What the end of a block does to the locals.
Closes(f, g, l, m, c) ==
  /\ Grew(f, g)
  /\ DOMAIN m = Locals /\ m.stage = "block" /\ m.block = l.block + 1
  /\ m.data_map = l.data_map /\ m.value_map = l.value_map
  /\ m.end_paths \in Seq(Path(g))
  /\ Len(l.end_paths) # 0 => Len(m.end_paths) # 0
  /\ Ends(c, l.block) => Len(m.end_paths) # 0

(* What the end of a block does: a path to the end where it neither jumps  *)
(* nor returns (lower.c:179).                                              *)
LEMMA BlockCloses ==
  ASSUME IsProgram(cfg), LowOK(func, low, cfg), lower_block_end
  PROVE  Closes(func, func', low, low', cfg)
<1> DEFINE ends == Successors(Code) = 0 /\ ~low.has_return
           g == IF ends THEN cb_node_null(func) ELSE func
           l == IF ends THEN push_end_path(low, Newest(g)) ELSE low
<1>1. /\ low.stage = "code" /\ func' = g
      /\ low' = [l EXCEPT !.block = @ + 1, !.stage = "block"]
  BY Zenon DEF lower_block_end
<1>2. /\ DOMAIN low = Locals /\ low.end_paths \in Seq(Path(func))
      /\ Growing(func) /\ low.ctrl \in Ids(func) /\ low.mem \in Ids(func)
      /\ low.block \in DOMAIN cfg /\ (low.has_return => Len(low.end_paths) # 0)
  BY <1>1, LowParts
<1>3. Ends(cfg, low.block) => Successors(Code) = 0
  BY <1>2, NoSuccessors DEF Code
<1>4. /\ Grew(func, g)
      /\ DOMAIN l = Locals /\ l.block = low.block
      /\ l.data_map = low.data_map /\ l.value_map = low.value_map
      /\ l.end_paths \in Seq(Path(g))
      /\ Len(low.end_paths) # 0 => Len(l.end_paths) # 0
      /\ Ends(cfg, low.block) => Len(l.end_paths) # 0
  <2>1. CASE ends
    <3> DEFINE n == cb_node_null(func)
               v == Newest(n)
    <3>1. g = n /\ l = push_end_path(low, v)
      BY <2>1
    <3>2. Grew(func, n) /\ v \in Ids(n)
      BY <1>2, LeafAdded DEF Adds
    <3> HIDE DEF g, l, n, v
    <3>3. Ids(func) \subseteq Ids(n)
      BY <3>2 DEF Grew
    <3>4. low.end_paths \in Seq(Path(n)) /\ "end_paths" \in DOMAIN low /\ low.ctrl \in Ids(n) /\ low.mem \in Ids(n)
      BY <1>2, <3>3, PathsGrow DEF Locals
    <3>5. Leaves(n, low, push_end_path(low, v))
      BY <3>2, <3>4, PathPushed
    <3>6. Leaves(g, low, l)
      BY <3>1, <3>5
    <3> QED
      BY <1>2, <3>1, <3>2, <3>6 DEF Leaves
  <2>2. CASE ~ends
    <3>1. g = func /\ l = low
      BY <2>2
    <3>2. Ends(cfg, low.block) => Len(low.end_paths) # 0
      BY <1>2, <1>3, <2>2
    <3> HIDE DEF g, l
    <3> QED
      BY <1>2, <3>1, <3>2, SameGrew
  <2> QED
    BY <2>1, <2>2
<1> HIDE DEF g, l
<1>5. /\ DOMAIN low' = Locals /\ low'.stage = "block" /\ low'.block = low.block + 1
      /\ low'.data_map = l.data_map /\ low'.value_map = l.value_map /\ low'.end_paths = l.end_paths
  BY <1>1, <1>4 DEF Locals
<1> QED
  BY <1>1, <1>4, <1>5 DEF Closes

(* lower_block_end keeps the invariant.                                    *)
LEMMA BlockEndLowers ==
  ASSUME IsProgram(cfg), LowOK(func, low, cfg), lower_block_end
  PROVE  LowOK(func', low', cfg)
<1> DEFINE at == low.block
           k == Len(cfg[at])
<1>1. low.stage = "code" /\ low.inst = k + 1
  BY DEF lower_block_end, Code
<1>2. /\ at \in Nat \ {0} /\ Len(cfg) \in Nat \ {0} /\ DOMAIN cfg = 1..Len(cfg)
      /\ HeadsOK(func, low, cfg) /\ WaitsOK(func, low, cfg) /\ EntriesOK(func, low, cfg)
      /\ ValuesOK(func, low, cfg) /\ JumpsOK(low, cfg) /\ PathsOK(func, low, cfg)
      /\ Growing(func) /\ func.next_id >= 3
  BY <1>1, StageParts
<1>3. at \in DOMAIN cfg
  BY <1>1, LowParts
<1>4. /\ Grew(func, func')
      /\ DOMAIN low' = Locals /\ low'.stage = "block" /\ low'.block = at + 1
      /\ low'.data_map = low.data_map /\ low'.value_map = low.value_map
      /\ low'.end_paths \in Seq(Path(func'))
      /\ Len(low.end_paths) # 0 => Len(low'.end_paths) # 0
      /\ Ends(cfg, at) => Len(low'.end_paths) # 0
  BY BlockCloses DEF Closes
<1>5. /\ Growing(func') /\ func'.next_id \in Nat /\ func'.next_id >= func.next_id
      /\ Ids(func) \subseteq Ids(func') /\ func.next_id \in Nat
      /\ Blank(func') = Blank(func) /\ \A n \in Ids(func) : Kind(func', n) = Kind(func, n)
  BY <1>4 DEF Grew
<1>6. at <= Len(cfg)
  BY <1>2, <1>3
<1> HIDE DEF k
<1>7. Place(low', cfg)
  BY <1>2, <1>4, <1>6 DEF Place, Locals
<1>8. BuiltOK(func', low') /\ CarriesOK(func', low')
  BY <1>2, <1>4, <1>5 DEF BuiltOK, CarriesOK
<1>9. \A b \in DOMAIN cfg : (Begun(low', b) <=> Begun(low, b)) /\ (Open(low', b) <=> Open(low, b))
  <2> TAKE b \in DOMAIN cfg
  <2>1. b \in Nat
    BY ProgramIs
  <2>2. b < at + 1 <=> (b < at \/ b = at)
    BY <1>2, <2>1
  <2> QED
    BY <1>1, <1>4, <2>2 DEF Begun, Open
<1>10. HeadsOK(func', low', cfg) /\ WaitsOK(func', low', cfg)
  <2>1. /\ Heads(low', cfg)
        /\ \A b \in DOMAIN cfg : /\ low'.data_map[b].region = low.data_map[b].region
                                 /\ low'.data_map[b].mem_phi = low.data_map[b].mem_phi
    BY <1>2, <1>4 DEF HeadsOK, Heads
  <2> QED
    BY <1>5, <1>9, <2>1, HeadsKept
<1>11. EntriesOK(func', low', cfg)
  <2>1. EntriesOK(func', low, cfg)
    BY <1>2, <1>5, EntriesGrow
  <2> QED
    BY <1>4, <2>1 DEF EntriesOK
<1>12. ASSUME NEW b \in DOMAIN cfg, NEW i \in DOMAIN cfg[b], Ran(low', b, i)
       PROVE  Ran(low, b, i)
  <2>1. b \in Nat /\ DOMAIN cfg[b] = 1..Len(cfg[b]) /\ Len(cfg[b]) \in Nat
    BY ProgramIs
  <2>2. b < at \/ b = at
    BY <1>2, <1>4, <1>12, <2>1 DEF Ran
  <2>3. CASE b = at
    <3>1. DOMAIN cfg[b] = 1..k /\ k \in Nat
      BY <2>1, <2>3 DEF k
    <3>2. i < low.inst
      BY <1>1, <3>1
    <3> QED
      BY <1>1, <2>3, <3>2 DEF Ran
  <2> QED
    BY <2>2, <2>3 DEF Ran
<1>13. ValuesOK(func', low', cfg) /\ JumpsMade(low, low', cfg)
  <2>1. NoneRuns(low, low', cfg)
    BY <1>12 DEF NoneRuns
  <2> QED
    BY <1>4, <1>5, <2>1, MapsKept
<1>14. JumpsOK(low', cfg)
  BY <1>4, <1>13, JumpsKept
<1>15. PathsOK(func', low', cfg)
  <2>1. ASSUME NEW b \in DOMAIN cfg, b < at + 1, Ends(cfg, b)
        PROVE  Len(low'.end_paths) # 0
    <3>1. b \in Nat
      BY ProgramIs
    <3>2. b < at \/ b = at
      BY <1>2, <2>1, <3>1
    <3>3. b < at => Len(low.end_paths) # 0
      BY <1>2, <2>1 DEF PathsOK
    <3> QED
      BY <1>4, <2>1, <3>2, <3>3
  <2> QED
    BY <1>4, <2>1 DEF PathsOK
<1> QED
  BY <1>7, <1>8, <1>10, <1>11, <1>13, <1>14, <1>15 DEF LowOK

(* lower_entry keeps the invariant: the first block is entered from the    *)
(* start (lower.c:184).                                                    *)
LEMMA EntryLowers ==
  ASSUME IsProgram(cfg), LowOK(func, low, cfg), lower_entry
  PROVE  LowOK(func', low', cfg)
<1> DEFINE p == push_block_entry(low, 1, 1, 2)
<1>1. /\ low.stage = "block" /\ low.block \notin DOMAIN cfg /\ func' = func
      /\ low' = [p EXCEPT !.stage = "connect", !.block = 1]
  BY DEF lower_entry, Blocks
<1>2. /\ DOMAIN low = Locals /\ low.block \in Nat \ {0} /\ low.block <= Len(cfg) + 1
      /\ Len(cfg) \in Nat \ {0} /\ DOMAIN cfg = 1..Len(cfg)
      /\ HeadsOK(func, low, cfg) /\ WaitsOK(func, low, cfg) /\ EntriesOK(func, low, cfg)
      /\ ValuesOK(func, low, cfg) /\ JumpsOK(low, cfg) /\ PathsOK(func, low, cfg)
      /\ Growing(func) /\ func.next_id >= 3
  BY <1>1, StageParts
<1>3. 1 \in Ids(func) /\ 2 \in Ids(func)
  BY <1>2 DEF Ids, Growing, IsGraph
<1>4. low.block = Len(cfg) + 1
  <2> DEFINE k == Len(cfg)
             at == low.block
  <2>1. k \in Nat \ {0} /\ at \in Nat \ {0} /\ at <= k + 1 /\ at \notin 1..k
    BY <1>1, <1>2
  <2> HIDE DEF k, at
  <2>2. at = k + 1
    BY <2>1
  <2> QED
    BY <2>2 DEF k, at
<1>5. \A b \in DOMAIN cfg : b < low.block /\ b \in Nat \ {0} /\ b >= 1
  <2> DEFINE k == Len(cfg)
  <2>1. k \in Nat \ {0} /\ DOMAIN cfg = 1..k /\ low.block = k + 1
    BY <1>2, <1>4
  <2> HIDE DEF k
  <2> QED
    BY <2>1
<1>6. 1 \in DOMAIN cfg
  <2> DEFINE k == Len(cfg)
  <2>1. k \in Nat \ {0} /\ DOMAIN cfg = 1..k
    BY <1>2
  <2> HIDE DEF k
  <2> QED
    BY <2>1
<1>7. Pushes(func, low, p, 1, cfg)
  <2>1. "data_map" \in DOMAIN low /\ Heads(low, cfg)
    BY <1>2 DEF Locals, HeadsOK
  <2> QED
    BY <1>2, <1>3, <1>6, <2>1, EntryPushed
<1> HIDE DEF p
<1>8. /\ DOMAIN p = Locals /\ p.value_map = low.value_map /\ p.end_paths = low.end_paths
      /\ Entered(func, low, p, cfg) /\ Len(p.data_map[1].ins) # 0
  BY <1>2, <1>7 DEF Pushes
<1>9. /\ DOMAIN low' = Locals /\ low'.stage = "connect" /\ low'.block = 1
      /\ low'.value_map = low.value_map /\ low'.end_paths = low.end_paths
      /\ low'.data_map = p.data_map
  BY <1>1, <1>8 DEF Locals
<1>10. Entered(func, low, low', cfg)
  BY <1>8, <1>9 DEF Entered, Heads, EntriesOK
<1>11. Place(low', cfg)
  BY <1>2, <1>9 DEF Place, Locals
<1>12. BuiltOK(func', low') /\ CarriesOK(func', low')
  BY <1>1, <1>2, <1>9 DEF BuiltOK, CarriesOK
<1>13. /\ \A b \in DOMAIN cfg : /\ Begun(low', b) <=> Begun(low, b)
                                /\ Open(low', b) <=> Open(low, b)
       /\ \A b \in DOMAIN cfg : \A i \in DOMAIN cfg[b] : Ran(low, b, i)
  BY <1>1, <1>5, <1>9 DEF Begun, Open, Ran
<1>14. HeadsOK(func', low', cfg) /\ WaitsOK(func', low', cfg)
  <2>1. /\ Heads(low', cfg)
        /\ \A b \in DOMAIN cfg : /\ low'.data_map[b].region = low.data_map[b].region
                                 /\ low'.data_map[b].mem_phi = low.data_map[b].mem_phi
    BY <1>10 DEF Entered
  <2> QED
    BY <1>1, <1>13, <2>1, HeadsKept
<1>15. EntriesOK(func', low', cfg)
  BY <1>1, <1>10 DEF Entered
<1>16. ValuesOK(func', low', cfg) /\ JumpsMade(low, low', cfg)
  <2>1. NoneRuns(low, low', cfg)
    BY <1>13 DEF NoneRuns
  <2> QED
    BY <1>1, <1>9, <2>1, MapsKept
<1>17. JumpsOK(low', cfg)
  BY <1>8, <1>9, <1>10, <1>16, JumpsKept DEF Entered
<1>18. PathsOK(func', low', cfg)
  BY <1>1, <1>2, <1>5, <1>9 DEF PathsOK
<1> QED
  BY <1>11, <1>12, <1>14, <1>15, <1>16, <1>17, <1>18 DEF LowOK

-----------------------------------------------------------------------------
\* Regions get their inputs, and the function its end.

(* The controls and memories of a block's entries are as many as its       *)
(* entries.                                                                *)
LEMMA EntryLists ==
  ASSUME NEW f, NEW s \in Seq(Entry(f))
  PROVE  /\ IsList(Ctrls(s), Ids(f), Len(s)) /\ IsList(Mems(s), Ids(f), Len(s)) /\ Len(s) \in Nat
<1> DEFINE N == Ids(f)
           R == Entry(f)
<1>1. s \in Seq(R) /\ \A x \in R : x.ctrl \in N /\ x.mem \in N
  BY DEF Entry
<1> HIDE DEF R, N
<1>2. Len(s) \in Nat /\ DOMAIN s = 1..Len(s) /\ \A i \in DOMAIN s : s[i] \in R
  BY <1>1
<1> DEFINE c == Ctrls(s)
           m == Mems(s)
<1>3. c = [i \in DOMAIN s |-> c[i]] /\ \A i \in DOMAIN s : c[i] \in N
  BY <1>1, <1>2 DEF Ctrls
<1>4. m = [i \in DOMAIN s |-> m[i]] /\ \A i \in DOMAIN s : m[i] \in N
  BY <1>1, <1>2 DEF Mems
<1> HIDE DEF c, m
<1>5. c \in Seq(N) /\ Len(c) = Len(s)
  BY <1>2, <1>3, FieldsAre
<1>6. m \in Seq(N) /\ Len(m) = Len(s)
  BY <1>2, <1>4, FieldsAre
<1> QED
  BY <1>2, <1>5, <1>6 DEF IsList, c, m, N

(* When regions get their inputs, each block has an entry: none is a       *)
(* region without inputs.                                                  *)
LEMMA AllEntered ==
  ASSUME NEW f, NEW l, NEW c, IsProgram(c), LowOK(f, l, c), l.stage = "connect", NEW b \in DOMAIN c
  PROVE  Len(l.data_map[b].ins) # 0
<1>1. JumpsOK(l, c) /\ \A a, i : Ran(l, a, i)
  BY DEF LowOK, Ran
<1>2. CASE b = 1
  BY <1>1, <1>2 DEF JumpsOK
<1>3. CASE b # 1
  <2>1. PICK a \in DOMAIN c : \E i \in DOMAIN c[a] :
          /\ c[a][i].kind \in Jumping
          /\ \E k \in DOMAIN c[a][i].data : c[a][i].data[k] = b
    BY <1>3, ProgramIs
  <2>2. PICK i \in DOMAIN c[a] :
          /\ c[a][i].kind \in Jumping
          /\ \E k \in DOMAIN c[a][i].data : c[a][i].data[k] = b
    BY <2>1
  <2>3. PICK k \in DOMAIN c[a][i].data : c[a][i].data[k] = b
    BY <2>2
  <2>4. Len(l.data_map[c[a][i].data[k]].ins) # 0
    BY <1>1, <2>2 DEF JumpsOK
  <2> QED
    BY <2>3, <2>4
<1> QED
  BY <1>2, <1>3

\* The region r and the phi p have their inputs.
Connects(f, g, r, p) ==
  /\ Growing(g) /\ g.next_id = f.next_id /\ Ids(g) = Ids(f) /\ Blank(g) = Blank(f) \ {r, p}
  /\ \A m \in Ids(f) : Kind(g, m) = Kind(f, m)

(* A region gets its inputs, and its phi as many (lower.c:186).            *)
LEMMA HeadConnects ==
  ASSUME NEW f, Growing(f), NEW r \in Blank(f), Kind(f, r) = "REGION",
         NEW p \in Blank(f), Kind(f, p) = "PHI", NEW s \in Seq(Entry(f)), Len(s) # 0
  PROVE  Connects(f, cb_set_phi_ins(cb_set_region_ins(f, r, Ctrls(s)), p, r, Mems(s)), r, p)
<1> DEFINE c == Ctrls(s)
           m == Mems(s)
           k == Len(s)
           h == cb_set_region_ins(f, r, c)
           g == cb_set_phi_ins(h, p, r, m)
<1>1. c \in Seq(Ids(f)) /\ Len(c) = k /\ m \in Seq(Ids(f)) /\ Len(m) = k /\ k \in Nat /\ k # 0
  BY EntryLists DEF IsList
<1> HIDE DEF c, m, k
<1>2. Fills(f, h, r, k)
  BY <1>1, RegionFills
<1> HIDE DEF h
<1>3. /\ Growing(h) /\ h.next_id = f.next_id /\ Ids(h) = Ids(f)
      /\ \A n \in Ids(f) : Kind(h, n) = Kind(f, n)
      /\ Len(Ins(h, r)) = k /\ Blank(h) = Blank(f) \ {r}
  BY <1>2 DEF Fills
<1>4. r \in Ids(f) /\ p \in Ids(f) /\ p # r
  BY DEF Blank
<1>5. /\ p \in Blank(h) /\ Kind(h, p) = "PHI" /\ r \in Ids(h) /\ Kind(h, r) = "REGION"
      /\ m \in Seq(Ids(h)) /\ Len(m) # 0 /\ Len(m) = Len(Ins(h, r))
  BY <1>1, <1>3, <1>4
<1>6. Fills(h, g, p, Len(m) + 1)
  BY <1>3, <1>5, BlankPhiFills
<1> HIDE DEF g
<1>7. Connects(f, g, r, p)
  BY <1>3, <1>6 DEF Fills, Connects
<1> QED
  BY <1>7 DEF g, h, c, m

(* lower_connect keeps the invariant.                                      *)
LEMMA ConnectLowers ==
  ASSUME IsProgram(cfg), LowOK(func, low, cfg), lower_connect
  PROVE  LowOK(func', low', cfg)
<1> DEFINE at == low.block
           d == low.data_map[at]
           r == d.region
           p == d.mem_phi
           s == d.ins
<1>1. /\ low.stage = "connect" /\ at \in DOMAIN cfg
      /\ func' = cb_set_phi_ins(cb_set_region_ins(func, r, Ctrls(s)), p, r, Mems(s))
      /\ low' = [low EXCEPT !.block = @ + 1]
  BY Zenon DEF lower_connect, Blocks
<1>2. /\ DOMAIN low = Locals /\ at \in Nat \ {0} /\ at <= Len(cfg) + 1
      /\ Len(cfg) \in Nat \ {0} /\ DOMAIN cfg = 1..Len(cfg)
      /\ HeadsOK(func, low, cfg) /\ WaitsOK(func, low, cfg) /\ EntriesOK(func, low, cfg)
      /\ ValuesOK(func, low, cfg) /\ JumpsOK(low, cfg) /\ PathsOK(func, low, cfg)
      /\ Growing(func) /\ func.next_id >= 3
  BY <1>1, StageParts
<1>3. Len(s) # 0
  BY <1>1, AllEntered
<1>4. Begun(low, at) /\ Open(low, at) /\ \A b : Begun(low, b)
  BY <1>1, <1>2 DEF Begun, Open
<1>5. /\ r \in Blank(func) /\ p \in Blank(func) /\ Kind(func, r) = "REGION" /\ Kind(func, p) = "PHI"
      /\ s \in Seq(Entry(func))
  BY <1>1, <1>2, <1>4 DEF HeadsOK, WaitsOK, EntriesOK
<1> HIDE DEF d
<1>6. Connects(func, func', r, p)
  <2> HIDE DEF r, p, s
  <2> QED
    BY <1>1, <1>2, <1>3, <1>5, HeadConnects
<1>7. /\ Growing(func') /\ func'.next_id = func.next_id /\ Ids(func') = Ids(func)
      /\ Blank(func') = Blank(func) \ {r, p}
      /\ \A m \in Ids(func) : Kind(func', m) = Kind(func, m)
  BY <1>6 DEF Connects
<1>8. /\ DOMAIN low' = Locals /\ low'.stage = "connect" /\ low'.block = at + 1
      /\ low'.data_map = low.data_map /\ low'.value_map = low.value_map
      /\ low'.end_paths = low.end_paths
  BY <1>1, <1>2 DEF Locals
<1>9. at <= Len(cfg)
  BY <1>1, <1>2
<1>10. Place(low', cfg)
  BY <1>2, <1>8, <1>9 DEF Place, Locals
<1>11. BuiltOK(func', low') /\ CarriesOK(func', low')
  BY <1>2, <1>7, <1>8 DEF BuiltOK, CarriesOK
<1>12. HeadsOK(func', low', cfg)
  BY <1>2, <1>4, <1>7, <1>8 DEF HeadsOK, Heads
<1>13. \A b \in DOMAIN cfg : Open(low', b) <=> Open(low, b) /\ b # at
  <2> TAKE b \in DOMAIN cfg
  <2>1. b \in Nat
    BY ProgramIs
  <2>2. b >= at + 1 <=> b >= at /\ b # at
    BY <1>2, <2>1
  <2> QED
    BY <1>1, <1>8, <2>2 DEF Open
<1>14. WaitsOK(func', low', cfg)
  <2>1. ASSUME NEW n \in Blank(func')
        PROVE  \E b \in DOMAIN cfg :
                 Open(low', b) /\ (n = low'.data_map[b].region \/ n = low'.data_map[b].mem_phi)
    <3>1. n \in Blank(func) /\ n # r /\ n # p
      BY <1>7, <2>1
    <3>2. PICK b \in DOMAIN cfg :
            Open(low, b) /\ (n = low.data_map[b].region \/ n = low.data_map[b].mem_phi)
      BY <1>2, <3>1 DEF WaitsOK
    <3>3. b # at
      BY <3>1, <3>2 DEF d
    <3> QED
      BY <1>8, <1>13, <3>2, <3>3
  <2>2. ASSUME NEW b \in DOMAIN cfg, Open(low', b)
        PROVE  low'.data_map[b].region \in Blank(func') /\ low'.data_map[b].mem_phi \in Blank(func')
    <3>1. Open(low, b) /\ b # at
      BY <1>13, <2>2
    <3>2. low.data_map[b].region \in Blank(func) /\ low.data_map[b].mem_phi \in Blank(func)
      BY <1>2, <3>1 DEF WaitsOK
    <3>3. Kind(func, low.data_map[b].region) = "REGION" /\ Kind(func, low.data_map[b].mem_phi) = "PHI"
      BY <1>2, <1>4 DEF HeadsOK
    <3>4. low.data_map[b].region # r /\ low.data_map[b].mem_phi # p
      BY <1>1, <1>2, <1>4, <3>1 DEF HeadsOK, d
    <3>5. low.data_map[b].region # p /\ low.data_map[b].mem_phi # r
      BY <1>5, <3>3
    <3> QED
      BY <1>7, <1>8, <3>2, <3>4, <3>5
  <2> QED
    BY <2>1, <2>2 DEF WaitsOK
<1>15. EntriesOK(func', low', cfg)
  <2>1. EntriesOK(func', low, cfg)
    BY <1>2, <1>7, EntriesGrow
  <2> QED
    BY <1>8, <2>1 DEF EntriesOK
<1>16. ValuesOK(func', low', cfg) /\ JumpsMade(low, low', cfg)
  <2>1. NoneRuns(low, low', cfg)
    BY <1>1 DEF NoneRuns, Ran
  <2> QED
    BY <1>7, <1>8, <2>1, MapsKept
<1>17. JumpsOK(low', cfg)
  <2>1. Len(low'.data_map[1].ins) # 0
    BY <1>1, <1>2, <1>8 DEF JumpsOK
  <2> QED
    BY <1>8, <1>16, <2>1, JumpsKept
<1>18. PathsOK(func', low', cfg)
  <2>1. low'.end_paths \in Seq(Path(func'))
    <3>1. low.end_paths \in Seq(Path(func))
      BY <1>2 DEF PathsOK
    <3> QED
      BY <1>7, <1>8, <3>1, PathsGrow
  <2> QED
    BY <1>1, <1>2, <1>8, <2>1 DEF PathsOK
<1> QED
  BY <1>10, <1>11, <1>12, <1>14, <1>15, <1>16, <1>17, <1>18 DEF LowOK

(* The graph that the optimizer starts from.                               *)
LEMMA LoweredHeld ==
  ASSUME IsProgram(cfg), LowOK(func, low, cfg), lower_end
  PROVE  low'.stage = "lowered" /\ \E H : Held(func', H) /\ NoEmptyPhi(func', H)
<1> DEFINE e == EndMade(func, low.end_paths)
<1>1. /\ low.stage = "connect" /\ low.block \notin DOMAIN cfg /\ func' = cb_finalize_func(e)
      /\ low' = [low EXCEPT !.stage = "lowered"]
  BY Zenon DEF lower_end, Blocks
<1> HIDE DEF e
<1>2. /\ DOMAIN low = Locals /\ low.block \in Nat \ {0} /\ low.block <= Len(cfg) + 1
      /\ Len(cfg) \in Nat \ {0} /\ DOMAIN cfg = 1..Len(cfg)
      /\ WaitsOK(func, low, cfg) /\ PathsOK(func, low, cfg) /\ Growing(func)
  BY <1>1, StageParts
<1>3. \A b \in DOMAIN cfg : ~(b >= low.block)
  <2> DEFINE k == Len(cfg)
             at == low.block
  <2>1. k \in Nat \ {0} /\ at \in Nat \ {0} /\ at \notin 1..k /\ DOMAIN cfg = 1..k
    BY <1>1, <1>2
  <2> HIDE DEF k, at
  <2>2. \A b \in 1..k : ~(b >= at)
    BY <2>1
  <2> QED
    BY <2>1, <2>2 DEF at
<1>4. Blank(func) = {}
  BY <1>1, <1>2, <1>3 DEF WaitsOK, Open
<1>5. low.end_paths \in Seq(Path(func)) /\ Len(low.end_paths) # 0
  <2>1. \E b \in DOMAIN cfg : Ends(cfg, b)
    BY DEF IsProgram, Ends
  <2> QED
    BY <1>1, <1>2, <2>1 DEF PathsOK
<1>6. Held(e, Ids(e)) /\ NoEmptyPhi(e, Ids(e))
  <2> DEFINE s == low.end_paths
  <2>1. s \in Seq([ctrl : Ids(func), mem : Ids(func), value : Ids(func)]) /\ Len(s) # 0
    BY <1>5 DEF Path
  <2> HIDE DEF s
  <2>2. /\ Held(EndMade(func, s), Ids(EndMade(func, s)))
        /\ NoEmptyPhi(EndMade(func, s), Ids(EndMade(func, s)))
    BY <1>2, <1>4, <2>1, EndIsMade
  <2> QED
    BY <2>2 DEF e, s
<1>7. \E H : Held(func', H) /\ NoEmptyPhi(func', H)
  BY <1>1, <1>6, FinalHeld
<1>8. low'.stage = "lowered"
  BY <1>1, <1>2 DEF Locals
<1> QED
  BY <1>7, <1>8

-----------------------------------------------------------------------------
\* The passes together, and the theorems.

(* Every step of lowering but the last keeps the invariant.                *)
LEMMA InstLowers ==
  ASSUME IsProgram(cfg), LowOK(func, low, cfg), LowerNext, ~lower_end
  PROVE  LowOK(func', low', cfg')
<1>1. cfg' = cfg
  BY DEF LowerNext
<1>2. CASE lower_start
  BY <1>1, <1>2, StartLowers
<1>3. CASE lower_block
  BY <1>1, <1>3, BlockLowers
<1>4. CASE lower_block_end
  BY <1>1, <1>4, BlockEndLowers
<1>5. CASE lower_entry
  BY <1>1, <1>5, EntryLowers
<1>6. CASE lower_connect
  BY <1>1, <1>6, ConnectLowers
<1>7. CASE \/ lower_INT_CONST \/ lower_ADD \/ lower_SUB \/ lower_MUL \/ lower_DIV
           \/ lower_LOAD \/ lower_ALLOCA
  BY <1>1, <1>7, ValuesLower
<1>8. CASE lower_CAST
  BY <1>1, <1>8, CastLowers
<1>9. CASE lower_STORE
  BY <1>1, <1>9, StoreLowers
<1>10. CASE lower_RETURN
  BY <1>1, <1>10, ReturnLowers
<1>11. CASE lower_BRANCH
  BY <1>1, <1>11, BranchLowers
<1>12. CASE lower_GOTO
  BY <1>1, <1>12, GotoLowers
<1> QED
  BY <1>2, <1>3, <1>4, <1>5, <1>6, <1>7, <1>8, <1>9, <1>10, <1>11, <1>12 DEF LowerNext

(* The optimizer before it starts, on a graph that is held.                *)
LEMMA IdleOK ==
  ASSUME NEW f, NEW H, Held(f, H), NoEmptyPhi(f, H), OptInit
  PROVE  OptOK(f, H, opt)
<1>1. /\ opt.phase = "idle" /\ opt.worklist = W!Empty /\ opt.table = {} /\ IsOpt(opt)
  BY DEF OptInit, IsOpt
<1>2. Sound(opt.worklist) /\ Listed(opt.worklist) = {}
  BY <1>1, EmptyLists DEF Lists
<1>3. Kept(H, opt)
  BY <1>1, <1>2 DEF Kept
<1>4. PhaseOK(f, H, opt)
  BY <1>1 DEF PhaseOK, Sweeping
<1> QED
  BY <1>1, <1>2, <1>3, <1>4 DEF OptOK

(* The inductive invariant of the two passes.                              *)
GraphInv == /\ IsProgram(cfg)
            /\ low.stage # "lowered" => LowOK(func, low, cfg) /\ OptInit
            /\ low.stage = "lowered" => \E H : OptOK(func, H, opt)

(* Lowering starts with its invariant.                                     *)
LEMMA LowerStarts ==
  ASSUME LowerInit(Programs)
  PROVE  IsProgram(cfg) /\ LowOK(func, low, cfg) /\ low.stage = "start"
<1>1. IsProgram(cfg)
  BY ProgramAssumption DEF LowerInit
<1>2. /\ DOMAIN low = Locals /\ low.stage = "start" /\ low.block = 1 /\ low.value_map = <<>>
      /\ low.end_paths = <<>> /\ func = cb_new_func
      /\ low.data_map = [b \in DOMAIN cfg |-> [region |-> Nil, mem_phi |-> Nil, ins |-> <<>>]]
  BY DEF LowerInit, Locals, Blocks
<1>3. DOMAIN cfg = 1..Len(cfg) /\ Len(cfg) \in Nat \ {0}
  BY <1>1 DEF IsProgram
<1>4. \A b \in DOMAIN cfg : /\ DOMAIN low.data_map[b] = {"region", "mem_phi", "ins"}
                            /\ low.data_map[b].ins = <<>>
  BY <1>2
<1>5. DOMAIN low.data_map = DOMAIN cfg /\ DOMAIN low.value_map = {}
  BY <1>2
<1>6. \A b \in DOMAIN cfg : /\ b \in Nat \ {0} /\ ~Begun(low, b) /\ ~Open(low, b)
                            /\ \A i \in DOMAIN cfg[b] : ~Ran(low, b, i)
  <2> TAKE b \in DOMAIN cfg
  <2>1. b \in Nat \ {0}
    BY <1>1, ProgramIs
  <2> QED
    BY <1>2, <2>1 DEF Begun, Open, Ran
<1>7. Ids(func) = {} /\ Blank(func) = {}
  BY <1>2 DEF cb_new_func, Ids, Blank
<1>8. Place(low, cfg)
  <2>1. low.block \in Nat \ {0} /\ low.block <= Len(cfg) + 1
    BY <1>2, <1>3
  <2> QED
    BY <1>2, <2>1 DEF Place, Locals
<1>9. BuiltOK(func, low) /\ CarriesOK(func, low)
  BY <1>2 DEF BuiltOK, CarriesOK
<1>10. HeadsOK(func, low, cfg)
  BY <1>4, <1>5, <1>6 DEF HeadsOK, Heads
<1>11. WaitsOK(func, low, cfg)
  BY <1>6, <1>7 DEF WaitsOK
<1>12. EntriesOK(func, low, cfg)
  <2>1. <<>> \in Seq(Entry(func))
    OBVIOUS
  <2> QED
    BY <1>4, <2>1 DEF EntriesOK
<1>13. ValuesOK(func, low, cfg)
  BY <1>5, <1>6 DEF ValuesOK
<1>14. JumpsOK(low, cfg)
  BY <1>2, <1>6 DEF JumpsOK
<1>15. PathsOK(func, low, cfg)
  <2>1. <<>> \in Seq(Path(func))
    OBVIOUS
  <2>2. \A b \in DOMAIN cfg : ~(low.stage = "connect" \/ b < low.block)
    BY <1>2, <1>6
  <2> QED
    BY <1>2, <2>1, <2>2 DEF PathsOK
<1> QED
  BY <1>1, <1>2, <1>8, <1>9, <1>10, <1>11, <1>12, <1>13, <1>14, <1>15 DEF LowOK

(* The invariant holds at the start.                                       *)
LEMMA GraphInvStarts ==
  ASSUME Init
  PROVE  GraphInv
BY LowerStarts DEF Init, GraphInv

(* Each step of the passes keeps the invariant.                            *)
LEMMA GraphInvStays ==
  ASSUME GraphInv, [Next]_vars
  PROVE  GraphInv'
<1>1. CASE low.stage # "lowered" /\ LowerNext /\ UNCHANGED opt
  <2>1. IsProgram(cfg) /\ LowOK(func, low, cfg) /\ OptInit /\ opt' = opt /\ cfg' = cfg
    BY <1>1 DEF GraphInv, LowerNext
  <2>2. CASE lower_end
    <3>1. low'.stage = "lowered"
      BY <2>1, <2>2, LoweredHeld
    <3>2. PICK H : Held(func', H) /\ NoEmptyPhi(func', H)
      BY <2>1, <2>2, LoweredHeld
    <3>3. OptOK(func', H, opt)
      BY <2>1, <3>2, IdleOK
    <3>4. OptOK(func', H, opt')
      BY <2>1, <3>3
    <3> QED
      BY <2>1, <3>1, <3>4 DEF GraphInv
  <2>3. CASE ~lower_end
    <3>1. LowOK(func', low', cfg')
      BY <1>1, <2>1, <2>3, InstLowers
    <3>2. low'.stage # "lowered"
      BY <3>1 DEF LowOK, Place
    <3>3. OptInit'
      BY <2>1 DEF OptInit
    <3> QED
      BY <2>1, <3>1, <3>2, <3>3 DEF GraphInv
  <2> QED
    BY <2>2, <2>3
<1>2. CASE low.stage = "lowered" /\ OptNext /\ UNCHANGED <<cfg, low>>
  <2>1. PICK H : OptOK(func, H, opt)
    BY <1>2 DEF GraphInv
  <2>2. \E G : OptOK(func', G, opt')
    BY <1>2, <2>1, OptStep
  <2> QED
    BY <1>2, <2>2 DEF GraphInv
<1>3. CASE UNCHANGED vars
  <2>1. cfg' = cfg /\ func' = func /\ low' = low /\ opt' = opt
    BY <1>3 DEF vars
  <2>2. OptInit => OptInit'
    BY <2>1 DEF OptInit
  <2> QED
    BY <2>1, <2>2 DEF GraphInv
<1> QED
  BY <1>1, <1>2, <1>3 DEF Next

(* The invariant holds always.                                             *)
LEMMA GraphInvHolds == Spec => []GraphInv
<1>1. Init => GraphInv
  BY GraphInvStarts
<1>2. GraphInv /\ [Next]_vars => GraphInv'
  BY GraphInvStays
<1> QED
  BY <1>1, <1>2, PTL DEF Spec

-----------------------------------------------------------------------------
(* Optimization is under way only after lowering.                          *)
LEMMA UnderWay ==
  ASSUME GraphInv
  PROVE  /\ opt.phase # "idle" => low.stage = "lowered"
         /\ low.stage = "lowered" => \E H : OptOK(func, H, opt)
<1>1. OptInit => opt.phase = "idle"
  BY DEF OptInit
<1> QED
  BY <1>1 DEF GraphInv

(* For every program, once it is lowered and whatever opt.c has done so    *)
(* far, the use lists of the live graph are its inputs read backwards      *)
(* (core.c:59, opt.c:262).                                                 *)
THEOREM UsesAreInputsHolds == Spec => []UsesAreInputs
<1>1. GraphInv => UsesAreInputs
  <2> SUFFICES ASSUME GraphInv, Lowered PROVE UsesMatchIns(func)
    BY DEF UsesAreInputs
  <2>1. PICK H : OptOK(func, H, opt)
    BY UnderWay DEF Lowered
  <2>2. IsGraph(func) /\ Matched(func, H) /\ func.end \in H
    BY <2>1, OptParts
  <2> QED
    BY <2>2, MatchedMeans
<1> QED
  BY <1>1, GraphInvHolds, PTL

(* For every program, between two peepholes and at the end, each live node *)
(* waits on the worklist or is in the value table: opt_func leaves no node *)
(* unlooked at (opt.c:326).                                                *)
THEOREM EachNodeIsHeldHolds == Spec => []EachNodeIsHeld
<1>1. GraphInv => EachNodeIsHeld
  <2> SUFFICES ASSUME GraphInv, Settled PROVE Live(func) \subseteq Queued \cup opt.table
    BY DEF EachNodeIsHeld
  <2>1. opt.phase # "idle" /\ Underway(opt) = {}
    BY DEF Settled, Underway
  <2>2. PICK H : OptOK(func, H, opt)
    BY <2>1, UnderWay
  <2>3. H \subseteq Listed(opt.worklist) \cup opt.table
    BY <2>1, <2>2 DEF OptOK, Kept
  <2>4. Live(func) \subseteq H
    BY <2>2, LiveHeld DEF OptOK
  <2> QED
    BY <2>3, <2>4 DEF Listed, Queued
<1> QED
  BY <1>1, GraphInvHolds, PTL

(* For every program, the assertions about forwarding hold where they are  *)
(* evaluated: it meets phis and stores only, all inputs of a phi are       *)
(* mapped before they are read (opt.c:213, 235), and each new phi gets its *)
(* inputs once, as many as its region has (core.c:28, 205).                *)
THEOREM ForwardingHoldsHolds == Spec => []ForwardingHolds
<1>1. GraphInv => ForwardingHolds
  <2> DEFINE n == Last(opt.stack).node
  <2> SUFFICES ASSUME GraphInv, opt.phase = "forward", opt.stack # <<>>
               PROVE  /\ Kind(func, n) \in {"PHI", "STORE"}
                      /\ Last(opt.stack).processed =>
                           /\ \A i \in DOMAIN Values(n) : Mapped(Values(n)[i])
                           /\ func.node[opt.map[n]].ins = <<>>
                           /\ Len(Values(n)) = Len(func.node[In(func, n, 1)].ins)
    BY DEF ForwardingHolds
  <2>1. PICK H : OptOK(func, H, opt)
    BY UnderWay
  <2>2. Kind(func, n) \in {"PHI", "STORE"}
    <3>1. Effects(func, H, opt.visited, {}) /\ Items(opt)
      BY <2>1, ForwardParts
    <3>2. n \in opt.visited
      BY <3>1, TopItem
    <3> QED
      BY <3>1, <3>2 DEF Effects
  <2>3. ASSUME Last(opt.stack).processed
        PROVE  /\ \A i \in DOMAIN Values(n) : Mapped(Values(n)[i])
               /\ func.node[opt.map[n]].ins = <<>>
               /\ Len(Values(n)) = Len(func.node[In(func, n, 1)].ins)
    <3>1. /\ Finishes(func, H, opt, n, opt.map[n], In(func, n, 1), PhiValues(n))
          /\ \A i \in DOMAIN Values(n) : Mapped(Values(n)[i])
          /\ Len(Values(n)) = Len(Ins(func, In(func, n, 1)))
      BY <2>1, <2>3, PhiFinishes
    <3> DEFINE p == opt.map[n]
    <3>2. p \in H /\ Len(Ins(func, p)) = 0
      BY <3>1 DEF Finishes
    <3>3. p \in Ids(func) /\ IsGraph(func)
      BY <2>1, <3>2, OptParts
    <3> HIDE DEF p
    <3>4. Ins(func, p) \in Seq(Ids(func) \cup {Nil})
      BY <3>3, NodeTypes
    <3>5. Ins(func, p) = <<>>
      BY <3>2, <3>4, EmptySeq
    <3> QED
      BY <3>1, <3>5 DEF Ins, p
  <2> QED
    BY <2>2, <2>3
<1> QED
  BY <1>1, GraphInvHolds, PTL

(* For every program, a node that stays in the value table keeps what it   *)
(* was hashed by, so the table finds it again (gvn.c:9, opt.c:313).        *)
THEOREM KeysStayHolds == Spec => KeysStay
<1> DEFINE Stay == \A n \in opt.table \cap opt'.table : Contents(func')[n] = Contents(func)[n]
<1>1. GraphInv /\ [Next]_vars => [Stay]_vars
  <2> SUFFICES ASSUME GraphInv, Next PROVE Stay
    OBVIOUS
  <2>1. CASE low.stage # "lowered" /\ LowerNext /\ UNCHANGED opt
    <3>1. opt.table = {}
      BY <2>1 DEF GraphInv, OptInit
    <3> QED
      BY <3>1
  <2>2. CASE low.stage = "lowered" /\ OptNext /\ UNCHANGED <<cfg, low>>
    <3>1. PICK H : OptOK(func, H, opt)
      BY <2>2 DEF GraphInv
    <3>2. PICK G : OptOK(func', G, opt')
      BY <2>2, <3>1, OptStep
    <3> SUFFICES ASSUME NEW n \in opt.table \cap opt'.table
                 PROVE  Contents(func')[n] = Contents(func)[n]
      OBVIOUS
    <3>3. KeyStays(func, func', n)
      BY <2>2, <3>1, OptKeeps
    <3>4. n \in Ids(func)
      BY <3>1, OptParts
    <3>5. n \in Ids(func')
      BY <3>2, OptParts
    <3> QED
      BY <3>3, <3>4, <3>5 DEF KeyStays, Contents, Ins, Kind
  <2> QED
    BY <2>1, <2>2 DEF Next
<1> QED
  BY <1>1, GraphInvHolds, PTL DEF Spec, KeysStay
==============================================================================
