------------------------------ MODULE GvnTable ------------------------------
(***************************************************************************)
(* The value table of src/cringe/back/gvn.c: open addressing with linear   *)
(* probing, tombstones, and growth when "count" passes half the capacity.  *)
(* A node's content stands for what hash_node and nodes_ident read (flags, *)
(* kind, inputs, data); Hash gives its hash.  gvn_get is one action, or,   *)
(* when it grows the table, one action per slot it moves.                  *)
(***************************************************************************)
EXTENDS Integers

CONSTANTS Node, Content, NoNode,
          Hash,             \* [Content -> Nat]
          InitialCapacity,  \* 8 in gvn_get
          MaxCapacity,      \* bound: growth stops here
          NULL, TOMBSTONE   \* what a slot without a node holds

ASSUME HashAssumption == Hash \in [Content -> Nat]

ASSUME CapacityAssumption == InitialCapacity \in Nat \ {0} /\ MaxCapacity \in Nat

ASSUME MarkAssumption == /\ NULL \notin Node /\ TOMBSTONE \notin Node
                         /\ NULL # TOMBSTONE /\ NoNode \notin Node

VARIABLES t,         \* the table: [capacity, count, slot]
          content,   \* the content of each node
          result,    \* what the last gvn_get returned
          mode,      \* "idle", "grow" (moving slots) or "lookup" (after growth)
          arg,       \* the node of the gvn_get under way
          old,       \* the table being replaced
          next,      \* the slot of old to be moved next
          fault      \* gvn_get has indexed the table with INT32_MAX

call == <<mode, arg, old, next>>
vars == <<t, content, result, mode, arg, old, next, fault>>

Slots(tab) == 0..(tab.capacity - 1)

Live(tab) == {tab.slot[s] : s \in Slots(tab)} \cap Node

Calloc(n) == [capacity |-> n, count |-> 0, slot |-> [s \in 0..(n - 1) |-> NULL]]

\* The slot the probe of content c visits in its turn j.
Probe(tab, c, j) == (Hash[c] + j) % tab.capacity

\* Mutated: equal hashes are taken for equal contents.
nodes_ident_hash(m, n, by_ptr) ==
  m = n \/ (~by_ptr /\ Hash[content[m]] = Hash[content[n]])

nodes_ident(m, n, by_ptr) == m = n \/ (~by_ptr /\ content[m] = content[n])

\* The turns at which find stops, and those at which it could insert.
Empties(tab, n) == {j \in Slots(tab) : tab.slot[Probe(tab, content[n], j)] \in {NULL, TOMBSTONE}}

Stops(tab, n, by_ptr) ==
  {j \in Slots(tab) :
     LET m == tab.slot[Probe(tab, content[n], j)] IN
     m = NULL \/ (m \in Node /\ nodes_ident(m, n, by_ptr))}

Least(S) == CHOOSE i \in S : \A j \in S : i <= j

NotFound == -1   \* INT32_MAX in the code: no index of any table

\* Mutated: the first free slot ends the probe, a tombstone too.
find_first_free(tab, n, by_ptr) ==
  LET stops == Stops(tab, n, by_ptr) \cup Empties(tab, n)
  IN IF stops = {} THEN NotFound ELSE Probe(tab, content[n], Least(stops))

\* find: the slot of an identical node if one comes before the first NULL,
\* else the first slot free for it; NotFound when the probe meets neither a
\* NULL nor an identical node, even if it passed a tombstone.
find(tab, n, by_ptr) ==
  LET stops == Stops(tab, n, by_ptr)
      j     == Least(stops)
  IN IF stops = {} THEN NotFound
     ELSE Probe(tab, content[n],
                IF tab.slot[Probe(tab, content[n], j)] \in Node THEN j
                ELSE Least(Empties(tab, n)))

-----------------------------------------------------------------------------
Init == /\ t = Calloc(0)
        /\ content \in [Node -> Content]
        /\ result = NoNode
        /\ mode = "idle" /\ arg = NoNode /\ old = Calloc(0) /\ next = 0
        /\ fault = FALSE

NeedsGrowth == t.capacity = 0 \/ 2 * t.count > t.capacity

NewCapacity == IF t.capacity = 0 THEN InitialCapacity ELSE t.capacity * 2

Inserted(tab, idx, n) == [capacity |-> tab.capacity, count |-> tab.count + 1,
                          slot |-> [tab.slot EXCEPT ![idx] = n]]

\* The end of gvn_get: look n up, insert it in the slot found if that is free.
Lookup(n) ==
  LET idx == find(t, n, FALSE) IN
  IF idx = NotFound
    THEN fault' = TRUE /\ UNCHANGED <<t, result>>
    ELSE /\ IF t.slot[idx] \in {NULL, TOMBSTONE}
              THEN t' = Inserted(t, idx, n) /\ result' = n
              ELSE result' = t.slot[idx] /\ UNCHANGED t
         /\ UNCHANGED fault

gvn_get(n) == /\ mode = "idle" /\ ~fault /\ ~NeedsGrowth
              /\ Lookup(n)
              /\ UNCHANGED <<content, call>>

gvn_get_grow(n) == /\ mode = "idle" /\ ~fault /\ NeedsGrowth
                   /\ NewCapacity <= MaxCapacity
                   /\ old' = t /\ t' = Calloc(NewCapacity)
                   /\ mode' = "grow" /\ arg' = n /\ next' = 0
                   /\ UNCHANGED <<content, result, fault>>

gvn_get_move ==
  /\ mode = "grow" /\ ~fault
  /\ IF next = old.capacity
       THEN mode' = "lookup" /\ UNCHANGED <<t, next, fault>>
       ELSE LET m   == old.slot[next]
                idx == find(t, m, TRUE)
            IN /\ IF m \notin Node
                     THEN next' = next + 1 /\ UNCHANGED <<t, fault>>
                   ELSE IF idx = NotFound
                     THEN fault' = TRUE /\ UNCHANGED <<t, next>>
                   ELSE t' = Inserted(t, idx, m) /\ next' = next + 1 /\ UNCHANGED fault
               /\ UNCHANGED mode
  /\ UNCHANGED <<content, result, arg, old>>

gvn_get_end == /\ mode = "lookup" /\ ~fault
               /\ Lookup(arg)
               /\ mode' = "idle" /\ arg' = NoNode /\ old' = Calloc(0) /\ next' = 0
               /\ UNCHANGED content

\* Mutated: the slot becomes NULL.
gvn_remove_null(n) ==
  LET x == find(t, n, TRUE) IN
  /\ mode = "idle" /\ ~fault
  /\ t' = IF x = NotFound THEN t ELSE [t EXCEPT !.slot[x] = NULL]
  /\ UNCHANGED <<content, result, call, fault>>

\* find(by_ptr) of a node that is not in the table returns a free slot, and
\* gvn_remove marks that slot too.
gvn_remove(n) ==
  LET x == find(t, n, TRUE) IN
  /\ mode = "idle" /\ ~fault
  /\ t' = IF x = NotFound THEN t ELSE [t EXCEPT !.slot[x] = TOMBSTONE]
  /\ UNCHANGED <<content, result, call, fault>>

gvn_clear == /\ mode = "idle" /\ ~fault
             /\ t' = Calloc(t.capacity)
             /\ UNCHANGED <<content, result, call, fault>>

\* opt.c: replace_node takes a user out of the table before it rewrites the
\* user's input; a new phi is filled in before its first gvn_get.
mutate(n, c) == /\ mode = "idle" /\ ~fault
                /\ n \notin Live(t)
                /\ content' = [content EXCEPT ![n] = c]
                /\ UNCHANGED <<t, result, call, fault>>

Next == \/ gvn_get_move \/ gvn_get_end \/ gvn_clear
        \/ \E n \in Node : \/ gvn_get(n) \/ gvn_get_grow(n) \/ gvn_remove(n)
                           \/ \E c \in Content : mutate(n, c)

Spec == Init /\ [][Next]_vars

-----------------------------------------------------------------------------
Shaped(tab) == /\ tab.capacity \in Nat /\ tab.count \in Nat
               /\ tab.slot \in [Slots(tab) -> Node \cup {NULL, TOMBSTONE}]
               /\ tab = [capacity |-> tab.capacity, count |-> tab.count, slot |-> tab.slot]

TypeOK == /\ Shaped(t) /\ Shaped(old)
          /\ content \in [Node -> Content]
          /\ result \in Node \cup {NoNode}
          /\ mode \in {"idle", "grow", "lookup"}
          /\ arg \in Node \cup {NoNode} /\ (mode # "idle" => arg \in Node)
          /\ next \in Nat /\ (mode = "grow" => next <= old.capacity)
          /\ fault \in BOOLEAN

\* The probe for content c comes to slot s and meets no NULL before it.
Reaches(tab, c, s) ==
  \E j \in Slots(tab) :
    /\ Probe(tab, c, j) = s
    /\ \A i \in 0..(j - 1) : tab.slot[Probe(tab, c, i)] # NULL

(* A node in the table is met by the probe of its content before any NULL: *)
(* neither gvn_remove nor gvn_get can miss it.  This is what tombstones    *)
(* are for, and it fails when a node changes while it is in the table.     *)
EntriesAreReachable ==
  \A s \in Slots(t) : t.slot[s] \in Node => Reaches(t, content[t.slot[s]], s)

(* No two slots hold identical nodes, whatever was removed and inserted in *)
(* between: gvn_get always gives one representative.                       *)
NoTwoIdentical ==
  \A r, s \in Slots(t) :
    /\ t.slot[r] \in Node /\ t.slot[s] \in Node
    /\ content[t.slot[r]] = content[t.slot[s]]
    => r = s

(* What gvn_get returns has the content of the node it was given (the last *)
(* step of a call, and a call that finds the table big enough).            *)
GetReturnsIdentical ==
  [][\A n \in Node :
       (\/ gvn_get(n)
        \/ n = arg /\ gvn_get_end) /\ ~fault'
       => content[result'] = content[n] /\ result' \in Live(t)']_vars

\* The entries still to be moved while the table grows.
Unmoved == IF mode = "grow" THEN {old.slot[s] : s \in next..(old.capacity - 1)} \cap Node
           ELSE {}

(* The table, in the middle of its growth too, is a table of values.       *)
Values == INSTANCE ValueTable WITH entries <- Live(t) \cup Unmoved

ImplementsValueTable == Values!Spec

(* gvn.c:5 and the test of gvn_get (gvn.c:76) keep the table at most half  *)
(* full, so that a lookup always ends at a slot of the table.              *)
GetFindsSlot == ~fault
=============================================================================
