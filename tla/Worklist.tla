------------------------------ MODULE Worklist ------------------------------
(***************************************************************************)
(* The worklist of src/cringe/back/opt.c: a sparse set.  "packed" is the   *)
(* vector of its nodes, "sparse" maps a node's id to its index in packed,  *)
(* Absent where it has none.  A node is its id; the vectors are sequences, *)
(* so the C index i is the TLA+ index i + 1.                               *)
(***************************************************************************)
EXTENDS Integers, Sequences

CONSTANTS Node, NoNode

ASSUME NodeAssumption == Node \subseteq Nat /\ NoNode \notin Node

VARIABLES w,       \* the worklist: [packed, sparse]
          popped   \* the node worklist_pop returned last

vars == <<w, popped>>

Absent == -1

Empty == [packed |-> <<>>, sparse |-> <<>>]

\* Grown by the loop of worklist_add until it has an entry for id.
Padded(sparse, id) ==
  IF id < Len(sparse) THEN sparse
  ELSE sparse \o [i \in 1..(id + 1 - Len(sparse)) |-> Absent]

Holds(l, id) == id < Len(l.sparse) /\ l.sparse[id + 1] # Absent

\* Mutated: no test for a node that is already there.
Added_twice(l, id) ==
  [packed |-> Append(l.packed, id),
   sparse |-> [Padded(l.sparse, id) EXCEPT ![id + 1] = Len(l.packed)]]

Added(l, id) ==
  LET sparse == Padded(l.sparse, id) IN
  IF sparse[id + 1] # Absent THEN [l EXCEPT !.sparse = sparse]
  ELSE [packed |-> Append(l.packed, id),
        sparse |-> [sparse EXCEPT ![id + 1] = Len(l.packed)]]

\* The last node takes the place of the removed one; sparse[last] is written
\* before sparse[id], which matters when they are the same node.
Removed(l, id) ==
  IF ~Holds(l, id) THEN l
  ELSE LET index == l.sparse[id + 1]
           last  == l.packed[Len(l.packed)]
       IN [packed |-> [i \in 1..(Len(l.packed) - 1) |->
                         IF i = index + 1 THEN last ELSE l.packed[i]],
           sparse |-> [[l.sparse EXCEPT ![last + 1] = index]
                                 EXCEPT ![id + 1] = Absent]]

Top(l) == l.packed[Len(l.packed)]

\* Mutated: the index of the popped node stays.
Popped_indexed(l) ==
  [packed |-> SubSeq(l.packed, 1, Len(l.packed) - 1), sparse |-> l.sparse]

Popped(l) ==
  [packed |-> SubSeq(l.packed, 1, Len(l.packed) - 1),
   sparse |-> [l.sparse EXCEPT ![Top(l) + 1] = Absent]]

-----------------------------------------------------------------------------
Init == w = Empty /\ popped = NoNode

worklist_add(n)    == w' = Added(w, n) /\ UNCHANGED popped
worklist_remove(n) == w' = Removed(w, n) /\ UNCHANGED popped
worklist_pop       == w.packed # <<>> /\ w' = Popped(w) /\ popped' = Top(w)
reset_context      == w' = Empty /\ UNCHANGED popped

Next == \/ worklist_pop
        \/ reset_context
        \/ \E n \in Node : worklist_add(n) \/ worklist_remove(n)

Spec == Init /\ [][Next]_vars

-----------------------------------------------------------------------------
TypeOK == /\ w \in [packed : Seq(Node), sparse : Seq(Nat \cup {Absent})]
          /\ popped \in Node \cup {NoNode}

(* Every entry of packed is found again through sparse: no node of the     *)
(* worklist is lost to the duplicate test of worklist_add or out of the    *)
(* reach of worklist_remove.                                               *)
PackedIsIndexed ==
  \A i \in 1..Len(w.packed) :
    /\ w.packed[i] + 1 \in 1..Len(w.sparse)
    /\ w.sparse[w.packed[i] + 1] = i - 1

(* Every index in sparse points at the node it belongs to: after the swap  *)
(* of worklist_remove no node is taken to be where another one is.         *)
SparseIsExact ==
  \A j \in 1..Len(w.sparse) :
    w.sparse[j] # Absent =>
      /\ w.sparse[j] + 1 \in 1..Len(w.packed)
      /\ w.packed[w.sparse[j] + 1] = j - 1

Elements(l) == {l.packed[i] : i \in 1..Len(l.packed)}

Members == Elements(w)

(* The sparse set implements a set of nodes: no node is handed out that    *)
(* was removed, none is handed out twice, and none is lost.                *)
Set == INSTANCE NodeSet WITH members <- Members

ImplementsNodeSet == Set!Spec
=============================================================================
