------------------------------ MODULE NodeSet ------------------------------
(***************************************************************************)
(* What the optimizer's worklist promises (src/cringe/back/opt.c): a set   *)
(* of nodes.  Adding twice is adding once, popping hands out some member   *)
(* and takes it out, and a removed node is never handed out.               *)
(***************************************************************************)
CONSTANTS Node,      \* the nodes, by id
          NoNode     \* what "popped" holds before a pop

VARIABLES members,   \* the nodes in the worklist
          popped     \* the node the last pop returned

vars == <<members, popped>>

Init == members = {} /\ popped = NoNode

Add(n)    == members' = members \cup {n} /\ UNCHANGED popped
Remove(n) == members' = members \ {n} /\ UNCHANGED popped
Pop(n)    == n \in members /\ members' = members \ {n} /\ popped' = n
Clear     == members' = {} /\ UNCHANGED popped

Next == Clear \/ \E n \in Node : Add(n) \/ Remove(n) \/ Pop(n)

Spec == Init /\ [][Next]_vars
=============================================================================
