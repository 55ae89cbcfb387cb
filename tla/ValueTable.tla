----------------------------- MODULE ValueTable -----------------------------
(***************************************************************************)
(* What global value numbering promises the optimizer                      *)
(* (src/cringe/back/gvn.c): gvn_get returns a node identical to the one it *)
(* is given, the same one for as long as it stays in the table, and puts   *)
(* the given node in the table when it knows none.                         *)
(***************************************************************************)
CONSTANTS Node,      \* the nodes
          Content,   \* what two nodes must share to be identical
          NoNode

VARIABLES entries,   \* the nodes in the table
          content,   \* the content of each node
          result     \* what the last gvn_get returned

vars == <<entries, content, result>>

Init == /\ entries = {}
        /\ content \in [Node -> Content]
        /\ result = NoNode

Identical(n) == {m \in entries : content[m] = content[n]}

Get(n) ==
  /\ IF Identical(n) = {}
       THEN entries' = entries \cup {n} /\ result' = n
       ELSE result' \in Identical(n) /\ UNCHANGED entries
  /\ UNCHANGED content

Remove(n) == entries' = entries \ {n} /\ UNCHANGED <<content, result>>

Clear == entries' = {} /\ UNCHANGED <<content, result>>

\* Only a node that is not in the table may change.
Mutate(n, c) == /\ n \notin entries
                /\ content' = [content EXCEPT ![n] = c]
                /\ UNCHANGED <<entries, result>>

Next == \/ Clear
        \/ \E n \in Node : Get(n) \/ Remove(n) \/ \E c \in Content : Mutate(n, c)

Spec == Init /\ [][Next]_vars
=============================================================================
