----------------------------- MODULE MCGvnTable -----------------------------
(* TLC's instances of GvnTable: contents that collide and contents that    *)
(* wrap around the end of the table.                                       *)
EXTENDS GvnTable, TLC

Contents == 1..3
Colliding == [c \in Contents |-> <<0, 0, 3>>[c]]

Symmetric == Permutations(Node)

SpreadContents == 0..7
Spread == [c \in SpreadContents |-> c]
=============================================================================
