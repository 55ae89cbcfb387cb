----------------------------- MODULE MCWorklist -----------------------------
(* TLC's instance of Worklist: ids with a gap, so that sparse is padded by *)
(* more than one entry and holds entries no node ever uses.                *)
EXTENDS Worklist

NodeIds == {0, 2, 3, 5}
=============================================================================
