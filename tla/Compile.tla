------------------------------- MODULE Compile ------------------------------
(***************************************************************************)
(* What lowering and the optimizer promise together: the graph does what   *)
(* the source says, nothing removed comes back, and they end.              *)
(***************************************************************************)
EXTENDS Passes, Semantics

CONSTANT MaxTests   \* bound: the branches a trace decides

(* Lowering, every peephole and every round of dead store elimination      *)
(* leave a graph that tests and returns what the source does, whatever     *)
(* branches are taken: loads are forwarded from the right stores through   *)
(* the phis of loops, and no store goes that a load could observe.         *)
Decisions == [1..MaxTests -> BOOLEAN]

SemanticsKept ==
  Lowered /\ opt.phase \in {"idle", "peepholes", "done"} =>
    \A d \in Decisions : GraphTrace(func, d) = SourceTrace(cfg, d)

(* No node that was removed is on the worklist or in the value table, from *)
(* where it could come back into the graph (opt.c:280-304).                *)
NothingRemovedIsKept == Settled => Queued \cup opt.table \subseteq Live(func)

(* When the optimizer ends, a store that is left is observed: some load    *)
(* reads memory that the store has gone into.                              *)
ReachedFrom(n) ==
  LET Turn(S, i) == S \cup {m \in Live(func) :
                              \E j \in DOMAIN func.node[m].ins :
                                /\ In(func, m, j) \in S
                                /\ j = Mem \/ Kind(func, m) = "PHI"}
  IN FoldLeft(Turn, {n}, [i \in 1..Cardinality(Live(func)) |-> i])

EndsWithoutDeadStores ==
  opt.phase = "done" =>
    \A n \in Live(func) :
      Kind(func, n) = "STORE" => \E m \in ReachedFrom(n) : Kind(func, m) = "LOAD"

(* The assertions of opt.c where they are evaluated: those of forwarding,  *)
(* and a phi has an input other than itself (opt.c:109), a node is not     *)
(* replaced by itself (307), a removed node has no uses (286) and is among *)
(* the uses of its inputs (276).                                           *)
AssertionsHold ==
  /\ ForwardingHolds
  /\ opt.phase = "peepholes" /\ opt.worklist.packed # <<>> /\ Kind(func, Popped) = "PHI"
       => PhiInputs(Popped) # {}
  /\ opt.phase = "replace" => opt.target # opt.source
  /\ opt.phase = "remove" /\ opt.stack # <<>>
       => LET n == Last(opt.stack) IN
          /\ func.node[n].uses = <<>>
          /\ \A i \in DOMAIN func.node[n].ins :
               In(func, n, i) # Nil =>
                 [node |-> n, index |-> i] \in ToSet(func.node[In(func, n, i)].uses)

(* The peepholes and the rounds of cb_opt_func's loop come to an end.      *)
Terminates == <>(opt.phase = "done")
=============================================================================
