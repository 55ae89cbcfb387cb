------------------------------ MODULE Optimizer -----------------------------
(***************************************************************************)
(* cb_opt_func of src/cringe/back/opt.c.  Peepholes run until the worklist *)
(* is empty, then dead stores are eliminated, and both are repeated while  *)
(* that put nodes on the worklist.  The loops that walk the graph with     *)
(* opt->stack, or that move uses, take one action for each turn: phase     *)
(* says which loop is under way.                                           *)
(*                                                                         *)
(* The worklist is the one of Worklist.  The value table is the set of     *)
(* its entries (GvnTable shows that gvn.c implements it).                  *)
(***************************************************************************)
EXTENDS SeaOfNodes

VARIABLE opt   \* cb_opt_context_t, and the locals of the loops under way

W == INSTANCE Worklist WITH Node <- Nat, NoNode <- Nil, w <- opt.worklist, popped <- opt.node

(* What hash_node and nodes_ident read of a node (gvn.c:9-36).             *)
Contents(f) == [n \in Ids(f) |-> [flags |-> f.node[n].flags, kind |-> Kind(f, n),
                                  ins |-> f.node[n].ins, data |-> f.node[n].data]]

V == INSTANCE ValueTable WITH Node <- Nat, Content <- {}, NoNode <- Nil,
                              entries <- opt.table, content <- Contents(func), result <- opt.ideal

Add(l, n) == W!Added(l, n)

OptInit == opt = [phase |-> "idle", worklist |-> W!Empty, table |-> {}, stack |-> <<>>,
                  node |-> Nil, ideal |-> Nil, visited |-> {}, map |-> <<>>,
                  target |-> Nil, source |-> Nil, back |-> "peepholes",
                  states |-> {}, stores |-> <<>>]

In_phase(p) == opt.phase = p

\* reset_context, and the walk whose nodes all go on the worklist.
cb_opt_func ==
  /\ In_phase("idle")
  /\ opt' = [opt EXCEPT !.phase = "fill", !.worklist = W!Empty, !.table = {},
                        !.stack = func_walk_unspecified_order(func)]
  /\ UNCHANGED func

opt_fill ==
  /\ In_phase("fill")
  /\ opt' = IF opt.stack = <<>> THEN [opt EXCEPT !.phase = "peepholes"]
             ELSE [opt EXCEPT !.worklist = Add(@, Head(opt.stack)), !.stack = Tail(@)]
  /\ UNCHANGED func

-----------------------------------------------------------------------------
(* peepholes: the node popped is taken out of the value table, idealized,  *)
(* looked up, and replaced if that gave another node.                      *)
Popped == W!Top(opt.worklist)

Pop(kinds) == /\ In_phase("peepholes") /\ opt.worklist.packed # <<>>
              /\ Kind(func, Popped) \in kinds

Idealized(ideal) ==
  [opt EXCEPT !.phase = "number", !.node = Popped, !.ideal = ideal,
              !.worklist = W!Popped(@), !.table = @ \ {Popped}]

PhiInputs(n) == {In(func, n, i) : i \in 2..Len(func.node[n].ins)} \ {n}

peephole_phi ==
  /\ Pop({"PHI"})
  /\ LET inputs == PhiInputs(Popped) IN
     opt' = IF Cardinality(inputs) = 1
              THEN [Idealized(CHOOSE x \in inputs : TRUE)
                      EXCEPT !.worklist = Add(@, In(func, Popped, 1))]
              ELSE Idealized(Popped)
  /\ UNCHANGED func

RegionIdeal(n) ==
  IF \/ Len(func.node[n].ins) > 1
     \/ \E u \in ToSet(func.node[n].uses) : Kind(func, u.node) = "PHI"
    THEN n ELSE In(func, n, 1)

peephole_region == /\ Pop({"REGION"})
                   /\ opt' = Idealized(RegionIdeal(Popped))
                   /\ UNCHANGED func

\* idealize_table has no entry for these.
peephole_other == /\ Pop(Kinds \ {"PHI", "REGION", "LOAD"})
                  /\ opt' = Idealized(Popped)
                  /\ UNCHANGED func

\* idealize_load starts at the memory the load reads.
peephole_load ==
  /\ Pop({"LOAD"})
  /\ opt' = [Idealized(Popped) EXCEPT !.phase = "effects", !.visited = {},
                                      !.stack = <<In(func, Popped, Mem)>>]
  /\ UNCHANGED func

-----------------------------------------------------------------------------
Item(processed, n) == [processed |-> processed, node |-> n]
Values(n) == SubSeq(func.node[n].ins, 2, Len(func.node[n].ins))

SameAddress(store) == In(func, store, Addr) = In(func, opt.node, Addr)

\* recent_memory_effects_all_one_address: one turn of its loop.
load_effects ==
  /\ In_phase("effects") /\ opt.stack # <<>>
  /\ LET n    == Last(opt.stack)
         rest == [opt EXCEPT !.stack = Front(@), !.visited = @ \cup {n}]
     IN opt' = IF n \in opt.visited THEN rest
               ELSE IF Kind(func, n) = "PHI" THEN [rest EXCEPT !.stack = @ \o Values(n)]
               ELSE IF Kind(func, n) = "STORE" /\ SameAddress(n) THEN rest
               ELSE [opt EXCEPT !.phase = "number", !.stack = <<>>]
  /\ UNCHANGED func

load_effects_end ==
  /\ In_phase("effects") /\ opt.stack = <<>>
  /\ opt' = [opt EXCEPT !.phase = "forward", !.map = <<>>,
                        !.stack = <<Item(FALSE, In(func, opt.node, Mem))>>]
  /\ UNCHANGED func

Mapped(n) == n \in DOMAIN opt.map

\* The loop that maps each memory effect to the value it leaves.
forward_store ==
  /\ In_phase("forward") /\ opt.stack # <<>> /\ Kind(func, Last(opt.stack).node) = "STORE"
  /\ LET n == Last(opt.stack).node IN
     opt' = [opt EXCEPT !.stack = Front(@), !.map = With(@, n, In(func, n, Value))]
  /\ UNCHANGED func

\* Mutated: the phi is finished before its inputs are mapped.
PhiItems_first(n) ==
  [i \in DOMAIN Values(n) |-> Item(FALSE, Values(n)[i])] \o <<Item(TRUE, n)>>

PhiItems(n) == <<Item(TRUE, n)>> \o [i \in DOMAIN Values(n) |-> Item(FALSE, Values(n)[i])]

forward_phi ==
  /\ In_phase("forward") /\ opt.stack # <<>> /\ Kind(func, Last(opt.stack).node) = "PHI"
  /\ ~Last(opt.stack).processed
  /\ LET n == Last(opt.stack).node IN
     IF Mapped(n) THEN opt' = [opt EXCEPT !.stack = Front(@)] /\ UNCHANGED func
     ELSE /\ func' = cb_node_phi(func)
          /\ opt' = [opt EXCEPT
               !.map = With(@, n, func.next_id),
               !.worklist = Add(@, func.next_id),
               !.stack = Front(@) \o PhiItems(n)]

PhiValues(n) == [i \in DOMAIN Values(n) |-> opt.map[Values(n)[i]]]

forward_phi_ins ==
  /\ In_phase("forward") /\ opt.stack # <<>> /\ Last(opt.stack).processed
  /\ LET n == Last(opt.stack).node IN
     func' = cb_set_phi_ins(func, opt.map[n], In(func, n, 1), PhiValues(n))
  /\ opt' = [opt EXCEPT !.stack = Front(@)]

forward_end ==
  /\ In_phase("forward") /\ opt.stack = <<>>
  /\ opt' = [opt EXCEPT !.phase = "number", !.ideal = opt.map[In(func, opt.node, Mem)]]
  /\ UNCHANGED func

-----------------------------------------------------------------------------
\* gvn_get, and whether it gave another node than the one popped.
gvn_new ==
  /\ In_phase("number") /\ V!Identical(opt.ideal) = {}
  /\ opt' = [opt EXCEPT !.table = @ \cup {opt.ideal}, !.target = opt.node,
                        !.source = opt.ideal, !.back = "peepholes",
                        !.phase = IF opt.ideal = opt.node THEN "peepholes" ELSE "replace"]
  /\ UNCHANGED func

gvn_known ==
  /\ In_phase("number")
  /\ \E known \in V!Identical(opt.ideal) :
       opt' = [opt EXCEPT !.target = opt.node, !.source = known, !.back = "peepholes",
                          !.phase = IF known = opt.node THEN "peepholes" ELSE "replace"]
  /\ UNCHANGED func

\* Mutated: a user stays in the value table while its input changes.
Forget_none(table, n) == table

Forget(table, n) == table \ {n}

\* Mutated: the users of the replaced node are not looked at again.
Revisit_none(worklist, n) == worklist

Revisit(worklist, n) == Add(worklist, n)

\* replace_node: one turn moves one use from target to source.
replace_use ==
  /\ In_phase("replace") /\ func.node[opt.target].uses # <<>>
  /\ LET use == Head(func.node[opt.target].uses) IN
     /\ func' = set_input([func EXCEPT !.node[opt.target].uses = Tail(@)],
                          use.node, opt.source, use.index)
     /\ opt' = [opt EXCEPT !.table = Forget(@, use.node),
                           !.worklist = Revisit(@, use.node)]

replace_end ==
  /\ In_phase("replace") /\ func.node[opt.target].uses = <<>>
  /\ opt' = [opt EXCEPT !.phase = "remove", !.stack = <<opt.target>>]
  /\ UNCHANGED func

\* Mutated: the removed node stays on the worklist.
Unlisted_not(worklist, n) == worklist

Unlisted(worklist, n) == W!Removed(worklist, n)

\* remove_node: one turn takes one node off its inputs' lists of uses; the
\* inputs that have none left are next.
remove_node ==
  /\ In_phase("remove") /\ opt.stack # <<>>
  /\ LET n      == Last(opt.stack)
         ins    == func.node[n].ins
         after[i \in 0..Len(ins)] ==
           IF i = 0 THEN func ELSE find_and_remove_use(after[i - 1], n, i)
         unused == {i \in DOMAIN ins : ins[i] # Nil /\ after[i].node[ins[i]].uses = <<>>}
     IN /\ func' = after[Len(ins)]
        /\ opt' = [opt EXCEPT !.stack = Front(@) \o Picked(ins, unused),
                              !.table = @ \ {n}, !.worklist = Unlisted(@, n)]

remove_end == /\ In_phase("remove") /\ opt.stack = <<>>
              /\ opt' = [opt EXCEPT !.phase = opt.back]
              /\ UNCHANGED func

-----------------------------------------------------------------------------
\* Mutated: END observes memory too.
Observes_end(n) == Flagged(func, n, "READS_MEMORY") \/ Kind(func, n) = "END"

Observes(n) == Flagged(func, n, "READS_MEMORY")

\* dead_store_elim: the nodes that read memory, and the stores.
dead_store_elim ==
  /\ In_phase("peepholes") /\ opt.worklist.packed = <<>>
  /\ LET walk == func_walk_unspecified_order(func) IN
     opt' = [opt EXCEPT !.phase = "mark", !.states = {},
               !.stack = SelectSeq(walk, LAMBDA n : Observes(n)),
               !.stores = Picked(walk, {i \in DOMAIN walk : Kind(func, walk[i]) = "STORE"})]
  /\ UNCHANGED func

\* Mutated: the memory that reaches a phi is not followed further.
MemoryInputs_no_phi(n) ==
  IF Kind(func, n) = "PHI" THEN <<>>
  ELSE SelectSeq(Inputs(func, n), LAMBDA x : Flagged(func, x, "PRODUCES_MEMORY"))

MemoryInputs(n) ==
  SelectSeq(Inputs(func, n), LAMBDA x : Flagged(func, x, "PRODUCES_MEMORY"))

\* One turn of the loop that marks what the loads may observe (DSE_LOADS).
dse_mark ==
  /\ In_phase("mark") /\ opt.stack # <<>>
  /\ LET n    == Last(opt.stack)
         rest == [opt EXCEPT !.stack = Front(@)]
     IN opt' = IF n \in opt.states THEN rest
               ELSE [rest EXCEPT !.states = @ \cup {n}, !.stack = @ \o MemoryInputs(n)]
  /\ UNCHANGED func

dse_mark_end == /\ In_phase("mark") /\ opt.stack = <<>>
                /\ opt' = [opt EXCEPT !.phase = "sweep"]
                /\ UNCHANGED func

\* One turn of the loop that removes the stores no load observes.
dse_sweep ==
  /\ In_phase("sweep") /\ opt.stores # <<>>
  /\ LET store == Head(opt.stores)
         rest  == [opt EXCEPT !.stores = Tail(@)]
     IN opt' = IF store \in opt.states THEN rest
               ELSE [rest EXCEPT !.phase = "replace", !.back = "sweep", !.target = store,
                                 !.source = In(func, store, Mem)]
  /\ UNCHANGED func

\* Mutated: another round as long as a store is left.
Again_stores == \E n \in opt.states : Kind(func, n) = "STORE"

\* The condition of cb_opt_func's loop.
Again == opt.worklist.packed # <<>>

dse_end == /\ In_phase("sweep") /\ opt.stores = <<>>
           /\ opt' = [opt EXCEPT !.phase = IF Again THEN "peepholes" ELSE "done"]
           /\ UNCHANGED func

OptNext ==
  \/ cb_opt_func \/ opt_fill
  \/ peephole_phi \/ peephole_region \/ peephole_load \/ peephole_other
  \/ load_effects \/ load_effects_end
  \/ forward_store \/ forward_phi \/ forward_phi_ins \/ forward_end
  \/ gvn_new \/ gvn_known
  \/ replace_use \/ replace_end \/ remove_node \/ remove_end
  \/ dead_store_elim \/ dse_mark \/ dse_mark_end \/ dse_sweep \/ dse_end
=============================================================================
