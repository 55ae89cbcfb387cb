----------------------------- MODULE Scheduler ------------------------------
(***************************************************************************)
(* cb_run_global_code_motion of src/cringe/back/gcm.c: basic blocks are    *)
(* found, each node is placed in one, and the nodes of a block are put in  *)
(* order.  One action is one turn of a loop.  A block goes by the node     *)
(* that starts it, and its id is its place in the list of blocks.  A map   *)
(* from nodes to blocks leaves out the nodes for which the code has NULL.  *)
(***************************************************************************)
EXTENDS SeaOfNodes

VARIABLE sched   \* the locals of cb_run_global_code_motion and of its passes

SchedInit == sched = [phase |-> "idle", stack |-> <<>>, visited |-> {}, at |-> 1,
                      initial_map |-> <<>>, blocks |-> <<>>, successors |-> <<>>,
                      idom |-> <<>>, changed |-> FALSE, loop_nesting |-> <<>>,
                      early |-> <<>>, late |-> <<>>, anti_deps |-> <<>>,
                      walk |-> <<>>, code |-> <<>>]

Running_pass(p) == sched.phase = p /\ UNCHANGED func

sched_item(processed, n) == [processed |-> processed, node |-> n]
Unprocessed(nodes) == [i \in DOMAIN nodes |-> sched_item(FALSE, nodes[i])]

Top == Last(sched.stack)
Visiting == sched.stack # <<>> /\ ~Top.processed
Finishing == sched.stack # <<>> /\ Top.processed
Popped_stack == [sched EXCEPT !.stack = Front(@)]

\* A node met for the first time is finished after all of these.
Pushed_stack(n, nodes) == Front(sched.stack) \o <<sched_item(TRUE, n)>> \o Unprocessed(nodes)

Starts(n) == Flagged(func, n, "STARTS_BASIC_BLOCK")
Cfg(n) == Flagged(func, n, "IS_CFG")
Pinned(n) == Flagged(func, n, "IS_PINNED")

-----------------------------------------------------------------------------
(* build_cfg.  The projections of a branch go on the stack last, so that   *)
(* the false side is finished first and comes after the true side.         *)
cfg_build_item(block, n) == [processed |-> FALSE, node |-> n, block |-> block]

CfgUsers(n) ==
  LET Of(kinds) == SelectSeq(Users(func, n), LAMBDA m : Kind(func, m) \in kinds)
      projs == {"BRANCH_TRUE", "BRANCH_FALSE"}
  IN SelectSeq(Of(Kinds \ projs), LAMBDA m : Cfg(m) \/ Pinned(m))
     \o Of({"BRANCH_TRUE"}) \o Of({"BRANCH_FALSE"})

build_cfg ==
  /\ Running_pass("idle")
  /\ sched' = [sched EXCEPT !.phase = "cfg", !.stack = <<cfg_build_item(Nil, func.start)>>]

cfg_visit ==
  /\ Running_pass("cfg") /\ Visiting
  /\ LET n     == Top.node
         block == IF Starts(n) THEN n ELSE Top.block
         users == CfgUsers(n)
     IN sched' =
          IF n \in DOMAIN sched.initial_map THEN Popped_stack
          ELSE [sched EXCEPT
                  !.initial_map = (n :> block) @@ @,
                  !.stack = Front(@) \o
                    IF Cfg(n)
                      THEN <<sched_item(TRUE, n)>>
                           \o [i \in DOMAIN users |-> cfg_build_item(block, users[i])]
                      ELSE <<>>]

\* The blocks entered by the uses of n, a node of the block.
Leaving(n, block) ==
  LET users == SelectSeq(Users(func, n), Cfg)
  IN SelectSeq([i \in DOMAIN users |-> sched.initial_map[users[i]]], LAMBDA s : s # block)

cfg_finish ==
  /\ Running_pass("cfg") /\ Finishing
  /\ LET n     == Top.node
         block == sched.initial_map[n]
         known == IF block \in DOMAIN sched.successors THEN sched.successors[block] ELSE <<>>
     IN sched' = [Popped_stack EXCEPT
                    !.blocks = IF Starts(n) THEN <<n>> \o @ ELSE @,
                    !.successors = (block :> (known \o Leaving(n, block))) @@ @]

Id(b) == CHOOSE i \in DOMAIN sched.blocks : sched.blocks[i] = b

Predecessors(b) == SelectSeq(sched.blocks, LAMBDA p : b \in ToSet(sched.successors[p]))

Head_block == sched.blocks[1]

cfg_done ==
  /\ Running_pass("cfg") /\ sched.stack = <<>>
  /\ sched' = [sched EXCEPT !.phase = "dominators", !.idom = (Head_block :> Head_block),
                            !.at = 2]

-----------------------------------------------------------------------------
(* build_dominator_tree: the blocks are gone through until no immediate    *)
(* dominator changes.                                                      *)
\* Mutated: the first of the predecessors is taken.
intersect_first(b, c) == c

intersect(b, c) ==
  LET meet[f1 \in Int, f2 \in Int] ==
        IF f1 = f2 THEN f1
        ELSE IF Id(f1) > Id(f2) THEN meet[sched.idom[f1], f2]
        ELSE meet[f1, sched.idom[f2]]
  IN meet[b, c]

Mapped_predecessors(b) == SelectSeq(Predecessors(b), LAMBDA p : p \in DOMAIN sched.idom)

dominator_block ==
  /\ Running_pass("dominators") /\ sched.at <= Len(sched.blocks)
  /\ LET b     == sched.blocks[sched.at]
         known == Mapped_predecessors(b)
         idom  == FoldLeft(LAMBDA new, p : intersect(p, new), Head(known), Tail(known))
     IN /\ known # <<>>
        /\ sched' = [sched EXCEPT
                       !.at = @ + 1, !.idom = (b :> idom) @@ @,
                       !.changed = @ \/ b \notin DOMAIN sched.idom \/ sched.idom[b] # idom]

dominator_round ==
  /\ Running_pass("dominators") /\ sched.at > Len(sched.blocks)
  /\ sched' = IF sched.changed THEN [sched EXCEPT !.at = 2, !.changed = FALSE]
              ELSE [sched EXCEPT !.phase = "nesting", !.at = 1, !.idom[Head_block] = Nil,
                                 !.loop_nesting = [b \in ToSet(sched.blocks) |-> 0]]

\* dom_set and dom_depth, from a block up the tree.
Dominators(b) ==
  LET up[c \in Int] == IF c = Nil THEN {} ELSE {c} \cup up[sched.idom[c]] IN up[b]

dom_depth(b) == Cardinality(Dominators(b)) - 1

Dominates(a, b) == a \in Dominators(b)

-----------------------------------------------------------------------------
\* Mutated: the walk does not stop at the block the edge goes back to.
Stop_never(to) == {}

Stop(to) == {to}

\* process_backedge: the blocks its walk comes to.
Loop(from, to) ==
  LET up[S \in SUBSET Int] ==
        LET T == S \cup UNION {ToSet(Predecessors(b)) : b \in S \ Stop(to)}
        IN IF T = S THEN S ELSE up[T]
  IN up[{from}]

compute_loop_nesting ==
  /\ Running_pass("nesting") /\ sched.at <= Len(sched.blocks)
  /\ LET a    == sched.blocks[sched.at]
         back == {b \in ToSet(sched.successors[a]) : Dominates(b, a)}
     IN sched' = [sched EXCEPT
                    !.at = @ + 1,
                    !.loop_nesting = [c \in DOMAIN @ |->
                       @[c] + Cardinality({b \in back : c \in Loop(a, b)})]]

-----------------------------------------------------------------------------
get_pinned_nodes == SelectSeq(func_walk_unspecified_order(func), Pinned)

Of_each(nodes, Neighbours(_)) ==
  FlattenSeq([i \in DOMAIN nodes |-> Unprocessed(Neighbours(nodes[i]))])

Ins(n) == Inputs(func, n)
Outs(n) == Users(func, n)

\* early_sched: a node goes to the deepest block of its inputs.
early_sched ==
  /\ Running_pass("nesting") /\ sched.at > Len(sched.blocks)
  /\ sched' = [sched EXCEPT !.phase = "early",
                            !.early = [n \in ToSet(get_pinned_nodes) |-> sched.initial_map[n]],
                            !.stack = Of_each(get_pinned_nodes, Ins)]

early_visit ==
  /\ Running_pass("early") /\ Visiting
  /\ LET n == Top.node IN
     sched' = IF n \in DOMAIN sched.early THEN Popped_stack
              ELSE [sched EXCEPT !.early = (n :> Head_block) @@ @,
                                 !.stack = Pushed_stack(n, Ins(n))]

\* Mutated: nodes stay where they begin.
Deeper_root(b, c) == b

Deeper(b, c) == IF dom_depth(b) < dom_depth(c) THEN c ELSE b

early_finish ==
  /\ Running_pass("early") /\ Finishing
  /\ LET n == Top.node IN
     sched' = [Popped_stack EXCEPT
                 !.early[n] = FoldLeft(LAMBDA b, x : Deeper(b, sched.early[x]), @, Ins(n))]

-----------------------------------------------------------------------------
(* late_sched: between its early block and the nearest block above all its *)
(* uses, a node goes where the fewest loops are, as late as possible.      *)
find_lca(a, b) ==
  LET up[f1 \in Int, f2 \in Int] ==
        IF f1 = f2 THEN f1
        ELSE IF dom_depth(f1) > dom_depth(f2) THEN up[sched.idom[f1], f2]
        ELSE IF dom_depth(f2) > dom_depth(f1) THEN up[f1, sched.idom[f2]]
        ELSE up[sched.idom[f1], sched.idom[f2]]
  IN IF a = Nil THEN b ELSE up[a, b]

\* Mutated: all inputs of a phi are used where control comes from first.
UsedAt_first(u) ==
  IF Kind(func, u.node) = "PHI" THEN In(func, In(func, u.node, 1), 1) ELSE u.node

\* The node in whose block a use happens: for a phi, where control comes from.
UsedAt(u) ==
  IF Kind(func, u.node) = "PHI" THEN In(func, In(func, u.node, 1), u.index - 1) ELSE u.node

\* Mutated: a phi uses its inputs in its own block.
get_use_block_phi(u) == sched.late[u.node]

get_use_block(u) == sched.late[UsedAt(u)]

Uses_placed(n) == \A u \in ToSet(func.node[n].uses) : UsedAt(u) \in DOMAIN sched.late

\* The blocks from b up to the load's early block, where a writer affects it.
Affecting(b, load) == {c \in Dominators(b) : Dominates(sched.early[load], c)}

Writers(load) ==
  SelectSeq(func.node[In(func, load, Mem)].uses,
            LAMBDA u : u.node # load /\ Flagged(func, u.node, "PRODUCES_MEMORY"))

Depended(anti_deps, writer, load) ==
  (writer :> (<<load>> \o IF writer \in DOMAIN anti_deps THEN anti_deps[writer] ELSE <<>>))
  @@ anti_deps

anti_dep_raise_lca(lca, load) ==
  FoldLeft(LAMBDA r, u :
             IF get_use_block(u) \in Affecting(r.lca, load)
               THEN [lca |-> find_lca(r.lca, get_use_block(u)),
                     anti_deps |-> Depended(r.anti_deps, u.node, load)]
               ELSE r,
           [lca |-> lca, anti_deps |-> sched.anti_deps], Writers(load))

(* The first of the blocks from lca up to early that is in the fewest      *)
(* loops.  It is Nil if early is not on the way, where the code would read *)
(* through NULL.                                                           *)
Best(lca, early) ==
  LET up[b \in Int, best \in Int] ==
        IF b = Nil THEN Nil
        ELSE LET next == IF sched.loop_nesting[b] < sched.loop_nesting[best] THEN b ELSE best
             IN IF b = early THEN next ELSE up[sched.idom[b], next]
  IN up[lca, lca]

late_sched ==
  /\ Running_pass("early") /\ sched.stack = <<>>
  /\ LET pinned == ToSet(get_pinned_nodes) IN
     sched' = [sched EXCEPT !.phase = "late", !.visited = pinned,
                            !.late = [n \in pinned |-> sched.early[n]],
                            !.stack = Of_each(get_pinned_nodes, Outs)]

late_visit ==
  /\ Running_pass("late") /\ Visiting
  /\ LET n == Top.node IN
     sched' = IF n \in sched.visited THEN Popped_stack
              ELSE [sched EXCEPT !.visited = @ \cup {n}, !.stack = Pushed_stack(n, Outs(n))]

late_finish ==
  /\ Running_pass("late") /\ Finishing /\ Uses_placed(Top.node) /\ Outs(Top.node) # <<>>
  /\ LET n    == Top.node
         uses == FoldLeft(LAMBDA lca, u : find_lca(lca, get_use_block(u)), Nil,
                          func.node[n].uses)
         raised == IF Flagged(func, n, "READS_MEMORY") THEN anti_dep_raise_lca(uses, n)
                   ELSE [lca |-> uses, anti_deps |-> sched.anti_deps]
     IN sched' = [Popped_stack EXCEPT
                    !.late = (n :> Best(raised.lca, sched.early[n])) @@ @,
                    !.anti_deps = raised.anti_deps]

-----------------------------------------------------------------------------
(* func_walk_post_order_ins: a node comes after its inputs and after the   *)
(* loads that must come before it.                                         *)
order_start ==
  /\ Running_pass("late") /\ sched.stack = <<>>
  /\ sched' = [sched EXCEPT !.phase = "order", !.visited = {},
                            !.stack = Unprocessed(<<func.end>>)]

Before(n) ==
  Ins(n) \o IF n \in DOMAIN sched.anti_deps THEN sched.anti_deps[n] ELSE <<>>

order_visit ==
  /\ Running_pass("order") /\ Visiting
  /\ LET n == Top.node IN
     sched' = IF n \in sched.visited THEN Popped_stack
              ELSE [sched EXCEPT !.visited = @ \cup {n}, !.stack = Pushed_stack(n, Before(n))]

order_finish ==
  /\ Running_pass("order") /\ Finishing
  /\ sched' = [Popped_stack EXCEPT !.walk = Append(@, Top.node)]

-----------------------------------------------------------------------------
block_starter(n) == Starts(n)
block_phi(n) == Kind(func, n) = "PHI"
block_branch(n) == Kind(func, n) = "BRANCH"
\* Mutated: branches are in their block twice.
block_everything_else_branch(n) == ~(block_starter(n) \/ block_phi(n))

block_everything_else(n) == ~(block_starter(n) \/ block_phi(n) \/ block_branch(n))

Placed(b, Cond(_)) == SelectSeq(sched.walk, LAMBDA n : sched.late[n] = b /\ Cond(n))

put_code ==
  /\ Running_pass("order") /\ sched.stack = <<>>
  /\ sched' = [sched EXCEPT !.phase = "done",
                            !.code = [b \in ToSet(sched.blocks) |->
                                        Placed(b, block_starter) \o Placed(b, block_phi)
                                        \o Placed(b, block_everything_else)
                                        \o Placed(b, block_branch)]]

SchedNext ==
  \/ build_cfg \/ cfg_visit \/ cfg_finish \/ cfg_done
  \/ dominator_block \/ dominator_round \/ compute_loop_nesting
  \/ early_sched \/ early_visit \/ early_finish
  \/ late_sched \/ late_visit \/ late_finish
  \/ order_start \/ order_visit \/ order_finish \/ put_code
=============================================================================
