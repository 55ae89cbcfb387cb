----------------------------- MODULE SeaOfNodes -----------------------------
(***************************************************************************)
(* The program graph of src/cringe/back/core.c, as values: a function is a *)
(* record whose "node" maps ids to nodes, and every operation of core.c    *)
(* that changes a graph is an operator from graph to graph.  A node keeps  *)
(* its inputs in order and the list of its uses, the newest first.  Input  *)
(* positions count from 1, so BRANCH_CTRL is 1 and STORE_VALUE is 4.       *)
(***************************************************************************)
EXTENDS Integers, FiniteSets, SequencesExt, Maps

VARIABLE func   \* the graph of the function being compiled

Nil == -1   \* NULL, where a node is expected

Mem == 2    \* LOAD_MEM, STORE_MEM, END_MEM
Addr == 3   \* LOAD_ADDR, STORE_ADDR
Value == 4  \* STORE_VALUE

BinaryKinds == {"ADD", "SUB", "MUL", "SDIV"}

Kinds == {"START", "START_CTRL", "START_MEM", "END", "REGION", "PHI", "NULL", "ALLOCA",
          "BRANCH", "BRANCH_TRUE", "BRANCH_FALSE", "CONSTANT", "LOAD", "STORE"}
         \cup BinaryKinds
         \cup {"X64_ADD32_RR", "X64_SUB32_RR", "X64_MUL32_RR", "X64_IDIV32_RR", "X64_KILL32",
               "X64_MOV32_RI", "X64_ADD32_RI", "X64_SUB32_RI", "X64_MOV32_MR", "X64_MOV32_MI",
               "X64_MOV32_RM", "X64_END32", "X64_BRANCH32"}

Flags == {"IS_LEAF", "IS_PROJ", "IS_CFG", "READS_MEMORY", "PRODUCES_MEMORY",
          "STARTS_BASIC_BLOCK", "IS_PINNED"}

cb_new_func == [node |-> <<>>, next_id |-> 0, start |-> Nil, end |-> Nil, allocas |-> 0]

Ids(f) == 0..(f.next_id - 1)

Newest(f) == f.next_id - 1

Kind(f, n) == f.node[n].kind

Flagged(f, n, flag) == flag \in f.node[n].flags

In(f, n, i) == f.node[n].ins[i]

-----------------------------------------------------------------------------
\* num_ins times NULL (the concatenation keeps it a tuple for TLC).
init_ins(num_ins) == <<>> \o [i \in 1..num_ins |-> Nil]

\* There is one START: asked for again, the first is meant.
new_node(f, kind, num_ins, data, flags) ==
  LET node == [kind |-> kind, ins |-> init_ins(num_ins), uses |-> <<>>,
               flags |-> flags, data |-> data]
  IN IF kind = "START" /\ f.start # Nil THEN f
     ELSE [f EXCEPT !.node = [n \in DOMAIN @ \cup {f.next_id} |->
                               IF n \in DOMAIN @ THEN @[n] ELSE node], !.next_id = @ + 1,
                    !.start = IF kind = "START" THEN f.next_id ELSE @]

get_start(f) == new_node(f, "START", 0, 0, {"IS_CFG", "STARTS_BASIC_BLOCK", "IS_PINNED"})

\* Mutated: the user does not appear among the uses of its input.
set_input_unlisted(f, n, input, i) ==
  IF input = Nil THEN f ELSE [f EXCEPT !.node[n].ins[i] = input]

set_input(f, n, input, i) ==
  IF input = Nil THEN f
  ELSE LET set == [f EXCEPT !.node[n].ins[i] = input]
       IN [set EXCEPT !.node[input].uses = <<[node |-> n, index |-> i]>> \o @]

\* The inputs of a node, one after the other.
set_inputs(f, n, ins) ==
  LET filled[i \in 0..Len(ins)] ==
        IF i = 0 THEN f ELSE set_input(filled[i - 1], n, ins[i], i)
  IN filled[Len(ins)]

\* A new node with all its inputs.
new_filled(f, kind, ins, data, flags) ==
  set_inputs(new_node(f, kind, Len(ins), data, flags), f.next_id, ins)

\* The node is made first, then START if there is none yet.
new_leaf(f, kind, data, flags) ==
  LET g == get_start(new_node(f, kind, 1, data, flags \cup {"IS_LEAF"}))
  IN set_input(g, f.next_id, g.start, 1)

new_proj(f, kind, input, flags) ==
  new_filled(f, kind, <<input>>, 0, flags \cup {"IS_PROJ"})

\* START is node 0, start_ctrl node 1 and start_mem node 2.
cb_node_start(f) ==
  LET start == get_start(f)
      ctrl  == new_proj(start, "START_CTRL", start.start, {"IS_CFG", "IS_PINNED"})
  IN new_proj(ctrl, "START_MEM", ctrl.start, {"PRODUCES_MEMORY"})

cb_node_end(f, ctrl, mem, value) ==
  [new_filled(f, "END", <<ctrl, mem, value>>, 0, {"IS_CFG", "IS_PINNED"})
   EXCEPT !.end = f.next_id]

cb_node_region(f) ==
  new_node(f, "REGION", 0, 0, {"IS_CFG", "STARTS_BASIC_BLOCK", "IS_PINNED"})

cb_node_phi(f) == new_node(f, "PHI", 0, 0, {"IS_PINNED"})

cb_node_null(f) == new_leaf(f, "NULL", 0, {})

cb_node_alloca(f) == [new_leaf(f, "ALLOCA", f.allocas, {}) EXCEPT !.allocas = @ + 1]

cb_node_constant(f, value) == new_leaf(f, "CONSTANT", value, {})

\* The branch, then its false and its true projection.
cb_node_branch(f, ctrl, predicate) ==
  LET proj == {"IS_CFG", "STARTS_BASIC_BLOCK", "IS_PINNED"}
      branch == new_filled(f, "BRANCH", <<ctrl, predicate>>, 0, {"IS_CFG", "IS_PINNED"})
  IN new_proj(new_proj(branch, "BRANCH_FALSE", f.next_id, proj),
              "BRANCH_TRUE", f.next_id, proj)

cb_node_load(f, ctrl, mem, address) ==
  new_filled(f, "LOAD", <<ctrl, mem, address>>, 0, {"READS_MEMORY"})

cb_node_store(f, ctrl, mem, address, value) ==
  new_filled(f, "STORE", <<ctrl, mem, address, value>>, 0, {"PRODUCES_MEMORY", "IS_PINNED"})

new_binary(f, kind, lhs, rhs) == new_filled(f, kind, <<lhs, rhs>>, 0, {})

Filled(f, n, ins) ==
  set_inputs([f EXCEPT !.node[n].ins = init_ins(Len(ins))], n, ins)

cb_set_region_ins(f, region, ins) == Filled(f, region, ins)

\* Mutated: a phi never becomes a memory node.
cb_set_phi_ins_unflagged(f, phi, region, ins) == Filled(f, phi, <<region>> \o ins)

\* A phi of memory is a memory node from the time its inputs are set: the
\* flags are those the inputs have at that time.
cb_set_phi_ins(f, phi, region, ins) ==
  LET g == Filled(f, phi, <<region>> \o ins) IN
  IF \E i \in DOMAIN ins : Flagged(f, ins[i], "PRODUCES_MEMORY")
    THEN [g EXCEPT !.node[phi].flags = @ \cup {"PRODUCES_MEMORY"}]
    ELSE g

-----------------------------------------------------------------------------
Inputs(f, n) == LET ins == f.node[n].ins IN Picked(ins, {i \in DOMAIN ins : ins[i] # Nil})

Users(f, n) == [i \in DOMAIN f.node[n].uses |-> f.node[n].uses[i].node]

\* The nodes a walk has not met, each once, in the order it meets them.
Fresh(nodes, visited) ==
  Picked(nodes, {i \in DOMAIN nodes : /\ nodes[i] \notin visited
                                     /\ \A j \in 1..(i - 1) : nodes[j] # nodes[i]})

\* One turn of a walk takes a node off the stack.
Walking == [order : Seq(Int), stack : Seq(Int), visited : SUBSET Int]

\* The depth-first walks of core.c from END, which see each node once.
Walk(f, next) ==
  LET turned[s \in Walking] ==
        [nodes \in Seq(Int) |->
           LET fresh == Fresh(nodes, s.visited) IN
           [order |-> Append(s.order, Last(s.stack)), stack |-> Front(s.stack) \o fresh,
            visited |-> s.visited \cup ToSet(fresh)]]
      step[s \in Walking] ==
        IF s.stack = <<>> THEN s ELSE turned[s][next[Last(s.stack)]]
      turn[k \in 0..f.next_id] ==
        IF k = 0 THEN [order |-> <<>>, stack |-> <<f.end>>, visited |-> {f.end}]
        ELSE step[turn[k - 1]]
  IN turn[f.next_id].order

func_walk_unspecified_order(f) == Walk(f, [n \in Ids(f) |-> Inputs(f, n) \o Users(f, n)])

\* The nodes END needs forget the users it does not need.
cb_finalize_func(f) ==
  LET forgetting[useful \in SUBSET Int] ==
        [f EXCEPT !.node = [n \in Ids(f) |->
           IF n \notin useful THEN f.node[n]
           ELSE [f.node[n] EXCEPT !.uses =
                   Picked(@, {k \in DOMAIN @ : @[k].node \in useful})]]]
  IN forgetting[ToSet(Walk(f, [n \in Ids(f) |-> Inputs(f, n)]))]

\* opt.c: the use of its i-th input by a node goes off the input's list;
\* remove_node passes over an input that is Nil.
find_and_remove_use(f, n, i) ==
  IF In(f, n, i) = Nil THEN f
  ELSE [f EXCEPT !.node[In(f, n, i)].uses = RemoveFirst(@, [node |-> n, index |-> i])]

-----------------------------------------------------------------------------
\* The nodes the walks of the optimizer and of the scheduler come to.
Live(f) == ToSet(func_walk_unspecified_order(f))

\* The uses of the live nodes are exactly the inputs of the live nodes.
UsesMatchIns(f) ==
  LET live == Live(f) IN
  /\ \A n \in live : \A u \in ToSet(f.node[n].uses) :
       u.index \in DOMAIN f.node[u.node].ins /\ In(f, u.node, u.index) = n
  /\ \A n \in live : \A i \in DOMAIN f.node[n].ins :
       In(f, n, i) # Nil =>
         Cardinality({k \in DOMAIN f.node[In(f, n, i)].uses :
                        f.node[In(f, n, i)].uses[k] = [node |-> n, index |-> i]}) = 1
=============================================================================
