------------------------------ MODULE Selection -----------------------------
(***************************************************************************)
(* cb_select_x64 of src/cringe/back/x64.c: the graph is covered with the   *)
(* patterns of src/meta/x64.isa, from each root up to the next roots, and  *)
(* a new graph is made of x64 nodes.  A root that an input needs may not   *)
(* be selected yet, so the inputs that are roots are filled in at the end. *)
(***************************************************************************)
EXTENDS SeaOfNodes

VARIABLE sel   \* the locals of cb_select_x64 and its sel_context_t

SelInit == sel = [phase |-> "idle", new_func |-> cb_new_func, roots |-> <<>>, left |-> <<>>,
                  stack |-> <<>>, map |-> <<>>, root_refs |-> <<>>]

should_be_root(n) ==
  /\ Kind(func, n) # "CONSTANT"
  /\ \/ Kind(func, n) \in {"START", "END", "REGION", "PHI", "BRANCH"}
     \/ {"IS_CFG", "IS_PROJ"} \cap func.node[n].flags # {}
     \/ Len(func.node[n].uses) > 1

select_start ==
  /\ sel.phase = "idle"
  /\ LET roots == SelectSeq(func_walk_unspecified_order(func), should_be_root)
     IN sel' = [sel EXCEPT !.phase = "cover", !.roots = roots, !.left = roots]
  /\ UNCHANGED func

Is_root(n) == n \in ToSet(sel.roots)

-----------------------------------------------------------------------------
\* The rules of x64.isa: the kind that one is for, its inputs that must be
\* constants it takes in, its other inputs, and the kind it makes.
Rule(kind, constants, leaves, target) ==
  [kind |-> kind, constants |-> constants, leaves |-> leaves, target |-> target]

Rules ==
  {Rule("CONSTANT", {}, <<>>, "X64_MOV32_RI"),
   Rule("NULL", {}, <<>>, "X64_KILL32"),
   Rule("ADD", {}, <<1, 2>>, "X64_ADD32_RR"),
   Rule("SUB", {}, <<1, 2>>, "X64_SUB32_RR"),
   Rule("MUL", {}, <<1, 2>>, "X64_MUL32_RR"),
   Rule("SDIV", {}, <<1, 2>>, "X64_IDIV32_RR"),
   Rule("ADD", {2}, <<1>>, "X64_ADD32_RI"),
   Rule("ADD", {1}, <<2>>, "X64_ADD32_RI"),
   Rule("SUB", {2}, <<1>>, "X64_SUB32_RI"),
   Rule("STORE", {}, <<1, 2, 3, 4>>, "X64_MOV32_MR"),
   Rule("STORE", {4}, <<1, 2, 3>>, "X64_MOV32_MI"),
   Rule("LOAD", {}, <<1, 2, 3>>, "X64_MOV32_RM"),
   Rule("END", {}, <<1, 2, 3>>, "X64_END32"),
   Rule("BRANCH", {}, <<1, 2>>, "X64_BRANCH32")}

TargetFlags ==
  [X64_MOV32_MR |-> {"IS_PINNED", "PRODUCES_MEMORY"},
   X64_MOV32_MI |-> {"IS_PINNED", "PRODUCES_MEMORY"}, X64_MOV32_RM |-> {"READS_MEMORY"},
   X64_END32 |-> {"IS_CFG", "IS_PINNED"}, X64_BRANCH32 |-> {"IS_CFG", "IS_PINNED"}]

\* Mutated: what the inputs are is not looked at.
Matches_any(rule, n) == Kind(func, n) = rule.kind

\* Only the root of a match may be a root.
Matches(rule, n) ==
  /\ Kind(func, n) = rule.kind
  /\ \A i \in rule.constants : /\ Kind(func, In(func, n, i)) = "CONSTANT"
                              /\ ~Is_root(In(func, n, i))

Matched(n) == {rule \in Rules : Matches(rule, n)}

\* The rule of the largest pattern; two constants have been folded before.
Chosen(n) ==
  CHOOSE rule \in Matched(n) :
    \A other \in Matched(n) : Cardinality(rule.constants) >= Cardinality(other.constants)

\* push_leaves: the inputs that the pattern at n does not cover, in order.
Leaves(n) ==
  LET ins == func.node[n].ins IN
  IF Matched(n) = {} THEN ins
  ELSE [i \in DOMAIN Chosen(n).leaves |-> ins[Chosen(n).leaves[i]]]

\* What top_down_select makes of n, with its inputs not filled in.
Target(n) ==
  LET node == func.node[n]
      kind == Chosen(n).target
      constants == IF node.kind = "CONSTANT" THEN {n}
                   ELSE {node.ins[i] : i \in Chosen(n).constants}
      data == IF constants = {} THEN 0 ELSE func.node[CHOOSE x \in constants : TRUE].data
      flags == IF kind \in DOMAIN TargetFlags THEN TargetFlags[kind] ELSE {}
  IN CASE Matched(n) = {} ->
            new_node(sel.new_func, node.kind, Len(node.ins), node.data, node.flags)
       [] Matched(n) # {} /\ Leaves(n) = <<>> -> new_leaf(sel.new_func, kind, data, flags)
       [] Matched(n) # {} /\ Leaves(n) # <<>> ->
            new_node(sel.new_func, kind, Len(Leaves(n)), data, flags)

\* map_input, for all leaves: those that are roots wait for the end.
Selected(n) ==
  LET id == IF Kind(func, n) = "START" /\ sel.new_func.start # Nil THEN sel.new_func.start
            ELSE sel.new_func.next_id
      leaves == Leaves(n)
      waits(i) == leaves[i] # Nil /\ Is_root(leaves[i])
      fill(f, i) == IF leaves[i] = Nil \/ waits(i) THEN f
                    ELSE set_input(f, id, sel.map[leaves[i]], i)
      waiting == SelectSeq([i \in DOMAIN leaves |-> i], waits)
  IN [sel EXCEPT
        !.stack = Front(@), !.map = (n :> id) @@ @,
        !.new_func = FoldLeftDomain(fill, Target(n), leaves),
        !.root_refs = @ \o [k \in DOMAIN waiting |->
                              [user |-> id, index |-> waiting[k], root |-> leaves[waiting[k]]]]]

-----------------------------------------------------------------------------
bool_node(processed, n) == [processed |-> processed, node |-> n]

Covering == sel.phase = "cover" /\ UNCHANGED func

select_root ==
  /\ Covering /\ sel.stack = <<>> /\ sel.left # <<>>
  /\ sel' = [sel EXCEPT !.stack = <<bool_node(FALSE, Head(sel.left))>>, !.left = Tail(@)]

\* The root is at the bottom of the stack; any other root ends the walk.
select_visit ==
  /\ Covering /\ sel.stack # <<>> /\ ~Last(sel.stack).processed
  /\ LET n == Last(sel.stack).node
         leaves == SelectSeq(Leaves(n), LAMBDA x : x # Nil)
     IN sel' = IF Is_root(n) /\ Len(sel.stack) > 1 THEN [sel EXCEPT !.stack = Front(@)]
               ELSE [sel EXCEPT !.stack = Front(@) \o <<bool_node(TRUE, n)>> \o
                                  [i \in DOMAIN leaves |-> bool_node(FALSE, leaves[i])]]

select_node ==
  /\ Covering /\ sel.stack # <<>> /\ Last(sel.stack).processed
  /\ sel' = Selected(Last(sel.stack).node)

\* The inputs that are roots, the last first.
select_patch ==
  /\ Covering /\ sel.stack = <<>> /\ sel.left = <<>> /\ sel.root_refs # <<>>
  /\ LET ref == Last(sel.root_refs)
     IN sel' = [sel EXCEPT !.root_refs = Front(@),
                           !.new_func = set_input(@, ref.user, sel.map[ref.root], ref.index)]

select_finish ==
  /\ sel.phase = "cover" /\ sel.stack = <<>> /\ sel.left = <<>> /\ sel.root_refs = <<>>
  /\ \E f \in {[sel.new_func EXCEPT !.end = sel.map[func.end]]} : func' = cb_finalize_func(f)
  /\ sel' = [sel EXCEPT !.phase = "done", !.new_func = cb_new_func]

SelNext == select_start \/ select_root \/ select_visit \/ select_node \/ select_patch
           \/ select_finish
=============================================================================
