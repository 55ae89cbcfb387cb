------------------------------ MODULE Lowering ------------------------------
(***************************************************************************)
(* sem_lower of src/cringe/front/lower.c: the control-flow graph of a      *)
(* function becomes a sea of nodes.  Every block gets a region and a phi   *)
(* of memory, whose inputs wait in data_map until all blocks are lowered.  *)
(*                                                                         *)
(* cfg is the list of blocks left by sem_analyze, each with its code; an   *)
(* instruction is [kind, out, ins, data], with data the blocks a jump goes *)
(* to, or the value of a constant.  One action is one instruction.         *)
(***************************************************************************)
EXTENDS SeaOfNodes

VARIABLES cfg,    \* the function being compiled
          low     \* lower_context_t and the locals of sem_lower

Blocks == DOMAIN cfg

LowerInit(programs) ==
  /\ cfg \in programs
  /\ func = cb_new_func
  /\ low = [stage |-> "start", block |-> 1, inst |-> 0, ctrl |-> Nil, mem |-> Nil,
            has_return |-> FALSE, value_map |-> <<>>, end_paths |-> <<>>,
            data_map |-> [b \in Blocks |-> [region |-> Nil, mem_phi |-> Nil, ins |-> <<>>]]]

-----------------------------------------------------------------------------
push_end_path(l, value) ==
  [l EXCEPT !.end_paths = Append(@, [ctrl |-> l.ctrl, mem |-> l.mem, value |-> value])]

push_block_entry(l, block, ctrl, mem) ==
  [l EXCEPT !.data_map[block].ins = Append(@, [ctrl |-> ctrl, mem |-> mem])]

Code == cfg[low.block]
Inst == Code[low.inst]
Arg(i) == low.value_map[Inst.ins[i]]

At(kind) == low.stage = "code" /\ low.inst \in DOMAIN Code /\ Inst.kind = kind

Proceed(l) == low' = [l EXCEPT !.inst = @ + 1]

\* The instruction's value is the node that was made last.
Produce(f, l) ==
  func' = f /\ Proceed([l EXCEPT !.value_map = With(@, Inst.out, Newest(f))])

\* cb_new_func and cb_node_start.
lower_start == /\ low.stage = "start"
               /\ func' = cb_node_start(func)
               /\ low' = [low EXCEPT !.stage = "block"]

\* The head of the loop over the blocks.
lower_block ==
  /\ low.stage = "block" /\ low.block \in Blocks
  /\ LET region == func.next_id IN
     /\ func' = cb_node_phi(cb_node_region(func))
     /\ low' = [low EXCEPT !.stage = "code", !.inst = 1, !.has_return = FALSE,
                           !.ctrl = region, !.mem = region + 1,
                           !.data_map[low.block].region = region,
                           !.data_map[low.block].mem_phi = region + 1]

lower_INT_CONST == At("INT_CONST") /\ Produce(cb_node_constant(func, Inst.data), low)

lower_binary(sem, kind) == At(sem) /\ Produce(new_binary(func, kind, Arg(1), Arg(2)), low)
lower_ADD == lower_binary("ADD", "ADD")
lower_SUB == lower_binary("SUB", "SUB")
lower_MUL == lower_binary("MUL", "MUL")
lower_DIV == lower_binary("DIV", "SDIV")

lower_CAST == /\ At("CAST")
              /\ Proceed([low EXCEPT !.value_map = With(@, Inst.out, Arg(1))])
              /\ UNCHANGED func

lower_LOAD == At("LOAD") /\ Produce(cb_node_load(func, low.ctrl, low.mem, Arg(1)), low)

lower_STORE ==
  /\ At("STORE")
  /\ func' = cb_node_store(func, low.ctrl, low.mem, Arg(1), Arg(2))
  /\ Proceed([low EXCEPT !.mem = func.next_id])

lower_RETURN ==
  /\ At("RETURN")
  /\ LET f == IF Inst.ins = <<>> THEN cb_node_null(func) ELSE func IN
     /\ func' = f
     /\ Proceed(push_end_path([low EXCEPT !.has_return = TRUE],
                              IF Inst.ins = <<>> THEN Newest(f) ELSE Arg(1)))

lower_ALLOCA == At("ALLOCA") /\ Produce(cb_node_alloca(func), low)

lower_BRANCH ==
  /\ At("BRANCH")
  /\ LET branch == func.next_id IN
     /\ func' = cb_node_branch(func, low.ctrl, Arg(1))
     /\ Proceed(push_block_entry(push_block_entry(low,
                  Inst.data[1], branch + 2, low.mem), Inst.data[2], branch + 1, low.mem))

lower_GOTO == /\ At("GOTO")
              /\ Proceed(push_block_entry(low, Inst.data[1], low.ctrl, low.mem))
              /\ UNCHANGED func

Successors(code) ==
  IF code # <<>> /\ Last(code).kind \in {"GOTO", "BRANCH"} THEN Len(Last(code).data) ELSE 0

\* A block that goes nowhere ends the function.
lower_block_end ==
  /\ low.stage = "code" /\ low.inst = Len(Code) + 1
  /\ LET ends == Successors(Code) = 0 /\ ~low.has_return
         f    == IF ends THEN cb_node_null(func) ELSE func
         l    == IF ends THEN push_end_path(low, Newest(f)) ELSE low
     IN /\ func' = f
        /\ low' = [l EXCEPT !.block = @ + 1, !.stage = "block"]

\* push_block_entry of the function's entry, after every other entry.
lower_entry ==
  /\ low.stage = "block" /\ low.block \notin Blocks
  /\ low' = [push_block_entry(low, 1, 1, 2) EXCEPT !.stage = "connect", !.block = 1]
  /\ UNCHANGED func

Ctrls(entries) == [i \in DOMAIN entries |-> entries[i].ctrl]
Mems(entries) == [i \in DOMAIN entries |-> entries[i].mem]

lower_connect ==
  /\ low.stage = "connect" /\ low.block \in Blocks
  /\ LET data == low.data_map[low.block] IN
     \E f \in {cb_set_region_ins(func, data.region, Ctrls(data.ins))} :
       func' = cb_set_phi_ins(f, data.mem_phi, data.region, Mems(data.ins))
  /\ low' = [low EXCEPT !.block = @ + 1]

\* The region, the two phis and the END of the function.
EndMade(f, paths) ==
  LET region == f.next_id
      made   == cb_node_phi(cb_node_phi(cb_node_region(f)))
      ctrl   == cb_set_region_ins(made, region, Ctrls(paths))
      mem    == cb_set_phi_ins(ctrl, region + 1, region, Mems(paths))
      value  == cb_set_phi_ins(mem, region + 2, region,
                               [i \in DOMAIN paths |-> paths[i].value])
  IN cb_node_end(value, region, region + 1, region + 2)

lower_end ==
  /\ low.stage = "connect" /\ low.block \notin Blocks
  /\ \E f \in {EndMade(func, low.end_paths)} : func' = cb_finalize_func(f)
  /\ low' = [low EXCEPT !.stage = "lowered"]

LowerNext ==
  /\ \/ lower_start \/ lower_block \/ lower_block_end
     \/ lower_entry \/ lower_connect \/ lower_end
     \/ lower_INT_CONST \/ lower_ADD \/ lower_SUB \/ lower_MUL \/ lower_DIV \/ lower_CAST
     \/ lower_LOAD \/ lower_STORE \/ lower_RETURN \/ lower_ALLOCA
     \/ lower_BRANCH \/ lower_GOTO
  /\ UNCHANGED cfg

-----------------------------------------------------------------------------
(* What a memory input takes is a memory node.  Dead store elimination     *)
(* follows the flag (opt.c:396), and cb_set_phi_ins gives it to a phi by   *)
(* the flags its inputs have at that time (core.c:212): the phi of a loop  *)
(* is set before the phi at the end of its body.                           *)
MemoryIsFlagged ==
  low.stage = "lowered" =>
    \A n \in Live(func) :
      Kind(func, n) \in {"LOAD", "STORE", "END"} =>
        Flagged(func, In(func, n, Mem), "PRODUCES_MEMORY")
=============================================================================
