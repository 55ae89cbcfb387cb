------------------------------- MODULE CodeGen ------------------------------
(***************************************************************************)
(* cb_generate_x64 of src/cringe/back/x64.c, but for register allocation:  *)
(* machine code is made of the scheduled x64 graph, block by block down    *)
(* the dominator tree; the phis' copies are put in; and when registers are *)
(* allocated the frame is laid out.                                        *)
(***************************************************************************)
EXTENDS Scheduler, MachineCode

VARIABLE gen   \* the locals of cb_generate_x64 and its gen_context_t

NULL_REG == -1

GenInit == /\ gen = [phase |-> "idle", stack |-> <<>>, block |-> Nil, at |-> 1,
                     reg_map |-> <<>>, alloca_map |-> <<>>, phis |-> <<>>, offset |-> <<>>]
           /\ mach = [blocks |-> <<>>, code |-> <<>>, terminator_count |-> <<>>,
                      successors |-> <<>>, loop_nesting |-> <<>>,
                      next_reg |-> FIRST_VR, allocas |-> <<>>]

generate_start ==
  /\ gen.phase = "idle"
  /\ gen' = [gen EXCEPT !.phase = "blocks", !.stack = <<Head_block>>]
  /\ mach' = [mach EXCEPT !.blocks = sched.blocks, !.successors = sched.successors,
                          !.loop_nesting = sched.loop_nesting,
                          !.code = [b \in ToSet(sched.blocks) |-> <<>>],
                          !.terminator_count = [b \in ToSet(sched.blocks) |-> 0]]

Generating == gen.phase = "blocks" /\ gen.block # Nil

generate_block ==
  /\ gen.phase = "blocks" /\ gen.block = Nil /\ gen.stack # <<>>
  /\ LET b == Last(gen.stack)
         dom_children == SelectSeq(sched.blocks, LAMBDA c : sched.idom[c] = b)
     IN gen' = [gen EXCEPT !.block = b, !.at = 1, !.stack = Front(@) \o dom_children]
  /\ UNCHANGED mach

-----------------------------------------------------------------------------
\* GET_REG: the register of a node that has none yet is read as 0, eax.
Reg(n) == IF n \in DOMAIN gen.reg_map THEN gen.reg_map[n] ELSE 0

get_branch_dest(n, proj) ==
  sched.late[SelectSeq(Users(func, n), LAMBDA u : Kind(func, u) = proj)[1]]

Arithmetic_op == [X64_ADD32_RR |-> "ADD32_RR", X64_SUB32_RR |-> "SUB32_RR",
                  X64_MUL32_RR |-> "MUL32_RR", X64_ADD32_RI |-> "ADD32_RI",
                  X64_SUB32_RI |-> "SUB32_RI"]

DestKinds == DOMAIN Arithmetic_op
             \cup {"X64_IDIV32_RR", "X64_KILL32", "X64_MOV32_RI", "X64_MOV32_RM"}

Division(dest, x, y) ==
  <<inst_mov32_rr(PR_EAX, x), inst_cdq, inst_idiv_r(y), inst_mov32_rr(dest, PR_EAX)>>

\* The instructions that x64.isa names for the node, in terms of its register.
Template(n, dest) ==
  LET kind == Kind(func, n)
      data == func.node[n].data
      in(i) == Reg(In(func, n, i))
      loc == gen.alloca_map[In(func, n, Addr)]
  IN CASE kind \in {"X64_ADD32_RR", "X64_SUB32_RR", "X64_MUL32_RR"} ->
            <<inst_mov32_rr(dest, in(1)), inst_op_rr(Arithmetic_op[kind], dest, in(2))>>
       [] kind \in {"X64_ADD32_RI", "X64_SUB32_RI"} ->
            <<inst_mov32_rr(dest, in(1)), inst_op_ri(Arithmetic_op[kind], dest, data)>>
       [] kind = "X64_IDIV32_RR" -> Division(dest, in(1), in(2))
       [] kind = "X64_KILL32"    -> <<inst_kill32(dest)>>
       [] kind = "X64_MOV32_RI"  -> <<inst_mov32_ri(dest, data)>>
       [] kind = "X64_MOV32_RM"  -> <<inst_mov32_rm(dest, loc)>>
       [] kind = "X64_MOV32_MR"  -> <<inst_mov32_mr(loc, in(Value))>>
       [] kind = "X64_MOV32_MI"  -> <<inst_mov32_mi(loc, data)>>
       [] kind = "X64_END32"     -> <<inst_mov32_rr(PR_EAX, in(3)), inst_ret>>
       [] kind = "X64_BRANCH32"  -> <<inst_test32(in(2), in(2)),
                                      inst_jz(get_branch_dest(n, "BRANCH_FALSE")),
                                      inst_jmp(get_branch_dest(n, "BRANCH_TRUE"))>>
       [] OTHER -> <<>>

generate_node ==
  /\ Generating /\ gen.at <= Len(sched.code[gen.block])
  /\ LET n == sched.code[gen.block][gen.at]
         kind == Kind(func, n)
         dest == mach.next_reg
     IN /\ gen' =
             [gen EXCEPT
                !.at = @ + 1,
                !.reg_map = CASE kind \in DestKinds \cup {"PHI"} -> (n :> dest) @@ @
                              [] kind \in {"X64_MOV32_MR", "X64_MOV32_MI", "X64_END32",
                                           "X64_BRANCH32"} -> (n :> NULL_REG) @@ @
                              [] OTHER -> @,
                !.alloca_map = IF kind = "ALLOCA" THEN (n :> (Len(mach.allocas) + 1)) @@ @
                               ELSE @,
                !.phis = IF kind = "PHI" /\ ~Flagged(func, n, "PRODUCES_MEMORY")
                           THEN Append(@, n) ELSE @]
        /\ mach' =
             [mach EXCEPT
                !.code[gen.block] = @ \o Template(n, dest),
                !.next_reg = IF kind \in DestKinds \cup {"PHI"} THEN @ + 1 ELSE @,
                !.allocas = IF kind = "ALLOCA" THEN Append(@, func.node[n].data) ELSE @]

\* Only a block with one successor is given a count of its last jumps.
generate_jump ==
  /\ Generating /\ gen.at > Len(sched.code[gen.block])
  /\ gen' = [gen EXCEPT !.block = Nil]
  /\ mach' = IF Len(mach.successors[gen.block]) # 1 THEN mach
             ELSE [mach EXCEPT
                     !.code[gen.block] = Append(@, inst_jmp(mach.successors[gen.block][1])),
                     !.terminator_count[gen.block] = 1]

-----------------------------------------------------------------------------
\* Mutated: the copies are the last instructions of their blocks.
Terminators_none(b) == 0

Terminators(b) == mach.terminator_count[b]

\* The copies of a phi's inputs, each in the block of the input.
PhiCopies(code, n, temp) ==
  LET ins == Tail(func.node[n].ins)
  IN FoldLeftDomain(LAMBDA c, j :
                      LET pred == sched.late[ins[j]] IN
                      [c EXCEPT ![pred] = insert_before_n(@, inst_mov32_rr(temp, Reg(ins[j])),
                                                          Terminators(pred))],
                    code, ins)

generate_phi ==
  /\ gen.phase = "blocks" /\ gen.block = Nil /\ gen.stack = <<>> /\ gen.phis # <<>>
  /\ LET phi  == Head(gen.phis)
         temp == mach.next_reg
         home == sched.late[In(func, phi, 1)]
         copied == PhiCopies(mach.code, phi, temp)
     IN mach' = [mach EXCEPT
                   !.next_reg = @ + 1,
                   !.code = [copied EXCEPT
                               ![home] = prepend_n(@, <<inst_mov32_rr(Reg(phi), temp)>>)]]
  /\ gen' = [gen EXCEPT !.phis = Tail(@)]

generate_done ==
  /\ gen.phase = "blocks" /\ gen.block = Nil /\ gen.stack = <<>> /\ gen.phis = <<>>
  /\ gen' = [gen EXCEPT !.phase = "generated"]
  /\ UNCHANGED mach

\* Mutated: the slots of spilled registers are not counted.
FrameSize_variables == 4 * Len(SelectSeq(mach.allocas, LAMBDA a : a # Spilled))

FrameSize == 4 * Len(mach.allocas)

(* The newest alloca is the first of the list, and has offset 0.  The call *)
(* of leave goes before the last instruction of END's block.               *)
generate_frame ==
  /\ gen.phase = "generated"
  /\ LET size == FrameSize
         tail == sched.late[func.end]
         prologue == <<inst_push64(PR_EBP), inst_mov64_rr(PR_EBP, PR_ESP),
                       inst_op_ri("SUB64_RI", PR_ESP, size)>>
         begun == [mach.code EXCEPT ![Head_block] = prepend_n(@, prologue)]
     IN /\ gen' = [gen EXCEPT !.phase = "framed",
                              !.offset = [i \in DOMAIN mach.allocas |-> size - 4 * i]]
        /\ mach' = IF size = 0 THEN mach
                   ELSE [mach EXCEPT
                           !.code = [begun EXCEPT ![tail] = insert_before_n(@, inst_leave, 1)]]

GenNext == generate_start \/ generate_block \/ generate_node \/ generate_jump
           \/ generate_phi \/ generate_done
=============================================================================
