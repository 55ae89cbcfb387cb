----------------------------- MODULE MachineCode ----------------------------
(***************************************************************************)
(* The machine functions of src/cringe/back/x64.c and the instructions of  *)
(* src/meta/x64.isa.  A register is a number: the physical ones first,     *)
(* then the virtual ones.  The operands an instruction names twice, "0 =   *)
(* add32_rr 0, 1", are one register when the instruction is made.          *)
(***************************************************************************)
EXTENDS Integers, SequencesExt

VARIABLE mach   \* machine_func_t

PR_EAX == 0
PR_ECX == 1
PR_EDX == 2
NUM_ALLOCATABLE_PRS == 3
PR_ESP == 3
PR_EBP == 4
FIRST_VR == 5

machine_inst_t(op, writes, reads, data) ==
  [op |-> op, writes |-> writes, reads |-> reads, data |-> data]

\* "0 = op 0, 1" and "0 = op 0"
TwoAddress == {"ADD32_RR", "SUB32_RR", "MUL32_RR", "ADD32_RI", "SUB32_RI", "SUB64_RI"}

inst_op_rr(op, x, y) == machine_inst_t(op, <<x>>, <<x, y>>, 0)
inst_op_ri(op, x, imm) == machine_inst_t(op, <<x>>, <<x>>, imm)
inst_cdq == machine_inst_t("CDQ", <<PR_EDX, PR_EAX>>, <<PR_EAX>>, 0)
inst_idiv_r(x) == machine_inst_t("IDIV_R", <<PR_EAX>>, <<x, PR_EDX, PR_EAX>>, 0)
inst_kill32(x) == machine_inst_t("KILL32", <<x>>, <<>>, 0)
inst_mov32_ri(x, imm) == machine_inst_t("MOV32_RI", <<x>>, <<>>, imm)
inst_mov32_rm(x, loc) == machine_inst_t("MOV32_RM", <<x>>, <<>>, loc)
inst_mov32_rr(x, y) == machine_inst_t("MOV32_RR", <<x>>, <<y>>, 0)
inst_mov32_mr(loc, x) == machine_inst_t("MOV32_MR", <<>>, <<x>>, loc)
inst_mov32_mi(loc, imm) == machine_inst_t("MOV32_MI", <<>>, <<>>, [loc |-> loc, i |-> imm])
inst_ret == machine_inst_t("RET", <<>>, <<>>, 0)
inst_test32(x, y) == machine_inst_t("TEST32", <<>>, <<x, y>>, 0)
inst_jz(b) == machine_inst_t("JZ", <<>>, <<>>, b)
inst_jmp(b) == machine_inst_t("JMP", <<>>, <<>>, b)
inst_push64(x) == machine_inst_t("PUSH64", <<>>, <<x>>, 0)
inst_mov64_rr(x, y) == machine_inst_t("MOV64_RR", <<x>>, <<y>>, 0)
inst_leave == machine_inst_t("LEAVE", <<>>, <<>>, 0)

(* A function is its blocks, which go by the nodes that start them, in the *)
(* order of their list, the first register not in use, and the allocas:    *)
(* alloca i is the variable it was made for, or Spilled.                   *)
Spilled == -1

Instruction(b, i) == mach.code[b][i]

Writes(inst) == ToSet(inst.writes)
Reads(inst) == ToSet(inst.reads)

prepend_n(code, insts) == insts \o code

\* Before the last n instructions.
insert_before_n(code, inst, n) == InsertAt(code, Len(code) + 1 - n, inst)
=============================================================================
