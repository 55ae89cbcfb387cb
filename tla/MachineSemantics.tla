-------------------------- MODULE MachineSemantics --------------------------
(***************************************************************************)
(* What machine code does, in the terms of SourceSemantics: a reference    *)
(* that stands for no code.  It is the processor that x64.isa writes for:  *)
(* an arithmetic instruction changes the register it prints, the first it  *)
(* reads; idiv takes edx:eax and leaves the quotient in eax.               *)
(***************************************************************************)
EXTENDS MachineCode, SourceSemantics

Arithmetic_of == [ADD32_RR |-> "ADD", SUB32_RR |-> "SUB", MUL32_RR |-> "MUL",
                  ADD32_RI |-> "ADD", SUB32_RI |-> "SUB"]

Undefined(what) == <<"UNDEFINED", what>>

InRegister(m, r) == IF r \in DOMAIN m.regs THEN m.regs[r] ELSE Undefined(r)

InSlot(m, a) ==
  IF a \in DOMAIN m.slots THEN m.slots[a]
  ELSE IF mach.allocas[a] = Spilled THEN Undefined(a)
  ELSE <<"UNSET", <<"ALLOCA", mach.allocas[a]>>>>

RECURSIVE Run(_, _, _, _)
Run(b, i, m, decisions) ==
  LET inst == mach.code[b][i]
      in(j) == InRegister(m, inst.reads[j])
      On(n) == Run(b, i + 1, n, decisions)
      Set(r, v) == On([m EXCEPT !.regs = (r :> v) @@ @])
      Keep(a, v) == On([m EXCEPT !.slots = (a :> v) @@ @])
      tested == [m EXCEPT !.preds = Append(@, m.flags)]
  IN CASE i > Len(mach.code[b])  -> Returned(m.preds, Undefined(b))
       [] inst.op \in {"ADD32_RR", "SUB32_RR", "MUL32_RR"} ->
            Set(inst.reads[1], Operation(Arithmetic_of[inst.op], in(1), in(2)))
       [] inst.op \in {"ADD32_RI", "SUB32_RI"} ->
            Set(inst.reads[1],
                Operation(Arithmetic_of[inst.op], in(1), <<"CONSTANT", inst.data>>))
       [] inst.op = "CDQ" -> Set(PR_EDX, <<"SIGN", InRegister(m, PR_EAX)>>)
       [] inst.op = "IDIV_R" ->
            LET eax == InRegister(m, PR_EAX)
                quotient == IF InRegister(m, PR_EDX) = <<"SIGN", eax>>
                              THEN Operation("SDIV", eax, in(1)) ELSE Undefined(PR_EAX)
            IN On([m EXCEPT !.regs = (PR_EAX :> quotient) @@ (PR_EDX :> Undefined(PR_EDX)) @@ @])
       [] inst.op = "KILL32"   -> Set(inst.writes[1], <<"NULL">>)
       [] inst.op = "MOV32_RI" -> Set(inst.writes[1], <<"CONSTANT", inst.data>>)
       [] inst.op = "MOV32_RR" -> Set(inst.writes[1], in(1))
       [] inst.op = "MOV32_RM" -> Set(inst.writes[1], InSlot(m, inst.data))
       [] inst.op = "MOV32_MR" -> Keep(inst.data, in(1))
       [] inst.op = "MOV32_MI" -> Keep(inst.data.loc, <<"CONSTANT", inst.data.i>>)
       [] inst.op = "TEST32"   -> On([m EXCEPT !.flags = in(1)])
       [] inst.op = "JZ" ->
            IF decisions = <<>> THEN Running(tested.preds)
            ELSE IF Head(decisions) THEN Run(b, i + 1, tested, Tail(decisions))
            ELSE Run(inst.data, 1, tested, Tail(decisions))
       [] inst.op = "JMP" -> Run(inst.data, 1, m, decisions)
       [] inst.op = "RET" -> Returned(m.preds, InRegister(m, PR_EAX))
       [] OTHER -> On(m)

MachineTrace(decisions) ==
  Run(mach.blocks[1], 1, [regs |-> <<>>, slots |-> <<>>, flags |-> Undefined(0), preds |-> <<>>],
      decisions)
=============================================================================
