--------------------------- MODULE SourceSemantics --------------------------
(***************************************************************************)
(* What a control-flow graph does along one choice of branches: the        *)
(* predicates it tests, in order, and the value it returns.  Values are    *)
(* terms over the constants and the unset variables, so that two different *)
(* computations never agree by chance.                                     *)
(*                                                                         *)
(* This is a reference the passes are checked against: it stands for no    *)
(* code of the compiler.                                                   *)
(***************************************************************************)
EXTENDS Naturals, Sequences, TLC

Running(preds) == [preds |-> preds, result |-> <<"RUNNING">>]
Returned(preds, v) == [preds |-> preds, result |-> v]

\* Addition is commutative: instruction selection swaps the operands.
Operation(kind, a, b) == IF kind = "ADD" THEN <<kind, {a, b}>> ELSE <<kind, a, b>>

Stored(mem, address) == IF address \in DOMAIN mem THEN mem[address] ELSE <<"UNSET", address>>

(* Instruction i of block b, with the values and the memory it finds and   *)
(* the branches still to be decided.                                       *)
RECURSIVE Execute(_, _, _, _, _, _, _)
Execute(cfg, b, i, val, mem, preds, decisions) ==
  LET inst == cfg[b][i]
      arg(j) == val[inst.ins[j]]
      Out(v) == Execute(cfg, b, i + 1, (inst.out :> v) @@ val, mem, preds, decisions)
      Goto(c, p, d) == Execute(cfg, c, 1, val, mem, p, d)
      tested == Append(preds, arg(1))
  IN CASE i > Len(cfg[b])           -> Returned(preds, <<"NULL">>)
       [] inst.kind = "INT_CONST"   -> Out(<<"CONSTANT", inst.data>>)
       [] inst.kind = "ALLOCA"      -> Out(<<"ALLOCA", inst.data>>)
       [] inst.kind = "CAST"        -> Out(arg(1))
       [] inst.kind = "DIV"         -> Out(Operation("SDIV", arg(1), arg(2)))
       [] inst.kind \in {"ADD", "SUB", "MUL"} -> Out(Operation(inst.kind, arg(1), arg(2)))
       [] inst.kind = "LOAD"        -> Out(Stored(mem, arg(1)))
       [] inst.kind = "STORE"       ->
            Execute(cfg, b, i + 1, val, (arg(1) :> arg(2)) @@ mem, preds, decisions)
       [] inst.kind = "RETURN"      ->
            Returned(preds, IF inst.ins = <<>> THEN <<"NULL">> ELSE arg(1))
       [] inst.kind = "GOTO"        -> Goto(inst.data[1], preds, decisions)
       [] inst.kind = "BRANCH"      ->
            IF decisions = <<>> THEN Running(tested)
            ELSE Goto(inst.data[IF Head(decisions) THEN 1 ELSE 2], tested, Tail(decisions))

SourceTrace(cfg, decisions) == Execute(cfg, 1, 1, <<>>, <<>>, <<>>, decisions)
=============================================================================
