----------------------------- MODULE Execution ------------------------------
(***************************************************************************)
(* What a scheduled function does when its blocks are run in order, with   *)
(* one memory that stores change, in the terms of SourceSemantics.  A      *)
(* reference that stands for no code: it says what the schedule is for.    *)
(***************************************************************************)
EXTENDS Scheduler, SourceSemantics

\* The value of a node, in a run that has computed those in val.
Got(val, n) == IF n \in DOMAIN val THEN val[n] ELSE <<"UNDEFINED", n>>

\* The phis of a block take the inputs of the way by which it is entered.
Entered(val, b, from) ==
  LET phis == {n \in ToSet(sched.code[b]) : block_phi(n)}
      way  == CHOOSE i \in DOMAIN func.node[b].ins : sched.late[In(func, b, i)] = from
  IN IF phis = {} THEN val
     ELSE [n \in phis |-> Got(val, In(func, n, way + 1))] @@ val

RECURSIVE Perform(_, _, _, _, _, _)
Perform(b, i, val, mem, preds, decisions) ==
  LET n == sched.code[b][i]
      arg(j) == Got(val, In(func, n, j))
      On(v, m) == Perform(b, i + 1, v, m, preds, decisions)
      Is(v) == On((n :> v) @@ val, mem)
      Goto(c, p, d) == Perform(c, 1, Entered(val, c, b), mem, p, d)
      side == {c \in ToSet(sched.successors[b]) :
                 Kind(func, c) = IF Head(decisions) THEN "BRANCH_TRUE" ELSE "BRANCH_FALSE"}
      tested == Append(preds, arg(2))
  IN CASE i > Len(sched.code[b]) -> Goto(sched.successors[b][1], preds, decisions)
       [] Kind(func, n) \in {"CONSTANT", "ALLOCA"} -> Is(<<Kind(func, n), func.node[n].data>>)
       [] Kind(func, n) = "NULL"  -> Is(<<"NULL">>)
       [] Kind(func, n) \in BinaryKinds -> Is(Operation(Kind(func, n), arg(1), arg(2)))
       [] Kind(func, n) = "LOAD"  -> Is(Stored(mem, arg(Addr)))
       [] Kind(func, n) = "STORE" -> On(val, (arg(Addr) :> arg(Value)) @@ mem)
       [] Kind(func, n) = "END"   -> Returned(preds, arg(3))
       [] Kind(func, n) = "BRANCH" ->
            IF decisions = <<>> THEN Running(tested)
            ELSE Goto(CHOOSE c \in side : TRUE, tested, Tail(decisions))
       [] OTHER -> On(val, mem)

ScheduleTrace(decisions) == Perform(Head_block, 1, <<>>, <<>>, <<>>, decisions)
=============================================================================
