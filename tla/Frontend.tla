------------------------------- MODULE Frontend -----------------------------
(***************************************************************************)
(* What the parser and sem_analyze promise: the functions they hand to     *)
(* lowering do what the text means, and the parser's stacks stay in step.  *)
(***************************************************************************)
EXTENDS Parser, Meaning

CONSTANT MaxTests   \* bound: the branches a trace decides

Decisions == [1..MaxTests -> BOOLEAN]

(* A function that passes tests and returns what its text means: names are *)
(* found in the innermost scope, operators bind as in C, assignments from  *)
(* the right, and jumps go where if, else, while and return say.  Only     *)
(* functions whose operators join operands of two types: for one type see  *)
(* NothingPoppedFromEmpty.                                                 *)
MeaningKept ==
  stage = "analyzed" =>
    \A k \in DOMAIN unit.funcs :
      LET cfg == unit.funcs[k] IN
      (\A b \in DOMAIN cfg : \A i \in DOMAIN cfg[b] :
         cfg[b][i].kind \in ArithmeticKinds => OfTwoTypes(cfg[b], i))
      => \A d \in Decisions : SourceTrace(cfg, d) = MeaningTrace(src, k, d)

(* sem_analyze refuses a function exactly if it has a statement that       *)
(* control cannot reach, whatever its conditions are.                      *)
RefusesUnreachable ==
  stage \in {"analyzed", "rejected"} =>
    (stage = "rejected" <=> \E k \in DOMAIN unit.funcs : HasDead(src, Body(src, k)))

(* vec.c asserts that nothing is popped from an empty vector.              *)
NothingPoppedFromEmpty == stage # "aborted"
=============================================================================
