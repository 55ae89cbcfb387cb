------------------------------- MODULE Meaning ------------------------------
(***************************************************************************)
(* What a source text means, read off its tokens: the reference for the    *)
(* parser, which stands for none of its code.  Statements are executed     *)
(* where they stand, along one choice of branches; a term is split at the  *)
(* operator that binds least, and a variable is the place of its           *)
(* declaration.  The text has to be one that the grammar allows.           *)
(***************************************************************************)
EXTENDS SourceSemantics, SequencesExt

\* Where the first of these tokens is, from i on.
Next1(text, tokens, i) == CHOOSE j \in i..Len(text) :
                            /\ text[j] \in tokens
                            /\ \A k \in i..j-1 : text[k] \notin tokens

\* The place after the statement at i, and after the statements from i to their brace.
RECURSIVE After(_, _), AfterAll(_, _)
After(text, i) ==
  CASE text[i] = "{"     -> AfterAll(text, i + 1)
    [] text[i] = "while" -> After(text, Next1(text, {")"}, i) + 1)
    [] text[i] = "if"    -> LET then == After(text, Next1(text, {")"}, i) + 1)
                            IN IF text[then] = "else" THEN After(text, then + 1) ELSE then
    [] OTHER             -> Next1(text, {";"}, i) + 1

AfterAll(text, i) == IF text[i] = "}" THEN i + 1 ELSE AfterAll(text, After(text, i))

\* The opening brace of the k-th function.
RECURSIVE Body(_, _)
Body(text, k) == IF k = 1 THEN 5 ELSE After(text, Body(text, k - 1)) + 4

-----------------------------------------------------------------------------
(* A state of the execution: the scopes, from names to places; the memory; *)
(* the predicates tested and the decisions left; and, in the end, a result.*)
Place(s, name) ==
  LET level == SelectLastInSeq(s.scopes, LAMBDA scope : name \in DOMAIN scope)
  IN <<"ALLOCA", s.scopes[level][name]>>

Operator == "+" :> "ADD" @@ "-" :> "SUB" @@ "*" :> "MUL" @@ "/" :> "SDIV"

\* The term between lo and hi, which assigns nothing.
RECURSIVE Term(_, _, _, _)
Term(text, lo, hi, s) ==
  LET at(tokens) == {i \in lo..hi : text[i] \in tokens}
      last(S) == CHOOSE i \in S : \A j \in S : j <= i
      split(i) == Operation(Operator[text[i]], Term(text, lo, i - 1, s),
                            Term(text, i + 1, hi, s))
  IN CASE at({"+", "-"}) # {} -> split(last(at({"+", "-"})))
       [] at({"+", "-"}) = {} /\ at({"*", "/"}) # {} -> split(last(at({"*", "/"})))
       [] OTHER -> IF \E scope \in ToSet(s.scopes) : text[lo] \in DOMAIN scope
                     THEN Stored(s.mem, Place(s, text[lo])) ELSE <<"CONSTANT", lo>>

\* The expression between lo and hi: the state after it, and its value.
RECURSIVE Evaluate(_, _, _, _)
Evaluate(text, lo, hi, s) ==
  IF text[lo + 1] # "=" THEN [state |-> s, value |-> Term(text, lo, hi, s)]
  ELSE LET r == Evaluate(text, lo + 2, hi, s)
       IN [r EXCEPT !.state.mem = (Place(s, text[lo]) :> r.value) @@ @]

\* The state that has decided whether the expression between lo and hi holds.
Tested(text, lo, hi, s) ==
  LET r      == Evaluate(text, lo, hi, s)
      tested == [r.state EXCEPT !.preds = Append(@, r.value)]
  IN IF s.decisions = <<>> THEN [tested EXCEPT !.result = <<"RUNNING">>]
     ELSE [tested EXCEPT !.decisions = Tail(@)]

RECURSIVE Run(_, _, _), RunAll(_, _, _)
Run(text, i, s) ==
  LET close == Next1(text, {")"}, i)
      semi  == Next1(text, {";"}, i)
      tested == Tested(text, i + 2, close - 1, s)
      holds == Head(s.decisions)
      then  == After(text, close + 1)
      r     == Evaluate(text, i + 1, semi - 1, s)
  IN CASE s.result # <<>> -> s
       [] s.result = <<>> /\ text[i] = "{" ->
            [RunAll(text, i + 1, [s EXCEPT !.scopes = Append(@, <<>>)]) EXCEPT !.scopes = Front(@)]
       [] s.result = <<>> /\ text[i] = "if" ->
            IF tested.result = <<>> /\ holds THEN Run(text, close + 1, tested)
            ELSE IF tested.result = <<>> /\ text[then] = "else" THEN Run(text, then + 1, tested)
            ELSE tested
       [] s.result = <<>> /\ text[i] = "while" ->
            IF tested.result # <<>> THEN tested ELSE IF ~holds THEN tested
            ELSE Run(text, i, Run(text, close + 1, tested))
       [] s.result = <<>> /\ text[i] = "return" ->
            IF semi = i + 1 THEN [s EXCEPT !.result = <<"NULL">>]
            ELSE [r.state EXCEPT !.result = r.value]
       [] s.result = <<>> /\ text[i] \in {"char", "short", "int", "long", "signed", "unsigned"} ->
            [s EXCEPT !.scopes[Len(s.scopes)] = (text[semi - 1] :> i) @@ @]
       [] OTHER -> Evaluate(text, i, semi - 1, s).state

RunAll(text, i, s) == IF text[i] = "}" THEN s
                      ELSE RunAll(text, After(text, i), Run(text, i, s))

MeaningTrace(text, k, decisions) ==
  LET s == Run(text, Body(text, k), [scopes |-> <<>>, mem |-> <<>>, preds |-> <<>>,
                                     decisions |-> decisions, result |-> <<>>])
  IN Returned(s.preds, IF s.result = <<>> THEN <<"NULL">> ELSE s.result)

-----------------------------------------------------------------------------
(* Whether control leaves the statement at i by its end, and whether it    *)
(* holds a statement that control cannot reach; an empty block is none.    *)
RECURSIVE Completes(_, _), AllComplete(_, _)
Completes(text, i) ==
  LET then == Next1(text, {")"}, i) + 1
      else == After(text, then)
  IN CASE text[i] = "{"      -> AllComplete(text, i + 1)
       [] text[i] = "return" -> FALSE
       [] text[i] = "if"     -> \/ Completes(text, then)
                                \/ text[else] # "else" \/ Completes(text, else + 1)
       [] OTHER              -> TRUE

AllComplete(text, i) ==
  text[i] # "}" => Completes(text, i) /\ AllComplete(text, After(text, i))

\* Whether the statement at i has anything to execute.
RECURSIVE Acts(_, _)
Acts(text, i) == IF text[i] # "{" THEN TRUE
                 ELSE \E j \in i + 1..After(text, i) - 2 : text[j] \notin {"{", "}"}

RECURSIVE HasDead(_, _), HasDeadFrom(_, _, _)
HasDead(text, i) ==
  LET then == Next1(text, {")"}, i) + 1
      else == After(text, then)
  IN CASE text[i] = "{"     -> HasDeadFrom(text, i + 1, TRUE)
       [] text[i] = "while" -> HasDead(text, then)
       [] text[i] = "if"    -> \/ HasDead(text, then)
                               \/ text[else] = "else" /\ HasDead(text, else + 1)
       [] OTHER             -> FALSE

HasDeadFrom(text, i, reached) ==
  /\ text[i] # "}"
  /\ \/ ~reached /\ Acts(text, i)
     \/ HasDead(text, i)
     \/ HasDeadFrom(text, After(text, i), reached /\ Completes(text, i))
=============================================================================
