------------------------------- MODULE Parser -------------------------------
(***************************************************************************)
(* parse.c and sem_analyze of sem.c.  The parser is a machine: parse_unit  *)
(* pops a state and runs its handler, which reads tokens, pushes states,   *)
(* and emits instructions whose operands come from the value stack.        *)
(*                                                                         *)
(* The lexer may deliver any token that may follow the one before: src     *)
(* holds what it has delivered, the last one being what peek sees.  Blocks *)
(* are numbered in list order, so cur_block is the last; a block is its    *)
(* code, and an instruction is [kind, out, ins, data] with data the blocks *)
(* a jump goes to, or the place in src of the token of a constant or an    *)
(* ALLOCA, which tells numbers and variables apart.                        *)
(* A scope is a function from names to values, and a type is the name of   *)
(* the type it is an alias of.                                             *)
(***************************************************************************)
EXTENDS Integers, FiniteSets, SequencesExt

CONSTANTS Identifiers, Literals,  \* the tokens of these two kinds
          Symbols,                \* the keywords and signs that occur
          Texts                   \* bound: the kinds of text that are parsed, each with the
                                  \* tokens that may follow each token, and its longest text

EOF == "end of file"
Tokens == Identifiers \cup Literals \cup Symbols

ASSUME TextsAssumption ==
  \A k \in DOMAIN Texts : /\ Texts[k].follow \in [Tokens -> SUBSET (Tokens \cup {EOF})]
                          /\ Texts[k].longest \in Nat

VARIABLES text,   \* the kind of text: an index of Texts
          src,    \* the tokens lexed so far
          p,      \* parser_t: the stacks, and the current function's blocks
          unit,   \* sem_unit_t: the functions parsed, and how many are analyzed
          stage   \* where main is

vars == <<text, src, p, unit, stage>>

Void == "void"

peek == Last(src)

-----------------------------------------------------------------------------
(* The types.                                                              *)
OneByte == {"char", "signed char", "unsigned char"}
TwoBytes == {"short", "unsigned short"}
FourBytes == {"int", "unsigned int", "long", "unsigned long", "long long"}
EightBytes == {"unsigned long long"}

Size == [t \in OneByte \cup TwoBytes \cup FourBytes \cup EightBytes |->
           CASE t \in OneByte -> 1 [] t \in TwoBytes -> 2 [] t \in FourBytes -> 4
             [] t \in EightBytes -> 8]

Signed == {"char", "signed char", "short", "int", "long", "long long"}

\* Mutated: the smaller of the types.
larger_type_smaller(a, b) == IF Size[a] = Size[b] THEN IF a \in Signed THEN a ELSE b
                             ELSE IF Size[a] < Size[b] THEN a ELSE b
larger_type(a, b) == IF Size[a] = Size[b] THEN IF a \in Signed THEN a ELSE b
                     ELSE IF Size[a] > Size[b] THEN a ELSE b

\* The token sequences that handle_local_decl reads as a type.
IntOrNot(ts) == {ts, Append(ts, "int")}
Longs(ts) == IntOrNot(Append(ts, "long")) \cup IntOrNot(Append(Append(ts, "long"), "long"))
Sized(ts) == IntOrNot(Append(ts, "short")) \cup Longs(ts)
             \cup {Append(ts, "char"), Append(ts, "int")}
TypeTokens == Sized(<<>>) \cup UNION {Sized(<<s>>) \cup {<<s>>} : s \in {"signed", "unsigned"}}

\* The type table: a type's own name and its aliases.
TypeTable ==
  [ts \in TypeTokens |->
     CASE ts = <<"char">> -> "char"
       [] ts = <<"signed", "char">> -> "signed char"
       [] ts = <<"unsigned", "char">> -> "unsigned char"
       [] ts \in IntOrNot(<<"short">>) \cup IntOrNot(<<"signed", "short">>) -> "short"
       [] ts \in {<<"int">>} \cup IntOrNot(<<"signed">>) -> "int"
       [] ts \in IntOrNot(<<"long">>) \cup IntOrNot(<<"signed", "long">>) -> "long"
       [] ts \in IntOrNot(<<"long", "long">>) \cup IntOrNot(<<"signed", "long", "long">>) ->
            "long long"
       [] ts \in IntOrNot(<<"unsigned", "short">>) -> "unsigned short"
       [] ts \in IntOrNot(<<"unsigned">>) -> "unsigned int"
       [] ts \in IntOrNot(<<"unsigned", "long">>) -> "unsigned long"
       [] ts \in IntOrNot(<<"unsigned", "long", "long">>) -> "unsigned long long"]

-----------------------------------------------------------------------------
(* What handlers do to the parser.                                         *)
Push(q, states) == [q EXCEPT !.state_stack = @ \o states]
push_value(q, v) == [q EXCEPT !.value_stack = Append(@, v)]

value(q) == Last(q.value_stack)
pop_value(q) == [q EXCEPT !.value_stack = Front(@)]

cur_block(q) == Len(q.blocks)
new_block(q) == [q EXCEPT !.blocks = Append(@, <<>>)]

push_scope(q) == [q EXCEPT !.scope_stack = Append(@, <<>>)]
\* Mutated: the scope stays open.
pop_scope_none(q) == q
pop_scope(q) == [q EXCEPT !.scope_stack = Front(@)]

scope_find(q, name) ==
  LET level == SelectLastInSeq(q.scope_stack, LAMBDA scope : name \in DOMAIN scope)
  IN IF level = 0 THEN 0 ELSE q.scope_stack[level][name]

scope_insert(q, name, v) ==
  LET scope == Last(q.scope_stack)
  IN [q EXCEPT !.scope_stack[Len(q.scope_stack)] =
        [n \in DOMAIN scope \cup {name} |-> IF n = name THEN v ELSE scope[n]]]

\* Mutated: the definer points one instruction too far.
make_inst_in_block_late(q, b, kind, type, num_ins, data) ==
  LET left == Len(q.value_stack) - num_ins
      out  == IF type = Void THEN 0 ELSE Len(q.definers) + 1
      inst == [kind |-> kind, out |-> out, data |-> data,
               ins |-> SubSeq(q.value_stack, left + 1, Len(q.value_stack))]
      made == [q EXCEPT !.blocks[b] = Append(@, inst),
                        !.value_stack = SubSeq(@, 1, left)]
  IN CASE left < 0 -> [q EXCEPT !.aborted = TRUE]
       [] left >= 0 /\ type = Void -> made
       [] OTHER -> [push_value(made, out) EXCEPT
                            !.definers = Append(@, [block |-> b, inst |-> Len(made.blocks[b]) + 1,
                                                    type |-> type])]

\* Too few operands: _vec_pop's assertion ends the program.
make_inst_in_block(q, b, kind, type, num_ins, data) ==
  LET left == Len(q.value_stack) - num_ins
      out  == IF type = Void THEN 0 ELSE Len(q.definers) + 1
      inst == [kind |-> kind, out |-> out, data |-> data,
               ins |-> SubSeq(q.value_stack, left + 1, Len(q.value_stack))]
      made == [q EXCEPT !.blocks[b] = Append(@, inst),
                        !.value_stack = SubSeq(@, 1, left)]
  IN CASE left < 0 -> [q EXCEPT !.aborted = TRUE]
       [] left >= 0 /\ type = Void -> made
       [] OTHER -> [push_value(made, out) EXCEPT
                            !.definers = Append(@, [block |-> b, inst |-> Len(q.blocks[b]) + 1,
                                                    type |-> type])]

make_inst(q, kind, type, num_ins, data) ==
  make_inst_in_block(q, cur_block(q), kind, type, num_ins, data)

make_goto(q, from, to) == make_inst_in_block(q, from, "GOTO", Void, 0, <<to>>)

\* Mutated: the two ways out are swapped.
make_branch_swapped(q, condition, from, true_block, false_block) ==
  make_inst_in_block(push_value(q, condition), from, "BRANCH", Void, 1,
                     <<false_block, true_block>>)

make_branch(q, condition, from, true_block, false_block) ==
  make_inst_in_block(push_value(q, condition), from, "BRANCH", Void, 1,
                     <<true_block, false_block>>)

-----------------------------------------------------------------------------
(* One turn of parse_unit's loop: the state on top is popped, and its      *)
(* handler leaves the parser as q, having read tokens or none.             *)
At(kind) == stage = "parsing" /\ p.state_stack # <<>> /\ Last(p.state_stack).kind = kind

state == Last(p.state_stack)
popped == [p EXCEPT !.state_stack = Front(@)]

Nothing == [state_stack |-> <<>>, value_stack |-> <<>>, definers |-> <<>>, scope_stack |-> <<>>,
            blocks |-> <<>>, aborted |-> FALSE]

\* The compiler stops, by an error, or by an assertion.
Stop(how) == /\ stage' = how /\ p' = Nothing /\ src' = <<EOF>>
             /\ unit' = [unit EXCEPT !.funcs = <<>>] /\ UNCHANGED text

Error == Stop("failed")

Keeping(q) == IF q.aborted THEN Stop("aborted")
              ELSE p' = q /\ UNCHANGED <<text, src, unit, stage>>

\* The token that peek saw is consumed, and the tokens ts after it.
Reading(ts, q) ==
  LET read == <<peek>> \o ts
      follow == Texts[text].follow
      longest == Texts[text].longest
  IN
  /\ Len(src) + Len(ts) <= longest
  /\ \A i \in DOMAIN ts : ts[i] \in follow[read[i]]
  /\ \E next \in IF Len(src) + Len(ts) < longest THEN follow[Last(read)] ELSE {EOF} :
       p' = q /\ src' = src \o ts \o <<next>>
  /\ UNCHANGED <<text, unit, stage>>

Init == /\ text \in DOMAIN Texts
        /\ src \in {<<first>> : first \in Tokens \cup {EOF}}
        /\ p = [Nothing EXCEPT !.state_stack = <<[kind |-> "top_level"]>>]
        /\ unit = [funcs |-> <<>>, analyzed |-> 0, success |-> TRUE]
        /\ stage = "parsing"

-----------------------------------------------------------------------------
(* Declarations and statements.                                            *)
handle_top_level ==
  /\ At("top_level")
  /\ CASE peek = "int" -> Keeping(Push(popped, <<[kind |-> "top_level"], [kind |-> "function"]>>))
       [] peek = EOF   -> Keeping(popped)
       [] OTHER        -> Error

new_func(q) == [q EXCEPT !.definers = <<>>, !.value_stack = <<>>, !.blocks = <<<<>>>>]

handle_function ==
  /\ At("function")
  /\ \/ Error
     \/ \E name \in Identifiers :
          Reading(<<name, "(", ")">>,
                  Push(new_func(popped), <<[kind |-> "complete_function"], [kind |-> "block"]>>))

handle_complete_function ==
  /\ At("complete_function")
  /\ unit' = [unit EXCEPT !.funcs = Append(@, p.blocks)]
  /\ p' = [popped EXCEPT !.definers = <<>>]
  /\ UNCHANGED <<text, src, stage>>

handle_block ==
  /\ At("block")
  /\ IF peek = "{" THEN Reading(<<>>, push_scope(Push(popped, <<[kind |-> "block_stmt"]>>)))
     ELSE Error

handle_block_stmt ==
  /\ At("block_stmt")
  /\ CASE peek = "}" -> Reading(<<>>, pop_scope(popped))
       [] peek = EOF -> Error
       [] OTHER -> Keeping(Push(popped, <<[kind |-> "block_stmt"],
                                          [kind |-> "stmt", dependent |-> FALSE]>>))

TypeWords == {"char", "short", "signed", "unsigned", "int", "long"}

handle_stmt ==
  /\ At("stmt")
  /\ CASE peek \in TypeWords -> IF state.dependent THEN Error
                                ELSE Keeping(Push(popped, <<[kind |-> "local_decl"]>>))
       [] peek = "{"      -> Keeping(Push(popped, <<[kind |-> "block"]>>))
       [] peek = "if"     -> Keeping(Push(popped, <<[kind |-> "if"]>>))
       [] peek = "while"  -> Keeping(Push(popped, <<[kind |-> "while"]>>))
       [] peek = "return" ->
            \/ Reading(<<";">>, new_block(make_inst(popped, "RETURN", Void, 0, <<>>)))
            \/ /\ Reading(<<>>, Push(popped, <<[kind |-> "complete_return"],
                                               [kind |-> "semi"], [kind |-> "expr"]>>))
               /\ Last(src') # ";"
       [] OTHER -> Keeping(Push(popped, <<[kind |-> "semi"], [kind |-> "expr"]>>))

\* Mutated: no block is made for what follows.
handle_complete_return_same_block ==
  At("complete_return") /\ Keeping(make_inst(popped, "RETURN", Void, 1, <<>>))

handle_complete_return ==
  At("complete_return") /\ Keeping(new_block(make_inst(popped, "RETURN", Void, 1, <<>>)))

handle_semi == At("semi") /\ IF peek = ";" THEN Reading(<<>>, popped) ELSE Error

\* The tokens after the first one are a type as long as possible, a name, and a semicolon.
handle_local_decl ==
  /\ At("local_decl")
  /\ \/ Error
     \/ \E ts \in TypeTokens, name \in Identifiers :
          /\ ToSet(ts) \subseteq Symbols /\ ts[1] = peek
          /\ name \notin DOMAIN Last(p.scope_stack)
          /\ LET made == make_inst(popped, "ALLOCA", TypeTable[ts], 0, Len(src))
             IN Reading(Tail(ts) \o <<name, ";">>,
                        scope_insert(pop_value(made), name, value(made)))

-----------------------------------------------------------------------------
(* Branches and loops.  The blocks that a jump leaves and enters wait in   *)
(* the states until both are known.                                        *)
handle_if ==
  /\ At("if")
  /\ \/ Error
     \/ Reading(<<"(">>, Push(popped, <<[kind |-> "if_body"], [kind |-> "expr"]>>))

handle_if_body ==
  /\ At("if_body")
  /\ IF peek # ")" THEN Error
     ELSE LET q == new_block(popped) IN
          Reading(<<>>, Push(pop_value(q),
                             <<[kind |-> "if_else", condition |-> value(q),
                                head_tail |-> cur_block(p), body_head |-> cur_block(q)],
                               [kind |-> "stmt", dependent |-> TRUE]>>))

handle_if_else ==
  /\ At("if_else")
  /\ LET q == new_block(popped)
         branch(r) == make_branch(r, state.condition, state.head_tail, state.body_head,
                                  cur_block(q))
     IN IF peek = "else"
          THEN Reading(<<>>, Push(branch(q), <<[kind |-> "complete_if_else",
                                                body_tail |-> cur_block(p)],
                                               [kind |-> "stmt", dependent |-> TRUE]>>))
          ELSE Keeping(branch(make_goto(q, cur_block(p), cur_block(q))))

handle_complete_if_else ==
  /\ At("complete_if_else")
  /\ LET q == new_block(popped)
     IN Keeping(make_goto(make_goto(q, state.body_tail, cur_block(q)), cur_block(p), cur_block(q)))

handle_while ==
  /\ At("while")
  /\ LET q == new_block(popped)
     IN \/ Error
        \/ Reading(<<"(">>, Push(make_goto(q, cur_block(p), cur_block(q)),
                                 <<[kind |-> "while_body", head_head |-> cur_block(q)],
                                   [kind |-> "expr"]>>))

handle_while_body ==
  /\ At("while_body")
  /\ IF peek # ")" THEN Error
     ELSE LET q == new_block(popped) IN
          Reading(<<>>, Push(pop_value(q),
                             <<[kind |-> "complete_while", condition |-> value(q),
                                head_head |-> state.head_head, head_tail |-> cur_block(p),
                                body_head |-> cur_block(q)],
                               [kind |-> "stmt", dependent |-> TRUE]>>))

\* Mutated: the block the jump back leaves is read after the new block is made.
handle_complete_while_late ==
  /\ At("complete_while")
  /\ LET q == new_block(popped)
     IN Keeping(make_branch(make_goto(q, cur_block(q), state.head_head), state.condition,
                            state.head_tail, state.body_head, cur_block(q)))

handle_complete_while ==
  /\ At("complete_while")
  /\ LET q == new_block(popped)
     IN Keeping(make_branch(make_goto(q, cur_block(p), state.head_head), state.condition,
                            state.head_tail, state.body_head, cur_block(q)))

-----------------------------------------------------------------------------
(* Expressions, by precedence climbing.                                    *)
bin_prec(token, is_source) ==
  CASE token \in {"*", "/"} -> 20
    [] token \in {"+", "-"} -> 10
    [] token = "="          -> IF is_source THEN 6 ELSE 7
    [] OTHER                -> 0

bin_kind(token) ==
  CASE token = "*" -> "MUL" [] token = "/" -> "DIV" [] token = "+" -> "ADD" [] token = "-" -> "SUB"

Binary(prec) == [kind |-> "binary", prec |-> prec]
Infix(prec) == [kind |-> "binary_infix", prec |-> prec]

handle_expr == At("expr") /\ Keeping(Push(popped, <<Binary(0)>>))

handle_binary ==
  At("binary") /\ Keeping(Push(popped, <<Infix(state.prec), [kind |-> "primary"]>>))

handle_binary_infix ==
  /\ At("binary_infix")
  /\ IF bin_prec(peek, FALSE) > state.prec
       THEN Reading(<<>>, Push(popped, <<Infix(state.prec),
                                         [kind |-> "complete_binary", op |-> peek],
                                         Binary(bin_prec(peek, TRUE))>>))
       ELSE Keeping(popped)

handle_primary ==
  /\ At("primary")
  /\ CASE peek \in Literals    -> Reading(<<>>, make_inst(popped, "INT_CONST", "int", 0, Len(src)))
       [] peek \in Identifiers ->
            LET v == scope_find(p, peek) IN
            IF v = 0 THEN Error
            ELSE Reading(<<>>, make_inst(push_value(popped, v), "LOAD", p.definers[v].type,
                                         1, <<>>))
       [] OTHER -> Error

Definition(q, v) == q.blocks[q.definers[v].block][q.definers[v].inst]

\* The instruction that made the left side must be a load: its address is assigned to.
complete_assignment(q, left, right) ==
  LET address == Definition(q, left).ins[1]
      stored  == make_inst(push_value(push_value(q, address), right), "STORE", Void, 2, <<>>)
  IN push_value(stored, right)

\* The operands go back on the stack only when they are not of one type.
complete_arithmetic(q, op, left, right) ==
  LET type(v) == q.definers[v].type
      larger == larger_type(type(left), type(right))
      Cast(r, v) == IF type(v) = larger THEN push_value(r, v)
                    ELSE make_inst(push_value(r, v), "CAST", larger, 1, <<>>)
  IN IF type(left) = type(right) THEN make_inst(q, bin_kind(op), type(left), 2, <<>>)
     ELSE make_inst(Cast(Cast(q, left), right), bin_kind(op), larger, 2, <<>>)

handle_complete_binary ==
  /\ At("complete_binary")
  /\ LET right == value(popped)
         left  == value(pop_value(popped))
         q     == pop_value(pop_value(popped))
     IN CASE Len(p.value_stack) < 2  -> Stop("aborted")
          [] Len(p.value_stack) >= 2 /\ state.op # "=" ->
               Keeping(complete_arithmetic(q, state.op, left, right))
          [] Len(p.value_stack) >= 2 /\ state.op = "=" ->
               IF Definition(p, left).kind # "LOAD" THEN Error
               ELSE Keeping(complete_assignment(q, left, right))

-----------------------------------------------------------------------------
(* main: what parse_unit returns is analyzed, function by function.        *)
parse_unit_end ==
  /\ stage = "parsing" /\ p.state_stack = <<>>
  /\ stage' = "parsed"
  /\ UNCHANGED <<text, src, p, unit>>

sem_compute_successors(code) ==
  IF code # <<>> /\ Last(code).kind \in {"GOTO", "BRANCH"} THEN ToSet(Last(code).data) ELSE {}

\* The set B has the first block, and the blocks that its blocks jump to.
IsClosed(cfg, B) == 1 \in B /\ \A b \in B : sem_compute_successors(cfg[b]) \subseteq B

\* The blocks that the search from the first one gets to.
Reachable(cfg) == {b \in DOMAIN cfg : \A B \in SUBSET DOMAIN cfg : IsClosed(cfg, B) => b \in B}

\* Mutated: jumps keep the old numbers.
Kept_old_numbers(cfg, B) ==
  LET old(n) == CHOOSE b \in B : Cardinality({c \in B : c <= b}) = n
  IN [n \in 1..Cardinality(B) |-> cfg[old(n)]]

\* The blocks of the set B, numbered anew.
Kept(cfg, B) ==
  LET new(b) == Cardinality({c \in B : c <= b})
      Renumbered(inst) == IF inst.kind \in {"GOTO", "BRANCH"}
                            THEN [inst EXCEPT !.data = [i \in DOMAIN @ |-> new(@[i])]]
                            ELSE inst
      old(n) == CHOOSE b \in B : new(b) = n
  IN [n \in 1..Cardinality(B) |-> [i \in DOMAIN cfg[old(n)] |-> Renumbered(cfg[old(n)][i])]]

\* SEM_BLOCK_FLAG_CONTAINS_USER_CODE
UserCode(code) == \E i \in DOMAIN code : code[i].kind # "GOTO"

sem_analyze ==
  /\ stage = "parsed" /\ unit.analyzed < Len(unit.funcs)
  /\ LET n   == unit.analyzed + 1
         cfg == unit.funcs[n]
         B   == Reachable(cfg)
     IN unit' = [funcs    |-> [unit.funcs EXCEPT ![n] = Kept(cfg, B)],
                 analyzed |-> n,
                 success  |-> unit.success /\ \A b \in DOMAIN cfg \ B : ~UserCode(cfg[b])]
  /\ UNCHANGED <<text, src, p, stage>>

sem_analyze_end ==
  /\ stage = "parsed" /\ unit.analyzed = Len(unit.funcs)
  /\ stage' = IF unit.success THEN "analyzed" ELSE "rejected"
  /\ UNCHANGED <<text, src, p, unit>>

-----------------------------------------------------------------------------
Next == \/ handle_top_level \/ handle_function \/ handle_complete_function
        \/ handle_block \/ handle_block_stmt \/ handle_stmt \/ handle_complete_return
        \/ handle_semi \/ handle_local_decl
        \/ handle_if \/ handle_if_body \/ handle_if_else \/ handle_complete_if_else
        \/ handle_while \/ handle_while_body \/ handle_complete_while
        \/ handle_expr \/ handle_binary \/ handle_binary_infix \/ handle_primary
        \/ handle_complete_binary
        \/ parse_unit_end \/ sem_analyze \/ sem_analyze_end

Spec == Init /\ [][Next]_vars /\ WF_vars(Next)

-----------------------------------------------------------------------------
(* What the handlers keep between them.                                    *)
Terminators == {"GOTO", "BRANCH", "RETURN"}

ArithmeticKinds == {"ADD", "SUB", "MUL", "DIV"}

\* Instruction i of the block joins operands of two types: one of them was cast just before.
OfTwoTypes(code, i) == i > 1 /\ code[i-1].kind = "CAST"

(* A value's definer is the instruction that made it, so that the look     *)
(* through definer->block->code at parse.c:425 finds the load.             *)
DefinersPointBack ==
  \A v \in DOMAIN p.definers :
    LET d == p.definers[v] IN
    /\ d.block \in DOMAIN p.blocks /\ d.inst \in DOMAIN p.blocks[d.block]
    /\ p.blocks[d.block][d.inst].out = v

(* An operator of two types: both operands come to have the result's type, *)
(* and neither loses bytes (parse.c:444-467).                              *)
TypesAgree ==
  LET type(v) == p.definers[v].type IN
  \A v \in DOMAIN p.definers :
    LET d == p.definers[v]
        inst == Definition(p, v)
    IN /\ inst.kind \in ArithmeticKinds /\ OfTwoTypes(p.blocks[d.block], d.inst)
            => \A x \in ToSet(inst.ins) : type(x) = type(v)
       /\ inst.kind = "CAST" => Size[type(v)] >= Size[type(inst.ins[1])]

\* The blocks whose jumps are still to be made: states of the stack name them.
Named(s) == CASE s.kind \in {"if_else", "complete_while"} -> {s.head_tail}
              [] s.kind = "complete_if_else" -> {s.body_tail}
              [] OTHER -> {}

Pending == UNION {Named(p.state_stack[i]) : i \in DOMAIN p.state_stack}

Jumps(cfg) == {b \in DOMAIN cfg : \E i \in DOMAIN cfg[b] : cfg[b][i].kind \in Terminators}

(* Every block ends with the one jump or return it has, except the current *)
(* block and those whose jump a pending state will make.                   *)
BlocksEndOnce ==
  /\ p.blocks # <<>> => Jumps(p.blocks) = DOMAIN p.blocks \ (Pending \cup {cur_block(p)})
  /\ \A b \in Jumps(p.blocks) : \A i \in DOMAIN p.blocks[b] :
       p.blocks[b][i].kind \in Terminators <=> i = Len(p.blocks[b])

(* There is a scope for each block that is open, so that parse.c:88 finds  *)
(* one and the assertion at parse.c:165 finds none.                        *)
ScopesAreOpenBlocks ==
  Len(p.scope_stack)
  = Cardinality({i \in DOMAIN p.state_stack : p.state_stack[i].kind = "block_stmt"})

(* After the analysis jumps go to blocks of the function, all are reached, *)
(* and only the last one may fall off the end.                             *)
AnalyzedIsClosed ==
  \A k \in 1..unit.analyzed :
    LET cfg == unit.funcs[k] IN
    /\ \A b \in DOMAIN cfg : sem_compute_successors(cfg[b]) \subseteq DOMAIN cfg
    /\ DOMAIN cfg = Reachable(cfg)
    /\ DOMAIN cfg \ Jumps(cfg) \subseteq {Len(cfg)}
=============================================================================
