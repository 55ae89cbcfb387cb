---------------------------- MODULE ParserProofs -----------------------------
(***************************************************************************)
(* The parser's copies of one thing stay in step, whatever tokens the      *)
(* lexer delivers: scopes and open blocks, values and the instructions     *)
(* that made them, operands and their types, blocks and the states that    *)
(* will end them.                                                          *)
(***************************************************************************)
EXTENDS Parser, FiniteSetTheorems, SequenceTheorems, WellFoundedInduction, TLAPS

Fields == {"state_stack", "value_stack", "definers", "scope_stack", "blocks", "aborted"}

TypeNames == DOMAIN Size

InstKinds == Terminators \cup ArithmeticKinds
             \cup {"ALLOCA", "INT_CONST", "LOAD", "STORE", "CAST"}

Insts == [kind : InstKinds, out : Nat, ins : Seq(Nat), data : Nat \cup Seq(Nat)]

Definers == [block : Nat, inst : Nat, type : TypeNames]

Scopes == UNION {[names -> Nat] : names \in SUBSET Identifiers}

\* The states of an expression, and the others within a function.
ExprKinds == {"expr", "binary", "binary_infix", "primary", "complete_binary"}
InnerKinds == ExprKinds \cup {"block", "block_stmt", "stmt", "local_decl", "if", "if_body",
                              "if_else", "complete_if_else", "while", "while_body",
                              "complete_while", "complete_return", "semi"}

States ==
  [kind : {"top_level", "function", "complete_function", "block", "block_stmt", "local_decl",
           "if", "if_body", "while", "complete_return", "semi", "expr", "primary"}]
  \cup [kind : {"stmt"}, dependent : BOOLEAN]
  \cup [kind : {"if_else"}, condition : Nat, head_tail : Nat, body_head : Nat]
  \cup [kind : {"complete_if_else"}, body_tail : Nat]
  \cup [kind : {"while_body"}, head_head : Nat]
  \cup [kind : {"complete_while"}, condition : Nat, head_head : Nat, head_tail : Nat,
        body_head : Nat]
  \cup [kind : {"binary", "binary_infix"}, prec : Nat]
  \cup [kind : {"complete_binary"}, op : {"*", "/", "+", "-", "="}]

\* States that take the value an expression above them leaves.
Consumers == {"binary_infix", "if_body", "while_body"}

Condition(s) == IF s.kind \in {"if_else", "complete_while"} THEN {s.condition} ELSE {}

-----------------------------------------------------------------------------
(* The inductive invariant, of a parser q in a function.                   *)
Values(q) == 1..Len(q.definers)

Typed(q) ==
  /\ DOMAIN q = Fields
  /\ q.value_stack \in Seq(Nat) /\ q.definers \in Seq(Definers)
  /\ q.scope_stack \in Seq(Scopes) /\ q.blocks \in Seq(Seq(Insts))
  /\ q.aborted \in BOOLEAN

\* Whatever stands for a value has a definer.
ValuesAreDefined(q) ==
  /\ \A i \in DOMAIN q.value_stack : q.value_stack[i] \in Values(q)
  /\ \A i \in DOMAIN q.scope_stack : \A name \in DOMAIN q.scope_stack[i] :
       q.scope_stack[i][name] \in Values(q)
  /\ \A b \in DOMAIN q.blocks : \A i \in DOMAIN q.blocks[b] :
       \A j \in DOMAIN q.blocks[b][i].ins : q.blocks[b][i].ins[j] \in Values(q)

PointBack(q) ==
  \A v \in DOMAIN q.definers :
    LET d == q.definers[v] IN
    /\ d.block \in DOMAIN q.blocks /\ d.inst \in DOMAIN q.blocks[d.block]
    /\ q.blocks[d.block][d.inst].out = v

\* Instruction i of the code, made as a value of the type, is as TypesAgree says; and a load
\* has the operand that an assignment takes over.
Agrees(q, code, i, type) ==
  /\ code[i].kind \in ArithmeticKinds /\ OfTwoTypes(code, i)
       => \A j \in DOMAIN code[i].ins : q.definers[code[i].ins[j]].type = type
  /\ code[i].kind = "CAST" =>
       code[i].ins # <<>> /\ Size[type] >= Size[q.definers[code[i].ins[1]].type]
  /\ code[i].kind = "LOAD" => code[i].ins # <<>>

Agreeing(q) ==
  \A v \in DOMAIN q.definers :
    Agrees(q, q.blocks[q.definers[v].block], q.definers[v].inst, q.definers[v].type)

\* A cast is never the last instruction of a block when a handler begins.
NoCastLast(q) == \A b \in DOMAIN q.blocks : q.blocks[b] # <<>> => Last(q.blocks[b]).kind # "CAST"

EndsOnce(cfg) ==
  \A b \in Jumps(cfg) : \A i \in DOMAIN cfg[b] : cfg[b][i].kind \in Terminators <=> i = Len(cfg[b])

Unended(cfg) == DOMAIN cfg \ Jumps(cfg)

Built(q) == /\ Typed(q) /\ q.blocks # <<>>
            /\ ValuesAreDefined(q) /\ PointBack(q) /\ Agreeing(q) /\ EndsOnce(q.blocks)

\* The states of the stack, over so many values and blocks.
Waiting(stack, values, blocks) ==
  /\ stack \in Seq(States) /\ Len(stack) >= 2
  /\ stack[1].kind = "top_level" /\ stack[2].kind = "complete_function"
  /\ \A i \in 3..Len(stack) : stack[i].kind \in InnerKinds
  /\ \A i \in DOMAIN stack :
       /\ Named(stack[i]) \subseteq 1..(blocks - 1)
       /\ Condition(stack[i]) \subseteq 1..values
  /\ \A i, j \in DOMAIN stack : i # j => Named(stack[i]) \cap Named(stack[j]) = {}
  /\ \A i \in 1..(Len(stack) - 1) :
       stack[i].kind \in Consumers => stack[i + 1].kind \in ExprKinds

NamedBy(stack) == UNION {Named(stack[i]) : i \in DOMAIN stack}

OpenBlocks(stack) == Cardinality({i \in DOMAIN stack : stack[i].kind = "block_stmt"})

\* With so many scopes more than the stack accounts for, the blocks that have still to end
\* are those its states name and those of D.
Held(stack, q, D, k) ==
  /\ Waiting(stack, Len(q.definers), Len(q.blocks))
  /\ D \subseteq DOMAIN q.blocks /\ D \cap NamedBy(stack) = {}
  /\ Unended(q.blocks) = NamedBy(stack) \cup D
  /\ k \in Int /\ Len(q.scope_stack) = OpenBlocks(stack) + k

\* What holds of a parser within a handler.
Ready(q, D, k) == Built(q) /\ Held(q.state_stack, q, D, k)

InFunction(q) ==
  /\ Ready(q, {cur_block(q)}, 0) /\ NoCastLast(q) /\ q.aborted = FALSE
  /\ Last(q.state_stack).kind \in Consumers => q.value_stack # <<>>

\* Between functions, and when there is nothing left to parse.
Outside(q) ==
  /\ DOMAIN q = Fields
  /\ q.state_stack \in {<<>>, <<[kind |-> "top_level"]>>,
                        <<[kind |-> "top_level"], [kind |-> "function"]>>}
  /\ q.definers = <<>> /\ q.scope_stack = <<>> /\ q.aborted = FALSE
  /\ q.blocks \in Seq(Seq(Insts))
  /\ q.blocks # <<>> => Unended(q.blocks) = {cur_block(q)}
  /\ EndsOnce(q.blocks)

IInv == /\ \E S : src \in Seq(S)
        /\ InFunction(p) \/ Outside(p)

-----------------------------------------------------------------------------
\* The names of the types, spelled out.
LEMMA TypesAre == \A t \in TypeNames : Size[t] \in Nat
BY DEF TypeNames, Size, OneByte, TwoBytes, FourBytes, EightBytes

LEMMA LargerIsOne ==
  ASSUME NEW a \in TypeNames, NEW b \in TypeNames
  PROVE  /\ larger_type(a, b) \in {a, b}
         /\ Size[larger_type(a, b)] >= Size[a] /\ Size[larger_type(a, b)] >= Size[b]
<1>1. Size[a] \in Nat /\ Size[b] \in Nat
  BY TypesAre
<1>2. CASE Size[a] = Size[b]
  BY <1>1, <1>2 DEF larger_type
<1>3. CASE Size[a] # Size[b]
  BY <1>1, <1>3 DEF larger_type
<1> QED
  BY <1>2, <1>3

LEMMA Appended ==
  /\ \A a : Append(<<>>, a) = <<a>>
  /\ \A a, b : Append(<<a>>, b) = <<a, b>>
  /\ \A a, b, c : Append(<<a, b>>, c) = <<a, b, c>>
  /\ \A a, b, c, d : Append(<<a, b, c>>, d) = <<a, b, c, d>>
<1>1. \A a : Append(<<>>, a) = <<a>>
  OBVIOUS
<1>2. ASSUME NEW a, NEW b
      PROVE  Append(<<a>>, b) = <<a, b>>
  <2> DEFINE S == {a, b}
             s == Append(<<a>>, b)
  <2>1. /\ s \in Seq(S) /\ <<a, b>> \in Seq(S) /\ Len(s) = 2 /\ Len(<<a, b>>) = 2
        /\ \A i \in 1..2 : s[i] = <<a, b>>[i]
    OBVIOUS
  <2> HIDE DEF s
  <2>2. s = <<a, b>>
    BY <2>1, SeqEqual
  <2> QED
    BY <2>2 DEF s
<1>3. ASSUME NEW a, NEW b, NEW c
      PROVE  Append(<<a, b>>, c) = <<a, b, c>>
  <2> DEFINE S == {a, b, c}
             s == Append(<<a, b>>, c)
  <2>1. /\ s \in Seq(S) /\ <<a, b, c>> \in Seq(S) /\ Len(s) = 3 /\ Len(<<a, b, c>>) = 3
        /\ \A i \in 1..3 : s[i] = <<a, b, c>>[i]
    OBVIOUS
  <2> HIDE DEF s
  <2>2. s = <<a, b, c>>
    BY <2>1, SeqEqual
  <2> QED
    BY <2>2 DEF s
<1>4. ASSUME NEW a, NEW b, NEW c, NEW d
      PROVE  Append(<<a, b, c>>, d) = <<a, b, c, d>>
  <2> DEFINE S == {a, b, c, d}
             s == Append(<<a, b, c>>, d)
  <2>1. /\ s \in Seq(S) /\ <<a, b, c, d>> \in Seq(S) /\ Len(s) = 4 /\ Len(<<a, b, c, d>>) = 4
        /\ \A i \in 1..4 : s[i] = <<a, b, c, d>>[i]
    OBVIOUS
  <2> HIDE DEF s
  <2>2. s = <<a, b, c, d>>
    BY <2>1, SeqEqual
  <2> QED
    BY <2>2 DEF s
<1> QED
  BY <1>1, <1>2, <1>3, <1>4

\* Every sequence of tokens read as a type is in the table.
LEMMA TypesAreNamed ==
  ASSUME NEW ts \in TypeTokens
  PROVE  TypeTable[ts] \in TypeNames
<1>1. \A s : Sized(s) = {Append(s, "short"), Append(Append(s, "short"), "int"),
                         Append(s, "long"), Append(Append(s, "long"), "int"),
                         Append(Append(s, "long"), "long"),
                         Append(Append(Append(s, "long"), "long"), "int"),
                         Append(s, "char"), Append(s, "int")}
  BY DEF Sized, Longs, IntOrNot
<1>2. Sized(<<>>) = {<<"short">>, <<"short", "int">>, <<"long">>, <<"long", "int">>,
                     <<"long", "long">>, <<"long", "long", "int">>, <<"char">>, <<"int">>}
  BY <1>1, Appended, ZenonT(30)
<1>3. \A s : Sized(<<s>>) = {<<s, "short">>, <<s, "short", "int">>, <<s, "long">>,
                             <<s, "long", "int">>, <<s, "long", "long">>,
                             <<s, "long", "long", "int">>, <<s, "char">>, <<s, "int">>}
  <2>1. \A s : /\ Append(<<s>>, "short") = <<s, "short">> /\ Append(<<s>>, "long") = <<s, "long">>
              /\ Append(<<s>>, "char") = <<s, "char">> /\ Append(<<s>>, "int") = <<s, "int">>
    BY Appended
  <2>2. \A s : /\ Append(<<s, "short">>, "int") = <<s, "short", "int">>
              /\ Append(<<s, "long">>, "int") = <<s, "long", "int">>
              /\ Append(<<s, "long">>, "long") = <<s, "long", "long">>
    BY Appended
  <2>3. \A s : Append(<<s, "long", "long">>, "int") = <<s, "long", "long", "int">>
    BY Appended
  <2> QED
    BY <1>1, <2>1, <2>2, <2>3, Zenon
<1>4. \A s : IntOrNot(<<s>>) = {<<s>>, <<s, "int">>}
  BY Appended DEF IntOrNot
<1>5. \A s, r : IntOrNot(<<s, r>>) = {<<s, r>>, <<s, r, "int">>}
  BY Appended DEF IntOrNot
<1>6. \A s, r, q : IntOrNot(<<s, r, q>>) = {<<s, r, q>>, <<s, r, q, "int">>}
  BY Appended DEF IntOrNot
<1>7. TypeTokens = Sized(<<>>) \cup {<<"signed">>, <<"unsigned">>} \cup Sized(<<"signed">>)
                   \cup Sized(<<"unsigned">>)
  BY DEF TypeTokens
<1>8. {"char", "signed char", "unsigned char", "short", "unsigned short", "int",
       "unsigned int", "long", "unsigned long", "long long", "unsigned long long"} \subseteq TypeNames
  BY DEF TypeNames, Size, OneByte, TwoBytes, FourBytes, EightBytes
<1>9. \/ ts \in {<<"char">>, <<"signed", "char">>, <<"unsigned", "char">>, <<"int">>}
      \/ ts \in IntOrNot(<<"short">>) \/ ts \in IntOrNot(<<"signed", "short">>)
      \/ ts \in IntOrNot(<<"signed">>)
      \/ ts \in IntOrNot(<<"long">>) \/ ts \in IntOrNot(<<"signed", "long">>)
      \/ ts \in IntOrNot(<<"long", "long">>) \/ ts \in IntOrNot(<<"signed", "long", "long">>)
      \/ ts \in IntOrNot(<<"unsigned", "short">>) \/ ts \in IntOrNot(<<"unsigned">>)
      \/ ts \in IntOrNot(<<"unsigned", "long">>) \/ ts \in IntOrNot(<<"unsigned", "long", "long">>)
  BY <1>2, <1>3, <1>4, <1>5, <1>6, <1>7
<1> QED
  BY <1>8, <1>9 DEF TypeTable

-----------------------------------------------------------------------------
(* Stacks.                                                                 *)
LEMMA FrontAndLast ==
  ASSUME NEW S, NEW s \in Seq(S), s # <<>>
  PROVE  /\ Front(s) \in Seq(S) /\ Len(Front(s)) = Len(s) - 1 /\ Last(s) \in S
         /\ Len(s) \in Nat /\ Len(s) >= 1 /\ Last(s) = s[Len(s)]
         /\ s = Append(Front(s), Last(s))
         /\ \A i \in 1..(Len(s) - 1) : Front(s)[i] = s[i]
<1> DEFINE n == Len(s)
           f == SubSeq(s, 1, n - 1)
<1>1. n \in Nat /\ n >= 1 /\ s[n] \in S /\ DOMAIN s = 1..n
  BY EmptySeq, ElementOfSeq, LenProperties
<1>2. \A i \in 1..(n - 1) : s[i] \in S
  BY <1>1, ElementOfSeq
<1>3. f \in Seq(S) /\ Len(f) = n - 1 /\ \A i \in 1..(n - 1) : f[i] = s[i]
  BY <1>1, <1>2, SubSeqProperties
<1> HIDE DEF f
<1> DEFINE t == Append(f, s[n])
<1>4. t \in Seq(S) /\ Len(t) = n /\ \A i \in 1..n : t[i] = s[i]
  <2>1. t \in Seq(S) /\ Len(t) = Len(f) + 1
    BY <1>1, <1>3, AppendProperties
  <2>2. t[Len(f) + 1] = s[n] /\ \A i \in 1..Len(f) : t[i] = f[i]
    BY <1>1, <1>3, AppendProperties
  <2> HIDE DEF t
  <2> QED
    BY <1>1, <1>3, <2>1, <2>2
<1> HIDE DEF t
<1>5. s = t
  BY <1>4, SeqEqual
<1> QED
  BY <1>1, <1>3, <1>5 DEF Front, Last, f, t

LEMMA FrontOfAppended ==
  ASSUME NEW S, NEW s \in Seq(S), NEW x \in S
  PROVE  Front(Append(s, x)) = s
<1> DEFINE t == Append(s, x)
<1>1. t \in Seq(S) /\ Len(t) = Len(s) + 1 /\ Len(s) \in Nat /\ \A i \in 1..Len(s) : t[i] = s[i]
  OBVIOUS
<1> HIDE DEF t
<1>2. t # <<>>
  BY <1>1
<1>3. /\ Front(t) \in Seq(S) /\ Len(Front(t)) = Len(t) - 1
      /\ \A i \in 1..(Len(t) - 1) : Front(t)[i] = t[i]
  BY <1>1, <1>2, FrontAndLast
<1>4. Len(t) - 1 = Len(s)
  BY <1>1
<1>5. Front(t) = s
  BY <1>1, <1>3, <1>4, SeqEqual
<1> QED
  BY <1>5 DEF t

LEMMA PushKeepsWaiting ==
  ASSUME NEW stack, NEW values, NEW blocks, Waiting(stack, values, blocks),
         NEW x \in States, x.kind \in InnerKinds,
         Named(x) \subseteq 1..(blocks - 1), Condition(x) \subseteq 1..values,
         Named(x) \cap NamedBy(stack) = {},
         Last(stack).kind \in Consumers => x.kind \in ExprKinds
  PROVE  Waiting(Append(stack, x), values, blocks)
<1> DEFINE new == Append(stack, x)
           n == Len(stack)
<1>1. /\ stack \in Seq(States) /\ n \in Nat /\ n >= 2 /\ new \in Seq(States)
      /\ Len(new) = n + 1 /\ new[n + 1] = x /\ \A i \in 1..n : new[i] = stack[i]
  BY DEF Waiting
<1>2. Last(stack) = stack[n]
  BY DEF Last
<1>3. \A i \in 1..n : Named(stack[i]) \cap Named(x) = {}
  BY <1>1 DEF NamedBy
<1> HIDE DEF new
<1>4. \A i \in 3..(n + 1) : new[i].kind \in InnerKinds
  BY <1>1 DEF Waiting
<1>5. \A i \in 1..(n + 1) : /\ Named(new[i]) \subseteq 1..(blocks - 1)
                            /\ Condition(new[i]) \subseteq 1..values
  BY <1>1 DEF Waiting
<1>6. \A i, j \in 1..(n + 1) : i # j => Named(new[i]) \cap Named(new[j]) = {}
  BY <1>1, <1>3, SMTT(30) DEF Waiting
<1>7. \A i \in 1..n : new[i].kind \in Consumers => new[i + 1].kind \in ExprKinds
  BY <1>1, <1>2 DEF Waiting
<1>8. new[1].kind = "top_level" /\ new[2].kind = "complete_function"
  BY <1>1 DEF Waiting
<1>9. Waiting(new, values, blocks)
  BY <1>1, <1>4, <1>5, <1>6, <1>7, <1>8 DEF Waiting
<1> QED
  BY <1>9 DEF new

LEMMA PushNames ==
  ASSUME NEW stack \in Seq(States), NEW x \in States
  PROVE  NamedBy(Append(stack, x)) = NamedBy(stack) \cup Named(x)
<1> DEFINE new == Append(stack, x)
<1>1. /\ new \in Seq(States) /\ Len(new) = Len(stack) + 1 /\ new[Len(stack) + 1] = x
      /\ \A i \in 1..Len(stack) : new[i] = stack[i]
  OBVIOUS
<1>2. DOMAIN new = DOMAIN stack \cup {Len(stack) + 1} /\ DOMAIN stack = 1..Len(stack)
  BY <1>1
<1> HIDE DEF new
<1>3. NamedBy(new) = NamedBy(stack) \cup Named(x)
  BY <1>1, <1>2 DEF NamedBy
<1> QED
  BY <1>3 DEF new

LEMMA PushOpens ==
  ASSUME NEW stack \in Seq(States), NEW x \in States
  PROVE  /\ OpenBlocks(stack) \in Nat
         /\ OpenBlocks(Append(stack, x)) =
              OpenBlocks(stack) + (IF x.kind = "block_stmt" THEN 1 ELSE 0)
<1> DEFINE new == Append(stack, x)
           n == Len(stack)
           Open(s) == {i \in DOMAIN s : s[i].kind = "block_stmt"}
<1>1. /\ n \in Nat /\ new \in Seq(States) /\ Len(new) = n + 1 /\ new[n + 1] = x
      /\ \A i \in 1..n : new[i] = stack[i]
  OBVIOUS
<1>2. DOMAIN new = 1..(n + 1) /\ DOMAIN stack = 1..n
  BY <1>1
<1>3. Open(stack) \subseteq 1..n /\ IsFiniteSet(1..n)
  BY <1>1, <1>2, FS_Interval
<1>4. IsFiniteSet(Open(stack)) /\ Cardinality(Open(stack)) \in Nat
  BY <1>3, FS_Subset, FS_CardinalityType
<1>5. n + 1 \notin Open(stack)
  BY <1>1, <1>3
<1> HIDE DEF new
<1>6. Open(new) = IF x.kind = "block_stmt" THEN Open(stack) \cup {n + 1} ELSE Open(stack)
  BY <1>1, <1>2
<1> HIDE DEF Open
<1>7. Cardinality(Open(new)) =
        Cardinality(Open(stack)) + (IF x.kind = "block_stmt" THEN 1 ELSE 0)
  <2>1. CASE x.kind = "block_stmt"
    <3>1. Cardinality(Open(stack) \cup {n + 1}) = Cardinality(Open(stack)) + 1
      BY <1>4, <1>5, FS_AddElement
    <3> QED
      BY <2>1, <3>1, <1>6
  <2>2. CASE x.kind # "block_stmt"
    BY <2>2, <1>4, <1>6
  <2> QED
    BY <2>1, <2>2
<1> QED
  BY <1>4, <1>7 DEF Open, OpenBlocks, new

LEMMA PopKeepsWaiting ==
  ASSUME NEW stack, NEW values, NEW blocks, Waiting(stack, values, blocks),
         Last(stack).kind \in InnerKinds
  PROVE  /\ Waiting(Front(stack), values, blocks)
         /\ stack = Append(Front(stack), Last(stack)) /\ Last(stack) \in States
         /\ Named(Last(stack)) \cap NamedBy(Front(stack)) = {}
         /\ Named(Last(stack)) \subseteq 1..(blocks - 1)
         /\ Condition(Last(stack)) \subseteq 1..values
         /\ Last(Front(stack)).kind \in Consumers => Last(stack).kind \in ExprKinds
<1> DEFINE s == Front(stack)
           n == Len(stack)
<1>1. /\ stack \in Seq(States) /\ n \in Nat /\ n >= 2 /\ Last(stack) = stack[n]
      /\ stack[1].kind = "top_level" /\ stack[2].kind = "complete_function"
  BY DEF Waiting, Last
<1>2. stack # <<>>
  BY <1>1
<1>3. /\ s \in Seq(States) /\ Len(s) = n - 1 /\ Last(stack) \in States
      /\ stack = Append(s, Last(stack)) /\ \A i \in 1..(n - 1) : s[i] = stack[i]
  BY <1>1, <1>2, FrontAndLast
<1>4. n >= 3
  BY <1>1 DEF InnerKinds, ExprKinds
<1>5. Last(s) = stack[n - 1]
  BY <1>3, <1>4 DEF Last
<1> HIDE DEF s
<1>6. Named(stack[n]) \cap NamedBy(s) = {}
  BY <1>1, <1>3, <1>4 DEF NamedBy, Waiting
<1>7. Waiting(s, values, blocks)
  <2>1. DOMAIN s = 1..(n - 1) /\ DOMAIN stack = 1..n /\ 1..(n - 1) \subseteq 1..n
    BY <1>1, <1>3
  <2>2. s[1].kind = "top_level" /\ s[2].kind = "complete_function"
    BY <1>1, <1>3, <1>4
  <2>3. \A i \in 3..(n - 1) : s[i].kind \in InnerKinds
    BY <1>1, <1>3, <1>4 DEF Waiting
  <2>4. \A i \in 1..(n - 1) : /\ Named(s[i]) \subseteq 1..(blocks - 1)
                              /\ Condition(s[i]) \subseteq 1..values
    BY <1>3, <2>1 DEF Waiting
  <2>5. \A i, j \in 1..(n - 1) : i # j => Named(s[i]) \cap Named(s[j]) = {}
    BY <1>3, <2>1 DEF Waiting
  <2>6. \A i \in 1..(n - 2) : s[i].kind \in Consumers => s[i + 1].kind \in ExprKinds
    BY <1>1, <1>3 DEF Waiting
  <2>7. \A i \in 1..(Len(s) - 1) : s[i].kind \in Consumers => s[i + 1].kind \in ExprKinds
    BY <1>1, <1>3, <2>6
  <2>8. Len(s) >= 2
    BY <1>1, <1>3, <1>4
  <2> QED
    BY <1>3, <2>1, <2>2, <2>3, <2>4, <2>5, <2>7, <2>8 DEF Waiting
<1>8. /\ Named(stack[n]) \subseteq 1..(blocks - 1) /\ Condition(stack[n]) \subseteq 1..values
      /\ stack[n - 1].kind \in Consumers => stack[n].kind \in ExprKinds
  BY <1>1, <1>4 DEF Waiting
<1> QED
  BY <1>1, <1>3, <1>5, <1>6, <1>7, <1>8 DEF s

LEMMA MoreKeepsWaiting ==
  ASSUME NEW stack, NEW v \in Nat, NEW w \in Nat, NEW b \in Nat, NEW c \in Nat,
         v <= w, b <= c, Waiting(stack, v, b)
  PROVE  Waiting(stack, w, c)
BY DEF Waiting

-----------------------------------------------------------------------------
(* What handlers do to a parser within a function.                         *)
LEMMA BuiltDependsOn ==
  ASSUME NEW q, NEW r, Built(q), DOMAIN r = Fields, r.value_stack = q.value_stack,
         r.definers = q.definers, r.scope_stack = q.scope_stack, r.blocks = q.blocks,
         r.aborted = q.aborted
  PROVE  Built(r)
<1>1. Typed(r) /\ r.blocks # <<>> /\ PointBack(r) /\ EndsOnce(r.blocks)
  BY DEF Built, Typed, PointBack
<1>2. ValuesAreDefined(r)
  BY DEF Built, ValuesAreDefined, Values
<1>3. Agreeing(r)
  BY ZenonT(30) DEF Built, Agreeing, Agrees
<1> QED
  BY <1>1, <1>2, <1>3 DEF Built

LEMMA HeldDependsOn ==
  ASSUME NEW stack, NEW q, NEW r, NEW D, NEW k, Held(stack, q, D, k),
         r.definers = q.definers, r.scope_stack = q.scope_stack, r.blocks = q.blocks
  PROVE  Held(stack, r, D, k)
BY DEF Held

\* A state may wait on the stack of q, which D is left to end.
Fits(x, stack, q, D) ==
  /\ x \in States /\ x.kind \in InnerKinds
  /\ Named(x) \subseteq D /\ Named(x) \subseteq 1..(Len(q.blocks) - 1)
  /\ Condition(x) \subseteq 1..Len(q.definers)
  /\ Last(stack).kind \in Consumers => x.kind \in ExprKinds

Scoped(x) == IF x.kind = "block_stmt" THEN 1 ELSE 0

LEMMA PushHeld ==
  ASSUME NEW stack, NEW q, NEW D, NEW k, Held(stack, q, D, k), NEW x, Fits(x, stack, q, D)
  PROVE  /\ Held(Append(stack, x), q, D \ Named(x), k - Scoped(x))
         /\ Last(Append(stack, x)) = x
<1> DEFINE new == Append(stack, x)
<1>1. stack \in Seq(States) /\ x \in States /\ k \in Int
  BY DEF Held, Waiting, Fits
<1>2. Named(x) \cap NamedBy(stack) = {}
  BY DEF Held, Fits
<1>3. Waiting(new, Len(q.definers), Len(q.blocks))
  BY <1>2, PushKeepsWaiting DEF Held, Fits
<1>4. NamedBy(new) = NamedBy(stack) \cup Named(x)
  BY <1>1, PushNames
<1>5. OpenBlocks(stack) \in Nat /\ OpenBlocks(new) = OpenBlocks(stack) + Scoped(x)
  BY <1>1, PushOpens DEF Scoped
<1>6. Last(new) = x
  BY <1>1 DEF Last
<1>7. Scoped(x) \in Int /\ k - Scoped(x) \in Int
  BY <1>1 DEF Scoped
<1> HIDE DEF new
<1>8. Len(q.scope_stack) = OpenBlocks(new) + (k - Scoped(x))
  BY <1>1, <1>5, <1>7 DEF Held
<1>9. /\ D \ Named(x) \subseteq DOMAIN q.blocks /\ (D \ Named(x)) \cap NamedBy(new) = {}
      /\ Unended(q.blocks) = NamedBy(new) \cup (D \ Named(x))
  BY <1>4 DEF Held, Fits
<1>10. Held(new, q, D \ Named(x), k - Scoped(x))
  BY <1>3, <1>7, <1>8, <1>9 DEF Held
<1> QED
  BY <1>6, <1>10 DEF new

LEMMA Pushed ==
  ASSUME NEW q, NEW D, NEW k, Ready(q, D, k), NEW x, Fits(x, q.state_stack, q, D)
  PROVE  LET r == Push(q, <<x>>) IN
         /\ Ready(r, D \ Named(x), k - Scoped(x)) /\ Last(r.state_stack) = x
         /\ r.value_stack = q.value_stack /\ r.definers = q.definers
         /\ r.scope_stack = q.scope_stack /\ r.blocks = q.blocks /\ r.aborted = q.aborted
<1> DEFINE r == Push(q, <<x>>)
<1>1. DOMAIN q = Fields
  BY DEF Ready, Built, Typed
<1>2. /\ DOMAIN r = Fields
      /\ r.value_stack = q.value_stack /\ r.definers = q.definers
      /\ r.scope_stack = q.scope_stack /\ r.blocks = q.blocks /\ r.aborted = q.aborted
      /\ r.state_stack = q.state_stack \o <<x>>
  BY <1>1 DEF Push, Fields
<1>3. q.state_stack \in Seq(States) /\ x \in States
  BY DEF Ready, Held, Waiting, Fits
<1>4. r.state_stack = Append(q.state_stack, x)
  BY <1>2, <1>3, AppendIsConcat
<1> HIDE DEF r
<1>5. Held(r.state_stack, q, D \ Named(x), k - Scoped(x)) /\ Last(r.state_stack) = x
  BY <1>4, PushHeld DEF Ready
<1>6. Ready(r, D \ Named(x), k - Scoped(x))
  BY <1>2, <1>5, HeldDependsOn, BuiltDependsOn DEF Ready
<1> QED
  BY <1>2, <1>5, <1>6 DEF r

LEMMA PushedTwo ==
  ASSUME NEW q, q.state_stack \in Seq(States), NEW x \in States, NEW y \in States
  PROVE  Push(q, <<x, y>>) = Push(Push(q, <<x>>), <<y>>)
<1> DEFINE s == q.state_stack
<1>1. s \o <<x, y>> = (s \o <<x>>) \o <<y>>
  <2>1. <<x, y>> = <<x>> \o <<y>>
    <3>1. <<x>> \in Seq(States) /\ y \in States
      OBVIOUS
    <3>2. Append(<<x>>, y) = <<x>> \o <<y>>
      BY <3>1, AppendIsConcat
    <3> QED
      BY <3>2, Appended
  <2> QED
    BY <2>1, ConcatAssociative
<1> HIDE DEF s
<1>2. Push(Push(q, <<x>>), <<y>>) = [q EXCEPT !.state_stack = (s \o <<x>>) \o <<y>>]
  BY DEF Push, s
<1> QED
  BY <1>1, <1>2 DEF Push, s

LEMMA ValuePushed ==
  ASSUME NEW q, NEW D, NEW k, Ready(q, D, k), NEW v \in Values(q)
  PROVE  LET r == push_value(q, v) IN
         /\ Ready(r, D, k)
         /\ r.value_stack = Append(q.value_stack, v) /\ Len(r.value_stack) = Len(q.value_stack) + 1
         /\ Last(r.value_stack) = v
         /\ r.state_stack = q.state_stack /\ r.definers = q.definers
         /\ r.scope_stack = q.scope_stack /\ r.blocks = q.blocks /\ r.aborted = q.aborted
<1> DEFINE r == push_value(q, v)
           new == Append(q.value_stack, v)
           n == Len(q.value_stack)
<1>1. /\ DOMAIN q = Fields /\ q.value_stack \in Seq(Nat) /\ n \in Nat /\ v \in Nat
      /\ q.definers \in Seq(Definers)
  BY DEF Ready, Built, Typed, Values
<1>2. /\ DOMAIN r = Fields /\ r.value_stack = new
      /\ r.state_stack = q.state_stack /\ r.definers = q.definers
      /\ r.scope_stack = q.scope_stack /\ r.blocks = q.blocks /\ r.aborted = q.aborted
  BY <1>1 DEF push_value, Fields
<1>3. /\ new \in Seq(Nat) /\ Len(new) = n + 1 /\ new[n + 1] = v /\ Last(new) = v
      /\ \A i \in 1..n : new[i] = q.value_stack[i]
  BY <1>1 DEF Last
<1> HIDE DEF r, new
<1>4. \A i \in DOMAIN new : new[i] \in Values(q)
  <2>1. DOMAIN new = 1..(n + 1) /\ DOMAIN q.value_stack = 1..n
    BY <1>1, <1>3
  <2>2. \A i \in 1..n : q.value_stack[i] \in Values(q)
    BY <2>1 DEF Ready, Built, ValuesAreDefined
  <2>3. \A i \in 1..(n + 1) : i \in 1..n \/ i = n + 1
    BY <1>1
  <2> QED
    BY <1>3, <2>1, <2>2, <2>3
<1>5. ValuesAreDefined(r)
  BY <1>2, <1>4 DEF Ready, Built, ValuesAreDefined, Values
<1>6. Typed(r) /\ r.blocks # <<>> /\ PointBack(r) /\ EndsOnce(r.blocks)
  BY <1>2, <1>3 DEF Ready, Built, Typed, PointBack
<1>7. Agreeing(r)
  BY <1>2, ZenonT(30) DEF Ready, Built, Agreeing, Agrees
<1>8. Held(r.state_stack, r, D, k)
  BY <1>2, HeldDependsOn DEF Ready
<1>9. Ready(r, D, k)
  BY <1>5, <1>6, <1>7, <1>8 DEF Ready, Built
<1> QED
  BY <1>2, <1>3, <1>9 DEF r, new

LEMMA ValuePopped ==
  ASSUME NEW q, NEW D, NEW k, Ready(q, D, k), q.value_stack # <<>>
  PROVE  LET r == pop_value(q) IN
         /\ Ready(r, D, k) /\ value(q) \in Values(q) /\ Len(q.value_stack) \in Nat
         /\ r.value_stack = Front(q.value_stack) /\ Len(r.value_stack) = Len(q.value_stack) - 1
         /\ r.state_stack = q.state_stack /\ r.definers = q.definers
         /\ r.scope_stack = q.scope_stack /\ r.blocks = q.blocks /\ r.aborted = q.aborted
<1> DEFINE r == pop_value(q)
           new == Front(q.value_stack)
           n == Len(q.value_stack)
<1>1. DOMAIN q = Fields /\ q.value_stack \in Seq(Nat)
  BY DEF Ready, Built, Typed
<1>2. /\ DOMAIN r = Fields /\ r.value_stack = new
      /\ r.state_stack = q.state_stack /\ r.definers = q.definers
      /\ r.scope_stack = q.scope_stack /\ r.blocks = q.blocks /\ r.aborted = q.aborted
  BY <1>1 DEF pop_value, Fields
<1>3. /\ new \in Seq(Nat) /\ Len(new) = n - 1 /\ n \in Nat /\ n >= 1
      /\ Last(q.value_stack) = q.value_stack[n] /\ \A i \in 1..(n - 1) : new[i] = q.value_stack[i]
  BY <1>1, FrontAndLast
<1> HIDE DEF r, new
<1>4. DOMAIN new = 1..(n - 1) /\ DOMAIN q.value_stack = 1..n
  BY <1>1, <1>3
<1>5. (\A i \in DOMAIN new : new[i] \in Values(q)) /\ value(q) \in Values(q)
  <2>1. \A i \in 1..n : q.value_stack[i] \in Values(q)
    BY <1>4 DEF Ready, Built, ValuesAreDefined
  <2>2. n \in 1..n /\ \A i \in 1..(n - 1) : i \in 1..n
    BY <1>3
  <2> QED
    BY <1>3, <1>4, <2>1, <2>2 DEF value
<1>6. ValuesAreDefined(r)
  BY <1>2, <1>5 DEF Ready, Built, ValuesAreDefined, Values
<1>7. Typed(r) /\ r.blocks # <<>> /\ PointBack(r) /\ EndsOnce(r.blocks)
  BY <1>2, <1>3 DEF Ready, Built, Typed, PointBack
<1>8. Agreeing(r)
  BY <1>2, ZenonT(30) DEF Ready, Built, Agreeing, Agrees
<1>9. Held(r.state_stack, r, D, k)
  BY <1>2, HeldDependsOn DEF Ready
<1>10. Ready(r, D, k)
  BY <1>6, <1>7, <1>8, <1>9 DEF Ready, Built
<1> QED
  BY <1>2, <1>3, <1>5, <1>10 DEF r, new

LEMMA BlockAdded ==
  ASSUME NEW q, NEW D, NEW k, Ready(q, D, k), NoCastLast(q)
  PROVE  LET r == new_block(q) IN
         /\ Ready(r, D \cup {cur_block(r)}, k) /\ NoCastLast(r)
         /\ cur_block(q) \in Nat /\ cur_block(r) = cur_block(q) + 1
         /\ r.state_stack = q.state_stack /\ r.definers = q.definers
         /\ r.scope_stack = q.scope_stack /\ r.value_stack = q.value_stack /\ r.aborted = q.aborted
<1> DEFINE r == new_block(q)
           new == Append(q.blocks, <<>>)
           n == Len(q.blocks)
<1>1. DOMAIN q = Fields /\ q.blocks \in Seq(Seq(Insts)) /\ n \in Nat /\ DOMAIN q.blocks = 1..n
  BY DEF Ready, Built, Typed
<1>2. /\ DOMAIN r = Fields /\ r.blocks = new
      /\ r.state_stack = q.state_stack /\ r.definers = q.definers
      /\ r.scope_stack = q.scope_stack /\ r.value_stack = q.value_stack /\ r.aborted = q.aborted
  BY <1>1 DEF new_block, Fields
<1>3. /\ new \in Seq(Seq(Insts)) /\ Len(new) = n + 1 /\ new[n + 1] = <<>>
      /\ \A b \in 1..n : new[b] = q.blocks[b]
  <2>1. <<>> \in Seq(Insts)
    OBVIOUS
  <2> QED
    BY <1>1, <2>1, AppendProperties
<1> HIDE DEF r, new
<1>4. DOMAIN new = 1..(n + 1) /\ new # <<>> /\ DOMAIN new[n + 1] = {}
  BY <1>1, <1>3
<1>5. Jumps(new) = Jumps(q.blocks) /\ n + 1 \notin Jumps(q.blocks)
  <2>1. \A b : b \in 1..(n + 1) <=> b \in 1..n \/ b = n + 1
    BY <1>1
  <2>2. n + 1 \notin Jumps(new) /\ n + 1 \notin Jumps(q.blocks)
    BY <1>1, <1>4 DEF Jumps
  <2>3. \A b \in 1..n : b \in Jumps(new) <=> b \in Jumps(q.blocks)
    BY <1>1, <1>3, <1>4, <2>1 DEF Jumps
  <2>4. \A b : b \in Jumps(new) \/ b \in Jumps(q.blocks) => b \in 1..n \/ b = n + 1
    BY <1>1, <1>4, <2>1 DEF Jumps
  <2> QED
    BY <2>2, <2>3, <2>4
<1>6. Unended(new) = Unended(q.blocks) \cup {n + 1}
  BY <1>1, <1>4, <1>5 DEF Unended
<1>7. EndsOnce(new)
  <2>1. EndsOnce(q.blocks) /\ Jumps(q.blocks) \subseteq 1..n
    BY <1>1 DEF Ready, Built, Jumps
  <2> QED
    BY <1>3, <1>5, <2>1 DEF EndsOnce
<1>8. ValuesAreDefined(r)
  <2>1. ValuesAreDefined(q) /\ Values(r) = Values(q)
    BY <1>2 DEF Ready, Built, Values
  <2>2. \A b \in 1..n : \A i \in DOMAIN new[b] : \A j \in DOMAIN new[b][i].ins :
          new[b][i].ins[j] \in Values(q)
    BY <1>1, <1>3, <2>1 DEF ValuesAreDefined
  <2>3. \A b \in 1..(n + 1) : b \in 1..n \/ b = n + 1
    BY <1>1
  <2>4. \A b \in DOMAIN new : \A i \in DOMAIN new[b] : \A j \in DOMAIN new[b][i].ins :
          new[b][i].ins[j] \in Values(q)
    BY <1>4, <2>2, <2>3
  <2> QED
    BY <1>2, <2>1, <2>4 DEF ValuesAreDefined
<1>9. Typed(r)
  BY <1>2, <1>3 DEF Ready, Built, Typed
<1>10. PointBack(r)
  <2>1. PointBack(q) /\ \A b \in 1..n : b \in 1..(n + 1) /\ new[b] = q.blocks[b]
    BY <1>1, <1>3 DEF Ready, Built
  <2>2. \A v \in DOMAIN q.definers : q.definers[v].block \in 1..n
    BY <1>1, <2>1 DEF PointBack
  <2> QED
    BY <1>2, <1>4, <2>1, <2>2, SMTT(30) DEF PointBack
<1>11. Agreeing(r)
  <2>1. \A v \in DOMAIN q.definers : q.definers[v].block \in 1..n
    BY <1>1 DEF Ready, Built, PointBack
  <2>2. \A v \in DOMAIN q.definers : new[q.definers[v].block] = q.blocks[q.definers[v].block]
    BY <1>3, <2>1
  <2>3. Agreeing(q)
    BY DEF Ready, Built
  <2>4. \A c, i, t : Agrees(r, c, i, t) <=> Agrees(q, c, i, t)
    BY <1>2 DEF Agrees
  <2> QED
    BY <1>2, <2>2, <2>3, <2>4 DEF Agreeing
<1>12. Built(r)
  BY <1>2, <1>4, <1>7, <1>8, <1>9, <1>10, <1>11 DEF Built
<1>13. Waiting(r.state_stack, Len(r.definers), Len(r.blocks))
  <2>1. Len(q.definers) \in Nat /\ Len(r.definers) = Len(q.definers) /\ Len(r.blocks) = n + 1
    BY <1>2, <1>3 DEF Ready, Built, Typed
  <2> QED
    BY <1>1, <1>2, <2>1, MoreKeepsWaiting DEF Ready, Held
<1>14. \A i \in DOMAIN q.state_stack : Named(q.state_stack[i]) \subseteq 1..(n - 1)
  BY DEF Ready, Held, Waiting
<1>15. n + 1 \notin NamedBy(q.state_stack)
  <2>1. n + 1 \notin 1..(n - 1)
    BY <1>1
  <2> QED
    BY <1>14, <2>1 DEF NamedBy
<1>16. Held(r.state_stack, r, D \cup {n + 1}, k)
  BY <1>1, <1>2, <1>4, <1>6, <1>13, <1>15 DEF Held, Ready
<1>17. NoCastLast(r)
  <2>1. \A b \in 1..(n + 1) : b \in 1..n \/ b = n + 1
    BY <1>1
  <2> QED
    BY <1>1, <1>2, <1>3, <1>4, <2>1 DEF NoCastLast
<1>18. Ready(r, D \cup {n + 1}, k) /\ cur_block(r) = n + 1
  BY <1>2, <1>3, <1>12, <1>16 DEF Ready, cur_block
<1> QED
  BY <1>1, <1>2, <1>17, <1>18 DEF r, cur_block

-----------------------------------------------------------------------------
(* Instructions.                                                           *)
Extended(cfg, b, inst) == [cfg EXCEPT ![b] = Append(@, inst)]

\* The code new is cfg with an instruction more in a block that had no end.
IsLonger(new, cfg, b, inst) ==
  LET n == Len(cfg[b]) IN
  /\ new \in Seq(Seq(Insts)) /\ Len(new) = Len(cfg) /\ DOMAIN new = DOMAIN cfg
  /\ cfg[b] \in Seq(Insts) /\ new[b] \in Seq(Insts) /\ n \in Nat
  /\ Len(new[b]) = n + 1 /\ DOMAIN new[b] = 1..(n + 1) /\ DOMAIN cfg[b] = 1..n
  /\ new[b][n + 1] = inst /\ \A i \in 1..n : new[b][i] = cfg[b][i]
  /\ \A c \in DOMAIN cfg : c # b => new[c] = cfg[c]
  /\ EndsOnce(new)
  /\ Unended(new) = IF inst.kind \in Terminators THEN Unended(cfg) \ {b} ELSE Unended(cfg)

LEMMA CodeAppended ==
  ASSUME NEW cfg \in Seq(Seq(Insts)), EndsOnce(cfg), NEW b \in Unended(cfg), NEW inst \in Insts
  PROVE  IsLonger(Extended(cfg, b, inst), cfg, b, inst)
<1> DEFINE new == Extended(cfg, b, inst)
           n == Len(cfg[b])
<1>1. b \in DOMAIN cfg /\ DOMAIN cfg = 1..Len(cfg) /\ b \notin Jumps(cfg)
  BY DEF Unended
<1>2. cfg[b] \in Seq(Insts) /\ n \in Nat /\ DOMAIN cfg[b] = 1..n
  BY <1>1
<1>3. \A i \in 1..n : cfg[b][i].kind \notin Terminators
  BY <1>1, <1>2 DEF Jumps
<1>4. Append(cfg[b], inst) \in Seq(Insts)
  BY <1>2
<1>5. /\ new \in Seq(Seq(Insts)) /\ Len(new) = Len(cfg) /\ DOMAIN new = DOMAIN cfg
      /\ new[b] = Append(cfg[b], inst) /\ \A c \in DOMAIN cfg : c # b => new[c] = cfg[c]
  BY <1>1, <1>4, ExceptSeq DEF Extended
<1>6. /\ new[b] \in Seq(Insts) /\ Len(new[b]) = n + 1 /\ DOMAIN new[b] = 1..(n + 1)
      /\ new[b][n + 1] = inst /\ \A i \in 1..n : new[b][i] = cfg[b][i]
  BY <1>2, <1>4, <1>5, AppendProperties
<1> HIDE DEF new
<1>7. \A c \in DOMAIN cfg : c # b => (c \in Jumps(new) <=> c \in Jumps(cfg))
  BY <1>5 DEF Jumps
<1>8. b \in Jumps(new) <=> inst.kind \in Terminators
  <2>1. \A i \in 1..(n + 1) : i \in 1..n \/ i = n + 1
    BY <1>2
  <2>2. n + 1 \in 1..(n + 1)
    BY <1>2
  <2> QED
    BY <1>1, <1>3, <1>5, <1>6, <2>1, <2>2 DEF Jumps
<1>9. EndsOnce(new)
  <2> SUFFICES ASSUME NEW c \in Jumps(new), NEW i \in DOMAIN new[c]
               PROVE  new[c][i].kind \in Terminators <=> i = Len(new[c])
    BY DEF EndsOnce
  <2>1. CASE c # b
    <3>1. c \in DOMAIN cfg /\ c \in Jumps(cfg) /\ new[c] = cfg[c]
      BY <1>5, <1>7, <2>1 DEF Jumps
    <3> QED
      BY <3>1 DEF EndsOnce
  <2>2. CASE c = b
    <3>1. i \in 1..n \/ i = n + 1
      BY <1>2, <1>6, <2>2
    <3>2. inst.kind \in Terminators
      BY <1>8, <2>2
    <3>3. i \in 1..n => i # n + 1
      BY <1>2
    <3> QED
      BY <1>3, <1>6, <2>2, <3>1, <3>2, <3>3
  <2> QED
    BY <2>1, <2>2
<1>10. Unended(new) = IF inst.kind \in Terminators THEN Unended(cfg) \ {b} ELSE Unended(cfg)
  BY <1>1, <1>5, <1>7, <1>8 DEF Unended
<1> QED
  BY <1>2, <1>5, <1>6, <1>9, <1>10 DEF new, IsLonger

\* What the type of an instruction must be, where the last num_ins values become its operands.
TypeFits(q, b, kind, type, num_ins) ==
  /\ kind \in ArithmeticKinds /\ q.blocks[b] # <<>> /\ Last(q.blocks[b]).kind = "CAST"
       => \A i \in (Len(q.value_stack) - num_ins + 1)..Len(q.value_stack) :
            q.definers[q.value_stack[i]].type = type
  /\ kind = "CAST" => num_ins = 1 /\ Size[type] >= Size[q.definers[value(q)].type]
  /\ kind = "LOAD" => num_ins = 1

Left(D, b, kind) == IF kind \in Terminators THEN D \ {b} ELSE D

\* The parser r, after an instruction of the block b was made in q.
After(q, r, b, kind, type, num_ins) ==
  LET rest == SubSeq(q.value_stack, 1, Len(q.value_stack) - num_ins) IN
  /\ r.state_stack = q.state_stack /\ r.scope_stack = q.scope_stack /\ r.aborted = q.aborted
  /\ Len(r.blocks) = Len(q.blocks) /\ Last(r.blocks[b]).kind = kind
  /\ \A c \in DOMAIN q.blocks : c # b => r.blocks[c] = q.blocks[c]
  /\ type = Void => r.value_stack = rest /\ r.definers = q.definers
  /\ type # Void =>
       /\ r.value_stack = Append(rest, Len(q.definers) + 1)
       /\ Len(r.definers) = Len(q.definers) + 1
       /\ r.definers[Len(q.definers) + 1].type = type
       /\ \A v \in Values(q) : r.definers[v] = q.definers[v]

LEMMA Made ==
  ASSUME NEW q, NEW D, NEW k, Ready(q, D, k), NEW b \in D, NEW kind \in InstKinds,
         NEW type \in TypeNames \cup {Void}, NEW num_ins \in Nat,
         num_ins <= Len(q.value_stack), NEW data \in Nat \cup Seq(Nat),
         TypeFits(q, b, kind, type, num_ins)
  PROVE  LET r == make_inst_in_block(q, b, kind, type, num_ins, data) IN
         Ready(r, Left(D, b, kind), k) /\ After(q, r, b, kind, type, num_ins)
<1> DEFINE vs == q.value_stack
           m == Len(vs)
           left == m - num_ins
           rest == SubSeq(vs, 1, left)
           ins == SubSeq(vs, left + 1, m)
           size == Len(q.definers)
           out == IF type = Void THEN 0 ELSE size + 1
           inst == [kind |-> kind, out |-> out, data |-> data, ins |-> ins]
           new == Extended(q.blocks, b, inst)
           n == Len(q.blocks[b])
           definer == [block |-> b, inst |-> n + 1, type |-> type]
           r == make_inst_in_block(q, b, kind, type, num_ins, data)
<1>1. /\ DOMAIN q = Fields /\ vs \in Seq(Nat) /\ m \in Nat /\ left \in Nat /\ left <= m
      /\ q.definers \in Seq(Definers) /\ size \in Nat /\ q.blocks \in Seq(Seq(Insts))
      /\ EndsOnce(q.blocks) /\ Void \notin TypeNames
  <2>1. Void \notin TypeNames
    BY DEF Void, TypeNames, Size, OneByte, TwoBytes, FourBytes, EightBytes
  <2> QED
    BY <2>1 DEF Ready, Built, Typed
<1>2. /\ b \in Unended(q.blocks) /\ b \in Nat /\ b \in DOMAIN q.blocks
      /\ ValuesAreDefined(q) /\ PointBack(q) /\ Agreeing(q) /\ DOMAIN q.definers = 1..size
  BY <1>1 DEF Ready, Held, Built
<1>3. \A i \in 1..m : vs[i] \in Nat /\ vs[i] \in Values(q)
  BY <1>1, SMTT(30) DEF Ready, Built, ValuesAreDefined
<1>4. rest \in Seq(Nat) /\ Len(rest) = left /\ \A i \in 1..left : rest[i] = vs[i]
  <2>1. \A i \in 1..left : vs[i] \in Nat
    BY <1>1, <1>3
  <2> QED
    BY <1>1, <2>1, SubSeqProperties
<1>5. /\ ins \in Seq(Nat) /\ Len(ins) = num_ins
      /\ \A i \in 1..num_ins : ins[i] = vs[left + i] /\ left + i \in (left + 1)..m
  <2>1. \A i \in (left + 1)..m : vs[i] \in Nat
    BY <1>1, <1>3
  <2>2. /\ ins \in Seq(Nat) /\ Len(ins) = IF left + 1 <= m THEN m - (left + 1) + 1 ELSE 0
        /\ \A i \in 1..(m - (left + 1) + 1) : ins[i] = vs[(left + 1) + i - 1]
    BY <1>1, <2>1, SubSeqProperties
  <2> QED
    BY <1>1, <2>2
<1> HIDE DEF rest, ins
<1>6. inst \in Insts /\ inst.kind = kind /\ inst.ins = ins /\ inst.out = out
  BY <1>1, <1>5 DEF Insts
<1> HIDE DEF inst
<1>7. /\ new \in Seq(Seq(Insts)) /\ Len(new) = Len(q.blocks) /\ DOMAIN new = DOMAIN q.blocks
      /\ q.blocks[b] \in Seq(Insts) /\ new[b] \in Seq(Insts) /\ n \in Nat
      /\ Len(new[b]) = n + 1 /\ DOMAIN new[b] = 1..(n + 1) /\ DOMAIN q.blocks[b] = 1..n
      /\ new[b][n + 1] = inst /\ \A i \in 1..n : new[b][i] = q.blocks[b][i]
      /\ \A c \in DOMAIN q.blocks : c # b => new[c] = q.blocks[c]
      /\ EndsOnce(new)
      /\ Unended(new) = IF kind \in Terminators THEN Unended(q.blocks) \ {b}
                        ELSE Unended(q.blocks)
  <2>1. IsLonger(new, q.blocks, b, inst)
    BY <1>1, <1>2, <1>6, CodeAppended
  <2> HIDE DEF new
  <2> QED
    BY <1>6, <2>1 DEF IsLonger
<1>8. /\ DOMAIN r = Fields /\ r.blocks = new
      /\ r.state_stack = q.state_stack /\ r.scope_stack = q.scope_stack /\ r.aborted = q.aborted
      /\ type = Void => r.value_stack = rest /\ r.definers = q.definers
      /\ type # Void => /\ r.value_stack = Append(rest, size + 1)
                        /\ r.definers = Append(q.definers, definer)
  <2>1. ~(left < 0)
    BY <1>1
  <2>2. CASE type = Void
    BY <1>1, <2>1, <2>2 DEF make_inst_in_block, Extended, Fields, rest, ins, inst
  <2>3. CASE type # Void
    BY <1>1, <2>1, <2>3 DEF make_inst_in_block, push_value, Extended, Fields, rest, ins, inst
  <2> QED
    BY <2>2, <2>3
<1>a. /\ left \in Nat /\ m \in Nat /\ left <= m /\ m = left + num_ins /\ size \in Nat
      /\ \A i \in 1..left : i \in 1..m
      /\ \A i \in (left + 1)..m : i \in 1..m
      /\ \A i \in 1..(left + 1) : i \in 1..left \/ i = left + 1
  BY <1>1, SMTT(30)
<1>b. n \in Nat /\ \A i \in 1..n : i \in 1..(n + 1)
  BY <1>7
<1> HIDE DEF new, r, left, m, size, n
<1>9. /\ r.definers \in Seq(Definers) /\ r.value_stack \in Seq(Nat)
      /\ Len(r.definers) = IF type = Void THEN size ELSE size + 1
      /\ \A v \in 1..size : r.definers[v] = q.definers[v]
      /\ type # Void => r.definers[size + 1] = definer
  <2>1. CASE type = Void
    BY <1>1, <1>4, <1>8, <2>1 DEF size
  <2>2. CASE type # Void
    <3>1. definer \in Definers
      BY <1>2, <1>7, <2>2 DEF Definers
    <3> HIDE DEF definer
    <3>2. /\ Append(q.definers, definer) \in Seq(Definers)
          /\ Len(Append(q.definers, definer)) = size + 1
          /\ Append(q.definers, definer)[size + 1] = definer
          /\ \A v \in 1..size : Append(q.definers, definer)[v] = q.definers[v]
      BY <1>1, <3>1, AppendProperties DEF size
    <3>3. size + 1 \in Nat /\ Append(rest, size + 1) \in Seq(Nat)
      BY <1>1, <1>4
    <3> QED
      BY <1>8, <2>2, <3>2, <3>3
  <2> QED
    BY <2>1, <2>2
<1>10. /\ Values(q) \subseteq Values(r) /\ Values(q) = 1..size
       /\ type # Void => size + 1 \in Values(r)
  BY <1>a, <1>9 DEF Values, size
<1>11. \A i \in DOMAIN r.value_stack : r.value_stack[i] \in Values(r)
  <2>1. \A i \in 1..left : rest[i] \in Values(r)
    BY <1>a, <1>3, <1>4, <1>10
  <2>2. CASE type = Void
    BY <1>4, <1>8, <2>1, <2>2
  <2>3. CASE type # Void
    <3> DEFINE stack == Append(rest, size + 1)
    <3>1. /\ stack \in Seq(Nat) /\ Len(stack) = left + 1 /\ stack[left + 1] = size + 1
          /\ \A i \in 1..left : stack[i] = rest[i]
      <4>1. size + 1 \in Nat
        BY <1>a
      <4> QED
        BY <1>4, <4>1, AppendProperties
    <3> HIDE DEF stack
    <3>2. DOMAIN stack = 1..(left + 1)
      BY <3>1
    <3>3. \A i \in DOMAIN stack : stack[i] \in Values(r)
      BY <1>a, <1>10, <2>1, <2>3, <3>1, <3>2
    <3> QED
      BY <1>8, <2>3, <3>3 DEF stack
  <2> QED
    BY <2>2, <2>3
<1>12. \A c \in DOMAIN r.blocks : \A i \in DOMAIN r.blocks[c] :
         \A j \in DOMAIN r.blocks[c][i].ins : r.blocks[c][i].ins[j] \in Values(q)
  <2> SUFFICES ASSUME NEW c \in DOMAIN q.blocks, NEW i \in DOMAIN new[c],
                      NEW j \in DOMAIN new[c][i].ins
               PROVE  new[c][i].ins[j] \in Values(q)
    BY <1>7, <1>8
  <2>1. ASSUME i \in DOMAIN q.blocks[c], new[c][i] = q.blocks[c][i]
        PROVE  new[c][i].ins[j] \in Values(q)
    BY <1>2, <2>1 DEF ValuesAreDefined
  <2>2. CASE c # b
    BY <1>7, <2>1, <2>2
  <2>3. CASE c = b /\ i \in 1..n
    BY <1>7, <2>1, <2>3
  <2>4. CASE c = b /\ i = n + 1
    <3>1. new[c][i].ins = ins /\ DOMAIN ins = 1..num_ins
      BY <1>5, <1>6, <1>7, <2>4
    <3> QED
      BY <1>a, <1>3, <1>5, <3>1
  <2> QED
    BY <1>7, <2>2, <2>3, <2>4
<1>13. ValuesAreDefined(r)
  <2>1. \A i \in DOMAIN r.scope_stack : \A name \in DOMAIN r.scope_stack[i] :
          r.scope_stack[i][name] \in Values(r)
    BY <1>2, <1>8, <1>10 DEF ValuesAreDefined
  <2>2. \A c \in DOMAIN r.blocks : \A i \in DOMAIN r.blocks[c] :
          \A j \in DOMAIN r.blocks[c][i].ins : r.blocks[c][i].ins[j] \in Values(r)
    BY <1>10, <1>12
  <2> QED
    BY <1>11, <2>1, <2>2 DEF ValuesAreDefined
\* Where an old value was made, nothing changed.
<1>14. \A v \in 1..size :
         LET d == q.definers[v] IN
         /\ r.definers[v] = d /\ d.block \in DOMAIN new /\ d.inst \in DOMAIN new[d.block]
         /\ d.block \in DOMAIN q.blocks /\ d.inst \in DOMAIN q.blocks[d.block]
         /\ new[d.block][d.inst] = q.blocks[d.block][d.inst]
         /\ q.blocks[d.block][d.inst].out = v
         /\ d.inst > 1 => /\ d.inst - 1 \in DOMAIN q.blocks[d.block]
                          /\ new[d.block][d.inst - 1] = q.blocks[d.block][d.inst - 1]
  <2> SUFFICES ASSUME NEW v \in 1..size
               PROVE  LET d == q.definers[v] IN
                      /\ r.definers[v] = d /\ d.block \in DOMAIN new
                      /\ d.inst \in DOMAIN new[d.block]
                      /\ d.block \in DOMAIN q.blocks /\ d.inst \in DOMAIN q.blocks[d.block]
                      /\ new[d.block][d.inst] = q.blocks[d.block][d.inst]
                      /\ q.blocks[d.block][d.inst].out = v
                      /\ d.inst > 1 => /\ d.inst - 1 \in DOMAIN q.blocks[d.block]
                                       /\ new[d.block][d.inst - 1]
                                            = q.blocks[d.block][d.inst - 1]
    OBVIOUS
  <2> DEFINE d == q.definers[v]
  <2>1. /\ d.block \in DOMAIN q.blocks /\ d.inst \in DOMAIN q.blocks[d.block]
        /\ q.blocks[d.block][d.inst].out = v /\ d \in Definers /\ r.definers[v] = d
    <3>1. v \in DOMAIN q.definers /\ d \in Definers /\ r.definers[v] = d
      BY <1>1, <1>2, <1>9
    <3> QED
      BY <1>2, <3>1 DEF PointBack
  <2> HIDE DEF d
  <2>2. d.inst \in Nat /\ q.blocks[d.block] \in Seq(Insts)
    BY <1>1, <2>1 DEF Definers
  <2>3. d.inst > 1 => d.inst - 1 \in DOMAIN q.blocks[d.block]
    BY <2>1, <2>2
  <2>4. \A i \in DOMAIN q.blocks[d.block] : /\ i \in DOMAIN new[d.block]
                                            /\ new[d.block][i] = q.blocks[d.block][i]
    <3>1. CASE d.block # b
      BY <1>7, <2>1, <3>1
    <3>2. CASE d.block = b
      BY <1>b, <1>7, <3>2
    <3> QED
      BY <3>1, <3>2
  <2> QED
    BY <1>7, <2>1, <2>3, <2>4 DEF d
<1>15. \A v \in DOMAIN r.definers : v \in 1..size \/ (type # Void /\ v = size + 1)
  BY <1>a, <1>9
<1>16. type # Void => definer.block = b /\ definer.inst = n + 1 /\ definer.type = type
                      /\ inst.out = size + 1
  BY <1>6
<1> HIDE DEF definer
<1>17. PointBack(r)
  <2> SUFFICES ASSUME NEW v \in DOMAIN r.definers
               PROVE  LET d == r.definers[v] IN
                      /\ d.block \in DOMAIN r.blocks /\ d.inst \in DOMAIN r.blocks[d.block]
                      /\ r.blocks[d.block][d.inst].out = v
    BY DEF PointBack
  <2>1. CASE v \in 1..size
    BY <1>8, <1>14, <2>1
  <2>2. CASE type # Void /\ v = size + 1
    <3>1. n + 1 \in 1..(n + 1)
      BY <1>7
    <3>2. r.definers[v].block = b /\ r.definers[v].inst = n + 1
      BY <1>9, <1>16, <2>2
    <3>3. b \in DOMAIN new /\ n + 1 \in DOMAIN new[b] /\ new[b][n + 1].out = v
      BY <1>2, <1>7, <1>16, <2>2, <3>1
    <3> QED
      BY <1>8, <3>2, <3>3
  <2> QED
    BY <1>15, <2>1, <2>2
<1>18. Agreeing(r)
  <2> SUFFICES ASSUME NEW v \in DOMAIN r.definers
               PROVE  Agrees(r, r.blocks[r.definers[v].block], r.definers[v].inst,
                             r.definers[v].type)
    BY DEF Agreeing
  <2>1. CASE v \in 1..size
    <3> DEFINE d == q.definers[v]
               code == q.blocks[d.block]
    <3>1. Agrees(q, code, d.inst, d.type)
      BY <1>2, <2>1 DEF Agreeing
    <3>2. /\ r.definers[v] = d /\ new[d.block][d.inst] = code[d.inst]
          /\ d.inst > 1 => new[d.block][d.inst - 1] = code[d.inst - 1]
      BY <1>14, <2>1
    <3>3. \A j \in DOMAIN code[d.inst].ins :
            r.definers[code[d.inst].ins[j]] = q.definers[code[d.inst].ins[j]]
      <4>1. \A j \in DOMAIN code[d.inst].ins : code[d.inst].ins[j] \in Values(q)
        <5>1. d.block \in DOMAIN q.blocks /\ d.inst \in DOMAIN q.blocks[d.block]
          BY <1>14, <2>1
        <5> QED
          BY <1>2, <5>1 DEF ValuesAreDefined
      <4>2. \A u \in Values(q) : r.definers[u] = q.definers[u]
        BY <1>9, <1>10
      <4> QED
        BY <4>1, <4>2
    <3>4. code[d.inst].ins # <<>> => 1 \in DOMAIN code[d.inst].ins
      <4>1. code[d.inst] \in Insts
        <5>1. d.block \in DOMAIN q.blocks /\ d.inst \in DOMAIN code
          BY <1>14, <2>1
        <5>2. code \in Seq(Insts)
          BY <1>1, <5>1
        <5> QED
          BY <5>1, <5>2
      <4>2. code[d.inst].ins \in Seq(Nat)
        BY <4>1 DEF Insts
      <4> QED
        BY <4>2, SMTT(30)
    <3> HIDE DEF d, code
    <3>5. Agrees(r, new[d.block], d.inst, d.type)
      BY <3>1, <3>2, <3>3, <3>4 DEF Agrees, OfTwoTypes
    <3> QED
      BY <1>8, <3>2, <3>5
  <2>2. CASE type # Void /\ v = size + 1
    <3>1. r.definers[v].block = b /\ r.definers[v].inst = n + 1 /\ r.definers[v].type = type
      BY <1>9, <1>16, <2>2
    <3>2. new[b][n + 1].kind = kind /\ new[b][n + 1].ins = ins
      BY <1>6, <1>7
    <3>3. DOMAIN ins = 1..num_ins
      BY <1>5
    <3>4. ASSUME kind \in ArithmeticKinds, OfTwoTypes(new[b], n + 1)
          PROVE  \A j \in 1..num_ins : r.definers[ins[j]].type = type
      <4>1. n + 1 - 1 = n /\ n >= 1 /\ n \in 1..n
        BY <1>7, <3>4 DEF OfTwoTypes
      <4>2. q.blocks[b] # <<>> /\ Last(q.blocks[b]).kind = "CAST"
        <5>1. new[b][n].kind = "CAST" /\ new[b][n] = q.blocks[b][n]
          BY <1>7, <3>4, <4>1 DEF OfTwoTypes
        <5>2. q.blocks[b] # <<>>
          BY <1>7, <4>1
        <5> QED
          BY <5>1, <5>2 DEF Last, n
      <4>3. \A i \in (left + 1)..m : q.definers[vs[i]].type = type
        BY <3>4, <4>2 DEF TypeFits, left, m
      <4>4. \A i \in (left + 1)..m : vs[i] \in 1..size
        BY <1>a, <1>3, <1>10
      <4>5. ASSUME NEW j \in 1..num_ins
            PROVE  r.definers[ins[j]].type = type
        <5>1. ins[j] = vs[left + j] /\ left + j \in (left + 1)..m
          BY <1>5
        <5>2. ins[j] \in 1..size /\ q.definers[ins[j]].type = type
          BY <4>3, <4>4, <5>1
        <5> QED
          BY <1>9, <5>2
      <4> QED
        BY <4>5
    <3>5. ASSUME kind = "CAST"
          PROVE  ins # <<>> /\ Size[type] >= Size[r.definers[ins[1]].type]
      <4>1. num_ins = 1 /\ Size[type] >= Size[q.definers[value(q)].type]
        BY <3>5 DEF TypeFits
      <4>2. ins # <<>> /\ ins[1] = vs[m] /\ m \in 1..m
        <5>1. m >= 1 /\ left + 1 = m /\ 1 \in 1..num_ins
          BY <1>a, <4>1
        <5> QED
          BY <1>a, <1>5, <5>1
      <4>3. ins[1] = value(q) /\ ins[1] \in 1..size
        <5>1. value(q) = vs[m]
          BY DEF value, Last, m
        <5> QED
          BY <1>3, <1>10, <4>2, <5>1
      <4> QED
        BY <1>9, <4>1, <4>2, <4>3
    <3>6. kind = "LOAD" => ins # <<>>
      <4>1. kind = "LOAD" => num_ins = 1
        BY DEF TypeFits
      <4>2. num_ins = 1 => 1 \in DOMAIN ins
        BY <3>3
      <4> HIDE DEF ins
      <4>3. 1 \in DOMAIN ins => ins # <<>>
        OBVIOUS
      <4> QED
        BY <4>1, <4>2, <4>3
    <3>7. Agrees(r, new[b], n + 1, type)
      BY <3>2, <3>3, <3>4, <3>5, <3>6 DEF Agrees
    <3> QED
      BY <1>8, <3>1, <3>7
  <2> QED
    BY <1>15, <2>1, <2>2
<1>19. Built(r)
  <2>1. Typed(r)
    BY <1>7, <1>8, <1>9 DEF Ready, Built, Typed
  <2>2. r.blocks # <<>>
    BY <1>2, <1>7, <1>8
  <2> QED
    BY <1>7, <1>8, <1>13, <1>17, <1>18, <2>1, <2>2 DEF Built
<1>20. Held(r.state_stack, r, Left(D, b, kind), k)
  <2>1. Waiting(r.state_stack, Len(r.definers), Len(r.blocks))
    <3>1. Len(q.blocks) \in Nat /\ Len(r.blocks) = Len(q.blocks) /\ Len(r.definers) \in Nat
          /\ size <= Len(r.definers)
      BY <1>1, <1>7, <1>8, <1>9
    <3> QED
      BY <1>1, <1>8, <3>1, MoreKeepsWaiting, SMTT(30) DEF Ready, Held
  <2>2. /\ Left(D, b, kind) \subseteq DOMAIN r.blocks
        /\ Left(D, b, kind) \cap NamedBy(r.state_stack) = {}
        /\ Unended(r.blocks) = NamedBy(r.state_stack) \cup Left(D, b, kind)
    BY <1>7, <1>8 DEF Ready, Held, Left
  <2> QED
    BY <1>8, <2>1, <2>2 DEF Ready, Held
<1>21. Last(r.blocks[b]).kind = kind
  BY <1>6, <1>7, <1>8 DEF Last
<1>22. After(q, r, b, kind, type, num_ins)
  <2>1. Len(r.blocks) = Len(q.blocks) /\ \A c \in DOMAIN q.blocks : c # b => r.blocks[c] = q.blocks[c]
    BY <1>7, <1>8
  <2>2. r.state_stack = q.state_stack /\ r.scope_stack = q.scope_stack /\ r.aborted = q.aborted
    BY <1>8
  <2>3. type = Void => r.value_stack = rest /\ r.definers = q.definers
    BY <1>8
  <2>4. type # Void =>
          /\ r.value_stack = Append(rest, size + 1) /\ Len(r.definers) = size + 1
          /\ r.definers[size + 1].type = type
          /\ \A v \in Values(q) : r.definers[v] = q.definers[v]
    BY <1>8, <1>9, <1>10, <1>16 DEF size
  <2> QED
    BY <1>21, <2>1, <2>2, <2>3, <2>4 DEF After, rest, left, m, size
<1>23. Ready(r, Left(D, b, kind), k)
  BY <1>19, <1>20 DEF Ready
<1> QED
  BY <1>22, <1>23 DEF r
\* No cast ends a block other than b.
NoCastBut(q, b) ==
  \A c \in DOMAIN q.blocks : c # b /\ q.blocks[c] # <<>> => Last(q.blocks[c]).kind # "CAST"

LEMMA CastIsFollowed ==
  ASSUME NEW q, NEW D, NEW k, Ready(q, D, k), NEW b \in D, NEW r, NEW kind, NEW type, NEW num_ins,
         NoCastBut(q, b), After(q, r, b, kind, type, num_ins), r.blocks \in Seq(Seq(Insts))
  PROVE  NoCastBut(r, b) /\ (kind # "CAST" => NoCastLast(r))
<1>1. q.blocks \in Seq(Seq(Insts)) /\ Len(r.blocks) = Len(q.blocks)
  BY DEF Ready, Built, Typed, After
<1>2. DOMAIN r.blocks = DOMAIN q.blocks
  BY <1>1
<1>3. /\ Last(r.blocks[b]).kind = kind
      /\ \A c \in DOMAIN q.blocks : c # b => r.blocks[c] = q.blocks[c]
  BY DEF After
<1> QED
  BY <1>2, <1>3 DEF NoCastBut, NoCastLast

\* Too few operands.
LEMMA TooFew ==
  ASSUME NEW q, NEW b, NEW kind, NEW type, NEW num_ins \in Nat, NEW data,
         Len(q.value_stack) \in Nat, Len(q.value_stack) < num_ins
  PROVE  make_inst_in_block(q, b, kind, type, num_ins, data) = [q EXCEPT !.aborted = TRUE]
<1>1. Len(q.value_stack) - num_ins < 0
  OBVIOUS
<1> QED
  BY <1>1 DEF make_inst_in_block

\* A block ended: r has the blocks D left to end.
EndedTo(q, r, D, k) ==
  /\ Ready(r, D, k) /\ NoCastLast(r)
  /\ r.state_stack = q.state_stack /\ r.definers = q.definers /\ r.aborted = q.aborted
  /\ cur_block(r) = cur_block(q)

LEMMA Ended ==
  ASSUME NEW q, NEW D, NEW k, Ready(q, D, k), NoCastLast(q), NEW b \in D,
         NEW kind \in {"GOTO", "BRANCH", "RETURN"},
         NEW num_ins \in Nat, num_ins <= Len(q.value_stack), NEW data \in Seq(Nat)
  PROVE  EndedTo(q, make_inst_in_block(q, b, kind, Void, num_ins, data), D \ {b}, k)
<1> DEFINE r == make_inst_in_block(q, b, kind, Void, num_ins, data)
<1>1. /\ kind \in InstKinds /\ kind \in Terminators /\ kind # "CAST"
      /\ kind \notin ArithmeticKinds /\ kind # "LOAD"
  BY DEF InstKinds, Terminators, ArithmeticKinds
<1>2. TypeFits(q, b, kind, Void, num_ins)
  BY <1>1 DEF TypeFits
<1>3. Ready(r, Left(D, b, kind), k) /\ After(q, r, b, kind, Void, num_ins)
  BY <1>1, <1>2, Made
<1> HIDE DEF r
<1>4. Left(D, b, kind) = D \ {b}
  BY <1>1 DEF Left
<1>5. NoCastBut(q, b)
  BY DEF NoCastLast, NoCastBut
<1>6. NoCastLast(r)
  BY <1>1, <1>3, <1>5, CastIsFollowed DEF Ready, Built, Typed
<1>7. /\ r.state_stack = q.state_stack /\ r.definers = q.definers /\ r.aborted = q.aborted
      /\ cur_block(r) = cur_block(q)
  BY <1>3 DEF After, cur_block
<1> QED
  BY <1>3, <1>4, <1>6, <1>7 DEF r, EndedTo

LEMMA GotoMade ==
  ASSUME NEW q, NEW D, NEW k, Ready(q, D, k), NoCastLast(q), NEW from \in D, NEW to \in Nat
  PROVE  EndedTo(q, make_goto(q, from, to), D \ {from}, k)
<1>1. <<to>> \in Seq(Nat) /\ 0 \in Nat /\ 0 <= Len(q.value_stack)
  BY DEF Ready, Built, Typed
<1> QED
  BY <1>1, Ended DEF make_goto

LEMMA BranchMade ==
  ASSUME NEW q, NEW D, NEW k, Ready(q, D, k), NoCastLast(q), NEW condition \in Values(q),
         NEW from \in D, NEW true_block \in Nat, NEW false_block \in Nat
  PROVE  EndedTo(q, make_branch(q, condition, from, true_block, false_block), D \ {from}, k)
<1> DEFINE s == push_value(q, condition)
<1>1. /\ Ready(s, D, k) /\ Len(s.value_stack) = Len(q.value_stack) + 1
      /\ s.state_stack = q.state_stack /\ s.definers = q.definers /\ s.aborted = q.aborted
      /\ s.blocks = q.blocks
  BY ValuePushed
<1>2. NoCastLast(s) /\ cur_block(s) = cur_block(q)
  BY <1>1 DEF NoCastLast, cur_block
<1>3. Len(q.value_stack) \in Nat
  BY DEF Ready, Built, Typed
<1> HIDE DEF s
<1>4. <<true_block, false_block>> \in Seq(Nat) /\ 1 \in Nat /\ 1 <= Len(s.value_stack)
  BY <1>1, <1>3
<1> DEFINE r == make_inst_in_block(s, from, "BRANCH", Void, 1, <<true_block, false_block>>)
<1>5. EndedTo(s, r, D \ {from}, k)
  BY <1>1, <1>2, <1>4, Ended
<1>6. r = make_branch(q, condition, from, true_block, false_block)
  BY DEF make_branch, s
<1> HIDE DEF r
<1> QED
  BY <1>1, <1>2, <1>5, <1>6 DEF EndedTo

\* An instruction that makes a value, in the current block.
ValueAdded(q, r, D, k, kind, type, num_ins) ==
  LET out == Len(q.definers) + 1 IN
  /\ Ready(r, D, k) /\ NoCastBut(r, cur_block(r)) /\ (kind # "CAST" => NoCastLast(r))
  /\ r.value_stack = Append(SubSeq(q.value_stack, 1, Len(q.value_stack) - num_ins), out)
  /\ out \in Values(r) /\ r.definers[out].type = type
  /\ Values(q) \subseteq Values(r) /\ \A v \in Values(q) : r.definers[v] = q.definers[v]
  /\ r.state_stack = q.state_stack /\ r.aborted = q.aborted
  /\ cur_block(r) = cur_block(q)

LEMMA ValueMade ==
  ASSUME NEW q, NEW D, NEW k, Ready(q, D, k), cur_block(q) \in D, NoCastBut(q, cur_block(q)),
         NEW kind \in InstKinds \ Terminators, NEW type \in TypeNames,
         NEW num_ins \in Nat, num_ins <= Len(q.value_stack), NEW data \in Nat \cup Seq(Nat),
         TypeFits(q, cur_block(q), kind, type, num_ins)
  PROVE  ValueAdded(q, make_inst(q, kind, type, num_ins, data), D, k, kind, type, num_ins)
<1> DEFINE r == make_inst(q, kind, type, num_ins, data)
           b == cur_block(q)
           out == Len(q.definers) + 1
<1>1. kind \in InstKinds /\ kind \notin Terminators /\ type # Void
  <2>1. Void \notin TypeNames
    BY DEF Void, TypeNames, Size, OneByte, TwoBytes, FourBytes, EightBytes
  <2> QED
    BY <2>1
<1>2. Ready(r, Left(D, b, kind), k) /\ After(q, r, b, kind, type, num_ins)
  BY <1>1, Made DEF make_inst
<1> HIDE DEF r
<1>3. Left(D, b, kind) = D
  BY <1>1 DEF Left
<1>4. NoCastBut(r, b) /\ (kind # "CAST" => NoCastLast(r))
  <2>1. r.blocks \in Seq(Seq(Insts)) /\ b \in D
    BY <1>2 DEF Ready, Built, Typed
  <2> HIDE DEF b
  <2>2. NoCastBut(q, b)
    BY DEF b
  <2> QED
    BY <1>2, <2>1, <2>2, CastIsFollowed
<1>5. /\ r.state_stack = q.state_stack /\ r.aborted = q.aborted /\ cur_block(r) = b
      /\ r.value_stack = Append(SubSeq(q.value_stack, 1, Len(q.value_stack) - num_ins), out)
      /\ Len(r.definers) = Len(q.definers) + 1 /\ r.definers[out].type = type
      /\ \A v \in Values(q) : r.definers[v] = q.definers[v]
  BY <1>1, <1>2 DEF After, cur_block
<1>6. Values(q) \subseteq Values(r) /\ out \in Values(r)
  <2>1. Len(q.definers) \in Nat
    BY DEF Ready, Built, Typed
  <2> QED
    BY <1>5, <2>1 DEF Values
<1>7. ValueAdded(q, r, D, k, kind, type, num_ins)
  BY <1>2, <1>3, <1>4, <1>5, <1>6 DEF ValueAdded
<1> QED
  BY <1>7 DEF r

-----------------------------------------------------------------------------
(* Where a handler begins, and where it ends.                              *)
LEMMA PoppedIsReady ==
  ASSUME IInv, NEW kind \in InnerKinds, At(kind)
  PROVE  /\ state \in States /\ state.kind = kind
         /\ Ready(popped, Named(state) \cup {cur_block(p)}, Scoped(state))
         /\ NoCastLast(popped) /\ popped.aborted = FALSE
         /\ popped.value_stack = p.value_stack /\ popped.definers = p.definers
         /\ popped.scope_stack = p.scope_stack /\ popped.blocks = p.blocks
         /\ cur_block(popped) = cur_block(p) /\ cur_block(p) \in Nat /\ Len(p.definers) \in Nat
         /\ Named(state) \subseteq 1..(cur_block(p) - 1) /\ Condition(state) \subseteq Values(p)
         /\ Last(popped.state_stack).kind \in Consumers => kind \in ExprKinds
         /\ kind \in Consumers => p.value_stack # <<>>
<1> DEFINE stack == p.state_stack
<1>1. stack # <<>> /\ Last(stack).kind = kind /\ state = Last(stack)
  BY DEF At, state
<1>2. ~Outside(p)
  BY <1>1 DEF Outside, Last, InnerKinds, ExprKinds
<1>3. InFunction(p)
  BY <1>2 DEF IInv
<1>4. /\ Built(p) /\ Held(stack, p, {cur_block(p)}, 0) /\ NoCastLast(p) /\ p.aborted = FALSE
      /\ kind \in Consumers => p.value_stack # <<>>
  BY <1>1, <1>3 DEF InFunction, Ready
<1>5. Waiting(stack, Len(p.definers), Len(p.blocks))
  BY <1>4 DEF Held
<1>6. /\ Waiting(Front(stack), Len(p.definers), Len(p.blocks))
      /\ stack = Append(Front(stack), state) /\ state \in States
      /\ Named(state) \cap NamedBy(Front(stack)) = {}
      /\ Named(state) \subseteq 1..(Len(p.blocks) - 1)
      /\ Condition(state) \subseteq 1..Len(p.definers)
      /\ Last(Front(stack)).kind \in Consumers => kind \in ExprKinds
  BY <1>1, <1>5, PopKeepsWaiting
<1>7. Front(stack) \in Seq(States)
  BY <1>6 DEF Waiting
<1>8. /\ NamedBy(stack) = NamedBy(Front(stack)) \cup Named(state)
      /\ OpenBlocks(Front(stack)) \in Nat
      /\ OpenBlocks(stack) = OpenBlocks(Front(stack)) + Scoped(state)
  BY <1>6, <1>7, PushNames, PushOpens DEF Scoped
<1>9. /\ DOMAIN p = Fields /\ Len(p.blocks) \in Nat /\ Len(p.blocks) > 0
      /\ DOMAIN p.blocks = 1..Len(p.blocks) /\ Len(p.definers) \in Nat
  BY <1>4 DEF Built, Typed
<1>10. /\ DOMAIN popped = Fields /\ popped.state_stack = Front(stack)
       /\ popped.value_stack = p.value_stack /\ popped.definers = p.definers
       /\ popped.scope_stack = p.scope_stack /\ popped.blocks = p.blocks
       /\ popped.aborted = p.aborted
  BY <1>9 DEF popped, Fields
<1>11. Built(popped)
  BY <1>4, <1>10, BuiltDependsOn
<1>12. Held(Front(stack), p, Named(state) \cup {cur_block(p)}, Scoped(state))
  <2>1. Scoped(state) \in Int /\ Len(p.scope_stack) = OpenBlocks(Front(stack)) + Scoped(state)
    BY <1>4, <1>8 DEF Held, Scoped
  <2>2. /\ Named(state) \cup {cur_block(p)} \subseteq DOMAIN p.blocks
        /\ (Named(state) \cup {cur_block(p)}) \cap NamedBy(Front(stack)) = {}
        /\ Unended(p.blocks) = NamedBy(Front(stack)) \cup (Named(state) \cup {cur_block(p)})
    <3>1. \A b \in 1..(Len(p.blocks) - 1) : b \in DOMAIN p.blocks
      BY <1>9
    <3> QED
      BY <1>4, <1>6, <1>8, <3>1 DEF Held
  <2> QED
    BY <1>6, <2>1, <2>2 DEF Held
<1>13. Ready(popped, Named(state) \cup {cur_block(p)}, Scoped(state))
  BY <1>10, <1>11, <1>12, HeldDependsOn DEF Ready
<1>14. NoCastLast(popped) /\ cur_block(popped) = cur_block(p) /\ cur_block(p) = Len(p.blocks)
  BY <1>4, <1>10 DEF NoCastLast, cur_block
<1>15. Values(p) = 1..Len(p.definers)
  BY DEF Values
<1> QED
  BY <1>1, <1>4, <1>6, <1>9, <1>10, <1>13, <1>14, <1>15

LEMMA StoppedIsOutside ==
  ASSUME NEW how, Stop(how)
  PROVE  IInv'
<1>1. src' \in Seq({EOF})
  BY DEF Stop
<1>2. Outside(Nothing)
  <2>1. Nothing.blocks = <<>> /\ <<>> \in Seq(Seq(Insts)) /\ DOMAIN Nothing = Fields
    BY DEF Nothing, Fields
  <2>2. EndsOnce(<<>>)
    BY DEF EndsOnce, Jumps
  <2> QED
    BY <2>1, <2>2 DEF Nothing, Outside
<1>3. p' = Nothing
  BY DEF Stop
<1> QED
  BY <1>1, <1>2, <1>3 DEF IInv

LEMMA KeepingSettles ==
  ASSUME IInv, NEW q, Keeping(q), q.aborted = FALSE => InFunction(q) \/ Outside(q),
         q.aborted \in BOOLEAN
  PROVE  IInv'
<1>1. CASE q.aborted = TRUE
  BY <1>1, StoppedIsOutside DEF Keeping
<1>2. CASE q.aborted = FALSE
  BY <1>2 DEF Keeping, IInv
<1> QED
  BY <1>1, <1>2

LEMMA ReadingSettles ==
  ASSUME IInv, NEW q, NEW T, NEW ts \in Seq(T), Reading(ts, q), InFunction(q) \/ Outside(q)
  PROVE  IInv'
<1>1. PICK S : src \in Seq(S)
  BY DEF IInv
<1>2. PICK next : p' = q /\ src' = src \o ts \o <<next>>
  BY DEF Reading
<1>3. src \in Seq(S \cup T \cup {next}) /\ ts \in Seq(S \cup T \cup {next})
      /\ <<next>> \in Seq(S \cup T \cup {next})
  BY <1>1
<1>4. src' \in Seq(S \cup T \cup {next})
  BY <1>2, <1>3, ConcatProperties
<1> QED
  BY <1>2, <1>4 DEF IInv

-----------------------------------------------------------------------------
\* A state that names no block and holds no condition.
Plain(x) == /\ x \in States /\ x.kind \in InnerKinds
            /\ Named(x) = {} /\ Condition(x) = {}

LEMMA PlainStates ==
  /\ \A kind \in {"block", "block_stmt", "local_decl", "if", "if_body", "while",
                  "complete_return", "semi", "expr", "primary"} : Plain([kind |-> kind])
  /\ \A d \in BOOLEAN : Plain([kind |-> "stmt", dependent |-> d])
  /\ \A b \in Nat : Plain([kind |-> "while_body", head_head |-> b])
  /\ \A n \in Nat : Plain(Binary(n)) /\ Plain(Infix(n))
  /\ \A o \in {"*", "/", "+", "-", "="} : Plain([kind |-> "complete_binary", op |-> o])
BY DEF Plain, States, InnerKinds, ExprKinds, Named, Condition, Binary, Infix

LEMMA PushSettles ==
  ASSUME NEW q, NEW D, NEW k, Ready(q, D, k), NoCastLast(q), q.aborted = FALSE,
         NEW x, Fits(x, q.state_stack, q, D), D \ Named(x) = {cur_block(q)}, k = Scoped(x),
         x.kind \notin Consumers
  PROVE  InFunction(Push(q, <<x>>))
<1> DEFINE r == Push(q, <<x>>)
<1>1. /\ Ready(r, D \ Named(x), k - Scoped(x)) /\ Last(r.state_stack) = x
      /\ r.blocks = q.blocks /\ r.aborted = q.aborted
  BY Pushed
<1> HIDE DEF r
<1>2. k - Scoped(x) = 0
  BY DEF Scoped
<1>3. NoCastLast(r) /\ cur_block(r) = cur_block(q)
  BY <1>1 DEF NoCastLast, cur_block
<1>4. InFunction(r)
  BY <1>1, <1>2, <1>3 DEF InFunction
<1> QED
  BY <1>4 DEF r

LEMMA PushPairSettles ==
  ASSUME NEW q, NEW D, NEW k, Ready(q, D, k), NoCastLast(q), q.aborted = FALSE,
         NEW x, Fits(x, q.state_stack, q, D), D \ Named(x) = {cur_block(q)},
         NEW y, Plain(y), x.kind \in Consumers => y.kind \in ExprKinds,
         k = Scoped(x) + Scoped(y), y.kind \notin Consumers
  PROVE  InFunction(Push(q, <<x, y>>))
<1> DEFINE r == Push(q, <<x>>)
<1>1. /\ Ready(r, D \ Named(x), k - Scoped(x)) /\ Last(r.state_stack) = x
      /\ r.blocks = q.blocks /\ r.aborted = q.aborted /\ r.definers = q.definers
  BY Pushed
<1>2. Push(q, <<x, y>>) = Push(r, <<y>>)
  BY PushedTwo DEF Ready, Held, Waiting, Fits, Plain
<1> HIDE DEF r
<1>3. k - Scoped(x) = Scoped(y)
  BY DEF Scoped
<1>4. NoCastLast(r) /\ cur_block(r) = cur_block(q)
  BY <1>1 DEF NoCastLast, cur_block
<1>5. Fits(y, r.state_stack, r, D \ Named(x)) /\ (D \ Named(x)) \ Named(y) = D \ Named(x)
  BY <1>1 DEF Fits, Plain
<1>6. InFunction(Push(r, <<y>>))
  BY <1>1, <1>3, <1>4, <1>5, PushSettles
<1> QED
  BY <1>2, <1>6

LEMMA PushTripleSettles ==
  ASSUME NEW q, Ready(q, {cur_block(q)}, 0), NoCastLast(q), q.aborted = FALSE,
         NEW x, Plain(x), Last(q.state_stack).kind \in Consumers => x.kind \in ExprKinds,
         NEW y, Plain(y), x.kind \in Consumers => y.kind \in ExprKinds,
         NEW z, Plain(z), y.kind \in Consumers => z.kind \in ExprKinds,
         x.kind # "block_stmt", y.kind # "block_stmt", z.kind # "block_stmt",
         z.kind \notin Consumers
  PROVE  InFunction(Push(q, <<x, y, z>>))
<1> DEFINE r == Push(q, <<x>>)
           D == {cur_block(q)}
<1>1. Fits(x, q.state_stack, q, D) /\ D \ Named(x) = D
  BY DEF Fits, Plain
<1>2. /\ Ready(r, D, 0) /\ Last(r.state_stack) = x
      /\ r.blocks = q.blocks /\ r.aborted = q.aborted /\ r.definers = q.definers
  <2>1. Scoped(x) = 0 /\ 0 - 0 = 0
    BY DEF Scoped
  <2> QED
    BY <1>1, <2>1, Pushed
<1>3. NoCastLast(r) /\ cur_block(r) = cur_block(q)
  BY <1>2 DEF NoCastLast, cur_block
<1>4. Push(q, <<x, y, z>>) = Push(r, <<y, z>>)
  <2> DEFINE s == q.state_stack
  <2>1. s \in Seq(States) /\ x \in States /\ y \in States /\ z \in States
    BY DEF Ready, Held, Waiting, Plain
  <2>2. s \o <<x, y, z>> = (s \o <<x>>) \o <<y, z>>
    <3>1. <<x, y, z>> = <<x>> \o <<y, z>>
      <4>1. /\ <<x>> \in Seq(States) /\ <<y>> \in Seq(States) /\ <<z>> \in Seq(States)
            /\ <<y, z>> \in Seq(States) /\ <<x, y>> \in Seq(States)
        BY <2>1
      <4>2. Append(<<x, y>>, z) = <<x, y>> \o <<z>> /\ Append(<<y>>, z) = <<y>> \o <<z>>
            /\ Append(<<x>>, y) = <<x>> \o <<y>>
        BY <2>1, <4>1, AppendIsConcat
      <4>3. <<x, y, z>> = (<<x>> \o <<y>>) \o <<z>> /\ <<y, z>> = <<y>> \o <<z>>
        BY <4>2, Appended
      <4> QED
        BY <4>1, <4>3, ConcatAssociative
    <3> QED
      BY <2>1, <3>1, ConcatAssociative, SMTT(30)
  <2> HIDE DEF s
  <2>3. Push(Push(q, <<x>>), <<y, z>>) = [q EXCEPT !.state_stack = (s \o <<x>>) \o <<y, z>>]
    BY DEF Push, s
  <2> QED
    BY <2>2, <2>3 DEF Push, s
<1> HIDE DEF r, D
<1>5. Fits(y, r.state_stack, r, D) /\ D \ Named(y) = D /\ 0 = Scoped(y) + Scoped(z)
  BY <1>2 DEF Fits, Plain, Scoped
<1>6. D = {cur_block(r)}
  BY <1>3 DEF D
<1>7. InFunction(Push(r, <<y, z>>))
  BY <1>2, <1>3, <1>5, <1>6, PushPairSettles
<1> QED
  BY <1>4, <1>7

-----------------------------------------------------------------------------
(* Scopes.                                                                 *)
LEMMA ScopePushed ==
  ASSUME NEW q, NEW D, NEW k, Ready(q, D, k)
  PROVE  LET r == push_scope(q) IN
         /\ Ready(r, D, k + 1) /\ r.state_stack = q.state_stack /\ r.blocks = q.blocks
         /\ r.aborted = q.aborted
<1> DEFINE r == push_scope(q)
           new == Append(q.scope_stack, <<>>)
           n == Len(q.scope_stack)
<1>1. DOMAIN q = Fields /\ q.scope_stack \in Seq(Scopes) /\ n \in Nat /\ <<>> \in Scopes
  <2>1. <<>> \in [{} -> Nat] /\ {} \in SUBSET Identifiers
    BY EmptySeq
  <2>2. <<>> \in Scopes
    BY <2>1 DEF Scopes
  <2> QED
    BY <2>2 DEF Ready, Built, Typed
<1>2. /\ DOMAIN r = Fields /\ r.scope_stack = new
      /\ r.state_stack = q.state_stack /\ r.definers = q.definers
      /\ r.value_stack = q.value_stack /\ r.blocks = q.blocks /\ r.aborted = q.aborted
  BY <1>1 DEF push_scope, Fields
<1>3. /\ new \in Seq(Scopes) /\ Len(new) = n + 1 /\ new[n + 1] = <<>>
      /\ \A i \in 1..n : new[i] = q.scope_stack[i]
  BY <1>1, AppendProperties
<1>4. DOMAIN new = 1..(n + 1) /\ \A i \in 1..(n + 1) : i \in 1..n \/ i = n + 1
  BY <1>1, <1>3
<1> HIDE DEF r, new
<1>5. \A i \in DOMAIN new : \A name \in DOMAIN new[i] : new[i][name] \in Values(q)
  <2>1. \A i \in 1..n : \A name \in DOMAIN q.scope_stack[i] :
          q.scope_stack[i][name] \in Values(q)
    BY <1>1 DEF Ready, Built, ValuesAreDefined
  <2>2. DOMAIN new[n + 1] = {}
    BY <1>3
  <2> QED
    BY <1>3, <1>4, <2>1, <2>2
<1>6. ValuesAreDefined(r)
  BY <1>2, <1>5 DEF Ready, Built, ValuesAreDefined, Values
<1>7. Typed(r) /\ r.blocks # <<>> /\ PointBack(r) /\ EndsOnce(r.blocks)
  BY <1>2, <1>3 DEF Ready, Built, Typed, PointBack
<1>8. Agreeing(r)
  BY <1>2, ZenonT(30) DEF Ready, Built, Agreeing, Agrees
<1>9. OpenBlocks(q.state_stack) \in Nat /\ k \in Int /\ n = OpenBlocks(q.state_stack) + k
  <2>1. q.state_stack \in Seq(States) /\ [kind |-> "expr"] \in States
    BY DEF Ready, Held, Waiting, States
  <2> QED
    BY <2>1, PushOpens DEF Ready, Held
<1>10. Held(r.state_stack, r, D, k + 1)
  BY <1>2, <1>3, <1>9 DEF Ready, Held
<1>11. Ready(r, D, k + 1)
  BY <1>6, <1>7, <1>8, <1>10 DEF Ready, Built
<1> QED
  BY <1>2, <1>11 DEF r

LEMMA ScopePopped ==
  ASSUME NEW q, NEW D, Ready(q, D, 1)
  PROVE  LET r == pop_scope(q) IN
         /\ Ready(r, D, 0) /\ r.state_stack = q.state_stack /\ r.blocks = q.blocks
         /\ r.aborted = q.aborted
<1> DEFINE r == pop_scope(q)
           new == Front(q.scope_stack)
           n == Len(q.scope_stack)
<1>1. DOMAIN q = Fields /\ q.scope_stack \in Seq(Scopes)
  BY DEF Ready, Built, Typed
<1>2. OpenBlocks(q.state_stack) \in Nat /\ n = OpenBlocks(q.state_stack) + 1
  <2>1. q.state_stack \in Seq(States) /\ [kind |-> "expr"] \in States
    BY DEF Ready, Held, Waiting, States
  <2> QED
    BY <2>1, PushOpens DEF Ready, Held
<1>3. q.scope_stack # <<>>
  BY <1>2
<1>4. /\ new \in Seq(Scopes) /\ Len(new) = n - 1 /\ n \in Nat
      /\ \A i \in 1..(n - 1) : new[i] = q.scope_stack[i]
  BY <1>1, <1>3, FrontAndLast
<1>5. /\ DOMAIN r = Fields /\ r.scope_stack = new
      /\ r.state_stack = q.state_stack /\ r.definers = q.definers
      /\ r.value_stack = q.value_stack /\ r.blocks = q.blocks /\ r.aborted = q.aborted
  BY <1>1 DEF pop_scope, Fields
<1> HIDE DEF r, new
<1>6. \A i \in DOMAIN new : \A name \in DOMAIN new[i] : new[i][name] \in Values(q)
  <2>1. DOMAIN new = 1..(n - 1) /\ \A i \in 1..(n - 1) : i \in DOMAIN q.scope_stack
    BY <1>1, <1>4
  <2>2. ValuesAreDefined(q)
    BY DEF Ready, Built
  <2> QED
    BY <1>4, <2>1, <2>2 DEF ValuesAreDefined
<1>7. ValuesAreDefined(r)
  BY <1>5, <1>6 DEF Ready, Built, ValuesAreDefined, Values
<1>8. Typed(r) /\ r.blocks # <<>> /\ PointBack(r) /\ EndsOnce(r.blocks)
  BY <1>4, <1>5 DEF Ready, Built, Typed, PointBack
<1>9. Agreeing(r)
  BY <1>5, ZenonT(30) DEF Ready, Built, Agreeing, Agrees
<1>10. Held(r.state_stack, r, D, 0)
  BY <1>2, <1>4, <1>5 DEF Ready, Held
<1>11. Ready(r, D, 0)
  BY <1>7, <1>8, <1>9, <1>10 DEF Ready, Built
<1> QED
  BY <1>5, <1>11 DEF r

-----------------------------------------------------------------------------
(* The handlers, one by one.                                               *)
LEMMA NothingNamed ==
  ASSUME NEW x, x.kind \notin {"if_else", "complete_if_else", "complete_while"}
  PROVE  Named(x) = {} /\ Condition(x) = {}
BY DEF Named, Condition

\* A state that names nothing is popped: the current block alone is left.
LEMMA PlainPopped ==
  ASSUME IInv, NEW kind \in InnerKinds, At(kind),
         kind \notin {"if_else", "complete_if_else", "complete_while"}
  PROVE  /\ Ready(popped, {cur_block(popped)}, IF kind = "block_stmt" THEN 1 ELSE 0)
         /\ NoCastLast(popped) /\ popped.aborted = FALSE
<1>1. /\ state.kind = kind /\ Ready(popped, Named(state) \cup {cur_block(p)}, Scoped(state))
      /\ NoCastLast(popped) /\ popped.aborted = FALSE /\ cur_block(popped) = cur_block(p)
  BY PoppedIsReady
<1>2. Named(state) \cup {cur_block(p)} = {cur_block(popped)}
  BY <1>1, NothingNamed
<1> QED
  BY <1>1, <1>2 DEF Scoped

\* A handler that pops a plain state and pushes others.
LEMMA Replaced ==
  ASSUME IInv, NEW kind \in InnerKinds, At(kind),
         kind \notin {"if_else", "complete_if_else", "complete_while", "block_stmt"}
  PROVE  /\ \A x : Plain(x) /\ x.kind \notin Consumers /\ x.kind # "block_stmt"
                   /\ (kind \in ExprKinds => x.kind \in ExprKinds)
                     => InFunction(Push(popped, <<x>>))
         /\ \A x, y : Plain(x) /\ Plain(y) /\ y.kind \notin Consumers
                      /\ x.kind # "block_stmt" /\ y.kind # "block_stmt"
                      /\ (kind \in ExprKinds => x.kind \in ExprKinds)
                      /\ (x.kind \in Consumers => y.kind \in ExprKinds)
                        => InFunction(Push(popped, <<x, y>>))
         /\ \A x, y, z : Plain(x) /\ Plain(y) /\ Plain(z) /\ z.kind \notin Consumers
                         /\ x.kind # "block_stmt" /\ y.kind # "block_stmt"
                         /\ z.kind # "block_stmt"
                         /\ (kind \in ExprKinds => x.kind \in ExprKinds)
                         /\ (x.kind \in Consumers => y.kind \in ExprKinds)
                         /\ (y.kind \in Consumers => z.kind \in ExprKinds)
                           => InFunction(Push(popped, <<x, y, z>>))
<1> DEFINE D == {cur_block(popped)}
<1>1. /\ Ready(popped, D, 0) /\ NoCastLast(popped) /\ popped.aborted = FALSE
      /\ Last(popped.state_stack).kind \in Consumers => kind \in ExprKinds
  BY PlainPopped, PoppedIsReady
<1>2. \A x : Plain(x) => D \ Named(x) = D
  BY DEF Plain
<1>3. \A x : Plain(x) /\ (kind \in ExprKinds => x.kind \in ExprKinds)
               => Fits(x, popped.state_stack, popped, D)
  BY <1>1 DEF Plain, Fits
<1>4. \A x : x.kind # "block_stmt" => Scoped(x) = 0
  BY DEF Scoped
<1>5. ASSUME NEW x, Plain(x), x.kind \notin Consumers, x.kind # "block_stmt",
             kind \in ExprKinds => x.kind \in ExprKinds
      PROVE  InFunction(Push(popped, <<x>>))
  BY <1>1, <1>2, <1>3, <1>4, <1>5, PushSettles
<1>6. ASSUME NEW x, NEW y, Plain(x), Plain(y), y.kind \notin Consumers,
             x.kind # "block_stmt", y.kind # "block_stmt",
             kind \in ExprKinds => x.kind \in ExprKinds,
             x.kind \in Consumers => y.kind \in ExprKinds
      PROVE  InFunction(Push(popped, <<x, y>>))
  <2>1. Scoped(x) = 0 /\ Scoped(y) = 0 /\ 0 = 0 + 0
    BY <1>4, <1>6
  <2>2. 0 = Scoped(x) + Scoped(y)
    BY <2>1
  <2> QED
    BY <1>1, <1>2, <1>3, <1>6, <2>2, PushPairSettles
<1>7. ASSUME NEW x, NEW y, NEW z, Plain(x), Plain(y), Plain(z), z.kind \notin Consumers,
             x.kind # "block_stmt", y.kind # "block_stmt", z.kind # "block_stmt",
             kind \in ExprKinds => x.kind \in ExprKinds,
             x.kind \in Consumers => y.kind \in ExprKinds,
             y.kind \in Consumers => z.kind \in ExprKinds
      PROVE  InFunction(Push(popped, <<x, y, z>>))
  BY <1>1, <1>7, PushTripleSettles
<1> QED
  BY <1>5, <1>6, <1>7

LEMMA OutsideAt ==
  ASSUME IInv, NEW kind \in {"top_level", "function"}, At(kind)
  PROVE  Outside(p)
<1>1. p.state_stack # <<>> /\ Last(p.state_stack).kind = kind
  BY DEF At
<1>2. ASSUME InFunction(p)
      PROVE  FALSE
  <2>1. Waiting(p.state_stack, Len(p.definers), Len(p.blocks))
    BY <1>2 DEF InFunction, Ready, Held
  <2> DEFINE n == Len(p.state_stack)
  <2>2. n \in Nat /\ n >= 2 /\ Last(p.state_stack) = p.state_stack[n] /\ (n = 2 \/ n \in 3..n)
    <3>1. n \in Nat /\ n >= 2
      BY <2>1 DEF Waiting
    <3>2. n = 2 \/ n \in 3..n
      <4> HIDE DEF n
      <4> QED
        BY <3>1
    <3> QED
      BY <3>1, <3>2 DEF Last
  <2> HIDE DEF n
  <2>3. kind = "complete_function" \/ kind \in InnerKinds
    BY <1>1, <2>1, <2>2 DEF Waiting, n
  <2> QED
    BY <2>3 DEF InnerKinds, ExprKinds
<1> QED
  BY <1>2 DEF IInv

LEMMA BlockKeeps ==
  ASSUME IInv, handle_block
  PROVE  IInv'
<1>1. At("block") /\ "block" \in InnerKinds
  BY DEF handle_block, InnerKinds
<1> DEFINE x == [kind |-> "block_stmt"]
           q == Push(popped, <<x>>)
<1>2. /\ Ready(popped, {cur_block(popped)}, 0) /\ NoCastLast(popped) /\ popped.aborted = FALSE
      /\ Last(popped.state_stack).kind \notin Consumers
  BY <1>1, PlainPopped, PoppedIsReady DEF ExprKinds
<1>3. Fits(x, popped.state_stack, popped, {cur_block(popped)}) /\ Named(x) = {} /\ Scoped(x) = 1
  BY <1>2, PlainStates DEF Fits, Plain, Scoped
<1>4. /\ Ready(q, {cur_block(popped)}, -1) /\ Last(q.state_stack) = x
      /\ q.blocks = popped.blocks /\ q.aborted = FALSE
  <2>1. {cur_block(popped)} \ Named(x) = {cur_block(popped)} /\ 0 - Scoped(x) = -1
    BY <1>3
  <2> HIDE DEF x
  <2> QED
    BY <1>2, <1>3, <2>1, Pushed
<1> HIDE DEF q
<1> DEFINE r == push_scope(q)
<1>5. /\ Ready(r, {cur_block(popped)}, 0) /\ r.state_stack = q.state_stack
      /\ r.blocks = popped.blocks /\ r.aborted = FALSE
  <2>1. -1 + 1 = 0
    OBVIOUS
  <2> QED
    BY <1>4, <2>1, ScopePushed
<1> HIDE DEF r
<1>6. InFunction(r)
  BY <1>2, <1>4, <1>5 DEF InFunction, NoCastLast, cur_block, Consumers
<1>7. Reading(<<>>, r) \/ Error
  BY DEF handle_block, r, q
<1> QED
  BY <1>6, <1>7, ReadingSettles, StoppedIsOutside, EmptySeq DEF Error

LEMMA BlockStmtKeeps ==
  ASSUME IInv, handle_block_stmt
  PROVE  IInv'
<1>1. At("block_stmt") /\ "block_stmt" \in InnerKinds
  BY DEF handle_block_stmt, InnerKinds
<1>2. /\ Ready(popped, {cur_block(popped)}, 1) /\ NoCastLast(popped) /\ popped.aborted = FALSE
      /\ Last(popped.state_stack).kind \notin Consumers
  BY <1>1, PlainPopped, PoppedIsReady DEF ExprKinds
<1>3. ASSUME Reading(<<>>, pop_scope(popped))
      PROVE  IInv'
  <2> DEFINE r == pop_scope(popped)
  <2>1. /\ Ready(r, {cur_block(popped)}, 0) /\ r.state_stack = popped.state_stack
        /\ r.blocks = popped.blocks /\ r.aborted = FALSE
    BY <1>2, ScopePopped
  <2> HIDE DEF r
  <2>2. InFunction(r)
    BY <1>2, <2>1 DEF InFunction, NoCastLast, cur_block
  <2> QED
    BY <1>3, <2>2, ReadingSettles, EmptySeq DEF r
<1>4. ASSUME Keeping(Push(popped, <<[kind |-> "block_stmt"], [kind |-> "stmt", dependent |-> FALSE]>>))
      PROVE  IInv'
  <2> DEFINE x == [kind |-> "block_stmt"]
             y == [kind |-> "stmt", dependent |-> FALSE]
             r == Push(popped, <<x, y>>)
  <2>1. Plain(x) /\ Plain(y)
    BY PlainStates
  <2>2. /\ Scoped(x) = 1 /\ Scoped(y) = 0 /\ y.kind \notin Consumers
        /\ x.kind \notin Consumers
    BY DEF Scoped, Consumers
  <2>3. Keeping(r)
    BY <1>4
  <2> HIDE DEF x, y
  <2>4. /\ Fits(x, popped.state_stack, popped, {cur_block(popped)})
        /\ {cur_block(popped)} \ Named(x) = {cur_block(popped)} /\ 1 = Scoped(x) + Scoped(y)
    BY <1>2, <2>1, <2>2 DEF Fits, Plain
  <2>5. InFunction(r)
    BY <1>2, <2>1, <2>2, <2>4, PushPairSettles
  <2> HIDE DEF r
  <2> QED
    BY <2>3, <2>5, KeepingSettles DEF InFunction
<1>5. \/ Reading(<<>>, pop_scope(popped)) \/ Error
      \/ Keeping(Push(popped, <<[kind |-> "block_stmt"], [kind |-> "stmt", dependent |-> FALSE]>>))
  BY DEF handle_block_stmt
<1> QED
  BY <1>3, <1>4, <1>5, StoppedIsOutside DEF Error

LEMMA StmtKeeps ==
  ASSUME IInv, handle_stmt
  PROVE  IInv'
<1>1. At("stmt") /\ "stmt" \in InnerKinds /\ "stmt" \notin ExprKinds
  BY DEF handle_stmt, InnerKinds, ExprKinds
<1>2. ASSUME NEW kind \in {"local_decl", "block", "if", "while"},
             Keeping(Push(popped, <<[kind |-> kind]>>))
      PROVE  IInv'
  <2> DEFINE x == [kind |-> kind]
             r == Push(popped, <<x>>)
  <2>1. Plain(x) /\ x.kind \notin Consumers /\ x.kind # "block_stmt"
    BY PlainStates DEF Consumers
  <2>2. Keeping(r)
    BY <1>2
  <2> HIDE DEF x
  <2>3. InFunction(r)
    BY <1>1, <2>1, Replaced
  <2> HIDE DEF r
  <2> QED
    BY <2>2, <2>3, KeepingSettles DEF InFunction
<1>3. ASSUME Keeping(Push(popped, <<[kind |-> "semi"], [kind |-> "expr"]>>))
      PROVE  IInv'
  <2> DEFINE x == [kind |-> "semi"]
             y == [kind |-> "expr"]
             r == Push(popped, <<x, y>>)
  <2>1. /\ Plain(x) /\ x.kind \notin Consumers /\ x.kind # "block_stmt"
        /\ Plain(y) /\ y.kind \notin Consumers /\ y.kind # "block_stmt"
    BY PlainStates DEF Consumers
  <2>2. Keeping(r)
    BY <1>3
  <2> HIDE DEF x, y
  <2>3. InFunction(r)
    BY <1>1, <2>1, Replaced
  <2> HIDE DEF r
  <2> QED
    BY <2>2, <2>3, KeepingSettles DEF InFunction
<1>4. ASSUME Reading(<<>>, Push(popped, <<[kind |-> "complete_return"], [kind |-> "semi"],
                                          [kind |-> "expr"]>>))
      PROVE  IInv'
  <2> DEFINE x == [kind |-> "complete_return"]
             y == [kind |-> "semi"]
             z == [kind |-> "expr"]
             r == Push(popped, <<x, y, z>>)
  <2>1. /\ Plain(x) /\ x.kind \notin Consumers /\ x.kind # "block_stmt"
        /\ Plain(y) /\ y.kind \notin Consumers /\ y.kind # "block_stmt"
        /\ Plain(z) /\ z.kind \notin Consumers /\ z.kind # "block_stmt"
    BY PlainStates DEF Consumers
  <2>2. Reading(<<>>, r)
    BY <1>4
  <2> HIDE DEF x, y, z
  <2>3. InFunction(r)
    BY <1>1, <2>1, Replaced
  <2> HIDE DEF r
  <2> QED
    BY <2>2, <2>3, ReadingSettles, EmptySeq
<1>5. ASSUME Reading(<<";">>, new_block(make_inst(popped, "RETURN", Void, 0, <<>>)))
      PROVE  IInv'
  <2> DEFINE q == make_inst(popped, "RETURN", Void, 0, <<>>)
             r == new_block(q)
  <2>1. InFunction(r)
    <3>1. /\ Ready(popped, {cur_block(popped)}, 0) /\ NoCastLast(popped) /\ popped.aborted = FALSE
          /\ Last(popped.state_stack).kind \notin Consumers
      BY <1>1, PlainPopped, PoppedIsReady
    <3>2. 0 <= Len(popped.value_stack) /\ <<>> \in Seq(Nat)
      BY <3>1 DEF Ready, Built, Typed
    <3>3. EndedTo(popped, q, {cur_block(popped)} \ {cur_block(popped)}, 0)
      BY <3>1, <3>2, Ended DEF make_inst
    <3> HIDE DEF q
    <3>4. Ready(q, {}, 0) /\ NoCastLast(q) /\ q.aborted = FALSE /\ q.state_stack = popped.state_stack
      BY <3>1, <3>3 DEF EndedTo
    <3>5. /\ Ready(r, {} \cup {cur_block(r)}, 0) /\ NoCastLast(r) /\ r.aborted = FALSE
          /\ r.state_stack = popped.state_stack
      BY <3>4, BlockAdded
    <3> HIDE DEF r
    <3> QED
      BY <3>1, <3>5 DEF InFunction
  <2> HIDE DEF r
  <2>2. Reading(<<";">>, r)
    BY <1>5, Zenon DEF r
  <2>3. <<";">> \in Seq({";"})
    OBVIOUS
  <2> QED
    BY <2>1, <2>2, <2>3, ReadingSettles
<1>6. \/ Error \/ \E kind \in {"local_decl", "block", "if", "while"} :
                    Keeping(Push(popped, <<[kind |-> kind]>>))
      \/ Keeping(Push(popped, <<[kind |-> "semi"], [kind |-> "expr"]>>))
      \/ Reading(<<>>, Push(popped, <<[kind |-> "complete_return"], [kind |-> "semi"],
                                      [kind |-> "expr"]>>))
      \/ Reading(<<";">>, new_block(make_inst(popped, "RETURN", Void, 0, <<>>)))
  BY DEF handle_stmt
<1> QED
  BY <1>2, <1>3, <1>4, <1>5, <1>6, StoppedIsOutside DEF Error

LEMMA CompleteReturnKeeps ==
  ASSUME IInv, handle_complete_return
  PROVE  IInv'
<1>1. At("complete_return") /\ "complete_return" \in InnerKinds /\ "complete_return" \notin ExprKinds
  BY DEF handle_complete_return, InnerKinds, ExprKinds
<1> DEFINE q == make_inst(popped, "RETURN", Void, 1, <<>>)
           r == new_block(q)
<1>2. /\ Ready(popped, {cur_block(popped)}, 0) /\ NoCastLast(popped) /\ popped.aborted = FALSE
      /\ Last(popped.state_stack).kind \notin Consumers
  BY <1>1, PlainPopped, PoppedIsReady
<1>3. Len(popped.value_stack) \in Nat /\ DOMAIN popped = Fields /\ <<>> \in Seq(Nat)
  BY <1>2 DEF Ready, Built, Typed
<1>4. CASE Len(popped.value_stack) < 1
  <2>1. r.aborted = TRUE
    <3>1. Len(popped.value_stack) - 1 < 0
      BY <1>3, <1>4
    <3>2. q = [popped EXCEPT !.aborted = TRUE]
      BY <3>1 DEF make_inst, make_inst_in_block
    <3>3. q.aborted = TRUE /\ DOMAIN q = Fields
      BY <1>3, <3>2 DEF Fields
    <3> HIDE DEF q
    <3> QED
      BY <3>3 DEF new_block, Fields
  <2> HIDE DEF r
  <2>2. Keeping(r)
    BY DEF handle_complete_return, r
  <2> QED
    BY <2>1, <2>2, KeepingSettles
<1>5. CASE Len(popped.value_stack) >= 1
  <2>1. EndedTo(popped, q, {cur_block(popped)} \ {cur_block(popped)}, 0)
    BY <1>2, <1>3, <1>5, Ended DEF make_inst
  <2> HIDE DEF q
  <2>2. Ready(q, {}, 0) /\ NoCastLast(q) /\ q.aborted = FALSE /\ q.state_stack = popped.state_stack
    BY <1>2, <2>1 DEF EndedTo
  <2>3. /\ Ready(r, {} \cup {cur_block(r)}, 0) /\ NoCastLast(r) /\ r.aborted = FALSE
        /\ r.state_stack = popped.state_stack
    BY <2>2, BlockAdded
  <2> HIDE DEF r
  <2>4. InFunction(r)
    BY <1>2, <2>3 DEF InFunction
  <2>5. Keeping(r)
    BY DEF handle_complete_return, r, q
  <2> QED
    BY <2>3, <2>4, <2>5, KeepingSettles
<1> QED
  BY <1>3, <1>4, <1>5

LEMMA SemiKeeps ==
  ASSUME IInv, handle_semi
  PROVE  IInv'
<1>1. At("semi") /\ "semi" \in InnerKinds /\ "semi" \notin ExprKinds
  BY DEF handle_semi, InnerKinds, ExprKinds
<1>2. /\ Ready(popped, {cur_block(popped)}, 0) /\ NoCastLast(popped) /\ popped.aborted = FALSE
      /\ Last(popped.state_stack).kind \notin Consumers
  BY <1>1, PlainPopped, PoppedIsReady
<1>3. InFunction(popped)
  BY <1>2 DEF InFunction
<1>4. Reading(<<>>, popped) \/ Error
  BY DEF handle_semi
<1> QED
  BY <1>3, <1>4, ReadingSettles, StoppedIsOutside, EmptySeq DEF Error

LEMMA IfKeeps ==
  ASSUME IInv, handle_if
  PROVE  IInv'
<1>1. At("if") /\ "if" \in InnerKinds /\ "if" \notin ExprKinds
  BY DEF handle_if, InnerKinds, ExprKinds
<1> DEFINE x == [kind |-> "if_body"]
           y == [kind |-> "expr"]
           r == Push(popped, <<x, y>>)
<1>2. /\ Plain(x) /\ Plain(y) /\ y.kind \notin Consumers /\ y.kind \in ExprKinds
      /\ x.kind # "block_stmt" /\ y.kind # "block_stmt"
  BY PlainStates DEF Consumers, ExprKinds
<1>3. Reading(<<"(">>, r) \/ Error
  BY DEF handle_if
<1> HIDE DEF x, y
<1>4. InFunction(r)
  BY <1>1, <1>2, Replaced
<1> HIDE DEF r
<1>5. <<"(">> \in Seq({"("})
  OBVIOUS
<1> QED
  BY <1>3, <1>4, <1>5, ReadingSettles, StoppedIsOutside DEF Error

\* What the states of branches and loops hold.
LEMMA JumpStates ==
  ASSUME NEW s \in States
  PROVE  /\ s.kind = "if_else" => /\ Named(s) = {s.head_tail} /\ Condition(s) = {s.condition}
                                  /\ s.body_head \in Nat
         /\ s.kind = "complete_if_else" => Named(s) = {s.body_tail}
         /\ s.kind = "while_body" => s.head_head \in Nat
         /\ s.kind = "complete_while" =>
              /\ Named(s) = {s.head_tail} /\ Condition(s) = {s.condition}
              /\ s.head_head \in Nat /\ s.body_head \in Nat
BY DEF States, Named, Condition

\* A block is added to a function whose current block is n.
LEMMA PoppedAndAdded ==
  ASSUME IInv, NEW kind \in InnerKinds, At(kind), kind # "block_stmt"
  PROVE  LET q == new_block(popped)
             n == cur_block(p)
         IN
         /\ Ready(q, Named(state) \cup {n, n + 1}, 0) /\ NoCastLast(q) /\ q.aborted = FALSE
         /\ cur_block(q) = n + 1 /\ n \in Nat /\ n \in 1..n
         /\ q.state_stack = popped.state_stack /\ Values(q) = Values(p)
         /\ q.definers = p.definers /\ q.value_stack = p.value_stack
         /\ Named(state) \subseteq 1..(n - 1) /\ Condition(state) \subseteq Values(q)
         /\ n \notin Named(state) /\ n + 1 \notin Named(state)
         /\ state \in States /\ state.kind = kind
         /\ Last(q.state_stack).kind \in Consumers => kind \in ExprKinds
<1> DEFINE q == new_block(popped)
           n == cur_block(p)
<1>1. /\ Ready(popped, Named(state) \cup {n}, 0) /\ NoCastLast(popped) /\ popped.aborted = FALSE
      /\ popped.value_stack = p.value_stack /\ popped.definers = p.definers
      /\ cur_block(popped) = n /\ n \in Nat
      /\ Named(state) \subseteq 1..(n - 1) /\ Condition(state) \subseteq Values(p)
      /\ state \in States /\ state.kind = kind
      /\ Last(popped.state_stack).kind \in Consumers => kind \in ExprKinds
  BY PoppedIsReady DEF Scoped
<1>2. /\ Ready(q, (Named(state) \cup {n}) \cup {cur_block(q)}, 0) /\ NoCastLast(q)
      /\ cur_block(q) = n + 1
      /\ q.state_stack = popped.state_stack /\ q.definers = popped.definers
      /\ q.value_stack = popped.value_stack /\ q.aborted = popped.aborted
  BY <1>1, BlockAdded
<1> HIDE DEF q
<1>3. (Named(state) \cup {n}) \cup {cur_block(q)} = Named(state) \cup {n, n + 1}
  BY <1>2
<1>4. n \in 1..n /\ n \notin Named(state) /\ n + 1 \notin Named(state)
  <2>1. Len(p.blocks) > 0
    BY <1>1 DEF Ready, Held, cur_block
  <2> QED
    BY <1>1, <2>1 DEF cur_block
<1>5. Values(q) = Values(p)
  BY <1>1, <1>2 DEF Values
<1> QED
  BY <1>1, <1>2, <1>3, <1>4, <1>5 DEF q

\* A state that holds what a jump to be made needs fits where that block is left to end.
LEMMA IfBodyKeeps ==
  ASSUME IInv, handle_if_body
  PROVE  IInv'
<1>1. At("if_body") /\ "if_body" \in InnerKinds /\ "if_body" \notin ExprKinds
      /\ "if_body" \in Consumers
  BY DEF handle_if_body, InnerKinds, ExprKinds, Consumers
<1> DEFINE q == new_block(popped)
           n == cur_block(p)
           r == pop_value(q)
           x == [kind |-> "if_else", condition |-> value(q), head_tail |-> n,
                 body_head |-> cur_block(q)]
           y == [kind |-> "stmt", dependent |-> TRUE]
           s == Push(r, <<x, y>>)
<1>2. /\ Ready(q, Named(state) \cup {n, n + 1}, 0) /\ NoCastLast(q) /\ q.aborted = FALSE
      /\ cur_block(q) = n + 1 /\ n \in Nat /\ n \in 1..n /\ state.kind = "if_body"
      /\ q.value_stack = p.value_stack /\ Last(q.state_stack).kind \notin Consumers
  BY <1>1, PoppedAndAdded
<1>3. Named(state) \cup {n, n + 1} = {n, n + 1}
  BY <1>2, NothingNamed
<1>4. q.value_stack # <<>>
  BY <1>1, <1>2, PoppedIsReady
<1> HIDE DEF q, n
<1>5. /\ Ready(r, {n, n + 1}, 0) /\ value(q) \in Values(q) /\ r.state_stack = q.state_stack
      /\ r.definers = q.definers /\ r.blocks = q.blocks /\ r.aborted = FALSE
  BY <1>2, <1>3, <1>4, ValuePopped
<1> HIDE DEF r
<1>6. NoCastLast(r) /\ cur_block(r) = n + 1
  BY <1>2, <1>5 DEF NoCastLast, cur_block
<1>7. /\ x \in States /\ x.kind = "if_else" /\ Named(x) = {n} /\ Condition(x) = {value(q)}
      /\ x.kind \in InnerKinds /\ Scoped(x) = 0 /\ x.kind \notin Consumers
  <2>1. value(q) \in Nat
    BY <1>5 DEF Values
  <2>2. x \in [kind : {"if_else"}, condition : Nat, head_tail : Nat, body_head : Nat]
    BY <1>2, <2>1
  <2> QED
    BY <2>2 DEF States, Named, Condition, InnerKinds, Scoped, Consumers
<1>8. Plain(y) /\ Scoped(y) = 0 /\ y.kind \notin Consumers
  BY PlainStates DEF Scoped, Consumers
<1> HIDE DEF x, y
<1>9. Fits(x, r.state_stack, r, {n, n + 1})
  <2>1. {n} \subseteq 1..(Len(r.blocks) - 1)
    BY <1>2, <1>6 DEF cur_block
  <2> QED
    BY <1>2, <1>5, <1>7, <2>1 DEF Fits, Values
<1>10. {n, n + 1} \ Named(x) = {cur_block(r)} /\ 0 = Scoped(x) + Scoped(y)
  BY <1>2, <1>6, <1>7, <1>8
<1>11. InFunction(s)
  BY <1>5, <1>6, <1>7, <1>8, <1>9, <1>10, PushPairSettles
<1> HIDE DEF s
<1>12. Reading(<<>>, s) \/ Error
  BY DEF handle_if_body, s, x, y, r, q, n
<1> QED
  BY <1>11, <1>12, ReadingSettles, StoppedIsOutside, EmptySeq DEF Error

LEMMA IfElseKeeps ==
  ASSUME IInv, handle_if_else
  PROVE  IInv'
<1>1. At("if_else") /\ "if_else" \in InnerKinds /\ "if_else" \notin ExprKinds
  BY DEF handle_if_else, InnerKinds, ExprKinds
<1> DEFINE q == new_block(popped)
           n == cur_block(p)
           h == state.head_tail
           Branch(r) == make_branch(r, state.condition, h, state.body_head, cur_block(q))
<1>2. /\ Ready(q, Named(state) \cup {n, n + 1}, 0) /\ NoCastLast(q) /\ q.aborted = FALSE
      /\ cur_block(q) = n + 1 /\ n \in Nat /\ n \in 1..n /\ n \notin Named(state)
      /\ Condition(state) \subseteq Values(q) /\ n + 1 \notin Named(state)
      /\ state \in States /\ state.kind = "if_else" /\ Last(q.state_stack).kind \notin Consumers
  BY <1>1, PoppedAndAdded
<1>3. /\ Named(state) = {h} /\ state.condition \in Values(q) /\ state.body_head \in Nat
  BY <1>2, JumpStates
<1>4. Ready(q, {h, n, n + 1}, 0) /\ h # n /\ h # n + 1 /\ n # n + 1 /\ n + 1 \in Nat
  <2>1. {h} \cup {n, n + 1} = {h, n, n + 1}
    OBVIOUS
  <2> QED
    BY <1>2, <1>3, <2>1
<1> HIDE DEF q, n, h
<1>5. ASSUME Reading(<<>>, Push(Branch(q), <<[kind |-> "complete_if_else", body_tail |-> n],
                                            [kind |-> "stmt", dependent |-> TRUE]>>))
      PROVE  IInv'
  <2> DEFINE r == Branch(q)
             x == [kind |-> "complete_if_else", body_tail |-> n]
             y == [kind |-> "stmt", dependent |-> TRUE]
             s == Push(r, <<x, y>>)
  <2>1. EndedTo(q, r, {h, n, n + 1} \ {h}, 0)
    BY <1>2, <1>3, <1>4, BranchMade
  <2>2. {h, n, n + 1} \ {h} = {n, n + 1}
    BY <1>4
  <2> HIDE DEF r
  <2>3. /\ Ready(r, {n, n + 1}, 0) /\ NoCastLast(r) /\ r.aborted = FALSE
        /\ r.state_stack = q.state_stack /\ cur_block(r) = n + 1
    BY <1>2, <2>1, <2>2 DEF EndedTo
  <2>4. /\ x \in States /\ x.kind = "complete_if_else" /\ Named(x) = {n} /\ Condition(x) = {}
        /\ x.kind \in InnerKinds /\ Scoped(x) = 0 /\ x.kind \notin Consumers
    <3>1. x \in [kind : {"complete_if_else"}, body_tail : Nat]
      BY <1>2
    <3> QED
      BY <3>1 DEF States, Named, Condition, InnerKinds, Scoped, Consumers
  <2>5. Plain(y) /\ Scoped(y) = 0 /\ y.kind \notin Consumers
    BY PlainStates DEF Scoped, Consumers
  <2>6. Reading(<<>>, s)
    BY <1>5 DEF r
  <2> HIDE DEF x, y
  <2>7. Fits(x, r.state_stack, r, {n, n + 1})
    <3>1. {n} \subseteq 1..(Len(r.blocks) - 1)
      BY <1>2, <2>3 DEF cur_block
    <3> QED
      BY <1>2, <2>3, <2>4, <3>1 DEF Fits
  <2>8. {n, n + 1} \ Named(x) = {cur_block(r)} /\ 0 = Scoped(x) + Scoped(y)
    BY <1>2, <2>3, <2>4, <2>5
  <2>9. InFunction(s)
    BY <2>3, <2>4, <2>5, <2>7, <2>8, PushPairSettles
  <2> HIDE DEF s
  <2> QED
    BY <2>6, <2>9, ReadingSettles, EmptySeq
<1>6. ASSUME Keeping(Branch(make_goto(q, n, cur_block(q))))
      PROVE  IInv'
  <2> DEFINE g == make_goto(q, n, cur_block(q))
             r == Branch(g)
  <2>1. EndedTo(q, g, {h, n, n + 1} \ {n}, 0)
    BY <1>2, <1>4, GotoMade
  <2>2. {h, n, n + 1} \ {n} = {h, n + 1}
    BY <1>4
  <2> HIDE DEF g
  <2>3. /\ Ready(g, {h, n + 1}, 0) /\ NoCastLast(g) /\ g.aborted = FALSE
        /\ g.state_stack = q.state_stack /\ cur_block(g) = n + 1 /\ Values(g) = Values(q)
    BY <1>2, <2>1, <2>2 DEF EndedTo, Values
  <2>4. EndedTo(g, r, {h, n + 1} \ {h}, 0)
    BY <1>2, <1>3, <1>4, <2>3, BranchMade
  <2>5. {h, n + 1} \ {h} = {n + 1}
    BY <1>4
  <2>6. Keeping(r)
    BY <1>6 DEF g
  <2> HIDE DEF r
  <2>7. InFunction(r)
    BY <1>2, <2>3, <2>4, <2>5 DEF EndedTo, InFunction
  <2> QED
    BY <2>6, <2>7, KeepingSettles DEF InFunction
<1>7. \/ Reading(<<>>, Push(Branch(q), <<[kind |-> "complete_if_else", body_tail |-> n],
                                         [kind |-> "stmt", dependent |-> TRUE]>>))
      \/ Keeping(Branch(make_goto(q, n, cur_block(q))))
  BY DEF handle_if_else, q, n, h
<1> QED
  BY <1>5, <1>6, <1>7

LEMMA CompleteIfElseKeeps ==
  ASSUME IInv, handle_complete_if_else
  PROVE  IInv'
<1>1. /\ At("complete_if_else") /\ "complete_if_else" \in InnerKinds
      /\ "complete_if_else" \notin ExprKinds
  BY DEF handle_complete_if_else, InnerKinds, ExprKinds
<1> DEFINE q == new_block(popped)
           n == cur_block(p)
           b == state.body_tail
           g == make_goto(q, b, cur_block(q))
           r == make_goto(g, n, cur_block(q))
<1>2. /\ Ready(q, Named(state) \cup {n, n + 1}, 0) /\ NoCastLast(q) /\ q.aborted = FALSE
      /\ cur_block(q) = n + 1 /\ n \in Nat /\ n \notin Named(state) /\ n + 1 \notin Named(state)
      /\ state \in States /\ state.kind = "complete_if_else"
      /\ Last(q.state_stack).kind \notin Consumers
  BY <1>1, PoppedAndAdded
<1>3. Named(state) = {b}
  BY <1>2, JumpStates
<1>4. Ready(q, {b, n, n + 1}, 0) /\ b # n /\ b # n + 1 /\ n # n + 1 /\ n + 1 \in Nat
  <2> HIDE DEF q, n, b
  <2>1. {b} \cup {n, n + 1} = {b, n, n + 1}
    OBVIOUS
  <2>2. Ready(q, {b, n, n + 1}, 0)
    BY <1>2, <1>3, <2>1
  <2>3. b # n /\ b # n + 1
    BY <1>2, <1>3
  <2> QED
    BY <1>2, <2>2, <2>3
<1> HIDE DEF q, n, b
<1>5. EndedTo(q, g, {b, n, n + 1} \ {b}, 0)
  BY <1>2, <1>4, GotoMade
<1>6. {b, n, n + 1} \ {b} = {n, n + 1} /\ {n, n + 1} \ {n} = {n + 1}
  BY <1>4
<1> HIDE DEF g
<1>7. /\ Ready(g, {n, n + 1}, 0) /\ NoCastLast(g) /\ g.aborted = FALSE
      /\ g.state_stack = q.state_stack /\ cur_block(g) = n + 1
  BY <1>2, <1>5, <1>6 DEF EndedTo
<1>8. EndedTo(g, r, {n, n + 1} \ {n}, 0)
  BY <1>2, <1>4, <1>7, GotoMade
<1> HIDE DEF r
<1>9. InFunction(r)
  BY <1>2, <1>6, <1>7, <1>8 DEF EndedTo, InFunction
<1>10. Keeping(r)
  BY DEF handle_complete_if_else, r, g, q, n, b
<1> QED
  BY <1>9, <1>10, KeepingSettles DEF InFunction

LEMMA WhileKeeps ==
  ASSUME IInv, handle_while
  PROVE  IInv'
<1>1. At("while") /\ "while" \in InnerKinds /\ "while" \notin ExprKinds
  BY DEF handle_while, InnerKinds, ExprKinds
<1> DEFINE q == new_block(popped)
           n == cur_block(p)
           g == make_goto(q, n, cur_block(q))
           x == [kind |-> "while_body", head_head |-> cur_block(q)]
           y == [kind |-> "expr"]
           s == Push(g, <<x, y>>)
<1>2. /\ Ready(q, Named(state) \cup {n, n + 1}, 0) /\ NoCastLast(q) /\ q.aborted = FALSE
      /\ cur_block(q) = n + 1 /\ n \in Nat /\ state.kind = "while"
      /\ Last(q.state_stack).kind \notin Consumers
  BY <1>1, PoppedAndAdded
<1>3. Named(state) \cup {n, n + 1} = {n, n + 1} /\ {n, n + 1} \ {n} = {n + 1} /\ n + 1 \in Nat
  BY <1>2, NothingNamed
<1> HIDE DEF q, n
<1>4. EndedTo(q, g, {n, n + 1} \ {n}, 0)
  BY <1>2, <1>3, GotoMade
<1> HIDE DEF g
<1>5. /\ Ready(g, {cur_block(g)}, 0) /\ NoCastLast(g) /\ g.aborted = FALSE
      /\ g.state_stack = q.state_stack
  BY <1>2, <1>3, <1>4 DEF EndedTo
<1>6. /\ Plain(x) /\ Plain(y) /\ y.kind \notin Consumers /\ y.kind \in ExprKinds
      /\ Scoped(x) = 0 /\ Scoped(y) = 0
  BY <1>2, <1>3, PlainStates DEF Consumers, ExprKinds, Scoped
<1> HIDE DEF x, y
<1>7. /\ Fits(x, g.state_stack, g, {cur_block(g)}) /\ 0 = Scoped(x) + Scoped(y)
      /\ {cur_block(g)} \ Named(x) = {cur_block(g)}
  BY <1>2, <1>5, <1>6 DEF Fits, Plain
<1>8. InFunction(s)
  BY <1>5, <1>6, <1>7, PushPairSettles
<1> HIDE DEF s
<1>9. Reading(<<"(">>, s) \/ Error
  BY DEF handle_while, s, x, y, g, q, n
<1>10. <<"(">> \in Seq({"("})
  OBVIOUS
<1> QED
  BY <1>8, <1>9, <1>10, ReadingSettles, StoppedIsOutside DEF Error

LEMMA WhileBodyKeeps ==
  ASSUME IInv, handle_while_body
  PROVE  IInv'
<1>1. At("while_body") /\ "while_body" \in InnerKinds /\ "while_body" \notin ExprKinds
      /\ "while_body" \in Consumers
  BY DEF handle_while_body, InnerKinds, ExprKinds, Consumers
<1> DEFINE q == new_block(popped)
           n == cur_block(p)
           r == pop_value(q)
           x == [kind |-> "complete_while", condition |-> value(q),
                 head_head |-> state.head_head, head_tail |-> n, body_head |-> cur_block(q)]
           y == [kind |-> "stmt", dependent |-> TRUE]
           s == Push(r, <<x, y>>)
<1>2. /\ Ready(q, Named(state) \cup {n, n + 1}, 0) /\ NoCastLast(q) /\ q.aborted = FALSE
      /\ cur_block(q) = n + 1 /\ n \in Nat /\ n \in 1..n
      /\ state \in States /\ state.kind = "while_body"
      /\ q.value_stack = p.value_stack /\ Last(q.state_stack).kind \notin Consumers
  BY <1>1, PoppedAndAdded
<1>3. Named(state) \cup {n, n + 1} = {n, n + 1} /\ state.head_head \in Nat
  BY <1>2, NothingNamed, JumpStates
<1>4. q.value_stack # <<>>
  BY <1>1, <1>2, PoppedIsReady
<1> HIDE DEF q, n
<1>5. /\ Ready(r, {n, n + 1}, 0) /\ value(q) \in Values(q) /\ r.state_stack = q.state_stack
      /\ r.definers = q.definers /\ r.blocks = q.blocks /\ r.aborted = FALSE
  BY <1>2, <1>3, <1>4, ValuePopped
<1> HIDE DEF r
<1>6. NoCastLast(r) /\ cur_block(r) = n + 1
  BY <1>2, <1>5 DEF NoCastLast, cur_block
<1>7. /\ x \in States /\ x.kind = "complete_while" /\ Named(x) = {n}
      /\ Condition(x) = {value(q)}
      /\ x.kind \in InnerKinds /\ Scoped(x) = 0 /\ x.kind \notin Consumers
  <2>1. value(q) \in Nat
    BY <1>5 DEF Values
  <2>2. x \in [kind : {"complete_while"}, condition : Nat, head_head : Nat, head_tail : Nat,
               body_head : Nat]
    BY <1>2, <1>3, <2>1
  <2> QED
    BY <2>2 DEF States, Named, Condition, InnerKinds, Scoped, Consumers
<1>8. Plain(y) /\ Scoped(y) = 0 /\ y.kind \notin Consumers
  BY PlainStates DEF Scoped, Consumers
<1> HIDE DEF x, y
<1>9. Fits(x, r.state_stack, r, {n, n + 1})
  <2>1. {n} \subseteq 1..(Len(r.blocks) - 1)
    BY <1>2, <1>6 DEF cur_block
  <2> QED
    BY <1>2, <1>5, <1>7, <2>1 DEF Fits, Values
<1>10. {n, n + 1} \ Named(x) = {cur_block(r)} /\ 0 = Scoped(x) + Scoped(y)
  BY <1>2, <1>6, <1>7, <1>8
<1>11. InFunction(s)
  BY <1>5, <1>6, <1>7, <1>8, <1>9, <1>10, PushPairSettles
<1> HIDE DEF s
<1>12. Reading(<<>>, s) \/ Error
  BY DEF handle_while_body, s, x, y, r, q, n
<1> QED
  BY <1>11, <1>12, ReadingSettles, StoppedIsOutside, EmptySeq DEF Error

LEMMA CompleteWhileKeeps ==
  ASSUME IInv, handle_complete_while
  PROVE  IInv'
<1>1. At("complete_while") /\ "complete_while" \in InnerKinds /\ "complete_while" \notin ExprKinds
  BY DEF handle_complete_while, InnerKinds, ExprKinds
<1> DEFINE q == new_block(popped)
           n == cur_block(p)
           h == state.head_tail
           g == make_goto(q, n, state.head_head)
           r == make_branch(g, state.condition, h, state.body_head, cur_block(q))
<1>2. /\ Ready(q, Named(state) \cup {n, n + 1}, 0) /\ NoCastLast(q) /\ q.aborted = FALSE
      /\ cur_block(q) = n + 1 /\ n \in Nat /\ n \notin Named(state) /\ n + 1 \notin Named(state)
      /\ Condition(state) \subseteq Values(q)
      /\ state \in States /\ state.kind = "complete_while"
      /\ Last(q.state_stack).kind \notin Consumers
  BY <1>1, PoppedAndAdded
<1>3. /\ Named(state) = {h} /\ state.condition \in Values(q)
      /\ state.body_head \in Nat /\ state.head_head \in Nat
  BY <1>2, JumpStates
<1>4. Ready(q, {h, n, n + 1}, 0) /\ h # n /\ h # n + 1 /\ n # n + 1 /\ n + 1 \in Nat
  <2>1. {h} \cup {n, n + 1} = {h, n, n + 1}
    OBVIOUS
  <2> QED
    BY <1>2, <1>3, <2>1
<1> HIDE DEF q, n, h
<1>5. EndedTo(q, g, {h, n, n + 1} \ {n}, 0)
  BY <1>2, <1>3, <1>4, GotoMade
<1>6. {h, n, n + 1} \ {n} = {h, n + 1} /\ {h, n + 1} \ {h} = {n + 1}
  BY <1>4
<1> HIDE DEF g
<1>7. /\ Ready(g, {h, n + 1}, 0) /\ NoCastLast(g) /\ g.aborted = FALSE
      /\ g.state_stack = q.state_stack /\ cur_block(g) = n + 1 /\ Values(g) = Values(q)
  BY <1>2, <1>5, <1>6 DEF EndedTo, Values
<1>8. EndedTo(g, r, {h, n + 1} \ {h}, 0)
  BY <1>2, <1>3, <1>4, <1>7, BranchMade
<1> HIDE DEF r
<1>9. InFunction(r)
  BY <1>2, <1>6, <1>7, <1>8 DEF EndedTo, InFunction
<1>10. Keeping(r)
  BY DEF handle_complete_while, r, g, q, n, h
<1> QED
  BY <1>9, <1>10, KeepingSettles DEF InFunction

-----------------------------------------------------------------------------
(* Functions.                                                              *)
Top == [kind |-> "top_level"]
Function == [kind |-> "function"]

LEMMA OutsideWith ==
  ASSUME Outside(p), NEW s \in {<<>>, <<Top>>, <<Top, Function>>}
  PROVE  Outside([p EXCEPT !.state_stack = s])
<1> DEFINE r == [p EXCEPT !.state_stack = s]
<1>1. /\ DOMAIN r = Fields /\ r.state_stack = s /\ r.definers = p.definers
      /\ r.scope_stack = p.scope_stack /\ r.aborted = p.aborted /\ r.blocks = p.blocks
  BY DEF Outside, Fields
<1> HIDE DEF r
<1>2. Outside(r)
  BY <1>1 DEF Outside, Top, Function, cur_block
<1> QED
  BY <1>2 DEF r

\* What is on a short stack.
LEMMA ShortStacks ==
  /\ \A x : Last(<<x>>) = x /\ Front(<<x>>) = <<>>
  /\ \A x, y : Last(<<x, y>>) = y /\ Front(<<x, y>>) = <<x>>
  /\ \A x, y : <<>> \o <<x, y>> = <<x, y>>
  /\ \A x, y, z : <<x>> \o <<y, z>> = <<x, y, z>>
<1>1. \A x : Last(<<x>>) = x /\ Front(<<x>>) = <<>>
  BY DEF Last, Front
<1>2. ASSUME NEW x, NEW y
      PROVE  Last(<<x, y>>) = y /\ Front(<<x, y>>) = <<x>>
  <2> DEFINE s == <<x, y>>
             S == {x, y}
  <2>1. s \in Seq(S) /\ s # <<>> /\ Len(s) = 2 /\ s[1] = x /\ s[2] = y
    OBVIOUS
  <2> HIDE DEF s
  <2>2. Front(s) \in Seq(S) /\ Len(Front(s)) = 1 /\ Front(s)[1] = x /\ Last(s) = y
    <3>1. /\ Front(s) \in Seq(S) /\ Len(Front(s)) = Len(s) - 1 /\ Last(s) = s[Len(s)]
          /\ \A i \in 1..(Len(s) - 1) : Front(s)[i] = s[i]
      BY <2>1, FrontAndLast
    <3>2. Len(s) - 1 = 1 /\ 1 \in 1..1
      BY <2>1
    <3> QED
      BY <2>1, <3>1, <3>2
  <2>3. <<x>> \in Seq(S) /\ Len(<<x>>) = 1 /\ <<x>>[1] = x
    OBVIOUS
  <2>4. \A i \in 1..1 : i = 1
    OBVIOUS
  <2>5. Front(s) = <<x>>
    BY <2>2, <2>3, <2>4, SeqEqual
  <2> QED
    BY <2>2, <2>5 DEF s
<1>3. \A x, y : <<>> \o <<x, y>> = <<x, y>>
  OBVIOUS
<1>4. ASSUME NEW x, NEW y, NEW z
      PROVE  <<x>> \o <<y, z>> = <<x, y, z>>
  <2> DEFINE s == <<x>> \o <<y, z>>
             S == {x, y, z}
  <2>1. /\ s \in Seq(S) /\ <<x, y, z>> \in Seq(S) /\ Len(s) = 3 /\ Len(<<x, y, z>>) = 3
        /\ \A i \in 1..3 : s[i] = <<x, y, z>>[i]
    OBVIOUS
  <2> HIDE DEF s
  <2>2. s = <<x, y, z>>
    BY <2>1, SeqEqual
  <2> QED
    BY <2>2 DEF s
<1> QED
  BY <1>1, <1>2, <1>3, <1>4

LEMMA OutsideStack ==
  ASSUME IInv, NEW kind \in {"top_level", "function"}, At(kind)
  PROVE  /\ Outside(p)
         /\ kind = "top_level" => popped.state_stack = <<>>
         /\ kind = "function" => popped.state_stack = <<Top>>
<1>1. Outside(p) /\ p.state_stack # <<>> /\ Last(p.state_stack).kind = kind
  BY OutsideAt DEF At
<1>2. p.state_stack = <<Top>> \/ p.state_stack = <<Top, Function>>
  BY <1>1 DEF Outside, Top, Function
<1>3. Top.kind = "top_level" /\ Function.kind = "function"
  BY DEF Top, Function
<1>4. popped.state_stack = Front(p.state_stack)
  BY <1>1 DEF Outside, Fields, popped
<1> QED
  BY <1>1, <1>2, <1>3, <1>4, ShortStacks, Zenon

LEMMA TopLevelKeeps ==
  ASSUME IInv, handle_top_level
  PROVE  IInv'
<1> DEFINE q == Push(popped, <<Top, Function>>)
<1>1. At("top_level")
  BY DEF handle_top_level
<1>2. Outside(p) /\ popped.state_stack = <<>> /\ DOMAIN p = Fields
  BY <1>1, OutsideStack DEF Outside
<1>3. popped = [p EXCEPT !.state_stack = <<>>] /\ q = [p EXCEPT !.state_stack = <<Top, Function>>]
  <2>1. popped = [p EXCEPT !.state_stack = <<>>]
    BY <1>2 DEF popped, Fields
  <2>2. q = [popped EXCEPT !.state_stack = <<Top, Function>>]
    BY <1>2, ShortStacks DEF Push
  <2> QED
    BY <1>2, <2>1, <2>2 DEF Fields
<1>4. Outside(popped) /\ Outside(q)
  BY <1>2, <1>3, OutsideWith
<1>5. Keeping(q) \/ Keeping(popped) \/ Error
  BY DEF handle_top_level, q, Top, Function
<1> HIDE DEF q
<1>6. popped.aborted = FALSE /\ q.aborted = FALSE
  BY <1>4 DEF Outside
<1> QED
  BY <1>4, <1>5, <1>6, KeepingSettles, StoppedIsOutside DEF Error

LEMMA FunctionKeeps ==
  ASSUME IInv, handle_function
  PROVE  IInv'
<1> DEFINE x == [kind |-> "complete_function"]
           y == [kind |-> "block"]
           q == Push(new_func(popped), <<x, y>>)
           stack == <<Top, x, y>>
<1>1. At("function")
  BY DEF handle_function
<1>2. Outside(p) /\ popped.state_stack = <<Top>> /\ DOMAIN p = Fields
      /\ p.scope_stack = <<>> /\ p.aborted = FALSE
  BY <1>1, OutsideStack DEF Outside
<1>3. /\ DOMAIN popped = Fields /\ popped.scope_stack = <<>> /\ popped.aborted = FALSE
  BY <1>2 DEF popped, Fields
<1>4. /\ DOMAIN new_func(popped) = Fields /\ new_func(popped).state_stack = <<Top>>
      /\ new_func(popped).definers = <<>> /\ new_func(popped).value_stack = <<>>
      /\ new_func(popped).blocks = <<<<>>>>
      /\ new_func(popped).scope_stack = <<>> /\ new_func(popped).aborted = FALSE
  BY <1>2, <1>3 DEF new_func, Fields
<1>5. /\ DOMAIN q = Fields /\ q.state_stack = stack
      /\ q.definers = <<>> /\ q.value_stack = <<>> /\ q.blocks = <<<<>>>>
      /\ q.scope_stack = <<>> /\ q.aborted = FALSE
  BY <1>4, ShortStacks DEF Push, Fields
<1>6. \/ Error
      \/ \E name \in Identifiers : Reading(<<name, "(", ")">>, q)
  BY DEF handle_function, q
<1> HIDE DEF q
<1>7. /\ Top \in States /\ x \in States /\ Plain(y) /\ y.kind \in InnerKinds
      /\ y.kind \notin Consumers
  BY PlainStates DEF States, Top, Plain, Consumers
<1>8. /\ Named(Top) = {} /\ Condition(Top) = {} /\ Named(x) = {} /\ Condition(x) = {}
      /\ Named(y) = {} /\ Condition(y) = {}
  BY NothingNamed DEF Top
<1>9. /\ Top.kind = "top_level" /\ x.kind = "complete_function" /\ y.kind = "block"
      /\ Top.kind \notin Consumers /\ x.kind \notin Consumers
  BY DEF Top, Consumers
<1> HIDE DEF x, y
<1>10. /\ stack \in Seq(States) /\ Len(stack) = 3 /\ DOMAIN stack = 1..3
       /\ stack[1] = Top /\ stack[2] = x /\ stack[3] = y
  BY <1>7 DEF Plain
<1> HIDE DEF stack
<1>11. \A i \in 1..3 : i = 1 \/ i = 2 \/ i = 3
  OBVIOUS
<1>12. Waiting(stack, 0, 1)
  <2>1. \A i \in 1..3 : Named(stack[i]) = {} /\ Condition(stack[i]) = {}
                        /\ stack[i].kind \notin Consumers
    BY <1>7, <1>8, <1>9, <1>10, <1>11
  <2>2. \A i \in 3..3 : i = 3
    OBVIOUS
  <2>3. \A i \in 1..2 : i \in 1..3
    OBVIOUS
  <2> QED
    BY <1>7, <1>9, <1>10, <2>1, <2>2, <2>3 DEF Waiting
<1>13. NamedBy(stack) = {} /\ OpenBlocks(stack) = 0
  <2>1. NamedBy(stack) = {}
    BY <1>8, <1>10, <1>11 DEF NamedBy
  <2>2. {i \in DOMAIN stack : stack[i].kind = "block_stmt"} = {}
    BY <1>9, <1>10, <1>11
  <2> QED
    BY <2>1, <2>2, FS_EmptySet DEF OpenBlocks
<1> DEFINE blocks == <<<<>>>>
<1>14. /\ blocks \in Seq(Seq(Insts)) /\ Len(blocks) = 1 /\ DOMAIN blocks = {1}
       /\ blocks[1] = <<>> /\ blocks # <<>>
  OBVIOUS
<1>15. /\ \A b \in DOMAIN blocks : DOMAIN blocks[b] = {}
       /\ \A b \in DOMAIN blocks : blocks[b] = <<>>
  BY <1>14
<1>16. q.blocks = blocks
  BY <1>5
<1> HIDE DEF blocks
<1>17. Jumps(blocks) = {} /\ Unended(blocks) = {1} /\ EndsOnce(blocks)
  BY <1>14, <1>15 DEF Jumps, Unended, EndsOnce
<1>18. Built(q)
  <2>1. Typed(q)
    BY <1>5, <1>14, <1>16, EmptySeq DEF Typed
  <2>2. ValuesAreDefined(q)
    BY <1>5, <1>15, <1>16 DEF ValuesAreDefined
  <2>3. PointBack(q) /\ Agreeing(q)
    BY <1>5 DEF PointBack, Agreeing
  <2> QED
    BY <1>14, <1>16, <1>17, <2>1, <2>2, <2>3 DEF Built
<1>19. Held(stack, q, {1}, 0)
  <2>1. Len(q.definers) = 0 /\ Len(q.blocks) = 1 /\ Len(q.scope_stack) = 0
    BY <1>5, <1>14, <1>16
  <2>2. /\ Waiting(stack, Len(q.definers), Len(q.blocks))
        /\ {1} \subseteq DOMAIN q.blocks /\ {1} \cap NamedBy(stack) = {}
    BY <1>12, <1>13, <1>14, <1>16, <2>1
  <2>3. Unended(q.blocks) = NamedBy(stack) \cup {1}
    BY <1>13, <1>16, <1>17
  <2>4. 0 \in Int /\ Len(q.scope_stack) = OpenBlocks(stack) + 0
    BY <1>13, <2>1
  <2> QED
    BY <2>2, <2>3, <2>4 DEF Held
<1>20. cur_block(q) = 1 /\ NoCastLast(q) /\ Last(stack) = y
  BY <1>10, <1>14, <1>15, <1>16 DEF cur_block, NoCastLast, Last
<1>21. InFunction(q)
  BY <1>5, <1>7, <1>18, <1>19, <1>20 DEF InFunction, Ready
<1>22. \A name : <<name, "(", ")">> \in Seq({name, "(", ")"})
  OBVIOUS
<1> QED
  BY <1>6, <1>21, <1>22, ReadingSettles, StoppedIsOutside DEF Error

\* At the end of a function nothing is open, and the last block has still to end.
LEMMA FunctionIsWhole ==
  ASSUME IInv, At("complete_function")
  PROVE  /\ DOMAIN p = Fields /\ p.aborted = FALSE
         /\ Front(p.state_stack) = <<Top>> /\ p.scope_stack = <<>>
         /\ p.blocks \in Seq(Seq(Insts)) /\ p.blocks # <<>>
         /\ Unended(p.blocks) = {cur_block(p)} /\ EndsOnce(p.blocks)
<1> DEFINE stack == p.state_stack
           n == Len(stack)
<1>1. stack # <<>> /\ Last(stack).kind = "complete_function"
  BY DEF At
<1>2. ~Outside(p)
  <2>1. Top.kind # "complete_function" /\ Function.kind # "complete_function"
    BY DEF Top, Function
  <2>2. Outside(p) => stack \in {<<>>, <<Top>>, <<Top, Function>>}
    BY DEF Outside, Top, Function
  <2> QED
    BY <1>1, <2>1, <2>2, ShortStacks
<1>3. Ready(p, {cur_block(p)}, 0) /\ p.aborted = FALSE /\ DOMAIN p = Fields
  BY <1>2 DEF IInv, InFunction, Ready, Built, Typed
<1>4. Waiting(stack, Len(p.definers), Len(p.blocks))
  BY <1>3 DEF Ready, Held
<1>5. stack \in Seq(States) /\ n \in Nat /\ n >= 2 /\ Last(stack) = stack[n]
  BY <1>4 DEF Waiting, Last
<1>6. n = 2
  <2>1. n \in 3..n => stack[n].kind \in InnerKinds
    BY <1>4 DEF Waiting
  <2>2. "complete_function" \notin InnerKinds
    BY DEF InnerKinds, ExprKinds
  <2> HIDE DEF stack, n
  <2>3. n = 2 \/ n \in 3..n
    BY <1>5
  <2> QED
    BY <1>1, <1>5, <2>1, <2>2, <2>3
<1>7. /\ stack[1].kind = "top_level" /\ stack[2].kind = "complete_function"
      /\ stack[1] \in States /\ DOMAIN stack = 1..2
  BY <1>4, <1>5, <1>6 DEF Waiting
<1>8. stack[1] = Top
  BY <1>7 DEF States, Top
<1>9. Front(stack) = <<Top>>
  <2>1. Front(stack) \in Seq(States) /\ Len(Front(stack)) = 1 /\ Front(stack)[1] = stack[1]
    <3>1. /\ Front(stack) \in Seq(States) /\ Len(Front(stack)) = n - 1
          /\ \A i \in 1..(n - 1) : Front(stack)[i] = stack[i]
      BY <1>1, <1>5, FrontAndLast
    <3>2. n - 1 = 1 /\ 1 \in 1..1
      BY <1>6
    <3> QED
      BY <3>1, <3>2
  <2>2. Top \in States /\ <<Top>> \in Seq(States) /\ Len(<<Top>>) = 1 /\ <<Top>>[1] = Top
    BY <1>7, <1>8
  <2>3. \A i \in 1..1 : i = 1
    OBVIOUS
  <2> QED
    BY <1>8, <2>1, <2>2, <2>3, SeqEqual
<1>10. \A i \in 1..2 : i = 1 \/ i = 2
  OBVIOUS
<1>11. NamedBy(stack) = {}
  BY <1>7, <1>10, NothingNamed DEF NamedBy
<1>12. p.scope_stack = <<>>
  <2>1. {i \in DOMAIN stack : stack[i].kind = "block_stmt"} = {}
    BY <1>7, <1>10
  <2>2. OpenBlocks(stack) = 0
    BY <2>1, FS_EmptySet DEF OpenBlocks
  <2>3. Len(p.scope_stack) = 0 /\ p.scope_stack \in Seq(Scopes)
    BY <1>3, <2>2 DEF Ready, Built, Typed, Held
  <2> QED
    BY <2>3, EmptySeq
<1>13. /\ p.blocks \in Seq(Seq(Insts)) /\ p.blocks # <<>>
       /\ Unended(p.blocks) = {cur_block(p)} /\ EndsOnce(p.blocks)
  BY <1>3, <1>11 DEF Ready, Built, Typed, Held
<1> QED
  BY <1>3, <1>9, <1>12, <1>13

LEMMA CompleteFunctionKeeps ==
  ASSUME IInv, handle_complete_function
  PROVE  IInv'
<1> DEFINE q == [popped EXCEPT !.definers = <<>>]
<1>1. At("complete_function") /\ p' = q /\ src' = src
  BY DEF handle_complete_function
<1>2. /\ DOMAIN q = Fields /\ q.state_stack = <<Top>> /\ q.definers = <<>>
      /\ q.scope_stack = <<>> /\ q.aborted = FALSE /\ q.blocks = p.blocks
  BY <1>1, FunctionIsWhole DEF popped, Fields
<1> HIDE DEF q
<1>3. Outside(q)
  BY <1>1, <1>2, FunctionIsWhole DEF Outside, Top, cur_block
<1>4. \E S : src' \in Seq(S)
  BY <1>1 DEF IInv
<1> QED
  BY <1>1, <1>3, <1>4 DEF IInv

-----------------------------------------------------------------------------
(* Expressions.                                                            *)
LEMMA ExprKeeps ==
  ASSUME IInv, handle_expr
  PROVE  IInv'
<1> DEFINE q == Push(popped, <<Binary(0)>>)
<1>1. At("expr") /\ "expr" \in InnerKinds /\ Keeping(q)
  BY DEF handle_expr, InnerKinds, ExprKinds
<1>2. /\ Plain(Binary(0)) /\ Binary(0).kind = "binary" /\ Binary(0).kind \notin Consumers
      /\ Binary(0).kind \in ExprKinds
  BY PlainStates DEF Binary, Consumers, ExprKinds
<1>3. InFunction(q)
  BY <1>1, <1>2, Replaced
<1> HIDE DEF q
<1> QED
  BY <1>1, <1>3, KeepingSettles DEF InFunction

\* The states of an expression that have a precedence.
LEMMA Precedences ==
  ASSUME IInv, NEW kind \in {"binary", "binary_infix"}, At(kind)
  PROVE  kind \in InnerKinds /\ kind \in ExprKinds /\ state.prec \in Nat
<1>1. kind \in InnerKinds /\ kind \in ExprKinds
  BY DEF InnerKinds, ExprKinds
<1>2. state \in States /\ state.kind = kind
  BY <1>1, PoppedIsReady
<1> HIDE DEF state
<1>3. state.prec \in Nat
  BY <1>2 DEF States
<1> QED
  BY <1>1, <1>3

LEMMA BinaryKeeps ==
  ASSUME IInv, handle_binary
  PROVE  IInv'
<1> DEFINE x == Infix(state.prec)
           y == [kind |-> "primary"]
           q == Push(popped, <<x, y>>)
<1>1. At("binary") /\ Keeping(q)
  BY DEF handle_binary
<1>2. "binary" \in InnerKinds /\ "binary" \in ExprKinds /\ state.prec \in Nat
  BY <1>1, Precedences
<1>3. /\ Plain(x) /\ Plain(y) /\ x.kind = "binary_infix" /\ y.kind = "primary"
      /\ x.kind \in ExprKinds /\ y.kind \in ExprKinds /\ y.kind \notin Consumers
  BY <1>2, PlainStates DEF Infix, ExprKinds, Consumers
<1> HIDE DEF x, y
<1>4. InFunction(q)
  BY <1>1, <1>2, <1>3, Replaced
<1> HIDE DEF q
<1> QED
  BY <1>1, <1>4, KeepingSettles DEF InFunction

LEMMA BinaryInfixKeeps ==
  ASSUME IInv, handle_binary_infix
  PROVE  IInv'
<1>1. At("binary_infix") /\ "binary_infix" \in Consumers
  BY DEF handle_binary_infix, Consumers
<1>2. "binary_infix" \in InnerKinds /\ "binary_infix" \in ExprKinds /\ state.prec \in Nat
  BY <1>1, Precedences
<1>3. CASE bin_prec(peek, FALSE) > state.prec
  <2> DEFINE x == Infix(state.prec)
             y == [kind |-> "complete_binary", op |-> peek]
             z == Binary(bin_prec(peek, TRUE))
             q == Push(popped, <<x, y, z>>)
  <2>1. Reading(<<>>, q)
    BY <1>3 DEF handle_binary_infix
  <2>2. peek \in {"*", "/", "+", "-", "="} /\ bin_prec(peek, TRUE) \in Nat
    BY <1>2, <1>3 DEF bin_prec
  <2>3. /\ Plain(x) /\ Plain(y) /\ Plain(z)
        /\ x.kind = "binary_infix" /\ y.kind = "complete_binary" /\ z.kind = "binary"
        /\ x.kind \in ExprKinds /\ y.kind \in ExprKinds /\ z.kind \in ExprKinds
        /\ z.kind \notin Consumers
    BY <1>2, <2>2, PlainStates DEF Infix, Binary, ExprKinds, Consumers
  <2> HIDE DEF x, y, z
  <2>4. InFunction(q)
    BY <1>1, <1>2, <2>3, Replaced
  <2> HIDE DEF q
  <2> QED
    BY <2>1, <2>4, ReadingSettles, EmptySeq
<1>4. CASE ~(bin_prec(peek, FALSE) > state.prec)
  <2>1. /\ Ready(popped, {cur_block(popped)}, 0) /\ NoCastLast(popped) /\ popped.aborted = FALSE
        /\ popped.value_stack # <<>>
    BY <1>1, <1>2, PlainPopped, PoppedIsReady
  <2>2. InFunction(popped)
    BY <2>1 DEF InFunction
  <2>3. Keeping(popped)
    BY <1>4 DEF handle_binary_infix
  <2> QED
    BY <2>2, <2>3, KeepingSettles DEF InFunction
<1> QED
  BY <1>3, <1>4

LEMMA GreatestOf ==
  ASSUME NEW n \in Nat, NEW I, I \subseteq 1..n, I # {}
  PROVE  Max(I) \in I
<1> DEFINE J == {n - i : i \in I}
<1>1. J \subseteq Nat /\ J # {}
  OBVIOUS
<1>2. \E x \in J : \A y \in J : ~(<<y, x>> \in OpToRel(<, Nat))
  BY <1>1, WFMin, NatLessThanWellFounded
<1>3. PICK i \in I : \A y \in J : ~(<<y, n - i>> \in OpToRel(<, Nat))
  BY <1>2
<1>4. ASSUME NEW k \in I
      PROVE  i >= k
  <2>1. i \in Nat /\ k \in Nat /\ n - i \in Nat /\ n - k \in Nat /\ n - k \in J
    BY <1>1
  <2>2. /\ <<n - k, n - i>> \in Nat \X Nat
        /\ <<n - k, n - i>>[1] = n - k /\ <<n - k, n - i>>[2] = n - i
    BY <2>1
  <2>3. ~(n - k < n - i)
    BY <1>3, <2>1, <2>2 DEF OpToRel
  <2> QED
    BY <2>1, <2>3
<1> QED
  BY <1>4 DEF Max

\* What is found in a scope is a value.
LEMMA FoundIsAValue ==
  ASSUME NEW q, NEW D, NEW k, Ready(q, D, k), NEW name, scope_find(q, name) # 0
  PROVE  scope_find(q, name) \in Values(q)
<1> DEFINE I == {i \in 1..Len(q.scope_stack) : name \in DOMAIN q.scope_stack[i]}
           level == SelectLastInSeq(q.scope_stack, LAMBDA scope : name \in DOMAIN scope)
<1>1. level = IF I # {} THEN Max(I) ELSE 0
  BY DEF SelectLastInSeq
<1>2. scope_find(q, name) = IF level = 0 THEN 0 ELSE q.scope_stack[level][name]
  BY DEF scope_find
<1>3. level # 0 /\ I # {} /\ level = Max(I)
  BY <1>1, <1>2
<1>4. q.scope_stack \in Seq(Scopes)
  BY DEF Ready, Built, Typed
<1>5. I \subseteq 1..Len(q.scope_stack) /\ Len(q.scope_stack) \in Nat
  BY <1>4
<1>6. level \in I
  BY <1>3, <1>5, GreatestOf
<1> HIDE DEF level
<1>7. level \in DOMAIN q.scope_stack /\ name \in DOMAIN q.scope_stack[level]
  BY <1>4, <1>6
<1>8. q.scope_stack[level][name] \in Values(q)
  BY <1>7 DEF Ready, Built, ValuesAreDefined
<1> QED
  BY <1>2, <1>3, <1>8

\* What a handler leaves that ends by making a value.
LEMMA ValueLeft ==
  ASSUME NEW q, Ready(q, {cur_block(q)}, 0), NoCastLast(q), q.aborted = FALSE,
         NEW kind \in InstKinds \ (Terminators \cup {"CAST"}), NEW type \in TypeNames,
         NEW num_ins \in Nat, num_ins <= Len(q.value_stack), NEW data \in Nat \cup Seq(Nat),
         kind = "LOAD" => num_ins = 1
  PROVE  InFunction(make_inst(q, kind, type, num_ins, data))
<1> DEFINE b == cur_block(q)
           r == make_inst(q, kind, type, num_ins, data)
<1>1. b \in DOMAIN q.blocks
  BY DEF Ready, Held
<1>2. NoCastBut(q, b) /\ TypeFits(q, b, kind, type, num_ins)
  BY <1>1 DEF NoCastLast, NoCastBut, TypeFits
<1>3. /\ Ready(r, {b}, 0) /\ NoCastLast(r) /\ r.aborted = FALSE /\ cur_block(r) = b
      /\ r.value_stack = Append(SubSeq(q.value_stack, 1, Len(q.value_stack) - num_ins),
                                Len(q.definers) + 1)
  <2>1. ValueAdded(q, r, {b}, 0, kind, type, num_ins)
    BY <1>2, ValueMade
  <2> QED
    BY <2>1 DEF ValueAdded
<1>4. \A s, v : Append(s, v) # <<>> \/ s \notin Seq(Nat) \/ v \notin Nat
  OBVIOUS
<1>5. r.value_stack # <<>>
  <2>1. q.value_stack \in Seq(Nat) /\ Len(q.definers) + 1 \in Nat
    BY DEF Ready, Built, Typed
  <2>2. SubSeq(q.value_stack, 1, Len(q.value_stack) - num_ins) \in Seq(Nat)
    BY <2>1
  <2> QED
    BY <1>3, <1>4, <2>1, <2>2
<1> QED
  BY <1>3, <1>5 DEF InFunction

LEMMA PrimaryKeeps ==
  ASSUME IInv, handle_primary
  PROVE  IInv'
<1>1. At("primary") /\ "primary" \in InnerKinds /\ "primary" \in ExprKinds
  BY DEF handle_primary, InnerKinds, ExprKinds
<1>2. /\ Ready(popped, {cur_block(popped)}, 0) /\ NoCastLast(popped) /\ popped.aborted = FALSE
      /\ popped.scope_stack = p.scope_stack /\ popped.definers = p.definers
  BY <1>1, PlainPopped, PoppedIsReady
<1>3. "INT_CONST" \in InstKinds \ (Terminators \cup {"CAST"})
      /\ "LOAD" \in InstKinds \ (Terminators \cup {"CAST"})
  BY DEF InstKinds, Terminators
<1>4. Len(src) \in Nat
  BY DEF IInv
<1>5. ASSUME Reading(<<>>, make_inst(popped, "INT_CONST", "int", 0, Len(src)))
      PROVE  IInv'
  <2> DEFINE q == make_inst(popped, "INT_CONST", "int", 0, Len(src))
  <2>1. "int" \in TypeNames
    BY DEF TypeNames, Size, OneByte, TwoBytes, FourBytes, EightBytes
  <2>2. 0 <= Len(popped.value_stack)
    BY <1>2 DEF Ready, Built, Typed
  <2>3. InFunction(q)
    BY <1>2, <1>3, <1>4, <2>1, <2>2, ValueLeft
  <2> QED
    BY <1>5, <2>3, ReadingSettles, EmptySeq
<1>6. ASSUME NEW v, v = scope_find(p, peek), v # 0,
             Reading(<<>>, make_inst(push_value(popped, v), "LOAD", p.definers[v].type, 1, <<>>))
      PROVE  IInv'
  <2> DEFINE r == push_value(popped, v)
             type == p.definers[v].type
             q == make_inst(r, "LOAD", type, 1, <<>>)
  <2>1. v = scope_find(popped, peek)
    BY <1>2, <1>6 DEF scope_find
  <2>2. v \in Values(popped)
    BY <1>2, <1>6, <2>1, FoundIsAValue
  <2>3. type \in TypeNames
    <3>1. p.definers \in Seq(Definers) /\ v \in DOMAIN p.definers
      BY <1>2, <2>2 DEF Ready, Built, Typed, Values
    <3>2. p.definers[v] \in Definers
      BY <3>1
    <3> QED
      BY <3>2 DEF Definers
  <2>4. /\ Ready(r, {cur_block(popped)}, 0) /\ r.blocks = popped.blocks /\ r.aborted = FALSE
        /\ Len(r.value_stack) = Len(popped.value_stack) + 1
    BY <1>2, <2>2, ValuePushed
  <2> HIDE DEF r, type
  <2>5. cur_block(r) = cur_block(popped) /\ NoCastLast(r)
    BY <1>2, <2>4 DEF cur_block, NoCastLast
  <2>6. 1 <= Len(r.value_stack)
    BY <1>2, <2>4 DEF Ready, Built, Typed
  <2>7. InFunction(q)
    BY <1>3, <2>3, <2>4, <2>5, <2>6, ValueLeft, EmptySeq
  <2>8. Reading(<<>>, q)
    BY <1>6 DEF q, r, type
  <2> HIDE DEF q
  <2> QED
    BY <2>7, <2>8, ReadingSettles, EmptySeq
<1>7. \/ Reading(<<>>, make_inst(popped, "INT_CONST", "int", 0, Len(src)))
      \/ Error
      \/ \E v : /\ v = scope_find(p, peek) /\ v # 0
                /\ Reading(<<>>, make_inst(push_value(popped, v), "LOAD", p.definers[v].type,
                                           1, <<>>))
  BY DEF handle_primary
<1> QED
  BY <1>5, <1>6, <1>7, StoppedIsOutside DEF Error

\* r is q with the value w of the type on top of its stack.
OfType(q, r, w, type) ==
  /\ Ready(r, {cur_block(r)}, 0) /\ NoCastBut(r, cur_block(r)) /\ cur_block(r) = cur_block(q)
  /\ w \in Values(r) /\ r.definers[w].type = type /\ r.value_stack = Append(q.value_stack, w)
  /\ Values(q) \subseteq Values(r) /\ \A v \in Values(q) : r.definers[v] = q.definers[v]
  /\ r.state_stack = q.state_stack /\ r.aborted = q.aborted

\* An operand pushed again, as it is or cast.
LEMMA OperandCast ==
  ASSUME NEW q, Ready(q, {cur_block(q)}, 0), NoCastBut(q, cur_block(q)),
         NEW v \in Values(q), NEW type \in TypeNames, Size[type] >= Size[q.definers[v].type]
  PROVE  /\ q.definers[v].type = type => OfType(q, push_value(q, v), v, type)
         /\ OfType(q, make_inst(push_value(q, v), "CAST", type, 1, <<>>), Len(q.definers) + 1, type)
<1> DEFINE s == push_value(q, v)
           b == cur_block(q)
           r == make_inst(s, "CAST", type, 1, <<>>)
           out == Len(q.definers) + 1
           n == Len(q.value_stack)
<1>1. /\ Ready(s, {b}, 0) /\ s.value_stack = Append(q.value_stack, v)
      /\ Len(s.value_stack) = n + 1 /\ Last(s.value_stack) = v
      /\ s.state_stack = q.state_stack /\ s.definers = q.definers
      /\ s.blocks = q.blocks /\ s.aborted = q.aborted
  BY ValuePushed
<1>2. q.value_stack \in Seq(Nat) /\ n \in Nat /\ Len(q.definers) \in Nat /\ v \in Nat
  BY DEF Ready, Built, Typed, Values
<1> HIDE DEF s
<1>3. cur_block(s) = b /\ Values(s) = Values(q) /\ NoCastBut(s, b) /\ value(s) = v
  BY <1>1 DEF cur_block, Values, NoCastBut, value
<1>4. q.definers[v].type = type => OfType(q, s, v, type)
  BY <1>1, <1>3 DEF OfType
<1>5. OfType(q, r, out, type)
  <2>1. "CAST" \in InstKinds \ Terminators /\ "CAST" \notin ArithmeticKinds
    BY DEF InstKinds, Terminators, ArithmeticKinds
  <2>2. TypeFits(s, cur_block(s), "CAST", type, 1)
    BY <1>1, <1>3, <2>1 DEF TypeFits
  <2>3. 1 <= Len(s.value_stack) /\ <<>> \in Seq(Nat)
    BY <1>1, <1>2
  <2> HIDE DEF b
  <2>4. /\ Ready(r, {b}, 0) /\ NoCastBut(r, cur_block(r))
        /\ r.value_stack = Append(SubSeq(s.value_stack, 1, Len(s.value_stack) - 1), out)
        /\ out \in Values(r) /\ r.definers[out].type = type
        /\ Values(q) \subseteq Values(r) /\ \A x \in Values(q) : r.definers[x] = q.definers[x]
        /\ r.state_stack = q.state_stack /\ r.aborted = q.aborted /\ cur_block(r) = b
    <3>1. cur_block(s) \in {b} /\ NoCastBut(s, cur_block(s)) /\ <<>> \in Nat \cup Seq(Nat)
      BY <1>3, <2>3
    <3>2. ValueAdded(s, r, {b}, 0, "CAST", type, 1)
      BY <1>1, <2>1, <2>2, <2>3, <3>1, ValueMade
    <3> HIDE DEF r
    <3> QED
      BY <1>1, <1>3, <3>2 DEF ValueAdded
  <2> HIDE DEF r
  <2>5. SubSeq(s.value_stack, 1, Len(s.value_stack) - 1) = q.value_stack
    <3>1. Front(Append(q.value_stack, v)) = q.value_stack
      BY <1>2, FrontOfAppended
    <3> QED
      BY <1>1, <3>1 DEF Front
  <2> QED
    BY <2>4, <2>5 DEF OfType, b
<1> QED
  BY <1>4, <1>5 DEF s, r

LEMMA ArithmeticSettles ==
  ASSUME NEW q, Ready(q, {cur_block(q)}, 0), NoCastLast(q), q.aborted = FALSE,
         NEW op \in {"*", "/", "+", "-"}, NEW left \in Values(q), NEW right \in Values(q)
  PROVE  LET r == complete_arithmetic(q, op, left, right) IN
         r.aborted \in BOOLEAN /\ (r.aborted = FALSE => InFunction(r))
<1> DEFINE r == complete_arithmetic(q, op, left, right)
           type(v) == q.definers[v].type
           larger == larger_type(type(left), type(right))
           Cast(s, v) == IF type(v) = larger THEN push_value(s, v)
                         ELSE make_inst(push_value(s, v), "CAST", larger, 1, <<>>)
           kind == bin_kind(op)
           s1 == Cast(q, left)
           s2 == Cast(s1, right)
<1>1. kind \in ArithmeticKinds /\ kind \in InstKinds \ (Terminators \cup {"CAST"})
      /\ kind # "LOAD"
  BY DEF bin_kind, ArithmeticKinds, InstKinds, Terminators
<1>2. r = IF type(left) = type(right) THEN make_inst(q, kind, type(left), 2, <<>>)
          ELSE make_inst(s2, kind, larger, 2, <<>>)
  BY DEF complete_arithmetic
<1>3. type(left) \in TypeNames /\ type(right) \in TypeNames
  <2>1. q.definers \in Seq(Definers) /\ DOMAIN q.definers = Values(q)
    BY DEF Ready, Built, Typed, Values
  <2>2. q.definers[left] \in Definers /\ q.definers[right] \in Definers
    BY <2>1
  <2> QED
    BY <2>2 DEF Definers
<1>4. /\ larger \in TypeNames
      /\ Size[larger] >= Size[type(left)] /\ Size[larger] >= Size[type(right)]
  BY <1>3, LargerIsOne
<1>5. q.value_stack \in Seq(Nat) /\ Len(q.value_stack) \in Nat
  BY DEF Ready, Built, Typed
<1>6. CASE type(left) = type(right)
  <2> DEFINE t == type(left)
             m == make_inst(q, kind, t, 2, <<>>)
  <2>1. r = m
    BY <1>2, <1>6
  <2>2. CASE 2 <= Len(q.value_stack)
    <3>1. InFunction(m)
      BY <1>1, <1>3, <2>2, ValueLeft, EmptySeq
    <3> QED
      BY <2>1, <3>1 DEF InFunction
  <2>3. CASE ~(2 <= Len(q.value_stack))
    <3>1. Len(q.value_stack) < 2
      BY <1>5, <2>3
    <3>2. m = [q EXCEPT !.aborted = TRUE]
      <4> HIDE DEF kind, t
      <4> QED
        BY <1>5, <3>1, TooFew DEF make_inst
    <3>3. DOMAIN q = Fields
      BY DEF Ready, Built, Typed
    <3>4. m.aborted = TRUE
      BY <3>2, <3>3 DEF Fields
    <3> QED
      BY <2>1, <3>4
  <2> QED
    BY <2>2, <2>3
<1>7. CASE type(left) # type(right)
  <2>1. NoCastBut(q, cur_block(q))
    BY DEF NoCastLast, NoCastBut
  <2>2. PICK v : OfType(q, s1, v, larger)
    BY <1>4, <2>1, OperandCast
  <2> HIDE DEF s1
  <2>3. /\ Ready(s1, {cur_block(s1)}, 0) /\ NoCastBut(s1, cur_block(s1))
        /\ right \in Values(s1) /\ s1.definers[right] = q.definers[right]
        /\ v \in Values(s1) /\ s1.definers[v].type = larger
        /\ s1.value_stack = Append(q.value_stack, v) /\ s1.aborted = FALSE
    BY <2>2 DEF OfType
  <2>4. PICK w : OfType(s1, s2, w, larger)
    BY <1>4, <2>3, OperandCast
  <2> HIDE DEF s2
  <2>5. /\ Ready(s2, {cur_block(s2)}, 0) /\ NoCastBut(s2, cur_block(s2))
        /\ w \in Values(s2) /\ s2.definers[w].type = larger
        /\ s2.definers[v].type = larger /\ s2.aborted = FALSE
        /\ s2.value_stack = Append(s1.value_stack, w)
    BY <2>3, <2>4 DEF OfType
  <2> DEFINE n == Len(q.value_stack)
  <2>6. v \in Nat /\ w \in Nat
    BY <2>3, <2>5 DEF Values
  <2>7. s1.value_stack \in Seq(Nat) /\ Len(s1.value_stack) = n + 1 /\ s1.value_stack[n + 1] = v
    BY <1>5, <2>3, <2>6
  <2>8. /\ s2.value_stack \in Seq(Nat) /\ Len(s2.value_stack) = n + 2
        /\ s2.value_stack[n + 1] = v /\ s2.value_stack[n + 2] = w
    <3> DEFINE u == s1.value_stack
    <3>1. u \in Seq(Nat) /\ Len(u) = n + 1 /\ u[n + 1] = v /\ n + 1 \in 1..Len(u) /\ n \in Nat
      BY <1>5, <2>7
    <3>2. s2.value_stack = Append(u, w)
      BY <2>5
    <3> HIDE DEF u, n
    <3>3. /\ Append(u, w) \in Seq(Nat) /\ Len(Append(u, w)) = Len(u) + 1
          /\ Append(u, w)[Len(u) + 1] = w /\ \A i \in 1..Len(u) : Append(u, w)[i] = u[i]
      BY <2>6, <3>1, AppendProperties
    <3>4. Len(u) + 1 = n + 2
      BY <3>1
    <3> QED
      BY <3>1, <3>2, <3>3, <3>4
  <2>9. \A i \in (n + 2 - 2 + 1)..(n + 2) : i = n + 1 \/ i = n + 2
    BY <1>5
  <2> HIDE DEF larger, kind
  <2>10. TypeFits(s2, cur_block(s2), kind, larger, 2)
    <3>1. \A i \in (n + 2 - 2 + 1)..(n + 2) : s2.definers[s2.value_stack[i]].type = larger
      BY <2>5, <2>8, <2>9
    <3>2. kind # "CAST" /\ kind # "LOAD"
      BY <1>1
    <3>3. n \in Nat
      BY <1>5
    <3> HIDE DEF n
    <3>4. \A i \in (Len(s2.value_stack) - 2 + 1)..Len(s2.value_stack) :
            s2.definers[s2.value_stack[i]].type = larger
      <4>1. Len(s2.value_stack) - 2 + 1 = n + 2 - 2 + 1
        BY <2>8, <3>3
      <4> QED
        BY <2>8, <3>1, <3>3, <4>1
    <3> QED
      BY <3>2, <3>4, Zenon DEF TypeFits
  <2> DEFINE m == make_inst(s2, kind, larger, 2, <<>>)
             rest == SubSeq(s2.value_stack, 1, Len(s2.value_stack) - 2)
  <2>11. 2 <= Len(s2.value_stack)
    BY <1>5, <2>8
  <2>12. /\ Ready(m, {cur_block(s2)}, 0) /\ NoCastLast(m) /\ cur_block(m) = cur_block(s2)
         /\ m.aborted = FALSE /\ m.value_stack = Append(rest, Len(s2.definers) + 1)
    <3>1. <<>> \in Nat \cup Seq(Nat) /\ 2 \in Nat /\ kind \in InstKinds \ Terminators
          /\ cur_block(s2) \in {cur_block(s2)} /\ kind # "CAST"
      BY <1>1, EmptySeq
    <3>2. ValueAdded(s2, m, {cur_block(s2)}, 0, kind, larger, 2)
      BY <1>4, <2>5, <2>10, <2>11, <3>1, ValueMade
    <3> QED
      BY <2>5, <3>1, <3>2 DEF ValueAdded
  <2>13. rest \in Seq(Nat) /\ Len(s2.definers) + 1 \in Nat
    <3>1. Len(s2.definers) \in Nat
      BY <2>5 DEF Ready, Built, Typed
    <3>2. /\ s2.value_stack \in Seq(Nat) /\ Len(s2.value_stack) = n + 2 /\ n \in Nat
          /\ n + 2 - 2 = n
      BY <1>5, <2>8
    <3> HIDE DEF n
    <3>3. \A i \in 1..n : s2.value_stack[i] \in Nat
      BY <3>2
    <3>4. SubSeq(s2.value_stack, 1, n) \in Seq(Nat)
      BY <3>2, <3>3
    <3> QED
      BY <3>1, <3>2, <3>4
  <2> HIDE DEF rest, m
  <2>14. m.value_stack # <<>>
    BY <2>12, <2>13
  <2>15. InFunction(m) /\ m.aborted \in BOOLEAN
    BY <2>12, <2>14 DEF InFunction
  <2>16. r = m
    BY <1>2, <1>7 DEF m
  <2> QED
    BY <2>15, <2>16
<1> QED
  BY <1>6, <1>7

LEMMA AssignmentSettles ==
  ASSUME NEW q, Ready(q, {cur_block(q)}, 0), NoCastLast(q), q.aborted = FALSE,
         NEW left \in Values(q), NEW right \in Values(q), Definition(q, left).kind = "LOAD"
  PROVE  InFunction(complete_assignment(q, left, right))
<1> DEFINE d == q.definers[left]
           inst == q.blocks[d.block][d.inst]
           address == inst.ins[1]
           b == cur_block(q)
           s1 == push_value(q, address)
           s2 == push_value(s1, right)
           stored == make_inst(s2, "STORE", Void, 2, <<>>)
           r == push_value(stored, right)
<1>1. complete_assignment(q, left, right) = r
  BY DEF complete_assignment, Definition
<1>2. inst.kind = "LOAD"
  BY DEF Definition
<1>3. q.definers \in Seq(Definers) /\ q.blocks \in Seq(Seq(Insts)) /\ left \in DOMAIN q.definers
  BY DEF Ready, Built, Typed, Values
<1>4. d.block \in DOMAIN q.blocks /\ d.inst \in DOMAIN q.blocks[d.block]
  BY <1>3 DEF Ready, Built, PointBack
<1>5. address \in Values(q)
  <2>1. inst.ins # <<>>
    BY <1>2, <1>3 DEF Ready, Built, Agreeing, Agrees
  <2>2. inst \in Insts
    <3>1. q.blocks[d.block] \in Seq(Insts)
      BY <1>3, <1>4
    <3> QED
      BY <1>4, <3>1
  <2>3. inst.ins \in Seq(Nat)
    BY <2>2 DEF Insts
  <2>4. 1 \in DOMAIN inst.ins
    BY <2>1, <2>3, EmptySeq, SMTT(30)
  <2> QED
    BY <1>4, <2>4 DEF Ready, Built, ValuesAreDefined
<1> HIDE DEF address
<1>6. /\ Ready(s1, {b}, 0) /\ Len(s1.value_stack) = Len(q.value_stack) + 1
      /\ s1.definers = q.definers /\ s1.blocks = q.blocks /\ s1.aborted = FALSE
  BY <1>5, ValuePushed
<1> HIDE DEF s1
<1>7. right \in Values(s1)
  BY <1>6 DEF Values
<1>8. /\ Ready(s2, {b}, 0) /\ Len(s2.value_stack) = Len(s1.value_stack) + 1
      /\ s2.definers = q.definers /\ s2.blocks = q.blocks /\ s2.aborted = FALSE
  BY <1>6, <1>7, ValuePushed
<1> HIDE DEF s2
<1>9. cur_block(s2) = b /\ 2 <= Len(s2.value_stack)
  <2>1. Len(q.value_stack) \in Nat
    BY DEF Ready, Built, Typed
  <2> QED
    BY <1>6, <1>8, <2>1 DEF cur_block
<1> HIDE DEF b
<1>10. Ready(stored, {b}, 0) /\ After(s2, stored, b, "STORE", Void, 2)
  <2>1. /\ "STORE" \in InstKinds /\ "STORE" \notin Terminators /\ "STORE" \notin ArithmeticKinds
    BY DEF InstKinds, Terminators, ArithmeticKinds
  <2>2. TypeFits(s2, b, "STORE", Void, 2) /\ Left({b}, b, "STORE") = {b}
    BY <2>1 DEF TypeFits, Left
  <2>3. stored = make_inst_in_block(s2, b, "STORE", Void, 2, <<>>)
    BY <1>9 DEF make_inst
  <2>4. b \in {b} /\ Void \in TypeNames \cup {Void} /\ 2 \in Nat /\ <<>> \in Nat \cup Seq(Nat)
    BY EmptySeq
  <2>5. 2 <= Len(s2.value_stack)
    BY <1>9
  <2> DEFINE t == make_inst_in_block(s2, b, "STORE", Void, 2, <<>>)
  <2>6. Ready(t, Left({b}, b, "STORE"), 0) /\ After(s2, t, b, "STORE", Void, 2)
    BY <1>8, <2>1, <2>2, <2>4, <2>5, Made
  <2>7. stored = t
    BY <2>3
  <2> HIDE DEF stored, t
  <2> QED
    BY <2>2, <2>6, <2>7
<1>11. NoCastLast(stored)
  <2>1. NoCastBut(s2, b)
    BY <1>8 DEF NoCastLast, NoCastBut
  <2>2. b \in {b} /\ stored.blocks \in Seq(Seq(Insts))
    BY <1>10 DEF Ready, Built, Typed
  <2> HIDE DEF stored
  <2> QED
    BY <1>8, <1>10, <2>1, <2>2, CastIsFollowed
<1> HIDE DEF stored
<1>12. /\ stored.definers = q.definers /\ stored.aborted = FALSE /\ cur_block(stored) = b
  BY <1>8, <1>9, <1>10 DEF After, cur_block
<1>13. right \in Values(stored)
  BY <1>12 DEF Values
<1>14. /\ Ready(r, {b}, 0) /\ Len(r.value_stack) = Len(stored.value_stack) + 1
       /\ r.blocks = stored.blocks /\ r.aborted = FALSE
  BY <1>10, <1>12, <1>13, ValuePushed
<1> HIDE DEF r
<1>15. cur_block(r) = b /\ NoCastLast(r)
  BY <1>11, <1>12, <1>14 DEF cur_block, NoCastLast
<1>16. r.value_stack # <<>>
  <2>1. stored.value_stack \in Seq(Nat)
    BY <1>10 DEF Ready, Built, Typed
  <2> QED
    BY <1>14, <2>1
<1>17. InFunction(r)
  BY <1>14, <1>15, <1>16 DEF InFunction
<1> QED
  BY <1>1, <1>17

LEMMA CompleteBinaryKeeps ==
  ASSUME IInv, handle_complete_binary
  PROVE  IInv'
<1> DEFINE right == value(popped)
           s == pop_value(popped)
           left == value(s)
           q == pop_value(s)
<1>1. At("complete_binary") /\ "complete_binary" \in InnerKinds
  BY DEF handle_complete_binary, InnerKinds, ExprKinds
<1>2. /\ Ready(popped, {cur_block(popped)}, 0) /\ NoCastLast(popped) /\ popped.aborted = FALSE
      /\ popped.value_stack = p.value_stack /\ popped.definers = p.definers
      /\ popped.blocks = p.blocks /\ state \in States /\ state.kind = "complete_binary"
  BY <1>1, PlainPopped, PoppedIsReady
<1>3. Len(p.value_stack) \in Nat /\ p.value_stack \in Seq(Nat)
  BY <1>2 DEF Ready, Built, Typed
<1>4. state.op \in {"*", "/", "+", "-", "="}
  <2> HIDE DEF state
  <2> QED
    BY <1>2 DEF States
<1>5. CASE Len(p.value_stack) < 2
  <2>1. Stop("aborted")
    <3>1. ~(Len(p.value_stack) >= 2)
      BY <1>3, <1>5
    <3> QED
      BY <1>5, <3>1, Zenon DEF handle_complete_binary
  <2> QED
    BY <2>1, StoppedIsOutside
<1>6. CASE Len(p.value_stack) >= 2
  <2>1. popped.value_stack # <<>>
    BY <1>2, <1>6
  <2>2. /\ Ready(s, {cur_block(popped)}, 0) /\ right \in Values(popped)
        /\ Len(s.value_stack) = Len(p.value_stack) - 1
        /\ s.definers = p.definers /\ s.blocks = p.blocks /\ s.aborted = FALSE
    BY <1>2, <2>1, ValuePopped
  <2>3. s.value_stack # <<>>
    BY <1>3, <1>6, <2>2
  <2> HIDE DEF s
  <2>4. /\ Ready(q, {cur_block(popped)}, 0) /\ left \in Values(s)
        /\ q.definers = p.definers /\ q.blocks = p.blocks /\ q.aborted = FALSE
    BY <2>2, <2>3, ValuePopped
  <2>5. left \in Values(q) /\ right \in Values(q) /\ cur_block(q) = cur_block(popped)
        /\ NoCastLast(q)
    BY <1>2, <2>2, <2>4 DEF Values, cur_block, NoCastLast
  <2>6. Definition(p, left) = Definition(q, left)
    BY <2>4 DEF Definition
  <2>7. \/ state.op # "=" /\ Keeping(complete_arithmetic(q, state.op, left, right))
        \/ state.op = "=" /\ Definition(p, left).kind # "LOAD" /\ Error
        \/ /\ state.op = "=" /\ Definition(p, left).kind = "LOAD"
           /\ Keeping(complete_assignment(q, left, right))
    <3>1. ~(Len(p.value_stack) < 2)
      BY <1>3, <1>6
    <3> QED
      BY <1>6, <3>1, Zenon DEF handle_complete_binary, s
  <2> HIDE DEF q, left, right
  <2>8. ASSUME state.op # "=", Keeping(complete_arithmetic(q, state.op, left, right))
        PROVE  IInv'
    <3> DEFINE r == complete_arithmetic(q, state.op, left, right)
    <3>1. state.op \in {"*", "/", "+", "-"}
      BY <1>4, <2>8
    <3>2. r.aborted \in BOOLEAN /\ (r.aborted = FALSE => InFunction(r))
      BY <2>4, <2>5, <3>1, ArithmeticSettles
    <3>3. Keeping(r)
      BY <2>8
    <3> HIDE DEF r
    <3> QED
      BY <3>2, <3>3, KeepingSettles
  <2>9. ASSUME Definition(q, left).kind = "LOAD", Keeping(complete_assignment(q, left, right))
        PROVE  IInv'
    <3> DEFINE r == complete_assignment(q, left, right)
    <3>1. InFunction(r)
      BY <2>4, <2>5, <2>9, AssignmentSettles
    <3>2. Keeping(r)
      BY <2>9
    <3> HIDE DEF r
    <3> QED
      BY <3>1, <3>2, KeepingSettles DEF InFunction
  <2> QED
    BY <2>6, <2>7, <2>8, <2>9, StoppedIsOutside DEF Error
<1> QED
  BY <1>3, <1>5, <1>6

-----------------------------------------------------------------------------
(* Declarations.                                                           *)
LEMMA ScopeInserted ==
  ASSUME NEW q, NEW D, NEW k, Ready(q, D, k), NEW name \in Identifiers, NEW v \in Values(q)
  PROVE  LET r == scope_insert(q, name, v) IN
         /\ Ready(r, D, k) /\ r.state_stack = q.state_stack /\ r.blocks = q.blocks
         /\ r.aborted = q.aborted
<1> DEFINE r == scope_insert(q, name, v)
           n == Len(q.scope_stack)
           scope == Last(q.scope_stack)
           top == [x \in DOMAIN scope \cup {name} |-> IF x = name THEN v ELSE scope[x]]
           new == [q.scope_stack EXCEPT ![n] = top]
<1>1. /\ DOMAIN q = Fields /\ q.scope_stack \in Seq(Scopes) /\ n \in Nat
      /\ DOMAIN q.scope_stack = 1..n /\ scope = q.scope_stack[n]
  BY DEF Ready, Built, Typed, Last
<1>2. /\ DOMAIN r = Fields /\ r.scope_stack = new
      /\ r.state_stack = q.state_stack /\ r.definers = q.definers
      /\ r.value_stack = q.value_stack /\ r.blocks = q.blocks /\ r.aborted = q.aborted
  <2> HIDE DEF top
  <2>1. r = [q EXCEPT !.scope_stack = new]
    <3>1. r = [q EXCEPT !.scope_stack[n] = top]
      BY DEF scope_insert, top
    <3> QED
      BY <1>1, <3>1 DEF Fields
  <2> HIDE DEF r, new
  <2> QED
    BY <1>1, <2>1 DEF Fields
<1>3. /\ DOMAIN new = 1..n
      /\ \A i \in 1..n : new[i] = IF i = n THEN top ELSE q.scope_stack[i]
  BY <1>1
<1> HIDE DEF r, new
<1>4. /\ DOMAIN top = DOMAIN scope \cup {name}
      /\ \A x \in DOMAIN top : top[x] = IF x = name THEN v ELSE scope[x]
  OBVIOUS
<1>5. n \in 1..n => top \in Scopes /\ \A x \in DOMAIN top : top[x] \in Values(q)
  <2> SUFFICES ASSUME n \in 1..n
               PROVE  top \in Scopes /\ \A x \in DOMAIN top : top[x] \in Values(q)
    OBVIOUS
  <2>1. \A x \in DOMAIN scope : scope[x] \in Values(q)
    BY <1>1 DEF Ready, Built, ValuesAreDefined
  <2>2. scope \in Scopes
    BY <1>1
  <2> HIDE DEF scope
  <2>3. DOMAIN scope \subseteq Identifiers
    BY <2>2 DEF Scopes
  <2>4. \A x \in DOMAIN top : top[x] \in Values(q)
    BY <1>4, <2>1
  <2>5. Values(q) \subseteq Nat
    BY DEF Values
  <2>6. DOMAIN top \in SUBSET Identifiers
    BY <1>4, <2>3
  <2>7. top \in [DOMAIN top -> Nat]
    BY <2>4, <2>5
  <2> HIDE DEF top
  <2> QED
    BY <2>4, <2>6, <2>7 DEF Scopes
<1> HIDE DEF top
<1>6. \A i \in DOMAIN new : \A x \in DOMAIN new[i] : new[i][x] \in Values(q)
  <2>1. \A i \in 1..n : \A x \in DOMAIN q.scope_stack[i] : q.scope_stack[i][x] \in Values(q)
    BY <1>1 DEF Ready, Built, ValuesAreDefined
  <2> QED
    BY <1>3, <1>5, <2>1
<1>7. new \in Seq(Scopes) /\ Len(new) = n
  <2>1. \A i \in 1..n : new[i] \in Scopes
    BY <1>1, <1>3, <1>5
  <2>2. new = [i \in 1..n |-> new[i]]
    BY <1>1, <1>3 DEF new
  <2> QED
    BY <1>1, <1>3, <2>1, <2>2
<1>8. ValuesAreDefined(r)
  BY <1>2, <1>6 DEF Ready, Built, ValuesAreDefined, Values
<1>9. Typed(r) /\ r.blocks # <<>> /\ PointBack(r) /\ EndsOnce(r.blocks)
  BY <1>2, <1>7 DEF Ready, Built, Typed, PointBack
<1>10. Agreeing(r)
  BY <1>2, ZenonT(30) DEF Ready, Built, Agreeing, Agrees
<1>11. Held(r.state_stack, r, D, k)
  BY <1>2, <1>7 DEF Ready, Held
<1>12. Ready(r, D, k)
  BY <1>8, <1>9, <1>10, <1>11 DEF Ready, Built
<1> QED
  BY <1>2, <1>12 DEF r

LEMMA AppendedTo ==
  ASSUME NEW S, NEW s \in Seq(S), NEW x \in S
  PROVE  Append(s, x) \in Seq(S) /\ Append(s, x) # <<>>
<1> DEFINE t == Append(s, x)
<1>1. t \in Seq(S) /\ Len(t) = Len(s) + 1 /\ Len(s) \in Nat
  BY AppendProperties
<1> HIDE DEF t
<1>2. t # <<>>
  BY <1>1
<1> QED
  BY <1>1, <1>2 DEF t

LEMMA Widened ==
  ASSUME NEW S, NEW T, S \subseteq T, NEW s \in Seq(S)
  PROVE  s \in Seq(T)
<1>1. \A i \in 1..Len(s) : s[i] \in T
  BY ElementOfSeq
<1>2. SubSeq(s, 1, Len(s)) \in Seq(T)
  BY <1>1, LenProperties, SubSeqProperties
<1> QED
  BY <1>2, SubSeqFull

LEMMA TypesAreSequences ==
  ASSUME NEW ts \in TypeTokens
  PROVE  ts \in Seq(TypeWords) /\ ts # <<>>
<1>1. /\ "char" \in TypeWords /\ "short" \in TypeWords /\ "int" \in TypeWords
      /\ "long" \in TypeWords /\ "signed" \in TypeWords /\ "unsigned" \in TypeWords
  BY DEF TypeWords
<1>2. ASSUME NEW s \in Seq(TypeWords), NEW t \in Sized(s)
      PROVE  t \in Seq(TypeWords) /\ t # <<>>
  <2>1. /\ Append(s, "short") \in Seq(TypeWords) /\ Append(s, "short") # <<>>
        /\ Append(s, "long") \in Seq(TypeWords) /\ Append(s, "long") # <<>>
        /\ Append(s, "char") \in Seq(TypeWords) /\ Append(s, "char") # <<>>
        /\ Append(s, "int") \in Seq(TypeWords) /\ Append(s, "int") # <<>>
    BY <1>1, AppendedTo
  <2>2. LET u == Append(s, "long") IN
        /\ Append(u, "int") \in Seq(TypeWords) /\ Append(u, "int") # <<>>
        /\ Append(u, "long") \in Seq(TypeWords) /\ Append(u, "long") # <<>>
    BY <1>1, <2>1, AppendedTo
  <2>3. LET u == Append(s, "short") IN
        Append(u, "int") \in Seq(TypeWords) /\ Append(u, "int") # <<>>
    BY <1>1, <2>1, AppendedTo
  <2>4. LET u == Append(Append(s, "long"), "long") IN
        Append(u, "int") \in Seq(TypeWords) /\ Append(u, "int") # <<>>
    BY <1>1, <2>2, AppendedTo
  <2>5. t \in {Append(s, "short"), Append(Append(s, "short"), "int"),
              Append(s, "long"), Append(Append(s, "long"), "int"),
              Append(Append(s, "long"), "long"),
              Append(Append(Append(s, "long"), "long"), "int"),
              Append(s, "char"), Append(s, "int")}
    BY <1>2, Zenon DEF Sized, Longs, IntOrNot
  <2> QED
    BY <2>1, <2>2, <2>3, <2>4, <2>5
<1>3. /\ <<>> \in Seq(TypeWords)
      /\ <<"signed">> \in Seq(TypeWords) /\ <<"signed">> # <<>>
      /\ <<"unsigned">> \in Seq(TypeWords) /\ <<"unsigned">> # <<>>
  BY <1>1
<1>4. \/ ts \in Sized(<<>>) \/ ts \in Sized(<<"signed">>) \/ ts \in Sized(<<"unsigned">>)
      \/ ts = <<"signed">> \/ ts = <<"unsigned">>
  BY DEF TypeTokens
<1> QED
  BY <1>2, <1>3, <1>4

LEMMA LocalDeclKeeps ==
  ASSUME IInv, handle_local_decl
  PROVE  IInv'
<1>1. At("local_decl") /\ "local_decl" \in InnerKinds /\ "local_decl" \notin ExprKinds
  BY DEF handle_local_decl, InnerKinds, ExprKinds
<1>2. /\ Ready(popped, {cur_block(popped)}, 0) /\ NoCastLast(popped) /\ popped.aborted = FALSE
      /\ Last(popped.state_stack).kind \notin Consumers
  BY <1>1, PlainPopped, PoppedIsReady
<1>3. ASSUME NEW ts \in TypeTokens, NEW name \in Identifiers,
             LET made == make_inst(popped, "ALLOCA", TypeTable[ts], 0, Len(src))
             IN  Reading(Tail(ts) \o <<name, ";">>, scope_insert(pop_value(made), name, value(made)))
      PROVE  IInv'
  <2> DEFINE type == TypeTable[ts]
             b == cur_block(popped)
             made == make_inst(popped, "ALLOCA", type, 0, Len(src))
             v == value(made)
             q == pop_value(made)
             r == scope_insert(q, name, v)
             read == Tail(ts) \o <<name, ";">>
  <2>1. type \in TypeNames
    BY TypesAreNamed
  <2>2. /\ "ALLOCA" \in InstKinds \ Terminators /\ "ALLOCA" \notin ArithmeticKinds
        /\ Len(src) \in Nat \cup Seq(Nat) /\ 0 \in Nat
    BY DEF IInv, InstKinds, Terminators, ArithmeticKinds
  <2>3. popped.value_stack \in Seq(Nat) /\ 0 <= Len(popped.value_stack)
        /\ Len(popped.definers) + 1 \in Nat
    BY <1>2 DEF Ready, Built, Typed
  <2>4. NoCastBut(popped, b) /\ TypeFits(popped, b, "ALLOCA", type, 0)
    BY <1>2, <2>2 DEF NoCastLast, NoCastBut, TypeFits
  <2>5. Reading(read, r)
    BY <1>3
  <2> HIDE DEF type
  <2>6. ValueAdded(popped, made, {b}, 0, "ALLOCA", type, 0)
    BY <1>2, <2>1, <2>2, <2>3, <2>4, ValueMade
  <2> HIDE DEF made
  <2>7. /\ Ready(made, {b}, 0) /\ NoCastLast(made) /\ cur_block(made) = b
        /\ made.state_stack = popped.state_stack /\ made.aborted = FALSE
        /\ made.value_stack = Append(SubSeq(popped.value_stack, 1, Len(popped.value_stack) - 0),
                                     Len(popped.definers) + 1)
    BY <1>2, <2>6 DEF ValueAdded
  <2>8. made.value_stack # <<>>
    <3> DEFINE rest == SubSeq(popped.value_stack, 1, Len(popped.value_stack) - 0)
    <3>1. rest \in Seq(Nat)
      BY <2>3
    <3> HIDE DEF rest
    <3>2. made.value_stack = Append(rest, Len(popped.definers) + 1)
      BY <2>7 DEF rest
    <3> QED
      BY <2>3, <3>1, <3>2, AppendedTo
  <2>9. /\ Ready(q, {b}, 0) /\ v \in Values(made) /\ q.definers = made.definers
        /\ q.blocks = made.blocks /\ q.state_stack = popped.state_stack /\ q.aborted = FALSE
    BY <2>7, <2>8, ValuePopped
  <2> HIDE DEF q, v
  <2>10. v \in Values(q)
    BY <2>9 DEF Values
  <2>11. /\ Ready(r, {b}, 0) /\ r.blocks = made.blocks /\ r.state_stack = popped.state_stack
         /\ r.aborted = FALSE
    BY <2>9, <2>10, ScopeInserted
  <2> HIDE DEF r
  <2>12. InFunction(r)
    BY <1>2, <2>7, <2>11 DEF InFunction, NoCastLast, cur_block
  <2>13. read \in Seq(TypeWords \cup {name, ";"})
    <3> DEFINE T == TypeWords \cup {name, ";"}
    <3>1. ts \in Seq(TypeWords) /\ ts # <<>>
      BY TypesAreSequences
    <3>2. ts \in Seq(T)
      BY <3>1, Widened
    <3>3. name \in T /\ ";" \in T
      OBVIOUS
    <3> HIDE DEF T
    <3>4. Tail(ts) \in Seq(T) /\ <<name, ";">> \in Seq(T)
      <4>1. Tail(ts) \in Seq(T)
        BY <3>1, <3>2, HeadTailProperties
      <4>2. <<name, ";">> \in Seq({name, ";"})
        OBVIOUS
      <4>3. {name, ";"} \subseteq T
        BY <3>3
      <4> QED
        BY <4>1, <4>2, <4>3, Widened
    <3>5. read \in Seq(T)
      BY <3>4, ConcatProperties
    <3> QED
      BY <3>5 DEF T
  <2> HIDE DEF read
  <2> QED
    BY <2>5, <2>12, <2>13, ReadingSettles
<1> QED
  BY <1>3, StoppedIsOutside DEF handle_local_decl, Error

-----------------------------------------------------------------------------
(* The theorems.                                                           *)
LEMMA InitHolds ==
  ASSUME Init
  PROVE  IInv
<1>1. /\ DOMAIN p = Fields /\ p.state_stack = <<[kind |-> "top_level"]>>
      /\ p.definers = <<>> /\ p.scope_stack = <<>> /\ p.blocks = <<>> /\ p.aborted = FALSE
  BY DEF Init, Nothing, Fields
<1>2. EndsOnce(<<>>) /\ <<>> \in Seq(Seq(Insts))
  BY DEF EndsOnce, Jumps
<1>3. Outside(p)
  BY <1>1, <1>2 DEF Outside
<1>4. \E S : src \in Seq(S)
  <2>1. PICK first \in Tokens \cup {EOF} : src = <<first>>
    BY DEF Init
  <2>2. src \in Seq({first})
    BY <2>1
  <2> QED
    BY <2>2
<1> QED
  BY <1>3, <1>4 DEF IInv

LEMMA StepHolds ==
  ASSUME IInv, [Next]_vars
  PROVE  IInv'
<1>1. CASE p' = p /\ src' = src
  BY <1>1 DEF IInv
<1>2. parse_unit_end \/ sem_analyze \/ sem_analyze_end \/ UNCHANGED vars => p' = p /\ src' = src
  BY DEF parse_unit_end, sem_analyze, sem_analyze_end, vars
<1> QED
  BY <1>1, <1>2, TopLevelKeeps, FunctionKeeps, CompleteFunctionKeeps, BlockKeeps, BlockStmtKeeps,
     StmtKeeps, CompleteReturnKeeps, SemiKeeps, LocalDeclKeeps, IfKeeps, IfBodyKeeps, IfElseKeeps,
     CompleteIfElseKeeps, WhileKeeps, WhileBodyKeeps, CompleteWhileKeeps, ExprKeeps, BinaryKeeps,
     BinaryInfixKeeps, PrimaryKeeps, CompleteBinaryKeeps DEF Next

(* The copies stay in step, within a function and outside, whatever the    *)
(* text: parse_unit of parse.c.                                            *)
THEOREM ParserKept == Spec => []IInv
BY InitHolds, StepHolds, PTL DEF Spec

(* A value's definer names the instruction that made it, wherever the      *)
(* parser stops: what complete_binary looks up is there (parse.c:425).     *)
THEOREM DefinersStayInStep == Spec => []DefinersPointBack
<1>1. IInv => DefinersPointBack
  <2>1. PointBack(p) => DefinersPointBack
    BY DEF PointBack, DefinersPointBack
  <2>2. Outside(p) => PointBack(p)
    BY DEF Outside, PointBack
  <2> QED
    BY <2>1, <2>2 DEF IInv, InFunction, Ready, Built
<1> QED
  BY <1>1, ParserKept, PTL

(* Operands of two types are cast to the larger, and only they: no         *)
(* operator mixes types, and no cast makes a value smaller                 *)
(* (parse.c:444-467).                                                      *)
THEOREM TypesStayInStep == Spec => []TypesAgree
<1>1. Outside(p) => TypesAgree
  BY DEF Outside, TypesAgree
<1>2. ASSUME InFunction(p), NEW v \in DOMAIN p.definers
      PROVE  LET type(x) == p.definers[x].type
                 d == p.definers[v]
                 inst == Definition(p, v)
             IN /\ inst.kind \in ArithmeticKinds /\ OfTwoTypes(p.blocks[d.block], d.inst)
                     => \A x \in ToSet(inst.ins) : type(x) = type(v)
                /\ inst.kind = "CAST" => Size[type(v)] >= Size[type(inst.ins[1])]
  <2> DEFINE d == p.definers[v]
             code == p.blocks[d.block]
  <2>1. Agrees(p, code, d.inst, d.type)
    BY <1>2 DEF InFunction, Ready, Built, Agreeing
  <2>2. Definition(p, v) = code[d.inst]
    BY DEF Definition
  <2> HIDE DEF code
  <2> QED
    BY <2>1, <2>2 DEF Agrees, ToSet, code
<1>3. InFunction(p) => TypesAgree
  BY <1>2 DEF TypesAgree
<1>4. IInv => TypesAgree
  BY <1>1, <1>3 DEF IInv
<1> QED
  BY <1>4, ParserKept, PTL

(* A block has one jump or return, at its end, from the moment the parser  *)
(* leaves it or the state that waits for it is handled.                    *)
THEOREM BlocksStayInStep == Spec => []BlocksEndOnce
<1>1. Pending = NamedBy(p.state_stack)
  BY DEF Pending, NamedBy
<1>2. ASSUME InFunction(p)
      PROVE  BlocksEndOnce
  <2>1. /\ EndsOnce(p.blocks) /\ DOMAIN p.blocks \ Jumps(p.blocks) = Pending \cup {cur_block(p)}
    BY <1>1, <1>2 DEF InFunction, Ready, Built, Held, Unended
  <2>2. Jumps(p.blocks) \subseteq DOMAIN p.blocks
    BY DEF Jumps
  <2>3. Jumps(p.blocks) = DOMAIN p.blocks \ (Pending \cup {cur_block(p)})
    BY <2>1, <2>2
  <2> QED
    BY <2>1, <2>3 DEF EndsOnce, BlocksEndOnce
<1>3. ASSUME Outside(p)
      PROVE  BlocksEndOnce
  <2>1. Pending = {}
    <3>1. \A i \in DOMAIN p.state_stack : p.state_stack[i].kind \in {"top_level", "function"}
      BY <1>3 DEF Outside
    <3> QED
      BY <3>1, NothingNamed DEF Pending
  <2>2. EndsOnce(p.blocks) /\ (p.blocks # <<>> => Unended(p.blocks) = {cur_block(p)})
    BY <1>3 DEF Outside
  <2>3. Jumps(p.blocks) \subseteq DOMAIN p.blocks
    BY DEF Jumps
  <2>4. p.blocks # <<>> => Jumps(p.blocks) = DOMAIN p.blocks \ (Pending \cup {cur_block(p)})
    BY <2>1, <2>2, <2>3 DEF Unended
  <2> QED
    BY <2>2, <2>4 DEF EndsOnce, BlocksEndOnce
<1>4. IInv => BlocksEndOnce
  BY <1>2, <1>3 DEF IInv
<1> QED
  BY <1>4, ParserKept, PTL

(* There are as many scopes as open blocks: parse.c:88 finds one, and the  *)
(* assertion at parse.c:165 finds none.                                    *)
THEOREM ScopesStayInStep == Spec => []ScopesAreOpenBlocks
<1>1. InFunction(p) => ScopesAreOpenBlocks
  <2>1. InFunction(p) => Len(p.scope_stack) = OpenBlocks(p.state_stack) + 0
                         /\ p.scope_stack \in Seq(Scopes)
    BY DEF InFunction, Ready, Built, Typed, Held
  <2>2. InFunction(p) => p.state_stack \in Seq(States)
    BY DEF InFunction, Ready, Held, Waiting
  <2>3. [kind |-> "expr"] \in States
    BY DEF States
  <2>4. InFunction(p) => OpenBlocks(p.state_stack) \in Nat
    BY <2>2, <2>3, PushOpens
  <2>5. InFunction(p) => Len(p.scope_stack) = OpenBlocks(p.state_stack)
    BY <2>1, <2>4
  <2> QED
    BY <2>5 DEF OpenBlocks, ScopesAreOpenBlocks
<1>2. Outside(p) => ScopesAreOpenBlocks
  <2>1. Outside(p) => {i \in DOMAIN p.state_stack : p.state_stack[i].kind = "block_stmt"} = {}
    <3>1. Outside(p) => \A i \in DOMAIN p.state_stack :
                          p.state_stack[i].kind \in {"top_level", "function"}
      BY DEF Outside
    <3> QED
      BY <3>1
  <2>2. Outside(p) => Len(p.scope_stack) = 0
    BY DEF Outside
  <2> QED
    BY <2>1, <2>2, FS_EmptySet DEF ScopesAreOpenBlocks
<1>3. IInv => ScopesAreOpenBlocks
  BY <1>1, <1>2 DEF IInv
<1> QED
  BY <1>3, ParserKept, PTL

-----------------------------------------------------------------------------
(***************************************************************************)
(* What sem_analyze leaves of a function, whatever the text: every jump    *)
(* the parser made goes to a block of its function, the search from the    *)
(* first block finds what is reached, and after the other blocks are       *)
(* unlinked the jumps of those that stay are among themselves.             *)
(***************************************************************************)

(* The inductive invariant.  The parser q has made jumps to blocks it has, *)
(* and the blocks its states will jump to are among them.                  *)
JumpKinds == {"GOTO", "BRANCH"}

\* The blocks that a state will make a jump to.
Heads(s) == CASE s.kind = "if_else"        -> {s.body_head}
              [] s.kind = "while_body"     -> {s.head_head}
              [] s.kind = "complete_while" -> {s.head_head, s.body_head}
              [] OTHER -> {}

GoTo(S, n) == \A inst \in S : inst.kind \in JumpKinds => inst.data \in Seq(1..n)

Headed(T, n) == \A s \in T : Heads(s) \subseteq 1..n

Aimed(q) ==
  /\ DOMAIN q = Fields
  /\ \E S : q.blocks \in Seq(Seq(S)) /\ GoTo(S, Len(q.blocks))
  /\ \E T : q.state_stack \in Seq(T) /\ Headed(T, Len(q.blocks))

\* A function as the parser leaves it.
Whole(cfg) ==
  /\ cfg \in Seq(Seq(Insts)) /\ cfg # <<>>
  /\ Unended(cfg) = {Len(cfg)}
  /\ \A b \in DOMAIN cfg : \A i \in DOMAIN cfg[b] :
       cfg[b][i].kind \in JumpKinds => cfg[b][i].data \in Seq(1..Len(cfg))

\* A function as sem_analyze leaves it.
Trimmed(cfg) ==
  /\ \A b \in DOMAIN cfg : sem_compute_successors(cfg[b]) \subseteq DOMAIN cfg
  /\ DOMAIN cfg = Reachable(cfg)
  /\ DOMAIN cfg \ Jumps(cfg) \subseteq {Len(cfg)}

UnitInv ==
  /\ DOMAIN unit = {"funcs", "analyzed", "success"}
  /\ \E F : unit.funcs \in Seq(F)
  /\ unit.analyzed \in 0..Len(unit.funcs)
  /\ stage = "parsing" => unit.analyzed = 0
  /\ \A k \in (unit.analyzed + 1)..Len(unit.funcs) : Whole(unit.funcs[k])
  /\ \A k \in 1..unit.analyzed : Trimmed(unit.funcs[k])

AInv == IInv /\ Aimed(p) /\ UnitInv

-----------------------------------------------------------------------------
(* What handlers do to the blocks and the states.                          *)
LEMMA AimDependsOn ==
  ASSUME NEW q, Aimed(q), NEW r, DOMAIN r = Fields, r.blocks = q.blocks,
         r.state_stack = q.state_stack
  PROVE  Aimed(r)
BY DEF Aimed

LEMMA StatesPushed ==
  ASSUME NEW q, Aimed(q), NEW U, NEW states \in Seq(U), Headed(U, Len(q.blocks))
  PROVE  Aimed(Push(q, states))
<1> DEFINE r == Push(q, states)
<1>1. PICK T : q.state_stack \in Seq(T) /\ Headed(T, Len(q.blocks))
  BY DEF Aimed
<1>2. DOMAIN r = Fields /\ r.blocks = q.blocks /\ r.state_stack = q.state_stack \o states
  BY DEF Aimed, Push, Fields
<1>3. q.state_stack \in Seq(T \cup U) /\ states \in Seq(T \cup U)
  BY <1>1, SeqMonotonic
<1>4. r.state_stack \in Seq(T \cup U) /\ Headed(T \cup U, Len(r.blocks))
  BY <1>1, <1>2, <1>3, ConcatProperties DEF Headed
<1> HIDE DEF r
<1>5. Aimed(r)
  BY <1>2, <1>4 DEF Aimed
<1> QED
  BY <1>5 DEF r

\* More blocks: what went to one of them still does.
LEMMA MoreBlocks ==
  ASSUME NEW n \in Nat, NEW m \in Nat, n <= m
  PROVE  /\ \A S : GoTo(S, n) => GoTo(S, m)
         /\ \A T : Headed(T, n) => Headed(T, m)
<1>1. 1..n \subseteq 1..m
  OBVIOUS
<1>2. Seq(1..n) \subseteq Seq(1..m)
  BY <1>1, SeqMonotonic
<1> QED
  BY <1>1, <1>2 DEF GoTo, Headed

LEMMA BlockOpened ==
  ASSUME NEW q, Aimed(q)
  PROVE  LET r == new_block(q) IN
         /\ Aimed(r) /\ cur_block(q) \in Nat /\ cur_block(r) = cur_block(q) + 1
         /\ r.state_stack = q.state_stack
<1> DEFINE r == new_block(q)
           n == Len(q.blocks)
<1>1. PICK S : q.blocks \in Seq(Seq(S)) /\ GoTo(S, n)
  BY DEF Aimed
<1>2. PICK T : q.state_stack \in Seq(T) /\ Headed(T, n)
  BY DEF Aimed
<1>3. /\ DOMAIN r = Fields /\ r.blocks = Append(q.blocks, <<>>)
      /\ r.state_stack = q.state_stack
  BY DEF Aimed, new_block, Fields
<1>4. <<>> \in Seq(S) /\ n \in Nat
  BY <1>1
<1>5. r.blocks \in Seq(Seq(S)) /\ Len(r.blocks) = n + 1
  BY <1>1, <1>3, <1>4, AppendProperties
<1> HIDE DEF r
<1>6. GoTo(S, n + 1) /\ Headed(T, n + 1)
  BY <1>1, <1>2, <1>4, MoreBlocks
<1>7. Aimed(r)
  BY <1>2, <1>3, <1>5, <1>6 DEF Aimed
<1> QED
  BY <1>3, <1>4, <1>5, <1>7 DEF r, cur_block

\* An instruction is added to a block; if it jumps, to a block of the function.
LEMMA InstAimed ==
  ASSUME NEW q, Aimed(q), NEW b, NEW kind, NEW type, NEW num_ins, NEW data,
         kind \in JumpKinds => data \in Seq(1..Len(q.blocks))
  PROVE  LET r == make_inst_in_block(q, b, kind, type, num_ins, data) IN
         Aimed(r) /\ cur_block(r) = cur_block(q) /\ r.state_stack = q.state_stack
<1> DEFINE left == Len(q.value_stack) - num_ins
           out == IF type = Void THEN 0 ELSE Len(q.definers) + 1
           inst == [kind |-> kind, out |-> out, data |-> data,
                    ins |-> SubSeq(q.value_stack, left + 1, Len(q.value_stack))]
           made == [q EXCEPT !.blocks[b] = Append(@, inst),
                             !.value_stack = SubSeq(@, 1, left)]
           definer == [block |-> b, inst |-> Len(q.blocks[b]) + 1, type |-> type]
           pushed == [push_value(made, out) EXCEPT !.definers = Append(@, definer)]
           r == make_inst_in_block(q, b, kind, type, num_ins, data)
           new == [q.blocks EXCEPT ![b] = Append(@, inst)]
<1>1. r \in {[q EXCEPT !.aborted = TRUE], made, pushed}
  BY Zenon DEF make_inst_in_block
<1>2. PICK S : q.blocks \in Seq(Seq(S)) /\ GoTo(S, Len(q.blocks))
  BY DEF Aimed
<1>3. inst.kind = kind /\ inst.data = data
  OBVIOUS
<1>4. DOMAIN q = Fields
  BY DEF Aimed
<1> HIDE DEF inst, out, left, definer
<1>5. /\ DOMAIN made = Fields /\ made.blocks = new /\ made.state_stack = q.state_stack
  BY <1>4 DEF Fields
<1>6. /\ DOMAIN pushed = Fields /\ pushed.blocks = new /\ pushed.state_stack = q.state_stack
  BY <1>4 DEF Fields, push_value
<1>7. /\ new \in Seq(Seq(S \cup {inst})) /\ Len(new) = Len(q.blocks)
      /\ GoTo(S \cup {inst}, Len(q.blocks))
  <2> DEFINE S1 == S \cup {inst}
  <2>1. Seq(S) \subseteq Seq(S1)
    BY SeqMonotonic
  <2>2. q.blocks \in Seq(Seq(S1))
    BY <1>2, <2>1, SeqMonotonic
  <2>3. b \in DOMAIN q.blocks => q.blocks[b] \in Seq(S1)
    BY <2>2
  <2>4. b \in DOMAIN q.blocks => Append(q.blocks[b], inst) \in Seq(S1)
    BY <2>3, AppendProperties
  <2>5. new \in Seq(Seq(S1)) /\ Len(new) = Len(q.blocks)
    <3>1. CASE b \in DOMAIN q.blocks
      BY <2>2, <2>4, <3>1, ExceptSeq
    <3>2. CASE b \notin DOMAIN q.blocks
      <4>1. new = q.blocks
        BY <2>2, <3>2
      <4> QED
        BY <2>2, <4>1
    <3> QED
      BY <3>1, <3>2
  <2>6. GoTo(S1, Len(q.blocks))
    BY <1>2, <1>3 DEF GoTo
  <2> QED
    BY <2>5, <2>6
<1>8. PICK T : q.state_stack \in Seq(T) /\ Headed(T, Len(q.blocks))
  BY DEF Aimed
<1>9. \A s : DOMAIN s = Fields /\ s.blocks = new /\ s.state_stack = q.state_stack
             => Aimed(s) /\ Len(s.blocks) = Len(q.blocks)
  <2> HIDE DEF new
  <2> QED
    BY <1>7, <1>8 DEF Aimed
<1>10. LET s == [q EXCEPT !.aborted = TRUE] IN
       Aimed(s) /\ s.blocks = q.blocks /\ s.state_stack = q.state_stack
  <2> DEFINE s == [q EXCEPT !.aborted = TRUE]
  <2>1. DOMAIN s = Fields /\ s.blocks = q.blocks /\ s.state_stack = q.state_stack
    BY <1>4 DEF Fields
  <2> HIDE DEF s
  <2>2. Aimed(s)
    BY <2>1, AimDependsOn
  <2> QED
    BY <2>1, <2>2 DEF s
<1>11. Aimed(made) /\ Len(made.blocks) = Len(q.blocks)
  BY <1>5, <1>9
<1>12. Aimed(pushed) /\ Len(pushed.blocks) = Len(q.blocks)
  BY <1>6, <1>9
<1> HIDE DEF made, pushed, r
<1>13. Aimed(r) /\ Len(r.blocks) = Len(q.blocks) /\ r.state_stack = q.state_stack
  BY <1>1, <1>5, <1>6, <1>10, <1>11, <1>12
<1> QED
  BY <1>13 DEF r, cur_block

LEMMA GotoAimed ==
  ASSUME NEW q, Aimed(q), NEW from, NEW to \in 1..cur_block(q)
  PROVE  LET r == make_goto(q, from, to) IN
         Aimed(r) /\ cur_block(r) = cur_block(q) /\ r.state_stack = q.state_stack
<1> DEFINE data == <<to>>
           r == make_inst_in_block(q, from, "GOTO", Void, 0, data)
<1>1. data \in Seq(1..Len(q.blocks))
  BY DEF cur_block
<1>2. r = make_goto(q, from, to)
  BY DEF make_goto
<1> HIDE DEF data
<1>3. Aimed(r) /\ cur_block(r) = cur_block(q) /\ r.state_stack = q.state_stack
  BY <1>1, InstAimed
<1> HIDE DEF r
<1> QED
  BY <1>2, <1>3

LEMMA ValuesAimed ==
  ASSUME NEW q, Aimed(q), NEW v
  PROVE  /\ Aimed(push_value(q, v)) /\ cur_block(push_value(q, v)) = cur_block(q)
         /\ push_value(q, v).state_stack = q.state_stack
         /\ Aimed(pop_value(q)) /\ cur_block(pop_value(q)) = cur_block(q)
         /\ pop_value(q).state_stack = q.state_stack
<1>1. /\ DOMAIN push_value(q, v) = Fields /\ push_value(q, v).blocks = q.blocks
      /\ push_value(q, v).state_stack = q.state_stack
  BY DEF Aimed, Fields, push_value
<1>2. /\ DOMAIN pop_value(q) = Fields /\ pop_value(q).blocks = q.blocks
      /\ pop_value(q).state_stack = q.state_stack
  BY DEF Aimed, Fields, pop_value
<1> QED
  BY <1>1, <1>2, AimDependsOn DEF cur_block

LEMMA ScopesAimed ==
  ASSUME NEW q, Aimed(q), NEW name, NEW v
  PROVE  Aimed(push_scope(q)) /\ Aimed(pop_scope(q)) /\ Aimed(scope_insert(q, name, v))
<1>1. /\ DOMAIN push_scope(q) = Fields /\ push_scope(q).blocks = q.blocks
      /\ push_scope(q).state_stack = q.state_stack
  BY DEF Aimed, Fields, push_scope
<1>2. /\ DOMAIN pop_scope(q) = Fields /\ pop_scope(q).blocks = q.blocks
      /\ pop_scope(q).state_stack = q.state_stack
  BY DEF Aimed, Fields, pop_scope
<1>3. /\ DOMAIN scope_insert(q, name, v) = Fields /\ scope_insert(q, name, v).blocks = q.blocks
      /\ scope_insert(q, name, v).state_stack = q.state_stack
  BY DEF Aimed, Fields, scope_insert
<1> QED
  BY <1>1, <1>2, <1>3, AimDependsOn

LEMMA BranchAimed ==
  ASSUME NEW q, Aimed(q), NEW condition, NEW from,
         NEW true_block \in 1..cur_block(q), NEW false_block \in 1..cur_block(q)
  PROVE  Aimed(make_branch(q, condition, from, true_block, false_block))
<1> DEFINE s == push_value(q, condition)
<1>1. Aimed(s) /\ cur_block(s) = cur_block(q)
  BY ValuesAimed
<1>2. <<true_block, false_block>> \in Seq(1..Len(s.blocks))
  BY <1>1 DEF cur_block
<1> HIDE DEF s
<1>3. Aimed(make_inst_in_block(s, from, "BRANCH", Void, 1, <<true_block, false_block>>))
  BY <1>1, <1>2, InstAimed
<1> QED
  BY <1>3 DEF make_branch, s

\* An instruction that is no jump.
LEMMA ValueAimed ==
  ASSUME NEW q, Aimed(q), NEW kind, kind \notin JumpKinds, NEW type, NEW num_ins, NEW data
  PROVE  LET r == make_inst(q, kind, type, num_ins, data) IN
         Aimed(r) /\ cur_block(r) = cur_block(q) /\ r.state_stack = q.state_stack
BY InstAimed DEF make_inst

LEMMA PoppedAimed ==
  ASSUME Aimed(p), NEW kind, At(kind)
  PROVE  /\ Aimed(popped) /\ cur_block(popped) = cur_block(p)
         /\ Heads(state) \subseteq 1..cur_block(p) /\ state.kind = kind
<1> DEFINE stack == p.state_stack
<1>1. PICK T : stack \in Seq(T) /\ Headed(T, Len(p.blocks))
  BY DEF Aimed
<1>2. stack # <<>> /\ state = Last(stack) /\ state.kind = kind
  BY DEF At, state
<1>3. DOMAIN popped = Fields /\ popped.blocks = p.blocks /\ popped.state_stack = Front(stack)
  BY DEF Aimed, popped, Fields
<1>4. Front(stack) \in Seq(T) /\ Last(stack) \in T
  <2>1. Len(stack) \in Nat \ {0} /\ Last(stack) = stack[Len(stack)]
    BY <1>1, <1>2, EmptySeq DEF Last
  <2>2. Front(stack) = SubSeq(stack, 1, Len(stack) - 1)
    BY DEF Front
  <2>3. \A i \in 1..(Len(stack) - 1) : stack[i] \in T
    BY <1>1, <2>1
  <2> QED
    BY <1>1, <2>1, <2>2, <2>3, SubSeqProperties
<1>5. Aimed(popped)
  BY <1>1, <1>3, <1>4 DEF Aimed
<1> QED
  BY <1>1, <1>2, <1>3, <1>4, <1>5 DEF Headed, cur_block

LEMMA NothingAimed == Aimed(Nothing)
<1>1. DOMAIN Nothing = Fields /\ Nothing.blocks = <<>> /\ Nothing.state_stack = <<>>
  BY DEF Nothing, Fields
<1>2. GoTo({}, Len(<<>>)) /\ Headed({}, Len(<<>>))
  BY DEF GoTo, Headed
<1>3. <<>> \in Seq(Seq({})) /\ <<>> \in Seq({})
  OBVIOUS
<1> QED
  BY <1>1, <1>2, <1>3 DEF Aimed

-----------------------------------------------------------------------------
(* Where handlers end: in one state or another, or by stopping.            *)
Ends(q) == \/ \E ts : Reading(ts, q)
           \/ Keeping(q)
           \/ \E how : Stop(how)

LEMMA EndsAimed ==
  ASSUME NEW q, Aimed(q), Ends(q)
  PROVE  Aimed(p')
<1>1. (\E ts : Reading(ts, q)) => p' = q
  BY DEF Reading
<1>2. Keeping(q) => p' = q \/ p' = Nothing
  BY DEF Keeping, Stop
<1>3. (\E how : Stop(how)) => p' = Nothing
  BY DEF Stop
<1> QED
  BY <1>1, <1>2, <1>3, NothingAimed DEF Ends

\* The states that name no block to jump to.
Headless(s) == Heads(s) = {}

LEMMA HeadlessStates ==
  /\ \A s : s.kind \notin {"if_else", "while_body", "complete_while"} => Headless(s)
  /\ \A n : Headless(Binary(n)) /\ Headless(Infix(n))
BY DEF Headless, Heads, Binary, Infix

LEMMA HeadlessPushed ==
  ASSUME NEW q, Aimed(q), NEW x, Headless(x), NEW y, Headless(y), NEW z, Headless(z)
  PROVE  Aimed(Push(q, <<x>>)) /\ Aimed(Push(q, <<x, y>>)) /\ Aimed(Push(q, <<x, y, z>>))
<1>1. /\ <<x>> \in Seq({x, y, z}) /\ <<x, y>> \in Seq({x, y, z})
      /\ <<x, y, z>> \in Seq({x, y, z})
  OBVIOUS
<1>2. Headed({x, y, z}, Len(q.blocks))
  BY DEF Headed, Headless
<1> QED
  BY <1>1, <1>2, StatesPushed

\* The first state names blocks of q, the second none.
LEMMA HeadedPushed ==
  ASSUME NEW q, Aimed(q), NEW x, Heads(x) \subseteq 1..cur_block(q), NEW y, Headless(y)
  PROVE  Aimed(Push(q, <<x, y>>))
<1>1. <<x, y>> \in Seq({x, y})
  OBVIOUS
<1>2. Headed({x, y}, Len(q.blocks))
  BY DEF Headed, Headless, cur_block
<1> QED
  BY <1>1, <1>2, StatesPushed

-----------------------------------------------------------------------------
(* One lemma for each kind of handler.                                     *)
ExprHandlers == \/ handle_expr \/ handle_binary \/ handle_binary_infix \/ handle_primary
                \/ handle_complete_binary

StmtHandlers == \/ handle_block \/ handle_block_stmt \/ handle_stmt \/ handle_complete_return
                \/ handle_semi \/ handle_local_decl

FlowHandlers == \/ handle_if \/ handle_if_body \/ handle_if_else \/ handle_complete_if_else
                \/ handle_while \/ handle_while_body \/ handle_complete_while

FuncHandlers == handle_top_level \/ handle_function \/ handle_complete_function

LEMMA IsStop == Error => \A q : Ends(q)
BY DEF Error, Ends

LEMMA BinariesAimed ==
  ASSUME NEW q, Aimed(q), NEW op, NEW left, NEW right
  PROVE  /\ op \in {"*", "/", "+", "-"} => Aimed(complete_arithmetic(q, op, left, right))
         /\ Aimed(complete_assignment(q, left, right))
<1>1. ASSUME op \in {"*", "/", "+", "-"}
      PROVE  Aimed(complete_arithmetic(q, op, left, right))
  <2> DEFINE type(v) == q.definers[v].type
             larger == larger_type(type(left), type(right))
             Cast(r, v) == IF type(v) = larger THEN push_value(r, v)
                           ELSE make_inst(push_value(r, v), "CAST", larger, 1, <<>>)
             kind == bin_kind(op)
  <2>1. kind \notin JumpKinds
    BY <1>1 DEF bin_kind, JumpKinds
  <2>2. "CAST" \notin JumpKinds
    BY DEF JumpKinds
  <2>3. \A t, n : Aimed(make_inst(q, kind, t, n, <<>>))
    BY <2>1, ValueAimed
  <2>4. ASSUME NEW r, Aimed(r), NEW v
        PROVE  Aimed(Cast(r, v))
    <3>1. Aimed(push_value(r, v))
      BY <2>4, ValuesAimed
    <3>2. \A t, n : Aimed(make_inst(push_value(r, v), "CAST", t, n, <<>>))
      BY <2>2, <3>1, ValueAimed
    <3> QED
      BY <3>1, <3>2
  <2>5. Aimed(Cast(Cast(q, left), right))
    BY <2>4
  <2>6. \A t, n : Aimed(make_inst(Cast(Cast(q, left), right), kind, t, n, <<>>))
    <3> HIDE DEF Cast
    <3> QED
      BY <2>1, <2>5, ValueAimed
  <2>7. complete_arithmetic(q, op, left, right)
        \in {make_inst(q, kind, type(left), 2, <<>>),
             make_inst(Cast(Cast(q, left), right), kind, larger, 2, <<>>)}
    BY Zenon DEF complete_arithmetic
  <2> HIDE DEF Cast, larger, type, kind
  <2> QED
    BY <2>3, <2>6, <2>7
<1>2. Aimed(complete_assignment(q, left, right))
  <2> DEFINE address == Definition(q, left).ins[1]
             s == push_value(push_value(q, address), right)
             stored == make_inst(s, "STORE", Void, 2, <<>>)
  <2>1. Aimed(s)
    BY ValuesAimed
  <2>2. "STORE" \notin JumpKinds
    BY DEF JumpKinds
  <2> HIDE DEF s
  <2>3. Aimed(stored)
    BY <2>1, <2>2, ValueAimed
  <2>4. complete_assignment(q, left, right) = push_value(stored, right)
    BY Zenon DEF complete_assignment, s
  <2> HIDE DEF stored
  <2> QED
    BY <2>3, <2>4, ValuesAimed
<1> QED
  BY <1>1, <1>2

\* An operator is done, one way or another.
LEMMA BinaryEnds ==
  ASSUME IInv, handle_complete_binary
  PROVE  LET right == value(popped)
             left  == value(pop_value(popped))
             q     == pop_value(pop_value(popped))
         IN \/ /\ state.op \in {"*", "/", "+", "-"}
               /\ Keeping(complete_arithmetic(q, state.op, left, right))
            \/ Keeping(complete_assignment(q, left, right))
            \/ Error \/ Stop("aborted")
<1> DEFINE right == value(popped)
           left  == value(pop_value(popped))
           q     == pop_value(pop_value(popped))
<1>1. /\ state \in States /\ state.kind = "complete_binary"
      /\ popped.value_stack = p.value_stack /\ Typed(popped)
  BY PoppedIsReady DEF handle_complete_binary, InnerKinds, ExprKinds, Ready, Built
<1>2. state.op \in {"*", "/", "+", "-", "="}
  BY <1>1 DEF States
<1>3. Len(p.value_stack) \in Nat
  BY <1>1 DEF Typed
<1>4. CASE Len(p.value_stack) < 2
  <2>1. ~(Len(p.value_stack) >= 2)
    BY <1>3, <1>4
  <2> QED
    BY <1>4, <2>1, Zenon DEF handle_complete_binary
<1>5. CASE Len(p.value_stack) >= 2
  <2>1. ~(Len(p.value_stack) < 2)
    BY <1>3, <1>5
  <2>2. \/ state.op # "=" /\ Keeping(complete_arithmetic(q, state.op, left, right))
        \/ Keeping(complete_assignment(q, left, right))
        \/ Error
    BY <1>5, <2>1, Zenon DEF handle_complete_binary
  <2> HIDE DEF q, left, right
  <2>3. state.op # "=" => state.op \in {"*", "/", "+", "-"}
    BY <1>2
  <2>4. \/ /\ state.op \in {"*", "/", "+", "-"}
           /\ Keeping(complete_arithmetic(q, state.op, left, right))
        \/ Keeping(complete_assignment(q, left, right))
        \/ Error
    BY <2>2, <2>3, Zenon
  <2> QED
    BY <2>4, Zenon DEF q, left, right
<1> QED
  BY <1>3, <1>4, <1>5

LEMMA ExprAimed ==
  ASSUME IInv, Aimed(p), ExprHandlers
  PROVE  Aimed(p')
<1>1. CASE handle_expr
  <2>1. Aimed(popped)
    BY <1>1, PoppedAimed DEF handle_expr
  <2>2. Aimed(Push(popped, <<Binary(0)>>))
    BY <2>1, HeadlessStates, HeadlessPushed
  <2>3. Ends(Push(popped, <<Binary(0)>>))
    BY <1>1 DEF handle_expr, Ends
  <2> QED
    BY <2>2, <2>3, EndsAimed
<1>2. CASE handle_binary
  <2> DEFINE x == Infix(state.prec)
             y == [kind |-> "primary"]
  <2>1. Aimed(popped)
    BY <1>2, PoppedAimed DEF handle_binary
  <2>2. Headless(x) /\ Headless(y)
    BY HeadlessStates
  <2> HIDE DEF x, y
  <2>3. Aimed(Push(popped, <<x, y>>))
    BY <2>1, <2>2, HeadlessPushed
  <2>4. Ends(Push(popped, <<x, y>>))
    BY <1>2 DEF handle_binary, Ends, x, y
  <2> QED
    BY <2>3, <2>4, EndsAimed
<1>3. CASE handle_binary_infix
  <2> DEFINE x == Infix(state.prec)
             y == [kind |-> "complete_binary", op |-> peek]
             z == Binary(bin_prec(peek, TRUE))
  <2>1. Aimed(popped)
    BY <1>3, PoppedAimed DEF handle_binary_infix
  <2>2. Headless(x) /\ Headless(y) /\ Headless(z)
    BY HeadlessStates
  <2>3. Ends(Push(popped, <<x, y, z>>)) \/ Ends(popped)
    BY <1>3 DEF handle_binary_infix, Ends
  <2> HIDE DEF x, y, z
  <2>4. Aimed(Push(popped, <<x, y, z>>))
    BY <2>1, <2>2, HeadlessPushed
  <2> QED
    BY <2>1, <2>3, <2>4, EndsAimed
<1>4. CASE handle_primary
  <2> DEFINE v == scope_find(p, peek)
             q == make_inst(popped, "INT_CONST", "int", 0, Len(src))
             r == make_inst(push_value(popped, v), "LOAD", p.definers[v].type, 1, <<>>)
  <2>1. Aimed(popped)
    BY <1>4, PoppedAimed DEF handle_primary
  <2>2. "INT_CONST" \notin JumpKinds /\ "LOAD" \notin JumpKinds
    BY DEF JumpKinds
  <2>3. Aimed(push_value(popped, v))
    BY <2>1, ValuesAimed
  <2>4. Aimed(q) /\ Aimed(r)
    <3> HIDE DEF v
    <3> QED
      BY <2>1, <2>2, <2>3, ValueAimed
  <2>5. Ends(q) \/ Ends(r)
    <3>1. Reading(<<>>, q) \/ Reading(<<>>, r) \/ Error
      BY <1>4 DEF handle_primary
    <3> QED
      BY <3>1 DEF Ends, Error
  <2> HIDE DEF q, r, v
  <2> QED
    BY <2>4, <2>5, EndsAimed
<1>5. CASE handle_complete_binary
  <2> DEFINE right == value(popped)
             left  == value(pop_value(popped))
             q     == pop_value(pop_value(popped))
             r     == complete_arithmetic(q, state.op, left, right)
             s     == complete_assignment(q, left, right)
  <2>1. Aimed(popped)
    BY <1>5, PoppedAimed DEF handle_complete_binary
  <2>2. Aimed(q)
    BY <2>1, ValuesAimed
  <2>3. Aimed(s) /\ (state.op \in {"*", "/", "+", "-"} => Aimed(r))
    <3> HIDE DEF q, left, right
    <3> QED
      BY <2>2, BinariesAimed
  <2>4. \/ state.op \in {"*", "/", "+", "-"} /\ Keeping(r)
        \/ Keeping(s)
        \/ Error \/ Stop("aborted")
    BY <1>5, BinaryEnds
  <2>5. Ends(s) \/ (Ends(r) /\ state.op \in {"*", "/", "+", "-"})
    <3> HIDE DEF r, s
    <3> QED
      BY <2>4 DEF Ends, Error
  <2> HIDE DEF r, s
  <2> QED
    BY <2>3, <2>5, EndsAimed
<1> QED
  BY <1>1, <1>2, <1>3, <1>4, <1>5 DEF ExprHandlers

LEMMA StmtAimed ==
  ASSUME Aimed(p), StmtHandlers
  PROVE  Aimed(p')
<1> DEFINE Block == [kind |-> "block"]
           BlockStmt == [kind |-> "block_stmt"]
           Stmt(d) == [kind |-> "stmt", dependent |-> d]
           LocalDecl == [kind |-> "local_decl"]
           If == [kind |-> "if"]
           While == [kind |-> "while"]
           CompleteReturn == [kind |-> "complete_return"]
           Semi == [kind |-> "semi"]
           Expr == [kind |-> "expr"]
<1>1. /\ Headless(Block) /\ Headless(BlockStmt) /\ \A d : Headless(Stmt(d))
      /\ Headless(LocalDecl) /\ Headless(If) /\ Headless(While)
      /\ Headless(CompleteReturn) /\ Headless(Semi) /\ Headless(Expr)
  BY HeadlessStates
<1>2. "RETURN" \notin JumpKinds /\ "ALLOCA" \notin JumpKinds
  BY DEF JumpKinds
<1>3. Aimed(popped)
  BY PoppedAimed DEF StmtHandlers, handle_block, handle_block_stmt, handle_stmt,
     handle_complete_return, handle_semi, handle_local_decl
<1>4. CASE handle_block
  <2> DEFINE q == push_scope(Push(popped, <<BlockStmt>>))
  <2>1. Ends(q)
    BY <1>4 DEF handle_block, Ends, Error
  <2> HIDE DEF BlockStmt
  <2>2. Aimed(Push(popped, <<BlockStmt>>))
    BY <1>1, <1>3, HeadlessPushed
  <2>3. Aimed(q)
    BY <2>2, ScopesAimed
  <2> QED
    BY <2>1, <2>3, EndsAimed
<1>5. CASE handle_block_stmt
  <2> DEFINE q == Push(popped, <<BlockStmt, Stmt(FALSE)>>)
  <2>1. Ends(q) \/ Ends(pop_scope(popped))
    BY <1>5, Zenon DEF handle_block_stmt, Ends, Error
  <2> HIDE DEF BlockStmt, Stmt
  <2>2. Aimed(q)
    BY <1>1, <1>3, HeadlessPushed
  <2>3. Aimed(pop_scope(popped))
    BY <1>3, ScopesAimed
  <2> QED
    BY <2>1, <2>2, <2>3, EndsAimed
<1>6. CASE handle_stmt
  <2> DEFINE q == new_block(make_inst(popped, "RETURN", Void, 0, <<>>))
             r == Push(popped, <<CompleteReturn, Semi, Expr>>)
  <2>1. \/ Ends(q) \/ Ends(r) \/ Ends(Push(popped, <<Semi, Expr>>))
        \/ \E x \in {LocalDecl, Block, If, While} : Ends(Push(popped, <<x>>))
    <3>1. \/ Reading(<<";">>, q) \/ Reading(<<>>, r) \/ Keeping(Push(popped, <<Semi, Expr>>))
          \/ Keeping(Push(popped, <<LocalDecl>>)) \/ Keeping(Push(popped, <<Block>>))
          \/ Keeping(Push(popped, <<If>>)) \/ Keeping(Push(popped, <<While>>)) \/ Error
      BY <1>6, ZenonT(30) DEF handle_stmt
    <3> HIDE DEF q, r, LocalDecl, Block, If, While, CompleteReturn, Semi, Expr
    <3> QED
      BY <3>1, Zenon DEF Ends, Error
  <2> HIDE DEF LocalDecl, Block, If, While, CompleteReturn, Semi, Expr
  <2>2. Aimed(make_inst(popped, "RETURN", Void, 0, <<>>))
    BY <1>2, <1>3, ValueAimed
  <2>3. Aimed(q)
    BY <2>2, BlockOpened
  <2>4. /\ Aimed(r) /\ Aimed(Push(popped, <<Semi, Expr>>))
        /\ \A x \in {LocalDecl, Block, If, While} : Aimed(Push(popped, <<x>>))
    BY <1>1, <1>3, HeadlessPushed
  <2> HIDE DEF q, r
  <2> QED
    BY <2>1, <2>3, <2>4, EndsAimed
<1>7. CASE handle_complete_return
  <2> DEFINE q == new_block(make_inst(popped, "RETURN", Void, 1, <<>>))
  <2>1. Ends(q)
    BY <1>7 DEF handle_complete_return, Ends
  <2>2. Aimed(make_inst(popped, "RETURN", Void, 1, <<>>))
    BY <1>2, <1>3, ValueAimed
  <2>3. Aimed(q)
    BY <2>2, BlockOpened
  <2> QED
    BY <2>1, <2>3, EndsAimed
<1>8. CASE handle_semi
  <2>1. Ends(popped)
    BY <1>8 DEF handle_semi, Ends, Error
  <2> QED
    BY <1>3, <2>1, EndsAimed
<1>9. CASE handle_local_decl
  <2> DEFINE made(ts) == make_inst(popped, "ALLOCA", TypeTable[ts], 0, Len(src))
             q(ts, name) == scope_insert(pop_value(made(ts)), name, value(made(ts)))
  <2>1. (\E ts, name : Ends(q(ts, name))) \/ Ends(popped)
    BY <1>9, Zenon DEF handle_local_decl, Ends, Error
  <2>2. ASSUME NEW ts, NEW name
        PROVE  Aimed(q(ts, name))
    <3>1. Aimed(made(ts))
      BY <1>2, <1>3, ValueAimed
    <3> HIDE DEF made
    <3>2. Aimed(pop_value(made(ts)))
      BY <3>1, ValuesAimed
    <3> QED
      BY <3>2, ScopesAimed
  <2> HIDE DEF q
  <2> QED
    BY <1>3, <2>1, <2>2, EndsAimed
<1> QED
  BY <1>4, <1>5, <1>6, <1>7, <1>8, <1>9 DEF StmtHandlers

LEMMA FlowAimed ==
  ASSUME Aimed(p), FlowHandlers
  PROVE  Aimed(p')
<1> DEFINE q == new_block(popped)
           n == cur_block(p)
           Stmt == [kind |-> "stmt", dependent |-> TRUE]
           Expr == [kind |-> "expr"]
<1>1. Headless(Stmt) /\ Headless(Expr)
  BY HeadlessStates
<1>2. PICK kind : At(kind)
  BY DEF FlowHandlers, handle_if, handle_if_body, handle_if_else, handle_complete_if_else,
     handle_while, handle_while_body, handle_complete_while
<1>3. Aimed(popped) /\ cur_block(popped) = n /\ Heads(state) \subseteq 1..n
  BY <1>2, PoppedAimed
<1>4. Aimed(q) /\ n \in Nat /\ cur_block(q) = n + 1
  BY <1>3, BlockOpened
<1>5. Heads(state) \subseteq 1..(n + 1) /\ n + 1 \in 1..(n + 1)
  BY <1>3, <1>4
<1>6. /\ state.kind = "if_else" => Heads(state) = {state.body_head}
      /\ state.kind = "while_body" => Heads(state) = {state.head_head}
      /\ state.kind = "complete_while" => Heads(state) = {state.head_head, state.body_head}
  BY DEF Heads
<1>7. CASE handle_if
  <2> DEFINE x == [kind |-> "if_body"]
  <2>1. Ends(Push(popped, <<x, Expr>>))
    BY <1>7 DEF handle_if, Ends, Error
  <2>2. Headless(x)
    BY HeadlessStates
  <2> HIDE DEF x, Expr
  <2>3. Aimed(Push(popped, <<x, Expr>>))
    BY <1>1, <1>3, <2>2, HeadlessPushed
  <2> QED
    BY <2>1, <2>3, EndsAimed
<1>8. CASE handle_if_body
  <2> DEFINE r == pop_value(q)
             x == [kind |-> "if_else", condition |-> value(q), head_tail |-> n,
                   body_head |-> cur_block(q)]
             s == Push(r, <<x, Stmt>>)
  <2>1. Ends(s)
    BY <1>8, Zenon DEF handle_if_body, Ends, Error
  <2>2. Heads(x) = {cur_block(q)}
    BY DEF Heads
  <2> HIDE DEF x, Stmt, q
  <2>3. Aimed(r) /\ cur_block(r) = cur_block(q)
    BY <1>4, ValuesAimed
  <2>4. Heads(x) \subseteq 1..cur_block(r)
    BY <1>4, <1>5, <2>2, <2>3
  <2> HIDE DEF r
  <2>5. Aimed(s)
    BY <1>1, <2>3, <2>4, HeadedPushed
  <2> QED
    BY <2>1, <2>5, EndsAimed
<1>9. CASE handle_if_else
  <2> DEFINE Branch(r) == make_branch(r, state.condition, state.head_tail, state.body_head,
                                      cur_block(q))
             g == make_goto(q, n, cur_block(q))
             x == [kind |-> "complete_if_else", body_tail |-> n]
             s == Push(Branch(q), <<x, Stmt>>)
  <2>1. Ends(s) \/ Ends(Branch(g))
    BY <1>9, Zenon DEF handle_if_else, Ends
  <2>2. Headless(x)
    BY HeadlessStates
  <2>3. state.body_head \in 1..(n + 1)
    <3>1. state.kind = "if_else"
      BY <1>9 DEF handle_if_else, At, state
    <3> QED
      BY <1>5, <1>6, <3>1
  <2> HIDE DEF x, Stmt, q
  <2>4. Aimed(g) /\ cur_block(g) = n + 1
    BY <1>4, <1>5, GotoAimed
  <2> HIDE DEF g, n
  <2>5. Aimed(Branch(q)) /\ Aimed(Branch(g))
    BY <1>4, <1>5, <2>3, <2>4, BranchAimed
  <2> HIDE DEF Branch
  <2>6. Aimed(s)
    BY <1>1, <2>2, <2>5, HeadlessPushed
  <2> HIDE DEF s
  <2> QED
    BY <2>1, <2>5, <2>6, EndsAimed
<1>10. CASE handle_complete_if_else
  <2> DEFINE g == make_goto(q, state.body_tail, cur_block(q))
             r == make_goto(g, n, cur_block(q))
  <2>1. Ends(r)
    BY <1>10, Zenon DEF handle_complete_if_else, Ends
  <2> HIDE DEF q
  <2>2. Aimed(g) /\ cur_block(g) = n + 1
    BY <1>4, <1>5, GotoAimed
  <2> HIDE DEF g, n
  <2>3. Aimed(r)
    BY <1>4, <1>5, <2>2, GotoAimed
  <2> QED
    BY <2>1, <2>3, EndsAimed
<1>11. CASE handle_while
  <2> DEFINE g == make_goto(q, n, cur_block(q))
             x == [kind |-> "while_body", head_head |-> cur_block(q)]
             s == Push(g, <<x, Expr>>)
  <2>1. Ends(s)
    BY <1>11, Zenon DEF handle_while, Ends, Error
  <2>2. Heads(x) = {cur_block(q)}
    BY DEF Heads
  <2> HIDE DEF x, Expr, q
  <2>3. Aimed(g) /\ cur_block(g) = n + 1
    BY <1>4, <1>5, GotoAimed
  <2>4. Heads(x) \subseteq 1..cur_block(g)
    BY <1>4, <1>5, <2>2, <2>3
  <2> HIDE DEF g
  <2>5. Aimed(s)
    BY <1>1, <2>3, <2>4, HeadedPushed
  <2> QED
    BY <2>1, <2>5, EndsAimed
<1>12. CASE handle_while_body
  <2> DEFINE r == pop_value(q)
             x == [kind |-> "complete_while", condition |-> value(q),
                   head_head |-> state.head_head, head_tail |-> n, body_head |-> cur_block(q)]
             s == Push(r, <<x, Stmt>>)
  <2>1. Ends(s)
    BY <1>12, Zenon DEF handle_while_body, Ends, Error
  <2>2. Heads(x) = {state.head_head, cur_block(q)}
    BY DEF Heads
  <2>3. state.head_head \in 1..(n + 1)
    <3>1. state.kind = "while_body"
      BY <1>12 DEF handle_while_body, At, state
    <3> QED
      BY <1>5, <1>6, <3>1
  <2> HIDE DEF x, Stmt, q
  <2>4. Aimed(r) /\ cur_block(r) = cur_block(q)
    BY <1>4, ValuesAimed
  <2>5. Heads(x) \subseteq 1..cur_block(r)
    BY <1>4, <1>5, <2>2, <2>3, <2>4
  <2> HIDE DEF r
  <2>6. Aimed(s)
    BY <1>1, <2>4, <2>5, HeadedPushed
  <2> QED
    BY <2>1, <2>6, EndsAimed
<1>13. CASE handle_complete_while
  <2> DEFINE g == make_goto(q, n, state.head_head)
             r == make_branch(g, state.condition, state.head_tail, state.body_head, cur_block(q))
  <2>1. Ends(r)
    BY <1>13, Zenon DEF handle_complete_while, Ends
  <2>2. state.head_head \in 1..(n + 1) /\ state.body_head \in 1..(n + 1)
    <3>1. state.kind = "complete_while"
      BY <1>13 DEF handle_complete_while, At, state
    <3> QED
      BY <1>5, <1>6, <3>1
  <2> HIDE DEF q
  <2>3. Aimed(g) /\ cur_block(g) = n + 1
    BY <1>4, <1>5, <2>2, GotoAimed
  <2> HIDE DEF g, n
  <2>4. Aimed(r)
    BY <1>4, <1>5, <2>2, <2>3, BranchAimed
  <2> QED
    BY <2>1, <2>4, EndsAimed
<1> QED
  BY <1>7, <1>8, <1>9, <1>10, <1>11, <1>12, <1>13 DEF FlowHandlers

LEMMA FuncAimed ==
  ASSUME IInv, Aimed(p), FuncHandlers
  PROVE  Aimed(p')
<1>1. Aimed(popped)
  BY PoppedAimed DEF FuncHandlers, handle_top_level, handle_function, handle_complete_function
<1>2. CASE handle_top_level
  <2>1. Ends(Push(popped, <<Top, Function>>)) \/ Ends(popped)
    BY <1>2 DEF handle_top_level, Ends, Error, Top, Function
  <2>2. Headless(Top) /\ Headless(Function)
    BY HeadlessStates DEF Top, Function
  <2>3. Aimed(Push(popped, <<Top, Function>>))
    BY <1>1, <2>2, HeadlessPushed
  <2> QED
    BY <1>1, <2>1, <2>3, EndsAimed
<1>3. CASE handle_function
  <2> DEFINE x == [kind |-> "complete_function"]
             y == [kind |-> "block"]
             f == new_func(popped)
  <2>1. Ends(Push(f, <<x, y>>))
    BY <1>3, Zenon DEF handle_function, Ends, Error
  <2>2. Headless(x) /\ Headless(y) /\ Headless(Top)
    BY HeadlessStates DEF Top
  <2>3. popped.state_stack = <<Top>> /\ DOMAIN popped = Fields
    BY <1>1, <1>3, OutsideStack DEF handle_function, Aimed
  <2>4. DOMAIN f = Fields /\ f.blocks = <<<<>>>> /\ f.state_stack = <<Top>>
    BY <2>3 DEF new_func, Fields
  <2> HIDE DEF x, y, f
  <2>5. Aimed(f)
    <3>1. <<<<>>>> \in Seq(Seq({})) /\ <<Top>> \in Seq({Top})
      OBVIOUS
    <3>2. GoTo({}, Len(f.blocks)) /\ Headed({Top}, Len(f.blocks))
      BY <2>2 DEF GoTo, Headed, Headless
    <3> QED
      BY <2>4, <3>1, <3>2 DEF Aimed
  <2>6. Aimed(Push(f, <<x, y>>))
    BY <2>2, <2>5, HeadlessPushed
  <2> QED
    BY <2>1, <2>6, EndsAimed
<1>4. CASE handle_complete_function
  <2>1. p' = [popped EXCEPT !.definers = <<>>]
    BY <1>4 DEF handle_complete_function
  <2>2. DOMAIN p' = Fields /\ p'.blocks = popped.blocks /\ p'.state_stack = popped.state_stack
    BY <1>1, <2>1 DEF Aimed, Fields
  <2> QED
    BY <1>1, <2>2, AimDependsOn
<1> QED
  BY <1>2, <1>3, <1>4 DEF FuncHandlers

-----------------------------------------------------------------------------
(* The blocks that are kept, numbered anew.                                *)
Rank(B, b) == Cardinality({c \in B : c <= b})

LEMMA RanksAreNumbers ==
  ASSUME NEW N \in Nat, NEW B \in SUBSET (1..N)
  PROVE  /\ Cardinality(B) \in Nat
         /\ \A b \in B : Rank(B, b) \in 1..Cardinality(B)
         /\ \A b, c \in B : b < c => Rank(B, b) < Rank(B, c)
         /\ \A b, c \in B : Rank(B, b) = Rank(B, c) => b = c
         /\ \A n \in 1..Cardinality(B) : \E b \in B : Rank(B, b) = n
<1> DEFINE upto(b) == {c \in B : c <= b}
           m == Cardinality(B)
<1>1. IsFiniteSet(1..N) /\ IsFiniteSet(B) /\ m \in Nat
  <2>1. IsFiniteSet(1..N)
    BY FS_Interval
  <2>2. IsFiniteSet(B)
    BY <2>1, FS_Subset
  <2> QED
    BY <2>1, <2>2, FS_CardinalityType
<1>2. \A b : IsFiniteSet(upto(b)) /\ Cardinality(upto(b)) \in Nat /\ Cardinality(upto(b)) <= m
  <2> TAKE b
  <2>1. upto(b) \subseteq B
    OBVIOUS
  <2> HIDE DEF upto
  <2> QED
    BY <1>1, <2>1, FS_Subset, FS_CardinalityType
<1>3. \A b \in B : b \in Nat /\ b \in upto(b)
  OBVIOUS
<1>4. \A b \in B : Rank(B, b) \in 1..m
  <2> SUFFICES ASSUME NEW b \in B
               PROVE  Rank(B, b) \in 1..m
    OBVIOUS
  <2> HIDE DEF upto
  <2>1. Cardinality(upto(b)) # 0
    BY <1>2, <1>3, FS_EmptySet
  <2>2. Cardinality(upto(b)) \in 1..m
    BY <1>1, <1>2, <2>1
  <2> QED
    BY <2>2 DEF Rank, upto
<1>5. \A b, c \in B : b < c => Rank(B, b) < Rank(B, c)
  <2> SUFFICES ASSUME NEW b \in B, NEW c \in B, b < c
               PROVE  Rank(B, b) < Rank(B, c)
    OBVIOUS
  <2>1. upto(b) \subseteq upto(c) /\ c \in upto(c) /\ c \notin upto(b)
    <3>1. b \in Nat /\ c \in Nat /\ \A x \in B : x \in Nat
      BY <1>3
    <3>2. \A x \in Nat : x <= b => x <= c
      BY <3>1
    <3>3. c <= c /\ ~(c <= b)
      BY <3>1
    <3> QED
      BY <3>1, <3>2, <3>3
  <2> HIDE DEF upto
  <2>2. upto(b) # upto(c)
    BY <2>1
  <2>3. Cardinality(upto(b)) < Cardinality(upto(c))
    BY <1>2, <2>1, <2>2, FS_Subset
  <2> QED
    BY <2>3 DEF Rank, upto
<1>6. \A b, c \in B : Rank(B, b) = Rank(B, c) => b = c
  <2> SUFFICES ASSUME NEW b \in B, NEW c \in B, b # c
               PROVE  Rank(B, b) # Rank(B, c)
    OBVIOUS
  <2>1. b < c \/ c < b
    BY <1>3
  <2>2. Rank(B, b) \in Nat /\ Rank(B, c) \in Nat
    BY <1>1, <1>4
  <2> QED
    BY <1>5, <2>1, <2>2
<1>7. \A n \in 1..m : \E b \in B : Rank(B, b) = n
  <2> DEFINE f == [b \in B |-> Rank(B, b)]
  <2>1. f \in [B -> 1..m] /\ \A b \in B : f[b] = Rank(B, b)
    BY <1>4
  <2> HIDE DEF f
  <2>2. f \in Injection(B, 1..m)
    BY <1>6, <2>1 DEF Injection, IsInjective
  <2>3. IsFiniteSet(1..m) /\ Cardinality(1..m) = m
    BY <1>1, FS_Interval
  <2>4. f \in Surjection(B, 1..m)
    BY <2>2, <2>3, FS_Injection
  <2> QED
    BY <2>1, <2>4 DEF Surjection
<1> QED
  BY <1>1, <1>4, <1>5, <1>6, <1>7

\* Of any code, as a function on an interval.
LEMMA SuccessorsAre ==
  ASSUME NEW S, NEW code \in Seq(S)
  PROVE  /\ code # <<>> => Len(code) \in DOMAIN code
         /\ sem_compute_successors(code)
            = IF code # <<>> /\ code[Len(code)].kind \in JumpKinds
                THEN ToSet(code[Len(code)].data) ELSE {}
<1>1. Last(code) = code[Len(code)]
  BY DEF Last
<1>2. code # <<>> => Len(code) \in 1..Len(code)
  BY EmptySeq
<1> QED
  BY <1>1, <1>2 DEF sem_compute_successors, JumpKinds

LEMMA SuccessorsAreBlocks ==
  ASSUME NEW cfg, Whole(cfg), NEW b \in DOMAIN cfg
  PROVE  sem_compute_successors(cfg[b]) \subseteq DOMAIN cfg
<1> DEFINE code == cfg[b]
           inst == code[Len(code)]
<1>1. code \in Seq(Insts) /\ DOMAIN cfg = 1..Len(cfg)
  BY DEF Whole
<1>2. CASE code # <<>> /\ inst.kind \in JumpKinds
  <2>1. inst.data \in Seq(1..Len(cfg))
    BY <1>1, <1>2, SuccessorsAre DEF Whole
  <2>2. ToSet(inst.data) \subseteq 1..Len(cfg)
    BY <2>1 DEF ToSet
  <2>3. sem_compute_successors(code) = ToSet(inst.data)
    BY <1>1, <1>2, SuccessorsAre
  <2> QED
    BY <1>1, <2>2, <2>3
<1>3. CASE ~(code # <<>> /\ inst.kind \in JumpKinds)
  BY <1>1, <1>3, SuccessorsAre
<1> QED
  BY <1>2, <1>3

\* What the search finds is the least set that has the first block and what its blocks jump to.
LEMMA ReachableIsLeast ==
  ASSUME NEW cfg, Whole(cfg)
  PROVE  /\ Reachable(cfg) \subseteq DOMAIN cfg
         /\ IsClosed(cfg, Reachable(cfg))
         /\ \A B \in SUBSET DOMAIN cfg : IsClosed(cfg, B) => Reachable(cfg) \subseteq B
<1>1. Reachable(cfg) \subseteq DOMAIN cfg
  BY DEF Reachable
<1>2. \A B \in SUBSET DOMAIN cfg : IsClosed(cfg, B) => Reachable(cfg) \subseteq B
  BY DEF Reachable
<1>3. 1 \in Reachable(cfg)
  <2>1. 1 \in DOMAIN cfg
    BY EmptySeq DEF Whole
  <2> QED
    BY <2>1 DEF Reachable, IsClosed
<1>4. ASSUME NEW b \in Reachable(cfg), NEW s \in sem_compute_successors(cfg[b])
      PROVE  s \in Reachable(cfg)
  <2>1. s \in DOMAIN cfg
    BY <1>1, SuccessorsAreBlocks
  <2>2. \A B \in SUBSET DOMAIN cfg : IsClosed(cfg, B) => s \in B
    BY DEF Reachable, IsClosed
  <2> QED
    BY <2>1, <2>2 DEF Reachable
<1>5. IsClosed(cfg, Reachable(cfg))
  BY <1>3, <1>4 DEF IsClosed
<1> QED
  BY <1>1, <1>2, <1>5

\* A function on an interval is a sequence.
LEMMA IntervalSeq ==
  ASSUME NEW m \in Nat, NEW s, NEW S, s \in [1..m -> S]
  PROVE  s \in Seq(S) /\ Len(s) = m
OBVIOUS

\* The instruction, in the new numbers.
Renumber(B, inst) ==
  IF inst.kind \in JumpKinds
    THEN [inst EXCEPT !.data = [i \in DOMAIN @ |-> Rank(B, @[i])]] ELSE inst

LEMMA KeptIs ==
  ASSUME NEW cfg, Whole(cfg), NEW B \in SUBSET DOMAIN cfg, NEW b \in B
  PROVE  LET new == Kept(cfg, B)
             n == Rank(B, b)
         IN /\ DOMAIN new = 1..Cardinality(B) /\ Len(new) = Cardinality(B) /\ n \in DOMAIN new
            /\ DOMAIN new[n] = DOMAIN cfg[b] /\ \E S : new[n] \in Seq(S)
            /\ \A i \in DOMAIN cfg[b] : new[n][i] = Renumber(B, cfg[b][i])
<1> DEFINE m == Cardinality(B)
           old(n) == CHOOSE c \in B : Rank(B, c) = n
           code(n) == [i \in DOMAIN cfg[old(n)] |-> Renumber(B, cfg[old(n)][i])]
           new == Kept(cfg, B)
           n == Rank(B, b)
<1>1. DOMAIN cfg = 1..Len(cfg) /\ Len(cfg) \in Nat /\ cfg[b] \in Seq(Insts)
  BY DEF Whole
<1>2. m \in Nat /\ n \in 1..m /\ \A c \in B : Rank(B, c) = n => c = b
  BY <1>1, RanksAreNumbers
<1>3. old(n) = b
  BY <1>2
<1>4. new = [k \in 1..m |-> code(k)]
  BY Zenon DEF Kept, Rank, Renumber, JumpKinds
<1> HIDE DEF new, n, old
<1>5. DOMAIN new = 1..m /\ new[n] = code(n)
  BY <1>2, <1>4
<1>6. /\ DOMAIN new[n] = DOMAIN cfg[b]
      /\ \A i \in DOMAIN cfg[b] : new[n][i] = Renumber(B, cfg[b][i])
  BY <1>3, <1>5
<1> HIDE DEF code
<1>7. Len(new) = m
  <2>1. new \in [1..m -> {new[k] : k \in 1..m}]
    BY <1>4
  <2> QED
    BY <1>2, <2>1, IntervalSeq
<1>8. new[n] \in Seq({new[n][i] : i \in DOMAIN cfg[b]})
  <2>1. DOMAIN cfg[b] = 1..Len(cfg[b]) /\ Len(cfg[b]) \in Nat
    BY <1>1
  <2>2. new[n] \in [1..Len(cfg[b]) -> {new[n][i] : i \in DOMAIN cfg[b]}]
    BY <1>5, <1>6, <2>1 DEF code
  <2> QED
    BY <2>1, <2>2, IntervalSeq
<1> QED
  BY <1>2, <1>5, <1>6, <1>7, <1>8 DEF new, n

LEMMA KeptKinds ==
  ASSUME NEW B, NEW inst \in Insts
  PROVE  /\ Renumber(B, inst).kind = inst.kind
         /\ inst.kind \in JumpKinds =>
              Renumber(B, inst).data = [i \in DOMAIN inst.data |-> Rank(B, inst.data[i])]
BY DEF Renumber, Insts

\* Jumps go where they went.
LEMMA KeptSuccessors ==
  ASSUME NEW cfg, Whole(cfg), NEW B \in SUBSET DOMAIN cfg, NEW b \in B
  PROVE  sem_compute_successors(Kept(cfg, B)[Rank(B, b)])
         = {Rank(B, s) : s \in sem_compute_successors(cfg[b])}
<1> DEFINE code == cfg[b]
           new == Kept(cfg, B)[Rank(B, b)]
           k == Len(code)
<1>1. code \in Seq(Insts) /\ DOMAIN code = 1..k /\ k \in Nat
  BY DEF Whole
<1>2. PICK S : new \in Seq(S)
  BY KeptIs
<1>3. DOMAIN new = DOMAIN code /\ \A i \in DOMAIN code : new[i] = Renumber(B, code[i])
  BY KeptIs
<1> HIDE DEF new, code
<1>4. Len(new) = k /\ (new # <<>> <=> code # <<>>)
  <2>1. Len(new) \in Nat /\ DOMAIN new = 1..Len(new)
    BY <1>2
  <2>2. Len(new) = k
    BY <1>1, <1>3, <2>1
  <2> QED
    BY <1>1, <1>2, <2>2, EmptySeq
<1>5. CASE code # <<>> /\ code[k].kind \in JumpKinds
  <2>1. k \in DOMAIN code /\ code[k] \in Insts
    BY <1>1, <1>5, SuccessorsAre
  <2>2. /\ new[k].kind = code[k].kind
        /\ new[k].data = [i \in DOMAIN code[k].data |-> Rank(B, code[k].data[i])]
    BY <1>3, <1>5, <2>1, KeptKinds
  <2>3. /\ sem_compute_successors(new) = ToSet(new[k].data)
        /\ sem_compute_successors(code) = ToSet(code[k].data)
    BY <1>1, <1>2, <1>4, <1>5, <2>2, SuccessorsAre
  <2>4. ToSet(new[k].data) = {Rank(B, s) : s \in ToSet(code[k].data)}
    BY <2>2 DEF ToSet
  <2> QED
    BY <2>3, <2>4 DEF new, code
<1>6. CASE ~(code # <<>> /\ code[k].kind \in JumpKinds)
  <2>1. code # <<>> => k \in DOMAIN code /\ code[k] \in Insts /\ new[k].kind = code[k].kind
    <3>1. \A inst \in Insts : Renumber(B, inst).kind = inst.kind
      BY KeptKinds
    <3>2. code # <<>> => k \in DOMAIN code
      BY <1>1, SuccessorsAre
    <3>3. code # <<>> => code[k] \in Insts
      BY <1>1, <3>2
    <3> QED
      BY <1>3, <3>1, <3>2, <3>3
  <2>2. sem_compute_successors(new) = {} /\ sem_compute_successors(code) = {}
    BY <1>1, <1>2, <1>4, <1>6, <2>1, SuccessorsAre
  <2> QED
    BY <2>2 DEF new, code
<1> QED
  BY <1>5, <1>6

\* A block ends with a jump or a return if and only if it did.
LEMMA KeptJumps ==
  ASSUME NEW cfg, Whole(cfg), NEW B \in SUBSET DOMAIN cfg, NEW b \in B
  PROVE  Rank(B, b) \in Jumps(Kept(cfg, B)) <=> b \in Jumps(cfg)
<1> DEFINE n == Rank(B, b)
           new == Kept(cfg, B)
<1>1. /\ n \in DOMAIN new /\ DOMAIN new[n] = DOMAIN cfg[b]
      /\ \A i \in DOMAIN cfg[b] : new[n][i] = Renumber(B, cfg[b][i])
  BY KeptIs
<1>2. cfg[b] \in Seq(Insts)
  BY DEF Whole
<1>3. \A i \in DOMAIN cfg[b] : Renumber(B, cfg[b][i]).kind = cfg[b][i].kind
  <2>1. \A i \in DOMAIN cfg[b] : cfg[b][i] \in Insts
    BY <1>2
  <2>2. \A inst \in Insts : Renumber(B, inst).kind = inst.kind
    BY KeptKinds
  <2> QED
    BY <2>1, <2>2
<1> HIDE DEF n, new
<1>4. \A i \in DOMAIN cfg[b] : new[n][i].kind = cfg[b][i].kind
  BY <1>1, <1>3
<1>5. n \in Jumps(new) <=> b \in Jumps(cfg)
  BY <1>1, <1>4 DEF Jumps
<1> QED
  BY <1>5 DEF n, new

LEMMA KeptIsTrimmed ==
  ASSUME NEW cfg, Whole(cfg)
  PROVE  Trimmed(Kept(cfg, Reachable(cfg)))
<1> DEFINE B == Reachable(cfg)
           N == Len(cfg)
           m == Cardinality(B)
           new == Kept(cfg, B)
<1>1. DOMAIN cfg = 1..N /\ N \in Nat /\ B \in SUBSET (1..N) /\ B \in SUBSET DOMAIN cfg
  BY ReachableIsLeast DEF Whole
<1>2. /\ IsClosed(cfg, B)
      /\ \A S \in SUBSET DOMAIN cfg : IsClosed(cfg, S) => B \subseteq S
  BY ReachableIsLeast
<1> HIDE DEF B
<1>3. /\ m \in Nat /\ \A b \in B : Rank(B, b) \in 1..m
      /\ \A b, c \in B : b < c => Rank(B, b) < Rank(B, c)
      /\ \A n \in 1..m : \E b \in B : Rank(B, b) = n
  BY <1>1, RanksAreNumbers
<1>4. 1 \in B /\ \A b \in B : sem_compute_successors(cfg[b]) \subseteq B
  BY <1>2 DEF IsClosed
<1>5. DOMAIN new = 1..m /\ Len(new) = m
  BY <1>1, <1>4, KeptIs
<1>6. \A b \in B : sem_compute_successors(new[Rank(B, b)])
                   = {Rank(B, s) : s \in sem_compute_successors(cfg[b])}
  BY <1>1, KeptSuccessors
<1>7. \A b \in B : Rank(B, b) \in Jumps(new) <=> b \in Jumps(cfg)
  BY <1>1, KeptJumps
<1> HIDE DEF new, m
<1>8. Rank(B, 1) = 1
  <2>1. 1 \in 1..m
    BY <1>3, <1>4
  <2>2. PICK b \in B : Rank(B, b) = 1
    BY <1>3, <2>1
  <2>3. b = 1 \/ 1 < b
    BY <1>1
  <2>4. Rank(B, 1) \in 1..m
    BY <1>3, <1>4
  <2> QED
    BY <1>3, <1>4, <2>2, <2>3, <2>4
<1>9. \A n \in DOMAIN new : sem_compute_successors(new[n]) \subseteq DOMAIN new
  <2> SUFFICES ASSUME NEW n \in 1..m
               PROVE  sem_compute_successors(new[n]) \subseteq 1..m
    BY <1>5
  <2>1. PICK b \in B : Rank(B, b) = n
    BY <1>3
  <2>2. sem_compute_successors(new[n]) = {Rank(B, s) : s \in sem_compute_successors(cfg[b])}
    BY <1>6, <2>1
  <2> QED
    BY <1>3, <1>4, <2>2
<1>10. DOMAIN new = Reachable(new)
  <2> SUFFICES ASSUME NEW S \in SUBSET (1..m), IsClosed(new, S), NEW n \in 1..m
               PROVE  n \in S
    BY <1>5 DEF Reachable
  <2> DEFINE S0 == {b \in B : Rank(B, b) \in S}
  <2>1. 1 \in S0
    BY <1>4, <1>8 DEF IsClosed
  <2>2. ASSUME NEW b \in S0, NEW s \in sem_compute_successors(cfg[b])
        PROVE  s \in S0
    <3>1. s \in B /\ Rank(B, s) \in sem_compute_successors(new[Rank(B, b)])
      BY <1>4, <1>6
    <3>2. sem_compute_successors(new[Rank(B, b)]) \subseteq S
      BY DEF IsClosed
    <3> QED
      BY <3>1, <3>2
  <2>3. IsClosed(cfg, S0) /\ S0 \in SUBSET DOMAIN cfg
    <3>1. \A b \in S0 : sem_compute_successors(cfg[b]) \subseteq S0
      BY <2>2
    <3> QED
      BY <1>1, <2>1, <3>1 DEF IsClosed
  <2>4. B \subseteq S0
    BY <1>2, <2>3
  <2>5. PICK b \in B : Rank(B, b) = n
    BY <1>3
  <2> QED
    BY <2>4, <2>5
<1>11. DOMAIN new \ Jumps(new) \subseteq {Len(new)}
  <2> SUFFICES ASSUME NEW n \in 1..m, n \notin Jumps(new)
               PROVE  n = m
    BY <1>5
  <2>1. PICK b \in B : Rank(B, b) = n
    BY <1>3
  <2>2. b \in DOMAIN cfg /\ b \notin Jumps(cfg)
    BY <1>1, <1>7, <2>1
  <2>3. b = N
    BY <2>2 DEF Whole, Unended
  <2>4. m \in 1..m
    BY <1>3
  <2>5. PICK c \in B : Rank(B, c) = m
    BY <1>3, <2>4
  <2>6. c < b \/ c = b
    BY <1>1, <2>3
  <2> QED
    BY <1>3, <2>1, <2>5, <2>6
<1>12. Trimmed(new)
  BY <1>9, <1>10, <1>11 DEF Trimmed
<1> QED
  BY <1>12 DEF new, B

-----------------------------------------------------------------------------
(* The steps.                                                              *)
LEMMA HandlersAim ==
  ASSUME AInv, ExprHandlers \/ StmtHandlers \/ FlowHandlers \/ FuncHandlers
  PROVE  Aimed(p')
BY ExprAimed, StmtAimed, FlowAimed, FuncAimed DEF AInv

\* A handler leaves the functions that are done alone, or stops the compiler.
LEMMA HandlersLeaveUnit ==
  ASSUME IInv,
         ExprHandlers \/ StmtHandlers \/ FlowHandlers \/ handle_top_level \/ handle_function
  PROVE  /\ stage = "parsing"
         /\ \/ UNCHANGED <<unit, stage>>
            \/ unit' = [unit EXCEPT !.funcs = <<>>] /\ stage' \in {"failed", "aborted"}
<1>1. stage = "parsing"
  BY DEF At, ExprHandlers, StmtHandlers, FlowHandlers, handle_top_level, handle_function,
     handle_expr, handle_binary, handle_binary_infix, handle_primary, handle_complete_binary,
     handle_block, handle_block_stmt, handle_stmt, handle_complete_return, handle_semi,
     handle_local_decl, handle_if, handle_if_body, handle_if_else, handle_complete_if_else,
     handle_while, handle_while_body, handle_complete_while
<1>2. \/ \E q : Keeping(q)
      \/ \E ts, q : Reading(ts, q)
      \/ Stop("failed") \/ Stop("aborted")
  <2>1. ExprHandlers => \/ \E q : Keeping(q)
                        \/ \E ts, q : Reading(ts, q)
                        \/ Error \/ Stop("aborted")
    BY BinaryEnds, Zenon DEF ExprHandlers, handle_expr, handle_binary, handle_binary_infix,
       handle_primary
  <2>2. StmtHandlers => \/ \E q : Keeping(q)
                        \/ \E ts, q : Reading(ts, q)
                        \/ Error
    BY Zenon DEF StmtHandlers, handle_block, handle_block_stmt, handle_stmt,
       handle_complete_return, handle_semi, handle_local_decl
  <2>3. FlowHandlers => \/ \E q : Keeping(q)
                        \/ \E ts, q : Reading(ts, q)
                        \/ Error
    BY Zenon DEF FlowHandlers, handle_if, handle_if_body, handle_if_else,
       handle_complete_if_else, handle_while, handle_while_body, handle_complete_while
  <2>4. handle_top_level \/ handle_function => \/ \E q : Keeping(q)
                                               \/ \E ts, q : Reading(ts, q)
                                               \/ Error
    BY Zenon DEF handle_top_level, handle_function
  <2> QED
    BY <2>1, <2>2, <2>3, <2>4, Zenon DEF Error
<1> QED
  BY <1>1, <1>2 DEF Keeping, Reading, Stop

LEMMA ParsedIsWhole ==
  ASSUME IInv, Aimed(p), At("complete_function")
  PROVE  Whole(p.blocks)
<1>1. /\ p.blocks \in Seq(Seq(Insts)) /\ p.blocks # <<>>
      /\ Unended(p.blocks) = {Len(p.blocks)}
  BY FunctionIsWhole DEF cur_block
<1>2. PICK S : p.blocks \in Seq(Seq(S)) /\ GoTo(S, Len(p.blocks))
  BY DEF Aimed
<1>3. \A b \in DOMAIN p.blocks : \A i \in DOMAIN p.blocks[b] : p.blocks[b][i] \in S
  BY <1>2
<1>4. \A b \in DOMAIN p.blocks : \A i \in DOMAIN p.blocks[b] :
        p.blocks[b][i].kind \in JumpKinds => p.blocks[b][i].data \in Seq(1..Len(p.blocks))
  BY <1>2, <1>3 DEF GoTo
<1> QED
  BY <1>1, <1>4 DEF Whole

\* While functions are parsed none is analyzed.
LEMMA ParsingKeepsUnit ==
  ASSUME UnitInv, stage = "parsing", DOMAIN unit' = DOMAIN unit,
         unit'.analyzed = unit.analyzed,
         \E F : unit'.funcs \in Seq(F),
         \A k \in 1..Len(unit'.funcs) : Whole(unit'.funcs[k])
  PROVE  UnitInv'
<1>1. unit'.analyzed = 0 /\ DOMAIN unit' = {"funcs", "analyzed", "success"}
  BY DEF UnitInv
<1>2. PICK F : unit'.funcs \in Seq(F)
  OBVIOUS
<1>3. Len(unit'.funcs) \in Nat
  BY <1>2
<1> QED
  BY <1>1, <1>2, <1>3 DEF UnitInv

LEMMA HandlersKeepUnit ==
  ASSUME IInv, UnitInv,
         ExprHandlers \/ StmtHandlers \/ FlowHandlers \/ handle_top_level \/ handle_function
  PROVE  UnitInv'
<1>1. stage = "parsing"
  BY HandlersLeaveUnit
<1>2. CASE UNCHANGED <<unit, stage>>
  BY <1>2 DEF UnitInv
<1>3. CASE unit' = [unit EXCEPT !.funcs = <<>>]
  <2>1. /\ DOMAIN unit' = DOMAIN unit /\ unit'.analyzed = unit.analyzed /\ unit'.funcs = <<>>
    BY <1>3 DEF UnitInv
  <2>2. <<>> \in Seq({}) /\ 1..Len(<<>>) = {}
    OBVIOUS
  <2> QED
    BY <1>1, <2>1, <2>2, ParsingKeepsUnit
<1> QED
  BY <1>2, <1>3, HandlersLeaveUnit

LEMMA CompleteFunctionKeepsUnit ==
  ASSUME IInv, Aimed(p), UnitInv, handle_complete_function
  PROVE  UnitInv'
<1> DEFINE funcs == unit.funcs
           n == Len(funcs)
<1>1. Whole(p.blocks) /\ stage = "parsing"
  BY ParsedIsWhole DEF handle_complete_function, At
<1>2. /\ DOMAIN unit' = DOMAIN unit /\ unit'.analyzed = unit.analyzed
      /\ unit'.funcs = Append(funcs, p.blocks)
  BY DEF handle_complete_function, UnitInv
<1>3. PICK F : funcs \in Seq(F)
  BY DEF UnitInv
<1>4. funcs \in Seq(F \cup {p.blocks}) /\ n \in Nat
  BY <1>3, SeqMonotonic
<1>5. /\ unit'.funcs \in Seq(F \cup {p.blocks}) /\ Len(unit'.funcs) = n + 1
      /\ unit'.funcs[n + 1] = p.blocks /\ \A k \in 1..n : unit'.funcs[k] = funcs[k]
  BY <1>2, <1>4, AppendProperties
<1>6. \A k \in 1..n : Whole(funcs[k])
  BY <1>1, <1>4 DEF UnitInv
<1> HIDE DEF funcs
<1>7. \A k \in 1..(n + 1) : Whole(unit'.funcs[k])
  <2>1. \A k \in 1..(n + 1) : k \in 1..n \/ k = n + 1
    BY <1>4
  <2> QED
    BY <1>1, <1>5, <1>6, <2>1
<1> QED
  BY <1>1, <1>2, <1>5, <1>7, ParsingKeepsUnit

LEMMA AnalyzeKeepsUnit ==
  ASSUME UnitInv, sem_analyze
  PROVE  UnitInv'
<1> DEFINE funcs == unit.funcs
           n == unit.analyzed + 1
           kept == Kept(funcs[n], Reachable(funcs[n]))
<1>1. PICK F : funcs \in Seq(F)
  BY DEF UnitInv
<1>2. /\ unit.analyzed \in Nat /\ n \in 1..Len(funcs) /\ Len(funcs) \in Nat
      /\ DOMAIN funcs = 1..Len(funcs) /\ n \in n..Len(funcs)
  BY <1>1 DEF UnitInv, sem_analyze
<1>3. /\ DOMAIN unit' = {"funcs", "analyzed", "success"}
      /\ unit'.funcs = [funcs EXCEPT ![n] = kept]
      /\ unit'.analyzed = n /\ stage' = stage /\ stage = "parsed"
  BY DEF sem_analyze
<1>4. Trimmed(kept)
  BY <1>2, KeptIsTrimmed DEF UnitInv
<1> HIDE DEF kept
<1>5. /\ unit'.funcs \in Seq(F \cup {kept}) /\ Len(unit'.funcs) = Len(funcs)
      /\ unit'.funcs[n] = kept
      /\ \A k \in DOMAIN funcs : k # n => unit'.funcs[k] = funcs[k]
  <2>1. funcs \in Seq(F \cup {kept})
    BY <1>1, SeqMonotonic
  <2> HIDE DEF funcs, n
  <2> QED
    BY <1>2, <1>3, <2>1, ExceptSeq
<1>6. \A k \in (n + 1)..Len(funcs) : Whole(unit'.funcs[k])
  <2>1. \A k \in (n + 1)..Len(funcs) : k \in DOMAIN funcs /\ k # n /\ k \in n..Len(funcs)
    BY <1>2
  <2>2. \A k \in n..Len(funcs) : Whole(funcs[k])
    BY DEF UnitInv
  <2> HIDE DEF funcs, n
  <2> QED
    BY <1>5, <2>1, <2>2
<1>7. \A k \in 1..n : Trimmed(unit'.funcs[k])
  <2>1. \A k \in 1..n : k = n \/ (k \in 1..unit.analyzed /\ k \in DOMAIN funcs /\ k # n)
    BY <1>2
  <2>2. \A k \in 1..unit.analyzed : Trimmed(funcs[k])
    BY DEF UnitInv
  <2> HIDE DEF funcs, n
  <2> QED
    BY <1>4, <1>5, <2>1, <2>2
<1> HIDE DEF funcs, n
<1>8. n \in 0..Len(unit'.funcs)
  BY <1>2, <1>5
<1> QED
  BY <1>3, <1>5, <1>6, <1>7, <1>8 DEF UnitInv

LEMMA AnalysisInit ==
  ASSUME Init
  PROVE  AInv
<1>1. Aimed(p)
  <2>1. DOMAIN p = Fields /\ p.blocks = <<>> /\ p.state_stack = <<Top>>
    BY DEF Init, Nothing, Fields, Top
  <2>2. GoTo({}, Len(<<>>)) /\ Headed({Top}, Len(<<>>))
    BY HeadlessStates DEF GoTo, Headed, Headless, Top
  <2>3. <<>> \in Seq(Seq({})) /\ <<Top>> \in Seq({Top})
    OBVIOUS
  <2> QED
    BY <2>1, <2>2, <2>3 DEF Aimed
<1>2. UnitInv
  <2>1. /\ DOMAIN unit = {"funcs", "analyzed", "success"}
        /\ unit.funcs = <<>> /\ unit.analyzed = 0
    BY DEF Init
  <2>2. <<>> \in Seq({}) /\ Len(<<>>) = 0
    OBVIOUS
  <2> QED
    BY <2>1, <2>2 DEF UnitInv
<1> QED
  BY <1>1, <1>2, InitHolds DEF AInv

LEMMA AnalysisStep ==
  ASSUME AInv, [Next]_vars
  PROVE  AInv'
<1>1. IInv'
  BY StepHolds DEF AInv
<1>2. IInv /\ Aimed(p) /\ UnitInv
  BY DEF AInv
<1>3. CASE ExprHandlers \/ StmtHandlers \/ FlowHandlers \/ handle_top_level \/ handle_function
  BY <1>1, <1>2, <1>3, HandlersAim, HandlersKeepUnit DEF AInv, FuncHandlers
<1>4. CASE handle_complete_function
  BY <1>1, <1>2, <1>4, HandlersAim, CompleteFunctionKeepsUnit DEF AInv, FuncHandlers
<1>5. CASE sem_analyze
  <2>1. p' = p
    BY <1>5 DEF sem_analyze
  <2> QED
    BY <1>1, <1>2, <1>5, <2>1, AnalyzeKeepsUnit DEF AInv, Aimed
<1>6. CASE parse_unit_end \/ sem_analyze_end \/ UNCHANGED vars
  <2>1. p' = p /\ unit' = unit /\ (stage' = stage \/ stage' # "parsing")
    BY <1>6 DEF parse_unit_end, sem_analyze_end, vars
  <2> QED
    BY <1>1, <1>2, <2>1 DEF AInv, Aimed, UnitInv
<1> QED
  BY <1>3, <1>4, <1>5, <1>6
     DEF Next, ExprHandlers, StmtHandlers, FlowHandlers

(* Of every function that sem_analyze is done with (sem.c:102-150), in     *)
(* every text: the jumps go to blocks of the function, all its blocks are  *)
(* reached, and only the last may fall off the end.                        *)
THEOREM AnalysisCloses == Spec => []AnalyzedIsClosed
<1>1. AInv => AnalyzedIsClosed
  BY DEF AInv, UnitInv, Trimmed, AnalyzedIsClosed
<1> QED
  BY <1>1, AnalysisInit, AnalysisStep, PTL DEF Spec
=============================================================================
