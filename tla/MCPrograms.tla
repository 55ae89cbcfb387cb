----------------------------- MODULE MCPrograms -----------------------------
(***************************************************************************)
(* Functions of two or four variables, as the parser makes them, for TLC's *)
(* instances of Compile, Backend and Target.  An assignment to v begins    *)
(* with the load of v that the parser made when it read v's name           *)
(* (parse.c:419-442); the values of statement number n are 10 * n and up.  *)
(***************************************************************************)
EXTENDS Integers, Sequences

x == 1   \* the values of the allocas
y == 2
u == 3
w == 4

I(kind, out, ins, data) == [kind |-> kind, out |-> out, ins |-> ins, data |-> data]

Store(v, out) == I("STORE", 0, <<v, out>>, 0)
Load(v, out)  == I("LOAD", out, <<v>>, 0)

\* The statements, as functions of their number.
None == <<"none">>
Const(v, c) == <<"const", v, c>>
Copy(v, from) == <<"copy", v, from>>
Binary(kind, v) == <<"binary", v, kind>>
Flipped(kind, v) == <<"flipped", v, kind>>                             \* v = 1 - v
Scaled(v, from, kind, c) == <<"scaled", v, from, kind, c>>              \* v = from * c
Mixed(v, l, kind, r, inner) == <<"mixed", v, l, kind, r, inner>>        \* v = l + r * 7

Statement(s, n) ==
  LET b == 10 * n IN
  CASE s[1] = "none"   -> <<>>
    [] s[1] = "const"  -> <<Load(s[2], b), I("INT_CONST", b + 1, <<>>, s[3]), Store(s[2], b + 1)>>
    [] s[1] = "copy"   -> <<Load(s[2], b), Load(s[3], b + 1), Store(s[2], b + 1)>>
    [] s[1] = "binary" -> <<Load(s[2], b), Load(s[2], b + 1), I("INT_CONST", b + 2, <<>>, 1),
                            I("CAST", b + 3, <<b + 2>>, 0),
                            I(s[3], b + 4, <<b + 1, b + 3>>, 0), Store(s[2], b + 4)>>
    [] s[1] = "flipped" -> <<Load(s[2], b), I("INT_CONST", b + 1, <<>>, 1), Load(s[2], b + 2),
                             I("CAST", b + 3, <<b + 2>>, 0),
                             I(s[3], b + 4, <<b + 1, b + 3>>, 0), Store(s[2], b + 4)>>
    [] s[1] = "scaled" -> <<Load(s[2], b), Load(s[3], b + 1), I("INT_CONST", b + 2, <<>>, s[5]),
                            I("CAST", b + 3, <<b + 1>>, 0),
                            I(s[4], b + 4, <<b + 3, b + 2>>, 0), Store(s[2], b + 4)>>
    [] s[1] = "mixed"  -> <<Load(s[2], b), Load(s[3], b + 1), Load(s[5], b + 2),
                            I("INT_CONST", b + 3, <<>>, 7), I("CAST", b + 4, <<b + 2>>, 0),
                            I(s[6], b + 5, <<b + 4, b + 3>>, 0), I("CAST", b + 6, <<b + 1>>, 0),
                            I(s[4], b + 7, <<b + 6, b + 5>>, 0), Store(s[2], b + 7)>>

Goto(b) == <<I("GOTO", 0, <<>>, <<b>>)>>
Test(v, n, t, f) == <<Load(v, 10 * n), I("BRANCH", 0, <<10 * n>>, <<t, f>>)>>
Return(v, n) == <<Load(v, 10 * n), I("RETURN", 0, <<10 * n>>, 0)>>
ReturnVoid == <<I("RETURN", 0, <<>>, 0)>>

Begin == <<I("ALLOCA", x, <<>>, 0), I("ALLOCA", y, <<>>, 1)>> \o Statement(Const(x, 0), 1)

If(s, t, r) == << Begin \o Test(x, 2, 2, 3), Statement(s, 3) \o Goto(3),
                  Statement(t, 4) \o Return(r, 5) >>

IfElse(s, t, r) == << Begin \o Test(x, 2, 2, 3), Statement(s, 3) \o Goto(4),
                      Statement(t, 4) \o Goto(4), Return(r, 5) >>

IfReturn(s, r) == << Begin \o Test(x, 2, 2, 3), Statement(s, 3) \o Return(r, 4), <<>> >>

While(a, s, c, r) == << Begin \o Statement(a, 2) \o Goto(2), Test(c, 3, 3, 4),
                        Statement(s, 4) \o Goto(2), Return(r, 5) >>

WhileIf(s, t, r) == << Begin \o Goto(2), Test(x, 3, 3, 6),
                       Statement(s, 4) \o Test(y, 5, 4, 5), Statement(t, 6) \o Goto(5),
                       Goto(2), Return(r, 7) >>

WhileWhile(s, t, r) == << Begin \o Goto(2), Test(x, 3, 3, 7), Statement(s, 4) \o Goto(4),
                          Test(x, 5, 5, 6), Statement(t, 6) \o Goto(4), Goto(2),
                          Return(r, 7) >>

Arithmetic == << Begin \o Statement(Binary("ADD", x), 2) \o Statement(Binary("SUB", x), 3)
                       \o Statement(Binary("MUL", x), 4) \o Statement(Binary("DIV", x), 5)
                       \o ReturnVoid >>

\* Four variables, none of them set.
Four == [v \in 1..4 |-> I("ALLOCA", v, <<>>, v - 1)]

Straight(p, q, r) == << Four \o Statement(p, 1) \o Statement(q, 2) \o Statement(r, 3)
                        \o Return(u, 4) >>

WhileFour(p, q, r) == << Four \o Goto(2), Test(w, 1, 3, 4),
                         Statement(p, 2) \o Statement(q, 3) \o Goto(2),
                         Statement(r, 4) \o Return(u, 5) >>

Some == {None, Const(x, 1), Copy(y, x), Binary("ADD", x)}

Branching == {If(s, t, r) : s \in Some, t \in Some, r \in {x, y}}
             \cup {IfElse(s, t, r) : s \in Some, t \in Some, r \in {x, y}}
             \cup {IfReturn(s, r) : s \in Some, r \in {x, y}}
             \cup {If(Flipped(kind, y), None, y) : kind \in {"ADD", "SUB"}}
             \cup {Arithmetic}

Looping == {While(a, s, c, r) : a \in Some, s \in Some, c \in {x, y}, r \in {x, y}}
           \cup {WhileIf(s, t, r) : s \in Some, t \in Some, r \in {x, y}}
           \cup {WhileWhile(s, t, r) : s \in Some, t \in Some, r \in {x, y}}

Every == Branching \cup Looping

\* x = w * 2; y = x / 3; u = x + y * 7; return u; and the like.
Pairs == {Scaled(x, w, kind, 2) : kind \in {"MUL", "DIV"}}
         \X {Scaled(y, v, kind, 3) : v \in {x, w}, kind \in {"MUL", "DIV"}}
         \X {Mixed(u, x, kind, y, inner) : kind \in {"ADD", "SUB", "DIV"}, inner \in {"MUL", "DIV"}}
=============================================================================
