------------------------------- MODULE MCTarget -----------------------------
(* TLC's instances of Target: functions of MCPrograms, and one that shows  *)
(* a finding.                                                              *)
EXTENDS Target, MCPrograms

Strained == {t \in Pairs : t[3][6] = "MUL"}

Compiled == {If(s, t, y) : s \in Some, t \in Some} \cup {IfElse(s, t, y) : s \in Some, t \in Some}
            \cup {IfReturn(s, y) : s \in Some} \cup {Arithmetic}
            \cup {If(Flipped(kind, y), None, y) : kind \in {"ADD", "SUB"}}
            \cup {While(a, s, x, y) : a \in Some, s \in Some}
            \cup {WhileIf(s, t, y) : s \in Some, t \in Some}
            \cup {WhileWhile(s, t, y) : s \in Some, t \in Some}
            \cup {Straight(t[1], t[2], t[3]) : t \in Strained}
            \cup {WhileFour(t[1], t[2], t[3]) : t \in Strained}

\* y = y * 3; if (y) u = x + y * 7; else y = x + y * 7; return u;
SharedSum ==
  {<< Four \o Statement(Scaled(y, y, "MUL", 3), 1) \o Test(y, 2, 2, 3),
      Statement(Mixed(u, x, "ADD", y, "MUL"), 3) \o Goto(4),
      Statement(Mixed(y, x, "ADD", y, "MUL"), 4) \o Goto(4),
      Return(u, 7) >>}
=============================================================================
