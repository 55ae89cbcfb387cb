------------------------------ MODULE MCBackend -----------------------------
(* TLC's instances of Backend.                                             *)
EXTENDS Backend, MCPrograms

\* x = 0; y = x; while (x) { y = x; } return y;
CopyLoop == {While(Copy(y, x), Copy(y, x), x, y)}
=============================================================================
