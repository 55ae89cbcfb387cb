------------------------------ MODULE MCCompile -----------------------------
(* TLC's instances of Compile.                                             *)
EXTENDS Compile, MCPrograms
=============================================================================
