------------------------------ MODULE MCFrontend ----------------------------
(***************************************************************************)
(* TLC's instances of Frontend: all texts of three kinds, up to a length   *)
(* that leaves room for what each kind is about.                           *)
(***************************************************************************)
EXTENDS Frontend

Signs == TypeWords \cup {"(", ")", "{", "}", ";", "=", "+", "-", "*", "/",
                       "if", "else", "while", "return"}

\* Statements about a constant: conditions, and what control reaches.
Starts == {"if", "while", "return"}
Control ==
  [t \in {"f", "a", "b", "1"} \cup Signs |->
     CASE t = "int" -> {"f"}
       [] t = "f" -> {"("}
       [] t \in {"if", "while"} -> {"("}
       [] t = "(" -> {")", "1"}
       [] t = "1" -> {")", ";"}
       [] t = ")" -> Starts \cup {"{"}
       [] t = "return" -> {"1"}
       [] t = "{" -> Starts \cup {"{", "}", "1"}
       [] t = "}" -> Starts \cup {"}", "else", "int", EOF}
       [] t = "else" -> Starts \cup {"{"}
       [] t = ";" -> Starts \cup {"}", "else"}
       [] OTHER -> {}]

\* Statements about variables: scopes, assignments, and operators.
Variables ==
  [t \in {"f", "a", "b", "1"} \cup Signs |->
     CASE t = "int" -> {"f"}
       [] t = "f" -> {"("}
       [] t = "(" -> {")"}
       [] t = ")" -> {"{"}
       [] t = "{" -> {"short", "a"}
       [] t = "short" -> {"a"}
       [] t = "a" -> {"-", "*", ";", "="}
       [] t = "1" -> {"+", "/", ";"}
       [] t \in {"+", "-", "*", "/", "="} -> {"a", "1"}
       [] t = "return" -> {"a", "1"}
       [] t = ";" -> {"a", "{", "}", "return"}
       [] t = "}" -> {"a", "return", "}", EOF}
       [] OTHER -> {}]

\* Declarations of every type, and an operator between two of them.
Types ==
  [t \in {"f", "a", "b", "1"} \cup Signs |->
     CASE t = "int" -> {"f", "a", "b"}
       [] t = "f" -> {"("}
       [] t = "(" -> {")"}
       [] t = ")" -> {"{"}
       [] t = "{" -> TypeWords \cup {"return"}
       [] t \in {"signed", "unsigned"} -> {"char", "short", "int", "long", "a", "b"}
       [] t = "char" -> {"a", "b"}
       [] t = "short" -> {"int", "a", "b"}
       [] t = "long" -> {"long", "int", "a", "b"}
       [] t = "a" -> {";", "+"}
       [] t = "+" -> {"b"}
       [] t = "b" -> {";"}
       [] t = ";" -> (TypeWords \ {"signed"}) \cup {"a", "}"}
       [] t = "return" -> {";"}
       [] t = "}" -> {EOF}
       [] OTHER -> {}]

AllTexts == << [follow |-> Control, longest |-> 20],
               [follow |-> Variables, longest |-> 19],
               [follow |-> Types, longest |-> 18] >>

Expressions == << [follow |-> Variables, longest |-> 13] >>
=============================================================================
