-------------------------------- MODULE Maps --------------------------------
(* Functions that grow, and what is picked from a sequence.                *)
EXTENDS Integers, FiniteSets

\* The function f with the value e at d.
With(f, d, e) == [x \in DOMAIN f \cup {d} |-> IF x = d THEN e ELSE f[x]]

\* The elements of s at the places of the set at, in the order of s: the loops
\* that keep some elements of a list.
Picked(s, at) ==
  LET picked[a \in SUBSET Int] ==
        [k \in 1..Cardinality(a) |->
           s[CHOOSE i \in a : Cardinality({j \in a : j <= i}) = k]]
  IN picked[at]
=============================================================================
