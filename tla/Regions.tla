------------------------------- MODULE Regions ------------------------------
(***************************************************************************)
(* What the arenas promise (src/cringe/base.h): a region handed out shares *)
(* no byte with one in use, and stays in use until the function whose      *)
(* scratch it was taken from returns.  Function 0 is the program itself,   *)
(* which does not return.                                                  *)
(***************************************************************************)
EXTENDS Naturals

VARIABLES depth,   \* the functions that have a scratch
          live     \* the regions in use

vars == <<depth, live>>

Apart(r, s) == r.arena # s.arena \/ r.upto <= s.from \/ s.upto <= r.from

Init == depth = 0 /\ live = {}

Enter == depth' = depth + 1 /\ UNCHANGED live

Give == /\ \E r \in live' \ live :
             /\ live' = live \cup {r}
             /\ r.owner \in 0..depth
             /\ \A s \in live : Apart(r, s)
        /\ UNCHANGED depth

Leave == /\ depth > 0
         /\ depth' = depth - 1
         /\ live' = {r \in live : r.owner # depth}

Next == Enter \/ Give \/ Leave

Spec == Init /\ [][Next]_vars
=============================================================================
