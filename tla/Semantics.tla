------------------------------ MODULE Semantics -----------------------------
(***************************************************************************)
(* What a function does as its graph says it, in the terms of              *)
(* SourceSemantics: also a reference, which stands for no code.            *)
(***************************************************************************)
EXTENDS SeaOfNodes, SourceSemantics

\* What a node computes, before and after instruction selection.
OperationOf == [k \in BinaryKinds |-> k] @@
  [X64_ADD32_RR |-> "ADD", X64_SUB32_RR |-> "SUB", X64_MUL32_RR |-> "MUL",
   X64_IDIV32_RR |-> "SDIV", X64_ADD32_RI |-> "ADD", X64_SUB32_RI |-> "SUB"]

Loads == {"LOAD", "X64_MOV32_RM"}
Ends == {"END", "X64_END32"}
Branches == {"BRANCH", "X64_BRANCH32"}

Immediate(f, n) == <<"CONSTANT", f.node[n].data>>

(* A path is the sequence of the ways by which regions were entered, and a *)
(* node's value depends on how much of the path is past.  A phi has the    *)
(* value its input had just before its region was last entered.            *)
RECURSIVE Eval(_, _, _, _), Loaded(_, _, _, _, _)

PhiAt(f, path, phi, k) ==
  LET region == In(f, phi, 1)
      entry  == SelectLastInSubSeq(path, 1, k, LAMBDA e : e.region = region)
  IN [input |-> In(f, phi, path[entry].index + 1), k |-> entry - 1]

Eval(f, path, n, k) ==
  CASE Kind(f, n) \in {"CONSTANT", "ALLOCA"} -> <<Kind(f, n), f.node[n].data>>
    [] Kind(f, n) = "X64_MOV32_RI" -> Immediate(f, n)
    [] Kind(f, n) \in {"NULL", "X64_KILL32"} -> <<"NULL">>
    [] Kind(f, n) \in DOMAIN OperationOf ->
         Operation(OperationOf[Kind(f, n)], Eval(f, path, In(f, n, 1), k),
                   IF Len(f.node[n].ins) = 2 THEN Eval(f, path, In(f, n, 2), k)
                   ELSE Immediate(f, n))
    [] Kind(f, n) = "PHI"  -> LET p == PhiAt(f, path, n, k) IN Eval(f, path, p.input, p.k)
    [] Kind(f, n) \in Loads -> Loaded(f, path, In(f, n, Mem), Eval(f, path, In(f, n, Addr), k), k)

\* What the memory m holds at an address.
Loaded(f, path, m, address, k) ==
  CASE Kind(f, m) = "START_MEM" -> <<"UNSET", address>>
    [] Kind(f, m) = "PHI" -> LET p == PhiAt(f, path, m, k)
                             IN Loaded(f, path, p.input, address, p.k)
    [] Kind(f, m) \in {"STORE", "X64_MOV32_MR", "X64_MOV32_MI"} ->
         IF Eval(f, path, In(f, m, Addr), k) # address
           THEN Loaded(f, path, In(f, m, Mem), address, k)
         ELSE IF Kind(f, m) = "X64_MOV32_MI" THEN Immediate(f, m)
         ELSE Eval(f, path, In(f, m, Value), k)

RECURSIVE Follow(_, _, _, _, _)
Follow(f, c, path, preds, decisions) ==
  LET cfg_uses == {u \in ToSet(f.node[c].uses) : Flagged(f, u.node, "IS_CFG")}
      projs(kind) == {u \in cfg_uses : Kind(f, u.node) = kind}
      To(uses, p, d) ==
        LET u == CHOOSE u \in uses : TRUE IN
        Follow(f, u.node, IF Kind(f, u.node) = "REGION"
                            THEN Append(path, [region |-> u.node, index |-> u.index])
                            ELSE path, p, d)
      here(n) == Eval(f, path, n, Len(path))
      tested == Append(preds, here(In(f, c, 2)))
  IN CASE Kind(f, c) \in Ends -> Returned(preds, here(In(f, c, 3)))
       [] Kind(f, c) \in Branches ->
            IF decisions = <<>> THEN Running(tested)
            ELSE To(projs(IF Head(decisions) THEN "BRANCH_TRUE" ELSE "BRANCH_FALSE"),
                    tested, Tail(decisions))
       [] OTHER -> To(cfg_uses, preds, decisions)

GraphTrace(f, decisions) == Follow(f, f.start, <<>>, <<>>, decisions)
=============================================================================
