-------------------------------- MODULE Passes ------------------------------
(***************************************************************************)
(* The middle of the compiler, as main runs it: a function is lowered      *)
(* (lower.c), and then its graph is optimized (opt.c).  What holds of the  *)
(* graph, the worklist and the value table in every state of the two.      *)
(***************************************************************************)
EXTENDS Lowering, Optimizer

CONSTANT Programs   \* the functions to compile, as sem_analyze leaves them

Jumping == {"GOTO", "BRANCH"}
Producing == {"INT_CONST", "ADD", "SUB", "MUL", "DIV", "CAST", "LOAD", "ALLOCA"}

\* How many operands an instruction may have.
Operands(kind) ==
  CASE kind \in {"INT_CONST", "ALLOCA", "GOTO"} -> {0}
    [] kind \in {"CAST", "LOAD", "BRANCH"} -> {1}
    [] kind \in {"ADD", "SUB", "MUL", "DIV", "STORE"} -> {2}
    [] kind = "RETURN" -> {0, 1}
    [] OTHER -> {}

Targets(kind) == CASE kind = "GOTO" -> 1 [] kind = "BRANCH" -> 2 [] OTHER -> 0

\* The place of an instruction comes before another one.
Earlier(c, j, b, i) == c < b \/ (c = b /\ j < i)

(* A program, as the parser and sem_analyze leave it (sem.c:102-153):      *)
(* values are made before they are used, jumps are the last of their       *)
(* blocks and go to blocks, all blocks but the first are jumped to, and    *)
(* some block does not jump.                                               *)
IsProgram(program) ==
  /\ DOMAIN program = 1..Len(program) /\ Len(program) \in Nat \ {0}
  /\ \A b \in DOMAIN program :
       LET code == program[b] IN
       /\ DOMAIN code = 1..Len(code) /\ Len(code) \in Nat
       /\ \A i \in DOMAIN code :
            /\ DOMAIN code[i].ins = 1..Len(code[i].ins)
            /\ Len(code[i].ins) \in Operands(code[i].kind)
            /\ \A k \in DOMAIN code[i].ins :
                 \E c \in DOMAIN program : \E j \in DOMAIN program[c] :
                   /\ Earlier(c, j, b, i) /\ program[c][j].kind \in Producing
                   /\ program[c][j].out = code[i].ins[k]
            /\ code[i].kind \in Jumping =>
                 /\ i = Len(code) /\ DOMAIN code[i].data = 1..Targets(code[i].kind)
                 /\ \A k \in DOMAIN code[i].data : code[i].data[k] \in DOMAIN program
  /\ \A b \in DOMAIN program \ {1} :
       \E c \in DOMAIN program : \E i \in DOMAIN program[c] :
         /\ program[c][i].kind \in Jumping
         /\ \E k \in DOMAIN program[c][i].data : program[c][i].data[k] = b
  /\ \E b \in DOMAIN program :
       \A i \in DOMAIN program[b] : program[b][i].kind \notin Jumping

ASSUME ProgramAssumption == \A program \in Programs : IsProgram(program)

vars == <<cfg, func, low, opt>>

Init == LowerInit(Programs) /\ OptInit

Next == \/ low.stage # "lowered" /\ LowerNext /\ UNCHANGED opt
        \/ low.stage = "lowered" /\ OptNext /\ UNCHANGED <<cfg, low>>

Spec == Init /\ [][Next]_vars /\ WF_vars(Next)

-----------------------------------------------------------------------------
Lowered == low.stage = "lowered"

\* Between two peepholes, and at the end.
Settled == opt.phase \in {"peepholes", "done"}

Queued == W!Elements(opt.worklist)

(* The use lists of the live graph are its inputs, read backwards, at      *)
(* every moment of a replacement, a removal and a forwarding.              *)
UsesAreInputs == Lowered => UsesMatchIns(func)

(* No live node is forgotten: each waits on the worklist or has been       *)
(* looked up since it last changed.                                        *)
EachNodeIsHeld == Settled => Live(func) \subseteq Queued \cup opt.table

(* The assertions about forwarding, where they are evaluated: it meets     *)
(* only phis and stores and finds every input mapped (opt.c:213, 235), and *)
(* it sets the inputs of a phi once (core.c:28), as many as its region has *)
(* (core.c:205).                                                           *)
ForwardingHolds ==
  opt.phase = "forward" /\ opt.stack # <<>> =>
    LET top == Last(opt.stack) IN
    /\ Kind(func, top.node) \in {"PHI", "STORE"}
    /\ top.processed =>
         /\ \A i \in DOMAIN Values(top.node) : Mapped(Values(top.node)[i])
         /\ func.node[opt.map[top.node]].ins = <<>>
         /\ Len(Values(top.node)) = Len(func.node[In(func, top.node, 1)].ins)

(* A node that stays in the value table keeps what it was hashed by: its   *)
(* flags, kind, inputs and data (gvn.c:9, opt.c:313).                      *)
KeysStay ==
  [][\A n \in opt.table \cap opt'.table : Contents(func')[n] = Contents(func)[n]]_vars
=============================================================================
