-------------------------------- MODULE Target ------------------------------
(***************************************************************************)
(* The compiler from a function to machine code: main lowers and optimizes *)
(* it (Compile), selects instructions (Selection), and cb_generate_x64     *)
(* schedules the selected graph (Scheduler), generates code (CodeGen),     *)
(* allocates registers (RegAlloc) and lays out the frame.                  *)
(***************************************************************************)
EXTENDS Backend, Selection, CodeGen, RegAlloc, MachineSemantics

front == <<cfg, low, opt>>
back == <<func, sel, sched, gen, mach, alloc>>

TargetInit == Init /\ SelInit /\ SchedInit /\ GenInit /\ AllocInit

Optimized == opt.phase = "done"
Selected_all == sel.phase = "done"
Generated == gen.phase = "generated"
Allocated == alloc.phase = "done"

TargetNext ==
  \/ ~Optimized /\ Next /\ UNCHANGED <<sel, sched, gen, mach, alloc>>
  \/ UNCHANGED front /\
     \/ Optimized /\ SelNext /\ UNCHANGED <<sched, gen, mach, alloc>>
     \/ Selected_all /\ SchedNext /\ UNCHANGED <<sel, gen, mach, alloc>>
     \/ Scheduled /\ GenNext /\ UNCHANGED <<func, sel, sched, alloc>>
     \/ Generated /\ AllocNext /\ UNCHANGED <<func, sel, sched, gen>>
     \/ Allocated /\ generate_frame /\ UNCHANGED <<func, sel, sched, alloc>>

TargetSpec == TargetInit /\ [][TargetNext]_<<front, back>> /\ WF_<<front, back>>(TargetNext)

-----------------------------------------------------------------------------
(* The graph that cb_select_x64 makes tests and returns what the source    *)
(* does.                                                                   *)
SelectionKeepsMeaning ==
  Selected_all /\ sched.phase = "idle" =>
    \A d \in Decisions : GraphTrace(func, d) = SourceTrace(cfg, d)

\* A branch is the last node of its block.
BranchesComeLast ==
  \A b \in BasicBlocks : \A i \in DOMAIN sched.code[b] :
    Kind(func, sched.code[b][i]) = "X64_BRANCH32" => i = Len(sched.code[b])

\* What a phi takes from an edge is computed in the block the edge leaves.
CopiesAreOnEdges ==
  \A n \in Live(func) :
    Kind(func, n) = "PHI" /\ ~Flagged(func, n, "PRODUCES_MEMORY") =>
      \A j \in 2..Len(func.node[n].ins) :
        sched.late[In(func, n, j)] = sched.late[In(func, In(func, n, 1), j - 1)]

Sound == BranchesComeLast /\ CopiesAreOnEdges /\ \A b \in BasicBlocks : Misplaced(b) = {}

MachineKeepsMeaning == \A d \in Decisions : MachineTrace(d) = SourceTrace(cfg, d)

(* When the scheduler has put no node where it cannot run, the code made   *)
(* by cb_generate_x64, phi copies and jumps included, tests and returns    *)
(* what the source does, with as many registers as there are values.       *)
GeneratedKeepsMeaning ==
  Generated /\ alloc.phase = "idle" /\ Sound => MachineKeepsMeaning

(* x64.isa:3-12, "0 = add32_rr 0, 1": what an arithmetic instruction       *)
(* writes is what it reads first.                                          *)
TiesAreKept ==
  Allocated =>
    \A b \in BasicBlocks : \A i \in DOMAIN mach.code[b] :
      LET inst == Instruction(b, i) IN
      inst.op \in TwoAddress => inst.writes[1] = inst.reads[1]

(* With three registers and the slots of the frame, after coalescing and   *)
(* spilling, the code still does.                                          *)
AllocationKeepsMeaning ==
  gen.phase = "framed" /\ Sound /\ TiesAreKept => MachineKeepsMeaning

(* Each variable and each spilled register has four bytes of the room that *)
(* the prologue makes, to itself.  The newest has offset 0, where the      *)
(* prologue has pushed ebp; no other slot reaches up there.                *)
SlotsAreApart ==
  gen.phase = "framed" =>
    LET room == Instruction(Head_block, 3).data IN
    /\ \A a \in DOMAIN gen.offset :
         /\ gen.offset[a] <= room
         /\ gen.offset[a] < 4 => gen.offset[a] = 0 /\ a = Len(mach.allocas)
    /\ \A a, c \in DOMAIN gen.offset : a < c => gen.offset[a] - gen.offset[c] >= 4

(* Every loop of the compiler ends: there is code, or regalloc has given   *)
(* up, or it has chosen a spill candidate where there is none.             *)
CodeIsProduced ==
  <>(gen.phase = "framed" \/ alloc.phase \in {"failed", "undefined"})

-----------------------------------------------------------------------------
\* The instructions of a block that can run: a jmp or a ret is the last.
Executed(b) ==
  LET ends == {i \in DOMAIN mach.code[b] : Instruction(b, i).op \in {"JMP", "RET"}}
  IN IF ends = {} THEN DOMAIN mach.code[b] ELSE 1..Min(ends)

\* The blocks that some way from the head comes to before r is written.
Unwritten(r) ==
  LET passes == {b \in Machine_blocks : \A i \in Executed(b) : r \notin Writes(Instruction(b, i))}
      reach[S \in SUBSET Int] ==
        LET T == S \cup UNION {ToSet(mach.successors[b]) : b \in S \cap passes}
        IN IF T = S THEN S ELSE reach[T]
  IN reach[{Head_block}]

WrittenBefore(r, b, i) ==
  b \in Unwritten(r) => \E j \in Executed(b) : j < i /\ r \in Writes(Instruction(b, j))

IsPhiMove(inst) ==
  \E n \in DOMAIN gen.reg_map : Kind(func, n) = "PHI" /\ inst.writes = <<gen.reg_map[n]>>

(* The comment of x64.c:1040, "defs dominate their uses except for phis":  *)
(* in the code that is made, an instruction that can run reads a register  *)
(* only when one that runs before it has written it.                       *)
DefsComeBeforeUses ==
  Generated /\ alloc.phase = "idle" =>
    \A b \in Machine_blocks : \A i \in Executed(b) :
      ~IsPhiMove(Instruction(b, i)) =>
        \A r \in Reads(Instruction(b, i)) \cap Virtual : WrittenBefore(r, b, i)
=============================================================================
