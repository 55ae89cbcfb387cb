------------------------------- MODULE RegAlloc -----------------------------
(***************************************************************************)
(* regalloc of src/cringe/back/x64.c.  Each try computes liveness and      *)
(* interference, coalesces copies until none is left, simplifies the       *)
(* interference graph onto a stack and colours the registers as they come  *)
(* off it; a register without a colour is spilled, and there is another    *)
(* try.  One action is one turn of a loop.                                 *)
(***************************************************************************)
EXTENDS MachineCode, Maps

CONSTANTS WordBits,   \* the bits of a word of a bitset: 64
          MaxTries    \* the tries regalloc makes: 10

ASSUME BoundsAssumption == WordBits \in Nat \ {0} /\ MaxTries \in Nat \ {0}

VARIABLE alloc   \* the locals of regalloc, regalloc_try_color and build_intf

NULL_INDEX == -1

Registers == 0..(mach.next_reg - 1)
Virtual == FIRST_VR..(mach.next_reg - 1)
Machine_blocks == ToSet(mach.blocks)

AllocInit ==
  alloc = [phase |-> "idle", iterations |-> 0, prev |-> 0, at |-> 1, changed |-> FALSE,
           live_out |-> <<>>, intf |-> {}, spill_cost |-> <<>>, area |-> <<>>,
           copies |-> <<>>, coalesce_map |-> <<>>, left |-> <<>>, degree |-> <<>>,
           best_index |-> NULL_INDEX,
           stack |-> <<>>, map |-> <<>>, spill_loc |-> <<>>]

Allocating(p) == alloc.phase = p

-----------------------------------------------------------------------------
(* compute_live_out.                                                       *)
Ue_var(b) ==
  {r \in Registers :
     \E i \in DOMAIN mach.code[b] :
       r \in Reads(Instruction(b, i)) /\ \A j \in 1..(i - 1) : r \notin Writes(Instruction(b, j))}

Var_kill(b) == UNION {Writes(mach.code[b][i]) : i \in DOMAIN mach.code[b]}

\* The registers of the words that the rounds go through: as many words as
\* a bitset of blocks has.
InWords == {r \in Registers :
              r < WordBits * ((Len(mach.blocks) + WordBits - 1) \div WordBits)}

\* Mutated: the successors' own reads are left out.
Flows_killed(live_out, m) == live_out[m] \ Var_kill(m)

Flows(live_out, m) == Ue_var(m) \cup (live_out[m] \ Var_kill(m))

live_start ==
  /\ Allocating("liveness_start")
  /\ alloc' = [alloc EXCEPT !.phase = "liveness", !.at = 1, !.changed = FALSE,
                            !.live_out = [b \in Machine_blocks |-> {}]]
  /\ UNCHANGED mach

live_block ==
  /\ Allocating("liveness") /\ alloc.at <= Len(mach.blocks)
  /\ LET n == mach.blocks[alloc.at]
         flow == UNION {Flows(alloc.live_out, m) : m \in ToSet(mach.successors[n])}
         out == [alloc.live_out EXCEPT ![n] = @ \cup (flow \cap InWords)]
     IN alloc' = [alloc EXCEPT !.at = @ + 1, !.live_out = out,
                               !.changed = @ \/ out # alloc.live_out]
  /\ UNCHANGED mach

live_round ==
  /\ Allocating("liveness") /\ alloc.at > Len(mach.blocks)
  /\ alloc' = IF alloc.changed THEN [alloc EXCEPT !.at = 1, !.changed = FALSE]
              ELSE [alloc EXCEPT !.phase = "interference"]
  /\ UNCHANGED mach

-----------------------------------------------------------------------------
(* build_intf: each block is gone through backwards with the set of the    *)
(* registers that are live.                                                *)
\* The registers that are live before each instruction, and at the end.
LiveBefore(b) ==
  LET back[i \in Int, live \in SUBSET Int] ==
        IF i = 0 THEN <<live>>
        ELSE Append(back[i - 1, (live \ Writes(Instruction(b, i))) \cup Reads(Instruction(b, i))], live)
  IN back[Len(mach.code[b]), alloc.live_out[b]]

Interferes(live, i) == live[i + 1]

\* Both x next to y and y next to x, for all y of a set but x itself.
Beside(x, ys) == {<<x, y>> : y \in ys \ {x}} \cup {<<y, x>> : y \in ys \ {x}}

BlockIntf(b, live) ==
  UNION {UNION {Beside(x, Interferes(live, i)) : x \in Writes(Instruction(b, i))}
         : i \in DOMAIN mach.code[b]}

Total(numbers) == FoldLeft(+, 0, numbers)

exec_factor(b) == 10 ^ mach.loop_nesting[b]

Occurrences(regs, r) == Cardinality({j \in DOMAIN regs : regs[j] = r})

BlockCost(b, r) ==
  exec_factor(b) * Total([i \in DOMAIN mach.code[b] |->
                            Occurrences(Instruction(b, i).writes, r)
                            + Occurrences(Instruction(b, i).reads, r)])

BlockArea(b, live, r) ==
  exec_factor(b) * Total([i \in DOMAIN mach.code[b] |->
                            IF r \in live[i] THEN Cardinality(live[i]) ELSE 0])

BlockCopies(b) ==
  SelectSeq(Reverse(mach.code[b]), LAMBDA inst : inst.op = "MOV32_RR")

build_intf ==
  /\ Allocating("interference")
  /\ \E live \in {[b \in Machine_blocks |-> LiveBefore(b)]} :
       LET sum(F(_)) == Total([k \in DOMAIN mach.blocks |-> F(mach.blocks[k])]) IN
       alloc' = [alloc EXCEPT
                   !.phase = "coalesce", !.at = 1, !.changed = FALSE,
                   !.intf = UNION {BlockIntf(b, live[b]) : b \in Machine_blocks},
                   !.spill_cost = [r \in Virtual |-> sum(LAMBDA b : BlockCost(b, r))],
                   !.area = [r \in Virtual |-> sum(LAMBDA b : BlockArea(b, live[b], r))],
                   !.copies = FlattenSeq([k \in DOMAIN mach.blocks |->
                                            BlockCopies(mach.blocks[k])])]
  /\ UNCHANGED mach

Intf(x, y) == <<x, y>> \in alloc.intf

Adj(x) == {y \in Registers : Intf(x, y)}

-----------------------------------------------------------------------------
\* get_coalesced: the register that x has become part of.
get_coalesced(x) ==
  LET find[r \in Int] == IF alloc.coalesce_map[r] = r THEN r ELSE find[alloc.coalesce_map[r]]
  IN find[x]

MayCoalesce(dest, src) == ~Intf(dest, src)

coalesce ==
  /\ Allocating("coalesce") /\ alloc.at <= Len(alloc.copies)
  /\ LET copy == alloc.copies[alloc.at]
         dest == get_coalesced(copy.writes[1])
         src  == get_coalesced(copy.reads[1])
     IN alloc' =
          IF dest = src \/ dest < FIRST_VR \/ src < FIRST_VR \/ ~MayCoalesce(dest, src)
            THEN [alloc EXCEPT !.at = @ + 1]
            ELSE [alloc EXCEPT !.at = @ + 1, !.changed = TRUE,
                               !.coalesce_map[dest] = src,
                               !.intf = @ \cup Beside(src, Adj(dest))]
  /\ UNCHANGED mach

Renamed(inst, name) ==
  [inst EXCEPT !.writes = [j \in DOMAIN @ |-> name[@[j]]],
               !.reads = [j \in DOMAIN @ |-> name[@[j]]]]

Moves_itself(inst) == inst.op = "MOV32_RR" /\ inst.reads = inst.writes

coalesce_rewrite ==
  /\ Allocating("coalesce") /\ alloc.at > Len(alloc.copies) /\ alloc.changed
  /\ LET coalesced == [r \in Registers |-> get_coalesced(r)]
     IN mach' = [mach EXCEPT !.code =
                   [b \in Machine_blocks |->
                      SelectSeq([i \in DOMAIN @[b] |-> Renamed(@[b][i], coalesced)],
                                LAMBDA inst : ~Moves_itself(inst))]]
  /\ alloc' = [alloc EXCEPT !.phase = "liveness_start"]

-----------------------------------------------------------------------------
(* Simplification: registers with few neighbours left go on the stack.  A  *)
(* scan goes from the last of those left to the first, and the last takes  *)
(* the place of one that is taken out.                                     *)
simplify_start ==
  /\ Allocating("coalesce") /\ alloc.at > Len(alloc.copies) /\ ~alloc.changed
  /\ alloc' = [alloc EXCEPT !.phase = "simplify", !.at = mach.next_reg - FIRST_VR,
                            !.left = [i \in 1..(mach.next_reg - FIRST_VR) |-> FIRST_VR + i - 1],
                            !.degree = [r \in Registers |-> Cardinality(Adj(r))],
                            !.stack = <<>>]
  /\ UNCHANGED mach

add_to_select_stack(index) ==
  LET x == alloc.left[index] IN
  [alloc EXCEPT
     !.left = Front([@ EXCEPT ![index] = Last(alloc.left)]),
     !.stack = Append(@, x),
     !.degree = [y \in DOMAIN @ |-> IF Intf(x, y) THEN @[y] - 1 ELSE @[y]]]

simplify ==
  /\ Allocating("simplify") /\ alloc.at > 0
  /\ alloc' = [IF alloc.degree[alloc.left[alloc.at]] < NUM_ALLOCATABLE_PRS
                 THEN add_to_select_stack(alloc.at) ELSE alloc EXCEPT !.at = @ - 1]
  /\ UNCHANGED mach

\* When a scan leaves registers, one of them is chosen.
choose_candidate ==
  /\ Allocating("simplify") /\ alloc.at <= 0 /\ alloc.left # <<>>
  /\ alloc' = [alloc EXCEPT !.phase = "candidate", !.at = 1, !.best_index = NULL_INDEX]
  /\ UNCHANGED mach

(* The cost of a register, spill_cost / (degree * area), is infinite when  *)
(* it has no neighbours left or is live nowhere; no such cost is the best. *)
IsCandidate(r) == alloc.degree[r] > 0 /\ alloc.area[r] > 0

Cheaper(r, q) ==
  alloc.spill_cost[r] * alloc.degree[q] * alloc.area[q]
  < alloc.spill_cost[q] * alloc.degree[r] * alloc.area[r]

compare_candidate ==
  /\ Allocating("candidate") /\ alloc.at <= Len(alloc.left)
  /\ LET r == alloc.left[alloc.at] IN
     alloc' = IF /\ IsCandidate(r)
                 /\ alloc.best_index = NULL_INDEX \/ Cheaper(r, alloc.left[alloc.best_index])
                THEN [alloc EXCEPT !.best_index = alloc.at, !.at = @ + 1]
                ELSE [alloc EXCEPT !.at = @ + 1]
  /\ UNCHANGED mach

\* With no candidate the code reads simplify_left[-1].
push_candidate ==
  /\ Allocating("candidate") /\ alloc.at > Len(alloc.left)
  /\ alloc' = IF alloc.best_index = NULL_INDEX THEN [alloc EXCEPT !.phase = "undefined"]
              ELSE [add_to_select_stack(alloc.best_index)
                      EXCEPT !.phase = "simplify", !.at = Len(alloc.left) - 1]
  /\ UNCHANGED mach

-----------------------------------------------------------------------------
\* The physical registers are their own colours.
color_start ==
  /\ Allocating("simplify") /\ alloc.at <= 0 /\ alloc.left = <<>>
  /\ alloc' = [alloc EXCEPT !.phase = "color",
                            !.map = [r \in 0..(FIRST_VR - 1) |-> r], !.spill_loc = <<>>]
  /\ UNCHANGED mach

Taken(x) == {alloc.map[y] : y \in {z \in DOMAIN alloc.map : Intf(x, z)}}

\* Mutated: the colours of later registers are not looked at.
Free_fixed(x) ==
  (0..(NUM_ALLOCATABLE_PRS - 1)) \ {y \in 0..(FIRST_VR - 1) : Intf(x, y)}

Free(x) == (0..(NUM_ALLOCATABLE_PRS - 1)) \ Taken(x)

color ==
  /\ Allocating("color") /\ alloc.stack # <<>>
  /\ LET x == Last(alloc.stack) IN
     IF Free(x) # {}
       THEN /\ alloc' = [alloc EXCEPT !.stack = Front(@), !.map = With(@, x, Min(Free(x)))]
            /\ UNCHANGED mach
       ELSE /\ alloc' = [alloc EXCEPT !.stack = Front(@),
                                      !.spill_loc = With(@, x, Len(mach.allocas) + 1)]
            /\ mach' = [mach EXCEPT !.allocas = Append(@, Spilled)]

-----------------------------------------------------------------------------
(* Spilling: a register is loaded into a new one before each read, and     *)
(* stored from a new one after each write.                                 *)
Is_spilled(r) == r \in DOMAIN alloc.spill_loc

\* The operands in the order they are given new registers.
Spilled_at(regs) == SelectSeq([j \in DOMAIN regs |-> j], LAMBDA j : Is_spilled(regs[j]))

Replaced(regs, first) ==
  LET at == Spilled_at(regs) IN
  [j \in DOMAIN regs |->
     IF Is_spilled(regs[j]) THEN first + (CHOOSE k \in DOMAIN at : at[k] = j) - 1 ELSE regs[j]]

\* Mutated: what is written is not stored.
SpillStores_none(inst, next_reg) == <<>>

SpillStores(inst, next_reg) ==
  LET at == Spilled_at(inst.writes) IN
  [k \in DOMAIN at |-> inst_mov32_mr(alloc.spill_loc[inst.writes[at[k]]], next_reg + k - 1)]

SpillLoads(inst, next_reg) ==
  LET at == Spilled_at(inst.reads) IN
  [k \in DOMAIN at |-> inst_mov32_rm(next_reg + k - 1, alloc.spill_loc[inst.reads[at[k]]])]

\* An instruction with its loads and stores.
WithSpills(inst, next_reg) ==
  LET after_reads == next_reg + Len(Spilled_at(inst.reads)) IN
  SpillLoads(inst, next_reg)
  \o <<[inst EXCEPT !.reads = Replaced(@, next_reg), !.writes = Replaced(@, after_reads)]>>
  \o SpillStores(inst, after_reads)

\* The new registers that the first n instructions of a block need.
SpillRegs(b, n) ==
  Total([i \in 1..n |-> LET inst == Instruction(b, i)
                        IN Len(Spilled_at(inst.reads)) + Len(Spilled_at(inst.writes))])

spill_start ==
  /\ Allocating("color") /\ alloc.stack = <<>> /\ alloc.spill_loc # <<>>
  /\ alloc' = [alloc EXCEPT !.phase = "spill", !.at = 1]
  /\ UNCHANGED mach

spill_rewrite ==
  /\ Allocating("spill") /\ alloc.at <= Len(mach.blocks)
  /\ LET b == mach.blocks[alloc.at]
         respilled == [i \in DOMAIN mach.code[b] |->
                         WithSpills(Instruction(b, i), mach.next_reg + SpillRegs(b, i - 1))]
     IN mach' = [mach EXCEPT !.code[b] = FlattenSeq(respilled),
                             !.next_reg = @ + SpillRegs(b, Len(mach.code[b]))]
  /\ alloc' = [alloc EXCEPT !.at = @ + 1]

spill_done ==
  /\ Allocating("spill") /\ alloc.at > Len(mach.blocks)
  /\ alloc' = [alloc EXCEPT !.phase = "tried"]
  /\ UNCHANGED mach

color_rewrite ==
  /\ Allocating("color") /\ alloc.stack = <<>> /\ alloc.spill_loc = <<>>
  /\ mach' = [mach EXCEPT !.code =
                [b \in Machine_blocks |->
                   [i \in DOMAIN @[b] |-> Renamed(@[b][i], alloc.map)]]]
  /\ alloc' = [alloc EXCEPT !.phase = "tried"]

-----------------------------------------------------------------------------
regalloc ==
  /\ Allocating("idle")
  /\ alloc' = [alloc EXCEPT !.phase = "try", !.prev = mach.next_reg]
  /\ UNCHANGED mach

\* while (iterations++ < 10)
try_color ==
  /\ Allocating("try")
  /\ alloc' = IF alloc.iterations < MaxTries
                THEN [alloc EXCEPT !.phase = "liveness_start", !.iterations = @ + 1,
                                   !.coalesce_map = [r \in Registers |-> r]]
                ELSE [alloc EXCEPT !.phase = "end", !.iterations = @ + 1]
  /\ UNCHANGED mach

\* A try that has made no new register is the last.
try_end ==
  /\ Allocating("tried")
  /\ alloc' = IF mach.next_reg = alloc.prev THEN [alloc EXCEPT !.phase = "end"]
              ELSE [alloc EXCEPT !.phase = "try", !.prev = mach.next_reg]
  /\ UNCHANGED mach

\* "failed" stands for the message and exit(1).
regalloc_end ==
  /\ Allocating("end")
  /\ alloc' = [alloc EXCEPT !.phase = IF alloc.iterations = MaxTries THEN "failed" ELSE "done"]
  /\ UNCHANGED mach

AllocNext ==
  \/ regalloc \/ try_color \/ try_end \/ live_start \/ live_block \/ live_round
  \/ build_intf \/ coalesce \/ coalesce_rewrite \/ simplify_start \/ simplify
  \/ choose_candidate \/ compare_candidate \/ push_candidate
  \/ color_start \/ color \/ spill_start \/ spill_rewrite \/ spill_done
  \/ color_rewrite \/ regalloc_end

-----------------------------------------------------------------------------
(* A register is live at the end of a block when some way from there comes *)
(* to a block that reads it, through blocks that do not write it before:   *)
(* the block is in each set that holds all blocks from which control goes  *)
(* to such a reader, or to a member that does not write the register.      *)
LiveAtEnd(r) ==
  LET reads == {b \in Machine_blocks : r \in Ue_var(b)}
      passes == {b \in Machine_blocks : r \notin Var_kill(b)}
      ahead(S) == {b \in Machine_blocks : ToSet(mach.successors[b]) \cap S # {}}
      closed == {S \in SUBSET Machine_blocks : ahead(reads \cup (S \cap passes)) \subseteq S}
  IN {b \in Machine_blocks : \A S \in closed : b \in S}

(* compute_live_out's rounds over words of bits, which end when one        *)
(* changes nothing, find just the registers that are live.                 *)
LiveOutIsExact ==
  Allocating("interference") =>
    \A r \in Registers : LiveAtEnd(r) = {b \in Machine_blocks : r \in alloc.live_out[b]}

(* regalloc_try_color gives neighbours different colours; when the stack   *)
(* is empty each virtual register has a colour that the allocator may      *)
(* give, or a slot, which is no other register's and no variable's.        *)
ColouringIsProper ==
  Allocating("color") =>
    /\ \A r, s \in DOMAIN alloc.map : Intf(r, s) => alloc.map[r] # alloc.map[s]
    /\ \A r, s \in DOMAIN alloc.spill_loc : r # s => alloc.spill_loc[r] # alloc.spill_loc[s]
    /\ \A r \in DOMAIN alloc.spill_loc : mach.allocas[alloc.spill_loc[r]] = Spilled
    /\ alloc.stack = <<>> =>
         \A r \in Virtual \ DOMAIN alloc.spill_loc :
           r \in DOMAIN alloc.map /\ alloc.map[r] < NUM_ALLOCATABLE_PRS
=============================================================================
