------------------------------- MODULE Backend ------------------------------
(***************************************************************************)
(* A function is lowered and optimized (Compile), and what the optimizer   *)
(* leaves is scheduled, as main and cb_dump_func do it.  The properties    *)
(* say what a code generator relies on.                                    *)
(***************************************************************************)
EXTENDS Compile, Execution

BackendInit == Init /\ SchedInit

BackendNext == \/ Next /\ UNCHANGED sched
               \/ opt.phase = "done" /\ SchedNext /\ UNCHANGED <<cfg, low, opt>>

BackendSpec == BackendInit /\ [][BackendNext]_<<vars, sched>>

-----------------------------------------------------------------------------
Scheduled == sched.phase = "done"
BasicBlocks == ToSet(sched.blocks)

(* The passes of gcm.c rely on what the passes before them leave: blocks   *)
(* have at most two ways out (gcm.c:293), a block has a predecessor whose  *)
(* dominator is known (70), a node that is placed has a use (533), whose   *)
(* block is known (416), and is placed below its early block, where the    *)
(* search for the best block ends (536).                                   *)
SchedulerAssertionsHold ==
  /\ \A b \in DOMAIN sched.successors : Len(sched.successors[b]) <= 2
  /\ sched.phase = "dominators" /\ sched.at <= Len(sched.blocks)
       => Mapped_predecessors(sched.blocks[sched.at]) # <<>>
  /\ sched.phase = "late" =>
       /\ \A n \in DOMAIN sched.late : Dominates(sched.early[n], sched.late[n])
       /\ sched.stack # <<>> /\ Top.processed
            => Outs(Top.node) # <<>> /\ Uses_placed(Top.node)

(* The rounds of build_dominator_tree give the dominators: the blocks      *)
(* without which there is no way from the head to a block.                 *)
ReachedWithout(a) ==
  LET reach[S \in SUBSET Int] ==
        LET T == S \cup (UNION {ToSet(sched.successors[b]) : b \in S} \ {a})
        IN IF T = S THEN S ELSE reach[T]
  IN reach[{Head_block} \ {a}]

DominatorsAreExact ==
  Scheduled => \A a, b \in BasicBlocks : Dominates(a, b) <=> b \notin ReachedWithout(a)

(* loop_nesting is the number of loops around a block: of headers that the *)
(* block is dominated by and leads back to, without leaving their loop.    *)
LeadsTo(b, h) ==
  LET inside == {c \in BasicBlocks : Dominates(h, c)}
      reach[S \in SUBSET Int] ==
        LET T == S \cup (UNION {ToSet(sched.successors[c]) : c \in S} \cap inside)
        IN IF T = S THEN S ELSE reach[T]
  IN \E c \in reach[{b}] : h \in ToSet(sched.successors[c])

NestingCountsLoops ==
  Scheduled => \A b \in BasicBlocks :
    sched.loop_nesting[b] = Cardinality({h \in Dominators(b) : LeadsTo(b, h)})

(* Each node the optimizer left is in one block, once; the node that       *)
(* starts a block comes first, its phis next, and a branch comes last.     *)
Place(n) == {<<b, i>> \in BasicBlocks \X (1..Cardinality(Ids(func))) :
               i <= Len(sched.code[b]) /\ sched.code[b][i] = n}

CodeIsComplete ==
  Scheduled =>
    /\ \A n \in Live(func) : Cardinality(Place(n)) = 1
    /\ \A b \in BasicBlocks : LET code == sched.code[b] IN
         /\ code[1] = b
         /\ \A i \in 2..Len(code) : block_phi(code[i]) =>
              block_phi(code[i - 1]) \/ i = 2
         /\ \A i \in DOMAIN code : block_branch(code[i]) => i = Len(code)

(* "Node must be dominated by its inputs" (gcm.c:404): where a node is     *)
(* computed its inputs have been, earlier in its block or in a block that  *)
(* dominates it; and where control goes into a region, the inputs its phis *)
(* take on that way.                                                       *)
Available(m, b, i) ==
  \E place \in Place(m) : \/ place[1] # b /\ Dominates(place[1], b)
                          \/ place[1] = b /\ place[2] < i

InputsComeFirst ==
  Scheduled =>
    \A b \in BasicBlocks : \A i \in DOMAIN sched.code[b] :
      LET n == sched.code[b][i] IN
      CASE block_phi(n) -> \A j \in 2..Len(func.node[n].ins) :
             LET from == sched.late[In(func, b, j - 1)]
             IN Available(In(func, n, j), from, Len(sched.code[from]) + 1)
        [] Kind(func, n) = "REGION" -> TRUE
        [] OTHER -> \A m \in ToSet(Ins(n)) : Available(m, b, i)

(* The order of a block is wrong in one case only: a node comes before its *)
(* input, or a store before a load it must follow, when that other node    *)
(* needs it in turn, through the phi of a loop which the walk from END did *)
(* not come to first.                                                      *)
Needs(n) ==
  LET all[S \in SUBSET Int] ==
        LET T == S \cup UNION {ToSet(Before(m)) : m \in S} IN IF T = S THEN S ELSE all[T]
  IN all[{n}]

Misplaced(b) ==
  {<<n, m>> \in ToSet(sched.code[b]) \X Live(func) :
     /\ ~block_phi(n) /\ Kind(func, n) # "REGION" /\ m \in ToSet(Before(n))
     /\ \A place \in Place(n) : ~Available(m, b, place[2])}

OnlyCyclesAreMisplaced ==
  Scheduled => \A b \in BasicBlocks : \A pair \in Misplaced(b) :
    sched.late[pair[2]] = b /\ pair[1] \in Needs(pair[2])

(* With no node misplaced, the schedule, run block by block with one       *)
(* memory, tests and returns what the source does: loads are ordered right *)
(* among the stores that change what they read, although only inputs and   *)
(* anti-dependences order them, and writers off the way from a load's      *)
(* block up to its early block are not looked at (gcm.c:449).              *)
ScheduleKeepsMeaning ==
  Scheduled /\ (\A b \in BasicBlocks : Misplaced(b) = {}) =>
    \A d \in Decisions : ScheduleTrace(d) = SourceTrace(cfg, d)
=============================================================================
