---------------------------- MODULE RegAllocProofs --------------------------
(***************************************************************************)
(* Whatever the code, its liveness and its costs: a try of the register    *)
(* allocator leaves no virtual register without a colour or a slot of its  *)
(* own, and neighbours never share a colour.                               *)
(***************************************************************************)
EXTENDS RegAlloc, TLAPS

(* The allocator by itself, from any machine code.  next_reg grows by sums *)
(* over code, of which the prover cannot tell that they are numbers; that  *)
(* it is one is the assumption Counted.                                    *)
AllocFields ==
  {"phase", "iterations", "prev", "at", "changed", "live_out", "intf", "spill_cost", "area",
   "copies", "coalesce_map", "left", "degree", "best_index", "stack", "map", "spill_loc"}

MachFields ==
  {"blocks", "code", "terminator_count", "successors", "loop_nesting", "next_reg", "allocas"}

RegAllocInit == AllocInit /\ DOMAIN mach = MachFields /\ mach.allocas \in Seq(Int)

RegAllocSpec == RegAllocInit /\ [][AllocNext]_<<mach, alloc>>

Counted == mach.next_reg \in Nat

-----------------------------------------------------------------------------
\* The inductive invariant.
Shape ==
  /\ DOMAIN alloc = AllocFields
  /\ DOMAIN mach = MachFields
  /\ mach.allocas \in Seq(Int)

Undirected(intf) == \A x, y : <<x, y>> \in intf => x # y /\ <<y, x>> \in intf

IntfIsUndirected ==
  alloc.phase \in {"coalesce", "simplify", "candidate", "color"} => Undirected(alloc.intf)

\* No register is lost between simplify_left and the stack.
EachIsLeftOrPushed ==
  alloc.phase \in {"simplify", "candidate"} =>
    /\ alloc.left \in Seq(Int)
    /\ alloc.stack \in Seq(Int)
    /\ alloc.at \in Int
    /\ alloc.phase = "simplify" => alloc.at <= Len(alloc.left)
    /\ alloc.phase = "candidate" =>
         /\ alloc.at >= 1
         /\ alloc.best_index \in {NULL_INDEX} \cup 1..Len(alloc.left)
    /\ Virtual \subseteq ToSet(alloc.left) \cup ToSet(alloc.stack)

Coloured == {r \in DOMAIN alloc.map : alloc.map[r] < NUM_ALLOCATABLE_PRS}

EachIsPushedOrPlaced ==
  Allocating("color") =>
    /\ alloc.stack \in Seq(Int)
    /\ Virtual \subseteq ToSet(alloc.stack) \cup DOMAIN alloc.spill_loc \cup Coloured

ColoursDiffer ==
  Allocating("color") =>
    \A r, s \in DOMAIN alloc.map : Intf(r, s) => alloc.map[r] # alloc.map[s]

SlotsDiffer ==
  Allocating("color") =>
    /\ \A r \in DOMAIN alloc.spill_loc :
         /\ alloc.spill_loc[r] \in 1..Len(mach.allocas)
         /\ mach.allocas[alloc.spill_loc[r]] = Spilled
    /\ \A r, s \in DOMAIN alloc.spill_loc : r # s => alloc.spill_loc[r] # alloc.spill_loc[s]

IInv ==
  /\ Shape
  /\ IntfIsUndirected
  /\ EachIsLeftOrPushed
  /\ EachIsPushedOrPlaced
  /\ ColoursDiffer
  /\ SlotsDiffer

-----------------------------------------------------------------------------
(* Taking the last element leaves the others.                              *)
LEMMA FrontKeepsOthers ==
  ASSUME NEW s \in Seq(Int), s # <<>>
  PROVE  /\ Front(s) \in Seq(Int)
         /\ Len(Front(s)) = Len(s) - 1
         /\ \A i \in 1..(Len(s) - 1) : Front(s)[i] = s[i]
         /\ ToSet(s) \subseteq ToSet(Front(s)) \cup {Last(s)}
<1>1. Len(s) \in Nat /\ Len(s) > 0 /\ DOMAIN s = 1..Len(s)
  OBVIOUS
<1>2. /\ Front(s) \in Seq(Int)
      /\ Len(Front(s)) = Len(s) - 1
      /\ \A i \in 1..(Len(s) - 1) : Front(s)[i] = s[i]
  BY <1>1 DEF Front
<1>3. DOMAIN Front(s) = 1..(Len(s) - 1)
  BY <1>1, <1>2
<1>4. ASSUME NEW i \in DOMAIN s
      PROVE  s[i] \in ToSet(Front(s)) \cup {Last(s)}
  <2>1. CASE i = Len(s)
    BY <2>1 DEF Last
  <2>2. CASE i # Len(s)
    <3>1. i \in DOMAIN Front(s) /\ Front(s)[i] = s[i]
      BY <2>2, <1>1, <1>2, <1>3
    <3> QED
      BY <3>1 DEF ToSet
  <2> QED
    BY <2>1, <2>2
<1> QED
  BY <1>2, <1>4 DEF ToSet

(* Taking an element out, with the last one put in its place, leaves the   *)
(* others (add_to_select_stack, x64.c:698).                                *)
LEMMA SwapKeepsOthers ==
  ASSUME NEW s \in Seq(Int), NEW i \in 1..Len(s)
  PROVE  LET t == Front([s EXCEPT ![i] = Last(s)]) IN
         /\ t \in Seq(Int)
         /\ Len(t) = Len(s) - 1
         /\ ToSet(s) \subseteq ToSet(t) \cup {s[i]}
<1> DEFINE u == [s EXCEPT ![i] = Last(s)]
<1>1. Len(s) \in Nat /\ Len(s) > 0 /\ DOMAIN s = 1..Len(s) /\ Last(s) = s[Len(s)]
  BY DEF Last
<1>2. u \in Seq(Int) /\ Len(u) = Len(s) /\ u # <<>>
  BY <1>1
<1>3. \A j \in 1..Len(s) : u[j] = IF j = i THEN s[Len(s)] ELSE s[j]
  BY <1>1
<1> HIDE DEF u
<1>4. /\ Front(u) \in Seq(Int)
      /\ Len(Front(u)) = Len(s) - 1
      /\ \A j \in 1..(Len(s) - 1) : Front(u)[j] = u[j]
  BY <1>2, FrontKeepsOthers
<1>5. DOMAIN Front(u) = 1..(Len(s) - 1)
  BY <1>1, <1>4
<1>6. ASSUME NEW j \in DOMAIN s, j # i
      PROVE  s[j] \in ToSet(Front(u))
  <2>1. CASE j = Len(s)
    <3>1. i \in 1..(Len(s) - 1)
      BY <2>1, <1>6, <1>1
    <3>2. i \in DOMAIN Front(u) /\ Front(u)[i] = s[j]
      BY <3>1, <2>1, <1>3, <1>4, <1>5
    <3> QED
      BY <3>2 DEF ToSet
  <2>2. CASE j # Len(s)
    <3>1. j \in 1..(Len(s) - 1)
      BY <2>2, <1>6, <1>1
    <3>2. j \in DOMAIN Front(u) /\ Front(u)[j] = s[j]
      BY <3>1, <1>6, <1>1, <1>3, <1>4, <1>5
    <3> QED
      BY <3>2 DEF ToSet
  <2> QED
    BY <2>1, <2>2
<1>7. ToSet(s) \subseteq ToSet(Front(u)) \cup {s[i]}
  BY <1>6 DEF ToSet
<1> QED
  BY <1>4, <1>7 DEF u

(* Append keeps what was there.                                            *)
LEMMA AppendAddsOne ==
  ASSUME NEW s \in Seq(Int), NEW e \in Int
  PROVE  /\ Append(s, e) \in Seq(Int)
         /\ ToSet(s) \cup {e} \subseteq ToSet(Append(s, e))
<1>1. /\ Append(s, e) \in Seq(Int)
      /\ DOMAIN s = 1..Len(s) /\ DOMAIN Append(s, e) = 1..(Len(s) + 1) /\ Len(s) \in Nat
      /\ \A i \in 1..Len(s) : Append(s, e)[i] = s[i]
      /\ Append(s, e)[Len(s) + 1] = e
  OBVIOUS
<1>2. \A i \in DOMAIN s : i \in DOMAIN Append(s, e) /\ Append(s, e)[i] = s[i]
  BY <1>1
<1>3. Len(s) + 1 \in DOMAIN Append(s, e)
  BY <1>1
<1> QED
  BY <1>1, <1>2, <1>3 DEF ToSet

(* A set of colours that is not empty has a least one.                     *)
LEMMA MinOfColours ==
  ASSUME NEW S, S \subseteq 0..(NUM_ALLOCATABLE_PRS - 1), S # {}
  PROVE  Min(S) \in S
<1>1. S \subseteq {0, 1, 2}
  BY DEF NUM_ALLOCATABLE_PRS
<1>2. \E m \in S : \A n \in S : m <= n
  <2> \A n \in S : n = 0 \/ n = 1 \/ n = 2
    BY <1>1
  <2>1. CASE 0 \in S
    BY <2>1
  <2>2. CASE 0 \notin S /\ 1 \in S
    BY <2>2
  <2>3. CASE 0 \notin S /\ 1 \notin S
    <3>1. PICK m \in S : TRUE
      OBVIOUS
    <3> QED
      BY <3>1, <2>3
  <2> QED
    BY <2>1, <2>2, <2>3
<1> QED
  BY <1>2 DEF Min

(* Neighbours are each other's, and never a register itself.               *)
LEMMA BesideIsUndirected ==
  ASSUME NEW x, NEW ys
  PROVE  Undirected(Beside(x, ys))
BY DEF Undirected, Beside

-----------------------------------------------------------------------------
(* Before the first try only the shape counts.                             *)
LEMMA InitHasInv == RegAllocInit => IInv
BY DEF RegAllocInit, AllocInit, IInv, Shape, IntfIsUndirected, EachIsLeftOrPushed,
       EachIsPushedOrPlaced, ColoursDiffer, SlotsDiffer, Allocating, AllocFields

Phases_of_try == {"coalesce", "simplify", "candidate", "color"}

(* Outside of coalescing, simplifying and colouring only the shape counts. *)
LEMMA ElsewhereIsEnough ==
  ASSUME Shape, alloc.phase \notin Phases_of_try
  PROVE  IInv
BY DEF IInv, Phases_of_try, IntfIsUndirected, EachIsLeftOrPushed, EachIsPushedOrPlaced,
       ColoursDiffer, SlotsDiffer, Allocating

Quiet ==
  \/ regalloc \/ try_color \/ try_end \/ live_start \/ live_block \/ live_round
  \/ coalesce_rewrite \/ spill_start \/ spill_rewrite \/ spill_done \/ color_rewrite
  \/ regalloc_end

LEMMA QuietKeepsShape ==
  ASSUME Shape, Quiet
  PROVE  Shape' /\ alloc'.phase \notin Phases_of_try
<1> USE DEF Shape, AllocFields, Phases_of_try, Allocating
<1>1. CASE regalloc
  BY <1>1 DEF regalloc
<1>2. CASE try_color
  BY <1>2 DEF try_color
<1>3. CASE try_end
  BY <1>3 DEF try_end
<1>4. CASE live_start
  BY <1>4 DEF live_start
<1>5. CASE live_block
  BY <1>5 DEF live_block
<1>6. CASE live_round
  BY <1>6 DEF live_round
<1>7. CASE coalesce_rewrite
  BY <1>7 DEF coalesce_rewrite, MachFields
<1>8. CASE spill_start
  BY <1>8 DEF spill_start
<1>9. CASE spill_rewrite
  BY <1>9 DEF spill_rewrite, MachFields
<1>10. CASE spill_done
  BY <1>10 DEF spill_done
<1>11. CASE color_rewrite
  BY <1>11 DEF color_rewrite, MachFields
<1>12. CASE regalloc_end
  BY <1>12 DEF regalloc_end
<1> QED
  BY <1>1, <1>2, <1>3, <1>4, <1>5, <1>6, <1>7, <1>8, <1>9, <1>10, <1>11, <1>12,
     Quiet DEF Quiet
----------------------------------------------------------------
(* build_intf makes an undirected graph.                                   *)
LEMMA BuildKeepsInv ==
  ASSUME IInv, build_intf
  PROVE  IInv'
<1>1. Shape' /\ alloc'.phase = "coalesce"
  BY DEF build_intf, IInv, Shape, AllocFields, Allocating
<1>2. PICK live : alloc'.intf = UNION {BlockIntf(b, live[b]) : b \in Machine_blocks}
  BY DEF build_intf, IInv, Shape, AllocFields, Allocating
<1>3. ASSUME NEW b, NEW x, NEW y, <<x, y>> \in BlockIntf(b, live[b])
      PROVE  x # y /\ <<y, x>> \in BlockIntf(b, live[b])
  <2>1. PICK i \in DOMAIN mach.code[b] :
          \E r \in Writes(Instruction(b, i)) : <<x, y>> \in Beside(r, Interferes(live[b], i))
    BY <1>3 DEF BlockIntf
  <2> PICK r \in Writes(Instruction(b, i)) : <<x, y>> \in Beside(r, Interferes(live[b], i))
    BY <2>1
  <2>2. x # y /\ <<y, x>> \in Beside(r, Interferes(live[b], i))
    BY <2>1, BesideIsUndirected DEF Undirected
  <2> QED
    BY <2>2 DEF BlockIntf
<1>4. Undirected(alloc'.intf)
  BY <1>2, <1>3 DEF Undirected
<1> QED
  BY <1>1, <1>4 DEF IInv, IntfIsUndirected, EachIsLeftOrPushed, EachIsPushedOrPlaced,
     ColoursDiffer, SlotsDiffer, Allocating

(* Coalescing keeps it undirected.                                         *)
LEMMA CoalesceKeepsInv ==
  ASSUME IInv, coalesce
  PROVE  IInv'
<1>1. Shape' /\ alloc'.phase = "coalesce"
  BY DEF coalesce, IInv, Shape, AllocFields, Allocating
<1>2. Undirected(alloc.intf)
  BY DEF coalesce, IInv, IntfIsUndirected, Allocating
<1>3. \/ alloc'.intf = alloc.intf
      \/ \E src, ys : alloc'.intf = alloc.intf \cup Beside(src, ys)
  BY DEF coalesce, IInv, Shape, AllocFields, Allocating
<1>4. Undirected(alloc'.intf)
  BY <1>2, <1>3, BesideIsUndirected DEF Undirected
<1> QED
  BY <1>1, <1>4 DEF IInv, IntfIsUndirected, EachIsLeftOrPushed, EachIsPushedOrPlaced,
     ColoursDiffer, SlotsDiffer, Allocating

(* All virtual registers are in simplify_left to begin with.               *)
LEMMA SimplifyStartKeepsInv ==
  ASSUME IInv, Counted, simplify_start
  PROVE  IInv'
<1> DEFINE n == mach.next_reg - FIRST_VR
<1>1. /\ Shape'
      /\ alloc'.phase = "simplify"
      /\ alloc'.intf = alloc.intf
      /\ alloc'.at = n
      /\ alloc'.left = [i \in 1..n |-> FIRST_VR + i - 1]
      /\ alloc'.stack = <<>>
      /\ mach' = mach
  BY DEF simplify_start, IInv, Shape, AllocFields, Allocating
<1>2. Undirected(alloc'.intf)
  BY <1>1 DEF simplify_start, IInv, IntfIsUndirected, Allocating
<1>3. n \in Int
  BY DEF Counted, FIRST_VR
<1>4. alloc'.left \in Seq(Int) /\ alloc'.at <= Len(alloc'.left)
  <2>1. CASE n > 0
    BY <2>1, <1>1, <1>3 DEF FIRST_VR
  <2>2. CASE ~(n > 0)
    <3>1. 1..n = {}
      BY <2>2, <1>3
    <3>2. alloc'.left = [i \in {} |-> FIRST_VR + i - 1]
      BY <3>1, <1>1
    <3> HIDE DEF n
    <3>3. alloc'.left = <<>>
      BY <3>2
    <3> QED
      BY <3>3, <2>2, <1>1, <1>3
  <2> QED
    BY <2>1, <2>2
<1>5. ASSUME NEW r \in Virtual'
      PROVE  r \in ToSet(alloc'.left)
  <2>1. r - FIRST_VR + 1 \in 1..n /\ r \in Int
    BY <1>5, <1>1 DEF Virtual, FIRST_VR, Counted
  <2>2. alloc'.left[r - FIRST_VR + 1] = r /\ r - FIRST_VR + 1 \in DOMAIN alloc'.left
    BY <2>1, <1>1 DEF FIRST_VR
  <2> QED
    BY <2>2 DEF ToSet
<1> HIDE DEF n
<1>6. Virtual' \subseteq ToSet(alloc'.left) \cup ToSet(alloc'.stack)
  BY <1>5
<1>7. alloc'.stack \in Seq(Int) /\ alloc'.at \in Int
  BY <1>1, <1>3
<1>8. EachIsLeftOrPushed'
  BY <1>1, <1>4, <1>6, <1>7 DEF EachIsLeftOrPushed
<1> QED
  BY <1>1, <1>2, <1>8 DEF IInv, IntfIsUndirected, EachIsPushedOrPlaced, ColoursDiffer,
     SlotsDiffer, Allocating
----------------------------------------------------------------
(* add_to_select_stack moves a register from simplify_left to the stack.   *)
LEMMA PushMovesOne ==
  ASSUME Shape,
         alloc.left \in Seq(Int), alloc.stack \in Seq(Int),
         Virtual \subseteq ToSet(alloc.left) \cup ToSet(alloc.stack),
         NEW index \in 1..Len(alloc.left),
         NEW a, a = add_to_select_stack(index)
  PROVE  /\ DOMAIN a = AllocFields
         /\ a.phase = alloc.phase /\ a.intf = alloc.intf /\ a.at = alloc.at
         /\ a.left \in Seq(Int) /\ a.stack \in Seq(Int)
         /\ Len(a.left) = Len(alloc.left) - 1
         /\ Virtual \subseteq ToSet(a.left) \cup ToSet(a.stack)
<1> DEFINE left == Front([alloc.left EXCEPT ![index] = Last(alloc.left)])
           stack == Append(alloc.stack, alloc.left[index])
<1>1. /\ left \in Seq(Int)
      /\ Len(left) = Len(alloc.left) - 1
      /\ ToSet(alloc.left) \subseteq ToSet(left) \cup {alloc.left[index]}
  BY SwapKeepsOthers
<1>2. alloc.left[index] \in Int
  OBVIOUS
<1>3. stack \in Seq(Int) /\ ToSet(alloc.stack) \cup {alloc.left[index]} \subseteq ToSet(stack)
  BY <1>2, AppendAddsOne
<1>4. Virtual \subseteq ToSet(left) \cup ToSet(stack)
  BY <1>1, <1>3
<1>5. /\ DOMAIN a = AllocFields
      /\ a.phase = alloc.phase /\ a.intf = alloc.intf /\ a.at = alloc.at
      /\ a.left = left /\ a.stack = stack
  BY DEF add_to_select_stack, Shape, AllocFields
<1> HIDE DEF left, stack
<1> QED
  BY <1>1, <1>3, <1>4, <1>5

(* A scan moves a register or passes it by.                                *)
LEMMA SimplifyKeepsInv ==
  ASSUME IInv, simplify
  PROVE  IInv'
<1> DEFINE a == IF alloc.degree[alloc.left[alloc.at]] < NUM_ALLOCATABLE_PRS
                  THEN add_to_select_stack(alloc.at) ELSE alloc
<1>1. /\ Shape /\ alloc.phase = "simplify" /\ alloc.at > 0 /\ mach' = mach
      /\ alloc' = [a EXCEPT !.at = @ - 1]
  BY DEF simplify, IInv, Allocating
<1>2. /\ alloc.left \in Seq(Int) /\ alloc.stack \in Seq(Int)
      /\ alloc.at \in 1..Len(alloc.left)
      /\ Virtual \subseteq ToSet(alloc.left) \cup ToSet(alloc.stack)
      /\ Undirected(alloc.intf)
  BY <1>1 DEF IInv, EachIsLeftOrPushed, IntfIsUndirected
<1>3. /\ DOMAIN a = AllocFields
      /\ a.phase = alloc.phase /\ a.intf = alloc.intf /\ a.at = alloc.at
      /\ a.left \in Seq(Int) /\ a.stack \in Seq(Int)
      /\ Len(a.left) >= Len(alloc.left) - 1
      /\ Virtual \subseteq ToSet(a.left) \cup ToSet(a.stack)
  <2>1. CASE alloc.degree[alloc.left[alloc.at]] < NUM_ALLOCATABLE_PRS
    <3>1. a = add_to_select_stack(alloc.at)
      BY <2>1
    <3> HIDE DEF a
    <3>2. /\ DOMAIN a = AllocFields
          /\ a.phase = alloc.phase /\ a.intf = alloc.intf /\ a.at = alloc.at
          /\ a.left \in Seq(Int) /\ a.stack \in Seq(Int)
          /\ Len(a.left) = Len(alloc.left) - 1
          /\ Virtual \subseteq ToSet(a.left) \cup ToSet(a.stack)
      <4>1. Shape /\ alloc.at \in 1..Len(alloc.left)
        BY <1>1, <1>2
      <4> QED
        BY <4>1, <3>1, <1>2, PushMovesOne, Zenon
    <3>3. Len(alloc.left) \in Nat
      BY <1>2
    <3> QED
      BY <3>2, <3>3
  <2>2. CASE ~(alloc.degree[alloc.left[alloc.at]] < NUM_ALLOCATABLE_PRS)
    <3>1. a = alloc
      BY <2>2
    <3> HIDE DEF a
    <3> QED
      BY <3>1, <1>1, <1>2 DEF Shape
  <2> QED
    BY <2>1, <2>2
<1> HIDE DEF a
<1>4. /\ DOMAIN alloc' = AllocFields
      /\ alloc'.phase = "simplify" /\ alloc'.intf = alloc.intf
      /\ alloc'.left = a.left /\ alloc'.stack = a.stack
      /\ alloc'.at = alloc.at - 1
  BY <1>1, <1>3 DEF AllocFields
<1>5. Shape'
  BY <1>1, <1>4 DEF Shape
<1>6. Virtual' = Virtual
  BY <1>1 DEF Virtual
<1>7. alloc'.at \in Int /\ alloc'.at <= Len(alloc'.left)
  BY <1>2, <1>3, <1>4
<1>8. EachIsLeftOrPushed'
  BY <1>3, <1>4, <1>6, <1>7 DEF EachIsLeftOrPushed
<1> QED
  BY <1>2, <1>4, <1>5, <1>8 DEF IInv, IntfIsUndirected, EachIsPushedOrPlaced, ColoursDiffer,
     SlotsDiffer, Allocating

LEMMA ChooseKeepsInv ==
  ASSUME IInv, choose_candidate
  PROVE  IInv'
<1>1. /\ Shape' /\ mach' = mach
      /\ alloc'.phase = "candidate" /\ alloc'.intf = alloc.intf
      /\ alloc'.left = alloc.left /\ alloc'.stack = alloc.stack
      /\ alloc'.at = 1 /\ alloc'.best_index = NULL_INDEX
  BY DEF choose_candidate, IInv, Shape, AllocFields, Allocating
<1>2. alloc.phase = "simplify"
  BY DEF choose_candidate, Allocating
<1>3. EachIsLeftOrPushed'
  BY <1>1, <1>2 DEF IInv, EachIsLeftOrPushed, Virtual
<1> QED
  BY <1>1, <1>2, <1>3 DEF IInv, IntfIsUndirected, EachIsPushedOrPlaced, ColoursDiffer,
     SlotsDiffer, Allocating

LEMMA CompareKeepsInv ==
  ASSUME IInv, compare_candidate
  PROVE  IInv'
<1>1. /\ Shape' /\ mach' = mach
      /\ alloc'.phase = "candidate" /\ alloc'.intf = alloc.intf
      /\ alloc'.left = alloc.left /\ alloc'.stack = alloc.stack
      /\ alloc'.at = alloc.at + 1
      /\ alloc'.best_index \in {alloc.at, alloc.best_index}
  BY DEF compare_candidate, IInv, Shape, AllocFields, Allocating
<1>2. alloc.phase = "candidate" /\ alloc.at <= Len(alloc.left)
  BY DEF compare_candidate, Allocating
<1>3. EachIsLeftOrPushed'
  <2>1. /\ alloc.at \in Int /\ alloc.at >= 1 /\ alloc.left \in Seq(Int)
        /\ alloc.best_index \in {NULL_INDEX} \cup 1..Len(alloc.left)
    BY <1>2 DEF IInv, EachIsLeftOrPushed
  <2>2. alloc'.best_index \in {NULL_INDEX} \cup 1..Len(alloc'.left)
    BY <2>1, <1>1, <1>2
  <2>3. alloc'.at \in Int /\ alloc'.at >= 1
    BY <2>1, <1>1
  <2> QED
    BY <2>2, <2>3, <1>1, <1>2 DEF IInv, EachIsLeftOrPushed, Virtual
<1> QED
  BY <1>1, <1>2, <1>3 DEF IInv, IntfIsUndirected, EachIsPushedOrPlaced, ColoursDiffer,
     SlotsDiffer, Allocating

LEMMA PushCandidateKeepsInv ==
  ASSUME IInv, push_candidate
  PROVE  IInv'
<1>1. Shape /\ alloc.phase = "candidate" /\ mach' = mach
  BY DEF push_candidate, IInv, Allocating
<1>2. CASE alloc.best_index = NULL_INDEX
  <2>1. Shape' /\ alloc'.phase = "undefined"
    BY <1>1, <1>2 DEF push_candidate, Shape, AllocFields
  <2> QED
    BY <2>1 DEF IInv, IntfIsUndirected, EachIsLeftOrPushed, EachIsPushedOrPlaced,
       ColoursDiffer, SlotsDiffer, Allocating
<1>3. CASE alloc.best_index # NULL_INDEX
  <2> DEFINE a == add_to_select_stack(alloc.best_index)
  <2>1. /\ alloc.left \in Seq(Int) /\ alloc.stack \in Seq(Int)
        /\ alloc.best_index \in 1..Len(alloc.left)
        /\ Virtual \subseteq ToSet(alloc.left) \cup ToSet(alloc.stack)
        /\ Undirected(alloc.intf)
    BY <1>1, <1>3 DEF IInv, EachIsLeftOrPushed, IntfIsUndirected
  <2>2. /\ DOMAIN a = AllocFields
        /\ a.intf = alloc.intf
        /\ a.left \in Seq(Int) /\ a.stack \in Seq(Int)
        /\ Len(a.left) = Len(alloc.left) - 1
        /\ Virtual \subseteq ToSet(a.left) \cup ToSet(a.stack)
    <3> HIDE DEF a
    <3>1. a = add_to_select_stack(alloc.best_index)
      BY DEF a
    <3> QED
      BY <3>1, <1>1, <2>1, PushMovesOne
  <2>3. alloc' = [a EXCEPT !.phase = "simplify", !.at = Len(alloc.left) - 1]
    BY <1>3 DEF push_candidate
  <2> HIDE DEF a
  <2>4. /\ DOMAIN alloc' = AllocFields
        /\ alloc'.phase = "simplify" /\ alloc'.intf = alloc.intf
        /\ alloc'.left = a.left /\ alloc'.stack = a.stack
        /\ alloc'.at = Len(alloc.left) - 1
    BY <2>2, <2>3 DEF AllocFields
  <2>5. Shape' /\ Virtual' = Virtual
    BY <1>1, <2>4 DEF Shape, Virtual
  <2>6. alloc'.at \in Int /\ alloc'.at <= Len(alloc'.left)
    BY <2>1, <2>2, <2>4
  <2>7. EachIsLeftOrPushed'
    BY <2>2, <2>4, <2>5, <2>6 DEF EachIsLeftOrPushed
  <2> QED
    BY <2>1, <2>4, <2>5, <2>7 DEF IInv, IntfIsUndirected, EachIsPushedOrPlaced, ColoursDiffer,
       SlotsDiffer, Allocating
<1> QED
  BY <1>2, <1>3
----------------------------------------------------------------
(* The physical registers are their own colours.                           *)
LEMMA ColorStartKeepsInv ==
  ASSUME IInv, color_start
  PROVE  IInv'
<1>1. /\ Shape' /\ mach' = mach
      /\ alloc'.phase = "color" /\ alloc'.intf = alloc.intf
      /\ alloc'.stack = alloc.stack
      /\ alloc'.map = [r \in 0..(FIRST_VR - 1) |-> r] /\ alloc'.spill_loc = <<>>
  BY DEF color_start, IInv, Shape, AllocFields, Allocating
<1>2. /\ alloc.stack \in Seq(Int) /\ alloc.left = <<>>
      /\ Virtual \subseteq ToSet(alloc.left) \cup ToSet(alloc.stack)
      /\ Undirected(alloc.intf)
  BY DEF color_start, Allocating, IInv, EachIsLeftOrPushed, IntfIsUndirected
<1>3. ToSet(alloc.left) = {} /\ DOMAIN alloc'.spill_loc = {}
  BY <1>1, <1>2 DEF ToSet
<1>4. EachIsPushedOrPlaced'
  BY <1>1, <1>2, <1>3 DEF EachIsPushedOrPlaced, Virtual
<1>5. ColoursDiffer'
  BY <1>1, <1>2 DEF ColoursDiffer, Intf, Undirected
<1>6. SlotsDiffer'
  BY <1>3 DEF SlotsDiffer
<1> QED
  BY <1>1, <1>2, <1>4, <1>5, <1>6 DEF IInv, IntfIsUndirected, EachIsLeftOrPushed

(* A register that is popped gets a colour that no neighbour has.          *)
LEMMA ColourKeepsInv ==
  ASSUME IInv, color, Free(Last(alloc.stack)) # {}
  PROVE  IInv'
<1> DEFINE x == Last(alloc.stack)
           c == Min(Free(x))
<1>1. /\ Shape /\ alloc.phase = "color" /\ mach' = mach
      /\ alloc.stack \in Seq(Int) /\ alloc.stack # <<>>
      /\ Virtual \subseteq ToSet(alloc.stack) \cup DOMAIN alloc.spill_loc \cup Coloured
      /\ Undirected(alloc.intf)
      /\ \A r, s \in DOMAIN alloc.map : Intf(r, s) => alloc.map[r] # alloc.map[s]
  BY DEF color, Allocating, IInv, EachIsPushedOrPlaced, IntfIsUndirected, ColoursDiffer
<1>2. alloc' = [alloc EXCEPT !.stack = Front(@), !.map = With(@, x, c)]
  BY DEF color
<1>3. c \in Free(x) /\ c < NUM_ALLOCATABLE_PRS
  <2>1. Free(x) \subseteq 0..(NUM_ALLOCATABLE_PRS - 1) /\ Free(x) # {}
    BY DEF Free
  <2>2. c \in Free(x)
    BY <2>1, MinOfColours
  <2> QED
    BY <2>1, <2>2 DEF NUM_ALLOCATABLE_PRS
<1> HIDE DEF c
<1>4. /\ DOMAIN alloc' = AllocFields
      /\ alloc'.phase = "color" /\ alloc'.intf = alloc.intf
      /\ alloc'.stack = Front(alloc.stack) /\ alloc'.map = With(alloc.map, x, c)
      /\ alloc'.spill_loc = alloc.spill_loc
  BY <1>1, <1>2 DEF Shape, AllocFields
<1>5. /\ Front(alloc.stack) \in Seq(Int)
      /\ ToSet(alloc.stack) \subseteq ToSet(Front(alloc.stack)) \cup {x}
  BY <1>1, FrontKeepsOthers
<1> HIDE DEF x
<1>6. /\ DOMAIN alloc'.map = DOMAIN alloc.map \cup {x}
      /\ alloc'.map[x] = c
      /\ \A r \in DOMAIN alloc.map : r # x => alloc'.map[r] = alloc.map[r]
  BY <1>4 DEF With
<1>7. Coloured \cup {x} \subseteq Coloured'
  BY <1>3, <1>6 DEF Coloured
<1>8. EachIsPushedOrPlaced'
  <2>1. Virtual' \subseteq ToSet(Front(alloc.stack)) \cup DOMAIN alloc.spill_loc \cup Coloured'
    BY <1>1, <1>5, <1>7 DEF Virtual
  <2> QED
    BY <2>1, <1>4, <1>5 DEF EachIsPushedOrPlaced
<1>9. \A s \in DOMAIN alloc.map : Intf(x, s) => c # alloc.map[s]
  BY <1>3 DEF Free, Taken
<1>10. ASSUME NEW r \in DOMAIN alloc'.map, NEW s \in DOMAIN alloc'.map, <<r, s>> \in alloc.intf
       PROVE  alloc'.map[r] # alloc'.map[s]
  <2>1. r # s /\ <<s, r>> \in alloc.intf
    BY <1>10, <1>1 DEF Undirected
  <2>2. CASE r = x
    BY <2>1, <2>2, <1>6, <1>9, <1>10 DEF Intf
  <2>3. CASE s = x
    BY <2>1, <2>3, <1>6, <1>9 DEF Intf
  <2>4. CASE r # x /\ s # x
    BY <2>4, <1>1, <1>6, <1>10 DEF Intf
  <2> QED
    BY <2>2, <2>3, <2>4
<1>11. ColoursDiffer'
  BY <1>4, <1>10 DEF ColoursDiffer, Intf
<1>12. SlotsDiffer'
  BY <1>1, <1>4 DEF IInv, SlotsDiffer, Allocating
<1>13. Shape'
  BY <1>1, <1>4 DEF Shape
<1> QED
  BY <1>1, <1>4, <1>8, <1>11, <1>12, <1>13 DEF IInv, IntfIsUndirected, EachIsLeftOrPushed

(* A register without a colour gets a new slot.                            *)
LEMMA SpillKeepsInv ==
  ASSUME IInv, color, Free(Last(alloc.stack)) = {}
  PROVE  IInv'
<1> DEFINE x == Last(alloc.stack)
           slot == Len(mach.allocas) + 1
<1>1. /\ Shape /\ alloc.phase = "color"
      /\ alloc.stack \in Seq(Int) /\ alloc.stack # <<>>
      /\ Virtual \subseteq ToSet(alloc.stack) \cup DOMAIN alloc.spill_loc \cup Coloured
      /\ Undirected(alloc.intf)
  BY DEF color, Allocating, IInv, EachIsPushedOrPlaced, IntfIsUndirected
<1>2. /\ alloc' = [alloc EXCEPT !.stack = Front(@), !.spill_loc = With(@, x, slot)]
      /\ mach' = [mach EXCEPT !.allocas = Append(@, Spilled)]
  BY DEF color
<1>3. /\ mach.allocas \in Seq(Int) /\ Len(mach.allocas) \in Nat
      /\ Spilled \in Int
  BY <1>1 DEF Shape, Spilled
<1>4. /\ DOMAIN mach' = MachFields
      /\ mach'.next_reg = mach.next_reg
      /\ mach'.allocas = Append(mach.allocas, Spilled)
  BY <1>1, <1>2 DEF Shape, MachFields
<1>5. /\ mach'.allocas \in Seq(Int)
      /\ Len(mach'.allocas) = slot
      /\ mach'.allocas[slot] = Spilled
      /\ \A i \in 1..Len(mach.allocas) : mach'.allocas[i] = mach.allocas[i]
  BY <1>3, <1>4
<1>6. /\ DOMAIN alloc' = AllocFields
      /\ alloc'.phase = "color" /\ alloc'.intf = alloc.intf
      /\ alloc'.stack = Front(alloc.stack) /\ alloc'.map = alloc.map
      /\ alloc'.spill_loc = With(alloc.spill_loc, x, slot)
  BY <1>1, <1>2 DEF Shape, AllocFields
<1>7. /\ Front(alloc.stack) \in Seq(Int)
      /\ ToSet(alloc.stack) \subseteq ToSet(Front(alloc.stack)) \cup {x}
  BY <1>1, FrontKeepsOthers
<1>8. slot \in Nat /\ slot > Len(mach.allocas)
  BY <1>3
<1> HIDE DEF x, slot
<1>9. /\ DOMAIN alloc'.spill_loc = DOMAIN alloc.spill_loc \cup {x}
      /\ alloc'.spill_loc[x] = slot
      /\ \A r \in DOMAIN alloc.spill_loc : r # x => alloc'.spill_loc[r] = alloc.spill_loc[r]
  BY <1>6 DEF With
<1>10. EachIsPushedOrPlaced'
  <2>1. Virtual' = Virtual /\ Coloured' = Coloured
    BY <1>4, <1>6 DEF Virtual, Coloured
  <2> QED
    BY <2>1, <1>1, <1>6, <1>7, <1>9 DEF EachIsPushedOrPlaced
<1>11. ColoursDiffer'
  BY <1>1, <1>6 DEF IInv, ColoursDiffer, Intf, Allocating
<1>12. /\ \A r \in DOMAIN alloc.spill_loc :
            /\ alloc.spill_loc[r] \in 1..Len(mach.allocas)
            /\ mach.allocas[alloc.spill_loc[r]] = Spilled
       /\ \A r, s \in DOMAIN alloc.spill_loc : r # s => alloc.spill_loc[r] # alloc.spill_loc[s]
  BY <1>1 DEF IInv, SlotsDiffer, Allocating
<1>13. ASSUME NEW r \in DOMAIN alloc'.spill_loc
       PROVE  /\ alloc'.spill_loc[r] \in 1..Len(mach'.allocas)
              /\ mach'.allocas[alloc'.spill_loc[r]] = Spilled
              /\ r # x => alloc'.spill_loc[r] \in 1..Len(mach.allocas)
  <2>1. CASE r = x
    BY <2>1, <1>5, <1>8, <1>9
  <2>2. CASE r # x
    <3>1. /\ r \in DOMAIN alloc.spill_loc
          /\ alloc'.spill_loc[r] = alloc.spill_loc[r]
          /\ alloc.spill_loc[r] \in 1..Len(mach.allocas)
      BY <2>2, <1>9, <1>12, <1>13
    <3> QED
      BY <3>1, <1>3, <1>5, <1>8, <1>12, SMTT(30)
  <2> QED
    BY <2>1, <2>2
<1>14. ASSUME NEW r \in DOMAIN alloc'.spill_loc, NEW s \in DOMAIN alloc'.spill_loc, r # s
       PROVE  alloc'.spill_loc[r] # alloc'.spill_loc[s]
  <2>1. CASE r = x
    BY <2>1, <1>3, <1>8, <1>9, <1>13, <1>14
  <2>2. CASE s = x
    BY <2>2, <1>3, <1>8, <1>9, <1>13, <1>14
  <2>3. CASE r # x /\ s # x
    BY <2>3, <1>9, <1>12, <1>14
  <2> QED
    BY <2>1, <2>2, <2>3
<1>15. SlotsDiffer'
  BY <1>13, <1>14 DEF SlotsDiffer
<1>16. Shape'
  BY <1>4, <1>5, <1>6 DEF Shape
<1> QED
  BY <1>1, <1>6, <1>10, <1>11, <1>15, <1>16 DEF IInv, IntfIsUndirected, EachIsLeftOrPushed

-----------------------------------------------------------------------------
LEMMA StutterKeepsInv ==
  ASSUME IInv, UNCHANGED <<mach, alloc>>
  PROVE  IInv'
BY DEF IInv, Shape, IntfIsUndirected, EachIsLeftOrPushed, EachIsPushedOrPlaced, ColoursDiffer,
       SlotsDiffer, Allocating, Intf, Virtual, Coloured

LEMMA NextKeepsInv ==
  ASSUME IInv, Counted, [AllocNext]_<<mach, alloc>>
  PROVE  IInv'
<1>1. CASE Quiet
  <2>1. Shape' /\ alloc'.phase \notin Phases_of_try
    BY <1>1, QuietKeepsShape DEF IInv
  <2> QED
    BY <2>1 DEF IInv, Phases_of_try, IntfIsUndirected, EachIsLeftOrPushed,
       EachIsPushedOrPlaced, ColoursDiffer, SlotsDiffer, Allocating
<1>2. CASE build_intf
  BY <1>2, BuildKeepsInv
<1>3. CASE coalesce
  BY <1>3, CoalesceKeepsInv
<1>4. CASE simplify_start
  BY <1>4, SimplifyStartKeepsInv
<1>5. CASE simplify
  BY <1>5, SimplifyKeepsInv
<1>6. CASE choose_candidate \/ compare_candidate \/ push_candidate
  BY <1>6, ChooseKeepsInv, CompareKeepsInv, PushCandidateKeepsInv
<1>7. CASE color_start
  BY <1>7, ColorStartKeepsInv
<1>8. CASE color
  BY <1>8, ColourKeepsInv, SpillKeepsInv
<1>9. CASE UNCHANGED <<mach, alloc>>
  BY <1>9, StutterKeepsInv
<1> QED
  BY <1>1, <1>2, <1>3, <1>4, <1>5, <1>6, <1>7, <1>8, <1>9 DEF AllocNext, Quiet

LEMMA InvIsProper == IInv => ColouringIsProper
<1> SUFFICES ASSUME IInv, Allocating("color")
             PROVE  ColouringIsProper
  BY DEF ColouringIsProper
<1>1. ASSUME alloc.stack = <<>>, NEW r \in Virtual, r \notin DOMAIN alloc.spill_loc
      PROVE  r \in DOMAIN alloc.map /\ alloc.map[r] < NUM_ALLOCATABLE_PRS
  <2>1. ToSet(alloc.stack) = {}
    BY <1>1 DEF ToSet
  <2> QED
    BY <2>1, <1>1 DEF IInv, EachIsPushedOrPlaced, Coloured
<1> QED
  BY <1>1 DEF ColouringIsProper, IInv, ColoursDiffer, SlotsDiffer

(* regalloc_try_color (x64.c:710-937): from any code, as long as the       *)
(* registers are counted by a number, neighbours never get one colour, a   *)
(* spilled register has a slot of its own, and when the stack is empty     *)
(* each virtual register has been given one or the other.                  *)
THEOREM ColouringCorrect ==
  RegAllocSpec /\ []Counted => []ColouringIsProper
<1>1. RegAllocInit => IInv
  BY InitHasInv
<1>2. IInv /\ Counted /\ [AllocNext]_<<mach, alloc>> => IInv'
  BY NextKeepsInv
<1>3. IInv => ColouringIsProper
  BY InvIsProper
<1> QED
  BY <1>1, <1>2, <1>3, PTL DEF RegAllocSpec

-----------------------------------------------------------------------------
(***************************************************************************)
(* Whatever the machine code, the rounds of compute_live_out end with just *)
(* the registers that are live, of those in the words that they go         *)
(* through.                                                                *)
(***************************************************************************)

(* The allocator from any machine code whose control stays among its       *)
(* blocks.                                                                 *)
CfgIsClosed ==
  /\ mach.blocks \in Seq(Int)
  /\ \A b \in Machine_blocks : ToSet(mach.successors[b]) \subseteq Machine_blocks

LivenessSpec == RegAllocSpec /\ CfgIsClosed

-----------------------------------------------------------------------------
\* The inductive invariant.
Fields == DOMAIN alloc = AllocFields /\ DOMAIN mach = MachFields

OfLiveness == {"liveness", "interference"}

\* What is in live_out is live.
OnlyLive ==
  alloc.phase \in OfLiveness =>
    /\ DOMAIN alloc.live_out = Machine_blocks
    /\ \A b \in Machine_blocks : \A r \in alloc.live_out[b] : r \in InWords /\ b \in LiveAtEnd(r)

\* No successor of a block has more to give it.
IsSettled(live_out, b) ==
  \A m \in ToSet(mach.successors[b]) : Flows(live_out, m) \cap InWords \subseteq live_out[b]

\* A round that has changed nothing has settled the blocks it has been to.
VisitedAreSettled ==
  Allocating("liveness") =>
    /\ alloc.at \in Nat
    /\ ~alloc.changed =>
         \A i \in DOMAIN mach.blocks : i < alloc.at => IsSettled(alloc.live_out, mach.blocks[i])

AllAreSettled ==
  Allocating("interference") => \A b \in Machine_blocks : IsSettled(alloc.live_out, b)

LiveInv ==
  /\ Fields
  /\ CfgIsClosed
  /\ OnlyLive
  /\ VisitedAreSettled
  /\ AllAreSettled

-----------------------------------------------------------------------------
(* What flows into a block from a successor is live at its end.            *)
LEMMA FlowIsLive ==
  ASSUME CfgIsClosed, OnlyLive, Allocating("liveness"),
         NEW n \in Machine_blocks, NEW m \in ToSet(mach.successors[n]),
         NEW r \in Flows(alloc.live_out, m)
  PROVE  n \in LiveAtEnd(r)
<1> DEFINE reads == {b \in Machine_blocks : r \in Ue_var(b)}
           passes == {b \in Machine_blocks : r \notin Var_kill(b)}
           ahead(S) == {b \in Machine_blocks : ToSet(mach.successors[b]) \cap S # {}}
<1>1. m \in Machine_blocks
  BY DEF CfgIsClosed
<1>2. \/ r \in Ue_var(m)
      \/ r \in alloc.live_out[m] /\ r \notin Var_kill(m)
  BY DEF Flows
<1>3. r \in alloc.live_out[m] => m \in LiveAtEnd(r)
  BY <1>1 DEF OnlyLive, Allocating, OfLiveness
<1>4. ASSUME NEW S \in SUBSET Machine_blocks, ahead(reads \cup (S \cap passes)) \subseteq S
      PROVE  n \in S
  <2>1. CASE r \in Ue_var(m)
    <3>1. m \in reads
      BY <2>1, <1>1
    <3> QED
      BY <3>1, <1>4
  <2>2. CASE r \in alloc.live_out[m] /\ r \notin Var_kill(m)
    <3>1. m \in LiveAtEnd(r)
      BY <2>2, <1>3
    <3>2. m \in S
      BY <3>1, <1>4 DEF LiveAtEnd
    <3>3. m \in passes
      BY <2>2, <1>1
    <3> QED
      BY <3>2, <3>3, <1>4
  <2> QED
    BY <2>1, <2>2, <1>2
<1> QED
  BY <1>4 DEF LiveAtEnd

(* Where all blocks are settled, a register that is live is in live_out:   *)
(* the blocks with it there are one of the sets that LiveAtEnd goes        *)
(* through.                                                                *)
LEMMA SettledIsAll ==
  ASSUME OnlyLive, AllAreSettled, Allocating("interference"),
         NEW r \in InWords, NEW b \in LiveAtEnd(r)
  PROVE  r \in alloc.live_out[b]
<1> DEFINE S == {c \in Machine_blocks : r \in alloc.live_out[c]}
           reads == {c \in Machine_blocks : r \in Ue_var(c)}
           passes == {c \in Machine_blocks : r \notin Var_kill(c)}
           ahead(T) == {c \in Machine_blocks : ToSet(mach.successors[c]) \cap T # {}}
<1>1. ASSUME NEW c \in ahead(reads \cup (S \cap passes))
      PROVE  c \in S
  <2>1. PICK m \in ToSet(mach.successors[c]) : m \in reads \cup (S \cap passes)
    OBVIOUS
  <2>2. r \in Flows(alloc.live_out, m)
    BY <2>1 DEF Flows
  <2>3. c \in Machine_blocks /\ IsSettled(alloc.live_out, c)
    BY DEF AllAreSettled
  <2> QED
    BY <2>2, <2>3 DEF IsSettled
<1>2. S \in SUBSET Machine_blocks /\ ahead(reads \cup (S \cap passes)) \subseteq S
  BY <1>1
<1>3. b \in S
  BY <1>2 DEF LiveAtEnd
<1> QED
  BY <1>3

-----------------------------------------------------------------------------
(* The live registers depend on the code only.                             *)
LEMMA SameCodeSameLive ==
  ASSUME mach' = mach
  PROVE  /\ InWords' = InWords /\ Machine_blocks' = Machine_blocks
         /\ \A r : LiveAtEnd(r)' = LiveAtEnd(r)
         /\ \A l, b : IsSettled(l, b)' = IsSettled(l, b)
BY DEF Registers, InWords, Machine_blocks, LiveAtEnd, Ue_var, Var_kill, IsSettled, Flows,
       Instruction

LEMMA LiveStartKeeps ==
  ASSUME LiveInv, live_start
  PROVE  LiveInv'
<1>1. /\ Fields' /\ mach' = mach /\ alloc'.phase = "liveness" /\ alloc'.at = 1
      /\ alloc'.live_out = [b \in Machine_blocks |-> {}]
  BY DEF live_start, LiveInv, Fields, AllocFields
<1>2. Machine_blocks' = Machine_blocks
  BY <1>1, SameCodeSameLive
<1>3. CfgIsClosed'
  BY <1>1, <1>2 DEF LiveInv, CfgIsClosed
<1>4. OnlyLive'
  BY <1>1, <1>2 DEF OnlyLive
<1>5. VisitedAreSettled'
  <2>1. DOMAIN mach.blocks = 1..Len(mach.blocks) /\ Len(mach.blocks) \in Nat
    BY DEF LiveInv, CfgIsClosed
  <2>2. \A i \in DOMAIN mach.blocks : ~(i < 1)
    BY <2>1
  <2> QED
    BY <2>2, <1>1 DEF VisitedAreSettled
<1> QED
  BY <1>1, <1>3, <1>4, <1>5 DEF LiveInv, AllAreSettled, Allocating

LEMMA LiveBlockKeeps ==
  ASSUME LiveInv, live_block
  PROVE  LiveInv'
<1> DEFINE n == mach.blocks[alloc.at]
           flow == UNION {Flows(alloc.live_out, m) : m \in ToSet(mach.successors[n])}
           out == [alloc.live_out EXCEPT ![n] = @ \cup (flow \cap InWords)]
<1>1. /\ Fields' /\ mach' = mach /\ alloc.phase = "liveness" /\ alloc'.phase = "liveness"
      /\ alloc'.at = alloc.at + 1 /\ alloc.at <= Len(mach.blocks)
      /\ alloc'.live_out = out
      /\ alloc'.changed = (alloc.changed \/ out # alloc.live_out)
  BY DEF live_block, LiveInv, Fields, AllocFields, Allocating
<1>2. /\ Machine_blocks' = Machine_blocks /\ InWords' = InWords
      /\ \A r : LiveAtEnd(r)' = LiveAtEnd(r)
      /\ \A l, b : IsSettled(l, b)' = IsSettled(l, b)
  BY <1>1, SameCodeSameLive
<1>3. CfgIsClosed'
  BY <1>1, <1>2 DEF LiveInv, CfgIsClosed
<1>4. /\ DOMAIN alloc.live_out = Machine_blocks
      /\ \A b \in Machine_blocks :
           \A r \in alloc.live_out[b] : r \in InWords /\ b \in LiveAtEnd(r)
  BY <1>1 DEF LiveInv, OnlyLive, OfLiveness
<1>5. ASSUME NEW r \in flow, n \in Machine_blocks
      PROVE  n \in LiveAtEnd(r)
  <2>1. PICK m \in ToSet(mach.successors[n]) : r \in Flows(alloc.live_out, m)
    OBVIOUS
  <2> HIDE DEF n
  <2>2. CfgIsClosed /\ OnlyLive /\ Allocating("liveness")
    BY <1>1 DEF LiveInv, Allocating
  <2> QED
    BY <2>1, <2>2, <1>5, FlowIsLive
<1>6. /\ DOMAIN out = Machine_blocks
      /\ \A b \in Machine_blocks : b # n => out[b] = alloc.live_out[b]
      /\ n \in Machine_blocks => out[n] = alloc.live_out[n] \cup (flow \cap InWords)
  BY <1>4
<1>7. ASSUME ~alloc'.changed
      PROVE  ~alloc.changed /\ out = alloc.live_out
  BY <1>7, <1>1
<1>8. ASSUME out = alloc.live_out, n \in Machine_blocks
      PROVE  IsSettled(out, n)
  BY <1>6, <1>8 DEF IsSettled
<1>9. alloc.at \in Nat /\ (alloc.at \in DOMAIN mach.blocks => n \in Machine_blocks)
  BY <1>1 DEF LiveInv, VisitedAreSettled, Allocating, Machine_blocks, ToSet
<1> HIDE DEF out, flow, n
<1>10. OnlyLive'
  BY <1>1, <1>2, <1>4, <1>5, <1>6 DEF OnlyLive
<1>11. ASSUME ~alloc'.changed, NEW i \in DOMAIN mach.blocks, i < alloc.at + 1
       PROVE  IsSettled(out, mach.blocks[i])
  <2>1. alloc.at \in Nat /\ i \in Nat
    BY <1>9 DEF LiveInv, CfgIsClosed
  <2>2. CASE i = alloc.at
    BY <2>2, <1>7, <1>8, <1>9, <1>11 DEF n
  <2>3. CASE i < alloc.at
    BY <2>3, <1>1, <1>7, <1>11 DEF LiveInv, VisitedAreSettled, Allocating
  <2> QED
    BY <2>1, <2>2, <2>3, <1>11
<1>12. alloc'.at \in Nat
  BY <1>1, <1>9
<1>13. VisitedAreSettled'
  BY <1>1, <1>2, <1>11, <1>12 DEF VisitedAreSettled
<1> QED
  BY <1>1, <1>3, <1>10, <1>13 DEF LiveInv, AllAreSettled, Allocating

LEMMA LiveRoundKeeps ==
  ASSUME LiveInv, live_round
  PROVE  LiveInv'
<1>1. /\ Fields' /\ mach' = mach /\ alloc.phase = "liveness"
      /\ alloc'.live_out = alloc.live_out /\ alloc.at > Len(mach.blocks)
      /\ \/ alloc'.phase = "liveness" /\ alloc'.at = 1
         \/ alloc'.phase = "interference" /\ ~alloc.changed
  BY DEF live_round, LiveInv, Fields, AllocFields, Allocating
<1>2. /\ Machine_blocks' = Machine_blocks /\ InWords' = InWords
      /\ \A r : LiveAtEnd(r)' = LiveAtEnd(r)
      /\ \A l, b : IsSettled(l, b)' = IsSettled(l, b)
  BY <1>1, SameCodeSameLive
<1>3. CfgIsClosed'
  BY <1>1, <1>2 DEF LiveInv, CfgIsClosed
<1>4. OnlyLive'
  BY <1>1, <1>2 DEF LiveInv, OnlyLive, OfLiveness
<1>5. DOMAIN mach.blocks = 1..Len(mach.blocks) /\ Len(mach.blocks) \in Nat
  BY DEF LiveInv, CfgIsClosed
<1>6. VisitedAreSettled'
  <2>1. \A i \in DOMAIN mach.blocks : ~(i < 1)
    BY <1>5
  <2> QED
    BY <2>1, <1>1 DEF VisitedAreSettled, Allocating
<1>7. ASSUME ~alloc.changed, NEW b \in Machine_blocks
      PROVE  IsSettled(alloc.live_out, b)
  <2>1. PICK i \in DOMAIN mach.blocks : b = mach.blocks[i]
    BY DEF Machine_blocks, ToSet
  <2>2. alloc.at \in Nat
    BY <1>1 DEF LiveInv, VisitedAreSettled, Allocating
  <2>3. i < alloc.at
    BY <2>1, <2>2, <1>1, <1>5
  <2> QED
    BY <2>1, <2>3, <1>1, <1>7 DEF LiveInv, VisitedAreSettled, Allocating
<1>8. AllAreSettled'
  BY <1>1, <1>2, <1>7 DEF AllAreSettled, Allocating
<1> QED
  BY <1>1, <1>3, <1>4, <1>6, <1>8 DEF LiveInv

-----------------------------------------------------------------------------
(* The other steps are no part of liveness and leave the edges alone.      *)
LEMMA OthersKeepEdges ==
  ASSUME Fields, AllocNext, ~live_start, ~live_block, ~live_round
  PROVE  /\ Fields' /\ alloc'.phase \notin OfLiveness
         /\ mach'.blocks = mach.blocks /\ mach'.successors = mach.successors
<1> USE DEF Fields, AllocFields, MachFields, OfLiveness, Allocating
<1>1. CASE regalloc \/ try_color \/ try_end \/ regalloc_end
  <2>1. CASE regalloc
    BY <2>1 DEF regalloc
  <2>2. CASE try_color
    BY <2>2 DEF try_color
  <2>3. CASE try_end
    BY <2>3 DEF try_end
  <2>4. CASE regalloc_end
    BY <2>4 DEF regalloc_end
  <2> QED
    BY <1>1, <2>1, <2>2, <2>3, <2>4
<1>2. CASE build_intf
  BY <1>2 DEF build_intf
<1>3. CASE coalesce
  BY <1>3 DEF coalesce
<1>4. CASE coalesce_rewrite
  BY <1>4 DEF coalesce_rewrite
<1>5. CASE simplify_start
  BY <1>5 DEF simplify_start
<1>6. CASE simplify
  BY <1>6 DEF simplify, add_to_select_stack
<1>7. CASE choose_candidate \/ compare_candidate
  BY <1>7 DEF choose_candidate, compare_candidate
<1>8. CASE push_candidate
  BY <1>8 DEF push_candidate, add_to_select_stack
<1>9. CASE color_start
  BY <1>9 DEF color_start
<1>10. CASE color
  BY <1>10 DEF color
<1>11. CASE spill_start \/ spill_done
  BY <1>11 DEF spill_start, spill_done
<1>12. CASE spill_rewrite
  BY <1>12 DEF spill_rewrite
<1>13. CASE color_rewrite
  BY <1>13 DEF color_rewrite
<1> QED
  BY <1>1, <1>2, <1>3, <1>4, <1>5, <1>6, <1>7, <1>8, <1>9, <1>10, <1>11, <1>12, <1>13
     DEF AllocNext

LEMMA LiveInvKept ==
  ASSUME LiveInv, [AllocNext]_<<mach, alloc>>
  PROVE  LiveInv'
<1>1. CASE live_start
  BY <1>1, LiveStartKeeps
<1>2. CASE live_block
  BY <1>2, LiveBlockKeeps
<1>3. CASE live_round
  BY <1>3, LiveRoundKeeps
<1>4. CASE AllocNext /\ ~live_start /\ ~live_block /\ ~live_round
  <2>1. /\ Fields' /\ alloc'.phase \notin OfLiveness
        /\ mach'.blocks = mach.blocks /\ mach'.successors = mach.successors
    BY <1>4, OthersKeepEdges DEF LiveInv
  <2>2. CfgIsClosed'
    BY <2>1 DEF LiveInv, CfgIsClosed, Machine_blocks
  <2> QED
    BY <2>1, <2>2 DEF LiveInv, OnlyLive, VisitedAreSettled, AllAreSettled, OfLiveness,
       Allocating
<1>5. CASE UNCHANGED <<mach, alloc>>
  <2>1. /\ Machine_blocks' = Machine_blocks /\ InWords' = InWords
        /\ \A r : LiveAtEnd(r)' = LiveAtEnd(r)
        /\ \A l, b : IsSettled(l, b)' = IsSettled(l, b)
    BY <1>5, SameCodeSameLive
  <2> QED
    BY <2>1, <1>5 DEF LiveInv, Fields, CfgIsClosed, OnlyLive, VisitedAreSettled,
       AllAreSettled, Allocating
<1> QED
  BY <1>1, <1>2, <1>3, <1>4, <1>5

\* What the rounds find: what is live, and nothing of the words left out.
WordsAreExact ==
  Allocating("interference") =>
    \A r \in Registers :
      {b \in Machine_blocks : r \in alloc.live_out[b]}
        = IF r \in InWords THEN LiveAtEnd(r) ELSE {}

LEMMA LiveInvIsExact == LiveInv => WordsAreExact
<1> SUFFICES ASSUME LiveInv, Allocating("interference"), NEW r \in Registers
             PROVE  {b \in Machine_blocks : r \in alloc.live_out[b]}
                      = IF r \in InWords THEN LiveAtEnd(r) ELSE {}
  BY DEF WordsAreExact
<1>1. LiveAtEnd(r) \subseteq Machine_blocks
  BY DEF LiveAtEnd
<1>2. ASSUME r \in InWords, NEW b \in LiveAtEnd(r)
      PROVE  r \in alloc.live_out[b]
  BY <1>2, SettledIsAll DEF LiveInv
<1>3. ASSUME NEW b \in Machine_blocks, r \in alloc.live_out[b]
      PROVE  r \in InWords /\ b \in LiveAtEnd(r)
  BY <1>3 DEF LiveInv, OnlyLive, OfLiveness, Allocating
<1> QED
  BY <1>1, <1>2, <1>3

(* compute_live_out (x64.c:446-503): from any code whose control stays     *)
(* among its blocks, and in each try, what the rounds leave in live_out    *)
(* when one changes nothing is just the registers that are live, of those  *)
(* in the words the rounds go through; these are as many words as a bitset *)
(* of blocks has, and where they hold all registers liveness is exact.     *)
THEOREM LivenessIsExact ==
  LivenessSpec => [](WordsAreExact /\ (Registers \subseteq InWords => LiveOutIsExact))
<1>1. RegAllocInit /\ CfgIsClosed => LiveInv
  BY DEF RegAllocInit, AllocInit, LiveInv, Fields, AllocFields, OnlyLive, VisitedAreSettled,
         AllAreSettled, OfLiveness, Allocating
<1>2. LiveInv /\ [AllocNext]_<<mach, alloc>> => LiveInv'
  BY LiveInvKept
<1>3. LiveInv => WordsAreExact
  BY LiveInvIsExact
<1>4. WordsAreExact => (Registers \subseteq InWords => LiveOutIsExact)
  BY DEF WordsAreExact, LiveOutIsExact
<1> QED
  BY <1>1, <1>2, <1>3, <1>4, PTL DEF LivenessSpec, RegAllocSpec
=============================================================================
