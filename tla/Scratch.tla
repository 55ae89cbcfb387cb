------------------------------- MODULE Scratch ------------------------------
(***************************************************************************)
(* The arenas of src/cringe/os_win32.c and how functions use them: a       *)
(* function takes the first scratch arena that is not the one it must      *)
(* leave its results in, pushes on both, and at its end sets its own back  *)
(* to where it was.  Two scratch arenas serve calls of any depth.          *)
(***************************************************************************)
EXTENDS Integers, Sequences, FiniteSetsExt

CONSTANTS PageSize, PageCount,   \* what an arena reserves
          Amounts,               \* the sizes that are pushed
          MaxFrames              \* the nesting of functions that have a scratch

ASSUME ArenaAssumption ==
  /\ PageSize \in Nat \ {0} /\ PageCount \in Nat \ {0}
  /\ Amounts \subseteq Nat \ {0} /\ MaxFrames \in Nat

VARIABLES arenas,   \* by arena, the bytes allocated and the bytes committed
          frames,   \* the calls in progress that have a scratch
          live      \* the regions in use, with the frame whose scratch each is in

svars == <<arenas, frames, live>>

\* main's arena, which owner 0 stands for, and scratch_arenas.
ProgramArena == 0
ScratchArenas == {1, 2}
Arena == {ProgramArena} \cup ScratchArenas

ScratchInit ==
  /\ arenas = [a \in Arena |-> [allocated |-> 0, capacity |-> 0]]
  /\ frames = <<>> /\ live = {}

-----------------------------------------------------------------------------
Caller == Len(frames)

ArenaOf(owner) == IF owner = 0 THEN ProgramArena ELSE frames[owner].own

\* Whose memory a function can pass on: its own, what it was passed, or main's.
Passed == {0, Caller} \cup (IF Caller = 0 THEN {} ELSE {frames[Caller].out})

\* Mutated: the conflicts are not looked at.
FirstArena_any(out) == Min(ScratchArenas)

FirstArena(out) == Min(ScratchArenas \ {ArenaOf(out)})

scratch_get(out) ==
  /\ Caller < MaxFrames
  /\ frames' = Append(frames, [own |-> FirstArena(out), out |-> out,
                               save |-> arenas[FirstArena(out)].allocated])
  /\ UNCHANGED <<arenas, live>>

-----------------------------------------------------------------------------
Aligned(n) == ((n + 7) \div 8) * 8

\* Mutated: one page is committed where more are needed.
CapacityFor_one(capacity, end) == IF capacity < end THEN capacity + PageSize ELSE capacity

\* Pages are committed until they hold the bytes up to the end.
CapacityFor(capacity, end) ==
  IF capacity < end THEN ((end + PageSize - 1) \div PageSize) * PageSize ELSE capacity

\* A reservation that is used up ends the program.
arena_push(owner, amount) ==
  LET a == ArenaOf(owner)
      offset == Aligned(arenas[a].allocated)
      end == offset + amount
  IN /\ CapacityFor(arenas[a].capacity, end) <= PageSize * PageCount
     /\ arenas' = [arenas EXCEPT ![a] = [allocated |-> end,
                                         capacity |-> CapacityFor(@.capacity, end)]]
     /\ live' = live \cup {[owner |-> owner, arena |-> a, from |-> offset, upto |-> end]}
     /\ UNCHANGED frames

-----------------------------------------------------------------------------
\* What stays in use when an arena is set back.
Kept(arena, save) == {r \in live : r.arena # arena \/ r.upto <= save}

scratch_release ==
  /\ Caller > 0
  /\ LET frame == frames[Caller] IN
     /\ live' = Kept(frame.own, frame.save)
     /\ arenas' = [arenas EXCEPT ![frame.own].allocated = frame.save]
  /\ frames' = SubSeq(frames, 1, Caller - 1)

\* cb_run_global_code_motion and build_intf return without scratch_release.
return_unreleased ==
  /\ Caller > 0
  /\ live' = {r \in live : r.owner # Caller}
  /\ frames' = SubSeq(frames, 1, Caller - 1)
  /\ UNCHANGED arenas

ScratchNext ==
  \/ \E out \in Passed : scratch_get(out)
  \/ \E owner \in Passed, amount \in Amounts : arena_push(owner, amount)
  \/ scratch_release \/ return_unreleased

ScratchSpec == ScratchInit /\ [][ScratchNext]_svars

-----------------------------------------------------------------------------
TypeOK ==
  /\ arenas \in [Arena -> [allocated : Nat, capacity : Nat]]
  /\ frames \in Seq([own : ScratchArenas, out : Nat, save : Nat])
  /\ \A i \in 1..Caller : frames[i].out < i
  /\ live \subseteq [owner : 0..Caller, arena : Arena, from : Nat, upto : Nat]

\* Frames of one arena are saved one above the other, below what is allocated.
SavesAreNested ==
  \A i \in 1..Caller :
    /\ frames[i].save <= arenas[frames[i].own].allocated
    /\ \A j \in 1..i : frames[j].own = frames[i].own => frames[j].save <= frames[i].save

(* The assertion of scratch_release (save <= arena->allocated) holds, and  *)
(* all that is in use is committed memory of the arena's reservation.      *)
MemoryIsCommitted ==
  /\ SavesAreNested
  /\ \A r \in live : r.upto <= arenas[r.arena].allocated
  /\ \A a \in Arena : /\ arenas[a].allocated <= arenas[a].capacity
                      /\ arenas[a].capacity <= PageSize * PageCount

R == INSTANCE Regions WITH depth <- Caller

(* Two scratch arenas are enough: with each function's arena the first     *)
(* that is not the one it was passed, what a function is given, by itself  *)
(* or by what it calls, is its own until it returns and no longer.         *)
ImplementsRegions == R!Spec
=============================================================================
