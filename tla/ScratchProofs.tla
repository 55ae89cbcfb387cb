---------------------------- MODULE ScratchProofs ---------------------------
(***************************************************************************)
(* For calls of any depth, pushes of any size and arenas of any size, the  *)
(* scratch arenas implement Regions and use committed memory only.  The    *)
(* invariant that makes it inductive says what the conflicts are for: a    *)
(* frame that can still push into an earlier frame's arena has no frame in *)
(* between that will set that arena back.                                  *)
(***************************************************************************)
EXTENDS Scratch, TLAPS

\* Frames that pass on memory of an earlier frame leave its arena alone.
PassedOn ==
  \A i \in 1..Caller : frames[i].out > 0 =>
    \A j \in (frames[i].out + 1)..i :
      frames[j].out = frames[i].out /\ frames[j].own # frames[frames[i].out].own

\* A region lies above the save of its owner and below those of later frames.
RegionsAreKept ==
  \A r \in live :
    /\ r.from < r.upto
    /\ r.owner = 0 => r.arena = ProgramArena
    /\ r.owner > 0 => r.arena = frames[r.owner].own /\ frames[r.owner].save <= r.from
    /\ \A i \in (r.owner + 1)..Caller : frames[i].own = r.arena => r.upto <= frames[i].save

RegionsAreApart == \A r, s \in live : r # s => R!Apart(r, s)

Inv == TypeOK /\ MemoryIsCommitted /\ PassedOn /\ RegionsAreKept /\ RegionsAreApart

-----------------------------------------------------------------------------
(* One of the two scratch arenas is not the conflicting one.               *)
LEMMA FirstArenaIsFree ==
  ASSUME NEW out
  PROVE  FirstArena(out) \in ScratchArenas /\ FirstArena(out) # ArenaOf(out)
<1> DEFINE S == ScratchArenas \ {ArenaOf(out)}
<1>1. \E x \in S : \A y \in S : x <= y
  BY DEF ScratchArenas
<1>2. FirstArena(out) \in S
  BY <1>1 DEF FirstArena, Min
<1> QED
  BY <1>2

(* What a frame in progress holds.                                         *)
LEMMA FrameTypes ==
  ASSUME TypeOK
  PROVE  /\ Caller \in Nat
         /\ \A i \in 1..Caller : /\ frames[i].own \in ScratchArenas
                                /\ frames[i].out \in Nat /\ frames[i].out < i
                                /\ frames[i].save \in Nat
<1> DEFINE Frame == [own : ScratchArenas, out : Nat, save : Nat]
<1>1. frames \in Seq(Frame) /\ Caller = Len(frames)
  BY DEF TypeOK, Caller
<1> HIDE DEF Frame
<1>2. Caller \in Nat /\ \A i \in 1..Caller : frames[i] \in Frame
  BY <1>1
<1>3. \A f \in Frame : f.own \in ScratchArenas /\ f.out \in Nat /\ f.save \in Nat
  BY DEF Frame
<1>4. \A i \in 1..Caller : frames[i].out < i
  BY DEF TypeOK
<1> QED
  BY <1>2, <1>3, <1>4

(* Memory that can be passed on is that of a frame in progress, or main's. *)
LEMMA PassedIsInProgress ==
  ASSUME TypeOK, NEW owner \in Passed
  PROVE  /\ owner \in 0..Caller /\ ArenaOf(owner) \in Arena
         /\ owner = 0 => ArenaOf(owner) \notin ScratchArenas
         /\ owner > 0 => ArenaOf(owner) = frames[owner].own
<1>1. owner \in 0..Caller
  BY FrameTypes DEF Passed
<1> QED
  BY <1>1, FrameTypes DEF ArenaOf, Arena, ScratchArenas, ProgramArena

(* Division by a page's size leaves a remainder that is smaller.           *)
LEMMA Division ==
  ASSUME NEW n \in Nat, NEW p \in Nat \ {0}
  PROVE  n \div p \in Nat /\ p * (n \div p) > n - p /\ (n \div p) * p = p * (n \div p)
<1>1. n \div p \in Nat
  OBVIOUS
<1>2. p * (n \div p) > n - p
  OBVIOUS
<1>3. (n \div p) * p = p * (n \div p)
  BY <1>1
<1> QED
  BY <1>1, <1>2, <1>3

(* Pages are committed up to the end, and none is given back.              *)
LEMMA CapacityHoldsEnd ==
  ASSUME NEW capacity \in Nat, NEW end \in Nat
  PROVE  /\ CapacityFor(capacity, end) \in Nat
         /\ CapacityFor(capacity, end) >= end /\ CapacityFor(capacity, end) >= capacity
<1> DEFINE bytes == ((end + PageSize - 1) \div PageSize) * PageSize
<1>1. PageSize \in Nat \ {0} /\ end + PageSize - 1 \in Nat
  BY ArenaAssumption
<1>2. bytes \in Nat /\ bytes > (end + PageSize - 1) - PageSize
  BY <1>1, Division
<1>3. bytes >= end
  BY <1>1, <1>2
<1>4. CapacityFor(capacity, end) = IF capacity < end THEN bytes ELSE capacity
  BY DEF CapacityFor
<1> HIDE DEF bytes
<1> QED
  BY <1>2, <1>3, <1>4

(* The next address of an arena is aligned upwards.                        *)
LEMMA AlignedIsAbove ==
  ASSUME NEW n \in Nat
  PROVE  Aligned(n) \in Nat /\ Aligned(n) >= n
BY DEF Aligned

(* A frame that returns is the last; the others stay as they are.          *)
LEMMA OthersStay ==
  ASSUME TypeOK, Caller > 0, frames' = SubSeq(frames, 1, Caller - 1)
  PROVE  /\ frames' \in Seq([own : ScratchArenas, out : Nat, save : Nat])
         /\ Caller \in Nat /\ Caller' = Caller - 1
         /\ \A i \in 1..(Caller - 1) : frames'[i] = frames[i]
<1> DEFINE Frame == [own : ScratchArenas, out : Nat, save : Nat]
<1>1. frames \in Seq(Frame) /\ Caller = Len(frames) /\ Caller' = Len(frames')
  BY DEF TypeOK, Caller
<1> HIDE DEF Frame
<1>2. Caller \in Nat
  BY <1>1
<1>3. frames' \in Seq(Frame) /\ Len(frames') = Caller - 1
  BY <1>1, <1>2
<1>4. \A i \in 1..(Caller - 1) : frames'[i] = frames[i]
  BY <1>1, <1>2
<1> QED
  BY <1>1, <1>2, <1>3, <1>4 DEF Frame
-----------------------------------------------------------------------------
(* scratch_get (os_win32.c:59-84) adds a frame above the others.           *)
LEMMA GetAddsFrame ==
  ASSUME TypeOK, NEW out \in Passed, scratch_get(out)
  PROVE  /\ Caller' = Caller + 1 /\ arenas' = arenas /\ live' = live
         /\ \A i \in 1..Caller : frames'[i] = frames[i]
         /\ frames'[Caller + 1] = [own |-> FirstArena(out), out |-> out,
                                   save |-> arenas[FirstArena(out)].allocated]
         /\ frames' \in Seq([own : ScratchArenas, out : Nat, save : Nat])
<1> DEFINE Frame == [own : ScratchArenas, out : Nat, save : Nat]
           f == [own |-> FirstArena(out), out |-> out,
                 save |-> arenas[FirstArena(out)].allocated]
<1>1. frames \in Seq(Frame) /\ Caller = Len(frames) /\ Caller' = Len(frames')
  BY DEF TypeOK, Caller
<1>2. FirstArena(out) \in ScratchArenas /\ FirstArena(out) \in Arena
  BY FirstArenaIsFree DEF Arena
<1>3. arenas[FirstArena(out)].allocated \in Nat
  BY <1>2 DEF TypeOK
<1>4. out \in Nat
  BY PassedIsInProgress, FrameTypes
<1>5. f \in Frame
  BY <1>2, <1>3, <1>4
<1>6. frames' = Append(frames, f) /\ arenas' = arenas /\ live' = live
  BY DEF scratch_get
<1> HIDE DEF Frame, f
<1>7. /\ Len(frames') = Len(frames) + 1 /\ frames' \in Seq(Frame)
      /\ frames'[Len(frames) + 1] = f
      /\ \A i \in 1..Len(frames) : frames'[i] = frames[i]
  BY <1>1, <1>5, <1>6
<1> QED
  BY <1>1, <1>6, <1>7 DEF Frame, f

(* Owners keep their arenas while frames are added.                        *)
LEMMA GetKeepsInv ==
  ASSUME Inv, NEW out \in Passed, scratch_get(out)
  PROVE  Inv'
<1> DEFINE c == Caller
           own == FirstArena(out)
<1>1. /\ TypeOK /\ SavesAreNested /\ PassedOn /\ RegionsAreKept
      /\ \A r \in live : r.upto <= arenas[r.arena].allocated
  BY DEF Inv, MemoryIsCommitted
<1>2. /\ Caller' = c + 1 /\ arenas' = arenas /\ live' = live
      /\ \A i \in 1..c : frames'[i] = frames[i]
      /\ frames'[c + 1].own = own /\ frames'[c + 1].out = out
      /\ frames'[c + 1].save = arenas[own].allocated
      /\ frames' \in Seq([own : ScratchArenas, out : Nat, save : Nat])
  <2>1. \A f : f = [own |-> own, out |-> out, save |-> arenas[own].allocated] =>
                 f.own = own /\ f.out = out /\ f.save = arenas[own].allocated
    OBVIOUS
  <2> QED
    BY <1>1, <2>1, GetAddsFrame
<1>3. /\ c \in Nat /\ out \in 0..c
      /\ out > 0 => own # frames[out].own
      /\ \A i \in 1..c : frames[i].out \in Nat /\ frames[i].out < i /\ frames[i].save \in Nat
  BY <1>1, FrameTypes, PassedIsInProgress, FirstArenaIsFree
<1>5. \A r \in live : r.owner \in 0..c /\ r.from \in Nat /\ r.upto \in Nat
  BY <1>1 DEF TypeOK
<1>6. arenas[own].allocated \in Nat
  BY <1>1, FirstArenaIsFree DEF TypeOK, Arena
<1> HIDE DEF c, own
<1>7. TypeOK'
  <2>1. ASSUME NEW i \in 1..(c + 1)
        PROVE  frames'[i].out < i
    <3>1. CASE i \in 1..c
      BY <3>1, <1>2, <1>3
    <3>2. CASE i = c + 1
      BY <3>2, <1>2, <1>3
    <3> QED
      BY <3>1, <3>2, <1>3
  <2>2. live \subseteq [owner : 0..(c + 1), arena : Arena, from : Nat, upto : Nat]
    BY <1>1, <1>3 DEF TypeOK, c
  <2> QED
    BY <1>1, <1>2, <2>1, <2>2 DEF TypeOK
<1>8. SavesAreNested'
  <2>1. ASSUME NEW i \in 1..(c + 1)
        PROVE  frames'[i].save <= arenas[frames'[i].own].allocated
    <3>1. CASE i \in 1..c
      BY <3>1, <1>1, <1>2 DEF SavesAreNested, c
    <3>2. CASE i = c + 1
      BY <3>2, <1>2, <1>6
    <3> QED
      BY <3>1, <3>2, <1>3
  <2>2. ASSUME NEW i \in 1..(c + 1), NEW j \in 1..i, frames'[j].own = frames'[i].own
        PROVE  frames'[j].save <= frames'[i].save
    <3>1. CASE i \in 1..c
      <4>1. j \in 1..c
        BY <3>1, <1>3
      <4>2. frames'[i] = frames[i] /\ frames'[j] = frames[j]
        BY <4>1, <3>1, <1>2
      <4> QED
        BY <4>1, <4>2, <3>1, <2>2, <1>1 DEF SavesAreNested, c
    <3>2. CASE i = c + 1
      <4>1. j \in 1..(c + 1)
        BY <3>2, <1>3
      <4>2. frames'[j].save <= arenas[frames'[j].own].allocated
        BY <4>1, <2>1
      <4> QED
        BY <4>2, <3>2, <2>2, <1>2
    <3> QED
      BY <3>1, <3>2, <1>3
  <2> QED
    BY <2>1, <2>2, <1>2 DEF SavesAreNested
<1>9. PassedOn'
  <2>1. out = 0 \/ out = c \/ (c > 0 /\ out = frames[c].out)
    BY <1>3 DEF Passed, c
  <2>2. ASSUME NEW i \in 1..c, frames[i].out > 0, NEW j \in (frames[i].out + 1)..i
        PROVE  j \in 1..c /\ frames[j].out = frames[i].out /\ frames[j].own # frames[frames[i].out].own
    BY <2>2, <1>1, <1>3 DEF PassedOn, c
  <2>3. ASSUME NEW i \in 1..c, frames'[i].out > 0, NEW j \in (frames'[i].out + 1)..i
        PROVE  frames'[j].out = frames'[i].out /\ frames'[j].own # frames'[frames'[i].out].own
    <3>1. frames'[i] = frames[i] /\ frames[i].out > 0 /\ j \in (frames[i].out + 1)..i
      BY <2>3, <1>2
    <3>2. frames[i].out \in 1..c
      BY <3>1, <1>3
    <3>3. j \in 1..c /\ frames[j].out = frames[i].out /\ frames[j].own # frames[frames[i].out].own
      BY <3>1, <2>2
    <3> QED
      BY <3>1, <3>2, <3>3, <1>2
  <2>4. ASSUME out > 0, NEW j \in (out + 1)..(c + 1)
        PROVE  frames'[j].out = out /\ frames'[j].own # frames'[out].own
    <3>1. frames'[out] = frames[out]
      BY <2>4, <1>2, <1>3
    <3>2. CASE j = c + 1
      BY <3>1, <3>2, <2>4, <1>2, <1>3
    <3>3. CASE j # c + 1
      <4>1. j \in (out + 1)..c /\ c \in 1..c /\ out = frames[c].out
        BY <3>3, <2>1, <2>4, <1>3
      <4>2. j \in 1..c /\ frames[j].out = out /\ frames[j].own # frames[out].own
        BY <4>1, <2>2, <2>4
      <4> QED
        BY <4>2, <3>1, <1>2
    <3> QED
      BY <3>2, <3>3
  <2>5. ASSUME NEW i \in 1..(c + 1), frames'[i].out > 0, NEW j \in (frames'[i].out + 1)..i
        PROVE  frames'[j].out = frames'[i].out /\ frames'[j].own # frames'[frames'[i].out].own
    <3>1. CASE i \in 1..c
      BY <3>1, <2>3, <2>5
    <3>2. CASE i = c + 1
      BY <3>2, <2>4, <2>5, <1>2
    <3> QED
      BY <3>1, <3>2, <1>3
  <2> QED
    BY <2>5, <1>2 DEF PassedOn
<1>10. RegionsAreKept'
  <2>1. ASSUME NEW r \in live
        PROVE  /\ r.from < r.upto
               /\ r.owner = 0 => r.arena = ProgramArena
               /\ r.owner > 0 => /\ r.arena = frames'[r.owner].own
                                 /\ frames'[r.owner].save <= r.from
    <3>1. r.owner \in 0..c /\ (r.owner > 0 => frames'[r.owner] = frames[r.owner])
      BY <1>2, <1>3, <1>5
    <3> QED
      BY <3>1, <1>1 DEF RegionsAreKept
  <2>2. ASSUME NEW r \in live, NEW i \in (r.owner + 1)..(c + 1), frames'[i].own = r.arena
        PROVE  r.upto <= frames'[i].save
    <3>1. CASE i = c + 1
      BY <3>1, <2>2, <1>1, <1>2
    <3>2. CASE i # c + 1
      <4>1. r.owner \in 0..c
        BY <1>5
      <4>2. i \in (r.owner + 1)..c /\ i \in 1..c
        BY <4>1, <3>2, <1>3
      <4> QED
        BY <4>2, <2>2, <1>1, <1>2 DEF RegionsAreKept, c
    <3> QED
      BY <3>1, <3>2
  <2> QED
    BY <2>1, <2>2, <1>2 DEF RegionsAreKept
<1> QED
  BY <1>2, <1>7, <1>8, <1>9, <1>10 DEF Inv, MemoryIsCommitted, RegionsAreApart, R!Apart
-----------------------------------------------------------------------------
(* arena_push (os_win32.c:100-121) hands out bytes above those in use.     *)
LEMMA PushHandsOut ==
  ASSUME Inv, NEW owner \in Passed, NEW amount \in Amounts, arena_push(owner, amount),
         NEW a, a = ArenaOf(owner)
  PROVE  \E offset \in Nat, end \in Nat, capacity \in Nat :
           /\ arenas[a].allocated <= offset /\ offset < end
           /\ end <= capacity /\ capacity <= PageSize * PageCount
           /\ arenas' = [arenas EXCEPT ![a] = [allocated |-> end, capacity |-> capacity]]
           /\ live' = live \cup {[owner |-> owner, arena |-> a, from |-> offset, upto |-> end]}
           /\ frames' = frames
<1> DEFINE offset == Aligned(arenas[a].allocated)
           end == offset + amount
           capacity == CapacityFor(arenas[a].capacity, end)
<1>1. a \in Arena
  BY PassedIsInProgress DEF Inv
<1>2. arenas[a].allocated \in Nat /\ arenas[a].capacity \in Nat
  BY <1>1 DEF Inv, TypeOK
<1>3. offset \in Nat /\ offset >= arenas[a].allocated
  BY <1>2, AlignedIsAbove
<1>4. amount \in Nat \ {0}
  BY ArenaAssumption
<1>5. end \in Nat /\ offset < end
  BY <1>3, <1>4
<1>6. capacity \in Nat /\ capacity >= end
  BY <1>2, <1>5, CapacityHoldsEnd
<1>7. /\ capacity <= PageSize * PageCount
      /\ arenas' = [arenas EXCEPT ![a] = [allocated |-> end, capacity |-> capacity]]
      /\ live' = live \cup {[owner |-> owner, arena |-> a, from |-> offset, upto |-> end]}
      /\ frames' = frames
  <2>1. CapacityFor(arenas[a].capacity, Aligned(arenas[a].allocated) + amount)
          <= PageSize * PageCount
    BY DEF arena_push
  <2>2. arenas' = [arenas EXCEPT ![a] =
                     [allocated |-> Aligned(arenas[a].allocated) + amount,
                      capacity |-> CapacityFor(@.capacity, Aligned(arenas[a].allocated) + amount)]]
    BY DEF arena_push
  <2>3. /\ live' = live \cup {[owner |-> owner, arena |-> a, from |-> offset, upto |-> end]}
        /\ frames' = frames
    BY DEF arena_push
  <2> QED
    BY <2>1, <2>2, <2>3
<1> HIDE DEF offset, end, capacity
<1>8. end <= capacity /\ arenas[a].allocated <= offset
  BY <1>2, <1>3, <1>5, <1>6
<1> QED
  BY <1>3, <1>5, <1>6, <1>7, <1>8

(* No frame above the owner has a scratch in the arena pushed on.          *)
LEMMA NoneIsBetween ==
  ASSUME Inv, NEW owner \in Passed, NEW i \in (owner + 1)..Caller
  PROVE  frames[i].own # ArenaOf(owner)
<1>1. /\ Caller \in Nat /\ owner \in 0..Caller
      /\ owner = 0 => ArenaOf(owner) \notin ScratchArenas
      /\ owner > 0 => ArenaOf(owner) = frames[owner].own
  BY FrameTypes, PassedIsInProgress DEF Inv
<1>2. i \in 1..Caller /\ frames[i].own \in ScratchArenas
  BY <1>1, FrameTypes DEF Inv
<1>3. CASE owner = 0
  BY <1>1, <1>2, <1>3
<1>4. CASE owner > 0
  <2>1. Caller \in 1..Caller /\ owner = frames[Caller].out
    BY <1>1, <1>2, <1>4 DEF Passed
  <2>2. frames[i].own # frames[owner].own
    BY <2>1, <1>1, <1>4 DEF Inv, PassedOn
  <2> QED
    BY <2>2, <1>1, <1>4
<1> QED
  BY <1>1, <1>3, <1>4

(* A push moves one arena up, and its region is apart from the others.     *)
LEMMA PushKeepsInv ==
  ASSUME Inv, NEW owner \in Passed, NEW amount \in Amounts, arena_push(owner, amount)
  PROVE  Inv' /\ R!Give
<1> DEFINE a == ArenaOf(owner)
<1>1. PICK offset \in Nat, end \in Nat, capacity \in Nat :
        /\ arenas[a].allocated <= offset /\ offset < end
        /\ end <= capacity /\ capacity <= PageSize * PageCount
        /\ arenas' = [arenas EXCEPT ![a] = [allocated |-> end, capacity |-> capacity]]
        /\ live' = live \cup {[owner |-> owner, arena |-> a, from |-> offset, upto |-> end]}
        /\ frames' = frames
  BY PushHandsOut
<1> DEFINE new == [owner |-> owner, arena |-> a, from |-> offset, upto |-> end]
<1>2. /\ Caller \in Nat /\ owner \in 0..Caller /\ a \in Arena /\ Caller' = Caller
      /\ \A i \in 1..Caller : frames[i].own \in Arena /\ frames[i].save \in Nat
  BY <1>1, FrameTypes, PassedIsInProgress DEF Inv, Arena, Caller
<1>3. /\ new.owner = owner /\ new.arena = a /\ new.from = offset /\ new.upto = end
      /\ new \in [owner : 0..Caller, arena : Arena, from : Nat, upto : Nat]
  BY <1>1, <1>2
<1>4. /\ arenas' \in [Arena -> [allocated : Nat, capacity : Nat]]
      /\ arenas'[a].allocated = end /\ arenas'[a].capacity = capacity
      /\ \A b \in Arena : b # a => arenas'[b] = arenas[b]
  BY <1>1, <1>2 DEF Inv, TypeOK
<1>5. \A b \in Arena : arenas[b].allocated \in Nat /\ arenas[b].allocated <= arenas'[b].allocated
  BY <1>1, <1>4 DEF Inv, TypeOK
<1>6. owner = 0 => a = ProgramArena
  BY DEF ArenaOf
<1>7. owner > 0 => a = frames[owner].own /\ frames[owner].save <= arenas[a].allocated
  BY <1>2, PassedIsInProgress DEF Inv, MemoryIsCommitted, SavesAreNested
<1>8. \A i \in (owner + 1)..Caller : frames[i].own # a
  BY NoneIsBetween
<1> HIDE DEF a, new
<1>9. live' = live \cup {new}
  BY <1>1 DEF new
<1>10. TypeOK'
  BY <1>1, <1>2, <1>3, <1>4, <1>9 DEF Inv, TypeOK
<1>11. SavesAreNested'
  <2>1. ASSUME NEW i \in 1..Caller
        PROVE  frames[i].save <= arenas'[frames[i].own].allocated
    <3>1. frames[i].save <= arenas[frames[i].own].allocated
      BY DEF Inv, MemoryIsCommitted, SavesAreNested
    <3>2. arenas'[frames[i].own].allocated \in Nat
      BY <1>2, <1>4
    <3> QED
      BY <3>1, <3>2, <1>2, <1>5
  <2> QED
    BY <2>1, <1>1, <1>2 DEF Inv, MemoryIsCommitted, SavesAreNested
<1>12. ASSUME NEW r \in live
       PROVE  /\ r.arena \in Arena /\ r.upto \in Nat /\ r.upto <= arenas[r.arena].allocated
              /\ arenas[r.arena].allocated <= arenas'[r.arena].allocated
              /\ arenas'[r.arena].allocated \in Nat
  BY <1>4, <1>5 DEF Inv, TypeOK, MemoryIsCommitted
<1>13. MemoryIsCommitted'
  <2>1. ASSUME NEW r \in live'
        PROVE  r.upto <= arenas'[r.arena].allocated
    <3>1. CASE r \in live
      BY <3>1, <1>5, <1>12
    <3>2. CASE r = new
      BY <3>2, <1>3, <1>4
    <3> QED
      BY <2>1, <3>1, <3>2, <1>9
  <2>2. ASSUME NEW b \in Arena
        PROVE  /\ arenas'[b].allocated <= arenas'[b].capacity
               /\ arenas'[b].capacity <= PageSize * PageCount
    BY <1>1, <1>4 DEF Inv, MemoryIsCommitted
  <2> QED
    BY <2>1, <2>2, <1>11 DEF MemoryIsCommitted
<1>14. PassedOn'
  BY <1>1, <1>2 DEF Inv, PassedOn
<1>15. RegionsAreKept'
  <2>1. ASSUME NEW r \in live'
        PROVE  /\ r.from < r.upto
               /\ r.owner = 0 => r.arena = ProgramArena
               /\ r.owner > 0 => r.arena = frames[r.owner].own /\ frames[r.owner].save <= r.from
               /\ \A i \in (r.owner + 1)..Caller : frames[i].own = r.arena => r.upto <= frames[i].save
    <3>1. CASE r \in live
      BY <3>1 DEF Inv, RegionsAreKept
    <3>2. CASE r = new
      <4>1. owner > 0 => frames[owner].save <= offset
        <5>1. arenas[a].allocated \in Nat /\ (owner > 0 => frames[owner].save \in Nat)
          BY <1>2, <1>5
        <5> QED
          BY <5>1, <1>1, <1>7
      <4> QED
        BY <4>1, <3>2, <1>1, <1>3, <1>6, <1>7, <1>8
    <3> QED
      BY <2>1, <3>1, <3>2, <1>9
  <2> QED
    BY <2>1, <1>1, <1>2 DEF RegionsAreKept
<1>16. ASSUME NEW s \in live
       PROVE  R!Apart(new, s) /\ R!Apart(s, new)
  <2>1. CASE s.arena = a
    <3>1. s.upto \in Nat /\ s.upto <= arenas[a].allocated /\ arenas[a].allocated \in Nat
      BY <2>1, <1>2, <1>5, <1>12
    <3>2. s.upto <= new.from
      BY <3>1, <1>1, <1>3
    <3> QED
      BY <3>2 DEF R!Apart
  <2>2. CASE s.arena # a
    BY <2>2, <1>3 DEF R!Apart
  <2> QED
    BY <2>1, <2>2
<1>17. RegionsAreApart'
  BY <1>9, <1>16 DEF Inv, RegionsAreApart, R!Apart
<1>18. R!Give
  <2>1. new \notin live
    <3>1. SUFFICES ASSUME new \in live
                   PROVE  FALSE
      OBVIOUS
    <3>2. end <= arenas[a].allocated /\ arenas[a].allocated \in Nat
      BY <3>1, <1>2, <1>3, <1>5, <1>12
    <3> QED
      BY <3>2, <1>1
  <2>2. new \in live' \ live /\ new.owner \in 0..Caller
    BY <2>1, <1>2, <1>3, <1>9
  <2> QED
    BY <2>2, <1>2, <1>9, <1>16 DEF R!Give
<1> QED
  BY <1>10, <1>13, <1>14, <1>15, <1>17, <1>18 DEF Inv
-----------------------------------------------------------------------------
(* Where scratch_release sets its arena back, it keeps all that is not its *)
(* frame's own, and what it takes back is just its frame's own.            *)
LEMMA KeptIsOthers ==
  ASSUME Inv, Caller > 0
  PROVE  Kept(frames[Caller].own, frames[Caller].save) = {r \in live : r.owner # Caller}
<1>1. Caller \in Nat /\ frames[Caller].save \in Nat
  BY FrameTypes DEF Inv
<1>2. ASSUME NEW r \in live, r.owner = Caller
      PROVE  r.arena = frames[Caller].own /\ ~(r.upto <= frames[Caller].save)
  <2>1. r.from \in Nat /\ r.upto \in Nat /\ r.from < r.upto
    BY DEF Inv, TypeOK, RegionsAreKept
  <2>2. r.arena = frames[Caller].own /\ frames[Caller].save <= r.from
    BY <1>2 DEF Inv, RegionsAreKept
  <2> QED
    BY <2>1, <2>2, <1>1
<1>3. ASSUME NEW r \in live, r.owner # Caller
      PROVE  r.arena # frames[Caller].own \/ r.upto <= frames[Caller].save
  <2>1. r.owner \in 0..Caller
    BY DEF Inv, TypeOK
  <2>2. Caller \in (r.owner + 1)..Caller
    BY <2>1, <1>1, <1>3
  <2> QED
    BY <2>2 DEF Inv, RegionsAreKept
<1> QED
  BY <1>2, <1>3 DEF Kept

(* A return leaves the frames below it, and the regions that are theirs.   *)
LEMMA ReturnKeepsInv ==
  ASSUME Inv, Caller > 0, frames' = SubSeq(frames, 1, Caller - 1),
         live' = {r \in live : r.owner # Caller},
         arenas' \in [Arena -> [allocated : Nat, capacity : Nat]],
         \A b \in Arena : /\ arenas'[b].capacity = arenas[b].capacity
                         /\ arenas'[b].allocated <= arenas[b].allocated,
         \A i \in 1..(Caller - 1) : frames[i].save <= arenas'[frames[i].own].allocated,
         \A r \in live' : r.upto <= arenas'[r.arena].allocated
  PROVE  Inv' /\ R!Leave
<1> DEFINE c == Caller
<1>1. /\ frames' \in Seq([own : ScratchArenas, out : Nat, save : Nat])
      /\ c \in Nat /\ c > 0 /\ Caller' = c - 1
      /\ \A i \in 1..(c - 1) : frames'[i] = frames[i]
  BY OthersStay DEF Inv
<1>2. \A i \in 1..c : frames[i].out \in Nat /\ frames[i].out < i
  BY FrameTypes DEF Inv
<1>3. \A r \in live : r.owner \in 0..c
  BY DEF Inv, TypeOK
<1>4. live' \subseteq live /\ \A r \in live' : r.owner \in 0..(c - 1)
  BY <1>1, <1>3
<1>5. TypeOK'
  <2>1. live' \subseteq [owner : 0..(c - 1), arena : Arena, from : Nat, upto : Nat]
    <3>1. ASSUME NEW r \in live'
          PROVE  r \in [owner : 0..(c - 1), arena : Arena, from : Nat, upto : Nat]
      <4>1. r \in [owner : 0..c, arena : Arena, from : Nat, upto : Nat]
        BY <1>4 DEF Inv, TypeOK
      <4> QED
        BY <4>1, <1>4
    <3> QED
      BY <3>1
  <2>2. \A i \in 1..(c - 1) : frames'[i].out < i
    BY <1>1, <1>2
  <2> QED
    BY <2>1, <2>2, <1>1 DEF TypeOK
<1>6. SavesAreNested'
  <2>1. ASSUME NEW i \in 1..(c - 1), NEW j \in 1..i, frames'[j].own = frames'[i].own
        PROVE  frames'[j].save <= frames'[i].save
    <3>1. i \in 1..c /\ j \in 1..(c - 1)
      BY <1>1
    <3>2. frames'[i] = frames[i] /\ frames'[j] = frames[j]
      BY <3>1, <1>1
    <3> QED
      BY <3>1, <3>2, <2>1 DEF Inv, MemoryIsCommitted, SavesAreNested
  <2>2. \A i \in 1..(c - 1) : frames'[i].save <= arenas'[frames'[i].own].allocated
    BY <1>1
  <2> QED
    BY <2>1, <2>2, <1>1 DEF SavesAreNested
<1>7. MemoryIsCommitted'
  <2>1. ASSUME NEW b \in Arena
        PROVE  /\ arenas'[b].allocated <= arenas'[b].capacity
               /\ arenas'[b].capacity <= PageSize * PageCount
    <3>1. /\ arenas[b].allocated \in Nat /\ arenas[b].capacity \in Nat
          /\ arenas'[b].allocated \in Nat
      BY DEF Inv, TypeOK
    <3>2. arenas[b].allocated <= arenas[b].capacity /\ arenas[b].capacity <= PageSize * PageCount
      BY DEF Inv, MemoryIsCommitted
    <3> QED
      BY <3>1, <3>2
  <2> QED
    BY <2>1, <1>6 DEF MemoryIsCommitted
<1>8. PassedOn'
  <2>1. ASSUME NEW i \in 1..(c - 1), frames'[i].out > 0, NEW j \in (frames'[i].out + 1)..i
        PROVE  frames'[j].out = frames'[i].out /\ frames'[j].own # frames'[frames'[i].out].own
    <3>1. frames'[i] = frames[i] /\ i \in 1..c
      BY <1>1
    <3>2. frames[i].out \in 1..(c - 1) /\ j \in 1..(c - 1)
      BY <3>1, <2>1, <1>1, <1>2
    <3>3. frames[j].out = frames[i].out /\ frames[j].own # frames[frames[i].out].own
      BY <3>1, <2>1 DEF Inv, PassedOn
    <3> QED
      BY <3>1, <3>2, <3>3, <1>1
  <2> QED
    BY <2>1, <1>1 DEF PassedOn
<1>9. RegionsAreKept'
  <2>1. ASSUME NEW r \in live'
        PROVE  /\ r.from < r.upto
               /\ r.owner = 0 => r.arena = ProgramArena
               /\ r.owner > 0 => r.arena = frames'[r.owner].own /\ frames'[r.owner].save <= r.from
    <3>1. r \in live /\ (r.owner > 0 => frames'[r.owner] = frames[r.owner])
      BY <1>1, <1>4
    <3> QED
      BY <3>1 DEF Inv, RegionsAreKept
  <2>2. ASSUME NEW r \in live', NEW i \in (r.owner + 1)..(c - 1), frames'[i].own = r.arena
        PROVE  r.upto <= frames'[i].save
    <3>1. r \in live /\ i \in 1..(c - 1) /\ i \in (r.owner + 1)..c
      BY <1>1, <1>4
    <3> QED
      BY <3>1, <2>2, <1>1 DEF Inv, RegionsAreKept
  <2> QED
    BY <2>1, <2>2, <1>1 DEF RegionsAreKept
<1>10. RegionsAreApart'
  BY <1>4 DEF Inv, RegionsAreApart, R!Apart
<1>11. R!Leave
  BY <1>1 DEF R!Leave
<1> QED
  BY <1>5, <1>7, <1>8, <1>9, <1>10, <1>11 DEF Inv

(* scratch_release (os_win32.c:86-98) sets its arena back to its save.     *)
LEMMA ReleaseKeepsInv ==
  ASSUME Inv, scratch_release
  PROVE  Inv' /\ R!Leave
<1> DEFINE own == frames[Caller].own
           save == frames[Caller].save
<1>1. /\ Caller > 0 /\ frames' = SubSeq(frames, 1, Caller - 1)
      /\ live' = Kept(own, save)
      /\ arenas' = [arenas EXCEPT ![own].allocated = save]
  BY DEF scratch_release
<1>2. live' = {r \in live : r.owner # Caller}
  BY <1>1, KeptIsOthers
<1>3. /\ Caller \in Nat /\ own \in Arena /\ save \in Nat
      /\ \A i \in 1..Caller : frames[i].own \in Arena /\ frames[i].save \in Nat
  BY <1>1, FrameTypes DEF Inv, Arena
<1>4. save <= arenas[own].allocated
  BY <1>1, <1>3 DEF Inv, MemoryIsCommitted, SavesAreNested
<1> HIDE DEF own, save
<1>5. /\ arenas' \in [Arena -> [allocated : Nat, capacity : Nat]]
      /\ arenas'[own].allocated = save /\ arenas'[own].capacity = arenas[own].capacity
      /\ \A b \in Arena : b # own => arenas'[b] = arenas[b]
  BY <1>1, <1>3 DEF Inv, TypeOK
<1>6. ASSUME NEW b \in Arena
      PROVE  /\ arenas'[b].capacity = arenas[b].capacity
             /\ arenas'[b].allocated <= arenas[b].allocated
  <2>1. arenas[b].allocated \in Nat
    BY DEF Inv, TypeOK
  <2>2. CASE b = own
    BY <2>2, <1>4, <1>5
  <2>3. CASE b # own
    BY <2>1, <2>3, <1>5
  <2> QED
    BY <2>2, <2>3
<1>7. ASSUME NEW i \in 1..(Caller - 1)
      PROVE  frames[i].save <= arenas'[frames[i].own].allocated
  <2>1. i \in 1..Caller /\ Caller \in 1..Caller /\ i \in 1..Caller
    BY <1>1, <1>3
  <2>2. CASE frames[i].own = own
    BY <2>1, <2>2, <1>5 DEF Inv, MemoryIsCommitted, SavesAreNested, own, save
  <2>3. CASE frames[i].own # own
    BY <2>1, <2>3, <1>3, <1>5 DEF Inv, MemoryIsCommitted, SavesAreNested
  <2> QED
    BY <2>2, <2>3
<1>8. ASSUME NEW r \in live'
      PROVE  r.upto <= arenas'[r.arena].allocated
  <2>1. /\ r \in live /\ r.arena \in Arena
        /\ r.arena # own \/ r.upto <= save
    BY <1>1 DEF Kept, Inv, TypeOK
  <2>2. r.upto <= arenas[r.arena].allocated
    BY <2>1 DEF Inv, MemoryIsCommitted
  <2> QED
    BY <2>1, <2>2, <1>5
<1> QED
  BY <1>1, <1>2, <1>5, <1>6, <1>7, <1>8, ReturnKeepsInv

(* A return without scratch_release leaves the arena as it is.             *)
LEMMA UnreleasedKeepsInv ==
  ASSUME Inv, return_unreleased
  PROVE  Inv' /\ R!Leave
<1>1. /\ Caller > 0 /\ frames' = SubSeq(frames, 1, Caller - 1)
      /\ live' = {r \in live : r.owner # Caller} /\ arenas' = arenas
  BY DEF return_unreleased
<1>2. arenas' \in [Arena -> [allocated : Nat, capacity : Nat]]
  BY <1>1 DEF Inv, TypeOK
<1>3. \A b \in Arena : /\ arenas'[b].capacity = arenas[b].capacity
                      /\ arenas'[b].allocated <= arenas[b].allocated
  BY <1>1 DEF Inv, TypeOK
<1>4. \A i \in 1..(Caller - 1) : frames[i].save <= arenas'[frames[i].own].allocated
  BY <1>1, FrameTypes DEF Inv, MemoryIsCommitted, SavesAreNested
<1>5. \A r \in live' : r.upto <= arenas'[r.arena].allocated
  BY <1>1 DEF Inv, MemoryIsCommitted
<1> QED
  BY <1>1, <1>2, <1>3, <1>4, <1>5, ReturnKeepsInv

-----------------------------------------------------------------------------
(* Nothing is allocated at first.                                          *)
LEMMA InitHasInv == ScratchInit => Inv /\ R!Init
<1> SUFFICES ASSUME ScratchInit
             PROVE  Inv /\ R!Init
  OBVIOUS
<1>1. Caller = 0 /\ live = {}
  BY DEF ScratchInit, Caller
<1>2. /\ arenas \in [Arena -> [allocated : Nat, capacity : Nat]]
      /\ \A a \in Arena : arenas[a].allocated = 0 /\ arenas[a].capacity = 0
  BY DEF ScratchInit
<1>3. frames \in Seq([own : ScratchArenas, out : Nat, save : Nat])
  BY DEF ScratchInit
<1>4. 0 <= PageSize * PageCount
  BY ArenaAssumption
<1>5. TypeOK /\ SavesAreNested /\ MemoryIsCommitted
  BY <1>1, <1>2, <1>3, <1>4 DEF TypeOK, SavesAreNested, MemoryIsCommitted
<1> QED
  BY <1>1, <1>5 DEF Inv, PassedOn, RegionsAreKept, RegionsAreApart, R!Init

(* Each step keeps the invariant and is a step of Regions.                 *)
LEMMA NextKeepsInv ==
  ASSUME Inv, [ScratchNext]_svars
  PROVE  Inv' /\ [R!Next]_(R!vars)
<1>1. ASSUME NEW out \in Passed, scratch_get(out)
      PROVE  Inv' /\ R!Enter
  <2>1. TypeOK
    BY DEF Inv
  <2> QED
    BY <1>1, <2>1, GetKeepsInv, GetAddsFrame DEF R!Enter
<1>2. CASE scratch_release \/ return_unreleased
  BY <1>2, ReleaseKeepsInv, UnreleasedKeepsInv DEF R!Next
<1>3. ASSUME NEW owner \in Passed, NEW amount \in Amounts, arena_push(owner, amount)
      PROVE  Inv' /\ R!Next
  BY <1>3, PushKeepsInv DEF R!Next
<1>4. CASE UNCHANGED svars
  <2>1. arenas' = arenas /\ frames' = frames /\ live' = live /\ Caller' = Caller
    BY <1>4 DEF svars, Caller
  <2>2. TypeOK' /\ MemoryIsCommitted'
    BY <2>1 DEF Inv, TypeOK, MemoryIsCommitted, SavesAreNested
  <2>3. PassedOn' /\ RegionsAreKept' /\ RegionsAreApart'
    BY <2>1 DEF Inv, PassedOn, RegionsAreKept, RegionsAreApart, R!Apart
  <2> QED
    BY <2>1, <2>2, <2>3 DEF Inv, R!vars
<1> QED
  BY <1>1, <1>2, <1>3, <1>4 DEF ScratchNext, R!Next

(* os_win32.c and its callers: each function's memory is its own until it  *)
(* returns, whatever is called, pushed and passed on, and no longer.       *)
THEOREM ScratchImplementsRegions == ScratchSpec => ImplementsRegions
<1>1. ScratchInit => Inv /\ R!Init
  BY InitHasInv
<1>2. Inv /\ [ScratchNext]_svars => Inv' /\ [R!Next]_(R!vars)
  BY NextKeepsInv
<1> QED
  BY <1>1, <1>2, PTL DEF ScratchSpec, ImplementsRegions, R!Spec

(* The assertion of scratch_release, and the pages of arena_push: saves    *)
(* are nested, and all that is in use is committed.                        *)
THEOREM MemoryStaysCommitted == ScratchSpec => []MemoryIsCommitted
<1>1. ScratchInit => Inv
  BY InitHasInv
<1>2. Inv /\ [ScratchNext]_svars => Inv'
  BY NextKeepsInv
<1>3. Inv => MemoryIsCommitted
  BY DEF Inv
<1> QED
  BY <1>1, <1>2, <1>3, PTL DEF ScratchSpec
=============================================================================
