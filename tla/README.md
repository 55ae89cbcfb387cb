# A verification project for cringe

cringe compiles a C-like language to x64 text.  It is one sequential program: a
lexer and a parser emit a control-flow graph of three-operand instructions,
`sem_analyze` drops the blocks nothing reaches, `sem_lower` turns the graph into
a sea of nodes, `cb_opt_func` optimizes that, `cb_select_x64` selects
instructions, and `cb_generate_x64` schedules, colours and prints them.  Nothing
runs concurrently and nothing is persisted.  What is hard is of another kind:
graphs with cycles that are rewritten while they are walked, relations that are
stored twice (inputs and uses, `packed` and `sparse`, a node and its hash), work
lists whose order the passes must not depend on, and loops that end only because
each round leaves less to do.

## Inventory

| part | source | state | operations | hard about it | correct when |
|---|---|---|---|---|---|
| lexer | front/lexer.c, tables of meta/lex_meta.c | position, line | `lexer_next` | a generated automaton, a hash of keywords, lines counted in three places | tokens are the longest ones and keep their line |
| parser | front/parse.c | state and value stacks, scopes, current block | one handler per grammar rule | handlers communicate only through two stacks and the current block | each operand is used once, jumps go to blocks of the function, one terminator ends a block |
| semantic analysis | front/sem.c | blocks, type table | `sem_analyze`, `sem_compute_successors`, `sem_find_type` | removal from the list that is walked | exactly the reachable blocks are left |
| lowering | front/lower.c | `lower_context_t`, `data_map`, `value_map` | one function per instruction | phi inputs are known only after all blocks | the graph does what the source does |
| program graph | back/core.c | nodes, inputs, use lists | `new_node`, `set_input`, `cb_set_phi_ins`, `cb_finalize_func`, walks | two copies of the edges | uses are the inputs read backwards |
| worklist | back/opt.c | `packed`, `sparse` | add, remove, pop, reset | a swap on removal | it is a set |
| value table | back/gvn.c | slots, count | `gvn_get`, `gvn_remove`, `gvn_clear` | probing past tombstones, growth | it holds one representative of each value |
| optimizer | back/opt.c | worklist, value table, a stack | `peepholes`, `idealize_*`, `replace_node`, `remove_node`, `dead_store_elim` | it rewrites the graph it walks, phis of loops | same behaviour, a fixpoint, it ends |
| selection | back/x64.c, x64.isa | roots, a map to the new graph, a list of inputs to fill in | `cb_select_x64` | patterns must not swallow shared nodes; cycles | the new graph does what the old one does |
| scheduler | back/gcm.c | blocks, dominators, block of each node | early, late, anti-dependences, order | memory order, cycles | each definition is before its uses |
| code generation | back/x64.c | registers of nodes, blocks of instructions, frame | `cb_generate_x64` | phi copies, jumps in the middle of a list | the code does what the graph does |
| register allocation | back/x64.c | liveness, interference, coalescing, select stack, colours | `regalloc` and what it calls | a loop in a loop in a loop that rewrites the code | neighbours never share a register; spilled values come back |
| arenas | os_win32.c | two arenas of scratch memory | `arena_push`, `scratch_get`, `scratch_release` | nesting, functions that do not release | nothing in use is handed out again |
| vectors, errors, dumps, `main` | vec.c, front/error.c, main.c | | | | |
| generators | meta/ | | run at build time | | |

## Modules

    Lexer (LexerProofs)                            <- MCLexer
    Parser (ParserProofs), Meaning (uses SourceSemantics) <- Frontend <- MCFrontend
    NodeSet      <- Worklist   <- MCWorklist       (WorklistProofs)
    ValueTable   <- GvnTable   <- MCGvnTable       (GvnTableProofs)
    Regions      <- Scratch                        (ScratchProofs)
    SeaOfNodes   <- Lowering, Optimizer <- Passes  (GraphProofs <- PassesProofs)
    Passes, Semantics          <- Compile          <- MCCompile
    SeaOfNodes   <- Scheduler  <- Execution
    Compile, Execution         <- Backend          <- MCBackend
    SeaOfNodes   <- Selection
    MachineCode  <- CodeGen (extends Scheduler), RegAlloc, MachineSemantics
    RegAlloc (RegAllocProofs)
    Maps         <- SeaOfNodes, RegAlloc
    Backend, Selection, CodeGen, RegAlloc, MachineSemantics <- Target <- MCTarget

* `Parser` is parse.c and sem.c.  The parser is a machine: `parse_unit` pops a
  state and runs its handler, and each handler is an action.  `p` is `parser_t`
  with its two stacks, scopes, definers and the blocks of the current function;
  `unit` is what has been parsed, and `stage` where `main` is.  The lexer is
  outside: `src` holds the tokens it has delivered, and it may deliver any token
  that may follow the one before.  Which may, and how many, is what the kinds of
  text (`Texts`) differ in; the variable `text` is the kind of this behaviour.  A number or a variable is the place of its
  token, a scope is a function from names to values, a type is a name, and
  all error messages end in one state.
* `Meaning` is a reference and stands for no code: what a text means, read
  off its tokens by searching for braces and operators, with no stack.
  The properties of the parser alone are at the end of `Parser`.
* `Frontend` states what the parser and the analysis promise together.
* `Worklist` is the sparse set of opt.c with C's two vectors; `NodeSet` is what
  the optimizer takes it for, a set.  `Worklist` is also the worklist inside
  `Optimizer` (`W == INSTANCE Worklist`), so what is proved of it is used.
* `GvnTable` is gvn.c: slots, tombstones, `count`, and growth as one action per
  slot moved.  A node's content stands for all that `hash_node` and
  `nodes_ident` read; `Hash` is any function of contents.  `ValueTable` is what
  the optimizer takes it for, a set of entries; `Optimizer` uses that one
  (`V == INSTANCE ValueTable`).
* `SeaOfNodes` has the operations of core.c as operators from graph to graph.
  A use list is a sequence, the newest use first, as in the code.  A loop of core.c
  is a function of the number of its turns, so that it can be proved about.
* `Maps` has two operators on functions and sequences that several modules need.
* `Lowering` has one action per instruction and per turn of the loops of
  `sem_lower`.  `POISON`, on which the program exits and which the parser never
  makes, is left out.
* `Optimizer` has one action per peephole and per turn of each loop of opt.c:
  `opt.phase` says which loop is under way, and `opt` holds its locals.
* `Scheduler` is gcm.c, with the post-order walk of core.c: one action per turn
  of each loop, `sched.phase` saying which pass is under way.  A block goes by
  the node that starts it, and its id is its place in the list of blocks.
  `dom_set` and `dom_depth` are read off the tree of immediate dominators.
* `SourceSemantics`, `Semantics`, `Execution` and `MachineSemantics` are
  references: what a function tests and returns, along one sequence of branch
  decisions, according to its source (`SourceTrace`), its graph (`GraphTrace`), its
  schedule run block by block (`ScheduleTrace`), and its instructions run one by
  one over registers and slots (`MachineTrace`).  Values are terms, so two computations agree only if
  they are the same.
* `Selection` is `cb_select_x64` with the rules of x64.isa and the matching code
  that x64_isa_meta.c prints for them: roots, one action per turn of the walk,
  `root_refs` filled in at the end.
* `MachineCode` has the instructions of x64.isa with what they read and write.
  `CodeGen` is `cb_generate_x64` but for the allocation: blocks down the dominator
  tree, one action per node, phi copies, the frame.  `mach` is `machine_func_t`.
* `RegAlloc` is the allocator, one action per turn of each loop: rounds of
  liveness, interference, coalescing and rewriting, the scans of simplification,
  the choice of a spill candidate, colouring, spilling.  `alloc.phase` says which
  loop is under way.  Interference is a set of pairs, of which `adj` is another
  copy; costs are compared as fractions.  A candidate that does not exist, which
  the code reads from before an array, is the outcome "undefined".
* `Target` composes `Compile`, `Selection`, `Scheduler`, `CodeGen` and `RegAlloc`
  in the order of `main`: the scheduler works on the graph that selection made.
* `Scratch` has the arenas as marks into their memory and the functions in
  progress as a stack; a function may take a scratch for any arena it can have
  been passed, push on it or on its own, release, or return without releasing.
  `Regions` is what callers take it for.
* `Lexer` is lexer.c and the tables of lex_meta.c: characters are of a few
  classes, the hash of words is any function of a multiplier and a word.  A step is
  one turn of a loop of `lexer_next`: over blanks, over a comment, or over the
  characters of a token; `loop` says which, `start` and `state` are its locals.
* `Passes` composes lowering and optimizing, from any program that the front
  end can leave (`IsProgram`), and states what holds of the graph; `Compile` adds
  what the program means, and `Backend` adds the schedule of
  what the optimizer leaves; `MCPrograms` builds functions as the parser makes
  them, for both.

Assertions of the code are properties (`AssertionsHold`,
`SchedulerAssertionsHold`, `NothingPoppedFromEmpty`, the mark of `scratch_release` in
`MemoryIsCommitted`); clearing memory, the growth of vectors, dumps and messages are
left out.

## What is checked

| run | instance | shows |
|---|---|---|
| `lexer` | every source of up to 5 characters: four letters, a digit, a sign, blanks, newlines, quotes, slashes; two keywords | tokens are whole, lines are counted |
| `parser` | three kinds of text: 20 tokens of `if`, `else`, `while`, `return`, blocks, constants, functions; 19 tokens of declarations of one name, assignments, `+ - * /`; 18 tokens of every spelling of a type, and a sum | jumps go where the text says; names, precedence, assignment; casts |
| `parser_operands` | texts of 13 tokens | **violated**: operands of one type are popped twice (see below) |
| `worklist` | ids 0, 2, 3, 5 | the two vectors stay inverse, and implement a set |
| `gvn_table` | 3 nodes, 3 contents of which two collide, capacity 2 to 8 | probing, tombstones and growth implement a table of values |
| `gvn_table_full` | 2 nodes, 8 contents, capacity 8 | **violated**: tombstones fill the table (see below) |
| `compile` | 203 functions: 75 with `if`, `else`, `return` and each operator; 128 with loops, an `if` in a loop, nested loops | see the properties below |
| `schedule` | the same functions | blocks, dominators, nesting, placement and order |
| `schedule_order` | one function with a loop | **violated**: a store is put before the load it stores (see below) |
| `target` | 135 functions: branches, loops, nested loops, and products that strain three registers | selection, code, liveness, colours, spills, frame |
| `target_jump` | one function with an `if` | **violated**: a value is computed after the jump (see below) |
| `scratch` | pages of 8 bytes, 3 per arena, 3 or 10 bytes at a time, 4 functions deep | arenas implement regions |

The properties of the lexer: `TokensAreWhole` (the longest word or number, a string
up to its quote, a keyword exactly when it is one), `OnlyBlanksAreSkipped` and
`LinesAreCounted`.

The properties of the parser run:

* `MeaningKept`: an analyzed function tests and returns what its text means.
  It speaks of functions whose operators join operands of two types, because
  for operands of one type the parser is wrong (`parser_operands`).
* `RefusesUnreachable`: `sem_analyze` refuses exactly the functions that have
  a statement which control cannot reach.
* `BlocksEndOnce`, `AnalyzedIsClosed`: each block ends with its one jump, but for
  those whose jump a pending state will make; after the analysis all jumps go to
  blocks of the function and all blocks are reached.
* `DefinersPointBack`, `ScopesAreOpenBlocks`: the parser's copies of one thing
  stay in step: values and the instructions that made them, scopes and blocks.
* `TypesAgree`: after the casts of an operator both operands have the type of
  the result, and no cast makes a value smaller.

The properties of the compile run:

* `SemanticsKept`: before, between and after the peepholes the graph does what
  the source does, for every sequence of branch decisions of length `MaxTests`.
* `UsesAreInputs`: at every moment, use lists are the inputs read backwards.
* `MemoryIsFlagged`: what a memory input takes has `PRODUCES_MEMORY`.
* `NothingRemovedIsKept`, `EachNodeIsHeld`: between peepholes the worklist and
  the value table hold exactly live nodes, and every live node.
* `KeysStay`: a node in the value table does not change what it is hashed by.
* `EndsWithoutDeadStores`: the optimizer ends with no store that nothing reads.
* `AssertionsHold`: the assertions of opt.c.  Those about forwarding are
  `ForwardingHolds`: forwarding a store through the phis of a loop finds each input
  mapped when it is read, and gives each phi it makes its inputs once, as many as
  the region has.
* `Terminates`.

The properties of the schedule:

* `DominatorsAreExact`: the rounds over immediate dominators give the blocks
  without which there is no way from the head.
* `NestingCountsLoops`: `loop_nesting` is the number of loops around a block.
* `SchedulerAssertionsHold`: what each pass needs of the one before; above all
  that late blocks lie below early ones, or the climb to the best block would
  go past the head.
* `CodeIsComplete`: each live node is in one block, once; block starters first,
  then phis; a branch last.
* `OnlyCyclesAreMisplaced`: a node comes after what it needs, save when the
  two need each other through the phi of a loop.
* `ScheduleKeepsMeaning`: with no node misplaced (190 of the 203 functions), the
  schedule run with one memory does what the source does.

The properties of the target run:

* `SelectionKeepsMeaning`: the graph of x64 nodes tests and returns what the
  source does.
* `GeneratedKeepsMeaning`: so does the code before registers are allocated, phi
  copies and jumps included; and
* `AllocationKeepsMeaning`: so does the code with three registers, the copies
  that are coalesced, the loads and stores of spilled registers, and the frame.
  These two hold where earlier passes leave them a chance, and the conditions
  are the known defects by name: no node of a block after its branch
  (`BranchesComeLast`), a phi's inputs computed in the blocks its edges leave
  (`CopiesAreOnEdges`), no misplaced node, and, for the last, two-address
  instructions that still write what they read first (`TiesAreKept`).  Of the 135
  functions 129 come to a frame, 102 of these meet the first three conditions and
  96 all four, 33 with spilled registers.
* `LiveOutIsExact`: the rounds give the registers that some way from the end of a
  block reads before it writes them.
* `ColouringIsProper`: in a try that colours, neighbours have different
  registers, and a register has a colour or a slot of its own.
* `SlotsAreApart`: variables and spilled registers have four bytes each in
  the room the prologue makes.  The newest alloca has offset 0 of `ebp`, where the
  pushed `ebp` is; that much the property admits, of that one only.
* `CodeIsProduced`: every function comes to code, or to a message, or to the
  undefined read of a spill candidate that does not exist (6 of the functions).

`MemoryIsCommitted` and `ImplementsRegions` of the scratch run: saved marks are
nested and what is in use is committed; and what a function is given is disjoint
from all that is in use, until it returns.

The mutants showed one thing about the scheduler that is not obvious: leaving
out all anti-dependences breaks none of these properties.  A load is followed, in
the chain of memory, by the store its own statement makes, which needs its value;
and forwarding never carries a value past a store to another variable.  So
anti-dependences do not decide anything until the language grows other loads.

Bounds.  Each kind of text of the parser run has its length and leaves out the digrams
that it is not about, so that the length suffices for two nested
statements (`if (1) while (1) ...; else ...` in a function, or a second function),
for a declaration that hides another and its use after the inner block, and for
three operators in an expression.  `RefusesUnreachable` needs
a statement after `return` on every path, which 20 tokens leave room for.
In the compile, schedule and target runs two variables are enough for stores that
a load can observe and stores that it cannot; each function has one or two places
where statements vary over no statement, a constant, a copy and an addition.
The target run leaves out combinations of these that differ only in ways the
optimizer has removed by then, and adds functions of four variables whose products
are all live at once, straight and around a loop, so that registers are spilled
(42 functions) and a third try is needed (23).  `MaxTests` is the number of tests a
trace decides: with three, a loop is entered, repeated and left, and an inner loop
too.  `WordBits` and `MaxTries` are the code's 64 and 10.  A table of capacity 2
grows twice before 8.  An arena of three small pages is filled by a few pushes, one
of which spans two pages; with four functions, both arenas serve two each.  Five
characters suffice for a comment and the line after it, two tokens around a
blank, and a string over two lines.

Fairness.  The compiler is one thread that runs until it is done: weak fairness
of `Next` (`Compile`) and of `TargetNext` (`Target`), and nothing stronger.  The
others are checked for safety only, so their specifications assume none.

## What is proved

`WorklistProofs`: for every set of ids (`NodeAssumption`), `packed` and `sparse`
are typed and inverse to each other (`WorklistInvariant`), and every step of
`Worklist` is a step of `NodeSet` or leaves its variables alone
(`WorklistImplementsNodeSet`).  The inductive invariant is the conjunction of
the two directions: a removal needs that `sparse` finds the node, that no other
node is at that index, and that the last node's own index is right.

`GvnTableProofs`: for every `Hash` (`HashAssumption`), capacity
(`CapacityAssumption`) and set of nodes distinct from the marks
(`MarkAssumption`), entries are reachable by their probes and no two are
identical (`GvnInvariant`), a `gvn_get` that returns gives a node of the content
it was asked for (`GvnGetReturnsIdentical`), and the table implements
`ValueTable` (`GvnImplementsValueTable`).  The invariant must speak of the growth
too: the slots already moved hold exactly the entries of the old table's first
slots, and the contents of moved and unmoved entries differ.

`ScratchProofs`: for every page size, reservation, set of sizes and depth
(`ArenaAssumption`), the arenas implement `Regions` (`ScratchImplementsRegions`) and
`MemoryIsCommitted` is an invariant (`MemoryStaysCommitted`).  The inductive invariant
says that a region lies above the mark of its owner and below the marks that
later frames took on its arena (`RegionsAreKept`), that regions are apart, and why
a push into an earlier frame's arena is safe: the frames in between pass the same
memory on and have their own scratch elsewhere (`PassedOn`).

`ParserProofs`: for every set of names, literals and symbols, and every kind of text
(which token may follow which does not matter: the handlers check what they read),
`BlocksEndOnce`, `DefinersPointBack`, `TypesAgree` and `ScopesAreOpenBlocks` hold after
every handler, of texts that end in an error and of those that abort too.  None of
these is inductive, and the invariant (`IInv`) says what the handlers leave to each
other on the stacks:
- the states above `complete_function` are those of one function; no two name the
  same block, and a state that takes a value has an expression above it (`Waiting`);
- the blocks without an end are the current one and those that states name, and
  scopes and open blocks are as many (`Held`);
- values on the stack, in scopes and in operands have definers, definers point back, and
  a load has the operand that an assignment takes over (`Built`);
- no block ends in a cast when a handler begins (`NoCastLast`), so that an operator
  that follows a cast is the one the cast was made for.
A handler pops, adds blocks, and makes instructions one after the other; `Ready(q, D, k)`
is what holds of the parser `q` in between, where the blocks `D` and `k` scopes are
still to be taken over by the states it will push.  Each operator of the parser has a
lemma from `Ready` to `Ready`, and a handler's proof is a chain of them.  Whether
`make_inst` finds its operands is not among the theorems, because it is false
(`parser_operands`): where it does not, the program ends.

Of `sem_analyze`, in the same module: for every text again, `AnalyzedIsClosed` (`AnalysisCloses`).  The
parser's part is that the jumps it has made go to blocks it has, and so do the jumps
that a state will make: the head of a loop and the body of a branch are blocks before
the state that names them is pushed (`Aimed`).  So a function that waits for
`sem_analyze` is `Whole`: its jumps stay inside it, and only its last block has no end.
The part of `sem_analyze` is that the search finds the least set with the first block
that jumps do not leave (`ReachableIsLeast`), that unlinking the others numbers it
without gaps and in order (`RanksAreNumbers`), and that a set which jumps do not leave
under the new numbers is one under the old (`KeptIsTrimmed`), so that all that is
kept is reached.

`LexerProofs`: for every source, alphabet (`CharacterAssumption`: letters, digits and
what the code tests for are distinct), set of keywords and hash for which a multiplier
exists (`MultiplierAssumption`: the generator searches without an end),
`TokensAreWhole`, `OnlyBlanksAreSkipped` and `LinesAreCounted`.  The invariant says
what each loop has behind it: the automaton, from its state, what it has read
(`Scanned`); the comment loop, that an open comment reaches back to its slashes
(`InComment`); and the loop over blanks, that every comment it has passed has had its
newline, be it the very character the lexer is at (`CommentsEnded`): without that the
first character of a token might still be in a comment.

`RegAllocProofs`: from any machine code, whatever liveness and costs compute,
neighbours never share a colour and each virtual register has a colour or a slot of
its own when a try is coloured (`ColouringCorrect`).  It assumes `Counted`, that
`next_reg` is always a number, since it grows by sums over code, folds that the
prover cannot evaluate.  The invariant follows a register from `simplify_left` over
the select stack to a colour or a slot, so that none is lost in the swap of
`add_to_select_stack`.

Also in `RegAllocProofs`: from any machine code whose control stays among its blocks
(`CfgIsClosed`), in every try, what `live_out` holds when a round changes nothing is
just the registers that are live, of those in the words that the rounds go through
(`WordsAreExact`); where these hold all registers, `LiveOutIsExact` (see x64.c:476
below).  One half is that nothing is added that is not live (`OnlyLive`).  The other
says what a round that changed nothing has shown of the blocks it has been to
(`VisitedAreSettled`): at its end all edges are settled, so the blocks with a register
in `live_out` are a set that liveness, the least of such sets, is part of.

`GraphProofs` and `PassesProofs`: for every program, `UsesAreInputs`, `EachNodeIsHeld`,
`ForwardingHolds` and `KeysStay`.  A program is what `IsProgram` says
(`ProgramAssumption`): the operands of an instruction were made before it, jumps are
the last of their blocks and go to blocks, every block but the first is jumped to, and
some block does not jump.  That is what the parser and `sem_analyze` leave: the
theorems about jumps and reached blocks are `BlocksStayInStep` and `AnalysisCloses`,
and a variable is used only while its scope is open.  The invariant is `GraphInv`; it
has two halves that meet where lowering ends.

- *A graph that is held* (`Held(f, H)`).  `H` is the nodes made and not removed.
  `Matched` is `UsesAreInputs` said of all of `H` and not only of what is live: a
  replacement makes nodes live or not, and only the larger set lets each link be
  followed by itself.  `Shaped` gives each kind of node its inputs, a phi as many as
  its region, and one more.  `GraphProofs` shows of each operation of core.c, and of
  each turn of `replace_node` and `remove_node`, that it keeps this; the walk of
  core.c is shown to find the nodes that are linked with END, and no other.
- *Lowering* (`LowOK`).  Regions and phis stay without inputs until all blocks are
  done, so the graph is not held yet but `Growing`: no other node lacks an input,
  and those that do are the region and phi of a block begun (`WaitsOK`).  What a
  jump lowered has left is that its targets have entries (`JumpsOK`): that is why
  no region is left without an input, and why END has a path (`PathsOK`).
- *Optimizing* (`OptOK`).  Each node of `H` is on the worklist, in the value table,
  or in the hands of the loop under way (`Kept`).  The loops that rewrite have to know
  what their locals stand for: a node gives way only to one that may stand for it
  (`Stands`: a region's phis count its inputs), and a node that is taken from the
  table before its input changes is on the worklist after, so that no key changes
  in the table (`KeyStays`).  The hard one is forwarding (`ForwardOK`).  Its stack
  has the phis that wait, each below the values it waits for (`Waiting`, `Todo`),
  so a phi is met again only when all its values are mapped, also where the way
  round a loop leads back to the phi itself; and each phi without inputs is of one
  that waits (`Unfilled`), so none is left when forwarding ends.

What the passes do with the meaning of a program is not in these theorems.  Nor is
`NothingRemovedIsKept`, which would need that what is made and not removed stays
linked with END, `MemoryIsFlagged`, and the other parts of `AssertionsHold`: that a dead
store has not been removed already when its turn comes depends on what it is used
by, which the invariant does not say.

That the compiler ends (`Terminates`, `CodeIsProduced`) is only model-checked, as is
everything about the meaning of what the parser makes and which texts it refuses
(`MeaningKept`, `RefusesUnreachable`) and of what `Compile`, `Backend` and `Target` make
of it: the reference semantics are recursive, which the prover does not do.  The
scheduler, too, is only model-checked.

## Findings

* `gvn_table_full`: `gvn_remove` writes a tombstone even when the node is not in
  the table (`find` by pointer returns the first free slot), `count` ignores
  tombstones, and `find` gives up with `INT32_MAX` when it met no NULL, though it
  passed free slots.  Eight contents suffice to fill a table of eight, and the
  next `gvn_get` indexes the table with `INT32_MAX`.
* `parser_operands`: `handle_complete_binary` pops both operands to look at their
  types and pushes them back only when the types differ; `make_inst` then pops
  two more.  `return 1+2;` finds the value stack empty (the assertion of vec.c);
  after statements that leave a value behind, the wrong operands are used.
* `schedule_order`: the order in a block is the post-order of a walk from END.
  Through the phi of a loop two nodes can need each other, and the one the walk
  meets first is finished last.  In
  `x = 0; y = x; while (x) { y = x; } return y;` the walk comes to the load of x in
  the body through the phi of y, from there through memory to the store to y,
  and finishes the store first: the block stores the value and then loads it.
  The compiler prints the same order of nodes.  A store is one case; two
  arithmetic nodes of one block can be swapped the same way.
* `target_jump`: `block_branch` of gcm.c knows `CB_NODE_BRANCH` only, and the graph
  that code is generated from has `CB_NODE_X64_BRANCH32`, which is placed among the
  other nodes.  What the walk finishes after it is computed after `jz` and
  `jmp`.  In `y = y*3; if (y) u = x + y*7; else y = x + y*7; return u;` the product
  that both ways share is, and they add a register that was never written.

Also met, named as conditions or outcomes in the properties, without a run of their
own:

* x64.c:1094: the copy of a phi's input goes to the block that defines the input; for
  `u = w*3; if (x) u = w*5; return u;` that is before the branch, or after the jumps of
  a block with two successors (`CopiesAreOnEdges`).
* x64.c:896 and 910: a spilled register of a two-address instruction becomes two
  registers (`TiesAreKept`).
* x64.c:476: the words of liveness are counted by blocks and not by registers;
  with more than 64 registers per 64 blocks the rest has no liveness (`InWords`; the
  instances stay below).
* x64.c:821: no cost is below infinity when the registers left have no
  neighbours left or are nowhere live, and `simplify_left[-1]` is taken ("undefined").
* x64.c:944-956: ten tries that all spill leave `iterations` at eleven, so that the
  message is not printed; it is printed when the tenth try succeeds.
* x64.c:1115: the newest alloca has the offset of the pushed base pointer.
* gcm.c:584 and x64.c:593: scratch memory that is not released there stays until a
  caller releases below it (`return_unreleased`).

## Plan

1. Done: worklist, value table, graph, lowering, optimizer, and the proofs.
2. Done: the parser and `sem_analyze`; the scheduler.
3. Done: selection, code generation, register allocation, the frame; arenas; the
   lexer; proofs about arenas and colouring.
4. Done: proofs about the parser, `sem_analyze`, the lexer and the rounds of liveness.
5. Done: proofs about lowering, the graph and the optimizer.
   To do: `MemoryIsFlagged` and `NothingRemovedIsKept` for every program, `Dominates` as
   an order in the scheduler.

## Not modelled

* meta/parse_meta.c prints a struct and a switch, and the other generators' reading
  of x64.isa and printing of tables run at build time: what they print is modelled
  where the compiler uses it.
* Dumps, graphviz and the wording of errors only print.
* `main` reads a file and calls the passes in order, which `Compile` and `Target`
  follow.
* Growable vectors (vec.c) are sequences; allocation failure ends the program.
* `POISON` is never made by the parser and ends the program in `sem_lower`.
