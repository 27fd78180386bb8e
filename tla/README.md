# A verification of nkucc

nkucc (`src/`) is a compiler for SysY, a subset of C, written in Rust: a front
end that parses, type checks and folds a program and turns it into an SSA
intermediate representation (IR), and a back end that lowers the IR to RISC-V
assembly.  It is one crate with one thread; it is also course material, and
several passes are stubs.  This directory holds TLA+ models of the parts that
keep state and have rules, the TLC configurations that check them, and proofs
that TLAPS checks.

The interesting behaviour of such a program is not concurrency.  It lies in
data structures that are edited in the middle of a walk, in pairs of structures
that must agree although they are updated one after the other, in passes that
must agree with one another on what a name or an offset means, in loops that a
client can feed, and in calls that are legal one by one and break something
together.

## The system

| part | source (`src/src/`) | state | operations | what makes it correct |
|---|---|---|---|---|
| storage arenas | `infra/storage.rs` | a vector of entries, a free list through the vacant ones; for unique data a map from hash to pointers | alloc, try_dealloc, try_deref, try_deref_mut | a pointer in use is never handed out again; freed entries are found again; equal data has one pointer |
| linked lists | `infra/linked_list.rs` | head and tail of a container; next, prev and container of a node | push, insert, unlink, append, split, extend, cursors | the links stay those of sequences at every moment; a walk is predictable while its client edits |
| def-use chains | `ir/def_use.rs`, `ir/inst.rs`, `ir/value.rs`, `ir/block.rs` | operand slots and phi maps of instructions, users of values and blocks | constructors, insert_incoming, remove_incoming | users and operands are the same relation seen from both ends |
| IR context, functions, globals, types | `ir/context.rs`, `ir/func.rs`, `ir/global.rs`, `ir/ty.rs` | arenas and lists of the above | constructors, printing | that of the arenas and lists |
| front end | `frontend/ast.rs`, `frontend/types.rs`, `frontend/irgen.rs` | the typed tree, a stack of scopes, the function under construction | type_check, try_fold, irgen | what is generated means what the source says |
| lexer, parser, preprocessor | `frontend/sysy.lalrpop`, `frontend/parse.rs`, `frontend/preprocess.rs` | none | parse | a generated parser; the preprocessor is the identity |
| instruction selection | `backend/lower.rs`, `backend/riscv64/lower.rs` | machine functions, the current block, the virtual registers handed out | gen_cond_br, gen_sp_adjust, gen_spill_load, gen_spill_store; `lower` stops at a TODO, `lower_inst` has no caller | the code does what was asked for, and says which registers it does it with |
| stack frames | `backend/lower.rs`, `backend/func.rs`, `backend/riscv64/` | sizes of slots and arguments, saved registers, the instructions of the body | prologue, epilogue, adjust_offset | the parts of a frame are disjoint and every access finds its own |
| machine code containers | `backend/context.rs`, `backend/block.rs`, `backend/inst.rs`, `backend/regs.rs`, `backend/riscv64/inst.rs` | instructions, each a datum of an arena and a node of the list of its block | constructors, insert, remove, adjust_offset; uses, defs, clobbers, replace_reg | linked and allocated is the same; a walk that edits what it walks reaches every instruction once |
| register allocation | `backend/regalloc.rs` | none | none: `regalloc` is a `todo!()` | what the code gives it to work with must be enough |
| command line | `main.rs` | none | reads, calls the passes, writes | pure input and output |

The parts interact by calls alone.  Every part of the IR and of the machine code
is a datum of an arena and a node of a linked list; an instruction is linked into
a block by the list methods and into its operands by the def-use chains; the
front end builds IR through the constructors of `ir/inst.rs`; the frame pass
walks blocks and instructions with a cursor while it edits them.

What is hard in it: clients that edit what is being walked, stale pointers
(pointers carry no generation), several fields that change one at a time,
partial failure of loops, numeric boundaries of immediates, and agreement
between passes written separately.  `PROJECT.json` lists these hazards line by
line with the properties that cover them.

## The modules

`PROJECT.json` maps every definition to the lines it models.  Definitions headed
"Mutation of ..." are plausible errors in that code; no specification uses
them, they show that each property can fail.

| module | models |
|---|---|
| `PointerStore` | what an arena promises: a partial map from pointers to data |
| `Arena` | `GenericArena` with its free list; stale pointers and double frees included |
| `UniqueArena` | `UniqueArena` over a pointer store: one pointer per equal data, colliding hashes |
| `LinkedListOps` | the methods of lists that are one step, as operators on a context |
| `ListSeq` | what the lists promise: sequences, edited atomically |
| `LinkedList` | every list method, the loops of append, split and extend turn by turn |
| `LinkedListCursor` | a cursor with both strategies and directions while its client edits the list |
| `PhiMap` | what a phi promises: a map from predecessors to values |
| `DefUse` | operand lists with vacant slots, users, constructors operand by operand, phi edits |
| `AdjustSeq` | what `adjust_offset` does to blocks: each instruction is replaced once, in order |
| `MachineCode` | instructions in an `Arena` and in the lists of their blocks; the walk of `adjust_offset`, one call at a time |
| `RvInst` | RISC-V instructions and what they report: `uses`, `defs`, `clobbers`, `all_regs`, `succs`; `replace_reg` |
| `RvRun` | what instructions do when they are run, in symbols (external: the ISA and the calling convention) |
| `RegAlloc` | a body from selection over virtual registers through spilling to physical registers |
| `Imm12` | the 12-bit immediates of RISC-V instructions |
| `FrameCells` | what a frame promises: slots, parameters and arguments are variables of their own |
| `Frame` | emission of a body, prologue, epilogue, offset adjustment, and execution of the result |
| `Comptime` | `ComptimeVal`: arithmetic, comparisons and coercions of ints of a given width |
| `Ast` | expressions, the symbol table, `try_fold`, `type_check` of expressions |
| `SysY` | what a program means: C's semantics, written without looking at the front end |
| `IrRun` | what the generated IR means when it is run (external: LLVM's semantics) |
| `FrontEnd` | parse, `type_check` item by item, `irgen` item by item |
| `ArenaProofs`, `LinkedListOpsProofs`, `LinkedListProofs`, `DefUseProofs`, `FrameProofs`, `MachineCodeProofs`, `RegAllocRunProofs`, `RegAllocProofs` | proofs: `ArenaProofs` those of `Arena` and `UniqueArena`, `LinkedListProofs` those of `LinkedList` and `LinkedListCursor`, which is why the names of each two are apart |
| `MC...` | the values the configurations give to the constants |

How they are composed.  `UniqueArena` stands on `PointerStore`, which `Arena`
is proved to implement, as the Rust type stands on `GenericArena`.  `LinkedList`
and `LinkedListCursor` both use the steps of `LinkedListOps`.  `MachineCode`
composes the two as the machine context does: its instructions are entries of an
instance of `Arena` (with the reuse of freed entries) and nodes of an instance of
`LinkedListOps`, and its proofs use the lemmas about both.  `ListSeq`, which
`LinkedList` implements, is what allows `FrontEnd` to take a block for the
sequence of its instructions, and `AdjustSeq`, which `MachineCode` implements, is
what allows `Frame` to replace the instructions of a block in place.  `RegAlloc`
stands on `RvInst` and compares, with `RvRun`, what its code does before and after
each pass; it ends where `Frame` begins.  `FrontEnd` extends `SysY` (and with it
`Ast` and `Comptime`) and `IrRun`: it generates code with the first and
compares what the second makes of it with what the third says.

How state and actions correspond to the code.

- *Arena, UniqueArena.*  One action per method and outcome; a pointer is an
  index, so that stale pointers are just numbers.  `twice` and `mutated` are
  history variables that name the two ways in which a client can break the
  arenas, so that everything else can be stated for all clients.
- *Linked lists.*  `ctx` holds the fields of all containers and nodes.  A method
  without a loop is one action whose operator performs the assignments of the
  code in their order.  A method with a loop is a call, one action per turn, and a
  return; `op` holds its local variables, and no other call is enabled while it
  runs, since the program has one thread and the methods call no client.
- *Cursor.*  `CallNext` is one call of `next`; between two calls the client edits
  the list.  `wild` records whether the client has unlinked a node it was not
  given; the properties that hold of careful clients only are stated with it.
- *DefUse.*  A constructor is one action per operand (`building` is the constructor
  under way), because users and operands are updated at different places.
  Instructions are never deallocated: nothing in the repository does so.
- *MachineCode.*  The variables of `Arena` are those of `MContext::insts`, `ctx`
  holds the links, which live in the data of instructions and blocks.  A method of
  the lists or of the context is one step, and so is each place where
  `adjust_offset` returns to its caller; `curr` holds the locals of the walk and, as
  a history, how many instructions have been put before the current one.  Only
  what the offset of an instruction makes of it is kept of its data.  Reading a
  freed instruction, and an error that is unwrapped, set `panicked`.  Arena entries
  keep no links here; `Built` clears those of a reused entry, as the constructors do.
- *RegAlloc.*  The client asks for instructions block by block (`requests`), and
  the target's methods turn what it asks for into `code`; spilling and allocation
  change `code` only.  Which register is spilled and which assignment is chosen is
  open: the allocator is not written, so that it is every assignment in which
  registers that interfere, by what the instructions report, differ.  Branches lead
  forward, because no pass emits loops yet.
- *Frame.*  `phase` follows `after_regalloc`: a body is emitted (with any
  register in each place, as register allocation could leave it), then prologue,
  epilogue and the walk that adjusts offsets one instruction at a time, and
  finally the code runs on a small model of the machine.
- *FrontEnd.*  `phase`, `pos` and the two symbol tables follow the two walks; one
  step is one item of the program.  An expression is handled in one step, by
  recursive operators, as the code does by recursive calls.  A function's name may
  stand where a variable's does; calls are left out.

## The runs

| run | instance | what it shows |
|---|---|---|
| Arena | 4 entries, 2 data | the free list is a stack of exactly the vacant entries, the vector grows only when it has to, nothing panics until a vacant entry is freed again; the arena implements `PointerStore`, double frees included |
| UniqueArena | 4 pointers, 3 data of which 2 collide | equal data has one pointer, the map is exact and nothing panics until stored data is changed in place |
| LinkedList | 3 nodes, 2 containers, extends of at most 2 nodes | the links are consistent after every turn of every loop; each method, once it has returned, had the effect of one atomic edit of sequences; all loops end but a list appended to itself |
| LinkedListCursor | 4 nodes, lists of up to 3 | which nodes a walk visits, in which order, and how often it can meet a stale one |
| DefUse | 2 instructions of all kinds, 2 blocks, 2 slots | users and operands are the same relation after every operand of every constructor and every phi edit |
| DefUsePhi | 1 phi, 3 blocks, 4 slots | the vacant slots are a stack, and a phi implements a map from predecessors to values |
| MachineCode | up to 3 instructions in 2 blocks, 4 steps of building, 10 entries | `adjust_offset` never touches a freed instruction, leaks none, ends, and implements `AdjustSeq` |
| RegAlloc | 3 blocks, 2 instructions apart from the first and the branches, 3 virtual registers | selection, spilling of any register and any allocation keep the meaning of a body; instructions act as they report |
| Frame | up to 1 slot, 2 instructions, 2 blocks; sizes around 2048 and 4096 | the code of a frame sees separate variables whatever the offsets, and returns to its caller with its registers |
| FrontEnd | 6 items over 2 variables and 2 functions, 3-bit ints | a compiled function without bools returns what C says, and one with comparisons does once their `i1` is widened; of the programs that are accepted, IR generation panics only on those that use a function's name as a variable |
| FrontEndLogical, FrontEndCoerced | 4 items | violated: see below |

Why the bounds are enough.  *Arena*: a free list of three entries has a first, a
middle and a last one, and the fourth entry leaves one occupied.  *UniqueArena*:
two values share a bucket and one does not.  *Lists*: a step of a method reads
and writes a node, its two neighbours and the ends of the list; three nodes have
all shapes of that neighbourhood, two containers let nodes move.  *DefUse*: an
instruction that uses another one twice, and one that uses itself (a phi); four
slots hold three vacant ones in any order and one occupied.  *MachineCode*: an
instruction that is replaced has a neighbour on each side, or a block's end; a
removal before the walk, or the LoadAddr before, leaves an entry that the next
allocation reuses, one instruction needs at most three new ones, and two blocks make
the walk go on after an end.  `MaxEntries` is above what three instructions can
need, so that it never stops the walk (`MachineCodeAssumption`).  *RegAlloc*: two instructions are a call or a
memory access and something live across it; three blocks make a branch that skips
a block; of the physical registers there are the four with a role (`zero`, `sp`,
`t0`, `fp`), and the two caller-saved ones that an instruction or the calling
convention names (`ra`, `a0`), of which `ra`, `a0` and `fp` can be handed out; a
condition is a bool, so that the immediates are 0 and 1; 4096 does not fit an
immediate.  *Frame*: what can
differ is whether offsets fit 12 bits before and after the registers are saved;
sizes 4, 2008 and 4096 give frames on both sides of 2048 and of the sign bit, and
frames in which one access fits and another does not.  *FrontEnd*: six items
are a global and a function of three statements, or nested blocks with a
shadowing declaration, or two functions; the expressions have sums, products and
remainders of names, a comparison that is folded and one that is made at run time
(with the swap of `>`), and one function's name, used as a variable, as an initialiser
at the top and in a block, and as what is assigned to; `&&` is in
*FrontEndLogical*.  3-bit ints make overflow and division by zero happen.  *Frame* has
calls of one size only, so that which of several calls makes the outgoing area grow is
not exercised; *RegAlloc* has conditions of one bit,
which is all that the IR's `i1` allows.  `MaxEntries`,
`MaxBatch`, `MaxOperands`, `MaxSlots`, `MaxInsts`, `MaxBuilt`, `MaxVRegs`, `MaxNamed`
(how many virtual registers are allocated at once) and `MaxItems` are the only
bounds; the code has none of them.  The type invariants of `Arena`, `UniqueArena`,
`LinkedList` and `DefUse` are proved for every instance, and therefore not run: what
they say of the code, Rust's types say too.

Deadlock is not checked where a panic, a failed assertion or the end of
compilation stops the program; each configuration says which.

Fairness.  `LinkedList` assumes `WF_vars(Loop)`: the only thread keeps running the
loop it is in.  `LinkedListCursor` assumes `WF_walkVars(CallNext)`: whoever walks keeps
calling `next`, as `for_each` does.  `MachineCode` assumes `WF_vars(AdjustOffset)`:
the only thread walks on, and nobody else touches the code meanwhile.  None assumes anything about the client:
`LoopsEnd` and `ForEachEnds` hold although the client may push nodes for as long
as there are fresh ones.  A client with an unbounded supply of nodes can of course
keep a Post walk going; that is the documented use of the strategy.

## The proofs

The proofs use only the assumptions the modules state on their constants: sets of
any size, any hash function, any slot and argument sizes.  Nodes are assumed to be
finitely many (`ClientAssumption`), as those of an arena are; the order of a list
is a statement about sequences, which have a length.  `CursorAssumption` adds what
a list is: it holds a node once, and a client that moves a node moves it to another
list than the one it is in.

- *Arena.*  `ArenaInv`: typing, and, until a vacant entry is freed again, a
  sequence that lists the vacant entries without repetition from `free_head`
  along `next`.  Typing alone is not enough: that `alloc` finds a vacant entry
  at the head of the list needs the head to be vacant after every removal, and this
  needs the entries to be distinct.  `Implements` needs no more than the types:
  even with a damaged free list `alloc` checks the entry before it hands it out.
- *UniqueArena.*  The map is exact, equal data has one pointer, and a panic
  implies a write through `try_deref_mut`; the three hold each other up.
- *LinkedList.*  `Inv` is typing, `LinksConsistent`, which speaks of a node and its
  neighbours only, and `Ordered`.  Each is inductive, one lemma per method, in
  `LinkedListOpsProofs` (`UnlinkSound`, `InsertAfterOrdered`, ...); turns of loops are
  compositions of these.  Local links do not exclude a circle apart from head and
  tail; `Ordered` does: the nodes can be given numbers that grow along `next`, and
  each method is shown to leave such numbers (an insertion moves those above
  up to make room).  `OrderInv` goes on to whole lists: `InOrder(ctx, L)` says that
  the heads, tails and links of `ctx` are those of the sequences `L`, each method is
  shown to leave those of the edited sequences, and `LoopState` says for each loop
  which part of its work is done (an append has moved a prefix of the other list, a
  split a suffix of its own, an extend a prefix of its nodes).  From it follow that
  walks meet the members, that the assertions hold but for a list appended to itself,
  that an extend leaves its nodes side by side and in order, and, action by action,
  that `LinkedList` implements `ListSeq`: a loop's turns are stutters, its return is
  the atomic edit.  That an operator which follows `next` from the head computes the
  sequence is proved by the least member at which it would not (`WFMin`).
  `ExtendsKeepOrder` assumes that there is a container, without which there is no
  list that the nodes, however few, could be in.
- *Cursors.*  `WalkInvariant` relates what a cursor holds to the sequences `L` the
  lists are (`InOrder`).  `Rest(L)` is what the cursor has before it, in its
  direction: from the node it holds (strategy Pre) or behind it (Post).  The nodes of
  the list at the start that are still in it are in the order they were in
  (`StartInOrder`), the visited ones come before those of `Rest` in it
  (`RestUnseen`), new nodes are in no list (`FreshApart`), and, unless the
  client was wild, what was in the list at the start is visited or in `Rest`
  (`NoneLost`).  What makes this inductive is that every edit leaves the order of
  the nodes it does not touch (`SameOrder`), that the node a disciplined client
  touches is a visited one, and that what strategy Pre holds is out of the list
  only if its links are gone (`Held`): from there the cursor can only stop.  Strategy
  Post holds the node the client may move; after that it walks the other
  list, in which none of the original nodes is unvisited (`OthersApart`).
- *MachineCode.*  The invariant joins the free list of the arena, the links and
  their order with `LinkedAreLive` and a statement about each place of the walk:
  while the current instruction is replaced, `next_inst` is linked, is in the same
  block and is not the current one.  That the two differ
  follows from the order of the list, and both stay linked while instructions are
  put before the current one and that one is unlinked.  `LinkedAreLive` then makes
  the next one live when its turn comes.  `TraceInv` adds what the walk has done:
  the list of the current block is `x \o f \o y`, where `x` has been dealt with, `f`
  has been put before the current instruction and `y` is ahead, and `f` followed by
  what is still to be put is what the current instruction becomes (`Split`).  To
  an observer who sees the arena's data along `x \o y` only, putting an instruction
  changes nothing, and the step that changes the current instruction or unlinks
  it is the step of `AdjustSeq`; freeing it, and going on, change nothing again.
  Every step of the walk is shown to be one or the other.
- *RegAlloc.*  `IInv` is that, until a register is spilled, all code consists of
  instructions over registers that have been handed out, so that one lemma about each
  kind of instruction (`Acts`) is about every instruction of every body
  (`ReportsAreComplete`).  That the three passes keep the meaning of a body is proved
  with one argument, about two codes that run side by side
  (`RegAllocRunProofs`).  `Went` says what a step leaves unread and unwritten,
  `Layout` where blocks begin in memory; `Running` is a context of two codes of
  which each place of the first has its place in the second (`cut`) and the machines
  are `Related`: equal, through a renaming `h`, on the registers defined or wanted
  there, with equal memory apart from what is hidden, and equal histories of
  calls, stores and branches.  If every instruction of the first code leads to a later
  related pair (`Goes`), both runs end related (`WalkEnds`, by the least distance to
  the end: branches lead forward) and are seen to do the same (`WalkSees`).
  Selection is the case in which an instruction has a piece of code of its own,
  for a branch on an immediate that is not taken an empty one, for an adjustment
  of `sp` one addition, or a load of the offset into a new register and an addition
  of that one (`SelectEqual`);
  spilling the case in which the spilled register lives in the slot and its pieces are
  load, instruction and store (`SpillEqual`); allocation the case of a renaming
  that is injective on what is live together (`AllocEqual`).
  The invariant `PhasesKept` has a part for each phase.  `Selects` is the hard
  one, since the statement about runs says nothing of a body whose branches lead to
  blocks not yet written: it keeps the pieces, which registers are defined
  at each place (`Half`), which hold a constant that a condition may be
  (`Names`), and what is known to be defined where a later block begins; each action
  of selection is shown to append a piece (`Stands0`, `Stands1`, `Stands2`: of no, one
  or two instructions).
  `Selected` and `SpilledOk` add what the next pass needs of the code it gets: it is
  over registers handed out, it ends, and what an instruction uses is defined on
  every path (`CodeOk`); spilling has to hand this on, which is why the
  new registers are shown to be fresh and defined before they are used.
- *DefUse.*  A list is `Sound` if its vacant slots are chained without two of
  them leading to the same slot, and its operands know their slot.  The chain is
  what makes the slot that `next_idx` announces the one that `insert` fills, and
  that is what makes users agree with operands.  `PhiInv` adds that the vacant slots
  are the members of a sequence that the chain follows, so that `insert` never
  meets an occupied slot, and that the map of a phi leads from its blocks to operands
  of its own; with it each insertion and removal is the step of `PhiMap`, and no
  call fails but those that are rejected.
- *Frame.*  `IInv` is typing and the disjointness of the slots.  The ranks of the
  saved registers are distinct and at most their number (`RankInjective`,
  `RankBounded`), so that each has eight bytes of its own.
  `ImmediatesKeepTheirValue` is the arithmetic of the 12-bit immediates.
  `CodeInv` follows code through the phases: all of it is made of the instructions
  that emission, prologue and epilogue can make (`Code`), and what `adjust_offset`
  has passed, up to its place `at`, is `Final`: no symbolic slot, and no offset
  that does not fit.  When the walk has passed the last block, all code is.
  `TraceInv` says what the code does, instruction by instruction.  Each place of the
  code has a fact (`Facts`): whether the frame is reserved, left or given back,
  whether `fp` is at its top, whether `a0` is an address in or above it, which
  number is in `t0`.
  `Ok(p, k, i, l)` says that instruction `i` leads from fact `k` to fact `l`, and
  stores in the frame or above it only if `k` says so; `Runs` is a sequence of such
  steps.  The facts of the body do not depend on the size of the frame, which is not
  known when it is emitted (`RunsAllWiden`); the prologue leads to where the body
  starts, the epilogue from where it ends to the return (`PrologueRuns`,
  `EpilogueRuns`), and what `adjust_offset` puts in the place of an instruction leads
  where the instruction did (`AdjustedRuns`; `t0` is free there, as no fact of the
  body is about it).  When the code is run, what is known of a place holds of the
  registers (`MachineStep`), and so `StoresStayAbove`: no step of any run stores
  below `sp`, and `sp` rises only just before the return.

Only model-checked: liveness, which the prover does not do; that a frame implements
`FrameCells`, which needs the contents of the memory and not only the addresses of
the registers (and an assumption on slots: the two cells of a slot
of 9 to 15 bytes would overlap, and the runs have none); and everything about
the front end, whose expressions need recursive operators and whose ints need bitwise
ones.

## Where the code disagrees with what is said of it

Two violation runs show one disagreement each.

- *FrontEndLogical*: `&&` on ints is a bitwise and (`ir/inst.rs:514`), so `1 && 2` is 0
  at run time and true when folded.
- *FrontEndCoerced*: an expression is coerced before it is folded, and folding gives
  the operator's type back (`frontend/ast.rs:1026`): `int a = 1 < 2;` makes a slot
  of one bit.  `ReturnsMeaning` leaves out programs in which this has happened.

What the IR means is LLVM's meaning (`IrRun`), types included: a comparison yields
an `i1` (`docs/source/llvm-basics.rst:277-282`), and an operand of another type than
its instruction's makes Garbage.  `ReturnsMeaning` therefore speaks of programs in which
type checking has left no bool, neither a constant nor a comparison nor `&&` or
`||`.  `ComparesMeaning` takes up those with comparisons, after the repair that they
need (see the next list); `LogicalAndMeansAnd` is violated by those with `&&`.

Met on the way, without a run of their own:

- The instruction of a comparison is made with the type of its left operand
  (`frontend/irgen.rs:159-164`, `ir/inst.rs:415-511`), as its expression is
  (`frontend/ast.rs:938`), so that `return a < b;` stores the `i1` of an `icmp` as an
  `i32`: LLVM rejects it.  `Widened` puts in the missing `zext`.
- Type checking accepts the name of a function where a variable's is due
  (`frontend/ast.rs:962-969`), and IR generation then panics: `f;` at
  `frontend/irgen.rs:188`, `f = f;` at line 489, `int b = f;` at the top at line 274.
  `CheckSuffices` excepts exactly these.  A call in the initialiser of a global
  (`int b = f();`) panics at the same line; calls are not modelled.
- `append` (`infra/linked_list.rs:159`) given its own list of two or more nodes takes
  each node from the list and pushes it back, for ever: `LoopsEnd` excepts
  that call, and `OnlySelfAppendFails` says that
  its assertion can fail in no other.
- A body without `return` leaves its block without a terminator
  (`frontend/irgen.rs:388`).  In `IrRun` such a block goes on into the next one, so
  that the defect does not hide others.
- Freeing an entry twice makes a later `alloc` reach `unreachable!()`; inserting a
  predecessor of a phi twice leaves the replaced value as an operand without
  predecessor; users of constants are recorded although `ir/value.rs:117` says they are
  not.
- `gen_sp_adjust` moves the stack pointer in the middle of a body, while slots are
  resolved against the stack pointer of the prologue where there is no frame
  pointer.  It has no caller yet; `RegAlloc` asks for it only where there is
  one.
- `all_regs` leaves out the base of a LoadAddr and the arguments of a call, although
  `backend/inst.rs:28` says it returns all registers that are written in the assembly of
  an instruction.  A LoadAddr is only built of slots, and the arguments are
  physical registers, so that no allocation of `RegAlloc` misses one.

## What is not modelled, and why

- `if`, `while`, calls and unary operators: IR generation stops at `todo!()`.
- The parser (generated), the preprocessor (the identity), printing, names, `main.rs`.
- The rest of instruction selection: `lower` stops at a TODO, `lower_inst` has no caller
  and most of the target's methods are `todo!()`.
- The register allocator: a stub.  `RegAlloc` and `Frame` take any assignment it could
  make.  No pass that would emit a loop is written either.
- Blocks of machine code as nodes of their function, and `MBlock::remove`, which frees a
  block without its instructions: nothing calls it.
- The deallocation of IR instructions, which would leave users behind: nothing calls it.
- Functions, globals and types of the IR: constructors over arenas and lists that are
  modelled.
- Iterators that are not cursors: they cannot outlive an edit of the list (they
  borrow the context).
- Parameters and variables of type void, which the grammar accepts: all of them
  are ints in `FrontEnd`.

## The plan

Done: the arenas, the lists and cursors, the def-use chains, the frames, the
front end as far as it is implemented, machine code in its containers, and what
instructions report to register allocation; theorems about all but the front
end.  What would come next:

1. The front end's duplicate names and declarations of type void; `if`, `while` and
   calls once IR generation has them, and with them loops in `RegAlloc`.
2. The passes of the back end as they are written: `lower_inst`, and the allocator
   in place of `Allocations`, as a refinement of it.
3. The IR context: functions, blocks and instructions as data of arenas and nodes of
   lists at once, with removal while a pass walks, along the lines of `MachineCode`.
4. Proofs: that a frame implements `FrameCells`, from the ranges that `LayoutSound`
   keeps apart and the facts that `TraceInv` follows, with those of the memory added.
   With loops, `WalkEnds` needs the number of turns where it now takes the distance
   to the end of the code.
