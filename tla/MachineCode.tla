---------------------------- MODULE MachineCode -----------------------------
(***************************************************************************)
(* The instructions of a function where they live: each is a datum of the  *)
(* arena of the machine context (backend/context.rs, inst.rs) and a node   *)
(* of the list of its block (backend/block.rs).  They are built, inserted  *)
(* and removed; then adjust_offset (backend/lower.rs, riscv64/inst.rs)     *)
(* walks them and edits the list it walks, one call at a time: it          *)
(* allocates instructions, links them before the current one, and unlinks  *)
(* and frees the current one, whose entry the next allocation reuses.      *)
(***************************************************************************)
EXTENDS Naturals, Sequences, FiniteSets

CONSTANTS Blocks,            \* how many blocks the function has
          Near, Far,         \* loads and stores of slots whose offset
                             \* fits an immediate, or does not
          NearAddr, FarAddr, \* LoadAddrs of such slots
          Other,             \* any other instruction
          Resolved,          \* a load or store with its new location
          Li, Add, Addi,     \* what adjusting puts before instructions
          None,              \* Option::None
          MaxInsts,          \* bound on the instructions in the body
          MaxBuilt,          \* bound on the steps that build it
          MaxEntries         \* bound on the entries of the arena

Body == {Near, Far, NearAddr, FarAddr, Other}
Data == Body \cup {Li, Add, Addi, Resolved}

ASSUME MachineCodeAssumption ==
    /\ Blocks \in Nat \ {0}
    /\ MaxInsts \in Nat /\ MaxBuilt \in Nat
    /\ MaxEntries \in Nat /\ MaxEntries > 3 * MaxInsts
    /\ Cardinality(Data) = 9
    /\ None \notin Nat \cup Data

VARIABLES entries, len, free_head, panicked, ret, twice,  \* the arena insts
          ctx,     \* the links in its data, and those of the blocks
          phase,   \* "build", "adjust" or "done"
          built,   \* how many steps have built code so far
          curr     \* the locals of the walk, see Turn

arena == <<entries, len, free_head, panicked, ret, twice>>
vars == <<arena, ctx, phase, built, curr>>

Inst == 0 .. (MaxEntries - 1)

Insts == INSTANCE Arena
List == INSTANCE LinkedListOps WITH Node <- Inst, Container <- 1 .. Blocks

Live == Insts!Live
Kind(n) == entries[n].data

(* The place of the walk: the block, curr_inst, next_inst once it is read, *)
(* what the turn does next ("fetch", "insert", "free" or "next"), the      *)
(* instructions it has still to put before curr_inst, and, as a history    *)
(* until it is dealt with, how many it has put there.                      *)
Turn(b, n) == [block |-> b, inst |-> n, next |-> None, does |-> "fetch",
               todo |-> <<>>, put |-> 0]

Init == /\ Insts!Init
        /\ ctx = List!EmptyCtx
        /\ phase = "build"
        /\ built = 0
        /\ curr = Turn(1, None)

-----------------------------------------------------------------------------
(* The methods of contexts and instructions that the code is edited with.  *)

(* unwrap() of an error, deref of a freed instruction. *)
Panic == /\ panicked' = TRUE
         /\ UNCHANGED <<entries, len, free_head, ret, twice, ctx>>

(* MContext::alloc, as the constructors of RvInst call it, then link: the  *)
(* links of the new instruction are empty, whatever its entry held before. *)
(* Insts!AllocUnreachable cannot happen unless an entry is freed twice.    *)
Alloc(d) == Insts!AllocVacant(d) \/ Insts!AllocPush(d)

Built(n) == [ctx EXCEPT !.next[n] = None, !.prev[n] = None, !.container[n] = None]

(* The nodes whose links an edit next to m or of m reads or writes. *)
Around(m) == {m, ctx.next[m], ctx.prev[m]} \ {None}

(* A new instruction before m: alloc and m.insert_before(n).unwrap(). *)
AllocBefore(m, d) ==
    IF ~(Around(m) \subseteq Live) \/ ctx.container[m] = None
    THEN Panic
    ELSE /\ Alloc(d)
         /\ ctx' = List!InsertBefore(Built(ret'), m, ret')

AllocAfter(m, d) ==
    IF ~(Around(m) \subseteq Live) \/ ctx.container[m] = None
    THEN Panic
    ELSE /\ Alloc(d)
         /\ ctx' = List!InsertAfter(Built(ret'), m, ret')

(* unlink, the first half of MInst::remove. *)
Unlink(n) == IF ~(Around(n) \subseteq Live) THEN Panic
             ELSE ctx' = List!Unlink(ctx, n) /\ UNCHANGED arena

(* try_dealloc(self).unwrap(), the second half. *)
Dealloc(n) == IF n \notin Live THEN Panic
              ELSE Insts!DeallocEntry(n) /\ UNCHANGED ctx

(* MInst::remove. *)
Remove(n) == IF ~(Around(n) \subseteq Live) THEN Panic
             ELSE Insts!DeallocEntry(n) /\ ctx' = List!Unlink(ctx, n)

-----------------------------------------------------------------------------
(* Code is built (external: by which passes). *)

Build ==
    /\ phase = "build" /\ ~panicked
    /\ built < MaxBuilt
    /\ \/ /\ Cardinality(Live) < MaxInsts
          /\ \E d \in Body :
                \/ \E b \in 1 .. Blocks :
                      /\ Alloc(d)
                      /\ \/ ctx' = List!PushBack(Built(ret'), b, ret')
                         \/ ctx' = List!PushFront(Built(ret'), b, ret')
                \/ \E m \in List!Linked(ctx) : AllocBefore(m, d) \/ AllocAfter(m, d)
       \/ \E n \in List!Linked(ctx) : Remove(n)
    /\ built' = built + 1
    /\ UNCHANGED <<phase, curr>>

(* adjust_offset is called, and its cursor yields the first block. *)
Begin == /\ phase = "build" /\ ~panicked
         /\ phase' = "adjust"
         /\ curr' = Turn(1, ctx.head[1])
         /\ UNCHANGED <<arena, ctx, built>>

-----------------------------------------------------------------------------
(* The walk. *)

Walking(does) == /\ phase = "adjust" /\ ~panicked
                 /\ curr.inst # None
                 /\ curr.does = does

Addresses == {NearAddr, FarAddr}
Scratch(d) == IF d \in {Far, FarAddr} THEN <<Li, Add>> ELSE <<>>
Address(d) == IF d \in Addresses THEN <<Addi>> ELSE <<>>

(* next_inst is read, and the offset of the instruction is looked at: most *)
(* have none to adjust.                                                    *)
FetchInst ==
    /\ Walking("fetch")
    /\ IF curr.inst \notin Live THEN Panic /\ UNCHANGED curr
       ELSE LET d == Kind(curr.inst) IN
            /\ curr' = [curr EXCEPT
                          !.next = ctx.next[curr.inst],
                          !.does = IF d \in {Near, Far} \cup Addresses THEN "insert" ELSE "next",
                          !.todo = Scratch(d) \o Address(d)]
            /\ UNCHANGED <<arena, ctx>>
    /\ UNCHANGED <<phase, built>>

(* Mutation of InsertInst: behind the instruction. *)
InsertInstAfter ==
    /\ Walking("insert")
    /\ curr.todo # <<>>
    /\ AllocAfter(curr.inst, Head(curr.todo))
    /\ curr' = [curr EXCEPT !.todo = Tail(@), !.put = @ + 1]
    /\ UNCHANGED <<phase, built>>

(* li, add or addi is built and inserted before the instruction. *)
InsertInst ==
    /\ Walking("insert")
    /\ curr.todo # <<>>
    /\ AllocBefore(curr.inst, Head(curr.todo))
    /\ curr' = [curr EXCEPT !.todo = Tail(@), !.put = @ + 1]
    /\ UNCHANGED <<phase, built>>

Inserted == Walking("insert") /\ curr.todo = <<>>

(* A load or store gets its new location. *)
SetLoc ==
    /\ Inserted
    /\ Kind(curr.inst) \in {Near, Far}
    /\ Insts!DerefMut(curr.inst, Resolved)
    /\ curr' = [curr EXCEPT !.does = "next", !.put = 0]
    /\ UNCHANGED <<ctx, phase, built>>

(* Mutation of UnlinkInst: the instruction stays linked. *)
UnlinkInstNot ==
    /\ Inserted
    /\ Kind(curr.inst) \in Addresses
    /\ curr' = [curr EXCEPT !.does = "free", !.put = 0]
    /\ UNCHANGED <<arena, ctx, phase, built>>

(* A LoadAddr is removed: it is unlinked *)
UnlinkInst ==
    /\ Inserted
    /\ Kind(curr.inst) \in Addresses
    /\ Unlink(curr.inst)
    /\ curr' = [curr EXCEPT !.does = "free", !.put = 0]
    /\ UNCHANGED <<phase, built>>

(* and freed. *)
FreeInst ==
    /\ Walking("free")
    /\ Dealloc(curr.inst)
    /\ curr' = [curr EXCEPT !.does = "next"]
    /\ UNCHANGED <<phase, built>>

(* Mutation of NextInst: the next instruction is read now. *)
NextInstReadLate ==
    /\ Walking("next")
    /\ IF curr.inst \notin Live THEN Panic /\ UNCHANGED curr
       ELSE curr' = Turn(curr.block, ctx.next[curr.inst]) /\ UNCHANGED <<arena, ctx>>
    /\ UNCHANGED <<phase, built>>

(* Mutation of NextInst: the walk goes on after a removal only. *)
NextInstAfterRemoval ==
    /\ Walking("next")
    /\ curr' = Turn(curr.block, IF curr.inst \in Live THEN curr.inst ELSE curr.next)
    /\ UNCHANGED <<arena, ctx, phase, built>>

(* The turn ends, and next_inst is the current instruction. *)
NextInst ==
    /\ Walking("next")
    /\ curr' = Turn(curr.block, curr.next)
    /\ UNCHANGED <<arena, ctx, phase, built>>

(* The cursor yields the next block, or None. *)
NextBlock ==
    /\ phase = "adjust" /\ ~panicked
    /\ curr.inst = None
    /\ IF curr.block < Blocks
       THEN curr' = Turn(curr.block + 1, ctx.head[curr.block + 1]) /\ UNCHANGED phase
       ELSE phase' = "done" /\ UNCHANGED curr
    /\ UNCHANGED <<arena, ctx, built>>

AdjustOffset == FetchInst \/ InsertInst \/ SetLoc \/ UnlinkInst \/ FreeInst \/ NextInst
                  \/ NextBlock

Next == Build \/ Begin \/ AdjustOffset

(* The only thread keeps walking. *)
Spec == Init /\ [][Next]_vars /\ WF_vars(AdjustOffset)

-----------------------------------------------------------------------------
(* The instructions that are linked are those that are allocated, at every *)
(* moment but between the halves of remove: none is freed while the list   *)
(* leads to it, none leaks, although entries are reused during the walk.   *)
LinkedAreLive ==
    List!Linked(ctx) = Live \ (IF phase = "adjust" /\ curr.does = "free"
                               THEN {curr.inst} ELSE {})

(* No unwrap() of adjust_offset and of the methods it calls fails, no      *)
(* freed instruction is looked at, and none is freed twice: next_inst, for *)
(* one, is live when its turn comes.                                       *)
NeverPanics == ~panicked /\ ~twice

(* The walk comes to its end: it does not meet what it inserts. *)
WalkEnds == phase = "adjust" ~> phase = "done"

(* Although instructions are inserted, changed, unlinked and freed one     *)
(* call at a time in the list that is walked, the effect is that of        *)
(* replacing each instruction of the body once, in order and at once.      *)
Nodes(b) == List!Walk(ctx.next, ctx.head[b], MaxEntries)

Ahead == IF curr.does \in {"free", "next"} THEN curr.next ELSE curr.inst
Rest == List!Walk(ctx.next, Ahead, MaxEntries)

(* How many instructions of its block the walk has behind it.  What it has *)
(* put before the current one counts once that one is dealt with.          *)
Behind == Len(Nodes(curr.block)) - Len(Rest) - curr.put

Visible(b) == IF b = curr.block THEN SubSeq(Nodes(b), 1, Behind) \o Rest ELSE Nodes(b)

Code(b) == LET visible == Visible(b) IN [i \in 1 .. Len(visible) |-> Kind(visible[i])]

Seqs == INSTANCE AdjustSeq WITH
          code <- [b \in 1 .. Blocks |-> Code(b)],
          at <- IF phase = "build" THEN <<1, 1>> ELSE <<curr.block, Behind + 1>>

ImplementsAdjustSeq == Seqs!Spec
=============================================================================
