-------------------------- MODULE MachineCodeProofs --------------------------
(***************************************************************************)
(* The walk of adjust_offset over the code it edits, for functions with    *)
(* any number of blocks and instructions: no freed instruction is looked   *)
(* at, the linked instructions are the allocated ones, and each            *)
(* instruction is replaced once and in order (AdjustSeq).                  *)
(***************************************************************************)
EXTENDS MachineCode, Integers, SequenceTheorems, FiniteSetTheorems, TLAPS

Lists == INSTANCE LinkedListOpsProofs WITH Node <- Inst, Container <- 1 .. Blocks

USE MachineCodeAssumption DEF MachineCodeAssumption

Sound(h) == Lists!Sound(h) /\ Lists!Ordered(h)

(* The arena, as far as allocation depends on it. *)
ArenaOK ==
    /\ len \in 0 .. MaxEntries
    /\ entries = [i \in 0 .. (len - 1) |-> entries[i]]
    /\ free_head \in (0 .. (len - 1)) \cup {None}
    /\ \A i \in 0 .. (len - 1) :
          /\ entries[i].kind \in {"Vacant", "Occupied"}
          /\ entries[i].kind = "Vacant" => entries[i].next \in (0 .. (len - 1)) \cup {None}

(* An instruction of some block. *)
IsLinked(n) == n \in Inst /\ ctx.container[n] # None

(* The walk stands at a linked instruction, or at one that it has just     *)
(* unlinked; the next one is another instruction, and is linked.           *)
WalkOK ==
    /\ phase \in {"build", "adjust", "done"}
    /\ curr = [block |-> curr.block, inst |-> curr.inst, next |-> curr.next,
               does |-> curr.does, todo |-> curr.todo, put |-> curr.put]
    /\ curr.block \in 1 .. Blocks
    /\ phase = "adjust" /\ curr.inst # None =>
          /\ curr.inst \in Inst
          /\ curr.does \in {"fetch", "insert", "free", "next"}
          /\ curr.does \in {"fetch", "insert"} => IsLinked(curr.inst)
          /\ curr.does = "free" => curr.inst \in Live /\ ctx.container[curr.inst] = None
          /\ curr.does # "fetch" /\ curr.next # None =>
                IsLinked(curr.next) /\ curr.next # curr.inst

IInv == /\ ArenaOK
        /\ Sound(ctx)
        /\ NeverPanics
        /\ LinkedAreLive
        /\ WalkOK

-----------------------------------------------------------------------------
(* The lemmas on lists, for the lists of instructions. *)

LEMMA NoneIsNoNode == None \notin Inst /\ None \notin 1 .. Blocks
BY DEF Inst

LEMMA SoundLinks ==
    ASSUME NEW h, Sound(h)
    PROVE  /\ h \in List!Ctx
           /\ \A n \in Inst :
                 /\ h.next[n] \in Inst \cup {None} /\ h.prev[n] \in Inst \cup {None}
                 /\ h.next[n] # n
                 /\ h.container[n] \in (1 .. Blocks) \cup {None}
                 /\ h.next[n] # None => h.container[h.next[n]] = h.container[n]
                 /\ h.prev[n] # None => h.container[h.prev[n]] = h.container[n]
                 /\ h.container[n] = None => h.next[n] = None /\ h.prev[n] = None
           /\ \A b \in 1 .. Blocks :
                 h.head[b] # None => h.head[b] \in Inst /\ h.container[h.head[b]] = b
<1>1. h \in Lists!Ctx /\ Lists!LocallyLinked(h) /\ Lists!Ordered(h)
    BY DEF Sound, Lists!Sound
<1>2. h \in List!Ctx
    BY <1>1 DEF Lists!Ctx, List!Ctx
<1>3. PICK f : /\ f \in [Inst -> Int]
               /\ \A n \in Inst : h.next[n] # None => f[n] < f[h.next[n]]
    BY <1>1 DEF Lists!Ordered, Lists!Ranked
<1>4. \A n \in Inst : h.next[n] # n
    BY <1>3, NoneIsNoNode
<1> QED BY <1>1, <1>2, <1>4 DEF List!Ctx, Lists!LocallyLinked

LEMMA EmptyIsSound == Sound(List!EmptyCtx)
<1>1. Lists!Sound(Lists!EmptyCtx)
    BY NoneIsNoNode, Lists!EmptySound DEF Lists!EmptySound
<1>2. Lists!Ordered(Lists!EmptyCtx)
    BY NoneIsNoNode, Lists!EmptyOrdered DEF Lists!EmptyOrdered
<1> QED BY <1>1, <1>2 DEF Sound, List!EmptyCtx, Lists!EmptyCtx

LEMMA UnlinkIsSound ==
    ASSUME NEW h, Sound(h), NEW n \in Inst
    PROVE  /\ Sound(List!Unlink(h, n))
           /\ \A m \in Inst : List!Unlink(h, n).container[m]
                                = IF m = n THEN None ELSE h.container[m]
<1>1. List!Unlink(h, n) = Lists!Unlink(h, n)
    BY DEF List!Unlink, Lists!Unlink, List!Set, Lists!Set
<1>2. Lists!Sound(h) /\ Lists!Ordered(h)
    BY DEF Sound
<1>3. Lists!Sound(Lists!Unlink(h, n))
    BY <1>2, NoneIsNoNode, Lists!UnlinkSound DEF Lists!UnlinkSound
<1>4. Lists!Ordered(Lists!Unlink(h, n))
    BY <1>2, NoneIsNoNode, Lists!UnlinkOrdered DEF Lists!UnlinkOrdered
<1>5. \A m \in Inst : Lists!Unlink(h, n).container[m] = IF m = n THEN None ELSE h.container[m]
    BY <1>2, NoneIsNoNode, Lists!UnlinkFields DEF Lists!UnlinkFields
<1> QED BY <1>1, <1>3, <1>4, <1>5 DEF Sound

(* The contexts after an insertion of n: sound, and only n has moved. *)
Inserted1(g, h, n) ==
    /\ Sound(g)
    /\ g.container[n] # None
    /\ \A m \in Inst : m # n => g.container[m] = h.container[m]

LEMMA InsertIsSound ==
    ASSUME NEW h, Sound(h), NEW m \in Inst, NEW n \in Inst,
           h.container[m] # None, h.container[n] = None
    PROVE  /\ Inserted1(List!InsertBefore(h, m, n), h, n)
           /\ Inserted1(List!InsertAfter(h, m, n), h, n)
<1> DEFINE b == Lists!InsertBefore(h, m, n)
           a == Lists!InsertAfter(h, m, n)
<1>1. List!InsertBefore(h, m, n) = b /\ List!InsertAfter(h, m, n) = a
    BY DEF List!InsertBefore, Lists!InsertBefore, List!InsertAfter, Lists!InsertAfter,
           List!Set, Lists!Set
<1>2. /\ Lists!Sound(h) /\ Lists!Ordered(h)
      /\ h.container \in [Inst -> (1 .. Blocks) \cup {None}]
    BY SoundLinks DEF Sound, List!Ctx
<1>3. Lists!Sound(b) /\ b.container = [h.container EXCEPT ![n] = h.container[m]]
    BY <1>2, NoneIsNoNode, Lists!InsertBeforeSound DEF Lists!InsertBeforeSound
<1>4. Lists!Sound(a) /\ a.container = [h.container EXCEPT ![n] = h.container[m]]
    BY <1>2, NoneIsNoNode, Lists!InsertAfterSound DEF Lists!InsertAfterSound
<1>5. Lists!Ordered(b)
    BY <1>2, NoneIsNoNode, Lists!InsertBeforeOrdered DEF Lists!InsertBeforeOrdered
<1>6. Lists!Ordered(a)
    BY <1>2, NoneIsNoNode, Lists!InsertAfterOrdered DEF Lists!InsertAfterOrdered
<1> HIDE DEF a, b
<1> QED BY <1>1, <1>2, <1>3, <1>4, <1>5, <1>6 DEF Inserted1, Sound

LEMMA PushIsSound ==
    ASSUME NEW h, Sound(h), NEW c \in 1 .. Blocks, NEW n \in Inst,
           h.container[n] = None
    PROVE  /\ Inserted1(List!PushBack(h, c, n), h, n)
           /\ Inserted1(List!PushFront(h, c, n), h, n)
<1> DEFINE b == Lists!PushBack(h, c, n)
           f == Lists!PushFront(h, c, n)
<1>1. List!PushBack(h, c, n) = b /\ List!PushFront(h, c, n) = f
    BY DEF List!PushBack, Lists!PushBack, List!PushFront, Lists!PushFront,
           List!PushOnly, Lists!PushOnly,
           List!InsertBefore, Lists!InsertBefore, List!InsertAfter, Lists!InsertAfter,
           List!Set, Lists!Set
<1>2. /\ Lists!Sound(h) /\ Lists!Ordered(h)
      /\ h.container \in [Inst -> (1 .. Blocks) \cup {None}]
    BY SoundLinks DEF Sound, List!Ctx
<1>3. Lists!Sound(b) /\ b.container = [h.container EXCEPT ![n] = c]
    BY <1>2, NoneIsNoNode, Lists!PushBackSound DEF Lists!PushBackSound
<1>4. Lists!Sound(f) /\ f.container = [h.container EXCEPT ![n] = c]
    BY <1>2, NoneIsNoNode, Lists!PushFrontSound DEF Lists!PushFrontSound
<1>5. Lists!Ordered(b) /\ Lists!Ordered(f)
    BY <1>2, NoneIsNoNode, Lists!PushOrdered DEF Lists!PushOrdered
<1> HIDE DEF f, b
<1> QED BY <1>1, <1>2, <1>3, <1>4, <1>5, NoneIsNoNode DEF Inserted1, Sound

-----------------------------------------------------------------------------
(* The lemmas on the arena. *)

LEMMA LiveEntries ==
    ASSUME ArenaOK
    PROVE  /\ Live \subseteq Inst
           /\ \A n \in Live : entries[n].kind = "Occupied" /\ n \in 0 .. (len - 1)
           /\ \A n \in 0 .. (len - 1) : n \in Live <=> entries[n].kind # "Vacant"
BY DEF ArenaOK, Live, Insts!Live, Inst

(* An allocation takes an entry that was not live. *)
LEMMA AllocTakes ==
    ASSUME ArenaOK, NeverPanics, NEW d, Alloc(d)
    PROVE  /\ ArenaOK' /\ NeverPanics'
           /\ ret' \in Inst \ Live
           /\ Live' = Live \cup {ret'}
<1>1. CASE Insts!AllocVacant(d)
    <2>1. /\ free_head \in 0 .. (len - 1) /\ entries[free_head].kind = "Vacant"
          /\ free_head' = entries[free_head].next
          /\ entries' = [entries EXCEPT ![free_head] = [kind |-> "Occupied", data |-> d]]
          /\ ret' = free_head /\ len' = len
          /\ panicked' = panicked /\ twice' = twice
        BY <1>1 DEF Insts!AllocVacant, Insts!Occupied, ArenaOK
    <2>2. /\ \A i \in 0 .. (len - 1) :
                entries'[i] = IF i = free_head THEN [kind |-> "Occupied", data |-> d]
                                               ELSE entries[i]
          /\ entries' = [i \in 0 .. (len' - 1) |-> entries'[i]]
        BY <2>1 DEF ArenaOK
    <2>3. ArenaOK' /\ NeverPanics'
        BY <2>1, <2>2 DEF ArenaOK, NeverPanics
    <2>4. ret' \in Inst \ Live
        BY <2>1 DEF Inst, ArenaOK, Live, Insts!Live
    <2>5. Live' = Live \cup {ret'}
        BY <2>1, <2>2 DEF Live, Insts!Live
    <2> QED BY <2>3, <2>4, <2>5
<1>2. CASE Insts!AllocPush(d)
    <2>1. /\ len < MaxEntries /\ free_head = None /\ free_head' = None
          /\ entries' = [i \in 0 .. len |->
                            IF i = len THEN [kind |-> "Occupied", data |-> d] ELSE entries[i]]
          /\ ret' = len /\ len' = len + 1
          /\ panicked' = panicked /\ twice' = twice
        BY <1>2 DEF Insts!AllocPush, Insts!Occupied
    <2>2. /\ len \in Nat /\ len' \in 0 .. MaxEntries
          /\ \A i \in 0 .. (len' - 1) :
                /\ i # len => i \in 0 .. (len - 1)
                /\ entries'[i] = IF i = len THEN [kind |-> "Occupied", data |-> d]
                                             ELSE entries[i]
          /\ entries' = [i \in 0 .. (len' - 1) |-> entries'[i]]
        BY <2>1 DEF ArenaOK
    <2>3. \A i \in 0 .. (len' - 1) :
              /\ entries'[i].kind \in {"Vacant", "Occupied"}
              /\ entries'[i].kind = "Vacant" =>
                    entries'[i].next \in (0 .. (len' - 1)) \cup {None}
        BY <2>1, <2>2 DEF ArenaOK
    <2>4. ArenaOK' /\ NeverPanics'
        BY <2>1, <2>2, <2>3 DEF ArenaOK, NeverPanics
    <2>5. ret' \in Inst \ Live
        BY <2>1, <2>2 DEF Inst, Live, Insts!Live
    <2>6. Live' = Live \cup {ret'}
        BY <2>1, <2>2 DEF Live, Insts!Live
    <2> QED BY <2>4, <2>5, <2>6
<1> QED BY <1>1, <1>2 DEF Alloc

(* A deallocation of a live entry frees that entry alone. *)
LEMMA DeallocFrees ==
    ASSUME ArenaOK, NeverPanics, NEW n \in Live, Insts!DeallocEntry(n)
    PROVE  ArenaOK' /\ NeverPanics' /\ Live' = Live \ {n}
<1>1. /\ n \in 0 .. (len - 1) /\ entries[n].kind = "Occupied"
      /\ entries' = [entries EXCEPT ![n] = [kind |-> "Vacant", next |-> free_head]]
      /\ free_head' = n /\ len' = len /\ panicked' = panicked
      /\ twice' = (twice \/ n \in Insts!Vacants)
    BY LiveEntries DEF Insts!DeallocEntry, Insts!Vacant
<1>2. n \notin Insts!Vacants
    BY <1>1 DEF Insts!Vacants
<1>3. /\ \A i \in 0 .. (len - 1) :
            entries'[i] = IF i = n THEN [kind |-> "Vacant", next |-> free_head] ELSE entries[i]
      /\ entries' = [i \in 0 .. (len' - 1) |-> entries'[i]]
    BY <1>1 DEF ArenaOK
<1>4. ArenaOK'
    BY <1>1, <1>3 DEF ArenaOK
<1>5. NeverPanics'
    BY <1>1, <1>2, Zenon DEF NeverPanics
<1>6. Live' = Live \ {n}
    BY <1>1, <1>3 DEF Live, Insts!Live
<1> QED BY <1>4, <1>5, <1>6

(* A write into a live entry changes no more than its data. *)
LEMMA DerefMutKeeps ==
    ASSUME ArenaOK, NeverPanics, NEW n, NEW d, Insts!DerefMut(n, d)
    PROVE  ArenaOK' /\ NeverPanics' /\ Live' = Live
<1>1. /\ entries' = IF n \in Live
                    THEN [entries EXCEPT ![n] = [kind |-> "Occupied", data |-> d]]
                    ELSE entries
      /\ free_head' = free_head /\ len' = len /\ panicked' = panicked /\ twice' = twice
    BY DEF Insts!DerefMut, Insts!Occupied, Live
<1>2. /\ \A i \in 0 .. (len - 1) : entries'[i] = IF i = n /\ n \in Live
                                             THEN [kind |-> "Occupied", data |-> d]
                                             ELSE entries[i]
      /\ entries' = [i \in 0 .. (len' - 1) |-> entries'[i]]
    BY <1>1 DEF ArenaOK
<1>3. ArenaOK' /\ NeverPanics'
    BY <1>1, <1>2 DEF ArenaOK, NeverPanics
<1>4. Live' = Live
    BY <1>1, <1>2, LiveEntries DEF Live, Insts!Live
<1> QED BY <1>3, <1>4

-----------------------------------------------------------------------------
(* The methods that edit the code. *)

LEMMA LinkedLive ==
    ASSUME Sound(ctx), LinkedAreLive
    PROVE  /\ \A n \in Inst : ctx.container[n] # None => n \in Live
           /\ \A n : IsLinked(n) => Around(n) \subseteq Live
<1>1. \A n \in Inst : ctx.container[n] # None => n \in Live
    BY DEF LinkedAreLive, List!Linked
<1> QED BY <1>1, SoundLinks DEF IsLinked, Around

(* The constructors leave the links of an unlinked instruction empty. *)
LEMMA BuiltIsSame ==
    ASSUME Sound(ctx), NEW n \in Inst, ctx.container[n] = None
    PROVE  Built(n) = ctx
<1>1. /\ ctx = [head |-> ctx.head, tail |-> ctx.tail, next |-> ctx.next,
                prev |-> ctx.prev, container |-> ctx.container]
      /\ ctx.next \in [Inst -> Inst \cup {None}]
      /\ ctx.prev \in [Inst -> Inst \cup {None}]
      /\ ctx.container \in [Inst -> (1 .. Blocks) \cup {None}]
      /\ ctx.next[n] = None /\ ctx.prev[n] = None
    BY SoundLinks DEF List!Ctx
<1>2. /\ [ctx.next EXCEPT ![n] = None] = ctx.next
      /\ [ctx.prev EXCEPT ![n] = None] = ctx.prev
      /\ [ctx.container EXCEPT ![n] = None] = ctx.container
    BY <1>1
<1>3. ASSUME NEW h,
             h = [head |-> h.head, tail |-> h.tail, next |-> h.next,
                  prev |-> h.prev, container |-> h.container],
             [h.next EXCEPT ![n] = None] = h.next,
             [h.prev EXCEPT ![n] = None] = h.prev,
             [h.container EXCEPT ![n] = None] = h.container
      PROVE  [h EXCEPT !.next[n] = None, !.prev[n] = None, !.container[n] = None] = h
    BY <1>3
<1> QED BY <1>1, <1>2, <1>3 DEF Built

(* What an insertion does: one entry is taken, and linked. *)
Added == /\ ArenaOK' /\ NeverPanics' /\ Sound(ctx')
         /\ ret' \in Inst \ Live
         /\ Live' = Live \cup {ret'}
         /\ ctx'.container[ret'] # None
         /\ \A n \in Inst : n # ret' => ctx'.container[n] = ctx.container[n]

LEMMA InsertAdds ==
    ASSUME IInv, NEW m, IsLinked(m), NEW d, AllocBefore(m, d) \/ AllocAfter(m, d)
    PROVE  Added
<1>1. Around(m) \subseteq Live /\ m \in Inst /\ ctx.container[m] # None
    BY LinkedLive DEF IInv, IsLinked
<1>2. /\ Alloc(d)
      /\ \/ ctx' = List!InsertBefore(Built(ret'), m, ret')
         \/ ctx' = List!InsertAfter(Built(ret'), m, ret')
    BY <1>1 DEF AllocBefore, AllocAfter
<1>3. ArenaOK' /\ NeverPanics' /\ ret' \in Inst \ Live /\ Live' = Live \cup {ret'}
    BY <1>2, AllocTakes DEF IInv
<1>4. ctx.container[ret'] = None
    BY <1>3, LinkedLive DEF IInv
<1>5. Built(ret') = ctx
    BY <1>3, <1>4, BuiltIsSame DEF IInv
<1>6. Inserted1(ctx', ctx, ret')
    BY <1>1, <1>2, <1>3, <1>4, <1>5, InsertIsSound DEF IInv
<1> QED BY <1>3, <1>6 DEF Added, Inserted1

LEMMA PushAdds ==
    ASSUME IInv, NEW b \in 1 .. Blocks, NEW d, Alloc(d),
           \/ ctx' = List!PushBack(Built(ret'), b, ret')
           \/ ctx' = List!PushFront(Built(ret'), b, ret')
    PROVE  Added
<1>1. ArenaOK' /\ NeverPanics' /\ ret' \in Inst \ Live /\ Live' = Live \cup {ret'}
    BY AllocTakes DEF IInv
<1>2. ctx.container[ret'] = None
    BY <1>1, LinkedLive DEF IInv
<1>3. Built(ret') = ctx
    BY <1>1, <1>2, BuiltIsSame DEF IInv
<1>4. Inserted1(ctx', ctx, ret')
    BY <1>1, <1>2, <1>3, PushIsSound DEF IInv
<1> QED BY <1>1, <1>4 DEF Added, Inserted1

LEMMA RemoveRemoves ==
    ASSUME IInv, NEW n, IsLinked(n), Remove(n)
    PROVE  /\ ArenaOK' /\ NeverPanics' /\ Sound(ctx')
           /\ Live' = Live \ {n}
           /\ \A m \in Inst : ctx'.container[m] = IF m = n THEN None ELSE ctx.container[m]
<1>1. Around(n) \subseteq Live /\ n \in Inst /\ n \in Live
    BY LinkedLive DEF IInv, IsLinked
<1>2. Insts!DeallocEntry(n) /\ ctx' = List!Unlink(ctx, n)
    BY <1>1 DEF Remove
<1>3. ArenaOK' /\ NeverPanics' /\ Live' = Live \ {n}
    BY <1>1, <1>2, DeallocFrees DEF IInv
<1> QED BY <1>1, <1>2, <1>3, UnlinkIsSound DEF IInv

-----------------------------------------------------------------------------
(* The steps. *)

(* Links and allocations agree, given what no remove is in the middle of. *)
LEMMA LinkedAreLiveIf ==
    ASSUME ~(phase = "adjust" /\ curr.does = "free")
    PROVE  LinkedAreLive <=> Live = {n \in Inst : ctx.container[n] # None}
BY DEF LinkedAreLive, List!Linked

LEMMA InitInv == Init => IInv
<1> SUFFICES ASSUME Init PROVE IInv
    OBVIOUS
<1>1. ArenaOK /\ NeverPanics /\ Live = {}
    <2>1. /\ len = 0 /\ free_head = None /\ entries = [i \in {} |-> None]
          /\ panicked = FALSE /\ twice = FALSE
        BY DEF Init, Insts!Init
    <2>2. 0 .. (len - 1) = {}
        BY <2>1
    <2> QED BY <2>1, <2>2 DEF ArenaOK, NeverPanics, Live, Insts!Live
<1>2. Sound(ctx)
    BY EmptyIsSound DEF Init
<1>3. LinkedAreLive
    BY <1>1 DEF Init, LinkedAreLive, List!Linked, List!EmptyCtx
<1>4. WalkOK
    BY DEF Init, WalkOK, Turn
<1> QED BY <1>1, <1>2, <1>3, <1>4 DEF IInv

LEMMA BuildInv == ASSUME IInv, Build PROVE IInv'
<1>1. /\ phase = "build" /\ phase' = phase /\ curr' = curr
    BY DEF Build
<1>2. WalkOK'
    BY <1>1 DEF IInv, WalkOK
<1>3. Live = {n \in Inst : ctx.container[n] # None}
    BY <1>1, LinkedAreLiveIf DEF IInv
<1>4. ASSUME Added PROVE IInv'
    <2>1. Live' = {n \in Inst : ctx'.container[n] # None}
        BY <1>3, <1>4 DEF Added
    <2>2. LinkedAreLive'
        BY <1>1, <2>1 DEF LinkedAreLive, List!Linked
    <2> QED BY <1>2, <1>4, <2>2 DEF Added, IInv
<1>5. ASSUME NEW n, IsLinked(n), Remove(n) PROVE IInv'
    <2>1. Live' = {m \in Inst : ctx'.container[m] # None}
        BY <1>3, <1>5, RemoveRemoves
    <2>2. LinkedAreLive'
        BY <1>1, <2>1 DEF LinkedAreLive, List!Linked
    <2> QED BY <1>2, <1>5, <2>2, RemoveRemoves DEF IInv
<1>6. \A n \in List!Linked(ctx) : IsLinked(n)
    BY DEF List!Linked, IsLinked
<1> QED BY <1>4, <1>5, <1>6, InsertAdds, PushAdds DEF Build

(* A step that leaves the arena, the context and their agreement alone. *)
LEMMA KeepCode ==
    ASSUME IInv, UNCHANGED <<arena, ctx>>
    PROVE  /\ ArenaOK' /\ Sound(ctx)' /\ NeverPanics' /\ Live' = Live
           /\ \A n : IsLinked(n)' <=> IsLinked(n)
<1>1. /\ entries' = entries /\ len' = len /\ free_head' = free_head
      /\ panicked' = panicked /\ twice' = twice /\ ctx' = ctx
    BY DEF arena
<1> QED BY <1>1 DEF IInv, ArenaOK, NeverPanics, Live, Insts!Live, IsLinked

(* The first instruction of a block, if it has one, is linked. *)
LEMMA TurnOK ==
    ASSUME IInv, UNCHANGED <<arena, ctx>>, phase' = "adjust", NEW b \in 1 .. Blocks,
           NEW n, n # None => IsLinked(n), curr' = Turn(b, n),
           ~(phase = "adjust" /\ curr.does = "free")
    PROVE  IInv'
<1>1. /\ curr'.block = b /\ curr'.inst = n /\ curr'.next = None /\ curr'.does = "fetch"
      /\ curr' = [block |-> curr'.block, inst |-> curr'.inst, next |-> curr'.next,
                  does |-> curr'.does, todo |-> curr'.todo, put |-> curr'.put]
    BY DEF Turn
<1>2. ctx' = ctx
    OBVIOUS
<1>3. WalkOK'
    BY <1>1, KeepCode, NoneIsNoNode DEF WalkOK, IsLinked
<1>4. LinkedAreLive'
    BY <1>1, <1>2, KeepCode, LinkedAreLiveIf DEF IInv, LinkedAreLive, List!Linked
<1> QED BY <1>3, <1>4, KeepCode DEF IInv

LEMMA BeginInv == ASSUME IInv, Begin PROVE IInv'
<1>1. ctx.head[1] # None => IsLinked(ctx.head[1])
    BY SoundLinks, NoneIsNoNode DEF IInv, IsLinked
<1> QED BY <1>1, TurnOK DEF Begin

(* What the walk knows of the instruction it stands at. *)
LEMMA WalkingAt ==
    ASSUME IInv, NEW does, Walking(does)
    PROVE  /\ curr.inst \in Inst /\ curr.does = does /\ phase = "adjust"
           /\ curr.block \in 1 .. Blocks
           /\ does \in {"fetch", "insert"} => IsLinked(curr.inst) /\ curr.inst \in Live
           /\ does # "fetch" /\ curr.next # None =>
                 IsLinked(curr.next) /\ curr.next # curr.inst
BY LinkedLive DEF IInv, WalkOK, Walking, IsLinked

(* The record curr after an update. *)
LEMMA UpdateRecord ==
    ASSUME NEW b, NEW i, NEW n, NEW d, NEW t, NEW f,
           NEW next, NEW does, NEW todo, NEW put,
           NEW r, r = [block |-> b, inst |-> i, next |-> n, does |-> d, todo |-> t, put |-> f]
    PROVE  [r EXCEPT !.next = next, !.does = does, !.todo = todo, !.put = put]
             = [block |-> b, inst |-> i, next |-> next, does |-> does, todo |-> todo,
                put |-> put]
<1> DEFINE r1 == [r EXCEPT !.next = next]
           r2 == [r1 EXCEPT !.does = does]
           r3 == [r2 EXCEPT !.todo = todo]
           r4 == [r3 EXCEPT !.put = put]
<1>1. [r EXCEPT !.next = next, !.does = does, !.todo = todo, !.put = put] = r4
    OBVIOUS
<1> HIDE DEF r4
<1>2. r1 = [block |-> b, inst |-> i, next |-> next, does |-> d, todo |-> t, put |-> f]
    OBVIOUS
<1> HIDE DEF r1
<1>3. r2 = [block |-> b, inst |-> i, next |-> next, does |-> does, todo |-> t, put |-> f]
    BY <1>2
<1> HIDE DEF r2
<1>4. r3 = [block |-> b, inst |-> i, next |-> next, does |-> does, todo |-> todo, put |-> f]
    BY <1>3
<1> HIDE DEF r3
<1>5. r4 = [block |-> b, inst |-> i, next |-> next, does |-> does, todo |-> todo, put |-> put]
    BY <1>4 DEF r4
<1> QED BY <1>1, <1>5

LEMMA CurrUpdate ==
    ASSUME IInv, NEW next, NEW does, NEW todo, NEW put,
           curr' = [curr EXCEPT !.next = next, !.does = does, !.todo = todo, !.put = put]
    PROVE  /\ curr'.block = curr.block /\ curr'.inst = curr.inst
           /\ curr'.next = next /\ curr'.does = does
           /\ curr' = [block |-> curr'.block, inst |-> curr'.inst, next |-> curr'.next,
                       does |-> curr'.does, todo |-> curr'.todo, put |-> curr'.put]
<1>1. curr = [block |-> curr.block, inst |-> curr.inst, next |-> curr.next,
              does |-> curr.does, todo |-> curr.todo, put |-> curr.put]
    BY DEF IInv, WalkOK
<1>2. curr' = [block |-> curr.block, inst |-> curr.inst, next |-> next,
               does |-> does, todo |-> todo, put |-> put]
    BY <1>1, UpdateRecord
<1> QED BY <1>2

Became(next, does, todo, put) ==
    curr' = [block |-> curr.block, inst |-> curr.inst, next |-> next,
             does |-> does, todo |-> todo, put |-> put]

LEMMA CurrBecomes ==
    ASSUME IInv, NEW next, NEW does, NEW todo, NEW put,
           curr' = [curr EXCEPT !.next = next, !.does = does, !.todo = todo, !.put = put]
    PROVE  Became(next, does, todo, put)
<1>1. curr = [block |-> curr.block, inst |-> curr.inst, next |-> curr.next,
              does |-> curr.does, todo |-> curr.todo, put |-> curr.put]
    BY DEF IInv, WalkOK
<1> QED BY <1>1, UpdateRecord DEF Became

LEMMA FetchInv == ASSUME IInv, FetchInst PROVE IInv'
<1> DEFINE does == IF Kind(curr.inst) \in {Near, Far} \cup Addresses THEN "insert" ELSE "next"
           todo == Scratch(Kind(curr.inst)) \o Address(Kind(curr.inst))
           next == ctx.next[curr.inst]
<1>1. /\ Walking("fetch")
      /\ curr.inst \in Live /\ IsLinked(curr.inst)
    BY WalkingAt DEF FetchInst
<1>2. /\ curr' = [curr EXCEPT !.next = next, !.does = does, !.todo = todo]
      /\ UNCHANGED <<arena, ctx, phase>>
    BY <1>1 DEF FetchInst
<1>3. /\ curr' = [curr EXCEPT !.next = next, !.does = does, !.todo = todo, !.put = curr.put]
    BY <1>2 DEF IInv, WalkOK
<1>4. does \in {"insert", "next"}
    OBVIOUS
<1> HIDE DEF does, todo
<1>5. /\ curr'.block = curr.block /\ curr'.inst = curr.inst
      /\ curr'.next = next /\ curr'.does = does
      /\ curr' = [block |-> curr'.block, inst |-> curr'.inst, next |-> curr'.next,
                  does |-> curr'.does, todo |-> curr'.todo, put |-> curr'.put]
    BY <1>3, CurrUpdate
<1>6. next # None => IsLinked(next) /\ next # curr.inst
    BY <1>1, SoundLinks DEF IInv, IsLinked
<1> HIDE DEF next
<1>7. WalkOK'
    BY <1>1, <1>2, <1>4, <1>5, <1>6, KeepCode, WalkingAt DEF WalkOK
<1>8. LinkedAreLive'
    <2>1. Live = {n \in Inst : ctx.container[n] # None}
        BY <1>1, WalkingAt, LinkedAreLiveIf DEF IInv
    <2>2. ctx' = ctx /\ curr'.does # "free"
        BY <1>2, <1>4, <1>5
    <2> QED BY <1>2, <2>1, <2>2, KeepCode DEF LinkedAreLive, List!Linked
<1> QED BY <1>2, <1>7, <1>8, KeepCode DEF IInv

LEMMA InsertInv == ASSUME IInv, InsertInst PROVE IInv'
<1>1. /\ Walking("insert") /\ phase' = phase
      /\ AllocBefore(curr.inst, Head(curr.todo))
      /\ curr' = [curr EXCEPT !.todo = Tail(curr.todo), !.put = curr.put + 1]
    BY DEF InsertInst
<1>2. Added /\ IsLinked(curr.inst)
    BY <1>1, WalkingAt, InsertAdds
<1>3. curr' = [curr EXCEPT !.next = curr.next, !.does = "insert", !.todo = Tail(curr.todo),
                           !.put = curr.put + 1]
    BY <1>1, WalkingAt DEF IInv, WalkOK
<1>4. /\ curr'.block = curr.block /\ curr'.inst = curr.inst
      /\ curr'.next = curr.next /\ curr'.does = "insert"
      /\ curr' = [block |-> curr'.block, inst |-> curr'.inst, next |-> curr'.next,
                  does |-> curr'.does, todo |-> curr'.todo, put |-> curr'.put]
    BY <1>3, CurrUpdate
<1>5. \A n : IsLinked(n) => IsLinked(n)'
    BY <1>2 DEF Added, IsLinked
<1>6. WalkOK'
    BY <1>1, <1>4, <1>5, WalkingAt DEF WalkOK
<1>7. LinkedAreLive'
    <2>1. Live = {n \in Inst : ctx.container[n] # None}
        BY <1>1, WalkingAt, LinkedAreLiveIf DEF IInv
    <2>2. Live' = {n \in Inst : ctx'.container[n] # None}
        BY <1>2, <2>1 DEF Added
    <2> QED BY <1>4, <2>2 DEF LinkedAreLive, List!Linked
<1> QED BY <1>2, <1>6, <1>7 DEF Added, IInv

LEMMA SetLocInv == ASSUME IInv, SetLoc PROVE IInv'
<1>1. /\ Walking("insert") /\ phase' = phase /\ ctx' = ctx
      /\ Insts!DerefMut(curr.inst, Resolved)
      /\ curr' = [curr EXCEPT !.does = "next", !.put = 0]
    BY DEF SetLoc, Inserted
<1>2. ArenaOK' /\ NeverPanics' /\ Live' = Live
    BY <1>1, DerefMutKeeps DEF IInv
<1>3. curr' = [curr EXCEPT !.next = curr.next, !.does = "next", !.todo = curr.todo,
                           !.put = 0]
    BY <1>1 DEF IInv, WalkOK
<1>4. /\ curr'.block = curr.block /\ curr'.inst = curr.inst
      /\ curr'.next = curr.next /\ curr'.does = "next"
      /\ curr' = [block |-> curr'.block, inst |-> curr'.inst, next |-> curr'.next,
                  does |-> curr'.does, todo |-> curr'.todo, put |-> curr'.put]
    BY <1>3, CurrUpdate
<1>5. WalkOK'
    BY <1>1, <1>4, WalkingAt DEF WalkOK, IsLinked
<1>6. LinkedAreLive'
    <2>1. Live = {n \in Inst : ctx.container[n] # None}
        BY <1>1, WalkingAt, LinkedAreLiveIf DEF IInv
    <2> QED BY <1>1, <1>2, <1>4, <2>1 DEF LinkedAreLive, List!Linked
<1> QED BY <1>1, <1>2, <1>5, <1>6 DEF IInv

LEMMA UnlinkInv == ASSUME IInv, UnlinkInst PROVE IInv'
<1>1. /\ Walking("insert") /\ phase' = phase
      /\ Unlink(curr.inst)
      /\ curr' = [curr EXCEPT !.does = "free", !.put = 0]
    BY DEF UnlinkInst, Inserted
<1>2. Around(curr.inst) \subseteq Live /\ curr.inst \in Live /\ curr.inst \in Inst
    BY <1>1, WalkingAt, LinkedLive DEF IInv
<1>3. ctx' = List!Unlink(ctx, curr.inst) /\ UNCHANGED arena
    BY <1>1, <1>2 DEF Unlink
<1>4. /\ Sound(ctx')
      /\ \A n \in Inst : ctx'.container[n] = IF n = curr.inst THEN None ELSE ctx.container[n]
    BY <1>2, <1>3, UnlinkIsSound DEF IInv
<1>5. /\ entries' = entries /\ len' = len /\ free_head' = free_head
      /\ panicked' = panicked /\ twice' = twice
    BY <1>3 DEF arena
<1>6. ArenaOK' /\ NeverPanics' /\ Live' = Live
    BY <1>5 DEF IInv, ArenaOK, NeverPanics, Live, Insts!Live
<1>7. curr' = [curr EXCEPT !.next = curr.next, !.does = "free", !.todo = curr.todo,
                           !.put = 0]
    BY <1>1 DEF IInv, WalkOK
<1>8. /\ curr'.block = curr.block /\ curr'.inst = curr.inst
      /\ curr'.next = curr.next /\ curr'.does = "free"
      /\ curr' = [block |-> curr'.block, inst |-> curr'.inst, next |-> curr'.next,
                  does |-> curr'.does, todo |-> curr'.todo, put |-> curr'.put]
    BY <1>7, CurrUpdate
<1>9. WalkOK'
    BY <1>1, <1>2, <1>4, <1>6, <1>8, WalkingAt DEF WalkOK, IsLinked
<1>10. LinkedAreLive'
    <2>1. Live = {n \in Inst : ctx.container[n] # None}
        BY <1>1, WalkingAt, LinkedAreLiveIf DEF IInv
    <2>2. {n \in Inst : ctx'.container[n] # None} = Live' \ {curr.inst}
        BY <1>4, <1>6, <2>1
    <2> QED BY <1>1, <1>8, <2>2, WalkingAt DEF LinkedAreLive, List!Linked
<1> QED BY <1>4, <1>6, <1>9, <1>10 DEF IInv

LEMMA FreeInv == ASSUME IInv, FreeInst PROVE IInv'
<1>1. /\ Walking("free") /\ phase' = phase
      /\ Dealloc(curr.inst)
      /\ curr' = [curr EXCEPT !.does = "next"]
    BY DEF FreeInst
<1>2. curr.inst \in Live /\ curr.inst \in Inst
    BY <1>1 DEF IInv, WalkOK, Walking
<1>3. Insts!DeallocEntry(curr.inst) /\ ctx' = ctx
    BY <1>1, <1>2 DEF Dealloc
<1>4. ArenaOK' /\ NeverPanics' /\ Live' = Live \ {curr.inst}
    BY <1>2, <1>3, DeallocFrees DEF IInv
<1>5. curr' = [curr EXCEPT !.next = curr.next, !.does = "next", !.todo = curr.todo,
                           !.put = curr.put]
    BY <1>1 DEF IInv, WalkOK
<1>6. /\ curr'.block = curr.block /\ curr'.inst = curr.inst
      /\ curr'.next = curr.next /\ curr'.does = "next"
      /\ curr' = [block |-> curr'.block, inst |-> curr'.inst, next |-> curr'.next,
                  does |-> curr'.does, todo |-> curr'.todo, put |-> curr'.put]
    BY <1>5, CurrUpdate
<1>7. WalkOK'
    BY <1>1, <1>3, <1>6, WalkingAt DEF WalkOK, IsLinked
<1>8. LinkedAreLive'
    <2>1. {n \in Inst : ctx.container[n] # None} = Live \ {curr.inst}
        BY <1>1, WalkingAt DEF IInv, LinkedAreLive, List!Linked
    <2> QED BY <1>3, <1>4, <1>6, <2>1 DEF LinkedAreLive, List!Linked
<1> QED BY <1>3, <1>4, <1>7, <1>8 DEF IInv

LEMMA NextInstInv == ASSUME IInv, NextInst PROVE IInv'
<1>1. /\ Walking("next") /\ UNCHANGED <<arena, ctx>> /\ phase' = phase
      /\ curr' = Turn(curr.block, curr.next)
    BY DEF NextInst
<1> QED BY <1>1, WalkingAt, TurnOK

LEMMA NextBlockInv == ASSUME IInv, NextBlock PROVE IInv'
<1>1. phase = "adjust" /\ curr.inst = None /\ UNCHANGED <<arena, ctx>>
    BY DEF NextBlock
<1>2. curr.block \in 1 .. Blocks /\ ctx' = ctx
    BY <1>1 DEF IInv, WalkOK
<1>3. Live = {n \in Inst : ctx.container[n] # None}
    <2>1. Live \subseteq Inst
        BY LiveEntries DEF IInv
    <2> QED BY <1>1, <2>1, NoneIsNoNode DEF IInv, LinkedAreLive, List!Linked
<1>4. /\ curr'.does # "free" \/ curr'.inst = None \/ phase' # "adjust" => LinkedAreLive'
    <2>1. Live' = Live /\ None \notin Live
        BY <1>1, KeepCode, LiveEntries, NoneIsNoNode DEF IInv
    <2> QED BY <1>2, <1>3, <2>1 DEF LinkedAreLive, List!Linked
<1>5. CASE curr.block < Blocks
    <2> DEFINE b == curr.block + 1
    <2>1. b \in 1 .. Blocks /\ phase' = "adjust" /\ curr' = Turn(b, ctx.head[b])
        BY <1>1, <1>2, <1>5 DEF NextBlock
    <2> HIDE DEF b
    <2>2. ctx.head[b] # None => IsLinked(ctx.head[b])
        BY <2>1, SoundLinks, NoneIsNoNode DEF IInv, IsLinked
    <2>3. curr'.does = "fetch" /\ curr'.inst = ctx.head[b]
          /\ curr' = [block |-> curr'.block, inst |-> curr'.inst, next |-> curr'.next,
                      does |-> curr'.does, todo |-> curr'.todo, put |-> curr'.put]
          /\ curr'.block = b
        BY <2>1 DEF Turn
    <2>4. WalkOK'
        BY <1>1, <2>1, <2>2, <2>3, KeepCode DEF WalkOK, IsLinked
    <2> QED BY <1>1, <1>4, <2>3, <2>4, KeepCode DEF IInv
<1>6. CASE ~(curr.block < Blocks)
    <2>1. phase' = "done" /\ curr' = curr
        BY <1>1, <1>6 DEF NextBlock
    <2>2. WalkOK'
        BY <2>1 DEF IInv, WalkOK
    <2> QED BY <1>1, <1>4, <2>1, <2>2, KeepCode DEF IInv
<1> QED BY <1>5, <1>6

LEMMA NextInv == IInv /\ [Next]_vars => IInv'
<1> SUFFICES ASSUME IInv, [Next]_vars PROVE IInv'
    OBVIOUS
<1>1. CASE UNCHANGED vars
    <2>1. UNCHANGED <<arena, ctx>> /\ phase' = phase /\ curr' = curr
        BY <1>1 DEF vars
    <2>2. WalkOK'
        BY <2>1, KeepCode DEF IInv, WalkOK
    <2>3. LinkedAreLive'
        BY <2>1, KeepCode DEF IInv, LinkedAreLive, List!Linked
    <2> QED BY <2>1, <2>2, <2>3, KeepCode DEF IInv
<1> QED BY <1>1, BuildInv, BeginInv, FetchInv, InsertInv, SetLocInv, UnlinkInv, FreeInv,
           NextInstInv, NextBlockInv DEF Next, AdjustOffset

(* However the code was built, adjust_offset fails nowhere: it looks at no *)
(* freed instruction and frees none twice, for any function.               *)
THEOREM WalkNeverPanics == Spec => []NeverPanics
<1>1. IInv => NeverPanics
    BY DEF IInv
<1> QED BY InitInv, NextInv, <1>1, PTL DEF Spec

(* Nothing leaks and nothing freed stays linked, at any point of the walk. *)
THEOREM LinkedStayLive == Spec => []LinkedAreLive
<1>1. IInv => LinkedAreLive
    BY DEF IInv
<1> QED BY InitInv, NextInv, <1>1, PTL DEF Spec

-----------------------------------------------------------------------------
(***************************************************************************)
(* Sequences: where a concatenation is taken apart, and what the nodes of  *)
(* a sequence hold.                                                        *)
(***************************************************************************)

LEMMA Halves ==
    ASSUME NEW S, NEW x \in Seq(S), NEW y \in Seq(S)
    PROVE  /\ SubSeq(x \o y, 1, Len(x)) = x
           /\ SubSeq(x \o y, Len(x) + 1, Len(x \o y)) = y
<1> DEFINE s == x \o y
<1>1. Len(x) \in Nat /\ Len(y) \in Nat /\ x \in Seq(S) /\ y \in Seq(S)
    BY LenProperties
<1>2. /\ s \in Seq(S) /\ Len(s) = Len(x) + Len(y)
      /\ \A i \in 1 .. Len(x) + Len(y) : s[i] = IF i <= Len(x) THEN x[i] ELSE y[i - Len(x)]
    BY ConcatProperties
<1>3. \A i \in 1 .. Len(s) : s[i] \in S
    BY <1>2, ElementOfSeq
<1> HIDE DEF s
<1>4. SubSeq(s, 1, Len(x)) = x
    <2> DEFINE u == SubSeq(s, 1, Len(x))
    <2>1. \A i \in 1 .. Len(x) : s[i] \in S
        BY <1>1, <1>2, <1>3
    <2>2. /\ u \in Seq(S) /\ Len(u) = Len(x)
          /\ \A i \in 1 .. Len(x) : u[i] = s[i]
        <3>1. /\ u \in Seq(S)
              /\ Len(u) = IF 1 <= Len(x) THEN Len(x) - 1 + 1 ELSE 0
              /\ \A i \in 1 .. Len(x) - 1 + 1 : u[i] = s[1 + i - 1]
            BY <1>1, <2>1, SubSeqProperties
        <3> HIDE DEF u
        <3> QED BY <1>1, <3>1
    <2> HIDE DEF u
    <2>3. \A i \in 1 .. Len(u) : u[i] = x[i]
        BY <1>1, <1>2, <2>2
    <2>4. u = x
        BY <1>1, <2>2, <2>3, SeqEqual
    <2> QED BY <2>4 DEF u
<1>5. SubSeq(s, Len(x) + 1, Len(s)) = y
    <2> DEFINE m == Len(x) + 1
               u == SubSeq(s, m, Len(s))
    <2>1. m \in Int /\ Len(s) \in Int /\ \A i \in m .. Len(s) : s[i] \in S
        BY <1>1, <1>2, <1>3
    <2>2. /\ u \in Seq(S)
          /\ Len(u) = IF m <= Len(s) THEN Len(s) - m + 1 ELSE 0
          /\ \A i \in 1 .. Len(s) - m + 1 : u[i] = s[m + i - 1]
        <3> HIDE DEF m
        <3> QED BY <2>1, SubSeqProperties
    <2> HIDE DEF u
    <2>3. Len(u) = Len(y) /\ Len(s) - m + 1 = Len(y)
        BY <1>1, <1>2, <2>2
    <2>4. ASSUME NEW i \in 1 .. Len(u) PROVE u[i] = y[i]
        <3>1. /\ i \in 1 .. Len(y) /\ m + i - 1 \in 1 .. Len(x) + Len(y)
              /\ ~ (m + i - 1 <= Len(x)) /\ (m + i - 1) - Len(x) = i
            BY <1>1, <2>3
        <3>2. u[i] = s[m + i - 1]
            BY <2>2, <2>3, <3>1
        <3> HIDE DEF m
        <3> QED BY <1>2, <3>1, <3>2
    <2>5. u = y
        BY <1>1, <2>2, <2>3, <2>4, SeqEqual
    <2> QED BY <2>5 DEF u
<1> QED BY <1>4, <1>5 DEF s

(* A sequence around its element n. *)
Between(S, x, n, y, s, i) ==
    /\ x \in Seq(S) /\ n \in S /\ y \in Seq(S)
    /\ s = (x \o <<n>>) \o y
    /\ i = Len(x) + 1

TakenApart(S, x, n, y, s, i) ==
    /\ s \in Seq(S) /\ s = x \o (<<n>> \o y)
    /\ Len(s) \in Nat /\ i \in Nat /\ i >= 1 /\ i <= Len(s)
    /\ s[i] = n
    /\ SubSeq(s, 1, i - 1) = x
    /\ SubSeq(s, i + 1, Len(s)) = y

LEMMA ApartAround ==
    ASSUME NEW S, NEW x, NEW n, NEW y, NEW s, NEW i, Between(S, x, n, y, s, i)
    PROVE  TakenApart(S, x, n, y, s, i)
<1> DEFINE t == x \o <<n>>
<1>0. x \in Seq(S) /\ n \in S /\ y \in Seq(S) /\ s = (x \o <<n>>) \o y
      /\ i = Len(x) + 1
    BY DEF Between
<1>1. /\ Len(x) \in Nat /\ Len(y) \in Nat
      /\ <<n>> \in Seq(S) /\ Len(<<n>>) = 1 /\ <<n>>[1] = n
    BY <1>0, LenProperties
<1>2. /\ t \in Seq(S) /\ Len(t) = Len(x) + 1
      /\ \A j \in 1 .. Len(x) + 1 : t[j] = IF j <= Len(x) THEN x[j] ELSE <<n>>[j - Len(x)]
    BY <1>0, <1>1, ConcatProperties
<1>3. s = x \o (<<n>> \o y)
    BY <1>0, <1>1, ConcatAssociative
<1>4. SubSeq(x \o (<<n>> \o y), 1, Len(x)) = x
    <2>1. <<n>> \o y \in Seq(S)
        BY <1>0, <1>1, ConcatProperties
    <2> QED BY <1>0, <2>1, Halves
<1>5. t[Len(x) + 1] = n
    <2>1. Len(x) + 1 \in 1 .. Len(x) + 1 /\ ~ (Len(x) + 1 <= Len(x)) /\ (Len(x) + 1) - Len(x) = 1
        BY <1>1
    <2> HIDE DEF t
    <2> QED BY <1>1, <1>2, <2>1
<1> HIDE DEF t
<1>6. s = t \o y
    BY <1>0 DEF t
<1>7. /\ s \in Seq(S) /\ Len(s) = Len(t) + Len(y)
      /\ \A j \in 1 .. Len(t) + Len(y) : s[j] = IF j <= Len(t) THEN t[j] ELSE y[j - Len(t)]
    BY <1>0, <1>2, <1>6, ConcatProperties
<1>8. SubSeq(s, Len(t) + 1, Len(s)) = y
    BY <1>0, <1>2, <1>6, Halves
<1>9. /\ i - 1 = Len(x) /\ i = Len(t) /\ i \in 1 .. Len(t) + Len(y) /\ Len(s) \in Nat
      /\ i <= Len(s) /\ i >= 1 /\ i \in Nat
    BY <1>0, <1>1, <1>2, <1>7
<1>10. s[i] = n
    BY <1>0, <1>5, <1>7, <1>9
<1>11. i \in Nat /\ i >= 1 /\ i <= Len(s) /\ Len(s) \in Nat
       /\ SubSeq(s, 1, i - 1) = x /\ SubSeq(s, i + 1, Len(s)) = y
    <2>1. SubSeq(s, 1, Len(x)) = x
        BY <1>3, <1>4
    <2>2. Len(t) + 1 = i + 1
        BY <1>9
    <2> QED BY <1>8, <1>9, <2>1, <2>2
<1> QED BY <1>3, <1>7, <1>10, <1>11 DEF TakenApart

(* A sequence that is not empty, from its first element on. *)
LEMMA HeadFirst ==
    ASSUME NEW S, NEW y \in Seq(S), y # <<>>
    PROVE  /\ y[1] \in S /\ Head(y) = y[1] /\ Tail(y) \in Seq(S)
           /\ y = <<y[1]>> \o Tail(y)
<1>1. Len(y) \in Nat \ {0} /\ Tail(y) \in Seq(S) /\ Len(Tail(y)) = Len(y) - 1
      /\ \A i \in 1 .. Len(Tail(y)) : Tail(y)[i] = y[i + 1]
    BY EmptySeq, HeadTailProperties
<1>2. y[1] \in S /\ Head(y) = y[1]
    BY <1>1, ElementOfSeq
<1>3. <<y[1]>> \in Seq(S) /\ Len(<<y[1]>>) = 1 /\ <<y[1]>>[1] = y[1]
    BY <1>2
<1> DEFINE h == <<y[1]>>
           t == Tail(y)
<1>4. /\ h \o t \in Seq(S) /\ Len(h \o t) = Len(h) + Len(t)
      /\ \A i \in 1 .. Len(h) + Len(t) :
            (h \o t)[i] = IF i <= Len(h) THEN h[i] ELSE t[i - Len(h)]
    BY <1>1, <1>3, ConcatProperties
<1> HIDE DEF h, t
<1>5. Len(h) = 1 /\ h[1] = y[1] /\ Len(t) = Len(y) - 1 /\ \A i \in 1 .. Len(t) : t[i] = y[i + 1]
    BY <1>1, <1>3 DEF h, t
<1>6. ASSUME NEW i \in 1 .. Len(y) PROVE (h \o t)[i] = y[i]
    <2>1. CASE i = 1
        BY <1>1, <1>4, <1>5, <2>1
    <2>2. CASE i # 1
        <3>1. i \in 1 .. Len(h) + Len(t) /\ ~ (i <= Len(h)) /\ i - Len(h) \in 1 .. Len(t)
              /\ (i - Len(h)) + 1 = i
            BY <1>1, <1>5, <2>2
        <3> QED BY <1>4, <1>5, <3>1
    <2> QED BY <2>1, <2>2
<1>7. Len(h \o t) = Len(y)
    BY <1>1, <1>4, <1>5
<1>8. y = h \o t
    BY <1>4, <1>6, <1>7, SeqEqual
<1> QED BY <1>1, <1>2, <1>8 DEF h, t

(* What the nodes of s hold, in an arena with the entries e. *)
Held(e, s) == [i \in 1 .. Len(s) |-> e[s[i]].data]
Holds(e) == {e[n].data : n \in Inst}

LEMMA HeldSeq ==
    ASSUME NEW e, NEW s \in Seq(Inst)
    PROVE  /\ Held(e, s) \in Seq(Holds(e)) /\ Len(Held(e, s)) = Len(s)
           /\ \A i \in 1 .. Len(s) : Held(e, s)[i] = e[s[i]].data
<1>1. Len(s) \in Nat /\ \A i \in 1 .. Len(s) : s[i] \in Inst
    BY LenProperties, ElementOfSeq
<1>2. Held(e, s) \in [1 .. Len(s) -> Holds(e)]
    BY <1>1 DEF Held, Holds
<1> QED BY <1>1, <1>2 DEF Held

LEMMA HeldConcat ==
    ASSUME NEW e, NEW x \in Seq(Inst), NEW y \in Seq(Inst)
    PROVE  Held(e, x \o y) = Held(e, x) \o Held(e, y)
<1> DEFINE s == x \o y
           S == Holds(e)
           k == Held(e, s)
           u == Held(e, x)
           v == Held(e, y)
<1>1. Len(x) \in Nat /\ Len(y) \in Nat
    BY LenProperties
<1>2. /\ s \in Seq(Inst) /\ Len(s) = Len(x) + Len(y)
      /\ \A i \in 1 .. Len(x) + Len(y) : s[i] = IF i <= Len(x) THEN x[i] ELSE y[i - Len(x)]
    BY ConcatProperties
<1> HIDE DEF s
<1>3. /\ k \in Seq(S) /\ Len(k) = Len(s) /\ \A i \in 1 .. Len(s) : k[i] = e[s[i]].data
      /\ u \in Seq(S) /\ Len(u) = Len(x) /\ \A i \in 1 .. Len(x) : u[i] = e[x[i]].data
      /\ v \in Seq(S) /\ Len(v) = Len(y) /\ \A i \in 1 .. Len(y) : v[i] = e[y[i]].data
    BY <1>2, HeldSeq
<1> HIDE DEF k, u, v, S
<1>4. /\ u \o v \in Seq(S) /\ Len(u \o v) = Len(u) + Len(v)
      /\ \A i \in 1 .. Len(u) + Len(v) :
            (u \o v)[i] = IF i <= Len(u) THEN u[i] ELSE v[i - Len(u)]
    BY <1>3, ConcatProperties
<1>5. ASSUME NEW i \in 1 .. Len(k) PROVE k[i] = (u \o v)[i]
    <2>1. i \in 1 .. Len(x) + Len(y)
        BY <1>2, <1>3
    <2>2. CASE i <= Len(x)
        <3>1. i \in 1 .. Len(x)
            BY <1>1, <2>1, <2>2
        <3>2. s[i] = x[i]
            BY <1>2, <2>1, <2>2
        <3>3. (u \o v)[i] = u[i]
            BY <1>3, <1>4, <2>1, <2>2
        <3>4. k[i] = e[s[i]].data /\ u[i] = e[x[i]].data
            BY <1>2, <1>3, <2>1, <3>1
        <3> QED BY <3>2, <3>3, <3>4
    <2>3. CASE ~ (i <= Len(x))
        <3>1. i - Len(x) \in 1 .. Len(y)
            BY <1>1, <2>1, <2>3
        <3>2. s[i] = y[i - Len(x)]
            BY <1>2, <2>1, <2>3
        <3>3. (u \o v)[i] = v[i - Len(x)]
            BY <1>3, <1>4, <2>1, <2>3
        <3>4. k[i] = e[s[i]].data /\ v[i - Len(x)] = e[y[i - Len(x)]].data
            BY <1>2, <1>3, <2>1, <3>1
        <3> QED BY <3>2, <3>3, <3>4
    <2> QED BY <2>2, <2>3
<1>6. k = u \o v
    BY <1>2, <1>3, <1>4, <1>5, SeqEqual
<1> QED BY <1>6 DEF k, u, v, s

LEMMA HeldOne ==
    ASSUME NEW e, NEW n \in Inst
    PROVE  Held(e, <<n>>) = <<e[n].data>>
<1>1. Len(<<n>>) = 1 /\ <<n>>[1] = n /\ <<n>> \in Seq(Inst)
    OBVIOUS
<1> DEFINE s == <<n>>
           k == Held(e, s)
           S == Holds(e)
<1>2. /\ k \in Seq(S) /\ Len(k) = 1 /\ k[1] = e[n].data
    <2> HIDE DEF s
    <2>1. s \in Seq(Inst) /\ Len(s) = 1 /\ s[1] = n
        BY <1>1 DEF s
    <2>2. /\ k \in Seq(S) /\ Len(k) = Len(s)
          /\ \A i \in 1 .. Len(s) : k[i] = e[s[i]].data
        BY <2>1, HeldSeq
    <2> HIDE DEF k, S
    <2>3. 1 \in 1 .. Len(s)
        BY <2>1
    <2>4. k[1] = e[s[1]].data
        BY <2>2, <2>3
    <2> QED BY <2>1, <2>2, <2>4
<1>3. <<e[n].data>> \in Seq(S) /\ Len(<<e[n].data>>) = 1 /\ <<e[n].data>>[1] = e[n].data
    BY DEF Holds
<1> HIDE DEF k, S
<1>4. \A i \in 1 .. Len(k) : k[i] = <<e[n].data>>[i]
    BY <1>2, <1>3
<1>5. k = <<e[n].data>>
    BY <1>2, <1>3, <1>4, SeqEqual
<1> QED BY <1>5 DEF k

LEMMA HeldSame ==
    ASSUME NEW e, NEW g, NEW s \in Seq(Inst),
           \A n \in Range(s) : e[n].data = g[n].data
    PROVE  Held(e, s) = Held(g, s)
<1>1. \A i \in 1 .. Len(s) : s[i] \in Range(s)
    BY RangeEquality
<1> QED BY <1>1 DEF Held

-----------------------------------------------------------------------------
(***************************************************************************)
(* The code as sequences: L lists the instructions of every block in the   *)
(* order of the links.                                                     *)
(***************************************************************************)
InOrder(h, L) == Lists!InOrder(h, L)

LEMMA InOrderFacts ==
    ASSUME NEW h, NEW L, InOrder(h, L)
    PROVE  /\ L \in [1 .. Blocks -> Seq(Inst)]
           /\ \A b \in 1 .. Blocks :
                 /\ L[b] \in Seq(Inst)
                 /\ h.head[b] = IF Len(L[b]) = 0 THEN None ELSE L[b][1]
                 /\ \A i \in 1 .. Len(L[b]) :
                       /\ h.container[L[b][i]] = b
                       /\ h.next[L[b][i]] = IF i = Len(L[b]) THEN None ELSE L[b][i + 1]
                 /\ \A i, j \in 1 .. Len(L[b]) : L[b][i] = L[b][j] => i = j
           /\ \A n \in Inst : h.container[n] # None =>
                 \E i \in 1 .. Len(L[h.container[n]]) : L[h.container[n]][i] = n
BY DEF InOrder, Lists!InOrder

LEMMA EditsInOrder ==
    ASSUME NEW h, Sound(h), NEW L, InOrder(h, L), NEW c \in 1 .. Blocks,
           NEW x \in Seq(Inst), NEW y \in Seq(Inst), L[c] = x \o y,
           NEW n \in Inst, h.container[n] = None
    PROVE  /\ y # <<>> => InOrder(List!InsertBefore(h, y[1], n),
                                  [L EXCEPT ![c] = (x \o <<n>>) \o y])
           /\ x # <<>> => InOrder(List!InsertAfter(h, x[Len(x)], n),
                                  [L EXCEPT ![c] = (x \o <<n>>) \o y])
<1>1. Lists!Sound(h) /\ Lists!InOrder(h, L)
    BY DEF Sound, InOrder
<1>2. ASSUME y # <<>>
      PROVE  InOrder(List!InsertBefore(h, y[1], n), [L EXCEPT ![c] = (x \o <<n>>) \o y])
    <2>1. List!InsertBefore(h, y[1], n) = Lists!InsertBefore(h, y[1], n)
        BY DEF List!InsertBefore, Lists!InsertBefore, List!Set, Lists!Set
    <2>2. Lists!InOrder(Lists!InsertBefore(h, y[1], n), [L EXCEPT ![c] = (x \o <<n>>) \o y])
        BY <1>1, <1>2, NoneIsNoNode, Lists!InsertBeforeBetween DEF Lists!InsertBeforeBetween
    <2> QED BY <2>1, <2>2 DEF InOrder
<1>3. ASSUME x # <<>>
      PROVE  InOrder(List!InsertAfter(h, x[Len(x)], n), [L EXCEPT ![c] = (x \o <<n>>) \o y])
    <2>1. List!InsertAfter(h, x[Len(x)], n) = Lists!InsertAfter(h, x[Len(x)], n)
        BY DEF List!InsertAfter, Lists!InsertAfter, List!Set, Lists!Set
    <2>2. Lists!InOrder(Lists!InsertAfter(h, x[Len(x)], n), [L EXCEPT ![c] = (x \o <<n>>) \o y])
        BY <1>1, <1>3, NoneIsNoNode, Lists!InsertAfterBetween DEF Lists!InsertAfterBetween
    <2> QED BY <2>1, <2>2 DEF InOrder
<1> QED BY <1>2, <1>3

LEMMA PushesInOrder ==
    ASSUME NEW h, Sound(h), NEW L, InOrder(h, L), NEW c \in 1 .. Blocks,
           NEW n \in Inst, h.container[n] = None
    PROVE  /\ InOrder(List!PushFront(h, c, n), [L EXCEPT ![c] = <<n>> \o @])
           /\ InOrder(List!PushBack(h, c, n), [L EXCEPT ![c] = @ \o <<n>>])
<1>1. Lists!Sound(h) /\ Lists!InOrder(h, L)
    BY DEF Sound, InOrder
<1>2. /\ List!PushFront(h, c, n) = Lists!PushFront(h, c, n)
      /\ List!PushBack(h, c, n) = Lists!PushBack(h, c, n)
    BY DEF List!PushBack, Lists!PushBack, List!PushFront, Lists!PushFront,
           List!PushOnly, Lists!PushOnly,
           List!InsertBefore, Lists!InsertBefore, List!InsertAfter, Lists!InsertAfter,
           List!Set, Lists!Set
<1>3. /\ Lists!InOrder(Lists!PushFront(h, c, n), [L EXCEPT ![c] = <<n>> \o @])
      /\ Lists!InOrder(Lists!PushBack(h, c, n), [L EXCEPT ![c] = @ \o <<n>>])
    BY <1>1, NoneIsNoNode, Lists!PushEnds DEF Lists!PushEnds
<1> QED BY <1>2, <1>3 DEF InOrder

LEMMA RemovalInOrder ==
    ASSUME NEW h, Sound(h), NEW L, InOrder(h, L), NEW c \in 1 .. Blocks,
           NEW x \in Seq(Inst), NEW n \in Inst, NEW y \in Seq(Inst),
           L[c] = (x \o <<n>>) \o y
    PROVE  InOrder(List!Unlink(h, n), [L EXCEPT ![c] = x \o y])
<1>1. Lists!Sound(h) /\ Lists!InOrder(h, L)
    BY DEF Sound, InOrder
<1>2. List!Unlink(h, n) = Lists!Unlink(h, n)
    BY DEF List!Unlink, Lists!Unlink, List!Set, Lists!Set
<1>3. Lists!InOrder(Lists!Unlink(h, n), [L EXCEPT ![c] = x \o y])
    BY <1>1, NoneIsNoNode, Lists!UnlinkBetween DEF Lists!UnlinkBetween
<1> QED BY <1>2, <1>3 DEF InOrder

LEMMA EmptyOrder == InOrder(List!EmptyCtx, [b \in 1 .. Blocks |-> <<>>])
<1>1. Lists!InOrder(Lists!EmptyCtx, [c \in 1 .. Blocks |-> <<>>])
    BY NoneIsNoNode, Lists!EmptyInOrder DEF Lists!EmptyInOrder
<1> QED BY <1>1 DEF InOrder, List!EmptyCtx, Lists!EmptyCtx

(* The first of a sequence, or None. *)
First(y) == IF Len(y) = 0 THEN None ELSE y[1]

(* The instructions of c, taken apart. *)
Parted(h, L, c, x, y) ==
    /\ InOrder(h, L) /\ c \in 1 .. Blocks
    /\ x \in Seq(Inst) /\ y \in Seq(Inst) /\ L[c] = x \o y

(* The walk from the first node of what is left of a block meets that.     *)
LEMMA WalkRest ==
    ASSUME NEW h, NEW L, NEW c, NEW x, NEW y, Parted(h, L, c, x, y)
    PROVE  List!Walk(h.next, First(y), MaxEntries) = y
<1> DEFINE s == L[c]
<1>0. /\ InOrder(h, L) /\ c \in 1 .. Blocks
      /\ x \in Seq(Inst) /\ y \in Seq(Inst) /\ s = x \o y
    BY DEF Parted
<1>1. IsFiniteSet(Inst) /\ Cardinality(Inst) = MaxEntries
    <2>1. 0 \in Int /\ MaxEntries - 1 \in Int
        OBVIOUS
    <2>2. /\ IsFiniteSet(0 .. (MaxEntries - 1))
          /\ Cardinality(0 .. (MaxEntries - 1)) =
                IF 0 > MaxEntries - 1 THEN 0 ELSE (MaxEntries - 1) - 0 + 1
        BY <2>1, FS_Interval
    <2> QED BY <2>2 DEF Inst
<1>2. Len(s) <= MaxEntries /\ s \in Seq(Inst)
    <2>1. s \in Seq(Inst) /\ \A i, k \in 1 .. Len(s) : s[i] = s[k] => i = k
        <3>1. \A b \in 1 .. Blocks :
                 /\ L[b] \in Seq(Inst)
                 /\ \A i, k \in 1 .. Len(L[b]) : L[b][i] = L[b][k] => i = k
            BY <1>0, InOrderFacts
        <3> QED BY <1>0, <3>1, Zenon
    <2> HIDE DEF s
    <2>2. Len(s) \in Nat /\ s \in [1 .. Len(s) -> Inst]
        BY <2>1, LenProperties
    <2>3. s \in Injection(1 .. Len(s), Inst)
        BY <2>1, <2>2 DEF Injection, IsInjective
    <2>4. Cardinality(1 .. Len(s)) <= Cardinality(Inst)
        BY <1>1, <2>3, FS_Injection
    <2>5. Cardinality(1 .. Len(s)) = Len(s)
        <3>1. 1 \in Int /\ Len(s) \in Int
            BY <2>2
        <3>2. Cardinality(1 .. Len(s)) = IF 1 > Len(s) THEN 0 ELSE Len(s) - 1 + 1
            BY <3>1, FS_Interval
        <3> QED BY <2>2, <3>2
    <2> QED BY <1>1, <2>1, <2>4, <2>5
<1>3. /\ s = x \o y
      /\ \A i \in 1 .. Len(s) : h.next[s[i]] = IF i = Len(s) THEN None ELSE s[i + 1]
    <2>1. \A b \in 1 .. Blocks : \A i \in 1 .. Len(L[b]) :
             h.next[L[b][i]] = IF i = Len(L[b]) THEN None ELSE L[b][i + 1]
        BY <1>0, InOrderFacts
    <2> QED BY <1>0, <2>1, Zenon
<1> HIDE DEF s
<1>4. /\ Len(x) \in Nat /\ Len(y) \in Nat /\ Len(s) = Len(x) + Len(y)
      /\ \A i \in 1 .. Len(x) + Len(y) : s[i] = IF i <= Len(x) THEN x[i] ELSE y[i - Len(x)]
    BY <1>0, <1>3, LenProperties, ConcatProperties
<1>5. ASSUME NEW i \in 1 .. Len(y)
      PROVE  h.next[y[i]] = IF i = Len(y) THEN None ELSE y[i + 1]
    <2> DEFINE j == Len(x) + i
    <2>0. Len(x) \in Nat /\ Len(y) \in Nat /\ Len(s) = Len(x) + Len(y)
        BY <1>4
    <2>1. /\ j \in 1 .. Len(s) /\ j \in 1 .. Len(x) + Len(y)
          /\ ~ (j <= Len(x)) /\ j - Len(x) = i
        BY <2>0
    <2>2. j = Len(s) <=> i = Len(y)
        <3>1. i \in Nat /\ j \in Nat /\ j = Len(x) + i
            BY <2>0
        <3> HIDE DEF j
        <3> QED BY <2>0, <3>1
    <2>3. ASSUME i # Len(y)
          PROVE  /\ j + 1 \in 1 .. Len(x) + Len(y) /\ ~ (j + 1 <= Len(x))
                 /\ (j + 1) - Len(x) = i + 1
        BY <2>0, <2>3
    <2> HIDE DEF j
    <2>4. s[j] = y[i]
        BY <1>4, <2>1
    <2>5. i # Len(y) => s[j + 1] = y[i + 1]
        BY <1>4, <2>3
    <2>6. h.next[s[j]] = IF j = Len(s) THEN None ELSE s[j + 1]
        BY <1>3, <2>1
    <2> QED BY <2>2, <2>4, <2>5, <2>6
<1>6. Len(y) <= MaxEntries
    BY <1>2, <1>4
<1>7. List!Walk(h.next, First(y), MaxEntries) = Lists!Walk(h.next, First(y), MaxEntries)
    BY DEF List!Walk, Lists!Walk, List!Follow, Lists!Follow
<1>8. Lists!Walk(h.next, First(y), MaxEntries) = y
    BY <1>0, <1>5, <1>6, NoneIsNoNode, Lists!WalkMeets DEF Lists!WalkMeets, First
<1> QED BY <1>7, <1>8

(* What the walk has put before its instruction is a part of what that one *)
(* stands for; the other part is still to be put there.                    *)
Adjusted == {Near, Far} \cup Addresses

Putting(e, c, f, y) ==
    /\ c.next = First(Tail(y))
    /\ e[c.inst].data \in Adjusted
    /\ c.todo \in Seq(Data)
    /\ Held(e, f) \o c.todo = Scratch(e[c.inst].data) \o Address(e[c.inst].data)

(* The walk stands between x, which it is done with, and y: f is what it   *)
(* has put before the first of y.                                          *)
AheadOf(c) == IF c.does \in {"free", "next"} THEN c.next ELSE c.inst

Split(h, e, c, L, x, f, y) ==
    /\ InOrder(h, L)
    /\ c.block \in 1 .. Blocks
    /\ x \in Seq(Inst) /\ f \in Seq(Inst) /\ y \in Seq(Inst)
    /\ L[c.block] = (x \o f) \o y
    /\ c.put = Len(f)
    /\ AheadOf(c) = First(y)
    /\ c.does # "insert" => f = <<>>
    /\ c.does = "insert" => Putting(e, c, f, y)

(* Such a state shows the code without f, and the end of x as its place. *)
ShownAs(e, c, L, x, y) ==
    [b \in 1 .. Blocks |-> Held(e, IF b = c.block THEN x \o y ELSE L[b])]

Shown == [b \in 1 .. Blocks |-> Code(b)]

LEMMA Shows ==
    \A L, x, f, y : Split(ctx, entries, curr, L, x, f, y) =>
        /\ Shown = ShownAs(entries, curr, L, x, y)
        /\ Behind = Len(x)
<1> SUFFICES ASSUME NEW L, NEW x, NEW f, NEW y, Split(ctx, entries, curr, L, x, f, y)
             PROVE  /\ Shown = ShownAs(entries, curr, L, x, y)
                    /\ Behind = Len(x)
    OBVIOUS
<1> DEFINE c == curr.block
<1>1. /\ InOrder(ctx, L) /\ c \in 1 .. Blocks /\ c = curr.block
      /\ x \in Seq(Inst) /\ f \in Seq(Inst) /\ y \in Seq(Inst)
      /\ L[c] = (x \o f) \o y
      /\ curr.put = Len(f) /\ Ahead = First(y)
    BY DEF Split, Ahead, AheadOf
<1> HIDE DEF c
<1>2. ASSUME NEW b \in 1 .. Blocks PROVE Nodes(b) = L[b] /\ L[b] \in Seq(Inst)
    <2>1. L[b] \in Seq(Inst) /\ <<>> \in Seq(Inst)
        BY <1>1, InOrderFacts
    <2>2. ctx.head[b] = First(L[b])
        BY <1>1, InOrderFacts DEF First
    <2>3. L[b] = <<>> \o L[b]
        BY <2>1, ConcatEmptySeq
    <2>4. Parted(ctx, L, b, <<>>, L[b])
        BY <1>1, <2>1, <2>3 DEF Parted
    <2>5. List!Walk(ctx.next, First(L[b]), MaxEntries) = L[b]
        BY <2>4, WalkRest
    <2> QED BY <2>1, <2>2, <2>5 DEF Nodes
<1>3. /\ Len(x) \in Nat /\ Len(f) \in Nat /\ Len(y) \in Nat
      /\ x \o f \in Seq(Inst) /\ Len(x \o f) = Len(x) + Len(f)
      /\ Len((x \o f) \o y) = Len(x \o f) + Len(y)
      /\ f \o y \in Seq(Inst)
    BY <1>1, LenProperties, ConcatProperties
<1>4. Rest = y
    <2>1. Parted(ctx, L, c, x \o f, y)
        BY <1>1, <1>3 DEF Parted
    <2>2. List!Walk(ctx.next, First(y), MaxEntries) = y
        BY <2>1, WalkRest
    <2> QED BY <1>1, <2>2 DEF Rest
<1>5. Behind = Len(x)
    <2>1. Behind = Len((x \o f) \o y) - Len(y) - Len(f)
        BY <1>1, <1>2, <1>4 DEF Behind
    <2> QED BY <1>3, <2>1
<1>6. SubSeq(Nodes(c), 1, Behind) \o Rest = x \o y
    <2>0. (x \o f) \o y = x \o (f \o y)
        <3>1. x \in Seq(Inst) /\ f \in Seq(Inst) /\ y \in Seq(Inst)
            BY <1>1
        <3> QED BY <3>1, ConcatAssociative
    <2>1. Nodes(c) = x \o (f \o y)
        BY <1>1, <1>2, <2>0
    <2>2. SubSeq(x \o (f \o y), 1, Len(x)) = x
        BY <1>1, <1>3, Halves
    <2> QED BY <1>4, <1>5, <2>1, <2>2
<1>7. ASSUME NEW b \in 1 .. Blocks
      PROVE  Code(b) = Held(entries, IF b = c THEN x \o y ELSE L[b])
    <2>1. Visible(b) = IF b = c THEN x \o y ELSE L[b]
        BY <1>1, <1>2, <1>6 DEF Visible
    <2> QED BY <2>1 DEF Code, Held, Kind
<1> QED BY <1>5, <1>7 DEF Shown, ShownAs, c

LEMMA ShowsThen ==
    (\A L, x, f, y : Split(ctx, entries, curr, L, x, f, y) =>
        /\ Shown = ShownAs(entries, curr, L, x, y)
        /\ Behind = Len(x))'
BY Shows, PTL

-----------------------------------------------------------------------------
(***************************************************************************)
(* The steps of AdjustSeq.                                                 *)
(***************************************************************************)

LEMMA StuttersIf ==
    ASSUME NEW L, NEW x, NEW f, NEW y, Split(ctx, entries, curr, L, x, f, y),
           NEW M, NEW u, NEW g, NEW w, Split(ctx', entries', curr', M, u, g, w),
           phase' = phase, curr'.block = curr.block, Len(u) = Len(x),
           ShownAs(entries', curr', M, u, w) = ShownAs(entries, curr, L, x, y)
    PROVE  UNCHANGED Seqs!vars
<1>1. Shown = ShownAs(entries, curr, L, x, y) /\ Behind = Len(x)
    BY Shows
<1>2. Shown' = ShownAs(entries', curr', M, u, w) /\ Behind' = Len(u)
    BY ShowsThen
<1>3. Shown' = Shown /\ Behind' = Behind
    BY <1>1, <1>2
<1> QED BY <1>3 DEF Seqs!vars, Shown

(* The instruction n ahead is replaced by what it stands for. *)
Replaced(L, x, y, n, z, M, u, w, new) ==
    /\ n \in Inst /\ z \in Seq(Inst) /\ y = <<n>> \o z
    /\ new = Seqs!Expansion(entries[n].data)
    /\ Len(u) = Len(x) + Len(new)
    /\ Held(entries', u \o w) = (Held(entries, x) \o new) \o Held(entries, z)
    /\ \A b \in 1 .. Blocks : b # curr.block => Held(entries', M[b]) = Held(entries, L[b])

LEMMA Replaces ==
    ASSUME NEW L, NEW x, NEW f, NEW y, Split(ctx, entries, curr, L, x, f, y),
           NEW M, NEW u, NEW g, NEW w, Split(ctx', entries', curr', M, u, g, w),
           phase = "adjust", phase' = phase, curr'.block = curr.block,
           NEW n, NEW z, NEW new, Replaced(L, x, y, n, z, M, u, w, new)
    PROVE  Seqs!AdjustInst
<1>0. /\ n \in Inst /\ z \in Seq(Inst) /\ y = <<n>> \o z
      /\ new = Seqs!Expansion(entries[n].data)
      /\ Len(u) = Len(x) + Len(new)
      /\ Held(entries', u \o w) = (Held(entries, x) \o new) \o Held(entries, z)
      /\ \A b \in 1 .. Blocks : b # curr.block => Held(entries', M[b]) = Held(entries, L[b])
    BY DEF Replaced
<1> DEFINE c == curr.block
           X == Held(entries, x)
           d == entries[n].data
           Z == Held(entries, z)
           i == Len(x) + 1
           s == Shown[c]
<1>1. Shown = ShownAs(entries, curr, L, x, y) /\ Behind = Len(x)
    BY Shows
<1>2. Shown' = ShownAs(entries', curr', M, u, w) /\ Behind' = Len(u)
    BY ShowsThen
<1>3. x \in Seq(Inst) /\ c \in 1 .. Blocks /\ <<n>> \in Seq(Inst) /\ d \in Holds(entries)
    BY <1>0 DEF Split, Holds
<1>4. s = (X \o <<d>>) \o Z /\ X \in Seq(Holds(entries)) /\ Z \in Seq(Holds(entries))
      /\ Len(X) = Len(x)
    <2>1. s = Held(entries, x \o (<<n>> \o z))
        BY <1>0, <1>1, <1>3 DEF ShownAs
    <2>2. x \o (<<n>> \o z) = (x \o <<n>>) \o z /\ x \o <<n>> \in Seq(Inst)
        <3>1. x \in Seq(Inst) /\ <<n>> \in Seq(Inst) /\ z \in Seq(Inst)
            BY <1>0, <1>3
        <3> QED BY <3>1, ConcatAssociative, ConcatProperties
    <2>3. Held(entries, (x \o <<n>>) \o z) = Held(entries, x \o <<n>>) \o Z
        BY <1>0, <2>2, HeldConcat
    <2>4. Held(entries, x \o <<n>>) = X \o Held(entries, <<n>>)
        BY <1>3, HeldConcat
    <2>5. Held(entries, <<n>>) = <<d>>
        BY <1>0, HeldOne
    <2>6. /\ X \in Seq(Holds(entries)) /\ Len(X) = Len(x)
          /\ Z \in Seq(Holds(entries))
        BY <1>0, <1>3, HeldSeq
    <2> QED BY <2>1, <2>2, <2>3, <2>4, <2>5, <2>6
<1> HIDE DEF X, d, Z, s
<1>5. /\ Len(s) \in Nat /\ Len(x) \in Nat /\ i \in Nat /\ i <= Len(s) /\ s[i] = d
      /\ SubSeq(s, 1, i - 1) = X
      /\ SubSeq(s, i + 1, Len(s)) = Z
    <2>1. Between(Holds(entries), X, d, Z, s, i)
        BY <1>3, <1>4 DEF Between, d
    <2>2. Len(x) \in Nat
        BY <1>3, LenProperties
    <2> HIDE DEF i
    <2>3. TakenApart(Holds(entries), X, d, Z, s, i)
        BY <2>1, ApartAround
    <2> QED BY <2>2, <2>3 DEF TakenApart
<1> HIDE DEF i
<1>6. Shown' = [Shown EXCEPT ![c] = (X \o new) \o Z]
    <2>1. \A b \in 1 .. Blocks :
             Shown'[b] = IF b = c THEN (X \o new) \o Z ELSE Shown[b]
        BY <1>0, <1>1, <1>2 DEF ShownAs, X, Z
    <2>2. Shown = [b \in 1 .. Blocks |-> Shown[b]] /\ Shown' = [b \in 1 .. Blocks |-> Shown'[b]]
        BY DEF Shown
    <2> QED BY <2>1, <2>2
<1>7. Behind + 1 = i /\ Behind' + 1 = i + Len(new) /\ i <= Len(s) /\ i \in Nat
    <2>1. Len(new) \in Nat
        BY <1>0 DEF Seqs!Expansion
    <2> QED BY <1>0, <1>1, <1>2, <1>5, <2>1 DEF i
<1>8. new = Seqs!Expansion(s[i])
    BY <1>0, <1>5 DEF d
<1>9. s = Shown[c] /\ c = curr.block /\ c = curr'.block
    BY DEF s
<1> HIDE DEF c
<1>10. /\ i <= Len(Shown[c])
       /\ Shown' = [Shown EXCEPT ![c] = (SubSeq(Shown[c], 1, i - 1) \o Seqs!Expansion(Shown[c][i]))
                                           \o SubSeq(Shown[c], i + 1, Len(Shown[c]))]
       /\ <<curr'.block, Behind' + 1>> = <<c, i + Len(Seqs!Expansion(Shown[c][i]))>>
       /\ <<curr.block, Behind + 1>> = <<c, i>>
    BY <1>5, <1>6, <1>7, <1>8, <1>9
<1> QED BY <1>10 DEF Seqs!AdjustInst, Seqs!Edit, Shown

-----------------------------------------------------------------------------
(***************************************************************************)
(* Where an instruction stands.                                            *)
(***************************************************************************)

LEMMA HeldNothing ==
    ASSUME NEW e
    PROVE  Held(e, <<>>) = <<>>
<1>1. <<>> \in Seq(Inst) /\ Len(<<>>) = 0
    OBVIOUS
<1>2. Held(e, <<>>) \in Seq(Holds(e)) /\ Len(Held(e, <<>>)) = 0
    BY <1>1, HeldSeq
<1> QED BY <1>2, EmptySeq

LEMMA HeldAround ==
    ASSUME NEW e, NEW x \in Seq(Inst), NEW n \in Inst, NEW z \in Seq(Inst)
    PROVE  Held(e, (x \o <<n>>) \o z) = (Held(e, x) \o <<e[n].data>>) \o Held(e, z)
<1>1. <<n>> \in Seq(Inst) /\ x \o <<n>> \in Seq(Inst)
    BY ConcatProperties
<1>2. Held(e, (x \o <<n>>) \o z) = Held(e, x \o <<n>>) \o Held(e, z)
    BY <1>1, HeldConcat
<1>3. Held(e, x \o <<n>>) = Held(e, x) \o Held(e, <<n>>)
    BY <1>1, HeldConcat
<1> QED BY <1>2, <1>3, HeldOne

Stands(h, L, c, x, n, z) ==
    /\ InOrder(h, L) /\ c \in 1 .. Blocks
    /\ x \in Seq(Inst) /\ n \in Inst /\ z \in Seq(Inst)
    /\ L[c] = (x \o <<n>>) \o z

(* The place of an instruction that is linked. *)
LEMMA PlaceOf ==
    ASSUME NEW h, NEW L, InOrder(h, L), NEW n, n \in Inst,
           h.container[n] \in 1 .. Blocks
    PROVE  \E x, z : Stands(h, L, h.container[n], x, n, z)
<1> DEFINE c == h.container[n]
<1>1. c \in 1 .. Blocks /\ h.container[n] = c /\ c # None
    BY NoneIsNoNode
<1> HIDE DEF c
<1>2. L[c] \in Seq(Inst)
    <2>1. \A b \in 1 .. Blocks : L[b] \in Seq(Inst)
        BY InOrderFacts
    <2> QED BY <1>1, <2>1, Zenon
<1>3. PICK p \in 1 .. Len(L[c]) : L[c][p] = n
    <2>1. \A m \in Inst : h.container[m] # None =>
             \E i \in 1 .. Len(L[h.container[m]]) : L[h.container[m]][i] = m
        BY InOrderFacts
    <2> QED BY <1>1, <2>1, Zenon
<1>4. PICK x, z \in Seq(Inst) : L[c] = (x \o <<L[c][p]>>) \o z /\ Len(x) = p - 1
    BY <1>2, NoneIsNoNode, Lists!Surrounded DEF Lists!Surrounded
<1>5. Stands(h, L, c, x, n, z)
    BY <1>1, <1>3, <1>4 DEF Stands
<1> QED BY <1>5 DEF c

LEMMA StandsBetween ==
    ASSUME NEW h, NEW L, NEW c, NEW x, NEW n, NEW z, Stands(h, L, c, x, n, z)
    PROVE  /\ h.next[n] = First(z) /\ h.container[n] = c
           /\ n \notin Range(x) /\ n \notin Range(z)
<1> DEFINE s == L[c]
           i == Len(x) + 1
<1>1. /\ InOrder(h, L) /\ c \in 1 .. Blocks
      /\ x \in Seq(Inst) /\ n \in Inst /\ z \in Seq(Inst)
      /\ s = (x \o <<n>>) \o z
    BY DEF Stands
<1>2. /\ Len(s) = Len(x) + 1 + Len(z)
      /\ \A j \in 1 .. (Len(x) + 1 + Len(z)) : s[j] =
            IF j <= Len(x) THEN x[j] ELSE IF j = Len(x) + 1 THEN n ELSE z[j - Len(x) - 1]
    BY <1>1, NoneIsNoNode, Lists!ThreeParts DEF Lists!ThreeParts
<1>3. /\ \A j \in 1 .. Len(s) :
            /\ h.container[s[j]] = c
            /\ h.next[s[j]] = IF j = Len(s) THEN None ELSE s[j + 1]
      /\ \A j, k \in 1 .. Len(s) : s[j] = s[k] => j = k
    <2>1. \A b \in 1 .. Blocks :
             /\ \A j \in 1 .. Len(L[b]) :
                   /\ h.container[L[b][j]] = b
                   /\ h.next[L[b][j]] = IF j = Len(L[b]) THEN None ELSE L[b][j + 1]
             /\ \A j, k \in 1 .. Len(L[b]) : L[b][j] = L[b][k] => j = k
        BY <1>1, InOrderFacts
    <2> QED BY <1>1, <2>1, Zenon
<1> HIDE DEF s
<1>4. Len(x) \in Nat /\ Len(z) \in Nat
    BY <1>1, LenProperties
<1>5. i \in 1 .. Len(s) /\ s[i] = n /\ (i = Len(s) <=> Len(z) = 0)
    BY <1>2, <1>4
<1>6. Len(z) # 0 => s[i + 1] = z[1]
    <2>1. Len(z) # 0 => /\ i + 1 \in 1 .. (Len(x) + 1 + Len(z))
                        /\ ~ (i + 1 <= Len(x)) /\ i + 1 # Len(x) + 1
                        /\ (i + 1) - Len(x) - 1 = 1
        BY <1>4
    <2> HIDE DEF i
    <2> QED BY <1>2, <2>1
<1> HIDE DEF i
<1>7. h.next[n] = First(z) /\ h.container[n] = c
    BY <1>3, <1>5, <1>6 DEF First
<1>8. ASSUME NEW j \in 1 .. Len(x) PROVE x[j] # n
    <2>1. j \in 1 .. Len(s) /\ s[j] = x[j] /\ j # i
        BY <1>2, <1>4 DEF i
    <2> QED BY <1>3, <1>5, <2>1
<1>9. ASSUME NEW j \in 1 .. Len(z) PROVE z[j] # n
    <2> DEFINE k == Len(x) + 1 + j
    <2>1. k \in 1 .. (Len(x) + 1 + Len(z)) /\ ~ (k <= Len(x)) /\ k # Len(x) + 1
          /\ k - Len(x) - 1 = j /\ k # i
        BY <1>4 DEF i
    <2> HIDE DEF k
    <2>2. s[k] = z[j] /\ k \in 1 .. Len(s)
        BY <1>2, <2>1
    <2> QED BY <1>3, <1>5, <2>1, <2>2
<1>10. n \notin Range(x) /\ n \notin Range(z)
    <2>1. Range(x) = {x[j] : j \in 1 .. Len(x)} /\ Range(z) = {z[j] : j \in 1 .. Len(z)}
        BY <1>1, RangeEquality
    <2> QED BY <1>8, <1>9, <2>1
<1> QED BY <1>7, <1>10

(* The instructions of a block are in that block. *)
LEMMA BlockRange ==
    ASSUME NEW h, NEW L, InOrder(h, L)
    PROVE  \A b \in 1 .. Blocks : \A m \in Range(L[b]) : m \in Inst /\ h.container[m] = b
<1> SUFFICES ASSUME NEW b \in 1 .. Blocks, NEW m \in Range(L[b])
             PROVE  m \in Inst /\ h.container[m] = b
    OBVIOUS
<1>1. L[b] \in Seq(Inst) /\ \A i \in 1 .. Len(L[b]) : h.container[L[b][i]] = b
    BY InOrderFacts
<1>2. PICK i \in 1 .. Len(L[b]) : m = L[b][i]
    BY <1>1, RangeEquality
<1>3. L[b][i] \in Inst
    BY <1>1, <1>2, ElementOfSeq
<1> QED BY <1>1, <1>2, <1>3

LEMMA SplitRange ==
    ASSUME NEW h, NEW e, NEW c, NEW L, NEW x, NEW f, NEW y, Split(h, e, c, L, x, f, y)
    PROVE  \A m \in Range(x) \cup Range(f) \cup Range(y) :
              m \in Inst /\ h.container[m] = c.block
<1> DEFINE b == c.block
<1>1. /\ InOrder(h, L) /\ b \in 1 .. Blocks
      /\ x \in Seq(Inst) /\ f \in Seq(Inst) /\ y \in Seq(Inst)
      /\ L[b] = (x \o f) \o y
    BY DEF Split
<1>2. x \o f \in Seq(Inst)
    BY <1>1, ConcatProperties
<1>3. Range(x \o f) = Range(x) \cup Range(f) /\ Range((x \o f) \o y) = Range(x \o f) \cup Range(y)
    <2>1. \A u, v \in Seq(Inst) : Range(u \o v) = Range(u) \cup Range(v)
        BY RangeConcatenation
    <2>2. x \in Seq(Inst) /\ f \in Seq(Inst) /\ y \in Seq(Inst)
        BY <1>1
    <2> QED BY <1>2, <2>1, <2>2, Zenon
<1>4. Range(L[b]) = Range(x) \cup Range(f) \cup Range(y)
    BY <1>1, <1>3
<1> HIDE DEF b
<1>5. \A m \in Range(L[b]) : m \in Inst /\ h.container[m] = b
    <2>1. \A d \in 1 .. Blocks : \A m \in Range(L[d]) : m \in Inst /\ h.container[m] = d
        BY <1>1, BlockRange
    <2> QED BY <1>1, <2>1, Zenon
<1> QED BY <1>4, <1>5 DEF b

-----------------------------------------------------------------------------
(***************************************************************************)
(* What an instruction stands for.                                         *)
(***************************************************************************)

LEMMA OneMore ==
    ASSUME NEW S, IsFiniteSet(S), NEW k \in Nat, Cardinality(S) <= k, NEW x
    PROVE  IsFiniteSet(S \cup {x}) /\ Cardinality(S \cup {x}) <= k + 1
<1>1. /\ IsFiniteSet(S \cup {x})
      /\ Cardinality(S \cup {x}) = IF x \in S THEN Cardinality(S) ELSE Cardinality(S) + 1
    BY FS_AddElement
<1>2. Cardinality(S) \in Nat
    BY FS_CardinalityType
<1> QED BY <1>1, <1>2

LEMMA AtMostEight ==
    ASSUME NEW a, NEW b, NEW c, NEW d, NEW e, NEW f, NEW g, NEW h
    PROVE  Cardinality({a, b, c, d, e, f, g, h}) <= 8
<1> DEFINE S0 == {}
           S1 == S0 \cup {a}
           S2 == S1 \cup {b}
           S3 == S2 \cup {c}
           S4 == S3 \cup {d}
           S5 == S4 \cup {e}
           S6 == S5 \cup {f}
           S7 == S6 \cup {g}
           S8 == S7 \cup {h}
<1>1. S8 = {a, b, c, d, e, f, g, h}
    OBVIOUS
<1>2. IsFiniteSet(S0) /\ Cardinality(S0) <= 0
    BY FS_EmptySet
<1> HIDE DEF S0
<1>3. IsFiniteSet(S1) /\ Cardinality(S1) <= 1
    <2>1. IsFiniteSet(S0 \cup {a}) /\ Cardinality(S0 \cup {a}) <= 0 + 1
        BY <1>2, OneMore
    <2> QED BY <2>1
<1> HIDE DEF S1
<1>4. IsFiniteSet(S2) /\ Cardinality(S2) <= 2
    <2>1. IsFiniteSet(S1 \cup {b}) /\ Cardinality(S1 \cup {b}) <= 1 + 1
        BY <1>3, OneMore
    <2> QED BY <2>1
<1> HIDE DEF S2
<1>5. IsFiniteSet(S3) /\ Cardinality(S3) <= 3
    <2>1. IsFiniteSet(S2 \cup {c}) /\ Cardinality(S2 \cup {c}) <= 2 + 1
        BY <1>4, OneMore
    <2> QED BY <2>1
<1> HIDE DEF S3
<1>6. IsFiniteSet(S4) /\ Cardinality(S4) <= 4
    <2>1. IsFiniteSet(S3 \cup {d}) /\ Cardinality(S3 \cup {d}) <= 3 + 1
        BY <1>5, OneMore
    <2> QED BY <2>1
<1> HIDE DEF S4
<1>7. IsFiniteSet(S5) /\ Cardinality(S5) <= 5
    <2>1. IsFiniteSet(S4 \cup {e}) /\ Cardinality(S4 \cup {e}) <= 4 + 1
        BY <1>6, OneMore
    <2> QED BY <2>1
<1> HIDE DEF S5
<1>8. IsFiniteSet(S6) /\ Cardinality(S6) <= 6
    <2>1. IsFiniteSet(S5 \cup {f}) /\ Cardinality(S5 \cup {f}) <= 5 + 1
        BY <1>7, OneMore
    <2> QED BY <2>1
<1> HIDE DEF S6
<1>9. IsFiniteSet(S7) /\ Cardinality(S7) <= 7
    <2>1. IsFiniteSet(S6 \cup {g}) /\ Cardinality(S6 \cup {g}) <= 6 + 1
        BY <1>8, OneMore
    <2> QED BY <2>1
<1> HIDE DEF S7
<1>10. IsFiniteSet(S8) /\ Cardinality(S8) <= 8
    <2>1. IsFiniteSet(S7 \cup {h}) /\ Cardinality(S7 \cup {h}) <= 7 + 1
        BY <1>9, OneMore
    <2> QED BY <2>1
<1> HIDE DEF S8
<1> QED BY <1>1, <1>10

(* The kinds of instructions that are adjusted are four. *)
LEMMA FourKinds ==
    /\ Near # Far /\ Near # NearAddr /\ Near # FarAddr
    /\ Far # NearAddr /\ Far # FarAddr /\ NearAddr # FarAddr
<1>2. \A a, b, c : Cardinality({a, b, c, Other, Li, Add, Addi, Resolved}) <= 8
    BY AtMostEight
<1>3. Data = {Near, Far, NearAddr, FarAddr, Other, Li, Add, Addi, Resolved}
    BY DEF Data, Body
<1>4. \A a, b, c : Data # {a, b, c, Other, Li, Add, Addi, Resolved}
    <2> SUFFICES ASSUME NEW a, NEW b, NEW c, Data = {a, b, c, Other, Li, Add, Addi, Resolved}
                 PROVE  FALSE
        OBVIOUS
    <2>1. Cardinality(Data) <= 8
        BY <1>2
    <2> QED BY <2>1
<1>5. Near # Far
    <2>1. Near = Far => Data = {Near, NearAddr, FarAddr, Other, Li, Add, Addi, Resolved}
        BY <1>3
    <2> QED BY <1>4, <2>1
<1>6. Near # NearAddr
    <2>1. Near = NearAddr => Data = {Near, Far, FarAddr, Other, Li, Add, Addi, Resolved}
        BY <1>3
    <2> QED BY <1>4, <2>1
<1>7. Near # FarAddr
    <2>1. Near = FarAddr => Data = {Near, Far, NearAddr, Other, Li, Add, Addi, Resolved}
        BY <1>3
    <2> QED BY <1>4, <2>1
<1>8. Far # NearAddr
    <2>1. Far = NearAddr => Data = {Near, Far, FarAddr, Other, Li, Add, Addi, Resolved}
        BY <1>3
    <2> QED BY <1>4, <2>1
<1>9. Far # FarAddr
    <2>1. Far = FarAddr => Data = {Near, Far, NearAddr, Other, Li, Add, Addi, Resolved}
        BY <1>3
    <2> QED BY <1>4, <2>1
<1>10. NearAddr # FarAddr
    <2>1. NearAddr = FarAddr => Data = {Near, Far, NearAddr, Other, Li, Add, Addi, Resolved}
        BY <1>3
    <2> QED BY <1>4, <2>1
<1> QED BY <1>5, <1>6, <1>7, <1>8, <1>9, <1>10

LEMMA ShortTuples ==
    ASSUME NEW p, NEW q, NEW r
    PROVE  /\ <<p, q>> \o <<r>> = <<p, q, r>>
           /\ <<>> \o <<r>> = <<r>>
<1> DEFINE S == {p, q, r}
           s == <<p, q>>
           t == <<r>>
           u == <<p, q, r>>
<1>1. /\ s \in Seq(S) /\ Len(s) = 2 /\ s[1] = p /\ s[2] = q
      /\ t \in Seq(S) /\ Len(t) = 1 /\ t[1] = r
      /\ u \in Seq(S) /\ Len(u) = 3 /\ u[1] = p /\ u[2] = q /\ u[3] = r
    OBVIOUS
<1> HIDE DEF s, t, u, S
<1>0. s \in Seq(S) /\ t \in Seq(S)
    BY <1>1
<1>2. /\ s \o t \in Seq(S) /\ Len(s \o t) = Len(s) + Len(t)
      /\ \A i \in 1 .. Len(s) + Len(t) :
            (s \o t)[i] = IF i <= Len(s) THEN s[i] ELSE t[i - Len(s)]
    BY <1>0, ConcatProperties
<1>3. \A i \in 1 .. Len(u) : u[i] = (s \o t)[i]
    BY <1>1, <1>2
<1>4. u = s \o t
    BY <1>1, <1>2, <1>3, SeqEqual
<1>5. <<>> \o t = t
    BY <1>1, ConcatEmptySeq
<1> QED BY <1>4, <1>5 DEF s, t, u

LEMMA Expands ==
    ASSUME NEW d
    PROVE  /\ d \in {Near, Far} =>
                 /\ Address(d) = <<>>
                 /\ Seqs!Expansion(d) = Scratch(d) \o <<Resolved>>
           /\ d \in Addresses => Seqs!Expansion(d) = Scratch(d) \o Address(d)
           /\ d \notin Adjusted => Seqs!Expansion(d) = <<d>>
           /\ Scratch(d) \in Seq(Data) /\ Address(d) \in Seq(Data)
           /\ Scratch(d) \o Address(d) \in Seq(Data)
<1>1. Seqs!Expansion(Near) = <<Resolved>> /\ Seqs!Expansion(NearAddr) = <<Addi>>
    BY FourKinds DEF Seqs!Expansion
<1>2. Seqs!Expansion(Far) = <<Li, Add, Resolved>> /\ Seqs!Expansion(FarAddr) = <<Li, Add, Addi>>
    BY FourKinds DEF Seqs!Expansion
<1>3. /\ <<Li, Add>> \o <<Resolved>> = <<Li, Add, Resolved>>
      /\ <<Li, Add>> \o <<Addi>> = <<Li, Add, Addi>>
      /\ <<>> \o <<Resolved>> = <<Resolved>> /\ <<>> \o <<Addi>> = <<Addi>>
    BY ShortTuples
<1>4. d \in {Near, Far} => Address(d) = <<>> /\ Seqs!Expansion(d) = Scratch(d) \o <<Resolved>>
    BY <1>1, <1>2, <1>3, FourKinds DEF Address, Scratch, Addresses
<1>5. d \in Addresses => Seqs!Expansion(d) = Scratch(d) \o Address(d)
    BY <1>1, <1>2, <1>3, FourKinds DEF Address, Scratch, Addresses
<1>6. d \notin Adjusted => Seqs!Expansion(d) = <<d>>
    BY DEF Adjusted, Addresses, Seqs!Expansion
<1>7. Scratch(d) \in Seq(Data) /\ Address(d) \in Seq(Data)
    <2>1. <<Li, Add>> \in Seq(Data) /\ <<Addi>> \in Seq(Data) /\ <<>> \in Seq(Data)
        <3>1. Li \in Data /\ Add \in Data /\ Addi \in Data
            BY DEF Data
        <3> QED BY <3>1
    <2> QED BY <2>1 DEF Scratch, Address
<1>8. Scratch(d) \o Address(d) \in Seq(Data)
    BY <1>7, ConcatProperties
<1> QED BY <1>4, <1>5, <1>6, <1>7, <1>8

-----------------------------------------------------------------------------
(***************************************************************************)
(* What the steps leave in the entries.                                    *)
(***************************************************************************)

LEMMA AllocKeeps ==
    ASSUME ArenaOK, NEW d, Alloc(d)
    PROVE  /\ entries'[ret'].data = d
           /\ \A m \in Live : entries'[m] = entries[m]
<1>1. CASE Insts!AllocVacant(d)
    <2>1. /\ free_head \in 0 .. (len - 1) /\ entries[free_head].kind = "Vacant"
          /\ entries' = [entries EXCEPT ![free_head] = [kind |-> "Occupied", data |-> d]]
          /\ ret' = free_head
        BY <1>1 DEF Insts!AllocVacant, Insts!Occupied, ArenaOK
    <2>2. \A i \in 0 .. (len - 1) :
                entries'[i] = IF i = free_head THEN [kind |-> "Occupied", data |-> d]
                                               ELSE entries[i]
        BY <2>1 DEF ArenaOK
    <2> QED BY <2>1, <2>2, LiveEntries
<1>2. CASE Insts!AllocPush(d)
    <2>1. /\ entries' = [i \in 0 .. len |->
                            IF i = len THEN [kind |-> "Occupied", data |-> d] ELSE entries[i]]
          /\ ret' = len /\ len \in Nat
        BY <1>2 DEF Insts!AllocPush, Insts!Occupied, ArenaOK
    <2>2. \A m \in Live : m \in 0 .. len /\ m # len
        BY <2>1, LiveEntries
    <2>3. len \in 0 .. len
        BY <2>1
    <2> QED BY <2>1, <2>2, <2>3
<1> QED BY <1>1, <1>2 DEF Alloc

LEMMA DeallocKeeps ==
    ASSUME ArenaOK, NEW n \in Live, Insts!DeallocEntry(n)
    PROVE  \A m \in Live : m # n => entries'[m] = entries[m]
<1>1. entries' = [entries EXCEPT ![n] = [kind |-> "Vacant", next |-> free_head]]
    BY DEF Insts!DeallocEntry, Insts!Vacant
<1> QED BY <1>1, LiveEntries DEF ArenaOK

LEMMA DerefMutWrites ==
    ASSUME ArenaOK, NEW n \in Live, NEW d, Insts!DerefMut(n, d)
    PROVE  /\ entries'[n].data = d
           /\ \A m \in Live : m # n => entries'[m] = entries[m]
<1>1. entries' = [entries EXCEPT ![n] = [kind |-> "Occupied", data |-> d]]
    BY DEF Insts!DerefMut, Insts!Occupied, Live
<1> QED BY <1>1, LiveEntries DEF ArenaOK

(* Whatever changes outside the lists is not seen in them. *)
LEMMA SplitHeld ==
    ASSUME NEW h, NEW e, NEW c, NEW L, NEW x, NEW f, NEW y, Split(h, e, c, L, x, f, y),
           NEW g, \A m \in Inst : h.container[m] # None => e[m].data = g[m].data
    PROVE  /\ Held(g, x) = Held(e, x) /\ Held(g, f) = Held(e, f) /\ Held(g, y) = Held(e, y)
           /\ \A b \in 1 .. Blocks : Held(g, L[b]) = Held(e, L[b])
<1>1. /\ InOrder(h, L) /\ c.block \in 1 .. Blocks
      /\ x \in Seq(Inst) /\ f \in Seq(Inst) /\ y \in Seq(Inst)
    BY DEF Split
<1>2. \A m \in Range(x) \cup Range(f) \cup Range(y) : e[m].data = g[m].data
    BY <1>1, SplitRange, NoneIsNoNode
<1>3. \A b \in 1 .. Blocks : L[b] \in Seq(Inst) /\ \A m \in Range(L[b]) : e[m].data = g[m].data
    <2>1. \A b \in 1 .. Blocks : \A m \in Range(L[b]) : m \in Inst /\ h.container[m] = b
        BY <1>1, BlockRange
    <2>2. \A b \in 1 .. Blocks : b # None
        BY NoneIsNoNode
    <2>3. \A b \in 1 .. Blocks : L[b] \in Seq(Inst)
        BY <1>1, InOrderFacts
    <2> QED BY <2>1, <2>2, <2>3, Zenon
<1>4. Held(e, x) = Held(g, x) /\ Held(e, f) = Held(g, f) /\ Held(e, y) = Held(g, y)
    BY <1>1, <1>2, HeldSame
<1>5. ASSUME NEW b \in 1 .. Blocks PROVE Held(e, L[b]) = Held(g, L[b])
    BY <1>3, HeldSame
<1> QED BY <1>4, <1>5

-----------------------------------------------------------------------------
(***************************************************************************)
(* Every step of the walk is a step of AdjustSeq, or changes nothing that  *)
(* it shows.                                                               *)
(***************************************************************************)

(* The instruction ahead, if there is one, is the first of y. *)
Starts(h, L, b, u, y, n, z) ==
    /\ n \in Inst /\ z \in Seq(Inst) /\ u \in Seq(Inst)
    /\ y = <<n>> \o z /\ Tail(y) = z
    /\ Stands(h, L, b, u, n, z)

LEMMA SplitStands ==
    ASSUME NEW h, NEW e, NEW c, NEW L, NEW x, NEW f, NEW y, Split(h, e, c, L, x, f, y),
           AheadOf(c) # None
    PROVE  \E z : Starts(h, L, c.block, x \o f, y, AheadOf(c), z)
<1> DEFINE n == AheadOf(c)
<1> HIDE DEF n
<1>1. /\ InOrder(h, L) /\ c.block \in 1 .. Blocks
      /\ x \in Seq(Inst) /\ f \in Seq(Inst) /\ y \in Seq(Inst)
      /\ L[c.block] = (x \o f) \o y /\ n = First(y)
    BY DEF Split, n
<1>2. y # <<>> /\ n = y[1]
    BY <1>1 DEF First, n
<1>3. n \in Inst /\ Tail(y) \in Seq(Inst) /\ y = <<n>> \o Tail(y)
    BY <1>1, <1>2, HeadFirst
<1> DEFINE z == Tail(y)
           u == x \o f
<1>4. u \in Seq(Inst) /\ <<n>> \in Seq(Inst) /\ z \in Seq(Inst)
    BY <1>1, <1>3, ConcatProperties
<1> HIDE DEF z, u
<1>5. u \o (<<n>> \o z) = (u \o <<n>>) \o z
    BY <1>4, ConcatAssociative
<1>6. L[c.block] = (u \o <<n>>) \o z
    BY <1>1, <1>3, <1>5 DEF z, u
<1>7. Stands(h, L, c.block, u, n, z)
    BY <1>1, <1>3, <1>4, <1>6 DEF Stands
<1>8. Starts(h, L, c.block, u, y, n, z)
    BY <1>3, <1>4, <1>7 DEF Starts, z
<1> QED BY <1>8 DEF u, n

Follows ==
    /\ \E M, u, g, w : Split(ctx', entries', curr', M, u, g, w)
    /\ [Seqs!Next]_(Seqs!vars)

(* Nothing is put before an instruction that has nothing to adjust. *)
LEMMA NothingPut ==
    ASSUME NEW h, NEW e, NEW c, NEW L, NEW x, NEW f, NEW y, Split(h, e, c, L, x, f, y),
           c.does # "insert"
    PROVE  /\ f = <<>> /\ x \o f = x /\ c.put = 0
           /\ L[c.block] = x \o y
<1>1. f = <<>> /\ x \in Seq(Inst) /\ c.put = Len(f) /\ L[c.block] = (x \o f) \o y
    BY DEF Split
<1>2. x \o <<>> = x
    BY <1>1, ConcatEmptySeq
<1> QED BY <1>1, <1>2

LEMMA FetchTraced ==
    ASSUME IInv, NEW L, NEW x, NEW f, NEW y, Split(ctx, entries, curr, L, x, f, y), FetchInst
    PROVE  Follows
<1> DEFINE n == curr.inst
           d == entries[n].data
           does == IF d \in Adjusted THEN "insert" ELSE "next"
           todo == Scratch(d) \o Address(d)
<1>1. /\ Walking("fetch") /\ curr.does = "fetch" /\ n # None
      /\ n \in Live /\ IsLinked(n) /\ phase = "adjust"
    BY WalkingAt DEF FetchInst, Walking
<1>2. /\ curr' = [curr EXCEPT !.next = ctx.next[n], !.does = does, !.todo = todo]
      /\ ctx' = ctx /\ entries' = entries /\ phase' = phase
    BY <1>1 DEF FetchInst, arena, Kind, Adjusted
<1>3. curr' = [curr EXCEPT !.next = ctx.next[n], !.does = does, !.todo = todo,
                           !.put = curr.put]
    BY <1>2 DEF IInv, WalkOK
<1>4. d \in Adjusted => does = "insert"
    OBVIOUS
<1>5. d \notin Adjusted => does = "next"
    OBVIOUS
<1> HIDE DEF does, todo
<1>6. /\ curr'.block = curr.block /\ curr'.inst = n
      /\ curr'.next = ctx.next[n] /\ curr'.does = does
      /\ curr'.todo = todo /\ curr'.put = curr.put
    <2> HIDE DEF n, d
    <2>1. Became(ctx.next[n], does, todo, curr.put)
        BY <1>3, CurrBecomes
    <2> QED BY <2>1 DEF Became, n
<1>7. f = <<>> /\ x \o f = x /\ curr.put = 0
    BY <1>1, NothingPut
<1>8. PICK z \in Seq(Inst) : /\ y = <<n>> \o z /\ Tail(y) = z
                             /\ n \in Inst /\ x \in Seq(Inst)
                             /\ Stands(ctx, L, curr.block, x, n, z)
    <2>1. n = AheadOf(curr)
        BY <1>1 DEF AheadOf
    <2> HIDE DEF n
    <2>2. \E z : Starts(ctx, L, curr.block, x \o f, y, n, z)
        BY <1>1, <2>1, SplitStands
    <2> QED BY <1>7, <2>2 DEF Starts
<1>9. ctx.next[n] = First(z)
    BY <1>8, StandsBetween
<1> HIDE DEF n, d
<1>10. /\ InOrder(ctx, L) /\ curr.block \in 1 .. Blocks /\ y \in Seq(Inst)
       /\ First(y) = n /\ <<>> \in Seq(Inst) /\ Len(<<>>) = 0
    BY <1>1 DEF Split, AheadOf, n
<1>11. L[curr.block] = (x \o <<n>>) \o z /\ L[curr.block] = (x \o <<>>) \o y
    BY <1>7, <1>8 DEF Stands, Split
<1>12. CASE d \in Adjusted
    <2>1. Held(entries, <<>>) \o todo = todo
        <3>1. todo \in Seq(Data)
            BY Expands DEF todo
        <3> QED BY <3>1, HeldNothing, ConcatEmptySeq
    <2>0. todo \in Seq(Data)
        BY Expands DEF todo
    <2>2. Putting(entries, curr', <<>>, y)
        BY <2>0, <1>6, <1>8, <1>9, <1>12, <2>1 DEF Putting, todo, d
    <2>3. AheadOf(curr') = n
        BY <1>4, <1>6, <1>12 DEF AheadOf
    <2>4. Split(ctx', entries', curr', L, x, <<>>, y)
        BY <1>2, <1>6, <1>7, <1>8, <1>10, <1>11, <2>2, <2>3, <1>4, <1>12 DEF Split
    <2>5. ShownAs(entries', curr', L, x, y) = ShownAs(entries, curr, L, x, y)
        BY <1>2, <1>6 DEF ShownAs
    <2>6. UNCHANGED Seqs!vars
        BY <1>2, <1>6, <2>4, <2>5, StuttersIf
    <2> QED BY <2>4, <2>6 DEF Follows
<1>13. CASE d \notin Adjusted
    <2> DEFINE u == x \o <<n>>
    <2>1. u \in Seq(Inst) /\ Len(u) = Len(x) + 1 /\ u \o <<>> = u
        <3>1. x \in Seq(Inst) /\ <<n>> \in Seq(Inst) /\ Len(<<n>>) = 1
            BY <1>8
        <3>2. u \in Seq(Inst) /\ Len(u) = Len(x) + 1
            BY <3>1, ConcatProperties
        <3> HIDE DEF u
        <3> QED BY <3>2, ConcatEmptySeq
    <2>2. AheadOf(curr') = First(z) /\ curr'.does = "next"
        BY <1>5, <1>6, <1>9, <1>13 DEF AheadOf
    <2>3. L[curr.block] = (u \o <<>>) \o z
        BY <1>11, <2>1
    <2> HIDE DEF u
    <2>4. Split(ctx', entries', curr', L, u, <<>>, z)
        BY <1>2, <1>6, <1>7, <1>8, <1>10, <2>1, <2>2, <2>3 DEF Split
    <2>5. /\ <<d>> = Seqs!Expansion(d) /\ Len(<<d>>) = 1
        BY <1>13, Expands
    <2>6. Held(entries', u \o z) = (Held(entries, x) \o <<d>>) \o Held(entries, z)
        BY <1>2, <1>8, HeldAround DEF u, d
    <2>7. \A b \in 1 .. Blocks : b # curr.block => Held(entries', L[b]) = Held(entries, L[b])
        BY <1>2
    <2>8. Seqs!AdjustInst
        <3>1. Replaced(L, x, y, n, z, L, u, z, <<d>>)
            BY <1>8, <2>1, <2>5, <2>6, <2>7 DEF Replaced, d
        <3>2. phase = "adjust" /\ phase' = phase /\ curr'.block = curr.block
            BY <1>1, <1>2, <1>6
        <3> QED BY <2>4, <3>1, <3>2, Replaces
    <2> QED BY <2>4, <2>8 DEF Follows, Seqs!Next
<1> QED BY <1>12, <1>13

(* What is linked is live, but for the instruction that is being removed.  *)
LEMMA LinkedKeep ==
    ASSUME IInv, \A m \in Live : m # ret' => entries'[m] = entries[m],
           ret' \notin Live
    PROVE  \A m \in Inst : ctx.container[m] # None => entries[m].data = entries'[m].data
BY LinkedLive DEF IInv

LEMMA InsertTraced ==
    ASSUME IInv, NEW L, NEW x, NEW f, NEW y, Split(ctx, entries, curr, L, x, f, y), InsertInst
    PROVE  Follows
<1> DEFINE n == curr.inst
           c == curr.block
           r == ret'
           t == curr.todo
           M == [L EXCEPT ![c] = ((x \o f) \o <<r>>) \o y]
           g == f \o <<r>>
<1>1. /\ Walking("insert") /\ curr.does = "insert" /\ n # None
      /\ n \in Live /\ n \in Inst /\ IsLinked(n) /\ phase = "adjust" /\ phase' = phase
      /\ t # <<>> /\ AllocBefore(n, Head(t))
      /\ curr' = [curr EXCEPT !.todo = Tail(t), !.put = curr.put + 1]
    BY WalkingAt DEF InsertInst, Walking
<1>2. curr' = [curr EXCEPT !.next = curr.next, !.does = "insert", !.todo = Tail(t),
                           !.put = curr.put + 1]
    BY <1>1 DEF IInv, WalkOK
<1>3. /\ curr'.block = c /\ curr'.inst = n /\ curr'.next = curr.next
      /\ curr'.does = "insert" /\ curr'.todo = Tail(t) /\ curr'.put = curr.put + 1
    <2> HIDE DEF t
    <2>1. Became(curr.next, "insert", Tail(t), curr.put + 1)
        BY <1>2, CurrBecomes
    <2> QED BY <2>1 DEF Became
<1>4. Alloc(Head(t)) /\ ctx' = List!InsertBefore(Built(r), n, r)
    <2>1. Around(n) \subseteq Live /\ ctx.container[n] # None
        BY <1>1, LinkedLive DEF IInv, IsLinked
    <2> QED BY <1>1, <2>1 DEF AllocBefore
<1>5. r \in Inst /\ r \notin Live
    BY <1>4, AllocTakes DEF IInv
<1>6. ctx.container[r] = None
    BY <1>5, LinkedLive DEF IInv
<1>7. Built(r) = ctx
    BY <1>5, <1>6, BuiltIsSame DEF IInv
<1>8. /\ entries'[r].data = Head(t)
      /\ \A m \in Live : entries'[m] = entries[m]
    BY <1>4, AllocKeeps DEF IInv
<1>9. \A m \in Inst : ctx.container[m] # None => entries[m].data = entries'[m].data
    BY <1>5, <1>8, LinkedKeep
<1>10. /\ InOrder(ctx, L) /\ c \in 1 .. Blocks
       /\ x \in Seq(Inst) /\ f \in Seq(Inst) /\ y \in Seq(Inst)
       /\ L[c] = (x \o f) \o y /\ curr.put = Len(f)
       /\ n = First(y) /\ y # <<>> /\ y[1] = n
       /\ Putting(entries, curr, f, y)
    <2>1. /\ n = First(y) /\ Putting(entries, curr, f, y)
        BY <1>1 DEF Split, AheadOf
    <2>2. y # <<>> /\ y[1] = n
        BY <1>1, <2>1 DEF First
    <2> QED BY <2>1, <2>2 DEF Split
<1>11. /\ Held(entries', x) = Held(entries, x) /\ Held(entries', f) = Held(entries, f)
       /\ Held(entries', y) = Held(entries, y)
       /\ \A b \in 1 .. Blocks : Held(entries', L[b]) = Held(entries, L[b])
    BY <1>9, SplitHeld
<1>12. x \o f \in Seq(Inst)
    BY <1>10, ConcatProperties
<1> HIDE DEF n, c, r, t
<1>13. InOrder(ctx', M)
    <2> DEFINE u == x \o f
    <2> HIDE DEF u
    <2>1. InOrder(List!InsertBefore(ctx, y[1], r), [L EXCEPT ![c] = (u \o <<r>>) \o y])
        <3>1. u \in Seq(Inst) /\ L[c] = u \o y
            BY <1>10, <1>12 DEF u
        <3>2. Sound(ctx)
            BY DEF IInv
        <3> QED BY <1>5, <1>6, <1>10, <3>1, <3>2, EditsInOrder
    <2> QED BY <1>4, <1>7, <1>10, <2>1 DEF u
<1>14. /\ g \in Seq(Inst) /\ Len(g) = Len(f) + 1 /\ (x \o f) \o <<r>> = x \o g
    <2>1. x \in Seq(Inst) /\ f \in Seq(Inst) /\ <<r>> \in Seq(Inst) /\ Len(<<r>>) = 1
        BY <1>5, <1>10
    <2>2. g \in Seq(Inst) /\ Len(g) = Len(f) + 1
        BY <2>1, ConcatProperties
    <2>3. (x \o f) \o <<r>> = x \o g
        BY <2>1, ConcatAssociative
    <2> QED BY <2>2, <2>3
<1>15. /\ M[c] = (x \o g) \o y
       /\ \A b \in 1 .. Blocks : b # c => M[b] = L[b]
    <2>1. L \in [1 .. Blocks -> Seq(Inst)]
        BY <1>10, InOrderFacts
    <2>2. M[c] = ((x \o f) \o <<r>>) \o y
        BY <1>10, <2>1
    <2>3. \A b \in 1 .. Blocks : b # c => M[b] = L[b]
        BY <1>10, <2>1
    <2> QED BY <1>14, <2>2, <2>3
<1> HIDE DEF M
<1>16. Held(entries', g) = Held(entries, f) \o <<Head(t)>>
    <2>1. <<r>> \in Seq(Inst)
        BY <1>5
    <2>2. Held(entries', g) = Held(entries', f) \o Held(entries', <<r>>)
        BY <1>10, <2>1, HeldConcat
    <2>3. Held(entries', <<r>>) = <<entries'[r].data>>
        BY <1>5, HeldOne
    <2> QED BY <1>8, <1>11, <2>2, <2>3
<1> HIDE DEF g
<1>17. Tail(t) \in Seq(Data) /\ Held(entries', g) \o Tail(t) = Held(entries, f) \o t
    <2> DEFINE F == Held(entries, f)
               S == Holds(entries) \cup Data
               h == <<Head(t)>>
               v == Tail(t)
    <2>1. t \in Seq(Data)
        BY <1>10 DEF Putting, t
    <2>2. /\ Tail(t) \in Seq(Data) /\ Head(t) \in Data /\ t = <<Head(t)>> \o Tail(t)
        BY <1>1, <2>1, HeadFirst
    <2>3. F \in Seq(Holds(entries))
        BY <1>10, HeldSeq
    <2>4. F \in Seq(S) /\ v \in Seq(S)
        <3>1. Holds(entries) \subseteq S /\ Data \subseteq S
            OBVIOUS
        <3> HIDE DEF F, S
        <3> QED BY <2>2, <2>3, <3>1, SeqMonotonic
    <2>5. h \in Seq(S)
        BY <2>2
    <2> HIDE DEF F, S, h, v
    <2>6. (F \o h) \o v = F \o (h \o v)
        BY <2>4, <2>5, ConcatAssociative
    <2> QED BY <1>16, <2>2, <2>6 DEF F, h, v
<1>18. entries'[n] = entries[n]
    BY <1>1, <1>8 DEF n
<1>19. Putting(entries', curr', g, y)
    BY <1>3, <1>10, <1>17, <1>18 DEF Putting, n, t
<1>20. Split(ctx', entries', curr', M, x, g, y)
    BY <1>3, <1>10, <1>13, <1>14, <1>15, <1>19 DEF Split, AheadOf
<1>21. ShownAs(entries', curr', M, x, y) = ShownAs(entries, curr, L, x, y)
    <2>1. Held(entries', x \o y) = Held(entries, x \o y)
        <3>1. \A e : Held(e, x \o y) = Held(e, x) \o Held(e, y)
            BY <1>10, HeldConcat
        <3> QED BY <1>11, <3>1
    <2>2. \A b \in 1 .. Blocks : b # c => Held(entries', M[b]) = Held(entries, L[b])
        BY <1>11, <1>15
    <2>3. curr'.block = c /\ curr.block = c
        BY <1>3 DEF c
    <2> QED BY <2>1, <2>2, <2>3 DEF ShownAs
<1>22. UNCHANGED Seqs!vars
    <2>1. phase' = phase /\ curr'.block = curr.block
        BY <1>1, <1>3 DEF c
    <2> QED BY <1>20, <1>21, <2>1, StuttersIf
<1> QED BY <1>20, <1>22 DEF Follows

(* A change of one instruction is not seen in the others. *)
LEMMA AroundHeld ==
    ASSUME NEW h, NEW e, NEW c, NEW L, NEW x, NEW n, NEW z, Stands(h, L, c, x, n, z),
           NEW g, \A m \in Inst : h.container[m] # None /\ m # n => e[m].data = g[m].data
    PROVE  /\ Held(g, x) = Held(e, x) /\ Held(g, z) = Held(e, z)
           /\ \A b \in 1 .. Blocks : b # c => Held(g, L[b]) = Held(e, L[b])
<1>1. /\ InOrder(h, L) /\ c \in 1 .. Blocks
      /\ x \in Seq(Inst) /\ n \in Inst /\ z \in Seq(Inst)
      /\ L[c] = (x \o <<n>>) \o z
    BY DEF Stands
<1>2. h.container[n] = c /\ n \notin Range(x) /\ n \notin Range(z)
    BY StandsBetween
<1>3. Range(x) \subseteq Range(L[c]) /\ Range(z) \subseteq Range(L[c])
    <2>1. \A u, v \in Seq(Inst) : Range(u \o v) = Range(u) \cup Range(v)
        BY RangeConcatenation
    <2>2. x \in Seq(Inst) /\ <<n>> \in Seq(Inst) /\ z \in Seq(Inst)
        BY <1>1
    <2>3. x \o <<n>> \in Seq(Inst)
        BY <2>2, ConcatProperties
    <2>4. Range((x \o <<n>>) \o z) = (Range(x) \cup Range(<<n>>)) \cup Range(z)
        BY <2>1, <2>2, <2>3, Zenon
    <2> QED BY <1>1, <2>4
<1>4. \A b \in 1 .. Blocks : \A m \in Range(L[b]) : m \in Inst /\ h.container[m] = b
    BY <1>1, BlockRange
<1>5. \A b \in 1 .. Blocks : b # None
    BY NoneIsNoNode
<1>6. \A m \in Range(x) \cup Range(z) : e[m].data = g[m].data
    <2>1. \A m \in Range(L[c]) : m \in Inst /\ h.container[m] = c
        BY <1>1, <1>4, Zenon
    <2>2. c # None
        BY <1>1, <1>5, Zenon
    <2> QED BY <1>2, <1>3, <2>1, <2>2, Zenon
<1>7. ASSUME NEW b \in 1 .. Blocks, b # c
      PROVE  L[b] \in Seq(Inst) /\ \A m \in Range(L[b]) : e[m].data = g[m].data
    <2>1. \A m \in Range(L[b]) : m \in Inst /\ h.container[m] = b
        BY <1>4, Zenon
    <2>2. \A m \in Range(L[b]) : m # n
        BY <1>2, <1>7, <2>1, Zenon
    <2>3. b # None
        BY <1>5, Zenon
    <2>4. L[b] \in Seq(Inst)
        BY <1>1, InOrderFacts
    <2> QED BY <2>1, <2>2, <2>3, <2>4, Zenon
<1>8. Held(e, x) = Held(g, x) /\ Held(e, z) = Held(g, z)
    BY <1>1, <1>6, HeldSame
<1>9. ASSUME NEW b \in 1 .. Blocks, b # c PROVE Held(e, L[b]) = Held(g, L[b])
    BY <1>7, <1>9, HeldSame
<1> QED BY <1>8, <1>9

(* All that is to be put before the instruction has been put there. *)
LEMMA AllPut ==
    ASSUME NEW h, NEW e, NEW c, NEW L, NEW x, NEW f, NEW y, Split(h, e, c, L, x, f, y),
           c.does = "insert", c.todo = <<>>
    PROVE  /\ Held(e, f) = Scratch(e[c.inst].data) \o Address(e[c.inst].data)
           /\ c.next = First(Tail(y))
<1>1. /\ f \in Seq(Inst) /\ c.next = First(Tail(y))
      /\ Held(e, f) \o <<>> = Scratch(e[c.inst].data) \o Address(e[c.inst].data)
    BY DEF Split, Putting
<1>2. Held(e, f) \in Seq(Holds(e))
    BY <1>1, HeldSeq
<1>3. Held(e, f) \o <<>> = Held(e, f)
    BY <1>2, ConcatEmptySeq
<1> QED BY <1>1, <1>3

LEMMA SetLocTraced ==
    ASSUME IInv, NEW L, NEW x, NEW f, NEW y, Split(ctx, entries, curr, L, x, f, y), SetLoc
    PROVE  Follows
<1> DEFINE n == curr.inst
           c == curr.block
           d == entries[n].data
           u == (x \o f) \o <<n>>
           new == Scratch(d) \o <<Resolved>>
<1>1. /\ Walking("insert") /\ curr.does = "insert" /\ n # None /\ curr.todo = <<>>
      /\ n \in Live /\ n \in Inst /\ IsLinked(n) /\ phase = "adjust" /\ phase' = phase
      /\ d \in {Near, Far} /\ Insts!DerefMut(n, Resolved) /\ ctx' = ctx
      /\ curr' = [curr EXCEPT !.does = "next", !.put = 0]
    BY WalkingAt DEF SetLoc, Inserted, Walking, Kind
<1>2. curr' = [curr EXCEPT !.next = curr.next, !.does = "next", !.todo = curr.todo,
                           !.put = 0]
    BY <1>1 DEF IInv, WalkOK
<1>3. /\ curr'.block = c /\ curr'.inst = n /\ curr'.next = curr.next
      /\ curr'.does = "next" /\ curr'.put = 0
    <2>1. Became(curr.next, "next", curr.todo, 0)
        BY <1>2, CurrBecomes
    <2> QED BY <2>1 DEF Became
<1>4. /\ entries'[n].data = Resolved
      /\ \A m \in Live : m # n => entries'[m] = entries[m]
    BY <1>1, DerefMutWrites DEF IInv
<1>5. \A m \in Inst : ctx.container[m] # None /\ m # n => entries[m].data = entries'[m].data
    BY <1>4, LinkedLive DEF IInv
<1>6. Held(entries, f) = Scratch(d) \o Address(d) /\ curr.next = First(Tail(y))
    BY <1>1, AllPut
<1>7. Held(entries, f) = Scratch(d) /\ new = Seqs!Expansion(d) /\ Scratch(d) \in Seq(Data)
    <2>1. /\ Address(d) = <<>> /\ Scratch(d) \in Seq(Data) /\ new = Seqs!Expansion(d)
        BY <1>1, Expands
    <2>2. Scratch(d) \o <<>> = Scratch(d)
        BY <2>1, ConcatEmptySeq
    <2> QED BY <1>6, <2>1, <2>2
<1>8. PICK z : Starts(ctx, L, c, x \o f, y, n, z)
    <2>1. n = AheadOf(curr)
        BY <1>1 DEF AheadOf
    <2> HIDE DEF n
    <2> QED BY <1>1, <2>1, SplitStands
<1>9. /\ z \in Seq(Inst) /\ x \o f \in Seq(Inst) /\ y = <<n>> \o z /\ Tail(y) = z
      /\ Stands(ctx, L, c, x \o f, n, z)
    BY <1>8 DEF Starts
<1>10. /\ Held(entries', x \o f) = Held(entries, x \o f)
       /\ Held(entries', z) = Held(entries, z)
       /\ \A b \in 1 .. Blocks : b # c => Held(entries', L[b]) = Held(entries, L[b])
    BY <1>5, <1>9, AroundHeld
<1>11. InOrder(ctx, L) /\ c \in 1 .. Blocks /\ x \in Seq(Inst) /\ f \in Seq(Inst)
    BY DEF Split
<1> HIDE DEF n, c, d
<1>12. /\ u \in Seq(Inst) /\ Len(u) = Len(x) + Len(f) + 1 /\ u \o <<>> = u
       /\ L[c] = (u \o <<>>) \o z
    <2> DEFINE v == x \o f
    <2>1. Len(v) = Len(x) + Len(f)
        BY <1>11, ConcatProperties
    <2>2. v \in Seq(Inst) /\ <<n>> \in Seq(Inst) /\ Len(<<n>>) = 1
        BY <1>1, <1>9
    <2> HIDE DEF v
    <2>3. v \o <<n>> \in Seq(Inst) /\ Len(v \o <<n>>) = Len(v) + 1
        BY <2>2, ConcatProperties
    <2>4. (v \o <<n>>) \o <<>> = v \o <<n>>
        BY <2>3, ConcatEmptySeq
    <2>5. L[c] = (v \o <<n>>) \o z
        BY <1>9 DEF Stands, v
    <2> QED BY <2>1, <2>3, <2>4, <2>5 DEF v
<1>13. Held(entries', u \o z) = (Held(entries, x) \o new) \o Held(entries, z)
    <2> DEFINE X == Held(entries, x)
               F == Held(entries, f)
               S == Holds(entries) \cup {Resolved}
               h == <<Resolved>>
    <2>1. Held(entries', u \o z) = (Held(entries', x \o f) \o <<entries'[n].data>>)
                                      \o Held(entries', z)
        BY <1>1, <1>9, HeldAround
    <2>2. Held(entries, x \o f) = X \o F
        BY <1>11, HeldConcat
    <2>3. X \in Seq(Holds(entries)) /\ F \in Seq(Holds(entries))
        BY <1>11, HeldSeq
    <2>4. X \in Seq(S) /\ F \in Seq(S)
        <3>1. Holds(entries) \subseteq S
            OBVIOUS
        <3> HIDE DEF X, F, S
        <3> QED BY <2>3, <3>1, SeqMonotonic
    <2>5. h \in Seq(S)
        OBVIOUS
    <2> HIDE DEF X, F, S, h
    <2>6. (X \o F) \o h = X \o (F \o h)
        BY <2>4, <2>5, ConcatAssociative
    <2>7. new = F \o h
        BY <1>7 DEF F, h
    <2> QED BY <1>4, <1>10, <2>1, <2>2, <2>6, <2>7 DEF X, h
<1>14. Len(u) = Len(x) + Len(new)
    <2>1. Len(Held(entries, f)) = Len(f)
        BY <1>11, HeldSeq
    <2>2. Len(new) = Len(Scratch(d)) + 1
        <3>1. Scratch(d) \in Seq(Data) /\ <<Resolved>> \in Seq(Data) /\ Len(<<Resolved>>) = 1
            BY <1>7 DEF Data
        <3> QED BY <3>1, ConcatProperties
    <2>3. Len(x) \in Nat /\ Len(f) \in Nat
        BY <1>11, LenProperties
    <2>4. Len(u) = Len(x) + Len(f) + 1 /\ Len(new) = Len(f) + 1
        BY <1>7, <1>12, <2>1, <2>2
    <2> HIDE DEF u, new
    <2> QED BY <2>3, <2>4
<1> HIDE DEF u, new
<1>15. Split(ctx', entries', curr', L, u, <<>>, z)
    <2>1. AheadOf(curr') = First(z)
        BY <1>3, <1>6, <1>9 DEF AheadOf
    <2>2. <<>> \in Seq(Inst) /\ Len(<<>>) = 0
        OBVIOUS
    <2> QED BY <1>1, <1>3, <1>9, <1>11, <1>12, <2>1, <2>2 DEF Split
<1>16. Replaced(L, x, y, n, z, L, u, z, new)
    BY <1>1, <1>7, <1>9, <1>10, <1>13, <1>14 DEF Replaced, c, d
<1>17. Seqs!AdjustInst
    <2>1. phase = "adjust" /\ phase' = phase /\ curr'.block = curr.block
        BY <1>1, <1>3 DEF c
    <2> QED BY <1>15, <1>16, <2>1, Replaces
<1> QED BY <1>15, <1>17 DEF Follows, Seqs!Next

LEMMA UnlinkTraced ==
    ASSUME IInv, NEW L, NEW x, NEW f, NEW y, Split(ctx, entries, curr, L, x, f, y), UnlinkInst
    PROVE  Follows
<1> DEFINE n == curr.inst
           c == curr.block
           d == entries[n].data
           u == x \o f
           new == Held(entries, f)
<1>1. /\ Walking("insert") /\ curr.does = "insert" /\ n # None /\ curr.todo = <<>>
      /\ n \in Live /\ n \in Inst /\ IsLinked(n) /\ phase = "adjust" /\ phase' = phase
      /\ d \in Addresses /\ Unlink(n)
      /\ curr' = [curr EXCEPT !.does = "free", !.put = 0]
    BY WalkingAt DEF UnlinkInst, Inserted, Walking, Kind
<1>2. curr' = [curr EXCEPT !.next = curr.next, !.does = "free", !.todo = curr.todo,
                           !.put = 0]
    BY <1>1 DEF IInv, WalkOK
<1>3. /\ curr'.block = c /\ curr'.inst = n /\ curr'.next = curr.next
      /\ curr'.does = "free" /\ curr'.put = 0
    <2>1. Became(curr.next, "free", curr.todo, 0)
        BY <1>2, CurrBecomes
    <2> QED BY <2>1 DEF Became
<1>4. ctx' = List!Unlink(ctx, n) /\ entries' = entries
    <2>1. Around(n) \subseteq Live
        BY <1>1, LinkedLive DEF IInv
    <2> QED BY <1>1, <2>1 DEF Unlink, arena
<1>5. new = Seqs!Expansion(d) /\ curr.next = First(Tail(y))
    <2>1. new = Scratch(d) \o Address(d) /\ curr.next = First(Tail(y))
        BY <1>1, AllPut
    <2>2. Seqs!Expansion(d) = Scratch(d) \o Address(d)
        BY <1>1, Expands
    <2> QED BY <2>1, <2>2
<1>6. PICK z : Starts(ctx, L, c, u, y, n, z)
    <2>1. n = AheadOf(curr)
        BY <1>1 DEF AheadOf
    <2> HIDE DEF n
    <2> QED BY <1>1, <2>1, SplitStands
<1>7. InOrder(ctx, L) /\ c \in 1 .. Blocks /\ x \in Seq(Inst) /\ f \in Seq(Inst)
    BY DEF Split
<1>8. Len(u) = Len(x) + Len(f) /\ Len(new) = Len(f)
    BY <1>7, ConcatProperties, HeldSeq
<1>9. Held(entries, u) = Held(entries, x) \o new
    BY <1>7, HeldConcat
<1> HIDE DEF n, c, d, u, new
<1>10. /\ z \in Seq(Inst) /\ u \in Seq(Inst) /\ y = <<n>> \o z /\ Tail(y) = z
       /\ L[c] = (u \o <<n>>) \o z
    BY <1>6 DEF Starts, Stands
<1> DEFINE M == [L EXCEPT ![c] = u \o z]
<1>11. InOrder(ctx', M)
    <2>1. Sound(ctx)
        BY DEF IInv
    <2> QED BY <1>1, <1>4, <1>7, <1>10, <2>1, RemovalInOrder
<1>12. M[c] = u \o z /\ \A b \in 1 .. Blocks : b # c => M[b] = L[b]
    <2>1. L \in [1 .. Blocks -> Seq(Inst)]
        BY <1>7, InOrderFacts
    <2> QED BY <1>7, <2>1
<1> HIDE DEF M
<1>13. Split(ctx', entries', curr', M, u, <<>>, z)
    <2>1. AheadOf(curr') = First(z)
        BY <1>3, <1>5, <1>10 DEF AheadOf
    <2>2. <<>> \in Seq(Inst) /\ Len(<<>>) = 0 /\ u \o <<>> = u
        BY <1>10, ConcatEmptySeq
    <2> QED BY <1>3, <1>7, <1>10, <1>11, <1>12, <2>1, <2>2 DEF Split
<1>14. Replaced(L, x, y, n, z, M, u, z, new)
    <2>1. Held(entries', u \o z) = (Held(entries, x) \o new) \o Held(entries, z)
        BY <1>4, <1>9, <1>10, HeldConcat
    <2>2. \A b \in 1 .. Blocks : b # c => Held(entries', M[b]) = Held(entries, L[b])
        BY <1>4, <1>12
    <2> QED BY <1>1, <1>5, <1>8, <1>10, <2>1, <2>2 DEF Replaced, c, d
<1>15. Seqs!AdjustInst
    <2>1. phase = "adjust" /\ phase' = phase /\ curr'.block = curr.block
        BY <1>1, <1>3 DEF c
    <2> QED BY <1>13, <1>14, <2>1, Replaces
<1> QED BY <1>13, <1>15 DEF Follows, Seqs!Next

LEMMA FreeTraced ==
    ASSUME IInv, NEW L, NEW x, NEW f, NEW y, Split(ctx, entries, curr, L, x, f, y), FreeInst
    PROVE  Follows
<1> DEFINE n == curr.inst
<1>1. /\ Walking("free") /\ curr.does = "free" /\ phase' = phase
      /\ n \in Live /\ ctx.container[n] = None
      /\ Dealloc(n)
      /\ curr' = [curr EXCEPT !.does = "next"]
    BY DEF FreeInst, Walking, IInv, WalkOK
<1>2. Insts!DeallocEntry(n) /\ ctx' = ctx
    BY <1>1 DEF Dealloc
<1>3. curr' = [curr EXCEPT !.next = curr.next, !.does = "next", !.todo = curr.todo,
                           !.put = curr.put]
    BY <1>1 DEF IInv, WalkOK
<1>4. /\ curr'.block = curr.block /\ curr'.next = curr.next
      /\ curr'.does = "next" /\ curr'.put = curr.put
    <2>1. Became(curr.next, "next", curr.todo, curr.put)
        BY <1>3, CurrBecomes
    <2> QED BY <2>1 DEF Became
<1>5. \A m \in Inst : ctx.container[m] # None => entries[m].data = entries'[m].data
    <2>1. \A m \in Live : m # n => entries'[m] = entries[m]
        BY <1>1, <1>2, DeallocKeeps DEF IInv
    <2>2. \A m \in Inst : ctx.container[m] # None => m \in Live
        BY LinkedLive DEF IInv
    <2> HIDE DEF n
    <2> QED BY <1>1, <2>1, <2>2
<1>6. /\ Held(entries', x) = Held(entries, x) /\ Held(entries', y) = Held(entries, y)
      /\ \A b \in 1 .. Blocks : Held(entries', L[b]) = Held(entries, L[b])
    BY <1>5, SplitHeld
<1>7. Split(ctx', entries', curr', L, x, f, y)
    BY <1>1, <1>2, <1>4 DEF Split, AheadOf
<1>8. ShownAs(entries', curr', L, x, y) = ShownAs(entries, curr, L, x, y)
    <2>1. x \in Seq(Inst) /\ y \in Seq(Inst)
        BY DEF Split
    <2>2. \A e : Held(e, x \o y) = Held(e, x) \o Held(e, y)
        BY <2>1, HeldConcat
    <2>3. Held(entries', x \o y) = Held(entries, x \o y)
        BY <1>6, <2>2
    <2> QED BY <1>4, <1>6, <2>3 DEF ShownAs
<1>9. UNCHANGED Seqs!vars
    BY <1>1, <1>4, <1>7, <1>8, StuttersIf
<1> QED BY <1>7, <1>9 DEF Follows

LEMMA NextInstTraced ==
    ASSUME IInv, NEW L, NEW x, NEW f, NEW y, Split(ctx, entries, curr, L, x, f, y), NextInst
    PROVE  Follows
<1>1. /\ curr.does = "next" /\ phase' = phase /\ ctx' = ctx /\ entries' = entries
      /\ curr' = Turn(curr.block, curr.next)
    BY DEF NextInst, Walking, arena
<1>2. /\ curr'.block = curr.block /\ curr'.inst = curr.next /\ curr'.does = "fetch"
      /\ curr'.put = 0
    BY <1>1 DEF Turn
<1>3. curr.put = 0
    BY <1>1, NothingPut
<1>4. Split(ctx', entries', curr', L, x, f, y)
    BY <1>1, <1>2, <1>3 DEF Split, AheadOf
<1>5. ShownAs(entries', curr', L, x, y) = ShownAs(entries, curr, L, x, y)
    BY <1>1, <1>2 DEF ShownAs
<1>6. UNCHANGED Seqs!vars
    BY <1>1, <1>2, <1>4, <1>5, StuttersIf
<1> QED BY <1>4, <1>6 DEF Follows

(* A state that has put nothing shows the lists as they are. *)
LEMMA ShowsWhole ==
    ASSUME NEW h, NEW e, NEW c, NEW L, NEW x, NEW f, NEW y, Split(h, e, c, L, x, f, y),
           c.does # "insert"
    PROVE  ShownAs(e, c, L, x, y) = [b \in 1 .. Blocks |-> Held(e, L[b])]
<1>1. L[c.block] = x \o y
    BY NothingPut
<1>2. \A b \in 1 .. Blocks : (IF b = c.block THEN x \o y ELSE L[b]) = L[b]
    BY <1>1
<1> QED BY <1>2 DEF ShownAs

(* The end of the walk through a block. *)
LEMMA NothingAhead ==
    ASSUME NEW h, NEW e, NEW c, NEW L, NEW x, NEW f, NEW y, Split(h, e, c, L, x, f, y),
           c.does = "fetch", c.inst = None
    PROVE  y = <<>> /\ f = <<>> /\ L[c.block] = x
<1>1. f = <<>> /\ L[c.block] = x \o y /\ x \in Seq(Inst) /\ y \in Seq(Inst) /\ First(y) = None
    <2>1. f = <<>> /\ L[c.block] = x \o y
        BY NothingPut
    <2>2. x \in Seq(Inst) /\ y \in Seq(Inst) /\ First(y) = None
        BY DEF Split, AheadOf
    <2> QED BY <2>1, <2>2
<1>2. y = <<>>
    <2>1. y # <<>> => y[1] \in Inst
        BY <1>1, HeadFirst
    <2>2. y # <<>> => Len(y) # 0
        BY <1>1, EmptySeq
    <2> QED BY <1>1, <2>1, <2>2, NoneIsNoNode DEF First
<1>3. x \o <<>> = x
    BY <1>1, ConcatEmptySeq
<1> QED BY <1>1, <1>2, <1>3

(* The walk comes to block d. *)
At(d) == d \in 1 .. Blocks /\ curr' = Turn(d, ctx'.head[d])

LEMMA TurnShows ==
    ASSUME NEW L, InOrder(ctx', L), NEW d, At(d)
    PROVE  /\ Split(ctx', entries', curr', L, <<>>, <<>>, L[d])
           /\ Shown' = [b \in 1 .. Blocks |-> Held(entries', L[b])]
           /\ Behind' = 0
<1> DEFINE v == L[d]
<1>1. /\ d \in 1 .. Blocks
      /\ curr'.block = d /\ curr'.inst = ctx'.head[d] /\ curr'.does = "fetch"
      /\ curr'.put = 0
    BY DEF At, Turn
<1>2. v \in Seq(Inst) /\ ctx'.head[d] = First(v)
    <2>1. \A b \in 1 .. Blocks : L[b] \in Seq(Inst) /\ ctx'.head[b] = First(L[b])
        BY InOrderFacts DEF First
    <2> QED BY <1>1, <2>1, Zenon
<1> HIDE DEF v
<1>3. v = (<<>> \o <<>>) \o v /\ <<>> \in Seq(Inst)
    <2>1. <<>> \in Seq(Inst)
        OBVIOUS
    <2>2. <<>> \o <<>> = <<>> /\ <<>> \o v = v
        BY <1>2, <2>1, ConcatEmptySeq
    <2> QED BY <2>1, <2>2
<1>4. Split(ctx', entries', curr', L, <<>>, <<>>, v)
    BY <1>1, <1>2, <1>3 DEF Split, AheadOf, v
<1>5. Shown' = ShownAs(entries', curr', L, <<>>, v) /\ Behind' = Len(<<>>)
    BY <1>4, ShowsThen
<1>6. ShownAs(entries', curr', L, <<>>, v) = [b \in 1 .. Blocks |-> Held(entries', L[b])]
    BY <1>1, <1>4, ShowsWhole
<1> QED BY <1>4, <1>5, <1>6 DEF v

LEMMA NextBlockTraced ==
    ASSUME IInv, NEW L, NEW x, NEW f, NEW y, Split(ctx, entries, curr, L, x, f, y),
           curr.inst = None => curr.does = "fetch", NextBlock
    PROVE  Follows
<1> DEFINE c == curr.block
<1>1. /\ phase = "adjust" /\ curr.inst = None /\ curr.does = "fetch"
      /\ ctx' = ctx /\ entries' = entries
    BY DEF NextBlock, arena
<1>2. y = <<>> /\ f = <<>> /\ L[c] = x
    BY <1>1, NothingAhead
<1>3. InOrder(ctx, L) /\ c \in 1 .. Blocks /\ x \in Seq(Inst) /\ <<>> \in Seq(Inst)
    BY DEF Split
<1>4. /\ Shown = [b \in 1 .. Blocks |-> Held(entries, L[b])]
      /\ Behind = Len(x)
    <2>1. Shown = ShownAs(entries, curr, L, x, y) /\ Behind = Len(x)
        BY Shows
    <2>2. ShownAs(entries, curr, L, x, y) = [b \in 1 .. Blocks |-> Held(entries, L[b])]
        BY <1>1, ShowsWhole
    <2> QED BY <2>1, <2>2
<1>5. Len(Shown[c]) = Len(x) /\ Len(x) \in Nat
    BY <1>2, <1>3, <1>4, HeldSeq, LenProperties
<1>6. CASE c < Blocks
    <2> DEFINE d == c + 1
    <2>1. d \in 1 .. Blocks /\ phase' = phase /\ curr' = Turn(d, ctx'.head[d])
        BY <1>1, <1>3, <1>6 DEF NextBlock
    <2> HIDE DEF d
    <2>2. InOrder(ctx', L)
        BY <1>1, <1>3
    <2>3. At(d)
        BY <2>1 DEF At
    <2>4. curr'.block = d
        BY <2>1 DEF Turn
    <2>5. Split(ctx', entries', curr', L, <<>>, <<>>, L[d])
        BY <2>2, <2>3, TurnShows
    <2>6. Shown' = [b \in 1 .. Blocks |-> Held(entries', L[b])] /\ Behind' = 0
        BY <2>2, <2>3, TurnShows
    <2>7. Shown' = Shown
        BY <1>1, <1>4, <2>6
    <2>8. <<curr'.block, Behind' + 1>> = <<curr.block + 1, 1>>
        BY <2>4, <2>6 DEF d
    <2>9. Behind + 1 > Len(Shown[c])
        BY <1>4, <1>5
    <2>10. Seqs!NextBlock
        BY <1>1, <1>6, <2>1, <2>7, <2>8, <2>9 DEF Seqs!NextBlock, Shown
    <2> QED BY <2>5, <2>10 DEF Follows, Seqs!Next
<1>7. CASE ~ (c < Blocks)
    <2>1. phase' = "done" /\ curr' = curr
        BY <1>1, <1>7 DEF NextBlock
    <2>2. Split(ctx', entries', curr', L, x, f, y)
        BY <1>1, <2>1
    <2>3. Shown' = Shown /\ Behind' = Behind
        <3>1. Shown = ShownAs(entries, curr, L, x, y) /\ Behind = Len(x)
            BY Shows
        <3>2. Shown' = ShownAs(entries', curr', L, x, y) /\ Behind' = Len(x)
            BY <2>2, ShowsThen
        <3> QED BY <1>1, <2>1, <3>1, <3>2
    <2>4. Behind + 1 > Len(Shown[c])
        BY <1>4, <1>5
    <2>5. Seqs!NextBlock
        BY <1>1, <1>7, <2>1, <2>3, <2>4 DEF Seqs!NextBlock, Shown
    <2> QED BY <2>2, <2>5 DEF Follows, Seqs!Next
<1> QED BY <1>6, <1>7

-----------------------------------------------------------------------------
(***************************************************************************)
(* The code is built.                                                      *)
(***************************************************************************)

(* A walk at the end of the first block shows the lists as they are. *)
LEMMA WholeShown ==
    \A L : InOrder(ctx, L) /\ curr = Turn(1, None) =>
        /\ Split(ctx, entries, curr, L, L[1], <<>>, <<>>)
        /\ Shown = [b \in 1 .. Blocks |-> Held(entries, L[b])]
<1> SUFFICES ASSUME NEW L, InOrder(ctx, L), curr = Turn(1, None)
             PROVE  /\ Split(ctx, entries, curr, L, L[1], <<>>, <<>>)
                    /\ Shown = [b \in 1 .. Blocks |-> Held(entries, L[b])]
    OBVIOUS
<1>1. /\ curr.block = 1 /\ curr.inst = None /\ curr.does = "fetch" /\ curr.put = 0
      /\ 1 \in 1 .. Blocks
    BY DEF Turn
<1>2. L[1] \in Seq(Inst) /\ <<>> \in Seq(Inst) /\ Len(<<>>) = 0
    <2>1. \A b \in 1 .. Blocks : L[b] \in Seq(Inst)
        BY InOrderFacts
    <2> QED BY <1>1, <2>1
<1>3. (L[1] \o <<>>) \o <<>> = L[1]
    BY <1>2, ConcatEmptySeq
<1>4. Split(ctx, entries, curr, L, L[1], <<>>, <<>>)
    BY <1>1, <1>2, <1>3 DEF Split, AheadOf, First
<1>5. Shown = ShownAs(entries, curr, L, L[1], <<>>)
    BY <1>4, Shows
<1>6. ShownAs(entries, curr, L, L[1], <<>>) = [b \in 1 .. Blocks |-> Held(entries, L[b])]
    BY <1>1, <1>4, ShowsWhole
<1> QED BY <1>4, <1>5, <1>6

LEMMA WholeShownThen ==
    (\A L : InOrder(ctx, L) /\ curr = Turn(1, None) =>
        /\ Split(ctx, entries, curr, L, L[1], <<>>, <<>>)
        /\ Shown = [b \in 1 .. Blocks |-> Held(entries, L[b])])'
BY WholeShown, PTL

(* While it is, the walk stands at the end of the first block. *)
Building(L) == /\ phase = "build" /\ phase' = phase
               /\ curr = Turn(1, None) /\ curr' = curr
               /\ InOrder(ctx, L)
               /\ Shown = [b \in 1 .. Blocks |-> Held(entries, L[b])]

LEMMA BuildShows ==
    ASSUME NEW L, Building(L), NEW M, InOrder(ctx', M)
    PROVE  /\ Split(ctx', entries', curr', M, M[1], <<>>, <<>>)
           /\ Shown' = [b \in 1 .. Blocks |-> Held(entries', M[b])]
<1>1. curr' = Turn(1, None)
    BY DEF Building
<1> QED BY <1>1, WholeShownThen

(* Instruction r is put between u and v. *)
PutBetween(L, c, u, r, v) ==
    /\ c \in 1 .. Blocks /\ u \in Seq(Inst) /\ v \in Seq(Inst)
    /\ L[c] = u \o v
    /\ InOrder(ctx', [L EXCEPT ![c] = (u \o <<r>>) \o v])

LEMMA PutTraced ==
    ASSUME IInv, NEW L, Building(L), NEW d \in Body, Alloc(d),
           NEW c, NEW u, NEW v, PutBetween(L, c, u, ret', v)
    PROVE  Follows
<1> DEFINE r == ret'
           M == [L EXCEPT ![c] = (u \o <<r>>) \o v]
           U == Held(entries, u)
           V == Held(entries, v)
           i == Len(U) + 1
           s == Shown[c]
<1>1. /\ c \in 1 .. Blocks /\ u \in Seq(Inst) /\ v \in Seq(Inst)
      /\ L[c] = u \o v /\ InOrder(ctx', M) /\ InOrder(ctx, L)
    BY DEF PutBetween, Building
<1>2. r \in Inst /\ r \notin Live
    BY AllocTakes DEF IInv
<1>3. /\ entries'[r].data = d
      /\ \A m \in Live : entries'[m] = entries[m]
    BY AllocKeeps DEF IInv
<1>4. \A m \in Inst : ctx.container[m] # None => entries[m].data = entries'[m].data
    BY <1>2, <1>3, LinkedKeep
<1> HIDE DEF r
<1>5. /\ Held(entries', u) = U /\ Held(entries', v) = V
      /\ \A b \in 1 .. Blocks : Held(entries', L[b]) = Held(entries, L[b])
    <2>1. \A b \in 1 .. Blocks : \A m \in Range(L[b]) : m \in Inst /\ ctx.container[m] = b
        BY <1>1, BlockRange
    <2>2. \A b \in 1 .. Blocks : b # None
        BY NoneIsNoNode
    <2>3. \A b \in 1 .. Blocks : \A m \in Range(L[b]) : entries[m].data = entries'[m].data
        BY <1>4, <2>1, <2>2, Zenon
    <2>4. \A b \in 1 .. Blocks : L[b] \in Seq(Inst)
        BY <1>1, InOrderFacts
    <2>5. \A b \in 1 .. Blocks : Held(entries, L[b]) = Held(entries', L[b])
        BY <2>3, <2>4, HeldSame
    <2>6. Range(u) \subseteq Range(L[c]) /\ Range(v) \subseteq Range(L[c])
        <3>1. \A p, q \in Seq(Inst) : Range(p \o q) = Range(p) \cup Range(q)
            BY RangeConcatenation
        <3>2. Range(u \o v) = Range(u) \cup Range(v)
            BY <1>1, <3>1, Zenon
        <3> QED BY <1>1, <3>2
    <2>7. /\ \A m \in Range(u) : entries[m].data = entries'[m].data
          /\ \A m \in Range(v) : entries[m].data = entries'[m].data
        BY <1>1, <2>3, <2>6, Zenon
    <2>8. Held(entries, u) = Held(entries', u) /\ Held(entries, v) = Held(entries', v)
        BY <1>1, <2>7, HeldSame
    <2> QED BY <2>5, <2>8
<1>6. M[c] = (u \o <<r>>) \o v /\ \A b \in 1 .. Blocks : b # c => M[b] = L[b]
    <2>1. L \in [1 .. Blocks -> Seq(Inst)]
        BY <1>1, InOrderFacts
    <2> QED BY <1>1, <2>1
<1> HIDE DEF M
<1>7. /\ Split(ctx', entries', curr', M, M[1], <<>>, <<>>)
      /\ Shown' = [b \in 1 .. Blocks |-> Held(entries', M[b])]
    BY <1>1, BuildShows
<1>8. s = U \o V /\ U \in Seq(Holds(entries)) /\ V \in Seq(Holds(entries))
    <2>1. s = Held(entries, u \o v)
        BY <1>1 DEF Building
    <2> QED BY <1>1, <2>1, HeldConcat, HeldSeq
<1>9. Held(entries', M[c]) = (U \o <<d>>) \o V
    <2>1. Held(entries', (u \o <<r>>) \o v) =
              (Held(entries', u) \o <<entries'[r].data>>) \o Held(entries', v)
        BY <1>1, <1>2, HeldAround
    <2> QED BY <1>3, <1>5, <1>6, <2>1 DEF r
<1> HIDE DEF U, V, s
<1>10. /\ SubSeq(s, 1, i - 1) = U /\ SubSeq(s, i, Len(s)) = V
       /\ i \in 1 .. (Len(s) + 1)
    <2>1. SubSeq(s, 1, Len(U)) = U /\ SubSeq(s, Len(U) + 1, Len(s)) = V
        BY <1>8, Halves
    <2>2. Len(U) \in Nat /\ Len(V) \in Nat /\ Len(s) = Len(U) + Len(V)
        BY <1>8, ConcatProperties, LenProperties
    <2>3. (Len(U) + 1) - 1 = Len(U) /\ Len(U) + 1 \in 1 .. (Len(s) + 1)
        BY <2>2
    <2> QED BY <2>1, <2>3
<1> HIDE DEF i
<1>11. Shown' = [Shown EXCEPT ![c] = Seqs!InsertAt(Shown[c], i, d)]
    <2>1. Seqs!InsertAt(Shown[c], i, d) = (U \o <<d>>) \o V
        BY <1>10 DEF Seqs!InsertAt, s
    <2> HIDE DEF s
    <2>2. Shown = [b \in 1 .. Blocks |-> Held(entries, L[b])]
        BY DEF Building
    <2>3. \A b \in 1 .. Blocks : Shown'[b] = IF b = c THEN (U \o <<d>>) \o V ELSE Shown[b]
        BY <1>5, <1>6, <1>7, <1>9, <2>2
    <2>4. Shown' = [b \in 1 .. Blocks |-> Shown'[b]]
        BY <1>7
    <2> QED BY <2>1, <2>2, <2>3, <2>4
<1>12. Seqs!Put(c, i, d) /\ c \in 1 .. Blocks /\ i \in 1 .. (Len(Shown[c]) + 1)
    BY <1>1, <1>10, <1>11 DEF Seqs!Put, Seqs!Edit, Shown, s
<1>13. d \in Seqs!Body
    BY DEF Body, Seqs!Body
<1>14. Seqs!Build
    <2>1. phase = "build" /\ phase' = "build"
        BY DEF Building
    <2> QED BY <1>12, <1>13, <2>1 DEF Seqs!Build, Shown
<1> QED BY <1>7, <1>14 DEF Follows, Seqs!Next

LEMMA DropTraced ==
    ASSUME IInv, NEW L, Building(L), NEW n, NEW c, NEW u, NEW v,
           Stands(ctx, L, c, u, n, v), ctx' = List!Unlink(ctx, n),
           n \in Live, Insts!DeallocEntry(n)
    PROVE  Follows
<1> DEFINE M == [L EXCEPT ![c] = u \o v]
           U == Held(entries, u)
           V == Held(entries, v)
           i == Len(U) + 1
           s == Shown[c]
           k == entries[n].data
<1>1. /\ c \in 1 .. Blocks /\ u \in Seq(Inst) /\ n \in Inst /\ v \in Seq(Inst)
      /\ L[c] = (u \o <<n>>) \o v /\ InOrder(ctx, L)
    BY DEF Stands
<1>2. InOrder(ctx', M)
    <2>1. Sound(ctx)
        BY DEF IInv
    <2> QED BY <1>1, <2>1, RemovalInOrder
<1>3. \A m \in Live : m # n => entries'[m] = entries[m]
    BY DeallocKeeps DEF IInv
<1>4. \A m \in Inst : ctx.container[m] # None /\ m # n => entries[m].data = entries'[m].data
    BY <1>3, LinkedLive DEF IInv
<1>5. /\ Held(entries', u) = U /\ Held(entries', v) = V
      /\ \A b \in 1 .. Blocks : b # c => Held(entries', L[b]) = Held(entries, L[b])
    BY <1>4, AroundHeld
<1>6. M[c] = u \o v /\ \A b \in 1 .. Blocks : b # c => M[b] = L[b]
    <2>1. L \in [1 .. Blocks -> Seq(Inst)]
        BY <1>1, InOrderFacts
    <2> QED BY <1>1, <2>1
<1> HIDE DEF M
<1>7. /\ Split(ctx', entries', curr', M, M[1], <<>>, <<>>)
      /\ Shown' = [b \in 1 .. Blocks |-> Held(entries', M[b])]
    BY <1>2, BuildShows
<1>8. /\ s = (U \o <<k>>) \o V /\ U \in Seq(Holds(entries)) /\ V \in Seq(Holds(entries))
      /\ k \in Holds(entries)
    <2>1. s = Held(entries, (u \o <<n>>) \o v)
        BY <1>1 DEF Building
    <2>2. s = (U \o <<k>>) \o V
        BY <1>1, <2>1, HeldAround
    <2>3. U \in Seq(Holds(entries)) /\ V \in Seq(Holds(entries))
        BY <1>1, HeldSeq
    <2>4. k \in Holds(entries)
        BY <1>1 DEF Holds
    <2> QED BY <2>2, <2>3, <2>4
<1>9. Held(entries', M[c]) = U \o V
    <2>1. Held(entries', u \o v) = Held(entries', u) \o Held(entries', v)
        BY <1>1, HeldConcat
    <2> QED BY <1>5, <1>6, <2>1
<1> HIDE DEF U, V, s, k
<1>10. TakenApart(Holds(entries), U, k, V, s, i)
    <2>1. Between(Holds(entries), U, k, V, s, i)
        BY <1>8 DEF Between
    <2> QED BY <2>1, ApartAround
<1>11. /\ SubSeq(s, 1, i - 1) = U /\ SubSeq(s, i + 1, Len(s)) = V
       /\ i \in 1 .. Len(s) /\ s \in Seq(Holds(entries))
    BY <1>10 DEF TakenApart
<1>12. i \in DOMAIN s
    BY <1>11, LenProperties
<1> HIDE DEF i
<1>13. Shown' = [Shown EXCEPT ![c] = Seqs!RemoveAt(Shown[c], i)]
    <2>1. Seqs!RemoveAt(Shown[c], i) = U \o V
        BY <1>11 DEF Seqs!RemoveAt, s
    <2>2. Shown = [b \in 1 .. Blocks |-> Held(entries, L[b])]
        BY DEF Building
    <2>3. \A b \in 1 .. Blocks : Shown'[b] = IF b = c THEN U \o V ELSE Shown[b]
        BY <1>5, <1>6, <1>7, <1>9, <2>2
    <2>4. Shown' = [b \in 1 .. Blocks |-> Shown'[b]]
        BY <1>7
    <2> QED BY <2>1, <2>2, <2>3, <2>4
<1>14. Seqs!Drop(c, i) /\ c \in 1 .. Blocks /\ i \in DOMAIN Shown[c]
    BY <1>1, <1>12, <1>13 DEF Seqs!Drop, Seqs!Edit, Shown, s
<1>15. Seqs!Build
    <2>1. phase = "build" /\ phase' = "build"
        BY DEF Building
    <2> QED BY <1>14, <2>1 DEF Seqs!Build, Shown
<1> QED BY <1>7, <1>15 DEF Follows, Seqs!Next

(* What building does to the lists. *)
LEMMA BuildTraced ==
    ASSUME IInv, NEW L, Building(L), Build
    PROVE  Follows
<1>1. InOrder(ctx, L) /\ Sound(ctx)
    BY DEF Building, IInv
<1>2. ASSUME NEW d \in Body, NEW b \in 1 .. Blocks, Alloc(d),
             \/ ctx' = List!PushBack(Built(ret'), b, ret')
             \/ ctx' = List!PushFront(Built(ret'), b, ret')
      PROVE  Follows
    <2> DEFINE r == ret'
               v == L[b]
    <2>1. r \in Inst /\ r \notin Live
        BY <1>2, AllocTakes DEF IInv
    <2>2. ctx.container[r] = None
        BY <2>1, LinkedLive DEF IInv
    <2>3. Built(r) = ctx
        BY <2>1, <2>2, BuiltIsSame DEF IInv
    <2>4. v \in Seq(Inst) /\ <<>> \in Seq(Inst) /\ <<r>> \in Seq(Inst)
        <3>1. \A a \in 1 .. Blocks : L[a] \in Seq(Inst)
            BY <1>1, InOrderFacts
        <3>2. v \in Seq(Inst)
            BY <1>2, <3>1, Zenon
        <3> QED BY <2>1, <3>2
    <2>5. /\ InOrder(List!PushFront(ctx, b, r), [L EXCEPT ![b] = <<r>> \o v])
          /\ InOrder(List!PushBack(ctx, b, r), [L EXCEPT ![b] = v \o <<r>>])
        BY <1>1, <1>2, <2>1, <2>2, PushesInOrder
    <2>6. /\ <<r>> \o v = (<<>> \o <<r>>) \o v /\ v = <<>> \o v
          /\ v \o <<r>> = (v \o <<r>>) \o <<>> /\ v = v \o <<>>
        <3> DEFINE w == <<r>>
        <3>1. w \in Seq(Inst) /\ v \in Seq(Inst)
            BY <2>4
        <3> HIDE DEF w, v
        <3>2. v \o w \in Seq(Inst)
            BY <3>1, ConcatProperties
        <3>3. <<>> \o w = w /\ <<>> \o v = v /\ v \o <<>> = v /\ (v \o w) \o <<>> = v \o w
            BY <3>1, <3>2, ConcatEmptySeq
        <3> QED BY <3>3 DEF w
    <2>7. CASE ctx' = List!PushBack(Built(ret'), b, ret')
        <3>1. PutBetween(L, b, v, r, <<>>)
            BY <1>2, <2>3, <2>4, <2>5, <2>6, <2>7 DEF PutBetween
        <3> QED BY <1>2, <3>1, PutTraced
    <2>8. CASE ctx' = List!PushFront(Built(ret'), b, ret')
        <3>1. PutBetween(L, b, <<>>, r, v)
            BY <1>2, <2>3, <2>4, <2>5, <2>6, <2>8 DEF PutBetween
        <3> QED BY <1>2, <3>1, PutTraced
    <2> QED BY <1>2, <2>7, <2>8
<1>3. ASSUME NEW m \in List!Linked(ctx)
      PROVE  /\ m \in Inst /\ ctx.container[m] # None /\ IsLinked(m)
             /\ m \in Live /\ Around(m) \subseteq Live
             /\ \E u, v : Stands(ctx, L, ctx.container[m], u, m, v)
    <2>1. m \in Inst /\ ctx.container[m] # None /\ IsLinked(m)
        BY <1>3 DEF List!Linked, IsLinked
    <2>2. m \in Live /\ Around(m) \subseteq Live
        BY <2>1, LinkedLive DEF IInv
    <2>3. ctx.container[m] \in 1 .. Blocks
        BY <1>1, <2>1, SoundLinks
    <2>4. \E u, v : Stands(ctx, L, ctx.container[m], u, m, v)
        BY <1>1, <2>1, <2>3, PlaceOf
    <2> QED BY <2>1, <2>2, <2>4
<1>4. ASSUME NEW d \in Body, NEW m \in List!Linked(ctx), AllocBefore(m, d) \/ AllocAfter(m, d)
      PROVE  Follows
    <2> DEFINE r == ret'
               c == ctx.container[m]
    <2>1. /\ m \in Inst /\ ctx.container[m] # None /\ Around(m) \subseteq Live
          /\ \E u, v : Stands(ctx, L, c, u, m, v)
        BY <1>3
    <2>2. /\ Alloc(d)
          /\ \/ ctx' = List!InsertBefore(Built(r), m, r)
             \/ ctx' = List!InsertAfter(Built(r), m, r)
        BY <1>4, <2>1 DEF AllocBefore, AllocAfter
    <2>3. r \in Inst /\ r \notin Live
        BY <2>2, AllocTakes DEF IInv
    <2>4. ctx.container[r] = None
        BY <2>3, LinkedLive DEF IInv
    <2>5. Built(r) = ctx
        BY <2>3, <2>4, BuiltIsSame DEF IInv
    <2> HIDE DEF c
    <2>6. PICK u, v : Stands(ctx, L, c, u, m, v)
        BY <2>1
    <2> DEFINE p == u \o <<m>>
               q == <<m>> \o v
    <2>7. /\ c \in 1 .. Blocks /\ u \in Seq(Inst) /\ v \in Seq(Inst)
          /\ L[c] = p \o v
        BY <2>6 DEF Stands
    <2>8. /\ p \in Seq(Inst) /\ q \in Seq(Inst) /\ L[c] = u \o q
          /\ p # <<>> /\ p[Len(p)] = m /\ q # <<>> /\ q[1] = m
        <3> DEFINE w == <<m>>
        <3>1. u \in Seq(Inst) /\ v \in Seq(Inst) /\ w \in Seq(Inst) /\ Len(w) = 1 /\ w[1] = m
            BY <2>1, <2>7
        <3>2. Len(u) \in Nat /\ Len(v) \in Nat
            BY <3>1, LenProperties
        <3> HIDE DEF w
        <3>0. u \in Seq(Inst) /\ v \in Seq(Inst) /\ w \in Seq(Inst)
            BY <3>1
        <3>3. /\ u \o w \in Seq(Inst) /\ Len(u \o w) = Len(u) + Len(w)
              /\ \A i \in 1 .. Len(u) + Len(w) :
                    (u \o w)[i] = IF i <= Len(u) THEN u[i] ELSE w[i - Len(u)]
            BY <3>0, ConcatProperties
        <3>4. /\ w \o v \in Seq(Inst) /\ Len(w \o v) = Len(w) + Len(v)
              /\ \A i \in 1 .. Len(w) + Len(v) :
                    (w \o v)[i] = IF i <= Len(w) THEN w[i] ELSE v[i - Len(w)]
            BY <3>0, ConcatProperties
        <3>5. (u \o w) \o v = u \o (w \o v)
            BY <3>1, ConcatAssociative
        <3>6. (u \o w)[Len(u) + 1] = m
            <4>1. Len(u) + 1 \in 1 .. Len(u) + Len(w) /\ ~ (Len(u) + 1 <= Len(u))
                  /\ (Len(u) + 1) - Len(u) = 1
                BY <3>1, <3>2
            <4> QED BY <3>1, <3>3, <4>1
        <3>7. (w \o v)[1] = m
            BY <3>1, <3>2, <3>4
        <3>8. u \o w # <<>> /\ w \o v # <<>>
            BY <3>1, <3>2, <3>3, <3>4, EmptySeq
        <3> QED BY <2>7, <3>3, <3>4, <3>5, <3>6, <3>7, <3>8 DEF w
    <2> HIDE DEF p, q, r
    <2>9. CASE ctx' = List!InsertBefore(Built(r), m, r)
        <3>1. InOrder(List!InsertBefore(ctx, q[1], r), [L EXCEPT ![c] = (u \o <<r>>) \o q])
            BY <1>1, <2>3, <2>4, <2>7, <2>8, EditsInOrder
        <3>2. PutBetween(L, c, u, r, q)
            BY <2>5, <2>7, <2>8, <2>9, <3>1 DEF PutBetween
        <3> QED BY <2>2, <3>2, PutTraced DEF r
    <2>10. CASE ctx' = List!InsertAfter(Built(r), m, r)
        <3>1. InOrder(List!InsertAfter(ctx, p[Len(p)], r), [L EXCEPT ![c] = (p \o <<r>>) \o v])
            BY <1>1, <2>3, <2>4, <2>7, <2>8, EditsInOrder
        <3>2. PutBetween(L, c, p, r, v)
            BY <2>5, <2>7, <2>8, <2>10, <3>1 DEF PutBetween
        <3> QED BY <2>2, <3>2, PutTraced DEF r
    <2> QED BY <2>2, <2>9, <2>10 DEF r
<1>5. ASSUME NEW n \in List!Linked(ctx), Remove(n)
      PROVE  Follows
    <2>1. /\ n \in Live /\ Around(n) \subseteq Live
          /\ \E u, v : Stands(ctx, L, ctx.container[n], u, n, v)
        BY <1>3
    <2>2. Insts!DeallocEntry(n) /\ ctx' = List!Unlink(ctx, n)
        BY <1>5, <2>1 DEF Remove
    <2> QED BY <2>1, <2>2, DropTraced
<1> QED BY <1>2, <1>4, <1>5 DEF Build

LEMMA BeginTraced ==
    ASSUME NEW L, InOrder(ctx, L), curr = Turn(1, None), Begin
    PROVE  Follows
<1>1. /\ phase = "build" /\ phase' = "adjust" /\ ctx' = ctx /\ entries' = entries
      /\ curr' = Turn(1, ctx'.head[1]) /\ 1 \in 1 .. Blocks
    BY DEF Begin, arena
<1>2. At(1) /\ InOrder(ctx', L)
    BY <1>1 DEF At
<1>3. Split(ctx', entries', curr', L, <<>>, <<>>, L[1])
    BY <1>2, TurnShows
<1>4. Shown' = [b \in 1 .. Blocks |-> Held(entries', L[b])] /\ Behind' = 0
    BY <1>2, TurnShows
<1>5. Shown = [b \in 1 .. Blocks |-> Held(entries, L[b])]
    BY WholeShown
<1>6. curr'.block = 1
    BY <1>1 DEF Turn
<1>7. Seqs!Begin
    BY <1>1, <1>4, <1>5, <1>6 DEF Seqs!Begin, Shown
<1> QED BY <1>3, <1>7 DEF Follows, Seqs!Next

-----------------------------------------------------------------------------
(* The invariant of the refinement: at any time the blocks are sequences,  *)
(* and that of the walk is in the parts that Split tells apart.            *)
TraceInv ==
    /\ IInv
    /\ phase = "build" => curr = Turn(1, None)
    /\ curr.inst = None => curr.does = "fetch"
    /\ \E L, x, f, y : Split(ctx, entries, curr, L, x, f, y)

LEMMA InitTrace == Init => TraceInv /\ Seqs!Init
<1> SUFFICES ASSUME Init PROVE TraceInv /\ Seqs!Init
    OBVIOUS
<1> DEFINE L == [b \in 1 .. Blocks |-> <<>>]
<1>1. /\ ctx = List!EmptyCtx /\ phase = "build" /\ curr = Turn(1, None)
    BY DEF Init
<1>2. InOrder(ctx, L)
    BY <1>1, EmptyOrder
<1>3. /\ Split(ctx, entries, curr, L, L[1], <<>>, <<>>)
      /\ Shown = [b \in 1 .. Blocks |-> Held(entries, L[b])]
    <2> HIDE DEF L
    <2> QED BY <1>1, <1>2, WholeShown
<1>4. TraceInv
    <2>1. curr.does = "fetch"
        BY <1>1 DEF Turn
    <2> QED BY <1>1, <1>3, <2>1, InitInv DEF TraceInv
<1>5. Shown = [b \in 1 .. Blocks |-> <<>>]
    <2>1. \A b \in 1 .. Blocks : Held(entries, L[b]) = <<>>
        BY HeldNothing
    <2> QED BY <1>3, <2>1
<1>6. Seqs!Init
    BY <1>1, <1>5 DEF Seqs!Init, Shown
<1> QED BY <1>4, <1>6

(* What the steps leave of the walk. *)
LEMMA TurnsNext ==
    ASSUME IInv, phase = "build" => curr = Turn(1, None),
           curr.inst = None => curr.does = "fetch", [Next]_vars
    PROVE  /\ phase' = "build" => curr' = Turn(1, None)
           /\ curr'.inst = None => curr'.does = "fetch"
<1>1. CASE Build \/ UNCHANGED vars
    BY <1>1 DEF Build, vars
<1>2. CASE Begin
    BY <1>2 DEF Begin, Turn
<1>3. CASE NextInst
    BY <1>3 DEF NextInst, Walking, Turn
<1>4. CASE NextBlock
    BY <1>4 DEF NextBlock, Turn
<1>5. CASE FetchInst \/ InsertInst \/ SetLoc \/ UnlinkInst \/ FreeInst
    <2>1. phase = "adjust" /\ phase' = "adjust" /\ curr.inst # None
        BY <1>5 DEF FetchInst, InsertInst, SetLoc, UnlinkInst, FreeInst, Inserted, Walking
    <2>2. curr'.inst = curr.inst
        <3>1. curr = [block |-> curr.block, inst |-> curr.inst, next |-> curr.next,
                      does |-> curr.does, todo |-> curr.todo, put |-> curr.put]
            BY DEF IInv, WalkOK
        <3>2. ASSUME NEW does, NEW put, curr' = [curr EXCEPT !.does = does, !.put = put]
              PROVE  curr'.inst = curr.inst
            BY <3>1, <3>2
        <3>3. CASE FetchInst
            <4> DEFINE does == IF Kind(curr.inst) \in {Near, Far} \cup Addresses
                               THEN "insert" ELSE "next"
                       todo == Scratch(Kind(curr.inst)) \o Address(Kind(curr.inst))
            <4>1. curr' = curr \/ curr' = [curr EXCEPT !.next = ctx.next[curr.inst],
                                                       !.does = does, !.todo = todo]
                BY <3>3 DEF FetchInst
            <4> HIDE DEF does, todo
            <4> QED BY <3>1, <4>1
        <3>4. CASE InsertInst
            <4>1. curr' = [curr EXCEPT !.todo = Tail(curr.todo), !.put = curr.put + 1]
                BY <3>4 DEF InsertInst
            <4> DEFINE todo == Tail(curr.todo)
                       put == curr.put + 1
            <4> HIDE DEF todo, put
            <4>2. curr' = [curr EXCEPT !.todo = todo, !.put = put]
                BY <4>1 DEF todo, put
            <4> QED BY <3>1, <4>2
        <3>5. CASE SetLoc \/ UnlinkInst
            BY <3>2, <3>5 DEF SetLoc, UnlinkInst
        <3>6. CASE FreeInst
            <4>1. curr' = [curr EXCEPT !.does = "next"]
                BY <3>6 DEF FreeInst
            <4> QED BY <3>1, <4>1
        <3> QED BY <1>5, <3>3, <3>4, <3>5, <3>6
    <2> QED BY <2>1, <2>2
<1> QED BY <1>1, <1>2, <1>3, <1>4, <1>5 DEF Next, AdjustOffset

LEMMA NextTrace == TraceInv /\ [Next]_vars => TraceInv' /\ [Seqs!Next]_(Seqs!vars)
<1> SUFFICES ASSUME TraceInv, [Next]_vars PROVE TraceInv' /\ [Seqs!Next]_(Seqs!vars)
    OBVIOUS
<1>1. PICK L, x, f, y : Split(ctx, entries, curr, L, x, f, y)
    BY DEF TraceInv
<1>2. /\ IInv /\ (phase = "build" => curr = Turn(1, None))
      /\ (curr.inst = None => curr.does = "fetch") /\ InOrder(ctx, L)
    BY <1>1 DEF TraceInv, Split
<1>3. ASSUME UNCHANGED vars PROVE Follows
    <2>1. ctx' = ctx /\ entries' = entries /\ curr' = curr /\ phase' = phase
        BY <1>3 DEF vars, arena
    <2>2. Split(ctx', entries', curr', L, x, f, y)
        BY <1>1, <2>1
    <2>3. ShownAs(entries', curr', L, x, y) = ShownAs(entries, curr, L, x, y)
        BY <2>1
    <2>4. UNCHANGED Seqs!vars
        BY <1>1, <2>1, <2>2, <2>3, StuttersIf
    <2> QED BY <2>2, <2>4 DEF Follows
<1>4. ASSUME Build PROVE Follows
    <2>1. Building(L)
        <3>1. phase = "build" /\ phase' = phase /\ curr' = curr
            BY <1>4 DEF Build
        <3> QED BY <1>2, <3>1, WholeShown DEF Building
    <2> QED BY <1>2, <1>4, <2>1, BuildTraced
<1>5. ASSUME Begin PROVE Follows
    <2>1. curr = Turn(1, None)
        BY <1>2, <1>5 DEF Begin
    <2> QED BY <1>2, <1>5, <2>1, BeginTraced
<1>6. Follows
    BY <1>1, <1>2, <1>3, <1>4, <1>5, FetchTraced, InsertTraced, SetLocTraced, UnlinkTraced,
       FreeTraced, NextInstTraced, NextBlockTraced DEF Next, AdjustOffset
<1>7. TraceInv'
    BY <1>2, <1>6, NextInv, TurnsNext DEF TraceInv, Follows
<1> QED BY <1>6, <1>7 DEF Follows

(* adjust_offset edits the list it walks, one call at a time: to a reader  *)
(* who overlooks what it has put before the instruction it stands at, it   *)
(* replaces the instructions of the body once each, in order and at once,  *)
(* whatever the function.                                                  *)
THEOREM WalkReplacesInOrder == Spec => ImplementsAdjustSeq
<1>1. Init => TraceInv /\ Seqs!Init
    BY InitTrace
<1>2. TraceInv /\ [Next]_vars => TraceInv' /\ [Seqs!Next]_(Seqs!vars)
    BY NextTrace
<1> QED BY <1>1, <1>2, PTL DEF Spec, ImplementsAdjustSeq, Seqs!Spec
=============================================================================
