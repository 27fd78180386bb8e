----------------------------- MODULE LinkedList -----------------------------
(***************************************************************************)
(* A program that works on linked lists through the public methods of      *)
(* LinkedListContainer and LinkedListNode.  push_front, push_back,         *)
(* insert_after, insert_before and unlink are one step each; append,       *)
(* split, extend, extend_after and extend_before are loops over them, and  *)
(* one step here is one turn of the loop.  The program has one thread: it  *)
(* calls nothing else while a loop runs.                                   *)
(***************************************************************************)
EXTENDS LinkedListOps, FiniteSets

CONSTANTS MaxBatch   \* bound on the nodes passed to one extend

ASSUME ClientAssumption == MaxBatch \in Nat /\ IsFiniteSet(Node)

VARIABLES ctx,    \* the context: see LinkedListOps
          op,     \* the loop that is running
          ret,    \* the result of the last method that returned
          before  \* history: the contents of the containers when op began

vars == <<ctx, op, ret, before>>

Idle == [kind |-> "idle"]

(* How a failing debug_assert!() ends the program. *)
AssertFailed == [err |-> "debug_assert"]

Batch == UNION {[1 .. k -> Node] : k \in 0 .. MaxBatch}

(* The contents of the containers, as an iterator shows them. *)
Lists(h) == [c \in Container |-> Walk(h.next, h.head[c], Cardinality(Node))]

(* The running loop and its own variables. *)
OpType ==
    {Idle}
    \cup [kind : {"append"}, self : Container, other : Container,
          curr : Node \cup {None}]
    \cup [kind : {"split"}, self : Container, other : Container, pos : Node,
          curr : Node \cup {None}]
    \cup [kind : {"extend"}, self : Container, todo : Batch, nodes : Batch]
    \cup [kind : {"extend_after", "extend_before"}, at : Node, todo : Batch,
          nodes : Batch]

ResultType == {Ok, AssertFailed}
    \cup {NodeAlreadyInContainer(n) : n \in Node}
    \cup {PositionNodeNotInContainer(n) : n \in Node}
    \cup {CurrentNodeNotLinked(n) : n \in Node}

TypeOK == /\ ctx \in Ctx
          /\ op \in OpType
          /\ ret \in ResultType

Nothing == [c \in Container |-> <<>>]

Init == ctx = EmptyCtx /\ op = Idle /\ ret = Ok /\ before = Nothing

Calls == op = Idle /\ ret # AssertFailed

-----------------------------------------------------------------------------
(* Methods that are one step. *)

DoPushFront(c, n) ==
    /\ Calls
    /\ ret' = PushResult(ctx, n)
    /\ ctx' = IF ret' = Ok THEN PushFront(ctx, c, n) ELSE ctx
    /\ UNCHANGED <<op, before>>

DoPushBack(c, n) ==
    /\ Calls
    /\ ret' = PushResult(ctx, n)
    /\ ctx' = IF ret' = Ok THEN PushBack(ctx, c, n) ELSE ctx
    /\ UNCHANGED <<op, before>>

DoInsertAfter(m, n) ==
    /\ Calls
    /\ ret' = InsertResult(ctx, m, n)
    /\ ctx' = IF ret' = Ok THEN InsertAfter(ctx, m, n) ELSE ctx
    /\ UNCHANGED <<op, before>>

DoInsertBefore(m, n) ==
    /\ Calls
    /\ ret' = InsertResult(ctx, m, n)
    /\ ctx' = IF ret' = Ok THEN InsertBefore(ctx, m, n) ELSE ctx
    /\ UNCHANGED <<op, before>>

DoUnlink(n) ==
    /\ Calls
    /\ ctx' = Unlink(ctx, n)
    /\ UNCHANGED <<op, ret, before>>

-----------------------------------------------------------------------------
(* append: every node of other, from its head on, is unlinked and pushed   *)
(* to the back of self; its next is read before it is unlinked.            *)

AppendCall(self, other) ==
    /\ Calls
    /\ op' = [kind |-> "append", self |-> self, other |-> other,
              curr |-> ctx.head[other]]
    /\ before' = Lists(ctx)
    /\ UNCHANGED <<ctx, ret>>

(* Mutation of AppendTurn: next is read after the node has moved. *)
AppendTurnLateNext ==
    /\ op.kind = "append" /\ op.curr # None
    /\ ctx' = PushBack(Unlink(ctx, op.curr), op.self, op.curr)
    /\ op' = [op EXCEPT !.curr = ctx'.next[op.curr]]
    /\ UNCHANGED <<ret, before>>

(* Mutation of AppendTurn: the loop does not advance. *)
AppendTurnStuck ==
    /\ op.kind = "append" /\ op.curr # None
    /\ ctx' = PushBack(Unlink(ctx, op.curr), op.self, op.curr)
    /\ UNCHANGED <<op, ret, before>>

AppendTurn ==
    /\ op.kind = "append" /\ op.curr # None
    /\ ctx' = PushBack(Unlink(ctx, op.curr), op.self, op.curr)
    /\ op' = [op EXCEPT !.curr = ctx.next[op.curr]]
    /\ UNCHANGED <<ret, before>>

AppendReturn ==
    /\ op.kind = "append" /\ op.curr = None
    /\ ret' = IF ctx.head[op.other] = None /\ ctx.tail[op.other] = None
              THEN Ok ELSE AssertFailed
    /\ op' = Idle
    /\ before' = Nothing
    /\ UNCHANGED ctx

-----------------------------------------------------------------------------
(* split: the nodes of self from its tail back to pos, pos excluded, are   *)
(* unlinked and pushed to the front of other.                              *)

SplitReject(self, pos) ==
    /\ Calls
    /\ ctx.container[pos] # self
    /\ ret' = PositionNodeNotInContainer(pos)
    /\ UNCHANGED <<ctx, op, before>>

SplitCall(self, other, pos) ==
    /\ Calls
    /\ ctx.container[pos] = self
    /\ op' = [kind |-> "split", self |-> self, other |-> other, pos |-> pos,
              curr |-> ctx.tail[self]]
    /\ before' = Lists(ctx)
    /\ UNCHANGED <<ctx, ret>>

SplitTurn ==
    /\ op.kind = "split" /\ op.curr \notin {None, op.pos}
    /\ ctx' = PushFront(Unlink(ctx, op.curr), op.other, op.curr)
    /\ op' = [op EXCEPT !.curr = ctx.prev[op.curr]]
    /\ UNCHANGED <<ret, before>>

(* Mutation of SplitReturn: the loop also takes pos. *)
SplitReturnTakesPos ==
    /\ op.kind = "split" /\ op.curr \in {None, op.pos}
    /\ ctx' = PushFront(Unlink(ctx, op.pos), op.other, op.pos)
    /\ ret' = IF ctx'.tail[op.self] = op.pos THEN Ok ELSE AssertFailed
    /\ op' = Idle
    /\ before' = Nothing

SplitReturn ==
    /\ op.kind = "split" /\ op.curr \in {None, op.pos}
    /\ ret' = IF ctx.tail[op.self] = op.pos THEN Ok ELSE AssertFailed
    /\ op' = Idle
    /\ before' = Nothing
    /\ UNCHANGED ctx

-----------------------------------------------------------------------------
(* extend, extend_after and extend_before: one insertion per node of the   *)
(* iterator, until it is exhausted or an insertion fails.  op.nodes is a   *)
(* history: all that the iterator had.                                     *)

ExtendCall(c, nodes) ==
    /\ Calls
    /\ op' = [kind |-> "extend", self |-> c, todo |-> nodes, nodes |-> nodes]
    /\ before' = Lists(ctx)
    /\ UNCHANGED <<ctx, ret>>

ExtendNodeCall(kind, m, nodes) ==
    /\ Calls
    /\ op' = [kind |-> kind, at |-> m, todo |-> nodes, nodes |-> nodes]
    /\ before' = Lists(ctx)
    /\ UNCHANGED <<ctx, ret>>

Extending == op.kind \in {"extend", "extend_after", "extend_before"}

(* What the insertion of the next node answers. *)
TurnResult ==
    IF op.kind = "extend" THEN PushResult(ctx, Head(op.todo))
                          ELSE InsertResult(ctx, op.at, Head(op.todo))

(* Mutation of ExtendTurn: extend_after always inserts after its first node. *)
ExtendTurnFixedLast ==
    /\ Extending /\ op.todo # <<>> /\ TurnResult = Ok
    /\ LET n == Head(op.todo) IN
       ctx' = CASE op.kind = "extend" -> PushBack(ctx, op.self, n)
                [] op.kind = "extend_after" -> InsertAfter(ctx, op.at, n)
                [] op.kind = "extend_before" -> InsertBefore(ctx, op.at, n)
    /\ op' = [op EXCEPT !.todo = Tail(@)]
    /\ UNCHANGED <<ret, before>>

ExtendTurn ==
    /\ Extending /\ op.todo # <<>> /\ TurnResult = Ok
    /\ LET n == Head(op.todo) IN
       \/ /\ op.kind = "extend"
          /\ ctx' = PushBack(ctx, op.self, n)
          /\ op' = [op EXCEPT !.todo = Tail(@)]
       \/ /\ op.kind = "extend_after"
          /\ ctx' = InsertAfter(ctx, op.at, n)
          /\ op' = [op EXCEPT !.todo = Tail(@), !.at = n]
       \/ /\ op.kind = "extend_before"
          /\ ctx' = InsertBefore(ctx, op.at, n)
          /\ op' = [op EXCEPT !.todo = Tail(@)]
    /\ UNCHANGED <<ret, before>>

ExtendFail ==
    /\ Extending /\ op.todo # <<>> /\ TurnResult # Ok
    /\ ret' = TurnResult
    /\ op' = Idle
    /\ before' = Nothing
    /\ UNCHANGED ctx

ExtendReturn ==
    /\ Extending /\ op.todo = <<>>
    /\ ret' = Ok
    /\ op' = Idle
    /\ before' = Nothing
    /\ UNCHANGED ctx

-----------------------------------------------------------------------------
Loop == \/ AppendTurn \/ AppendReturn
        \/ SplitTurn \/ SplitReturn
        \/ ExtendTurn \/ ExtendFail \/ ExtendReturn

Call == \/ \E c \in Container, n \in Node : DoPushFront(c, n) \/ DoPushBack(c, n)
        \/ \E m, n \in Node : DoInsertAfter(m, n) \/ DoInsertBefore(m, n)
        \/ \E n \in Node : DoUnlink(n)
        \/ \E c, o \in Container : AppendCall(c, o)
        \/ \E c \in Container, pos \in Node : SplitReject(c, pos)
        \/ \E c, o \in Container, pos \in Node : SplitCall(c, o, pos)
        \/ \E c \in Container, s \in Batch : ExtendCall(c, s)
        \/ \E kind \in {"extend_after", "extend_before"}, m \in Node, s \in Batch :
              ExtendNodeCall(kind, m, s)

Next == Call \/ Loop

Spec == Init /\ [][Next]_vars

(* The thread keeps running the loop it is in. *)
FairSpec == Spec /\ WF_vars(Loop)

-----------------------------------------------------------------------------
(* The doubly linked structure is intact after every turn of every loop,   *)
(* not only between calls: next and prev are inverse, heads and tails are  *)
(* the ends, unlinked nodes have no links.                                 *)
LinksConsistent == LocallyLinked(ctx)

(* Walking a container forward from its head meets exactly the nodes that  *)
(* name it as their container, each once, and walking backward from its    *)
(* tail meets them in the opposite order: no node is lost in a cycle or    *)
(* reachable from two containers.                                          *)
WalksMeetMembers ==
    \A c \in Container :
        LET forward == Walk(ctx.next, ctx.head[c], Cardinality(Node))
            backward == Walk(ctx.prev, ctx.tail[c], Cardinality(Node))
            len == Cardinality(Members(ctx, c))
        IN /\ Len(forward) = len /\ Len(backward) = len
           /\ {forward[i] : i \in 1 .. len} = Members(ctx, c)
           /\ \A i \in 1 .. len : backward[i] = forward[len + 1 - i]

SelfAppend == op.kind = "append" /\ op.self = op.other

(* The debug_assert!()s of append and split hold (append leaves other      *)
(* empty, split leaves pos at the tail) but for one call: appending a list *)
(* to itself.                                                              *)
OnlySelfAppendFails == [][ret' = AssertFailed => SelfAppend]_ret

(* Every loop ends, but for the same call: nodes pushed back to the list   *)
(* they are taken from are met again.                                      *)
LoopsEnd == [](op # Idle /\ ~SelfAppend => <>(op = Idle))

(* An extend that succeeds has placed its nodes next to one another, in    *)
(* the order of the iterator, although each is inserted on its own.        *)
ExtendsInOrder ==
    [][Extending /\ op' = Idle /\ ret' = Ok =>
         \E c \in Container :
            LET list == Lists(ctx')[c] IN
            \E i \in 0 .. (Len(list) - Len(op.nodes)) :
               SubSeq(list, i + 1, i + Len(op.nodes)) = op.nodes]_op

(* Every operation, once it has returned, has had the effect and the       *)
(* result of one atomic edit of sequences, although the nodes moved one    *)
(* turn at a time.                                                         *)
Shown == IF op = Idle THEN Lists(ctx) ELSE before

Seqs == INSTANCE ListSeq WITH lists <- Shown, ret <- ret

ImplementsSeqs == Seqs!Spec
=============================================================================
