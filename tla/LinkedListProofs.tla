-------------------------- MODULE LinkedListProofs --------------------------
(***************************************************************************)
(* Every program that uses the methods of infra/linked_list.rs keeps the   *)
(* doubly linked structure, in the middle of their loops too, and every    *)
(* walk with a cursor visits what it should while its client edits the     *)
(* list.                                                                   *)
(***************************************************************************)
EXTENDS LinkedList, LinkedListCursor, LinkedListOpsProofs, FiniteSetTheorems

USE NoneAssumption, ClientAssumption DEF NoneAssumption, ClientAssumption

Inv == TypeOK /\ LinksConsistent /\ Ordered(ctx)

LEMMA InvSound == Inv => Sound(ctx) /\ Ordered(ctx)
BY DEF Inv, TypeOK, LinksConsistent, Sound

(* The kinds of loop tell which variables a loop has. *)
LEMMA OpKinds ==
    ASSUME op \in OpType
    PROVE  /\ op.kind = "append" =>
                op \in [kind : {"append"}, self : Container, other : Container,
                       curr : Node \cup {None}]
           /\ op.kind = "split" =>
                op \in [kind : {"split"}, self : Container, other : Container,
                       pos : Node, curr : Node \cup {None}]
           /\ op.kind = "extend" =>
                op \in [kind : {"extend"}, self : Container, todo : Batch, nodes : Batch]
           /\ op.kind \in {"extend_after", "extend_before"} =>
                op \in [kind : {"extend_after", "extend_before"}, at : Node, todo : Batch,
                       nodes : Batch]
BY DEF OpType, Idle

LEMMA BatchTail ==
    ASSUME NEW s \in Batch, s # <<>>
    PROVE  Head(s) \in Node /\ Tail(s) \in Batch
<1>1. PICK k \in 0 .. MaxBatch : s \in [1 .. k -> Node]
    BY DEF Batch
<1>2. s \in Seq(Node) /\ Len(s) = k
    BY <1>1
<1>3. k # 0
    BY <1>2
<1>4. /\ Head(s) \in Node
      /\ Tail(s) \in Seq(Node) /\ Len(Tail(s)) = k - 1
    BY <1>2, HeadTailProperties
<1>5. Tail(s) \in [1 .. (k - 1) -> Node]
    BY <1>4, LenProperties
<1>6. k - 1 \in 0 .. MaxBatch
    BY <1>3
<1> QED BY <1>4, <1>5, <1>6 DEF Batch

(* A change of the context that keeps it sound, with a result and a loop   *)
(* of the right types, keeps the invariant.                                *)
LEMMA KeepInv ==
    ASSUME Sound(ctx'), Ordered(ctx'), op' \in OpType, ret' \in ResultType
    PROVE  Inv'
BY DEF Inv, TypeOK, LinksConsistent, Sound

LEMMA InitInv == Init => Inv
<1> SUFFICES ASSUME Init PROVE Inv
    OBVIOUS
<1>1. Sound(ctx) /\ Ordered(ctx)
    BY EmptySound, EmptyOrdered DEF Init
<1>2. op \in OpType /\ ret \in ResultType
    BY DEF Init, OpType, ResultType, Idle
<1> QED BY <1>1, <1>2 DEF Inv, TypeOK, LinksConsistent, Sound

LEMMA CallInv == ASSUME Inv, Call PROVE Inv'
<1>1. /\ Sound(ctx) /\ Ordered(ctx) /\ op \in OpType /\ ret \in ResultType
      /\ Ok \in ResultType
    BY InvSound DEF Inv, TypeOK, ResultType
<1>2. \A n \in Node : /\ ctx.container[n] \in Container \cup {None}
                      /\ NodeAlreadyInContainer(n) \in ResultType
                      /\ CurrentNodeNotLinked(n) \in ResultType
                      /\ PositionNodeNotInContainer(n) \in ResultType
    BY <1>1 DEF Sound, Ctx, ResultType
<1>3. \A c \in Container : /\ ctx.head[c] \in Node \cup {None}
                           /\ ctx.tail[c] \in Node \cup {None}
    BY <1>1 DEF Sound, Ctx
<1>4. ASSUME NEW n \in Node
      PROVE  /\ PushResult(ctx, n) \in ResultType
             /\ PushResult(ctx, n) = Ok => ctx.container[n] = None
    BY <1>1, <1>2 DEF PushResult, NodeAlreadyInContainer, Ok
<1>5. ASSUME NEW m \in Node, NEW n \in Node
      PROVE  /\ InsertResult(ctx, m, n) \in ResultType
             /\ InsertResult(ctx, m, n) = Ok =>
                   ctx.container[m] # None /\ ctx.container[n] = None
    BY <1>1, <1>2 DEF InsertResult, NodeAlreadyInContainer, CurrentNodeNotLinked, Ok
<1>6. ASSUME NEW c \in Container, NEW n \in Node, DoPushFront(c, n) PROVE Inv'
    BY <1>1, <1>4, <1>6, PushFrontSound, PushOrdered, KeepInv DEF DoPushFront
<1>7. ASSUME NEW c \in Container, NEW n \in Node, DoPushBack(c, n) PROVE Inv'
    BY <1>1, <1>4, <1>7, PushBackSound, PushOrdered, KeepInv DEF DoPushBack
<1>8. ASSUME NEW m \in Node, NEW n \in Node, DoInsertAfter(m, n) PROVE Inv'
    BY <1>1, <1>5, <1>8, InsertAfterSound, InsertAfterOrdered, KeepInv DEF DoInsertAfter
<1>9. ASSUME NEW m \in Node, NEW n \in Node, DoInsertBefore(m, n) PROVE Inv'
    BY <1>1, <1>5, <1>9, InsertBeforeSound, InsertBeforeOrdered, KeepInv DEF DoInsertBefore
<1>10. ASSUME NEW n \in Node, DoUnlink(n) PROVE Inv'
    BY <1>1, <1>10, UnlinkSound, UnlinkOrdered, KeepInv DEF DoUnlink
<1>11. ASSUME NEW c \in Container, NEW o \in Container, AppendCall(c, o) PROVE Inv'
    BY <1>1, <1>3, <1>11, KeepInv DEF AppendCall, OpType
<1>12. ASSUME NEW c \in Container, NEW n \in Node, SplitReject(c, n) PROVE Inv'
    BY <1>1, <1>2, <1>12, KeepInv DEF SplitReject
<1>13. ASSUME NEW c \in Container, NEW o \in Container, NEW n \in Node,
              SplitCall(c, o, n)
       PROVE  Inv'
    BY <1>1, <1>3, <1>13, KeepInv DEF SplitCall, OpType
<1>14. ASSUME NEW c \in Container, NEW s \in Batch, ExtendCall(c, s) PROVE Inv'
    BY <1>1, <1>14, KeepInv DEF ExtendCall, OpType
<1>15. ASSUME NEW kind \in {"extend_after", "extend_before"}, NEW m \in Node,
              NEW s \in Batch, ExtendNodeCall(kind, m, s)
       PROVE  Inv'
    BY <1>1, <1>15, KeepInv DEF ExtendNodeCall, OpType
<1> QED BY <1>6, <1>7, <1>8, <1>9, <1>10, <1>11, <1>12, <1>13, <1>14, <1>15 DEF Call

(* A node that a loop moves is unlinked first, and then pushed. *)
LEMMA MoveSound ==
    ASSUME Sound(ctx), Ordered(ctx), NEW c \in Container, NEW n \in Node
    PROVE  /\ Sound(PushBack(Unlink(ctx, n), c, n))
           /\ Ordered(PushBack(Unlink(ctx, n), c, n))
           /\ Sound(PushFront(Unlink(ctx, n), c, n))
           /\ Ordered(PushFront(Unlink(ctx, n), c, n))
BY UnlinkSound, UnlinkOrdered, PushBackSound, PushFrontSound, PushOrdered

LEMMA LoopInv == ASSUME Inv, Loop PROVE Inv'
<1>1. /\ Sound(ctx) /\ Ordered(ctx) /\ op \in OpType /\ ret \in ResultType
      /\ Ok \in ResultType /\ AssertFailed \in ResultType /\ Idle \in OpType
    BY InvSound DEF Inv, TypeOK, ResultType, OpType
<1>2. \A n \in Node : /\ ctx.next[n] \in Node \cup {None}
                      /\ ctx.prev[n] \in Node \cup {None}
                      /\ NodeAlreadyInContainer(n) \in ResultType
                      /\ CurrentNodeNotLinked(n) \in ResultType
    BY <1>1 DEF Sound, Ctx, ResultType
<1>3. CASE AppendTurn
    <2>1. op.self \in Container /\ op.curr \in Node
        BY <1>1, <1>3, OpKinds DEF AppendTurn
    <2>2. op' \in OpType
        BY <1>1, <1>2, <1>3, <2>1, OpKinds DEF AppendTurn, OpType
    <2> QED BY <1>1, <1>3, <2>1, <2>2, MoveSound, KeepInv DEF AppendTurn
<1>4. CASE AppendReturn
    BY <1>1, <1>4, KeepInv DEF AppendReturn
<1>5. CASE SplitTurn
    <2>1. op.other \in Container /\ op.curr \in Node
        BY <1>1, <1>5, OpKinds DEF SplitTurn
    <2>2. op' \in OpType
        BY <1>1, <1>2, <1>5, <2>1, OpKinds DEF SplitTurn, OpType
    <2> QED BY <1>1, <1>5, <2>1, <2>2, MoveSound, KeepInv DEF SplitTurn
<1>6. CASE SplitReturn
    BY <1>1, <1>6, KeepInv DEF SplitReturn
<1>7. CASE ExtendTurn
    <2> DEFINE n == Head(op.todo)
    <2>1. op.todo \in Batch /\ op.todo # <<>>
        BY <1>1, <1>7, OpKinds DEF ExtendTurn, Extending
    <2>2. n \in Node /\ Tail(op.todo) \in Batch
        BY <2>1, BatchTail
    <2> HIDE DEF n
    <2>3. CASE op.kind = "extend"
        <3>1. op.self \in Container
            BY <1>1, <2>3, OpKinds
        <3>2. op' \in OpType
            BY <1>1, <1>7, <2>2, <2>3, OpKinds DEF ExtendTurn, OpType
        <3>3. ctx.container[n] = None
            BY <1>7, <2>3 DEF ExtendTurn, TurnResult, PushResult, Ok,
                 NodeAlreadyInContainer, n
        <3>4. ctx' = PushBack(ctx, op.self, n) /\ ret' = ret
            BY <1>7, <2>3 DEF ExtendTurn, n
        <3> QED BY <1>1, <2>2, <3>1, <3>2, <3>3, <3>4, PushBackSound, PushOrdered, KeepInv
    <2>4. CASE op.kind \in {"extend_after", "extend_before"}
        <3>1. op.at \in Node
            BY <1>1, <2>4, OpKinds
        <3>2. op' \in OpType
            BY <1>1, <1>7, <2>2, <2>4, OpKinds DEF ExtendTurn, OpType, n
        <3>3. ctx.container[op.at] # None /\ ctx.container[n] = None
            BY <1>7, <2>4 DEF ExtendTurn, TurnResult, InsertResult, Ok,
                 NodeAlreadyInContainer, CurrentNodeNotLinked, n
        <3>4. /\ ctx' \in {InsertAfter(ctx, op.at, n), InsertBefore(ctx, op.at, n)}
              /\ ret' = ret
            BY <1>7, <2>4 DEF ExtendTurn, n
        <3>5. Sound(InsertAfter(ctx, op.at, n)) /\ Ordered(InsertAfter(ctx, op.at, n))
            BY <1>1, <2>2, <3>1, <3>3, InsertAfterSound, InsertAfterOrdered
        <3>6. Sound(InsertBefore(ctx, op.at, n)) /\ Ordered(InsertBefore(ctx, op.at, n))
            BY <1>1, <2>2, <3>1, <3>3, InsertBeforeSound, InsertBeforeOrdered
        <3> QED BY <1>1, <3>2, <3>4, <3>5, <3>6, KeepInv
    <2> QED BY <1>7, <2>3, <2>4 DEF ExtendTurn, Extending
<1>8. CASE ExtendFail
    <2>1. op.todo \in Batch /\ op.todo # <<>>
        BY <1>1, <1>8, OpKinds DEF ExtendFail, Extending
    <2>2. Head(op.todo) \in Node
        BY <2>1, BatchTail
    <2>3. op.kind # "extend" => op.at \in Node
        BY <1>1, <1>8, OpKinds DEF ExtendFail, Extending
    <2>4. TurnResult \in ResultType
        BY <1>1, <1>2, <2>2, <2>3 DEF TurnResult, PushResult, InsertResult
    <2> QED BY <1>1, <1>8, <2>4, KeepInv DEF ExtendFail
<1>9. CASE ExtendReturn
    BY <1>1, <1>9, KeepInv DEF ExtendReturn
<1> QED BY <1>3, <1>4, <1>5, <1>6, <1>7, <1>8, <1>9 DEF Loop

LEMMA NextInv == Inv /\ [Next]_vars => Inv'
<1> SUFFICES ASSUME Inv, [Next]_vars PROVE Inv'
    OBVIOUS
<1>1. CASE UNCHANGED vars
    BY <1>1, KeepInv, InvSound DEF vars, Inv, TypeOK
<1> QED BY <1>1, CallInv, LoopInv DEF Next

(* The context, the loop in progress and the results keep their types. *)
THEOREM TypeCorrect == Spec => []TypeOK
<1>1. Inv => TypeOK
    BY DEF Inv
<1> QED BY InitInv, NextInv, <1>1, PTL DEF Spec

(* The lists stay doubly linked, through every turn of append, split and   *)
(* the extends, for any number of nodes and containers.                    *)
THEOREM LinksStayConsistent == Spec => []LinksConsistent
<1>1. Inv => LinksConsistent
    BY DEF Inv
<1> QED BY InitInv, NextInv, <1>1, PTL DEF Spec

(* No list is ever a circle, in the middle of a loop either: along next a  *)
(* rank grows, so that every walk of a list ends.                          *)
THEOREM ListsStayOrdered == Spec => []Ordered(ctx)
<1>1. Inv => Ordered(ctx)
    BY DEF Inv
<1> QED BY InitInv, NextInv, <1>1, PTL DEF Spec

-----------------------------------------------------------------------------
(***************************************************************************)
(* The walks of an iterator spell the sequences that the links are in the  *)
(* order of.                                                               *)
(***************************************************************************)

LEMMA OrderedLength ==
    ASSUME NEW h, NEW L, InOrder(h, L), NEW c \in Container
    PROVE  Len(L[c]) \in Nat /\ Len(L[c]) <= Cardinality(Node) /\ Cardinality(Node) \in Nat
<1> DEFINE s == L[c]
<1>1. s \in Seq(Node) /\ \A i, j \in 1 .. Len(s) : s[i] = s[j] => i = j
    BY DEF InOrder
<1> HIDE DEF s
<1>2. Len(s) \in Nat /\ s \in [1 .. Len(s) -> Node]
    BY <1>1, LenProperties
<1>3. s \in Injection(1 .. Len(s), Node)
    BY <1>1, <1>2 DEF Injection, IsInjective
<1>4. Cardinality(1 .. Len(s)) <= Cardinality(Node)
    BY <1>3, FS_Injection
<1>5. Cardinality(1 .. Len(s)) = Len(s)
    BY <1>2, FS_Interval
<1>6. Cardinality(Node) \in Nat
    BY FS_CardinalityType
<1> QED BY <1>2, <1>4, <1>5, <1>6 DEF s

LEMMA ForwardWalk ==
    ASSUME NEW h, NEW L, InOrder(h, L), NEW c \in Container
    PROVE  Walk(h.next, h.head[c], Cardinality(Node)) = L[c]
<1> DEFINE s == L[c]
<1>1. Len(s) <= Cardinality(Node) /\ Cardinality(Node) \in Nat
    BY OrderedLength
<1>2. /\ s \in Seq(Node)
      /\ h.head[c] = IF Len(s) = 0 THEN None ELSE s[1]
      /\ \A i \in 1 .. Len(s) : h.next[s[i]] = IF i = Len(s) THEN None ELSE s[i + 1]
    BY DEF InOrder
<1> HIDE DEF s
<1>3. Walk(h.next, h.head[c], Cardinality(Node)) = s
    BY <1>1, <1>2, WalkMeets
<1> QED BY <1>3 DEF s

LEMMA ListsOf ==
    ASSUME NEW h, NEW L, InOrder(h, L)
    PROVE  Lists(h) = L
<1>1. L \in [Container -> Seq(Node)]
    BY DEF InOrder
<1>2. \A c \in Container : Walk(h.next, h.head[c], Cardinality(Node)) = L[c]
    BY ForwardWalk
<1> QED BY <1>1, <1>2 DEF Lists

Mirrored(s) == [i \in 1 .. Len(s) |-> s[Len(s) + 1 - i]]

LEMMA BackwardWalk ==
    ASSUME NEW h, NEW L, InOrder(h, L), NEW c \in Container
    PROVE  Walk(h.prev, h.tail[c], Cardinality(Node)) = Mirrored(L[c])
<1> DEFINE s == L[c]
           r == Mirrored(s)
<1>1. Len(s) <= Cardinality(Node) /\ Cardinality(Node) \in Nat
    BY OrderedLength
<1>2. /\ s \in Seq(Node)
      /\ h.tail[c] = IF Len(s) = 0 THEN None ELSE s[Len(s)]
      /\ \A i \in 1 .. Len(s) : h.prev[s[i]] = IF i = 1 THEN None ELSE s[i - 1]
    BY DEF InOrder
<1> HIDE DEF s
<1>3. Len(s) \in Nat /\ \A i \in 1 .. Len(s) : s[i] \in Node
    BY <1>2
<1>4. r \in Seq(Node) /\ Len(r) = Len(s) /\ \A i \in 1 .. Len(s) : r[i] = s[Len(s) + 1 - i]
    <2>1. \A i \in 1 .. Len(s) : Len(s) + 1 - i \in 1 .. Len(s)
        BY <1>3
    <2>2. r \in [1 .. Len(s) -> Node]
        BY <1>3, <2>1 DEF Mirrored
    <2> QED BY <1>3, <2>2 DEF Mirrored
<1> HIDE DEF r
<1>5. ASSUME NEW i \in 1 .. Len(r)
      PROVE  h.prev[r[i]] = IF i = Len(r) THEN None ELSE r[i + 1]
    <2> DEFINE j == Len(s) + 1 - i
    <2>1. j \in 1 .. Len(s) /\ (j = 1 <=> i = Len(r)) /\ r[i] = s[j]
        BY <1>3, <1>4
    <2>2. i # Len(r) => i + 1 \in 1 .. Len(s) /\ Len(s) + 1 - (i + 1) = j - 1
        BY <1>3, <1>4
    <2> HIDE DEF j
    <2>3. i # Len(r) => r[i + 1] = s[j - 1]
        BY <1>4, <2>2
    <2> QED BY <1>2, <2>1, <2>3
<1>6. h.tail[c] = IF Len(r) = 0 THEN None ELSE r[1]
    <2>1. Len(s) # 0 => 1 \in 1 .. Len(s) /\ Len(s) + 1 - 1 = Len(s)
        BY <1>3
    <2> QED BY <1>2, <1>4, <2>1
<1>7. Walk(h.prev, h.tail[c], Cardinality(Node)) = r
    BY <1>1, <1>4, <1>5, <1>6, WalkMeets
<1> QED BY <1>7 DEF r, s

LEMMA CountMembers ==
    ASSUME NEW h, NEW L, InOrder(h, L), NEW c \in Container
    PROVE  /\ Members(h, c) = {L[c][i] : i \in 1 .. Len(L[c])}
           /\ Cardinality(Members(h, c)) = Len(L[c])
<1> DEFINE s == L[c]
<1>1. s \in Seq(Node) /\ \A i, j \in 1 .. Len(s) : s[i] = s[j] => i = j
    BY DEF InOrder
<1>2. \A i \in 1 .. Len(s) : s[i] \in Node /\ h.container[s[i]] = c
    BY <1>1 DEF InOrder
<1>3. \A n \in Node : h.container[n] = c => \E i \in 1 .. Len(s) : s[i] = n
    BY DEF InOrder
<1>4. Members(h, c) = {s[i] : i \in 1 .. Len(s)}
    BY <1>2, <1>3 DEF Members
<1> HIDE DEF s
<1>5. Len(s) \in Nat /\ s \in [1 .. Len(s) -> Node]
    BY <1>1, LenProperties
<1>6. s \in Bijection(1 .. Len(s), Members(h, c))
    <2>1. s \in [1 .. Len(s) -> Members(h, c)]
        BY <1>4, <1>5
    <2> QED BY <1>1, <1>4, <2>1 DEF Bijection, Injection, IsInjective, Surjection
<1>7. ExistsBijection(1 .. Len(s), Members(h, c))
    BY <1>6 DEF ExistsBijection
<1>8. Cardinality(Members(h, c)) = Len(s)
    BY <1>5, <1>7, FS_CountingElements
<1> QED BY <1>4, <1>8 DEF s

LEMMA WalksOf ==
    ASSUME NEW L, InOrder(ctx, L)
    PROVE  WalksMeetMembers
<1> SUFFICES ASSUME NEW c \in Container
             PROVE  LET forward == Walk(ctx.next, ctx.head[c], Cardinality(Node))
                        backward == Walk(ctx.prev, ctx.tail[c], Cardinality(Node))
                        len == Cardinality(Members(ctx, c))
                    IN /\ Len(forward) = len /\ Len(backward) = len
                       /\ {forward[i] : i \in 1 .. len} = Members(ctx, c)
                       /\ \A i \in 1 .. len : backward[i] = forward[len + 1 - i]
    BY DEF WalksMeetMembers
<1> DEFINE s == L[c]
<1>1. /\ Walk(ctx.next, ctx.head[c], Cardinality(Node)) = s
      /\ Walk(ctx.prev, ctx.tail[c], Cardinality(Node)) = Mirrored(s)
      /\ Members(ctx, c) = {s[i] : i \in 1 .. Len(s)}
      /\ Cardinality(Members(ctx, c)) = Len(s)
    BY ForwardWalk, BackwardWalk, CountMembers
<1>2. Len(s) \in Nat
    BY OrderedLength
<1> HIDE DEF s
<1>3. Len(Mirrored(s)) = Len(s) /\ \A i \in 1 .. Len(s) : Mirrored(s)[i] = s[Len(s) + 1 - i]
    BY <1>2 DEF Mirrored
<1> QED BY <1>1, <1>3

-----------------------------------------------------------------------------
(***************************************************************************)
(* The sequence of every container, and what a running loop has made of    *)
(* the sequences it started from.                                          *)
(***************************************************************************)

(* No node is in two places. *)
Apart(B) ==
    /\ B \in [Container -> Seq(Node)]
    /\ \A c, d \in Container : \A i \in 1 .. Len(B[c]), j \in 1 .. Len(B[d]) :
          B[c][i] = B[d][j] => c = d /\ i = j

(* append of other to self, from B to L so far: the nodes a have moved,    *)
(* the nodes b have not.  A list that is appended to itself turns, unless  *)
(* it has one node.                                                        *)
AppendState(o, B, L) ==
    IF o.self # o.other
    THEN \E a, b \in Seq(Node) :
            /\ B[o.other] = a \o b
            /\ L = [[B EXCEPT ![o.self] = @ \o a] EXCEPT ![o.other] = b]
            /\ o.curr = IF b = <<>> THEN None ELSE b[1]
    ELSE /\ Len(L[o.self]) <= 1 => L = B
         /\ o.curr = None => Len(L[o.self]) <= 1
         /\ o.curr # None => L[o.self] # <<>> /\ o.curr = L[o.self][1]

(* split of self, from B to L so far: the nodes b have moved, a has not,   *)
(* and the position is still in a.                                         *)
SplitState(o, B, L) ==
    \E a, b \in Seq(Node) :
       /\ B[o.self] = a \o b
       /\ L = IF o.self = o.other
              THEN [B EXCEPT ![o.self] = b \o a]
              ELSE [[B EXCEPT ![o.self] = a] EXCEPT ![o.other] = b \o @]
       /\ \E i \in 1 .. Len(a) : a[i] = o.pos
       /\ o.curr = a[Len(a)]

(* An extend that has placed the nodes a between x and y, or that has no   *)
(* place to start from.                                                    *)
ExtendState(o, B, L) ==
    \E a \in Seq(Node) :
       /\ o.nodes = a \o o.todo
       /\ \/ \E c \in Container : \E x, y \in Seq(Node) :
                /\ B[c] = x \o y
                /\ L = [B EXCEPT ![c] = (x \o a) \o y]
                /\ o.kind = "extend" => c = o.self /\ y = <<>>
                /\ o.kind = "extend_after" =>
                      x # <<>> /\ o.at = (x \o a)[Len(x \o a)]
                /\ o.kind = "extend_before" => y # <<>> /\ o.at = y[1]
          \/ /\ o.kind # "extend" /\ a = <<>> /\ L = B
             /\ \A c \in Container : \A i \in 1 .. Len(B[c]) : B[c][i] # o.at

LoopState(o, B, L) ==
    /\ o.kind # "idle" => Apart(B)
    /\ o.kind = "append" => AppendState(o, B, L)
    /\ o.kind = "split" => SplitState(o, B, L)
    /\ o.kind \in {"extend", "extend_after", "extend_before"} => ExtendState(o, B, L)

OrderInv ==
    /\ Inv
    /\ InOrder(ctx, Lists(ctx))
    /\ LoopState(op, before, Lists(ctx))

LEMMA ApartOf ==
    ASSUME NEW h, NEW L, InOrder(h, L)
    PROVE  Apart(L)
BY DEF Apart, InOrder

(* A sequence taken apart at its first and at its last element. *)
LEMMA FirstApart ==
    ASSUME NEW s \in Seq(Node), s # <<>>
    PROVE  \E y \in Seq(Node) : s = <<s[1]>> \o y
<1>1. 1 \in 1 .. Len(s)
    OBVIOUS
<1>2. PICK x \in Seq(Node), y \in Seq(Node) : s = (x \o <<s[1]>>) \o y /\ Len(x) = 1 - 1
    BY <1>1, Surrounded
<1>3. x = <<>> /\ <<s[1]>> \in Seq(Node)
    BY <1>1, <1>2
<1>4. x \o <<s[1]>> = <<s[1]>>
    BY <1>3, ConcatEmptySeq
<1> QED BY <1>2, <1>4

LEMMA LastApart ==
    ASSUME NEW s \in Seq(Node), s # <<>>
    PROVE  \E x \in Seq(Node) : s = x \o <<s[Len(s)]>>
<1> DEFINE n == s[Len(s)]
<1>1. Len(s) \in 1 .. Len(s) /\ Len(s) \in Nat /\ n \in Node
    OBVIOUS
<1>2. PICK x \in Seq(Node), y \in Seq(Node) : s = (x \o <<n>>) \o y /\ Len(x) = Len(s) - 1
    BY <1>1, Surrounded
<1> HIDE DEF n
<1>3. Len((x \o <<n>>) \o y) = Len(x) + 1 + Len(y)
    BY <1>1, ThreeParts
<1>4. y = <<>>
    BY <1>1, <1>2, <1>3
<1>5. x \o <<n>> \in Seq(Node)
    BY <1>1, ConcatProperties
<1>6. (x \o <<n>>) \o y = x \o <<n>>
    BY <1>4, <1>5, ConcatEmptySeq
<1>7. s = x \o <<n>>
    BY <1>2, <1>6
<1> QED BY <1>7 DEF n

LEMMA FirstPart ==
    ASSUME NEW n \in Node, NEW y \in Seq(Node), NEW s, s = <<n>> \o y
    PROVE  /\ s \in Seq(Node) /\ Len(s) = Len(y) + 1 /\ Len(y) \in Nat /\ s[1] = n
           /\ (Len(s) = 1 <=> y = <<>>)
           /\ y # <<>> => 2 \in 1 .. Len(s) /\ s[2] = y[1]
<1>1. <<n>> \in Seq(Node) /\ Len(<<n>>) = 1 /\ Len(y) \in Nat /\ <<n>>[1] = n
    OBVIOUS
<1>2. /\ s \in Seq(Node) /\ Len(s) = 1 + Len(y)
      /\ \A i \in 1 .. (1 + Len(y)) : s[i] = IF i <= 1 THEN <<n>>[i] ELSE y[i - 1]
    BY <1>1, ConcatProperties
<1>3. y # <<>> => Len(y) # 0
    OBVIOUS
<1>4. 1 \in 1 .. (1 + Len(y)) /\ (Len(y) # 0 => 2 \in 1 .. (1 + Len(y))) /\ 2 - 1 = 1
    BY <1>1
<1>5. y = <<>> => Len(y) = 0
    OBVIOUS
<1> QED BY <1>1, <1>2, <1>3, <1>4, <1>5

LEMMA LastPart ==
    ASSUME NEW n \in Node, NEW x \in Seq(Node), NEW s, s = x \o <<n>>
    PROVE  /\ s \in Seq(Node) /\ Len(s) = Len(x) + 1 /\ Len(x) \in Nat /\ s[Len(s)] = n
           /\ (Len(s) = 1 <=> x = <<>>)
           /\ \A i \in 1 .. Len(x) : s[i] = x[i]
<1>1. <<n>> \in Seq(Node) /\ Len(<<n>>) = 1 /\ Len(x) \in Nat /\ <<n>>[1] = n
    OBVIOUS
<1>2. /\ s \in Seq(Node) /\ Len(s) = Len(x) + 1
      /\ \A i \in 1 .. (Len(x) + 1) : s[i] = IF i <= Len(x) THEN x[i] ELSE <<n>>[i - Len(x)]
    BY <1>1, ConcatProperties
<1>3. x # <<>> <=> Len(x) # 0
    OBVIOUS
<1>4. /\ Len(x) + 1 \in 1 .. (Len(x) + 1) /\ ~ (Len(x) + 1 <= Len(x))
      /\ (Len(x) + 1) - Len(x) = 1
    BY <1>1
<1> QED BY <1>1, <1>2, <1>3, <1>4

LEMMA Regroup ==
    \A x, y, z \in Seq(Node) : (x \o y) \o z = x \o (y \o z)
BY ConcatAssociative

LEMMA RegroupNode ==
    ASSUME NEW x \in Seq(Node), NEW y \in Seq(Node), NEW n \in Node
    PROVE  /\ (x \o y) \o <<n>> = x \o (y \o <<n>>)
           /\ (x \o <<n>>) \o y = x \o (<<n>> \o y)
           /\ (<<n>> \o x) \o y = <<n>> \o (x \o y)
<1>1. PICK t \in Seq(Node) : t = <<n>>
    <2>1. <<n>> \in Seq(Node)
        OBVIOUS
    <2> QED BY <2>1, Zenon
<1>2. (x \o y) \o t = x \o (y \o t)
    BY Regroup
<1>3. (x \o t) \o y = x \o (t \o y)
    BY Regroup
<1>4. (t \o x) \o y = t \o (x \o y)
    BY Regroup
<1> QED BY <1>1, <1>2, <1>3, <1>4

LEMMA MovedBack ==
    ASSUME NEW B \in [Container -> Seq(Node)], NEW c \in Container, NEW d \in Container,
           c # d, NEW a \in Seq(Node), NEW b \in Seq(Node), NEW y \in Seq(Node), NEW n \in Node
    PROVE  [[[[B EXCEPT ![c] = @ \o a] EXCEPT ![d] = b] EXCEPT ![d] = y]
                EXCEPT ![c] = @ \o <<n>>]
             = [[B EXCEPT ![c] = @ \o (a \o <<n>>)] EXCEPT ![d] = y]
<1>1. (B[c] \o a) \o <<n>> = B[c] \o (a \o <<n>>)
    <2>1. B[c] \in Seq(Node) /\ <<n>> \in Seq(Node)
        OBVIOUS
    <2> QED BY <2>1, Regroup
<1> QED BY <1>1

(* One turn of append. *)
LEMMA AppendTurnState ==
    ASSUME NEW h, Sound(h), NEW L, InOrder(h, L), NEW B, Apart(B),
           NEW o \in [kind : {"append"}, self : Container, other : Container,
                      curr : Node \cup {None}],
           AppendState(o, B, L), o.curr # None
    PROVE  \E M : /\ InOrder(PushBack(Unlink(h, o.curr), o.self, o.curr), M)
                  /\ AppendState([o EXCEPT !.curr = h.next[o.curr]], B, M)
<1> DEFINE c == o.self
           d == o.other
           n == o.curr
           p == [o EXCEPT !.curr = h.next[n]]
           M(y) == [[L EXCEPT ![d] = y] EXCEPT ![c] = @ \o <<n>>]
<1>1. /\ c \in Container /\ d \in Container /\ n \in Node
      /\ L \in [Container -> Seq(Node)] /\ B \in [Container -> Seq(Node)]
      /\ p.self = c /\ p.other = d /\ p.curr = h.next[n]
    BY DEF InOrder, Apart
<1>2. <<n>> \in Seq(Node)
    BY <1>1
<1>3. ASSUME L[d] # <<>>, n = L[d][1]
      PROVE  \E y \in Seq(Node) :
                /\ L[d] = <<n>> \o y
                /\ h.next[n] = IF y = <<>> THEN None ELSE y[1]
                /\ InOrder(PushBack(Unlink(h, n), c, n), M(y))
    <2> DEFINE s == L[d]
    <2>1. s \in Seq(Node) /\ s # <<>> /\ n = s[1]
        BY <1>1, <1>3
    <2>2. \A i \in 1 .. Len(s) : h.next[s[i]] = IF i = Len(s) THEN None ELSE s[i + 1]
        BY <1>1 DEF InOrder
    <2> HIDE DEF s, n
    <2>3. PICK y \in Seq(Node) : s = <<n>> \o y
        BY <2>1, FirstApart
    <2>4. /\ Len(s) = Len(y) + 1 /\ Len(y) \in Nat /\ s[1] = n
          /\ (Len(s) = 1 <=> y = <<>>) /\ (y # <<>> => s[2] = y[1])
        BY <1>1, <2>3, FirstPart
    <2>5. h.next[s[1]] = IF 1 = Len(s) THEN None ELSE s[2]
        <3>1. 1 \in 1 .. Len(s) /\ 1 + 1 = 2
            BY <2>4
        <3> QED BY <2>2, <3>1
    <2>6. h.next[n] = IF y = <<>> THEN None ELSE y[1]
        BY <2>4, <2>5
    <2> HIDE DEF c, d
    <2>7. L[d] = <<n>> \o y
        BY <2>3 DEF s
    <2>8. InOrder(PushBack(Unlink(h, n), c, n), M(y))
        BY <1>1, <2>7, MoveBackInOrder
    <2> QED BY <2>6, <2>7, <2>8
<1>4. CASE c # d
    <2>1. PICK a \in Seq(Node), b \in Seq(Node) :
             /\ B[d] = a \o b
             /\ L = [[B EXCEPT ![c] = @ \o a] EXCEPT ![d] = b]
             /\ n = IF b = <<>> THEN None ELSE b[1]
        BY <1>4 DEF AppendState
    <2>2. L[d] = b /\ b # <<>> /\ n = b[1]
        BY <1>1, <2>1
    <2>3. PICK y \in Seq(Node) :
             /\ L[d] = <<n>> \o y
             /\ h.next[n] = IF y = <<>> THEN None ELSE y[1]
             /\ InOrder(PushBack(Unlink(h, n), c, n), M(y))
        BY <1>3, <2>2
    <2>4. a \o <<n>> \in Seq(Node) /\ B[d] = (a \o <<n>>) \o y
        BY <1>2, <2>1, <2>2, <2>3, ConcatAssociative, ConcatProperties
    <2>6. M(y) = [[B EXCEPT ![c] = @ \o (a \o <<n>>)] EXCEPT ![d] = y]
        <3> HIDE DEF c, d, n
        <3>1. M(y) = [[[[B EXCEPT ![c] = @ \o a] EXCEPT ![d] = b] EXCEPT ![d] = y]
                        EXCEPT ![c] = @ \o <<n>>]
            BY <2>1
        <3>2. /\ B \in [Container -> Seq(Node)] /\ c \in Container /\ d \in Container
              /\ c # d /\ n \in Node
            BY <1>1, <1>4
        <3> HIDE DEF M
        <3> QED BY <3>1, <3>2, MovedBack
    <2>7. AppendState(p, B, M(y))
        <3> HIDE DEF M, p, c, d, n
        <3>1. p.self # p.other /\ p.curr = IF y = <<>> THEN None ELSE y[1]
            BY <1>1, <1>4, <2>3
        <3> DEFINE Reached(u, v) ==
                      /\ B[p.other] = u \o v
                      /\ M(y) = [[B EXCEPT ![p.self] = @ \o u] EXCEPT ![p.other] = v]
                      /\ p.curr = IF v = <<>> THEN None ELSE v[1]
        <3>2. Reached(a \o <<n>>, y)
            BY <1>1, <2>4, <2>6, <3>1
        <3>3. \E u, v \in Seq(Node) : Reached(u, v)
            <4> HIDE DEF Reached
            <4> QED BY <2>4, <3>2
        <3> QED BY <3>1, <3>3 DEF AppendState
    <2> QED BY <2>3, <2>7
<1>5. CASE c = d
    <2>1. /\ Len(L[c]) <= 1 => L = B
          /\ L[c] # <<>> /\ n = L[c][1]
        BY <1>5 DEF AppendState
    <2>2. PICK y \in Seq(Node) :
             /\ L[d] = <<n>> \o y
             /\ h.next[n] = IF y = <<>> THEN None ELSE y[1]
             /\ InOrder(PushBack(Unlink(h, n), c, n), M(y))
        BY <1>3, <1>5, <2>1
    <2>3. /\ L[c] \in Seq(Node) /\ Len(L[c]) = Len(y) + 1 /\ Len(y) \in Nat
          /\ (Len(L[c]) = 1 <=> y = <<>>)
        BY <1>1, <1>5, <2>2, FirstPart
    <2>4. M(y)[c] = y \o <<n>> /\ M(y) = [L EXCEPT ![c] = y \o <<n>>]
        <3> HIDE DEF c, d, n
        <3> QED BY <1>1, <1>5
    <2>5. Len(y \o <<n>>) = Len(y) + 1 /\ \A i \in 1 .. Len(y) : (y \o <<n>>)[i] = y[i]
        BY <1>1, LastPart
    <2>6. y = <<>> => M(y) = L
        <3>1. y = <<>> => y \o <<n>> = L[c]
            BY <1>2, <1>5, <2>2, ConcatEmptySeq
        <3> HIDE DEF c, n, M
        <3> QED BY <1>1, <2>4, <3>1
    <2>7. Len(M(y)[c]) = Len(y) + 1
        BY <2>4, <2>5
    <2>8. AppendState(p, B, M(y))
        <3> HIDE DEF M, p, c, d, n
        <3>1. Len(M(y)[c]) <= 1 => y = <<>>
            BY <2>3, <2>7
        <3>2. Len(M(y)[c]) <= 1 => M(y) = B
            BY <2>1, <2>3, <2>6, <3>1
        <3>3. y # <<>> => y[1] \in Node /\ y[1] = (y \o <<n>>)[1] /\ y \o <<n>> # <<>>
            <4>1. y # <<>> => 1 \in 1 .. Len(y)
                OBVIOUS
            <4>2. Len(y \o <<n>>) # 0
                BY <2>3, <2>5
            <4> QED BY <2>5, <4>1, <4>2
        <3>4. p.curr = None => y = <<>>
            BY <1>1, <2>2, <3>3
        <3>5. p.curr # None => M(y)[c] # <<>> /\ p.curr = M(y)[c][1]
            BY <1>1, <2>2, <2>4, <3>3
        <3>6. y = <<>> => Len(M(y)[c]) <= 1
            BY <2>3, <2>7
        <3> QED BY <1>1, <1>5, <3>2, <3>4, <3>5, <3>6 DEF AppendState
    <2> QED BY <2>2, <2>8
<1> QED BY <1>4, <1>5

(* One turn of split. *)
LEMMA SplitTurnState ==
    ASSUME NEW h, Sound(h), NEW L, InOrder(h, L), NEW B, Apart(B),
           NEW o \in [kind : {"split"}, self : Container, other : Container, pos : Node,
                      curr : Node \cup {None}],
           SplitState(o, B, L), o.curr # None, o.curr # o.pos
    PROVE  \E M : /\ InOrder(PushFront(Unlink(h, o.curr), o.other, o.curr), M)
                  /\ SplitState([o EXCEPT !.curr = h.prev[o.curr]], B, M)
<1> DEFINE c == o.self
           d == o.other
           n == o.curr
           p == [o EXCEPT !.curr = h.prev[n]]
<1>1. /\ c \in Container /\ d \in Container /\ n \in Node
      /\ L \in [Container -> Seq(Node)] /\ B \in [Container -> Seq(Node)]
      /\ p.self = c /\ p.other = d /\ p.curr = h.prev[n] /\ p.pos = o.pos
      /\ o.pos # n
    BY DEF InOrder, Apart
<1>2. PICK a1 \in Seq(Node), b \in Seq(Node) :
         /\ B[c] = a1 \o b
         /\ L = IF c = d THEN [B EXCEPT ![c] = b \o a1]
                ELSE [[B EXCEPT ![c] = a1] EXCEPT ![d] = b \o @]
         /\ \E i \in 1 .. Len(a1) : a1[i] = o.pos
         /\ n = a1[Len(a1)]
    BY DEF SplitState
<1> HIDE DEF c, d, n, p
<1>3. PICK i \in 1 .. Len(a1) : a1[i] = o.pos
    BY <1>2
<1>4. PICK a \in Seq(Node) : a1 = a \o <<n>>
    <2>1. a1 # <<>>
        BY <1>3
    <2> QED BY <1>2, <2>1, LastApart
<1>5. /\ Len(a1) = Len(a) + 1 /\ Len(a) \in Nat /\ a1[Len(a1)] = n
      /\ \A j \in 1 .. Len(a) : a1[j] = a[j]
    BY <1>1, <1>4, LastPart
<1>6. i \in 1 .. Len(a) /\ a[i] = o.pos
    <2>1. i # Len(a1)
        BY <1>1, <1>2, <1>3
    <2>2. i \in 1 .. Len(a)
        BY <1>5, <2>1
    <2> QED BY <1>3, <1>5, <2>2
<1>7. <<n>> \in Seq(Node) /\ <<n>> \o b \in Seq(Node) /\ b \o a \in Seq(Node)
    BY <1>1, ConcatProperties
<1>8. /\ B[c] = a \o (<<n>> \o b)
      /\ c # d => [[L EXCEPT ![c] = a] EXCEPT ![d] = <<n>> \o @]
                     = [[B EXCEPT ![c] = a] EXCEPT ![d] = (<<n>> \o b) \o @]
      /\ c = d => [[L EXCEPT ![c] = b \o a] EXCEPT ![d] = <<n>> \o @]
                     = [B EXCEPT ![c] = (<<n>> \o b) \o a]
    <2>1. /\ B \in [Container -> Seq(Node)] /\ c \in Container /\ d \in Container
          /\ a \in Seq(Node) /\ b \in Seq(Node) /\ n \in Node
        BY <1>1
    <2>2. /\ B[c] = (a \o <<n>>) \o b
          /\ L = IF c = d THEN [B EXCEPT ![c] = b \o (a \o <<n>>)]
                 ELSE [[B EXCEPT ![c] = a \o <<n>>] EXCEPT ![d] = b \o @]
        BY <1>2, <1>4
    <2>3. B[d] \in Seq(Node)
        BY <2>1
    <2>4. (a \o <<n>>) \o b = a \o (<<n>> \o b)
        BY <2>1, RegroupNode, Zenon
    <2>5. (<<n>> \o b) \o B[d] = <<n>> \o (b \o B[d])
        BY <2>1, <2>3, RegroupNode, Zenon
    <2>6. (<<n>> \o b) \o a = <<n>> \o (b \o a)
        BY <2>1, RegroupNode, Zenon
    <2>7. CASE c = d
        BY <2>1, <2>2, <2>4, <2>6, <2>7
    <2>8. CASE c # d
        BY <2>1, <2>2, <2>4, <2>5, <2>8
    <2> QED BY <2>7, <2>8
<1>9. ASSUME NEW x \in Seq(Node), L[c] = x \o <<n>>
      PROVE  /\ InOrder(PushFront(Unlink(h, n), d, n),
                        [[L EXCEPT ![c] = x] EXCEPT ![d] = <<n>> \o @])
             /\ x # <<>> => h.prev[n] = x[Len(x)]
    <2>1. InOrder(PushFront(Unlink(h, n), d, n),
                  [[L EXCEPT ![c] = x] EXCEPT ![d] = <<n>> \o @])
        BY <1>1, <1>9, MoveFrontInOrder
    <2> DEFINE s == L[c]
    <2>2. /\ Len(s) = Len(x) + 1 /\ Len(x) \in Nat /\ s[Len(s)] = n
          /\ (Len(s) = 1 <=> x = <<>>) /\ \A j \in 1 .. Len(x) : s[j] = x[j]
        BY <1>1, <1>9, LastPart
    <2>3. \A j \in 1 .. Len(s) : h.prev[s[j]] = IF j = 1 THEN None ELSE s[j - 1]
        BY <1>1 DEF InOrder
    <2> HIDE DEF s
    <2>4. Len(s) \in 1 .. Len(s) /\ Len(s) - 1 = Len(x) /\ (Len(s) # 1 => Len(x) \in 1 .. Len(x))
        BY <2>2
    <2>5. x # <<>> => h.prev[n] = x[Len(x)]
        BY <2>2, <2>3, <2>4
    <2> QED BY <2>1, <2>5
<1> DEFINE M == IF c = d THEN [B EXCEPT ![c] = (<<n>> \o b) \o a]
                ELSE [[B EXCEPT ![c] = a] EXCEPT ![d] = (<<n>> \o b) \o @]
<1>10. InOrder(PushFront(Unlink(h, n), d, n), M) /\ h.prev[n] = a[Len(a)]
    <2>0. a # <<>> /\ Len(a) # 0
        BY <1>5, <1>6
    <2>1. CASE c = d
        <3>1. L = [B EXCEPT ![c] = b \o (a \o <<n>>)]
            BY <1>2, <1>4, <2>1
        <3>2. L[c] = (b \o a) \o <<n>>
            <4>1. (b \o a) \o <<n>> = b \o (a \o <<n>>)
                <5>1. n \in Node /\ a \in Seq(Node) /\ b \in Seq(Node)
                    BY <1>1
                <5> QED BY <5>1, RegroupNode
            <4> QED BY <1>1, <3>1, <4>1
        <3>3. /\ InOrder(PushFront(Unlink(h, n), d, n),
                         [[L EXCEPT ![c] = b \o a] EXCEPT ![d] = <<n>> \o @])
              /\ b \o a # <<>> => h.prev[n] = (b \o a)[Len(b \o a)]
            BY <1>7, <1>9, <3>2
        <3>4. b \o a # <<>> /\ (b \o a)[Len(b \o a)] = a[Len(a)]
            <4>1. Len(b) \in Nat
                OBVIOUS
            <4>2. /\ Len(b \o a) = Len(b) + Len(a)
                  /\ \A j \in 1 .. (Len(b) + Len(a)) :
                        (b \o a)[j] = IF j <= Len(b) THEN b[j] ELSE a[j - Len(b)]
                BY ConcatProperties
            <4>3. /\ Len(b) + Len(a) \in 1 .. (Len(b) + Len(a))
                  /\ ~ (Len(b) + Len(a) <= Len(b))
                  /\ (Len(b) + Len(a)) - Len(b) = Len(a) /\ Len(b \o a) # 0
                BY <1>5, <2>0, <4>1, <4>2
            <4> QED BY <4>2, <4>3
        <3> QED BY <1>8, <2>1, <3>1, <3>3, <3>4
    <2>2. CASE c # d
        <3>1. L = [[B EXCEPT ![c] = a \o <<n>>] EXCEPT ![d] = b \o @] /\ L[c] = a \o <<n>>
            BY <1>1, <1>2, <1>4, <2>2
        <3>2. /\ InOrder(PushFront(Unlink(h, n), d, n),
                         [[L EXCEPT ![c] = a] EXCEPT ![d] = <<n>> \o @])
              /\ h.prev[n] = a[Len(a)]
            BY <1>9, <2>0, <3>1
        <3> QED BY <1>8, <2>2, <3>1, <3>2
    <2> QED BY <2>1, <2>2
<1>11. SplitState(p, B, M)
    <2> DEFINE Reached(u, v) ==
                  /\ B[p.self] = u \o v
                  /\ M = IF p.self = p.other
                         THEN [B EXCEPT ![p.self] = v \o u]
                         ELSE [[B EXCEPT ![p.self] = u] EXCEPT ![p.other] = v \o @]
                  /\ \E j \in 1 .. Len(u) : u[j] = p.pos
                  /\ p.curr = u[Len(u)]
    <2>1. Reached(a, <<n>> \o b)
        BY <1>1, <1>6, <1>8, <1>10
    <2>2. \E u, v \in Seq(Node) : Reached(u, v)
        <3> HIDE DEF Reached
        <3> QED BY <1>7, <2>1
    <2> HIDE DEF M
    <2> QED BY <2>2 DEF SplitState
<1> QED BY <1>10, <1>11 DEF c, d, n, p

LEMMA HeadApart ==
    ASSUME NEW s \in Seq(Node), s # <<>>
    PROVE  Head(s) \in Node /\ Tail(s) \in Seq(Node) /\ s = <<Head(s)>> \o Tail(s)
<1>1. PICK y \in Seq(Node) : s = <<s[1]>> \o y
    BY FirstApart
<1>2. s[1] \in Node /\ Head(s) = s[1]
    OBVIOUS
<1>3. /\ Len(s) = 1 + Len(y) /\ Len(y) \in Nat
      /\ \A i \in 1 .. (1 + Len(y)) : s[i] = IF i <= 1 THEN <<s[1]>>[i] ELSE y[i - 1]
    <2>1. <<s[1]>> \in Seq(Node) /\ Len(<<s[1]>>) = 1
        BY <1>2
    <2> QED BY <1>1, <2>1, ConcatProperties
<1>4. /\ Tail(s) \in Seq(Node) /\ Len(Tail(s)) = Len(s) - 1
      /\ \A i \in 1 .. Len(Tail(s)) : Tail(s)[i] = s[i + 1]
    BY HeadTailProperties
<1>5. ASSUME NEW i \in 1 .. Len(y) PROVE s[i + 1] = y[i]
    <2>1. i + 1 \in 1 .. (1 + Len(y)) /\ ~ (i + 1 <= 1) /\ (i + 1) - 1 = i
        BY <1>3
    <2> QED BY <1>3, <2>1
<1>6. Tail(s) = y
    <2>1. Len(Tail(s)) = Len(y)
        BY <1>3, <1>4
    <2>2. \A i \in 1 .. Len(y) : y[i] = Tail(s)[i]
        BY <1>4, <1>5, <2>1
    <2> QED BY <1>4, <2>1, <2>2, SeqEqual
<1> QED BY <1>1, <1>2, <1>4, <1>6

(* One turn of an extend. *)
LEMMA ExtendTurnState ==
    ASSUME NEW h, Sound(h), NEW L, InOrder(h, L), NEW B, Apart(B), NEW o,
           o.todo \in Seq(Node), o.todo # <<>>, ExtendState(o, B, L),
           h.container[Head(o.todo)] = None,
           o.kind = "extend" => o.self \in Container,
           o.kind # "extend" => o.at \in Node /\ h.container[o.at] # None,
           NEW p, p.kind = o.kind, p.nodes = o.nodes, p.todo = Tail(o.todo),
           NEW g,
           \/ /\ o.kind = "extend" /\ p.self = o.self
              /\ g = PushBack(h, o.self, Head(o.todo))
           \/ /\ o.kind = "extend_after" /\ p.at = Head(o.todo)
              /\ g = InsertAfter(h, o.at, Head(o.todo))
           \/ /\ o.kind = "extend_before" /\ p.at = o.at
              /\ g = InsertBefore(h, o.at, Head(o.todo))
    PROVE  \E M : InOrder(g, M) /\ ExtendState(p, B, M)
<1> DEFINE n == Head(o.todo)
<1>1. /\ n \in Node /\ h.container[n] = None
      /\ Tail(o.todo) \in Seq(Node) /\ o.todo = <<n>> \o Tail(o.todo)
    BY HeadApart
<1>2. L \in [Container -> Seq(Node)] /\ B \in [Container -> Seq(Node)]
    BY DEF InOrder, Apart
<1>g. \/ o.kind = "extend" /\ p.self = o.self /\ g = PushBack(h, o.self, n)
      \/ o.kind = "extend_after" /\ p.at = n /\ g = InsertAfter(h, o.at, n)
      \/ o.kind = "extend_before" /\ p.at = o.at /\ g = InsertBefore(h, o.at, n)
    OBVIOUS
<1> HIDE DEF n
<1>3. PICK a \in Seq(Node) :
         /\ o.nodes = a \o o.todo
         /\ \/ \E c \in Container : \E x, y \in Seq(Node) :
                  /\ B[c] = x \o y
                  /\ L = [B EXCEPT ![c] = (x \o a) \o y]
                  /\ o.kind = "extend" => c = o.self /\ y = <<>>
                  /\ o.kind = "extend_after" =>
                        x # <<>> /\ o.at = (x \o a)[Len(x \o a)]
                  /\ o.kind = "extend_before" => y # <<>> /\ o.at = y[1]
            \/ /\ o.kind # "extend" /\ a = <<>> /\ L = B
               /\ \A c \in Container : \A i \in 1 .. Len(B[c]) : B[c][i] # o.at
    BY DEF ExtendState
<1>4. ~ /\ o.kind # "extend" /\ a = <<>> /\ L = B
        /\ \A c \in Container : \A i \in 1 .. Len(B[c]) : B[c][i] # o.at
    <2>1. ASSUME o.kind # "extend" PROVE \E c \in Container : \E i \in 1 .. Len(L[c]) : L[c][i] = o.at
        <3>1. h.container[o.at] \in Container
            BY <2>1 DEF Sound, Ctx
        <3> QED BY <2>1, <3>1 DEF InOrder
    <2> QED BY <2>1
<1>5. PICK c \in Container, x \in Seq(Node), y \in Seq(Node) :
         /\ B[c] = x \o y
         /\ L = [B EXCEPT ![c] = (x \o a) \o y]
         /\ o.kind = "extend" => c = o.self /\ y = <<>>
         /\ o.kind = "extend_after" => x # <<>> /\ o.at = (x \o a)[Len(x \o a)]
         /\ o.kind = "extend_before" => y # <<>> /\ o.at = y[1]
    BY <1>3, <1>4
<1> DEFINE M == [B EXCEPT ![c] = (x \o (a \o <<n>>)) \o y]
<1>6. /\ x \o a \in Seq(Node) /\ a \o <<n>> \in Seq(Node)
      /\ (x \o a) \o <<n>> = x \o (a \o <<n>>) /\ (x \o a) \o <<n>> \in Seq(Node)
    <2>0. n \in Node /\ x \in Seq(Node) /\ a \in Seq(Node)
        BY <1>1
    <2>1. x \o a \in Seq(Node)
        BY <2>0, ConcatProperties
    <2>2. a \o <<n>> \in Seq(Node) /\ (x \o a) \o <<n>> \in Seq(Node)
        BY <2>0, <2>1, LastPart
    <2>3. (x \o a) \o <<n>> = x \o (a \o <<n>>)
        BY <2>0, RegroupNode
    <2> QED BY <2>1, <2>2, <2>3
<1>7. L[c] = (x \o a) \o y /\ [L EXCEPT ![c] = ((x \o a) \o <<n>>) \o y] = M
    BY <1>2, <1>5, <1>6
<1>8. o.nodes = (a \o <<n>>) \o p.todo
    <2>0. n \in Node /\ Tail(o.todo) \in Seq(Node) /\ a \in Seq(Node)
        BY <1>1
    <2>1. (a \o <<n>>) \o Tail(o.todo) = a \o (<<n>> \o Tail(o.todo))
        BY <2>0, RegroupNode
    <2> QED BY <1>1, <1>3, <2>1
<1>9. InOrder(g, M)
    <2>1. CASE o.kind = "extend"
        <3>1. InOrder(PushBack(h, c, n), [L EXCEPT ![c] = @ \o <<n>>])
            BY <1>1, PushEnds
        <3>2. (x \o a) \o y = x \o a /\ ((x \o a) \o <<n>>) \o y = (x \o a) \o <<n>>
            BY <1>5, <1>6, <2>1, ConcatEmptySeq
        <3>3. [L EXCEPT ![c] = @ \o <<n>>] = M
            <4> HIDE DEF M
            <4> QED BY <1>2, <1>7, <3>2
        <3> QED BY <1>5, <1>g, <2>1, <3>1, <3>3
    <2>2. CASE o.kind = "extend_after"
        <3>1. x \o a # <<>>
            BY <1>5, <2>2, ConcatEqualIffEmpty
        <3>2. InOrder(InsertAfter(h, (x \o a)[Len(x \o a)], n),
                      [L EXCEPT ![c] = ((x \o a) \o <<n>>) \o y])
            BY <1>1, <1>6, <1>7, <3>1, InsertAfterBetween
        <3> QED BY <1>5, <1>7, <1>g, <2>2, <3>2
    <2>3. CASE o.kind = "extend_before"
        <3>1. InOrder(InsertBefore(h, y[1], n),
                      [L EXCEPT ![c] = ((x \o a) \o <<n>>) \o y])
            BY <1>1, <1>5, <1>6, <1>7, <2>3, InsertBeforeBetween
        <3> QED BY <1>5, <1>7, <1>g, <2>3, <3>1
    <2> QED BY <1>g, <2>1, <2>2, <2>3
<1>10. o.kind = "extend_after" =>
          p.at = (x \o (a \o <<n>>))[Len(x \o (a \o <<n>>))]
    <2>0. n \in Node /\ x \o a \in Seq(Node)
        BY <1>1, <1>6
    <2>1. ((x \o a) \o <<n>>)[Len((x \o a) \o <<n>>)] = n
        BY <2>0, LastPart
    <2> QED BY <1>6, <1>g, <2>1
<1>11. ExtendState(p, B, M)
    <2> DEFINE Fits(u, d, v, w) ==
                  /\ B[d] = v \o w
                  /\ M = [B EXCEPT ![d] = (v \o u) \o w]
                  /\ p.kind = "extend" => d = p.self /\ w = <<>>
                  /\ p.kind = "extend_after" =>
                        v # <<>> /\ p.at = (v \o u)[Len(v \o u)]
                  /\ p.kind = "extend_before" => w # <<>> /\ p.at = w[1]
           Nowhere(u) == /\ p.kind # "extend" /\ u = <<>> /\ M = B
                         /\ \A d \in Container : \A i \in 1 .. Len(B[d]) : B[d][i] # p.at
    <2>1. Fits(a \o <<n>>, c, x, y)
        BY <1>5, <1>10, <1>g
    <2>2. \E d \in Container : \E v, w \in Seq(Node) : Fits(a \o <<n>>, d, v, w)
        <3> HIDE DEF Fits
        <3> QED BY <2>1
    <2> HIDE DEF M
    <2>3. /\ a \o <<n>> \in Seq(Node)
          /\ p.nodes = (a \o <<n>>) \o p.todo
          /\ \/ \E d \in Container : \E v, w \in Seq(Node) : Fits(a \o <<n>>, d, v, w)
             \/ Nowhere(a \o <<n>>)
        BY <1>6, <1>8, <2>2, Zenon
    <2>4. \E u \in Seq(Node) :
             /\ p.nodes = u \o p.todo
             /\ \/ \E d \in Container : \E v, w \in Seq(Node) : Fits(u, d, v, w)
                \/ Nowhere(u)
        <3> HIDE DEF Fits, Nowhere
        <3> QED BY <2>3, Zenon
    <2> QED BY <2>4, Zenon DEF ExtendState
<1> QED BY <1>9, <1>11

(* The loops when they are called. *)
LEMMA AppendStart ==
    ASSUME NEW h, NEW L, InOrder(h, L), NEW c \in Container, NEW d \in Container,
           NEW o, o.self = c, o.other = d, o.curr = h.head[d]
    PROVE  AppendState(o, L, L)
<1>1. /\ L \in [Container -> Seq(Node)] /\ L[c] \in Seq(Node) /\ L[d] \in Seq(Node)
      /\ h.head[d] = IF Len(L[d]) = 0 THEN None ELSE L[d][1]
      /\ \A i \in 1 .. Len(L[d]) : L[d][i] \in Node
    BY DEF InOrder
<1>2. /\ L[d] = <<>> <=> Len(L[d]) = 0
      /\ Len(L[d]) \in Nat
      /\ Len(L[d]) # 0 => 1 \in 1 .. Len(L[d])
    BY <1>1
<1>3. CASE c # d
    <2> DEFINE Reached(u, v) == /\ L[o.other] = u \o v
                                /\ L = [[L EXCEPT ![o.self] = @ \o u] EXCEPT ![o.other] = v]
                                /\ o.curr = IF v = <<>> THEN None ELSE v[1]
    <2>1. L[c] \o <<>> = L[c] /\ <<>> \o L[d] = L[d] /\ <<>> \in Seq(Node)
        BY <1>1, ConcatEmptySeq
    <2>2. L = [[L EXCEPT ![c] = @ \o <<>>] EXCEPT ![d] = L[d]]
        BY <1>1, <2>1
    <2>3. Reached(<<>>, L[d])
        BY <1>1, <1>2, <2>1, <2>2
    <2>4. \E u, v \in Seq(Node) : Reached(u, v)
        <3> HIDE DEF Reached
        <3> QED BY <1>1, <2>1, <2>3
    <2> QED BY <1>3, <2>4 DEF AppendState
<1>4. CASE c = d
    BY <1>1, <1>2, <1>4 DEF AppendState
<1> QED BY <1>3, <1>4

LEMMA SplitStart ==
    ASSUME NEW h, NEW L, InOrder(h, L), NEW c \in Container, NEW d \in Container,
           NEW pos \in Node, h.container[pos] = c,
           NEW o, o.self = c, o.other = d, o.pos = pos, o.curr = h.tail[c]
    PROVE  SplitState(o, L, L)
<1>1. /\ L \in [Container -> Seq(Node)] /\ L[c] \in Seq(Node) /\ L[d] \in Seq(Node)
      /\ h.tail[c] = IF Len(L[c]) = 0 THEN None ELSE L[c][Len(L[c])]
      /\ c # None
    BY DEF InOrder
<1>2. \E i \in 1 .. Len(L[c]) : L[c][i] = pos
    BY <1>1 DEF InOrder
<1>3. Len(L[c]) # 0
    BY <1>1, <1>2
<1>4. /\ L[c] \o <<>> = L[c] /\ <<>> \o L[c] = L[c] /\ <<>> \o L[d] = L[d]
      /\ <<>> \in Seq(Node)
    BY <1>1, ConcatEmptySeq
<1> DEFINE Reached(u, v) == /\ L[o.self] = u \o v
                            /\ L = IF o.self = o.other
                                   THEN [L EXCEPT ![o.self] = v \o u]
                                   ELSE [[L EXCEPT ![o.self] = u] EXCEPT ![o.other] = v \o @]
                            /\ \E i \in 1 .. Len(u) : u[i] = o.pos
                            /\ o.curr = u[Len(u)]
<1>5. L = IF c = d THEN [L EXCEPT ![c] = <<>> \o L[c]]
          ELSE [[L EXCEPT ![c] = L[c]] EXCEPT ![d] = <<>> \o @]
    BY <1>1, <1>4
<1>6. Reached(L[c], <<>>)
    BY <1>1, <1>2, <1>3, <1>4, <1>5
<1>7. \E u, v \in Seq(Node) : Reached(u, v)
    <2> HIDE DEF Reached
    <2> QED BY <1>1, <1>4, <1>6
<1> QED BY <1>7 DEF SplitState

LEMMA ExtendStart ==
    ASSUME NEW h, Sound(h), NEW L, InOrder(h, L), NEW o, o.nodes \in Seq(Node),
           o.todo = o.nodes,
           \/ o.kind = "extend" /\ o.self \in Container
           \/ o.kind \in {"extend_after", "extend_before"} /\ o.at \in Node
    PROVE  ExtendState(o, L, L)
<1>1. L \in [Container -> Seq(Node)] /\ <<>> \in Seq(Node)
    BY DEF InOrder
<1> DEFINE Fits(u, d, v, w) ==
              /\ L[d] = v \o w
              /\ L = [L EXCEPT ![d] = (v \o u) \o w]
              /\ o.kind = "extend" => d = o.self /\ w = <<>>
              /\ o.kind = "extend_after" => v # <<>> /\ o.at = (v \o u)[Len(v \o u)]
              /\ o.kind = "extend_before" => w # <<>> /\ o.at = w[1]
           Nowhere(u) == /\ o.kind # "extend" /\ u = <<>> /\ L = L
                         /\ \A d \in Container : \A i \in 1 .. Len(L[d]) : L[d][i] # o.at
<1>2. \/ \E d \in Container : \E v, w \in Seq(Node) : Fits(<<>>, d, v, w)
      \/ Nowhere(<<>>)
    <2>1. CASE o.kind = "extend"
        <3> DEFINE c == o.self
        <3>1. L[c] \in Seq(Node) /\ c \in Container
            BY <1>1, <2>1
        <3>2. L[c] \o <<>> = L[c] /\ (L[c] \o <<>>) \o <<>> = L[c]
            BY <3>1, ConcatEmptySeq
        <3>3. Fits(<<>>, c, L[c], <<>>)
            BY <1>1, <2>1, <3>1, <3>2
        <3> HIDE DEF Fits
        <3> QED BY <1>1, <3>1, <3>3
    <2>2. CASE o.kind \in {"extend_after", "extend_before"} /\ h.container[o.at] = None
        BY <2>2 DEF InOrder
    <2>3. CASE o.kind \in {"extend_after", "extend_before"} /\ h.container[o.at] # None
        <3> DEFINE c == h.container[o.at]
                   m == o.at
        <3>1. c \in Container /\ L[c] \in Seq(Node) /\ m \in Node
            BY <1>1, <2>3 DEF Sound, Ctx
        <3>2. PICK i \in 1 .. Len(L[c]) : L[c][i] = m
            BY <2>3 DEF InOrder
        <3> HIDE DEF c
        <3>3. PICK u \in Seq(Node), v \in Seq(Node) : L[c] = (u \o <<m>>) \o v
            <4> DEFINE s == L[c]
            <4>1. s \in Seq(Node) /\ i \in 1 .. Len(s) /\ s[i] = m
                BY <3>1, <3>2
            <4> HIDE DEF s
            <4>2. \E u, v \in Seq(Node) : s = (u \o <<s[i]>>) \o v
                BY <4>1, Surrounded
            <4> QED BY <4>1, <4>2 DEF s
        <3>4. /\ u \o <<m>> \in Seq(Node) /\ Len(u \o <<m>>) = Len(u) + 1 /\ Len(u) \in Nat
              /\ (u \o <<m>>)[Len(u \o <<m>>)] = m
            BY <3>1, LastPart
        <3>5. /\ <<m>> \o v \in Seq(Node) /\ Len(<<m>> \o v) = Len(v) + 1 /\ Len(v) \in Nat
              /\ (<<m>> \o v)[1] = m
            BY <3>1, FirstPart
        <3>6. u \o <<m>> # <<>> /\ <<m>> \o v # <<>>
            BY <3>4, <3>5
        <3>7. (u \o <<m>>) \o v = u \o (<<m>> \o v)
            <4>1. m \in Node /\ u \in Seq(Node) /\ v \in Seq(Node)
                BY <3>1
            <4> QED BY <4>1, RegroupNode
        <3>8. (u \o <<m>>) \o <<>> = u \o <<m>> /\ u \o <<>> = u
            BY <3>4, ConcatEmptySeq
        <3>9. CASE o.kind = "extend_after"
            <4>1. Fits(<<>>, c, u \o <<m>>, v)
                BY <1>1, <3>1, <3>3, <3>4, <3>6, <3>8, <3>9
            <4> HIDE DEF Fits
            <4> QED BY <3>1, <3>4, <4>1
        <3>10. CASE o.kind = "extend_before"
            <4>1. Fits(<<>>, c, u, <<m>> \o v)
                BY <1>1, <3>1, <3>3, <3>5, <3>6, <3>7, <3>8, <3>10
            <4> HIDE DEF Fits
            <4> QED BY <3>1, <3>5, <4>1
        <3> QED BY <2>3, <3>9, <3>10
    <2> QED BY <2>1, <2>2, <2>3
<1>3. o.nodes = <<>> \o o.todo
    BY ConcatEmptySeq
<1>4. \E u \in Seq(Node) :
         /\ o.nodes = u \o o.todo
         /\ \/ \E d \in Container : \E v, w \in Seq(Node) : Fits(u, d, v, w)
            \/ Nowhere(u)
    <2> HIDE DEF Fits, Nowhere
    <2> QED BY <1>1, <1>2, <1>3, Zenon
<1> QED BY <1>4, Zenon DEF ExtendState

LEMMA IdleState == \A B, L : LoopState(Idle, B, L)
BY DEF LoopState, Idle

LEMMA OrderFacts ==
    ASSUME OrderInv
    PROVE  /\ Inv /\ Sound(ctx) /\ InOrder(ctx, Lists(ctx))
           /\ Lists(ctx) \in [Container -> Seq(Node)]
           /\ op \in OpType /\ ret \in ResultType
           /\ LoopState(op, before, Lists(ctx))
<1>1. Inv /\ InOrder(ctx, Lists(ctx)) /\ LoopState(op, before, Lists(ctx))
    BY DEF OrderInv
<1>2. Lists(ctx) \in [Container -> Seq(Node)]
    BY <1>1 DEF InOrder
<1> QED BY <1>1, <1>2, InvSound DEF Inv, TypeOK

LEMMA KeepOrder ==
    ASSUME Inv', NEW M, InOrder(ctx', M), LoopState(op', before', M)
    PROVE  OrderInv' /\ Lists(ctx') = M
<1>1. Lists(ctx') = M
    BY ListsOf
<1> QED BY <1>1 DEF OrderInv

(* What the methods that are one step leave in the containers. *)
LEMMA PushFrontEdits ==
    ASSUME OrderInv, NEW c \in Container, NEW n \in Node, DoPushFront(c, n)
    PROVE  \/ /\ ctx.container[n] # None
              /\ ret' = NodeAlreadyInContainer(n) /\ ctx' = ctx
           \/ /\ ctx.container[n] = None
              /\ ret' = Ok /\ InOrder(ctx', [Lists(ctx) EXCEPT ![c] = <<n>> \o @])
<1>1. Sound(ctx) /\ InOrder(ctx, Lists(ctx))
    BY OrderFacts
<1>2. CASE ctx.container[n] # None
    BY <1>2 DEF DoPushFront, PushResult, NodeAlreadyInContainer, Ok
<1>3. CASE ctx.container[n] = None
    <2>1. ret' = Ok /\ ctx' = PushFront(ctx, c, n)
        BY <1>3 DEF DoPushFront, PushResult
    <2> DEFINE K == Lists(ctx)
    <2> HIDE DEF K
    <2>2. InOrder(ctx, K)
        BY <1>1 DEF K
    <2>3. InOrder(PushFront(ctx, c, n), [K EXCEPT ![c] = <<n>> \o @])
        BY <1>1, <1>3, <2>2, PushEnds
    <2> QED BY <1>3, <2>1, <2>3 DEF K
<1> QED BY <1>2, <1>3

LEMMA PushBackEdits ==
    ASSUME OrderInv, NEW c \in Container, NEW n \in Node, DoPushBack(c, n)
    PROVE  \/ /\ ctx.container[n] # None
              /\ ret' = NodeAlreadyInContainer(n) /\ ctx' = ctx
           \/ /\ ctx.container[n] = None
              /\ ret' = Ok /\ InOrder(ctx', [Lists(ctx) EXCEPT ![c] = @ \o <<n>>])
<1>1. Sound(ctx) /\ InOrder(ctx, Lists(ctx))
    BY OrderFacts
<1>2. CASE ctx.container[n] # None
    BY <1>2 DEF DoPushBack, PushResult, NodeAlreadyInContainer, Ok
<1>3. CASE ctx.container[n] = None
    <2>1. ret' = Ok /\ ctx' = PushBack(ctx, c, n)
        BY <1>3 DEF DoPushBack, PushResult
    <2> DEFINE K == Lists(ctx)
    <2> HIDE DEF K
    <2>2. InOrder(ctx, K)
        BY <1>1 DEF K
    <2>3. InOrder(PushBack(ctx, c, n), [K EXCEPT ![c] = @ \o <<n>>])
        BY <1>1, <1>3, <2>2, PushEnds
    <2> QED BY <1>3, <2>1, <2>3 DEF K
<1> QED BY <1>2, <1>3

(* Where a linked node is. *)
LEMMA LinkedAt ==
    ASSUME NEW h, Sound(h), NEW L, InOrder(h, L), NEW m \in Node, h.container[m] # None
    PROVE  /\ h.container[m] \in Container
           /\ \E x, y \in Seq(Node) : L[h.container[m]] = (x \o <<m>>) \o y
<1> DEFINE s == L[h.container[m]]
<1>1. h.container[m] \in Container
    BY DEF Sound, Ctx
<1>2. PICK i \in 1 .. Len(s) : s[i] = m
    BY DEF InOrder
<1>3. s \in Seq(Node)
    BY <1>1 DEF InOrder
<1> HIDE DEF s
<1>4. \E x, y \in Seq(Node) : s = (x \o <<s[i]>>) \o y
    BY <1>2, <1>3, Surrounded
<1> QED BY <1>1, <1>2, <1>4 DEF s

LEMMA AroundNode ==
    ASSUME NEW m \in Node, NEW x \in Seq(Node), NEW y \in Seq(Node)
    PROVE  /\ x \o <<m>> \in Seq(Node) /\ x \o <<m>> # <<>>
           /\ (x \o <<m>>)[Len(x \o <<m>>)] = m
           /\ Len(x \o <<m>>) = Len(x) + 1 /\ Len(x) \in Nat
           /\ <<m>> \o y \in Seq(Node) /\ <<m>> \o y # <<>> /\ (<<m>> \o y)[1] = m
           /\ (x \o <<m>>) \o y = x \o (<<m>> \o y)
<1>1. /\ x \o <<m>> \in Seq(Node) /\ Len(x \o <<m>>) = Len(x) + 1 /\ Len(x) \in Nat
      /\ (x \o <<m>>)[Len(x \o <<m>>)] = m
    BY LastPart
<1>2. /\ <<m>> \o y \in Seq(Node) /\ Len(<<m>> \o y) = Len(y) + 1 /\ Len(y) \in Nat
      /\ (<<m>> \o y)[1] = m
    BY FirstPart
<1>3. (x \o <<m>>) \o y = x \o (<<m>> \o y)
    BY RegroupNode
<1>4. x \o <<m>> # <<>> /\ <<m>> \o y # <<>>
    BY <1>1, <1>2
<1> QED BY <1>1, <1>2, <1>3, <1>4

LEMMA InsertAfterEdits ==
    ASSUME OrderInv, NEW m \in Node, NEW n \in Node, DoInsertAfter(m, n)
    PROVE  \/ /\ ctx.container[m] = None
              /\ ret' = CurrentNodeNotLinked(m) /\ ctx' = ctx
           \/ /\ ctx.container[m] # None /\ ctx.container[n] # None
              /\ ret' = NodeAlreadyInContainer(n) /\ ctx' = ctx
           \/ /\ ctx.container[m] # None /\ ctx.container[n] = None /\ ret' = Ok
              /\ \A x, y \in Seq(Node) :
                    Lists(ctx)[ctx.container[m]] = (x \o <<m>>) \o y =>
                       InOrder(ctx', [Lists(ctx) EXCEPT ![ctx.container[m]] =
                                        ((x \o <<m>>) \o <<n>>) \o y])
<1> DEFINE K == Lists(ctx)
           c == ctx.container[m]
<1>1. Sound(ctx) /\ InOrder(ctx, K)
    BY OrderFacts
<1> HIDE DEF K
<1>2. CASE ctx.container[m] = None
    BY <1>2 DEF DoInsertAfter, InsertResult, CurrentNodeNotLinked, Ok
<1>3. CASE ctx.container[m] # None /\ ctx.container[n] # None
    BY <1>3 DEF DoInsertAfter, InsertResult, NodeAlreadyInContainer, Ok
<1>4. CASE ctx.container[m] # None /\ ctx.container[n] = None
    <2>1. ret' = Ok /\ ctx' = InsertAfter(ctx, m, n)
        BY <1>4 DEF DoInsertAfter, InsertResult
    <2>2. c \in Container
        BY <1>1, <1>4, LinkedAt
    <2>3. ASSUME NEW x \in Seq(Node), NEW y \in Seq(Node), K[c] = (x \o <<m>>) \o y
          PROVE  InOrder(ctx', [K EXCEPT ![c] = ((x \o <<m>>) \o <<n>>) \o y])
        <3> HIDE DEF c
        <3> DEFINE z == x \o <<m>>
        <3>1. z \in Seq(Node) /\ z # <<>> /\ z[Len(z)] = m /\ K[c] = z \o y
            BY <2>3, AroundNode
        <3> HIDE DEF z
        <3>2. InOrder(InsertAfter(ctx, z[Len(z)], n), [K EXCEPT ![c] = (z \o <<n>>) \o y])
            BY <1>1, <1>4, <2>2, <3>1, InsertAfterBetween
        <3> QED BY <2>1, <3>1, <3>2 DEF z
    <2> QED BY <1>4, <2>1, <2>3 DEF K
<1> QED BY <1>2, <1>3, <1>4

LEMMA InsertBeforeEdits ==
    ASSUME OrderInv, NEW m \in Node, NEW n \in Node, DoInsertBefore(m, n)
    PROVE  \/ /\ ctx.container[m] = None
              /\ ret' = CurrentNodeNotLinked(m) /\ ctx' = ctx
           \/ /\ ctx.container[m] # None /\ ctx.container[n] # None
              /\ ret' = NodeAlreadyInContainer(n) /\ ctx' = ctx
           \/ /\ ctx.container[m] # None /\ ctx.container[n] = None /\ ret' = Ok
              /\ \A x, y \in Seq(Node) :
                    Lists(ctx)[ctx.container[m]] = (x \o <<m>>) \o y =>
                       InOrder(ctx', [Lists(ctx) EXCEPT ![ctx.container[m]] =
                                        (x \o <<n>>) \o (<<m>> \o y)])
<1> DEFINE K == Lists(ctx)
           c == ctx.container[m]
<1>1. Sound(ctx) /\ InOrder(ctx, K)
    BY OrderFacts
<1> HIDE DEF K
<1>2. CASE ctx.container[m] = None
    BY <1>2 DEF DoInsertBefore, InsertResult, CurrentNodeNotLinked, Ok
<1>3. CASE ctx.container[m] # None /\ ctx.container[n] # None
    BY <1>3 DEF DoInsertBefore, InsertResult, NodeAlreadyInContainer, Ok
<1>4. CASE ctx.container[m] # None /\ ctx.container[n] = None
    <2>1. ret' = Ok /\ ctx' = InsertBefore(ctx, m, n)
        BY <1>4 DEF DoInsertBefore, InsertResult
    <2>2. c \in Container
        BY <1>1, <1>4, LinkedAt
    <2>3. ASSUME NEW x \in Seq(Node), NEW y \in Seq(Node), K[c] = (x \o <<m>>) \o y
          PROVE  InOrder(ctx', [K EXCEPT ![c] = (x \o <<n>>) \o (<<m>> \o y)])
        <3> HIDE DEF c
        <3> DEFINE z == <<m>> \o y
        <3>1. z \in Seq(Node) /\ z # <<>> /\ z[1] = m /\ K[c] = x \o z
            BY <2>3, AroundNode
        <3> HIDE DEF z
        <3>2. InOrder(InsertBefore(ctx, z[1], n), [K EXCEPT ![c] = (x \o <<n>>) \o z])
            BY <1>1, <1>4, <2>2, <3>1, InsertBeforeBetween
        <3> QED BY <2>1, <3>1, <3>2 DEF z
    <2> QED BY <1>4, <2>1, <2>3 DEF K
<1> QED BY <1>2, <1>3, <1>4

LEMMA UnlinkEdits ==
    ASSUME OrderInv, NEW n \in Node, DoUnlink(n)
    PROVE  /\ ret' = ret
           /\ \/ ctx.container[n] = None /\ ctx' = ctx
              \/ /\ ctx.container[n] # None
                 /\ \A x, y \in Seq(Node) :
                       Lists(ctx)[ctx.container[n]] = (x \o <<n>>) \o y =>
                          InOrder(ctx', [Lists(ctx) EXCEPT ![ctx.container[n]] = x \o y])
<1> DEFINE K == Lists(ctx)
           c == ctx.container[n]
<1>1. Sound(ctx) /\ InOrder(ctx, K) /\ ret' = ret /\ ctx' = Unlink(ctx, n)
    BY OrderFacts DEF DoUnlink
<1> HIDE DEF K
<1>2. CASE ctx.container[n] = None
    BY <1>1, <1>2, UnlinkNothing
<1>3. CASE ctx.container[n] # None
    <2>1. c \in Container
        BY <1>1, <1>3, LinkedAt
    <2>2. ASSUME NEW x \in Seq(Node), NEW y \in Seq(Node), K[c] = (x \o <<n>>) \o y
          PROVE  InOrder(ctx', [K EXCEPT ![c] = x \o y])
        <3> HIDE DEF c
        <3> QED BY <1>1, <2>1, <2>2, UnlinkBetween
    <2> QED BY <1>1, <1>3, <2>2 DEF K
<1> QED BY <1>2, <1>3

LEMMA KeptOrder ==
    ASSUME OrderInv, Inv', ctx' = ctx, LoopState(op', before', Lists(ctx))
    PROVE  OrderInv' /\ Lists(ctx') = Lists(ctx)
<1>1. InOrder(ctx', Lists(ctx))
    BY OrderFacts
<1> QED BY <1>1, KeepOrder

LEMMA IdleOrder ==
    ASSUME Inv', op' = Idle, NEW M, InOrder(ctx', M)
    PROVE  OrderInv' /\ Lists(ctx') = M
<1>1. LoopState(op', before', M)
    BY IdleState
<1> QED BY <1>1, KeepOrder

LEMMA CallOrder == ASSUME OrderInv, Call PROVE OrderInv'
<1> DEFINE K == Lists(ctx)
<1>1. /\ Inv /\ Sound(ctx) /\ InOrder(ctx, K) /\ K \in [Container -> Seq(Node)]
      /\ Apart(K) /\ Inv' /\ LoopState(op, before, K)
    BY OrderFacts, ApartOf, CallInv
<1> HIDE DEF K
<1>k. K = Lists(ctx)
    BY DEF K
<1>2. ASSUME ctx' = ctx, op' = Idle PROVE OrderInv'
    BY <1>1, <1>2, IdleOrder
<1>3. ASSUME ctx' = ctx, before' = K,
             LoopState(op', K, K)
      PROVE  OrderInv'
    BY <1>1, <1>3, KeepOrder
<1>4. ASSUME NEW c \in Container, NEW n \in Node, DoPushFront(c, n) PROVE OrderInv'
    <2>1. op' = Idle
        BY <1>4 DEF DoPushFront, Calls
    <2>2. CASE ctx' = ctx
        BY <1>2, <2>1, <2>2
    <2>3. CASE InOrder(ctx', [Lists(ctx) EXCEPT ![c] = <<n>> \o @])
        BY <1>1, <2>1, <2>3, IdleOrder
    <2> QED BY <1>4, <2>2, <2>3, PushFrontEdits
<1>5. ASSUME NEW c \in Container, NEW n \in Node, DoPushBack(c, n) PROVE OrderInv'
    <2>1. op' = Idle
        BY <1>5 DEF DoPushBack, Calls
    <2>2. CASE ctx' = ctx
        BY <1>2, <2>1, <2>2
    <2>3. CASE InOrder(ctx', [Lists(ctx) EXCEPT ![c] = @ \o <<n>>])
        BY <1>1, <2>1, <2>3, IdleOrder
    <2> QED BY <1>5, <2>2, <2>3, PushBackEdits
<1>6. ASSUME NEW m \in Node, NEW n \in Node, DoInsertAfter(m, n) PROVE OrderInv'
    <2>1. op' = Idle
        BY <1>6 DEF DoInsertAfter, Calls
    <2>2. CASE ctx' = ctx
        BY <1>2, <2>1, <2>2
    <2>3. CASE ctx.container[m] # None /\ ctx' # ctx
        <3>a. Sound(ctx) /\ InOrder(ctx, K) /\ m \in Node /\ ctx.container[m] # None
            BY <1>1, <2>3
        <3>b. \E x, y \in Seq(Node) : K[ctx.container[m]] = (x \o <<m>>) \o y
            BY <3>a, LinkedAt
        <3>1. PICK x \in Seq(Node), y \in Seq(Node) : K[ctx.container[m]] = (x \o <<m>>) \o y
            BY <3>b
        <3>2. InOrder(ctx', [K EXCEPT ![ctx.container[m]] = ((x \o <<m>>) \o <<n>>) \o y])
            BY <1>6, <2>3, <3>1, InsertAfterEdits DEF K
        <3> QED BY <1>1, <2>1, <3>2, IdleOrder
    <2> QED BY <1>6, <2>2, <2>3, InsertAfterEdits
<1>7. ASSUME NEW m \in Node, NEW n \in Node, DoInsertBefore(m, n) PROVE OrderInv'
    <2>1. op' = Idle
        BY <1>7 DEF DoInsertBefore, Calls
    <2>2. CASE ctx' = ctx
        BY <1>2, <2>1, <2>2
    <2>3. CASE ctx.container[m] # None /\ ctx' # ctx
        <3>a. Sound(ctx) /\ InOrder(ctx, K) /\ m \in Node /\ ctx.container[m] # None
            BY <1>1, <2>3
        <3>b. \E x, y \in Seq(Node) : K[ctx.container[m]] = (x \o <<m>>) \o y
            BY <3>a, LinkedAt
        <3>1. PICK x \in Seq(Node), y \in Seq(Node) : K[ctx.container[m]] = (x \o <<m>>) \o y
            BY <3>b
        <3>2. InOrder(ctx', [K EXCEPT ![ctx.container[m]] = (x \o <<n>>) \o (<<m>> \o y)])
            BY <1>7, <2>3, <3>1, InsertBeforeEdits DEF K
        <3> QED BY <1>1, <2>1, <3>2, IdleOrder
    <2> QED BY <1>7, <2>2, <2>3, InsertBeforeEdits
<1>8. ASSUME NEW n \in Node, DoUnlink(n) PROVE OrderInv'
    <2>1. op' = Idle
        BY <1>8 DEF DoUnlink, Calls
    <2>2. CASE ctx' = ctx
        BY <1>2, <2>1, <2>2
    <2>3. CASE ctx.container[n] # None
        <3>a. Sound(ctx) /\ InOrder(ctx, K) /\ n \in Node /\ ctx.container[n] # None
            BY <1>1, <2>3
        <3>b. \E x, y \in Seq(Node) : K[ctx.container[n]] = (x \o <<n>>) \o y
            BY <3>a, LinkedAt
        <3>1. PICK x \in Seq(Node), y \in Seq(Node) : K[ctx.container[n]] = (x \o <<n>>) \o y
            BY <3>b
        <3>2. InOrder(ctx', [K EXCEPT ![ctx.container[n]] = x \o y])
            BY <1>8, <2>3, <3>1, UnlinkEdits DEF K
        <3> QED BY <1>1, <2>1, <3>2, IdleOrder
    <2> QED BY <1>8, <2>2, <2>3, UnlinkEdits
<1>9. ASSUME NEW c \in Container, NEW o \in Container, AppendCall(c, o) PROVE OrderInv'
    <2>1. /\ op'.kind = "append" /\ op'.self = c /\ op'.other = o /\ op'.curr = ctx.head[o]
          /\ ctx' = ctx /\ before' = K
        BY <1>9 DEF AppendCall, K
    <2>2. AppendState(op', K, K)
        BY <1>1, <2>1, AppendStart
    <2>3. LoopState(op', K, K)
        BY <1>1, <2>1, <2>2 DEF LoopState
    <2> QED BY <1>3, <2>1, <2>3
<1>10. ASSUME NEW c \in Container, NEW n \in Node, SplitReject(c, n) PROVE OrderInv'
    BY <1>2, <1>10 DEF SplitReject, Calls
<1>11. ASSUME NEW c \in Container, NEW o \in Container, NEW n \in Node, SplitCall(c, o, n)
       PROVE  OrderInv'
    <2>1. /\ op'.kind = "split" /\ op'.self = c /\ op'.other = o /\ op'.pos = n
          /\ op'.curr = ctx.tail[c] /\ ctx.container[n] = c
          /\ ctx' = ctx /\ before' = K
        BY <1>11 DEF SplitCall, K
    <2>2. SplitState(op', K, K)
        BY <1>1, <2>1, SplitStart
    <2>3. LoopState(op', K, K)
        BY <1>1, <2>1, <2>2 DEF LoopState
    <2> QED BY <1>3, <2>1, <2>3
<1>12. \A s \in Batch : s \in Seq(Node)
    BY DEF Batch
<1>13. ASSUME NEW c \in Container, NEW s \in Batch, ExtendCall(c, s) PROVE OrderInv'
    <2>1. /\ op'.kind = "extend" /\ op'.self = c /\ op'.todo = s /\ op'.nodes = s
          /\ ctx' = ctx /\ before' = K
        BY <1>13 DEF ExtendCall, K
    <2>2. ExtendState(op', K, K)
        BY <1>1, <1>12, <2>1, ExtendStart
    <2>3. LoopState(op', K, K)
        BY <1>1, <2>1, <2>2 DEF LoopState
    <2> QED BY <1>3, <2>1, <2>3
<1>14. ASSUME NEW kind \in {"extend_after", "extend_before"}, NEW m \in Node,
              NEW s \in Batch, ExtendNodeCall(kind, m, s)
       PROVE  OrderInv'
    <2>1. /\ op'.kind = kind /\ op'.at = m /\ op'.todo = s /\ op'.nodes = s
          /\ ctx' = ctx /\ before' = K
        BY <1>14 DEF ExtendNodeCall, K
    <2>2. ExtendState(op', K, K)
        BY <1>1, <1>12, <2>1, ExtendStart
    <2>3. LoopState(op', K, K)
        BY <1>1, <2>1, <2>2 DEF LoopState
    <2> QED BY <1>3, <2>1, <2>3
<1> QED BY <1>4, <1>5, <1>6, <1>7, <1>8, <1>9, <1>10, <1>11, <1>13, <1>14 DEF Call

LEMMA LoopOrder == ASSUME OrderInv, Loop PROVE OrderInv'
<1> DEFINE K == Lists(ctx)
<1>1. /\ Inv /\ Sound(ctx) /\ InOrder(ctx, K) /\ op \in OpType
      /\ Inv' /\ LoopState(op, before, K)
    BY OrderFacts, LoopInv
<1> HIDE DEF K
<1>2. ASSUME ctx' = ctx, op' = Idle PROVE OrderInv'
    BY <1>1, <1>2, IdleOrder
<1>3. CASE AppendTurn
    <2>1. /\ op \in [kind : {"append"}, self : Container, other : Container,
                     curr : Node \cup {None}]
          /\ op.kind = "append" /\ op.curr # None /\ before' = before
          /\ ctx' = PushBack(Unlink(ctx, op.curr), op.self, op.curr)
          /\ op' = [op EXCEPT !.curr = ctx.next[op.curr]]
        BY <1>1, <1>3, OpKinds DEF AppendTurn
    <2>2. Apart(before) /\ AppendState(op, before, K)
        BY <1>1, <2>1 DEF LoopState
    <2>3. PICK M : InOrder(ctx', M) /\ AppendState(op', before, M)
        BY <1>1, <2>1, <2>2, AppendTurnState
    <2>4. LoopState(op', before', M)
        <3>1. op'.kind = "append"
            BY <2>1
        <3> QED BY <2>1, <2>2, <2>3, <3>1 DEF LoopState
    <2> QED BY <1>1, <2>3, <2>4, KeepOrder
<1>4. CASE AppendReturn
    BY <1>2, <1>4 DEF AppendReturn
<1>5. CASE SplitTurn
    <2>1. /\ op \in [kind : {"split"}, self : Container, other : Container,
                     pos : Node, curr : Node \cup {None}]
          /\ op.kind = "split" /\ op.curr # None /\ op.curr # op.pos /\ before' = before
          /\ ctx' = PushFront(Unlink(ctx, op.curr), op.other, op.curr)
          /\ op' = [op EXCEPT !.curr = ctx.prev[op.curr]]
        BY <1>1, <1>5, OpKinds DEF SplitTurn
    <2>2. Apart(before) /\ SplitState(op, before, K)
        BY <1>1, <2>1 DEF LoopState
    <2>3. PICK M : InOrder(ctx', M) /\ SplitState(op', before, M)
        BY <1>1, <2>1, <2>2, SplitTurnState
    <2>4. LoopState(op', before', M)
        <3>1. op'.kind = "split"
            BY <2>1
        <3> QED BY <2>1, <2>2, <2>3, <3>1 DEF LoopState
    <2> QED BY <1>1, <2>3, <2>4, KeepOrder
<1>6. CASE SplitReturn
    BY <1>2, <1>6 DEF SplitReturn
<1>7. CASE ExtendTurn
    <2> DEFINE n == Head(op.todo)
    <2>1. op.todo \in Batch /\ op.todo # <<>> /\ before' = before
        BY <1>1, <1>7, OpKinds DEF ExtendTurn, Extending
    <2>2. op.todo \in Seq(Node) /\ n \in Node
        BY <2>1, BatchTail DEF Batch
    <2>3. /\ Apart(before) /\ ExtendState(op, before, K)
          /\ op.kind \in {"extend", "extend_after", "extend_before"}
        BY <1>1, <1>7 DEF LoopState, ExtendTurn, Extending
    <2>4. /\ op.kind = "extend" => op.self \in Container
          /\ op.kind # "extend" => op.at \in Node
        BY <1>1, <2>3, OpKinds
    <2>5. /\ ctx.container[n] = None
          /\ op.kind # "extend" => ctx.container[op.at] # None
        BY <1>7, <2>3 DEF ExtendTurn, TurnResult, PushResult, InsertResult, Ok,
             NodeAlreadyInContainer, CurrentNodeNotLinked
    <2>6. /\ op'.kind = op.kind /\ op'.nodes = op.nodes /\ op'.todo = Tail(op.todo)
          /\ \/ /\ op.kind = "extend" /\ op'.self = op.self
                /\ ctx' = PushBack(ctx, op.self, n)
             \/ /\ op.kind = "extend_after" /\ op'.at = n
                /\ ctx' = InsertAfter(ctx, op.at, n)
             \/ /\ op.kind = "extend_before" /\ op'.at = op.at
                /\ ctx' = InsertBefore(ctx, op.at, n)
        <3> HIDE DEF n
        <3>n. n = Head(op.todo)
            BY DEF n
        <3>1. CASE op.kind = "extend"
            <4>1. op \in [kind : {"extend"}, self : Container, todo : Batch, nodes : Batch]
                BY <1>1, <3>1, OpKinds
            <4>2. op' = [op EXCEPT !.todo = Tail(@)] /\ ctx' = PushBack(ctx, op.self, n)
                BY <1>7, <3>1, <3>n DEF ExtendTurn
            <4> QED BY <3>1, <4>1, <4>2
        <3>2. CASE op.kind = "extend_after"
            <4>1. op \in [kind : {"extend_after", "extend_before"}, at : Node, todo : Batch,
                          nodes : Batch]
                BY <1>1, <3>2, OpKinds
            <4>2. /\ op' = [op EXCEPT !.todo = Tail(@), !.at = n]
                  /\ ctx' = InsertAfter(ctx, op.at, n)
                BY <1>7, <3>2, <3>n DEF ExtendTurn
            <4> QED BY <3>2, <4>1, <4>2
        <3>3. CASE op.kind = "extend_before"
            <4>1. op \in [kind : {"extend_after", "extend_before"}, at : Node, todo : Batch,
                          nodes : Batch]
                BY <1>1, <3>3, OpKinds
            <4>2. /\ op' = [op EXCEPT !.todo = Tail(@)]
                  /\ ctx' = InsertBefore(ctx, op.at, n)
                BY <1>7, <3>3, <3>n DEF ExtendTurn
            <4> QED BY <3>3, <4>1, <4>2
        <3> QED BY <2>3, <3>1, <3>2, <3>3
    <2>7. PICK M : InOrder(ctx', M) /\ ExtendState(op', before, M)
        BY <1>1, <2>1, <2>2, <2>3, <2>4, <2>5, <2>6, ExtendTurnState
    <2>8. LoopState(op', before', M)
        BY <2>1, <2>3, <2>6, <2>7 DEF LoopState
    <2> QED BY <1>1, <2>7, <2>8, KeepOrder
<1>8. CASE ExtendFail
    BY <1>2, <1>8 DEF ExtendFail
<1>9. CASE ExtendReturn
    BY <1>2, <1>9 DEF ExtendReturn
<1> QED BY <1>3, <1>4, <1>5, <1>6, <1>7, <1>8, <1>9 DEF Loop

LEMMA InitOrder == Init => OrderInv
<1> SUFFICES ASSUME Init PROVE OrderInv
    OBVIOUS
<1>1. Inv /\ ctx = EmptyCtx /\ op = Idle
    BY InitInv DEF Init
<1>2. InOrder(ctx, Lists(ctx))
    BY <1>1, EmptyInOrder, ListsOf
<1> QED BY <1>1, <1>2, IdleState DEF OrderInv

LEMMA NextOrder == OrderInv /\ [Next]_vars => OrderInv'
<1> SUFFICES ASSUME OrderInv, [Next]_vars PROVE OrderInv'
    OBVIOUS
<1>1. CASE UNCHANGED vars
    <2>1. Inv /\ InOrder(ctx, Lists(ctx)) /\ LoopState(op, before, Lists(ctx))
        BY OrderFacts
    <2>2. Inv'
        BY <1>1, <2>1, NextInv
    <2> QED BY <1>1, <2>1, <2>2, KeepOrder DEF vars
<1> QED BY <1>1, CallOrder, LoopOrder DEF Next

(* A walk of a container, forward or backward, meets its members, each     *)
(* once, at every turn of every loop.                                      *)
THEOREM WalksMeet == Spec => []WalksMeetMembers
<1>1. OrderInv => WalksMeetMembers
    BY OrderFacts, WalksOf
<1> QED BY InitOrder, NextOrder, <1>1, PTL DEF Spec

-----------------------------------------------------------------------------
(* The end of a loop: what append and split have made of B.  A list that   *)
(* has been appended to itself is as it was (none but the empty list and   *)
(* the list of one node reach the end of that loop).                       *)
AppendDone(o, B, L) ==
    IF o.self = o.other THEN L = B
    ELSE L = [[B EXCEPT ![o.self] = @ \o B[o.other]] EXCEPT ![o.other] = <<>>]

SplitDone(o, B, L) ==
    \E x, b \in Seq(Node) :
       /\ B[o.self] = (x \o <<o.pos>>) \o b
       /\ L = IF o.self = o.other
              THEN [B EXCEPT ![o.self] = b \o (x \o <<o.pos>>)]
              ELSE [[B EXCEPT ![o.self] = x \o <<o.pos>>] EXCEPT ![o.other] = b \o @]

LEMMA AppendEnds ==
    ASSUME NEW h, NEW L, InOrder(h, L), NEW B, Apart(B), NEW o,
           o.self \in Container, o.other \in Container, AppendState(o, B, L),
           o.curr = None
    PROVE  /\ AppendDone(o, B, L)
           /\ o.self # o.other => h.head[o.other] = None /\ h.tail[o.other] = None
<1>1. CASE o.self = o.other
    BY <1>1 DEF AppendState, AppendDone
<1>2. CASE o.self # o.other
    <2>1. PICK a \in Seq(Node), b \in Seq(Node) :
              /\ B[o.other] = a \o b
              /\ L = [[B EXCEPT ![o.self] = @ \o a] EXCEPT ![o.other] = b]
              /\ o.curr = IF b = <<>> THEN None ELSE b[1]
        BY <1>2 DEF AppendState
    <2>2. b = <<>>
        <3>1. b # <<>> => b[1] \in Node
            OBVIOUS
        <3> QED BY <2>1, <3>1, NoneAssumption
    <2>3. B[o.other] = a
        BY <2>1, <2>2, ConcatEmptySeq
    <2>4. B \in [Container -> Seq(Node)]
        BY DEF Apart
    <2>5. L[o.other] = <<>>
        BY <2>1, <2>2, <2>4
    <2>6. h.head[o.other] = None /\ h.tail[o.other] = None
        BY <2>5 DEF InOrder
    <2> QED BY <1>2, <2>1, <2>2, <2>3, <2>6 DEF AppendDone
<1> QED BY <1>1, <1>2

LEMMA SplitEnds ==
    ASSUME NEW h, NEW L, InOrder(h, L), NEW B, Apart(B), NEW o,
           o.self \in Container, o.other \in Container, SplitState(o, B, L),
           o.curr \in {None, o.pos}
    PROVE  h.tail[o.self] = o.pos /\ SplitDone(o, B, L)
<1>1. PICK a \in Seq(Node), b \in Seq(Node) :
          /\ B[o.self] = a \o b
          /\ L = IF o.self = o.other
                 THEN [B EXCEPT ![o.self] = b \o a]
                 ELSE [[B EXCEPT ![o.self] = a] EXCEPT ![o.other] = b \o @]
          /\ \E i \in 1 .. Len(a) : a[i] = o.pos
          /\ o.curr = a[Len(a)]
    BY DEF SplitState
<1>2. a # <<>> /\ Len(a) \in 1 .. Len(a) /\ a[Len(a)] \in Node
    BY <1>1
<1>3. o.pos = a[Len(a)] /\ o.pos \in Node
    BY <1>1, <1>2, NoneAssumption
<1>4. PICK x \in Seq(Node) : a = x \o <<o.pos>>
    BY <1>2, <1>3, LastApart
<1>5. L[o.self] = (IF o.self = o.other THEN b \o a ELSE a)
    BY <1>1 DEF Apart
<1>6. (b \o a) # <<>> /\ (b \o a)[Len(b \o a)] = a[Len(a)]
    <2>1. /\ Len(b \o a) = Len(b) + Len(a) /\ Len(b) \in Nat /\ Len(a) \in Nat /\ Len(a) > 0
          /\ \A i \in 1 .. (Len(b) + Len(a)) :
                (b \o a)[i] = IF i <= Len(b) THEN b[i] ELSE a[i - Len(b)]
        BY <1>2, ConcatProperties
    <2>2. /\ Len(b) + Len(a) \in 1 .. (Len(b) + Len(a)) /\ ~ (Len(b) + Len(a) <= Len(b))
          /\ (Len(b) + Len(a)) - Len(b) = Len(a)
        BY <2>1
    <2> QED BY <2>1, <2>2
<1>7. L[o.self] # <<>> /\ L[o.self][Len(L[o.self])] = o.pos /\ L[o.self] \in Seq(Node)
    BY <1>2, <1>3, <1>5, <1>6 DEF InOrder
<1>8. h.tail[o.self] = o.pos
    BY <1>7 DEF InOrder
<1>9. /\ B[o.self] = (x \o <<o.pos>>) \o b
      /\ L = IF o.self = o.other
             THEN [B EXCEPT ![o.self] = b \o (x \o <<o.pos>>)]
             ELSE [[B EXCEPT ![o.self] = x \o <<o.pos>>] EXCEPT ![o.other] = b \o @]
    BY <1>1, <1>4
<1> QED BY <1>8, <1>9, Zenon DEF SplitDone

LEMMA AppendReturns ==
    ASSUME OrderInv, AppendReturn
    PROVE  /\ op.self \in Container /\ op.other \in Container /\ Apart(before)
           /\ ctx' = ctx /\ op' = Idle /\ op.kind = "append" /\ op # Idle
           /\ AppendDone(op, before, Lists(ctx))
           /\ ret' = IF op.self = op.other /\ before[op.self] # <<>>
                    THEN AssertFailed ELSE Ok
<1>1. op.kind = "append" /\ op.curr = None /\ ctx' = ctx /\ op' = Idle /\ op # Idle
    BY DEF AppendReturn, Idle
<1>2. op \in [kind : {"append"}, self : Container, other : Container,
              curr : Node \cup {None}]
    BY <1>1, OrderFacts, OpKinds
<1>3. /\ op.self \in Container /\ op.other \in Container /\ InOrder(ctx, Lists(ctx))
      /\ Apart(before) /\ AppendState(op, before, Lists(ctx))
    BY <1>1, <1>2, OrderFacts DEF LoopState
<1>4. /\ AppendDone(op, before, Lists(ctx))
      /\ op.self # op.other => ctx.head[op.other] = None /\ ctx.tail[op.other] = None
    BY <1>1, <1>3, AppendEnds
<1>5. ret' = IF ctx.head[op.other] = None /\ ctx.tail[op.other] = None
             THEN Ok ELSE AssertFailed
    BY DEF AppendReturn
<1>6. ASSUME op.self = op.other
      PROVE  (ctx.head[op.other] = None /\ ctx.tail[op.other] = None) <=> before[op.self] = <<>>
    <2> DEFINE s == Lists(ctx)[op.other]
    <2>1. Lists(ctx) = before
        BY <1>4, <1>6 DEF AppendDone
    <2>2. /\ s \in Seq(Node) /\ s = before[op.self]
          /\ ctx.head[op.other] = IF Len(s) = 0 THEN None ELSE s[1]
          /\ ctx.tail[op.other] = IF Len(s) = 0 THEN None ELSE s[Len(s)]
        BY <1>3, <1>6, <2>1 DEF InOrder
    <2> HIDE DEF s
    <2>3. s # <<>> => Len(s) # 0 /\ s[1] \in Node
        BY <2>2
    <2>4. s = <<>> => Len(s) = 0
        OBVIOUS
    <2> QED BY <2>2, <2>3, <2>4, NoneAssumption
<1>7. ret' = IF op.self = op.other /\ before[op.self] # <<>> THEN AssertFailed ELSE Ok
    BY <1>4, <1>5, <1>6
<1> QED BY <1>1, <1>3, <1>4, <1>7

LEMMA SplitReturns ==
    ASSUME OrderInv, SplitReturn
    PROVE  /\ op.self \in Container /\ op.other \in Container /\ op.pos \in Node
           /\ Apart(before) /\ ctx' = ctx /\ op' = Idle /\ op # Idle /\ ret' = Ok
           /\ SplitDone(op, before, Lists(ctx))
<1>1. op.kind = "split" /\ op.curr \in {None, op.pos} /\ ctx' = ctx /\ op' = Idle /\ op # Idle
    BY DEF SplitReturn, Idle
<1>2. op \in [kind : {"split"}, self : Container, other : Container, pos : Node,
              curr : Node \cup {None}]
    BY <1>1, OrderFacts, OpKinds
<1>3. /\ op.self \in Container /\ op.other \in Container /\ op.pos \in Node
      /\ InOrder(ctx, Lists(ctx)) /\ Apart(before) /\ SplitState(op, before, Lists(ctx))
    BY <1>1, <1>2, OrderFacts DEF LoopState
<1>4. ctx.tail[op.self] = op.pos /\ SplitDone(op, before, Lists(ctx))
    BY <1>1, <1>3, SplitEnds
<1>5. ret' = Ok
    BY <1>4 DEF SplitReturn
<1> QED BY <1>1, <1>3, <1>4, <1>5

LEMMA OnlyReturnsFail ==
    ASSUME Next, ret' # ret
    PROVE  AppendReturn \/ SplitReturn \/ ret' # AssertFailed
<1> USE DEF PushResult, InsertResult, Ok, NodeAlreadyInContainer, CurrentNodeNotLinked,
        PositionNodeNotInContainer, AssertFailed
<1>1. CASE Loop
    <2>1. CASE ExtendFail
        BY <2>1 DEF ExtendFail, TurnResult
    <2>2. CASE ExtendReturn
        BY <2>2 DEF ExtendReturn
    <2>3. CASE AppendTurn \/ SplitTurn \/ ExtendTurn
        BY <2>3 DEF AppendTurn, SplitTurn, ExtendTurn
    <2> QED BY <1>1, <2>1, <2>2, <2>3 DEF Loop
<1>2. ASSUME NEW c \in Container, NEW n \in Node,
             DoPushFront(c, n) \/ DoPushBack(c, n) \/ SplitReject(c, n)
      PROVE  ret' # AssertFailed
    BY <1>2 DEF DoPushFront, DoPushBack, SplitReject
<1>3. ASSUME NEW m \in Node, NEW n \in Node, DoInsertAfter(m, n) \/ DoInsertBefore(m, n)
      PROVE  ret' # AssertFailed
    BY <1>3 DEF DoInsertAfter, DoInsertBefore
<1>4. CASE Call
    BY <1>2, <1>3, <1>4 DEF Call, DoUnlink, AppendCall, SplitCall, ExtendCall, ExtendNodeCall
<1> QED BY <1>1, <1>4 DEF Next

(* Neither debug_assert!() of append and split fails, whatever the lists,  *)
(* unless a list is appended to itself: when the loop of append ends, the  *)
(* nodes that have moved are all of other's; when the loop of split ends,  *)
(* the position is the last node it has left.                              *)
THEOREM AssertionsHold == Spec => OnlySelfAppendFails
<1>1. OrderInv /\ [Next]_vars => [ret' = AssertFailed => SelfAppend]_ret
    <2> SUFFICES ASSUME OrderInv, [Next]_vars, ret' # ret, ret' = AssertFailed
                 PROVE  SelfAppend
        OBVIOUS
    <2>1. Next
        BY DEF vars
    <2>2. AssertFailed # Ok
        BY DEF AssertFailed, Ok
    <2>3. CASE AppendReturn
        BY <2>2, <2>3, AppendReturns DEF SelfAppend
    <2>4. CASE SplitReturn
        BY <2>2, <2>4, SplitReturns
    <2> QED BY <2>1, <2>3, <2>4, OnlyReturnsFail
<1> QED BY InitOrder, NextOrder, <1>1, PTL DEF Spec, OnlySelfAppendFails

-----------------------------------------------------------------------------
(***************************************************************************)
(* The operators of ListSeq, applied to the sequences shown.               *)
(***************************************************************************)

(* The node n is somewhere in L. *)
In(L, n) == \E c \in Container : \E i \in 1 .. Len(L[c]) : L[c][i] = n

(* The first k of the nodes s, and no more, can be inserted one by one. *)
Takes(L, s, k) ==
    /\ k \in 0 .. Len(s)
    /\ \A i \in 1 .. k : ~ In(L, s[i]) /\ \A j \in 1 .. (i - 1) : s[j] # s[i]
    /\ k < Len(s) => \/ In(L, s[k + 1])
                     \/ \E j \in 1 .. k : s[j] = s[k + 1]

LEMMA ShownLinked ==
    ASSUME Shown \in [Container -> Seq(Node)]
    PROVE  \A n : n \in Seqs!LinkedNodes <=> In(Shown, n)
<1>1. \A c \in Container : DOMAIN Shown[c] = 1 .. Len(Shown[c])
    OBVIOUS
<1> QED BY <1>1 DEF Seqs!LinkedNodes, Seqs!ToSet, In

LEMMA ShownTakes ==
    ASSUME Shown \in [Container -> Seq(Node)], NEW s \in Seq(Node), NEW k, Takes(Shown, s, k)
    PROVE  Seqs!Acceptable(s) = k
<1> DEFINE P(i) == /\ \A m \in 1 .. i : s[m] \notin Seqs!LinkedNodes \cup {s[j] : j \in 1 .. (m - 1)}
                   /\ i < Len(s) => s[i + 1] \in Seqs!LinkedNodes \cup {s[j] : j \in 1 .. i}
<1>1. \A n : n \in Seqs!LinkedNodes <=> In(Shown, n)
    BY ShownLinked
<1>2. \A i \in 0 .. Len(s) : P(i) <=> Takes(Shown, s, i)
    <2> TAKE i \in 0 .. Len(s)
    <2>1. \A m \in 1 .. i :
             (s[m] \notin Seqs!LinkedNodes \cup {s[j] : j \in 1 .. (m - 1)})
             <=> (~ In(Shown, s[m]) /\ \A j \in 1 .. (m - 1) : s[j] # s[m])
        BY <1>1
    <2>2. (s[i + 1] \in Seqs!LinkedNodes \cup {s[j] : j \in 1 .. i})
          <=> (In(Shown, s[i + 1]) \/ \E j \in 1 .. i : s[j] = s[i + 1])
        BY <1>1
    <2> QED BY <2>1, <2>2 DEF Takes
<1>3. Seqs!Acceptable(s) = CHOOSE i \in 0 .. Len(s) : P(i)
    BY DEF Seqs!Acceptable
<1> HIDE DEF P
<1>4. k \in 0 .. Len(s) /\ P(k)
    BY <1>2 DEF Takes
<1>5. ASSUME NEW i \in 0 .. Len(s), P(i)
      PROVE  i = k
    <2>1. Takes(Shown, s, i)
        BY <1>2, <1>5
    <2>2. i \in Nat /\ k \in Nat /\ Len(s) \in Nat /\ i <= Len(s) /\ k <= Len(s)
        BY <1>4, <1>5
    <2>3. CASE i < k
        <3>1. i + 1 \in 1 .. k /\ i < Len(s)
            BY <2>2, <2>3
        <3>2. ~ In(Shown, s[i + 1]) /\ \A j \in 1 .. ((i + 1) - 1) : s[j] # s[i + 1]
            BY <3>1 DEF Takes
        <3>3. In(Shown, s[i + 1]) \/ \E j \in 1 .. i : s[j] = s[i + 1]
            BY <2>1, <3>1 DEF Takes
        <3>4. (i + 1) - 1 = i
            BY <2>2
        <3> QED BY <3>2, <3>3, <3>4
    <2>4. CASE k < i
        <3>1. k + 1 \in 1 .. i /\ k < Len(s)
            BY <2>2, <2>4
        <3>2. ~ In(Shown, s[k + 1]) /\ \A j \in 1 .. ((k + 1) - 1) : s[j] # s[k + 1]
            BY <2>1, <3>1 DEF Takes
        <3>3. In(Shown, s[k + 1]) \/ \E j \in 1 .. k : s[j] = s[k + 1]
            BY <3>1 DEF Takes
        <3>4. (k + 1) - 1 = k
            BY <2>2
        <3> QED BY <3>2, <3>3, <3>4
    <2> QED BY <2>2, <2>3, <2>4
<1> QED BY <1>3, <1>4, <1>5

LEMMA OnePlace ==
    ASSUME NEW L, Apart(L), NEW c \in Container, NEW p, p \in 1 .. Len(L[c])
    PROVE  \A d \in Container : \A i \in 1 .. Len(L[d]) : L[d][i] = L[c][p] => d = c /\ i = p
BY DEF Apart

LEMMA ShownAt ==
    ASSUME Apart(Shown), NEW c \in Container, NEW n \in Node,
           NEW x \in Seq(Node), NEW y \in Seq(Node), Shown[c] = (x \o <<n>>) \o y
    PROVE  n \in Seqs!LinkedNodes /\ Seqs!ContainerOf(n) = c /\ Seqs!Position(n) = Len(x) + 1
<1>1. Shown \in [Container -> Seq(Node)] /\ Shown[c] \in Seq(Node)
    BY DEF Apart
<1>2. Len(x) + 1 \in 1 .. Len(Shown[c]) /\ Shown[c][Len(x) + 1] = n
    <2>1. /\ Len((x \o <<n>>) \o y) = Len(x) + 1 + Len(y) /\ Len(x) \in Nat /\ Len(y) \in Nat
          /\ ((x \o <<n>>) \o y)[Len(x) + 1] = n
        BY ThreeParts
    <2> QED BY <2>1
<1>3. \A d \in Container : \A i \in 1 .. Len(Shown[d]) :
         Shown[d][i] = n => d = c /\ i = Len(x) + 1
    <2>1. \A d \in Container : \A i \in 1 .. Len(Shown[d]) :
             Shown[d][i] = Shown[c][Len(x) + 1] => d = c /\ i = Len(x) + 1
        BY <1>2, OnePlace
    <2> QED BY <1>2, <2>1, Zenon
<1>4. \A d \in Container : DOMAIN Shown[d] = 1 .. Len(Shown[d])
    BY <1>1
<1>5. n \in Seqs!LinkedNodes
    BY <1>1, <1>2, ShownLinked DEF In
<1>6. \A d \in Container : n \in Seqs!ToSet(Shown[d]) <=> d = c
    BY <1>2, <1>3, <1>4 DEF Seqs!ToSet
<1>7. Seqs!ContainerOf(n) = c
    BY <1>6 DEF Seqs!ContainerOf
<1>8. Seqs!Position(n) = Len(x) + 1
    BY <1>2, <1>3, <1>4, <1>7 DEF Seqs!Position
<1> QED BY <1>5, <1>7, <1>8

(* The sequence z is x and then y, place by place. *)
Join(z, x, y) ==
    /\ z \in Seq(Node) /\ x \in Seq(Node) /\ y \in Seq(Node)
    /\ Len(z) = Len(x) + Len(y) /\ Len(x) \in Nat /\ Len(y) \in Nat
    /\ \A i \in 1 .. Len(x) : i \in 1 .. Len(z) /\ z[i] = x[i]
    /\ \A i \in 1 .. Len(y) : Len(x) + i \in 1 .. Len(z) /\ z[Len(x) + i] = y[i]
    /\ \A i \in 1 .. Len(z) : \/ i \in 1 .. Len(x)
                              \/ \E j \in 1 .. Len(y) : i = Len(x) + j

LEMMA Joined ==
    ASSUME NEW x \in Seq(Node), NEW y \in Seq(Node), NEW z, z = x \o y
    PROVE  Join(z, x, y)
<1>1. /\ z \in Seq(Node) /\ Len(z) = Len(x) + Len(y) /\ Len(x) \in Nat /\ Len(y) \in Nat
      /\ \A i \in 1 .. (Len(x) + Len(y)) : z[i] = IF i <= Len(x) THEN x[i] ELSE y[i - Len(x)]
    BY ConcatProperties
<1>2. \A i \in 1 .. Len(x) : i \in 1 .. (Len(x) + Len(y)) /\ i <= Len(x)
    BY <1>1
<1>3. \A i \in 1 .. Len(y) : /\ Len(x) + i \in 1 .. (Len(x) + Len(y))
                             /\ ~ (Len(x) + i <= Len(x)) /\ (Len(x) + i) - Len(x) = i
    BY <1>1
<1>4. \A i \in 1 .. (Len(x) + Len(y)) :
         \/ i \in 1 .. Len(x)
         \/ (i - Len(x)) \in 1 .. Len(y) /\ i = Len(x) + (i - Len(x))
    BY <1>1
<1> QED BY <1>2, <1>3, <1>4 DEF Join

(* The nodes a, placed between x and y in container c, are what an extend  *)
(* of a and then t takes, if it is over or its next node is in a container *)
(* by now.                                                                 *)
LEMMA TakesPlaced ==
    ASSUME NEW B, Apart(B), NEW M, Apart(M), NEW c \in Container,
           \A d \in Container : d # c => M[d] = B[d],
           NEW v, v = B[c], NEW w, w = M[c], NEW x, NEW a, NEW y, NEW u, NEW t, NEW s,
           Join(v, x, y), Join(u, x, a), Join(w, u, y), Join(s, a, t),
           t = <<>> \/ In(M, Head(t))
    PROVE  Takes(B, s, Len(a))
<1>3. /\ u \in Seq(Node) /\ Len(u) = Len(x) + Len(a) /\ Len(x) \in Nat /\ Len(a) \in Nat
      /\ \A i \in 1 .. Len(x) : i \in 1 .. Len(u) /\ u[i] = x[i]
      /\ \A i \in 1 .. Len(a) : Len(x) + i \in 1 .. Len(u) /\ u[Len(x) + i] = a[i]
    BY DEF Join
<1>4. /\ w \in Seq(Node) /\ Len(w) = Len(u) + Len(y) /\ Len(y) \in Nat
      /\ \A i \in 1 .. Len(u) : i \in 1 .. Len(w) /\ w[i] = u[i]
      /\ \A i \in 1 .. Len(y) : Len(u) + i \in 1 .. Len(w) /\ w[Len(u) + i] = y[i]
    BY DEF Join
<1>5. /\ \A i \in 1 .. Len(x) : i \in 1 .. Len(v) /\ v[i] = x[i]
      /\ \A i \in 1 .. Len(y) : Len(x) + i \in 1 .. Len(v) /\ v[Len(x) + i] = y[i]
    BY DEF Join
<1>6. /\ s \in Seq(Node) /\ Len(s) = Len(a) + Len(t) /\ Len(t) \in Nat
      /\ \A i \in 1 .. Len(a) : i \in 1 .. Len(s) /\ s[i] = a[i]
      /\ \A i \in 1 .. Len(t) : Len(a) + i \in 1 .. Len(s) /\ s[Len(a) + i] = t[i]
    BY DEF Join
<1>7. \A i \in 1 .. Len(a) : Len(x) + i \in 1 .. Len(w) /\ w[Len(x) + i] = a[i]
    BY <1>3, <1>4
<1>8. \A j \in 1 .. Len(v) : \E p \in 1 .. Len(w) :
         w[p] = v[j] /\ \A i \in 1 .. Len(a) : p # Len(x) + i
    <2> TAKE j \in 1 .. Len(v)
    <2>1. CASE j \in 1 .. Len(x)
        <3>1. j \in 1 .. Len(w) /\ w[j] = v[j]
            BY <1>3, <1>4, <1>5, <2>1
        <3>2. \A i \in 1 .. Len(a) : j # Len(x) + i
            BY <1>3, <2>1
        <3> QED BY <3>1, <3>2
    <2>2. ASSUME NEW i \in 1 .. Len(y), j = Len(x) + i
          PROVE  \E p \in 1 .. Len(w) :
                    w[p] = v[j] /\ \A k \in 1 .. Len(a) : p # Len(x) + k
        <3>1. Len(u) + i \in 1 .. Len(w) /\ w[Len(u) + i] = v[j]
            BY <1>4, <1>5, <2>2
        <3>2. \A k \in 1 .. Len(a) : Len(u) + i # Len(x) + k
            BY <1>3
        <3> QED BY <3>1, <3>2
    <2> QED BY <2>1, <2>2 DEF Join
<1>9. \A i \in 1 .. Len(a) : ~ In(B, a[i])
    <2> SUFFICES ASSUME NEW i \in 1 .. Len(a), NEW d \in Container, NEW j \in 1 .. Len(B[d]),
                        B[d][j] = a[i]
                 PROVE  FALSE
        BY DEF In
    <2>1. Len(x) + i \in 1 .. Len(M[c]) /\ M[c][Len(x) + i] = a[i]
        BY <1>7
    <2>2. \A e \in Container : \A q \in 1 .. Len(M[e]) :
             M[e][q] = a[i] => e = c /\ q = Len(x) + i
        BY <2>1, OnePlace
    <2>3. CASE d # c
        BY <2>2, <2>3
    <2>4. CASE d = c
        BY <1>8, <2>2, <2>4
    <2> QED BY <2>3, <2>4
<1>10. \A i, j \in 1 .. Len(a) : a[i] = a[j] => i = j
    <2> TAKE i, j \in 1 .. Len(a)
    <2>1. /\ Len(x) + i \in 1 .. Len(M[c]) /\ M[c][Len(x) + i] = a[i]
          /\ Len(x) + j \in 1 .. Len(M[c]) /\ M[c][Len(x) + j] = a[j]
        BY <1>7
    <2>2. a[i] = a[j] => Len(x) + i = Len(x) + j
        BY <2>1 DEF Apart
    <2> QED BY <1>3, <2>2
<1>11. \A n : In(M, n) => In(B, n) \/ \E j \in 1 .. Len(a) : a[j] = n
    <2> SUFFICES ASSUME NEW n, NEW d \in Container, NEW j \in 1 .. Len(M[d]), M[d][j] = n
                 PROVE  In(B, n) \/ \E k \in 1 .. Len(a) : a[k] = n
        BY DEF In
    <2>1. CASE d # c
        BY <2>1 DEF In
    <2>2. CASE d = c
        <3>1. j \in 1 .. Len(w) /\ w[j] = n
            BY <2>2
        <3>2. \/ j \in 1 .. Len(u)
              \/ \E i \in 1 .. Len(y) : j = Len(u) + i
            BY <3>1 DEF Join
        <3>3. ASSUME NEW i \in 1 .. Len(y), j = Len(u) + i
              PROVE  In(B, n)
            BY <1>4, <1>5, <3>1, <3>3 DEF In
        <3>4. CASE j \in 1 .. Len(u)
            <4>1. \/ j \in 1 .. Len(x)
                  \/ \E i \in 1 .. Len(a) : j = Len(x) + i
                BY <3>4 DEF Join
            <4>2. CASE j \in 1 .. Len(x)
                <5>1. j \in 1 .. Len(v) /\ v[j] = n
                    BY <1>3, <1>4, <1>5, <3>1, <4>2
                <5> QED BY <5>1 DEF In
            <4> QED BY <1>7, <3>1, <4>1, <4>2
        <3> QED BY <3>2, <3>3, <3>4
    <2> QED BY <2>1, <2>2
<1>12. Len(a) \in 0 .. Len(s)
    BY <1>3, <1>6
<1>13. \A i \in 1 .. Len(a) : ~ In(B, s[i]) /\ \A j \in 1 .. (i - 1) : s[j] # s[i]
    <2> TAKE i \in 1 .. Len(a)
    <2>1. ~ In(B, s[i])
        BY <1>6, <1>9
    <2>2. \A j \in 1 .. (i - 1) : j \in 1 .. Len(a) /\ j # i
        BY <1>3
    <2> QED BY <1>6, <1>10, <2>1, <2>2
<1>14. ASSUME Len(a) < Len(s)
       PROVE  In(B, s[Len(a) + 1]) \/ \E j \in 1 .. Len(a) : s[j] = s[Len(a) + 1]
    <2>1. Len(t) > 0 /\ 1 \in 1 .. Len(t) /\ Len(a) \in Nat
        BY <1>3, <1>6, <1>14
    <2>2. t # <<>> /\ s[Len(a) + 1] = Head(t)
        BY <1>6, <2>1
    <2>3. In(M, Head(t))
        BY <2>2
    <2> QED BY <1>6, <1>11, <2>2, <2>3
<1> QED BY <1>12, <1>13, <1>14 DEF Takes

(* A sequence is cut where it was joined. *)
LEMMA Cut ==
    ASSUME NEW z, NEW x, NEW y, Join(z, x, y)
    PROVE  SubSeq(z, 1, Len(x)) = x /\ SubSeq(z, Len(x) + 1, Len(z)) = y
<1> DEFINE p == SubSeq(z, 1, Len(x))
           q == SubSeq(z, Len(x) + 1, Len(z))
<1>1. /\ z \in Seq(Node) /\ x \in Seq(Node) /\ y \in Seq(Node)
      /\ Len(z) = Len(x) + Len(y) /\ Len(x) \in Nat /\ Len(y) \in Nat
      /\ \A i \in 1 .. Len(x) : i \in 1 .. Len(z) /\ z[i] = x[i]
      /\ \A i \in 1 .. Len(y) : Len(x) + i \in 1 .. Len(z) /\ z[Len(x) + i] = y[i]
    BY DEF Join
<1>2. /\ 1 \in Int /\ Len(x) \in Int /\ Len(x) + 1 \in Int /\ Len(z) \in Int
      /\ \A i \in 1 .. Len(x) : z[i] \in Node
      /\ \A i \in (Len(x) + 1) .. Len(z) : z[i] \in Node
    <2>1. \A i \in (Len(x) + 1) .. Len(z) : i \in 1 .. Len(z)
        BY <1>1
    <2> QED BY <1>1, <2>1
<1>3. /\ p \in Seq(Node) /\ Len(p) = IF 1 <= Len(x) THEN Len(x) - 1 + 1 ELSE 0
      /\ \A i \in 1 .. (Len(x) - 1 + 1) : p[i] = z[1 + i - 1]
    BY <1>2, SubSeqProperties
<1>4. /\ q \in Seq(Node)
      /\ Len(q) = IF Len(x) + 1 <= Len(z) THEN Len(z) - (Len(x) + 1) + 1 ELSE 0
      /\ \A i \in 1 .. (Len(z) - (Len(x) + 1) + 1) : q[i] = z[(Len(x) + 1) + i - 1]
    BY <1>2, SubSeqProperties
<1> HIDE DEF p, q
<1>5. Len(p) = Len(x) /\ \A i \in 1 .. Len(p) : p[i] = x[i]
    <2>1. Len(p) = Len(x) /\ \A i \in 1 .. Len(x) : i \in 1 .. (Len(x) - 1 + 1) /\ 1 + i - 1 = i
        BY <1>1, <1>3
    <2> QED BY <1>1, <1>3, <2>1
<1>6. Len(q) = Len(y) /\ \A i \in 1 .. Len(q) : q[i] = y[i]
    <2>1. Len(q) = Len(y)
        BY <1>1, <1>4
    <2>2. \A i \in 1 .. Len(y) : /\ i \in 1 .. (Len(z) - (Len(x) + 1) + 1)
                                 /\ (Len(x) + 1) + i - 1 = Len(x) + i
        BY <1>1
    <2> QED BY <1>1, <1>4, <2>1, <2>2
<1>7. p = x
    BY <1>1, <1>3, <1>5, SeqEqual
<1>8. q = y
    BY <1>1, <1>4, <1>6, SeqEqual
<1> QED BY <1>7, <1>8 DEF p, q

(* What an edit that inserts nodes one by one amounts to: the nodes a have *)
(* been placed after x, and a next one, if there is one, is in a container *)
(* by then.                                                                *)
LEMMA InsertsAll ==
    ASSUME Apart(Shown), NEW c \in Container, NEW x \in Seq(Node), NEW y \in Seq(Node),
           Shown[c] = x \o y, NEW a \in Seq(Node), NEW t \in Seq(Node), NEW s, s = a \o t,
           Apart(Shown'), Shown' = [Shown EXCEPT ![c] = (x \o a) \o y],
           \/ t = <<>> /\ ret' = Ok
           \/ t # <<>> /\ In(Shown', Head(t)) /\ ret' = NodeAlreadyInContainer(Head(t))
    PROVE  Seqs!InsertAll(c, Len(x), s)
<1>1. Shown \in [Container -> Seq(Node)]
    BY DEF Apart
<1>2. PICK u, w : u = x \o a /\ w = u \o y
    OBVIOUS
<1>3. Shown'[c] = w /\ \A d \in Container : d # c => Shown'[d] = Shown[d]
    BY <1>1, <1>2
<1>4. Join(Shown[c], x, y) /\ Join(s, a, t)
    BY Joined
<1>5. Join(u, x, a) /\ u \in Seq(Node)
    <2>1. Join(u, x, a)
        BY <1>2, Joined
    <2> QED BY <2>1 DEF Join
<1>6. Join(w, u, y)
    BY <1>2, <1>5, Joined
<1>7. t = <<>> \/ In(Shown', Head(t))
    OBVIOUS
<1>8. Takes(Shown, s, Len(a))
    BY <1>3, <1>4, <1>5, <1>6, <1>7, TakesPlaced
<1>9. s \in Seq(Node) /\ Len(s) = Len(a) + Len(t) /\ Len(a) \in Nat /\ Len(t) \in Nat
    BY <1>4 DEF Join
<1>10. Seqs!Acceptable(s) = Len(a)
    BY <1>1, <1>8, <1>9, ShownTakes
<1>11. Seqs!Insert(Shown[c], Len(x), SubSeq(s, 1, Len(a))) = (x \o a) \o y
    <2>1. /\ SubSeq(Shown[c], 1, Len(x)) = x
          /\ SubSeq(Shown[c], Len(x) + 1, Len(Shown[c])) = y
          /\ SubSeq(s, 1, Len(a)) = a
        BY <1>4, Cut
    <2> QED BY <2>1 DEF Seqs!Insert
<1>12. Shown' = [Shown EXCEPT ![c] = Seqs!Insert(@, Len(x), SubSeq(s, 1, Len(a)))]
    BY <1>1, <1>11
<1>13. ret' = IF Len(a) = Len(s) THEN Seqs!OkResult
              ELSE Seqs!Error("NodeAlreadyInContainer", s[Len(a) + 1])
    <2>1. CASE t = <<>>
        <3>1. Len(a) = Len(s) /\ ret' = Ok
            BY <1>9, <2>1
        <3> QED BY <3>1 DEF Seqs!OkResult, Ok
    <2>2. CASE t # <<>>
        <3>1. Len(t) > 0 /\ Head(t) = t[1] /\ 1 \in 1 .. Len(t)
            BY <1>9, <2>2
        <3>2. Len(a) # Len(s) /\ s[Len(a) + 1] = Head(t)
            BY <1>4, <1>9, <3>1 DEF Join
        <3> QED BY <2>2, <3>2 DEF Seqs!Error, NodeAlreadyInContainer
    <2> QED BY <2>1, <2>2
<1> QED BY <1>10, <1>12, <1>13 DEF Seqs!InsertAll

-----------------------------------------------------------------------------
(***************************************************************************)
(* Every step is a step of ListSeq, or leaves what is shown as it is.      *)
(***************************************************************************)

LEMMA ApartShown ==
    ASSUME NEW h, NEW o \in OpType, NEW B, InOrder(h, Lists(h)), LoopState(o, B, Lists(h))
    PROVE  Apart(IF o = Idle THEN Lists(h) ELSE B)
<1>1. o # Idle => o.kind # "idle"
    BY DEF OpType
<1> QED BY <1>1, ApartOf DEF LoopState

LEMMA ShownFacts ==
    ASSUME OrderInv, OrderInv'
    PROVE  /\ Apart(Shown) /\ Apart(Shown')
           /\ Shown \in [Container -> Seq(Node)]
           /\ op = Idle => Shown = Lists(ctx)
           /\ op # Idle => Shown = before
           /\ op' = Idle => Shown' = Lists(ctx')
           /\ op' # Idle => Shown' = before'
<1>1. op \in OpType /\ op' \in OpType
    BY DEF OrderInv, Inv, TypeOK
<1>2. Apart(Shown)
    BY <1>1, ApartShown DEF OrderInv, Shown
<1>3. Apart(Shown')
    BY <1>1, ApartShown DEF OrderInv, Shown
<1>4. Shown \in [Container -> Seq(Node)]
    BY <1>2 DEF Apart
<1> QED BY <1>2, <1>3, <1>4 DEF Shown

LEMMA InIsLinked ==
    ASSUME NEW h, NEW L, InOrder(h, L), Sound(h), NEW n \in Node
    PROVE  In(L, n) <=> h.container[n] # None
<1>1. h.container[n] \in Container \cup {None}
    BY DEF Sound, Ctx
<1>2. In(L, n) => h.container[n] # None
    BY NoneAssumption DEF In, InOrder
<1>3. h.container[n] # None => In(L, n)
    BY <1>1 DEF In, InOrder
<1> QED BY <1>2, <1>3

LEMMA ShownIn ==
    ASSUME OrderInv, OrderInv', op = Idle, NEW n \in Node
    PROVE  (In(Shown, n) <=> ctx.container[n] # None)
           /\ (n \in Seqs!LinkedNodes <=> ctx.container[n] # None)
<1>1. In(Lists(ctx), n) <=> ctx.container[n] # None
    BY OrderFacts, InIsLinked
<1>2. In(Shown, n) <=> ctx.container[n] # None
    BY <1>1, ShownFacts
<1> QED BY <1>2, ShownFacts, ShownLinked

(* One node inserted, or refused. *)
LEMMA InsertsOne ==
    ASSUME Apart(Shown), Apart(Shown'), NEW c \in Container, NEW x \in Seq(Node),
           NEW y \in Seq(Node), Shown[c] = x \o y, NEW n \in Node,
           \/ Shown' = Shown /\ In(Shown, n) /\ ret' = NodeAlreadyInContainer(n)
           \/ Shown' = [Shown EXCEPT ![c] = (x \o <<n>>) \o y] /\ ret' = Ok
    PROVE  Seqs!InsertAll(c, Len(x), <<n>>)
<1>1. PICK s \in Seq(Node) : s = <<n>> /\ s # <<>> /\ Head(s) = n
    <2>1. <<n>> \in Seq(Node) /\ <<n>> # <<>> /\ Head(<<n>>) = n
        OBVIOUS
    <2> QED BY <2>1, Zenon
<1>2. PICK e \in Seq(Node) : e = <<>>
    <2>1. <<>> \in Seq(Node)
        OBVIOUS
    <2> QED BY <2>1, Zenon
<1>3. s = s \o e /\ s = e \o s /\ x \o e = x
    BY <1>2, ConcatEmptySeq
<1>4. Shown \in [Container -> Seq(Node)]
    BY DEF Apart
<1>5. CASE Shown' = Shown /\ In(Shown, n) /\ ret' = NodeAlreadyInContainer(n)
    <2>1. Shown' = [Shown EXCEPT ![c] = (x \o e) \o y]
        BY <1>3, <1>4, <1>5
    <2>2. s # <<>> /\ In(Shown', Head(s)) /\ ret' = NodeAlreadyInContainer(Head(s))
        BY <1>1, <1>5
    <2>3. s = e \o s
        BY <1>3
    <2>4. Seqs!InsertAll(c, Len(x), s)
        BY <2>1, <2>2, <2>3, InsertsAll
    <2> QED BY <1>1, <2>4
<1>6. CASE Shown' = [Shown EXCEPT ![c] = (x \o <<n>>) \o y] /\ ret' = Ok
    <2>1. Shown' = [Shown EXCEPT ![c] = (x \o s) \o y]
        BY <1>1, <1>6
    <2>2. e = <<>> /\ ret' = Ok
        BY <1>2, <1>6
    <2>3. s = s \o e
        BY <1>3
    <2>4. Seqs!InsertAll(c, Len(x), s)
        BY <2>1, <2>2, <2>3, InsertsAll
    <2> QED BY <1>1, <2>4
<1> QED BY <1>5, <1>6

(* The methods that are one step. *)
LEMMA PushFrontShown ==
    ASSUME OrderInv, OrderInv', NEW c \in Container, NEW n \in Node, DoPushFront(c, n)
    PROVE  Seqs!PushFront(c, n)
<1>1. op = Idle /\ op' = Idle
    BY DEF DoPushFront, Calls
<1>2. /\ Apart(Shown) /\ Apart(Shown') /\ Shown = Lists(ctx) /\ Shown' = Lists(ctx')
      /\ Shown \in [Container -> Seq(Node)]
    BY <1>1, ShownFacts
<1>3. PICK e \in Seq(Node), y \in Seq(Node) : e = <<>> /\ y = Shown[c]
    <2>1. <<>> \in Seq(Node) /\ Shown[c] \in Seq(Node)
        BY <1>2
    <2> QED BY <2>1, Zenon
<1>4. Len(e) = 0 /\ Shown[c] = e \o y /\ e \o <<n>> = <<n>>
    <2>1. <<n>> \in Seq(Node)
        OBVIOUS
    <2> QED BY <1>3, <2>1, ConcatEmptySeq
<1>5. \/ Shown' = Shown /\ In(Shown, n) /\ ret' = NodeAlreadyInContainer(n)
      \/ Shown' = [Shown EXCEPT ![c] = (e \o <<n>>) \o y] /\ ret' = Ok
    <2>1. CASE /\ ctx.container[n] # None
               /\ ret' = NodeAlreadyInContainer(n) /\ ctx' = ctx
        BY <1>1, <1>2, <2>1, ShownIn
    <2>2. CASE ret' = Ok /\ InOrder(ctx', [Lists(ctx) EXCEPT ![c] = <<n>> \o @])
        <3>1. Lists(ctx') = [Lists(ctx) EXCEPT ![c] = <<n>> \o @]
            BY <2>2, ListsOf
        <3> QED BY <1>2, <1>3, <1>4, <2>2, <3>1
    <2> QED BY <2>1, <2>2, PushFrontEdits
<1>6. Seqs!InsertAll(c, Len(e), <<n>>)
    BY <1>2, <1>4, <1>5, InsertsOne
<1> QED BY <1>4, <1>6 DEF Seqs!PushFront

LEMMA PushBackShown ==
    ASSUME OrderInv, OrderInv', NEW c \in Container, NEW n \in Node, DoPushBack(c, n)
    PROVE  Seqs!Extend(c, <<n>>)
<1>1. op = Idle /\ op' = Idle
    BY DEF DoPushBack, Calls
<1>2. /\ Apart(Shown) /\ Apart(Shown') /\ Shown = Lists(ctx) /\ Shown' = Lists(ctx')
      /\ Shown \in [Container -> Seq(Node)]
    BY <1>1, ShownFacts
<1>3. PICK x \in Seq(Node), e \in Seq(Node) : e = <<>> /\ x = Shown[c]
    <2>1. <<>> \in Seq(Node) /\ Shown[c] \in Seq(Node)
        BY <1>2
    <2> QED BY <2>1, Zenon
<1>4. Shown[c] = x \o e /\ (x \o <<n>>) \o e = x \o <<n>>
    <2>1. x \o <<n>> \in Seq(Node)
        BY LastPart
    <2> QED BY <1>3, <2>1, ConcatEmptySeq
<1>5. \/ Shown' = Shown /\ In(Shown, n) /\ ret' = NodeAlreadyInContainer(n)
      \/ Shown' = [Shown EXCEPT ![c] = (x \o <<n>>) \o e] /\ ret' = Ok
    <2>1. CASE /\ ctx.container[n] # None
               /\ ret' = NodeAlreadyInContainer(n) /\ ctx' = ctx
        BY <1>1, <1>2, <2>1, ShownIn
    <2>2. CASE ret' = Ok /\ InOrder(ctx', [Lists(ctx) EXCEPT ![c] = @ \o <<n>>])
        <3>1. Lists(ctx') = [Lists(ctx) EXCEPT ![c] = @ \o <<n>>]
            BY <2>2, ListsOf
        <3> QED BY <1>2, <1>3, <1>4, <2>2, <3>1
    <2> QED BY <2>1, <2>2, PushBackEdits
<1>6. Seqs!InsertAll(c, Len(x), <<n>>)
    BY <1>2, <1>4, <1>5, InsertsOne
<1> QED BY <1>3, <1>6 DEF Seqs!Extend

(* The node m is not in a container, or between two sequences of one. *)
LEMMA ShownAround ==
    ASSUME OrderInv, OrderInv', op = Idle, NEW m \in Node
    PROVE  \/ ctx.container[m] = None /\ m \notin Seqs!LinkedNodes
           \/ /\ ctx.container[m] # None /\ ctx.container[m] \in Container
              /\ m \in Seqs!LinkedNodes /\ Seqs!ContainerOf(m) = ctx.container[m]
              /\ \E x, y \in Seq(Node) :
                    /\ Shown[ctx.container[m]] = (x \o <<m>>) \o y
                    /\ Seqs!Position(m) = Len(x) + 1
<1>1. CASE ctx.container[m] = None
    BY <1>1, ShownIn
<1>2. CASE ctx.container[m] # None
    <2>1. Sound(ctx) /\ InOrder(ctx, Lists(ctx)) /\ Shown = Lists(ctx) /\ Apart(Shown)
        BY OrderFacts, ShownFacts
    <2>2. InOrder(ctx, Shown)
        BY <2>1
    <2>3. /\ ctx.container[m] \in Container
          /\ \E x, y \in Seq(Node) : Shown[ctx.container[m]] = (x \o <<m>>) \o y
        BY <1>2, <2>1, <2>2, LinkedAt
    <2>4. PICK x \in Seq(Node), y \in Seq(Node) : Shown[ctx.container[m]] = (x \o <<m>>) \o y
        BY <2>3
    <2>5. /\ m \in Seqs!LinkedNodes /\ Seqs!ContainerOf(m) = ctx.container[m]
          /\ Seqs!Position(m) = Len(x) + 1
        <3> DEFINE c == ctx.container[m]
        <3>1. Apart(Shown) /\ c \in Container /\ Shown[c] = (x \o <<m>>) \o y
            BY <2>1, <2>3, <2>4
        <3> HIDE DEF c
        <3>2. m \in Seqs!LinkedNodes /\ Seqs!ContainerOf(m) = c /\ Seqs!Position(m) = Len(x) + 1
            BY <3>1, ShownAt
        <3> QED BY <3>2 DEF c
    <2> QED BY <1>2, <2>3, <2>4, <2>5
<1> QED BY <1>1, <1>2

LEMMA InsertAfterShown ==
    ASSUME OrderInv, OrderInv', NEW m \in Node, NEW n \in Node, DoInsertAfter(m, n)
    PROVE  Seqs!ExtendAfter(m, <<n>>)
<1>1. op = Idle /\ op' = Idle
    BY DEF DoInsertAfter, Calls
<1>2. /\ Apart(Shown) /\ Apart(Shown') /\ Shown = Lists(ctx) /\ Shown' = Lists(ctx')
    BY <1>1, ShownFacts
<1>3. CASE ctx.container[m] = None
    <2>1. ret' = CurrentNodeNotLinked(m) /\ Shown' = Shown
        BY <1>2, <1>3, InsertAfterEdits
    <2>2. m \notin Seqs!LinkedNodes /\ <<n>> # <<>>
        BY <1>1, <1>3, ShownAround
    <2> QED BY <2>1, <2>2 DEF Seqs!ExtendAfter, Seqs!Fail, Seqs!Error, CurrentNodeNotLinked
<1>4. CASE ctx.container[m] # None
    <2> DEFINE c == ctx.container[m]
    <2>1. /\ c \in Container /\ m \in Seqs!LinkedNodes /\ Seqs!ContainerOf(m) = c
          /\ \E x, y \in Seq(Node) :
                Shown[c] = (x \o <<m>>) \o y /\ Seqs!Position(m) = Len(x) + 1
        BY <1>1, <1>4, ShownAround
    <2>2. PICK x \in Seq(Node), y \in Seq(Node) :
              Shown[c] = (x \o <<m>>) \o y /\ Seqs!Position(m) = Len(x) + 1
        BY <2>1
    <2>3. \/ ret' = NodeAlreadyInContainer(n) /\ ctx' = ctx /\ ctx.container[n] # None
          \/ /\ ret' = Ok
             /\ InOrder(ctx', [Lists(ctx) EXCEPT ![c] = ((x \o <<m>>) \o <<n>>) \o y])
        <3>1. Lists(ctx)[ctx.container[m]] = (x \o <<m>>) \o y
            BY <1>2, <2>2
        <3> QED BY <1>4, <3>1, InsertAfterEdits
    <2> HIDE DEF c
    <2>4. PICK u \in Seq(Node) : u = x \o <<m>> /\ Len(u) = Len(x) + 1
        <3>1. x \o <<m>> \in Seq(Node) /\ Len(x \o <<m>>) = Len(x) + 1
            BY LastPart
        <3> QED BY <3>1, Zenon
    <2>5. \/ Shown' = Shown /\ In(Shown, n) /\ ret' = NodeAlreadyInContainer(n)
          \/ Shown' = [Shown EXCEPT ![c] = (u \o <<n>>) \o y] /\ ret' = Ok
        <3>1. CASE ret' = NodeAlreadyInContainer(n) /\ ctx' = ctx /\ ctx.container[n] # None
            BY <1>1, <1>2, <3>1, ShownIn
        <3>2. CASE /\ ret' = Ok
                   /\ InOrder(ctx', [Lists(ctx) EXCEPT ![c] = ((x \o <<m>>) \o <<n>>) \o y])
            <4>1. Lists(ctx') = [Lists(ctx) EXCEPT ![c] = ((x \o <<m>>) \o <<n>>) \o y]
                BY <3>2, ListsOf
            <4> QED BY <1>2, <2>4, <3>2, <4>1
        <3> QED BY <2>3, <3>1, <3>2
    <2>6. Shown[c] = u \o y
        BY <2>2, <2>4
    <2>7. Seqs!InsertAll(c, Len(u), <<n>>)
        BY <1>2, <2>1, <2>5, <2>6, InsertsOne
    <2> QED BY <2>1, <2>2, <2>4, <2>7 DEF Seqs!ExtendAfter
<1> QED BY <1>3, <1>4

LEMMA InsertBeforeShown ==
    ASSUME OrderInv, OrderInv', NEW m \in Node, NEW n \in Node, DoInsertBefore(m, n)
    PROVE  Seqs!ExtendBefore(m, <<n>>)
<1>1. op = Idle /\ op' = Idle
    BY DEF DoInsertBefore, Calls
<1>2. /\ Apart(Shown) /\ Apart(Shown') /\ Shown = Lists(ctx) /\ Shown' = Lists(ctx')
    BY <1>1, ShownFacts
<1>3. CASE ctx.container[m] = None
    <2>1. ret' = CurrentNodeNotLinked(m) /\ Shown' = Shown
        BY <1>2, <1>3, InsertBeforeEdits
    <2>2. m \notin Seqs!LinkedNodes /\ <<n>> # <<>>
        BY <1>1, <1>3, ShownAround
    <2> QED BY <2>1, <2>2 DEF Seqs!ExtendBefore, Seqs!Fail, Seqs!Error, CurrentNodeNotLinked
<1>4. CASE ctx.container[m] # None
    <2> DEFINE c == ctx.container[m]
    <2>1. /\ c \in Container /\ m \in Seqs!LinkedNodes /\ Seqs!ContainerOf(m) = c
          /\ \E x, y \in Seq(Node) :
                Shown[c] = (x \o <<m>>) \o y /\ Seqs!Position(m) = Len(x) + 1
        BY <1>1, <1>4, ShownAround
    <2>2. PICK x \in Seq(Node), y \in Seq(Node) :
              Shown[c] = (x \o <<m>>) \o y /\ Seqs!Position(m) = Len(x) + 1
        BY <2>1
    <2>3. \/ ret' = NodeAlreadyInContainer(n) /\ ctx' = ctx /\ ctx.container[n] # None
          \/ /\ ret' = Ok
             /\ InOrder(ctx', [Lists(ctx) EXCEPT ![c] = (x \o <<n>>) \o (<<m>> \o y)])
        <3>1. Lists(ctx)[ctx.container[m]] = (x \o <<m>>) \o y
            BY <1>2, <2>2
        <3> QED BY <1>4, <3>1, InsertBeforeEdits
    <2> HIDE DEF c
    <2>4. PICK v \in Seq(Node) : v = <<m>> \o y /\ (x \o <<m>>) \o y = x \o v
        <3>1. <<m>> \o y \in Seq(Node) /\ (x \o <<m>>) \o y = x \o (<<m>> \o y)
            BY AroundNode
        <3> QED BY <3>1, Zenon
    <2>5. \/ Shown' = Shown /\ In(Shown, n) /\ ret' = NodeAlreadyInContainer(n)
          \/ Shown' = [Shown EXCEPT ![c] = (x \o <<n>>) \o v] /\ ret' = Ok
        <3>1. CASE ret' = NodeAlreadyInContainer(n) /\ ctx' = ctx /\ ctx.container[n] # None
            BY <1>1, <1>2, <3>1, ShownIn
        <3>2. CASE /\ ret' = Ok
                   /\ InOrder(ctx', [Lists(ctx) EXCEPT ![c] = (x \o <<n>>) \o (<<m>> \o y)])
            <4>1. Lists(ctx') = [Lists(ctx) EXCEPT ![c] = (x \o <<n>>) \o (<<m>> \o y)]
                BY <3>2, ListsOf
            <4> QED BY <1>2, <2>4, <3>2, <4>1
        <3> QED BY <2>3, <3>1, <3>2
    <2>6. Shown[c] = x \o v
        BY <2>2, <2>4
    <2>7. Seqs!InsertAll(c, Len(x), <<n>>)
        BY <1>2, <2>1, <2>5, <2>6, InsertsOne
    <2>8. Seqs!Position(m) - 1 = Len(x)
        <3>1. Len(x) \in Nat
            OBVIOUS
        <3> QED BY <2>2, <3>1
    <2> QED BY <2>1, <2>7, <2>8 DEF Seqs!ExtendBefore
<1> QED BY <1>3, <1>4

LEMMA UnlinkShown ==
    ASSUME OrderInv, OrderInv', NEW n \in Node, DoUnlink(n)
    PROVE  Seqs!Unlink(n)
<1>1. op = Idle /\ op' = Idle
    BY DEF DoUnlink, Calls
<1>2. /\ Apart(Shown) /\ Shown = Lists(ctx) /\ Shown' = Lists(ctx') /\ ret' = ret
      /\ Shown \in [Container -> Seq(Node)]
    BY <1>1, ShownFacts DEF DoUnlink
<1>3. CASE ctx.container[n] = None
    <2>1. n \notin Seqs!LinkedNodes
        BY <1>1, <1>3, ShownAround
    <2>2. Shown' = Shown
        BY <1>2, <1>3, UnlinkEdits
    <2> QED BY <1>2, <2>1, <2>2 DEF Seqs!Unlink
<1>4. CASE ctx.container[n] # None
    <2> DEFINE c == ctx.container[n]
    <2>1. /\ c \in Container /\ n \in Seqs!LinkedNodes /\ Seqs!ContainerOf(n) = c
          /\ \E x, y \in Seq(Node) :
                Shown[c] = (x \o <<n>>) \o y /\ Seqs!Position(n) = Len(x) + 1
        BY <1>1, <1>4, ShownAround
    <2>2. PICK x \in Seq(Node), y \in Seq(Node) :
              Shown[c] = (x \o <<n>>) \o y /\ Seqs!Position(n) = Len(x) + 1
        BY <2>1
    <2>3. InOrder(ctx', [Lists(ctx) EXCEPT ![c] = x \o y])
        <3>1. Lists(ctx)[ctx.container[n]] = (x \o <<n>>) \o y
            BY <1>2, <2>2
        <3> QED BY <1>4, <3>1, UnlinkEdits
    <2> HIDE DEF c
    <2>4. Lists(ctx') = [Lists(ctx) EXCEPT ![c] = x \o y]
        BY <2>3, ListsOf
    <2> DEFINE z == Shown[c]
    <2>5. PICK u \in Seq(Node) : u = x \o <<n>> /\ Len(u) = Len(x) + 1 /\ Len(x) \in Nat
        <3>1. x \o <<n>> \in Seq(Node) /\ Len(x \o <<n>>) = Len(x) + 1 /\ Len(x) \in Nat
            BY LastPart
        <3> QED BY <3>1, Zenon
    <2>6. PICK v \in Seq(Node) : v = <<n>> \o y /\ u \o y = x \o v
        <3>1. <<n>> \o y \in Seq(Node) /\ (x \o <<n>>) \o y = x \o (<<n>> \o y)
            BY AroundNode
        <3> QED BY <2>5, <3>1, Zenon
    <2>7. z = u \o y /\ z = x \o v
        BY <2>2, <2>5, <2>6
    <2> HIDE DEF z
    <2>8. Join(z, u, y) /\ Join(z, x, v)
        BY <2>7, Joined
    <2>9. SubSeq(z, 1, Len(x)) = x /\ SubSeq(z, Len(u) + 1, Len(z)) = y
        BY <2>8, Cut
    <2>10. Seqs!Position(n) - 1 = Len(x) /\ Seqs!Position(n) + 1 = Len(u) + 1
        BY <2>2, <2>5
    <2>11. Seqs!RemoveAt(Shown[c], Seqs!Position(n)) = x \o y
        BY <2>9, <2>10 DEF z, Seqs!RemoveAt
    <2>12. Shown' = [Shown EXCEPT ![Seqs!ContainerOf(n)] = Seqs!RemoveAt(@, Seqs!Position(n))]
        BY <1>2, <2>1, <2>4, <2>11
    <2> QED BY <1>2, <2>1, <2>12 DEF Seqs!Unlink
<1> QED BY <1>3, <1>4

LEMMA SplitRejectShown ==
    ASSUME OrderInv, OrderInv', NEW c \in Container, NEW pos \in Node, SplitReject(c, pos)
    PROVE  Seqs!Split(c, c, pos)
<1>1. /\ op = Idle /\ op' = Idle /\ ctx' = ctx /\ ctx.container[pos] # c
      /\ ret' = PositionNodeNotInContainer(pos)
    BY DEF SplitReject, Calls
<1>2. Shown = Lists(ctx) /\ Shown' = Shown /\ Shown[c] \in Seq(Node)
    BY <1>1, ShownFacts
<1>3. InOrder(ctx, Shown)
    BY <1>2, OrderFacts
<1>4. \A i \in 1 .. Len(Shown[c]) : Shown[c][i] # pos
    BY <1>1, <1>3 DEF InOrder
<1>5. pos \notin Seqs!ToSet(Shown[c])
    BY <1>2, <1>4 DEF Seqs!ToSet
<1> QED BY <1>1, <1>2, <1>5 DEF Seqs!Split, Seqs!Fail, Seqs!Error, PositionNodeNotInContainer

(* The loops, when they end. *)
LEMMA AppendShown ==
    ASSUME OrderInv, OrderInv', AppendReturn
    PROVE  op.self \in Container /\ op.other \in Container /\ Seqs!Drain(op.self, op.other)
<1>1. /\ op.self \in Container /\ op.other \in Container /\ ctx' = ctx
      /\ op' = Idle /\ op # Idle /\ AppendDone(op, before, Lists(ctx))
      /\ ret' = IF op.self = op.other /\ before[op.self] # <<>> THEN AssertFailed ELSE Ok
    BY AppendReturns
<1>2. /\ Shown = before /\ Shown' = Lists(ctx) /\ Shown \in [Container -> Seq(Node)]
    BY <1>1, ShownFacts
<1>3. AppendDone(op, Shown, Shown')
    BY <1>1, <1>2
<1>4. CASE op.self = op.other /\ Shown[op.self] # <<>>
    <2>1. ret' = [err |-> "debug_assert"] /\ Shown' = Shown
        BY <1>1, <1>2, <1>3, <1>4 DEF AppendDone, AssertFailed
    <2> QED BY <1>1, <1>4, <2>1 DEF Seqs!Drain, Seqs!Fail
<1>5. CASE ~ (op.self = op.other /\ Shown[op.self] # <<>>)
    <2>1. ret' = Seqs!OkResult
        BY <1>1, <1>2, <1>5 DEF Seqs!OkResult, Ok
    <2>2. Shown' = [[Shown EXCEPT ![op.self] = @ \o Shown[op.other]] EXCEPT ![op.other] = <<>>]
        BY <1>1, <1>2, <1>3, <1>5 DEF AppendDone
    <2> QED BY <1>1, <1>5, <2>1, <2>2 DEF Seqs!Drain
<1> QED BY <1>4, <1>5

LEMMA SplitShown ==
    ASSUME OrderInv, OrderInv', SplitReturn
    PROVE  /\ op.self \in Container /\ op.other \in Container /\ op.pos \in Node
           /\ Seqs!Split(op.self, op.other, op.pos)
<1> DEFINE c == op.self
           pos == op.pos
<1>1. /\ c \in Container /\ op.other \in Container /\ pos \in Node /\ ctx' = ctx
      /\ op' = Idle /\ op # Idle /\ ret' = Ok /\ SplitDone(op, before, Lists(ctx))
    BY SplitReturns
<1>2. /\ Shown = before /\ Shown' = Lists(ctx) /\ Shown \in [Container -> Seq(Node)]
      /\ Apart(Shown)
    BY <1>1, ShownFacts
<1>3. SplitDone(op, Shown, Shown')
    BY <1>1, <1>2
<1>4. PICK x \in Seq(Node), b \in Seq(Node) :
          /\ Shown[c] = (x \o <<pos>>) \o b
          /\ Shown' = IF c = op.other
                      THEN [Shown EXCEPT ![c] = b \o (x \o <<pos>>)]
                      ELSE [[Shown EXCEPT ![c] = x \o <<pos>>] EXCEPT ![op.other] = b \o @]
    BY <1>3, Zenon DEF SplitDone
<1>5. /\ pos \in Seqs!LinkedNodes /\ Seqs!ContainerOf(pos) = c
      /\ Seqs!Position(pos) = Len(x) + 1
    <2>1. /\ Apart(Shown) /\ c \in Container /\ pos \in Node
          /\ Shown[c] = (x \o <<pos>>) \o b
        BY <1>1, <1>2, <1>4
    <2> HIDE DEF c, pos
    <2> QED BY <2>1, ShownAt
<1>6. PICK u \in Seq(Node) : u = x \o <<pos>> /\ Len(u) = Len(x) + 1 /\ u[Len(u)] = pos
                             /\ Len(x) \in Nat
    <2>1. pos \in Node
        BY <1>1
    <2> HIDE DEF pos
    <2>2. /\ x \o <<pos>> \in Seq(Node) /\ Len(x \o <<pos>>) = Len(x) + 1
          /\ (x \o <<pos>>)[Len(x \o <<pos>>)] = pos /\ Len(x) \in Nat
        BY <2>1, LastPart
    <2> QED BY <2>2, Zenon
<1> HIDE DEF c, pos
<1>7. Join(Shown[c], u, b)
    BY <1>4, <1>6, Joined
<1>8. /\ SubSeq(Shown[c], 1, Seqs!Position(pos)) = u
      /\ SubSeq(Shown[c], Seqs!Position(pos) + 1, Len(Shown[c])) = b
    <2>1. Seqs!Position(pos) = Len(u)
        BY <1>5, <1>6
    <2> QED BY <1>7, <2>1, Cut
<1>9. pos \in Seqs!ToSet(Shown[c])
    <2>1. Len(u) \in 1 .. Len(u)
        BY <1>6
    <2>2. Len(u) \in 1 .. Len(Shown[c]) /\ Shown[c][Len(u)] = pos
        BY <1>6, <1>7, <2>1 DEF Join
    <2>3. DOMAIN Shown[c] = 1 .. Len(Shown[c])
        BY <1>1, <1>2
    <2> QED BY <2>2, <2>3 DEF Seqs!ToSet
<1>10. Shown' = IF c = op.other THEN [Shown EXCEPT ![c] = b \o u]
                ELSE [Shown EXCEPT ![c] = u, ![op.other] = b \o @]
    BY <1>4, <1>6
<1>11. ret' = Seqs!OkResult
    BY <1>1 DEF Seqs!OkResult, Ok
<1>12. Seqs!Split(c, op.other, pos)
    BY <1>8, <1>9, <1>10, <1>11 DEF Seqs!Split
<1> QED BY <1>1, <1>12 DEF c, pos

(* How an extend ends: over, or refused. *)
LEMMA ExtendEnds ==
    ASSUME OrderInv, OrderInv', ExtendReturn \/ ExtendFail
    PROVE  /\ op # Idle /\ op' = Idle /\ op.nodes \in Batch /\ op.todo \in Seq(Node)
           /\ Shown = before /\ Shown' = Lists(ctx) /\ ctx' = ctx
           /\ Apart(Shown) /\ Apart(Shown') /\ ExtendState(op, Shown, Shown')
           /\ \/ op.kind = "extend" /\ op.self \in Container
              \/ op.kind \in {"extend_after", "extend_before"} /\ op.at \in Node
           /\ \/ op.todo = <<>> /\ ret' = Ok
              \/ /\ op.todo # <<>> /\ In(Shown', Head(op.todo))
                 /\ op.kind # "extend" => In(Shown', op.at)
                 /\ ret' = NodeAlreadyInContainer(Head(op.todo))
              \/ /\ op.todo # <<>> /\ op.kind # "extend" /\ ~ In(Shown', op.at)
                 /\ ret' = CurrentNodeNotLinked(op.at)
<1>1. /\ op' = Idle /\ ctx' = ctx /\ op.kind \in {"extend", "extend_after", "extend_before"}
      /\ op # Idle
    BY DEF ExtendReturn, ExtendFail, Extending, Idle
<1>2. /\ op.nodes \in Batch /\ op.todo \in Batch
      /\ \/ op.kind = "extend" /\ op.self \in Container
         \/ op.kind \in {"extend_after", "extend_before"} /\ op.at \in Node
    BY <1>1, OrderFacts, OpKinds
<1>3. op.todo \in Seq(Node) /\ (op.todo # <<>> => Head(op.todo) \in Node)
    BY <1>2, BatchTail DEF Batch
<1>4. /\ Shown = before /\ Shown' = Lists(ctx) /\ Apart(Shown) /\ Apart(Shown')
    BY <1>1, ShownFacts
<1>5. ExtendState(op, Shown, Shown')
    <2>1. ExtendState(op, before, Lists(ctx))
        BY <1>1, OrderFacts DEF LoopState
    <2> QED BY <1>4, <2>1
<1>6. Sound(ctx) /\ InOrder(ctx, Shown')
    BY <1>4, OrderFacts
<1>7. ASSUME ExtendFail
      PROVE  /\ op.todo # <<>>
             /\ \/ /\ In(Shown', Head(op.todo))
                   /\ op.kind # "extend" => In(Shown', op.at)
                   /\ ret' = NodeAlreadyInContainer(Head(op.todo))
                \/ /\ op.kind # "extend" /\ ~ In(Shown', op.at)
                   /\ ret' = CurrentNodeNotLinked(op.at)
    <2> DEFINE n == Head(op.todo)
    <2>1. op.todo # <<>> /\ n \in Node /\ ret' = TurnResult /\ TurnResult # Ok
        BY <1>3, <1>7 DEF ExtendFail
    <2> HIDE DEF n
    <2>2. In(Shown', n) <=> ctx.container[n] # None
        BY <1>6, <2>1, InIsLinked
    <2>3. CASE op.kind = "extend"
        <3>1. TurnResult = PushResult(ctx, n)
            BY <2>3 DEF TurnResult, n
        <3> QED BY <2>1, <2>2, <2>3, <3>1 DEF PushResult, n
    <2>4. CASE op.kind # "extend" /\ op.at \in Node
        <3>1. TurnResult = InsertResult(ctx, op.at, n)
            BY <2>4 DEF TurnResult, n
        <3>2. In(Shown', op.at) <=> ctx.container[op.at] # None
            BY <1>6, <2>4, InIsLinked
        <3> QED BY <2>1, <2>2, <2>4, <3>1, <3>2 DEF InsertResult, n
    <2> QED BY <1>2, <2>3, <2>4
<1>8. ExtendReturn => op.todo = <<>> /\ ret' = Ok
    BY DEF ExtendReturn
<1> QED BY <1>1, <1>2, <1>3, <1>4, <1>5, <1>7, <1>8

LEMMA ShownBatch == \A s \in Batch : s \in Seqs!Batch /\ s \in Seq(Node)
BY DEF Batch, Seqs!Batch, Seqs!BoundedSeq, Seqs!SeqOf

(* The edit that an extend makes of the sequences shown. *)
ExtendEdit ==
    \/ op.kind = "extend" /\ Seqs!Extend(op.self, op.nodes)
    \/ op.kind = "extend_after" /\ \E m \in Node : Seqs!ExtendAfter(m, op.nodes)
    \/ op.kind = "extend_before" /\ \E m \in Node : Seqs!ExtendBefore(m, op.nodes)

LEMMA ExtendPlaced ==
    ASSUME Apart(Shown), Apart(Shown'), op.nodes \in Seq(Node), op.todo \in Seq(Node),
           op.kind \in {"extend", "extend_after", "extend_before"},
           \/ op.todo = <<>> /\ ret' = Ok
           \/ /\ op.todo # <<>> /\ In(Shown', Head(op.todo))
              /\ ret' = NodeAlreadyInContainer(Head(op.todo)),
           NEW a \in Seq(Node), op.nodes = a \o op.todo,
           NEW c \in Container, NEW x \in Seq(Node), NEW y \in Seq(Node), Shown[c] = x \o y,
           Shown' = [Shown EXCEPT ![c] = (x \o a) \o y],
           op.kind = "extend" => c = op.self /\ y = <<>>,
           op.kind = "extend_after" => x # <<>>,
           op.kind = "extend_before" => y # <<>>
    PROVE  ExtendEdit
<1>1. Seqs!InsertAll(c, Len(x), op.nodes)
    <2> DEFINE t == op.todo
               s == op.nodes
    <2>1. t \in Seq(Node) /\ s = a \o t
        OBVIOUS
    <2>2. \/ t = <<>> /\ ret' = Ok
          \/ t # <<>> /\ In(Shown', Head(t)) /\ ret' = NodeAlreadyInContainer(Head(t))
        OBVIOUS
    <2> HIDE DEF t, s
    <2>3. Seqs!InsertAll(c, Len(x), s)
        BY <2>1, <2>2, InsertsAll
    <2> QED BY <2>3 DEF s
<1>2. CASE op.kind = "extend"
    <2>1. c = op.self /\ Shown[c] = x
        BY <1>2, ConcatEmptySeq
    <2> QED BY <1>1, <1>2, <2>1 DEF Seqs!Extend, ExtendEdit
<1>3. CASE op.kind = "extend_after"
    <2> DEFINE m == x[Len(x)]
    <2>1. m \in Node
        BY <1>3
    <2>2. PICK x0 \in Seq(Node) : x = x0 \o <<m>>
        BY <1>3, LastApart
    <2> HIDE DEF m
    <2>3. Shown[c] = (x0 \o <<m>>) \o y /\ Len(x) = Len(x0) + 1
        BY <2>1, <2>2, LastPart
    <2>4. m \in Seqs!LinkedNodes /\ Seqs!ContainerOf(m) = c /\ Seqs!Position(m) = Len(x)
        BY <2>1, <2>3, ShownAt
    <2>5. Seqs!ExtendAfter(m, op.nodes)
        BY <1>1, <2>4 DEF Seqs!ExtendAfter
    <2> QED BY <1>3, <2>1, <2>5 DEF ExtendEdit
<1>4. CASE op.kind = "extend_before"
    <2> DEFINE m == y[1]
    <2>1. m \in Node
        BY <1>4
    <2>2. PICK y0 \in Seq(Node) : y = <<m>> \o y0
        BY <1>4, FirstApart
    <2> HIDE DEF m
    <2>3. Shown[c] = (x \o <<m>>) \o y0
        <3>1. (x \o <<m>>) \o y0 = x \o (<<m>> \o y0)
            BY <2>1, RegroupNode
        <3> QED BY <2>2, <3>1
    <2>4. m \in Seqs!LinkedNodes /\ Seqs!ContainerOf(m) = c /\ Seqs!Position(m) = Len(x) + 1
        BY <2>1, <2>3, ShownAt
    <2>5. Seqs!Position(m) - 1 = Len(x)
        <3>1. Len(x) \in Nat
            OBVIOUS
        <3> QED BY <2>4, <3>1
    <2>6. Seqs!ExtendBefore(m, op.nodes)
        BY <1>1, <2>4, <2>5 DEF Seqs!ExtendBefore
    <2> QED BY <1>4, <2>1, <2>6 DEF ExtendEdit
<1> QED BY <1>2, <1>3, <1>4

LEMMA ExtendNowhere ==
    ASSUME Apart(Shown), op.kind \in {"extend_after", "extend_before"}, op.at \in Node,
           op.nodes = op.todo, Shown' = Shown, ~ In(Shown, op.at),
           \/ op.todo = <<>> /\ ret' = Ok
           \/ op.todo # <<>> /\ ret' = CurrentNodeNotLinked(op.at)
    PROVE  ExtendEdit
<1>1. op.at \notin Seqs!LinkedNodes
    <2>1. Shown \in [Container -> Seq(Node)]
        BY DEF Apart
    <2> QED BY <2>1, ShownLinked
<1>2. Seqs!Fail(IF op.nodes = <<>> THEN Seqs!OkResult ELSE Seqs!Error("CurrentNodeNotLinked", op.at))
    BY DEF Seqs!Fail, Seqs!OkResult, Seqs!Error, Ok, CurrentNodeNotLinked
<1> QED BY <1>1, <1>2 DEF ExtendEdit, Seqs!ExtendAfter, Seqs!ExtendBefore

LEMMA ExtendShown ==
    ASSUME OrderInv, OrderInv', ExtendReturn \/ ExtendFail
    PROVE  ExtendEdit
<1> DEFINE Placed2(a, c, x, y) ==
              /\ Shown[c] = x \o y
              /\ Shown' = [Shown EXCEPT ![c] = (x \o a) \o y]
              /\ op.kind = "extend" => c = op.self /\ y = <<>>
              /\ op.kind = "extend_after" =>
                    x # <<>> /\ op.at = (x \o a)[Len(x \o a)]
              /\ op.kind = "extend_before" => y # <<>> /\ op.at = y[1]
           Lost(a) ==
              /\ op.kind # "extend" /\ a = <<>> /\ Shown' = Shown
              /\ \A c \in Container : \A i \in 1 .. Len(Shown[c]) : Shown[c][i] # op.at
<1>1. /\ op.nodes \in Seq(Node) /\ op.todo \in Seq(Node)
      /\ Apart(Shown) /\ Apart(Shown') /\ ExtendState(op, Shown, Shown')
      /\ \/ op.kind = "extend" /\ op.self \in Container
         \/ op.kind \in {"extend_after", "extend_before"} /\ op.at \in Node
      /\ \/ op.todo = <<>> /\ ret' = Ok
         \/ /\ op.todo # <<>> /\ In(Shown', Head(op.todo))
            /\ op.kind # "extend" => In(Shown', op.at)
            /\ ret' = NodeAlreadyInContainer(Head(op.todo))
         \/ /\ op.todo # <<>> /\ op.kind # "extend" /\ ~ In(Shown', op.at)
            /\ ret' = CurrentNodeNotLinked(op.at)
    BY ExtendEnds, ShownBatch
<1>2. PICK a \in Seq(Node) :
          /\ op.nodes = a \o op.todo
          /\ \/ \E c \in Container : \E x, y \in Seq(Node) : Placed2(a, c, x, y)
             \/ Lost(a)
    BY <1>1, Zenon DEF ExtendState
<1>3. ASSUME NEW c \in Container, NEW x \in Seq(Node), NEW y \in Seq(Node), Placed2(a, c, x, y)
      PROVE  ExtendEdit
    <2>1. In(Shown', op.at) \/ op.kind = "extend"
        <3>1. Shown' = [Shown EXCEPT ![c] = (x \o a) \o y] /\ Shown \in [Container -> Seq(Node)]
            BY <1>1, <1>3 DEF Apart
        <3>2. PICK u, w : u = x \o a /\ w = u \o y
            OBVIOUS
        <3>3. Join(u, x, a)
            BY <3>2, Joined
        <3>4. u \in Seq(Node)
            BY <3>3 DEF Join
        <3>5. Join(w, u, y)
            BY <3>2, <3>4, Joined
        <3>6. Shown'[c] = w
            BY <3>1, <3>2
        <3>7. CASE x # <<>> /\ op.at = u[Len(u)]
            <4>1. Len(x) > 0
                BY <3>7
            <4>2. Len(u) \in 1 .. Len(u)
                BY <3>3, <4>1 DEF Join
            <4>3. Len(u) \in 1 .. Len(w) /\ w[Len(u)] = op.at
                BY <3>5, <3>7, <4>2 DEF Join
            <4> QED BY <3>6, <4>3 DEF In
        <3>8. CASE y # <<>> /\ op.at = y[1]
            <4>1. 1 \in 1 .. Len(y)
                BY <3>8
            <4>2. Len(u) + 1 \in 1 .. Len(w) /\ w[Len(u) + 1] = op.at
                BY <3>5, <3>8, <4>1 DEF Join
            <4> QED BY <3>6, <4>2 DEF In
        <3> QED BY <1>1, <1>3, <3>2, <3>7, <3>8
    <2>2. \/ op.todo = <<>> /\ ret' = Ok
          \/ /\ op.todo # <<>> /\ In(Shown', Head(op.todo))
             /\ ret' = NodeAlreadyInContainer(Head(op.todo))
        BY <1>1, <2>1
    <2>3. /\ op.nodes = a \o op.todo /\ Shown[c] = x \o y
          /\ Shown' = [Shown EXCEPT ![c] = (x \o a) \o y]
          /\ op.kind = "extend" => c = op.self /\ y = <<>>
          /\ op.kind = "extend_after" => x # <<>>
          /\ op.kind = "extend_before" => y # <<>>
        BY <1>2, <1>3
    <2>4. /\ Apart(Shown) /\ Apart(Shown')
          /\ op.nodes \in Seq(Node) /\ op.todo \in Seq(Node)
          /\ op.kind \in {"extend", "extend_after", "extend_before"}
        BY <1>1
    <2> HIDE DEF Placed2, Lost
    <2> QED BY <2>2, <2>3, <2>4, ExtendPlaced
<1>4. CASE Lost(a)
    <2>1. op.nodes = op.todo
        BY <1>1, <1>2, <1>4, ConcatEmptySeq
    <2>2. ~ In(Shown, op.at)
        BY <1>4 DEF In
    <2>3. /\ Apart(Shown) /\ Shown' = Shown /\ op.at \in Node
          /\ op.kind \in {"extend_after", "extend_before"}
        BY <1>1, <1>4
    <2>4. ~ In(Shown', op.at)
        BY <2>2, <2>3
    <2>5. \/ op.todo = <<>> /\ ret' = Ok
          \/ op.todo # <<>> /\ ret' = CurrentNodeNotLinked(op.at)
        BY <1>1, <2>3, <2>4
    <2> HIDE DEF Placed2, Lost
    <2> QED BY <2>1, <2>2, <2>3, <2>5, ExtendNowhere
<1> QED BY <1>2, <1>3, <1>4

LEMMA TurnShown ==
    ASSUME OrderInv, OrderInv', AppendTurn \/ SplitTurn \/ ExtendTurn
    PROVE  Shown' = Shown /\ ret' = ret /\ op' # Idle
<1>1. /\ op # Idle /\ before' = before /\ ret' = ret
    BY DEF AppendTurn, SplitTurn, ExtendTurn, Extending, Idle
<1>2. op'.kind = op.kind /\ op.kind # "idle"
    <2>1. CASE AppendTurn
        <3>1. op \in [kind : {"append"}, self : Container, other : Container,
                      curr : Node \cup {None}] /\ op.kind = "append"
            BY <2>1, OrderFacts, OpKinds DEF AppendTurn
        <3> QED BY <2>1, <3>1 DEF AppendTurn
    <2>2. CASE SplitTurn
        <3>1. op \in [kind : {"split"}, self : Container, other : Container, pos : Node,
                      curr : Node \cup {None}] /\ op.kind = "split"
            BY <2>2, OrderFacts, OpKinds DEF SplitTurn
        <3> QED BY <2>2, <3>1 DEF SplitTurn
    <2>3. CASE ExtendTurn /\ op.kind = "extend"
        <3>1. op \in [kind : {"extend"}, self : Container, todo : Batch, nodes : Batch]
            BY <2>3, OrderFacts, OpKinds
        <3> QED BY <2>3, <3>1 DEF ExtendTurn
    <2>4. CASE ExtendTurn /\ op.kind # "extend"
        <3>1. /\ op.kind \in {"extend_after", "extend_before"}
              /\ op \in [kind : {"extend_after", "extend_before"}, at : Node, todo : Batch,
                         nodes : Batch]
            BY <2>4, OrderFacts, OpKinds DEF ExtendTurn, Extending
        <3> QED BY <2>4, <3>1 DEF ExtendTurn
    <2> QED BY <2>1, <2>2, <2>3, <2>4
<1>3. op' # Idle
    BY <1>2 DEF Idle
<1> QED BY <1>1, <1>3, ShownFacts

LEMMA CallShown ==
    ASSUME OrderInv, OrderInv', op = Idle, op' # Idle, before' = Lists(ctx), ret' = ret
    PROVE  Shown' = Shown /\ ret' = ret
BY ShownFacts

LEMMA StepShown ==
    ASSUME OrderInv, OrderInv', Next
    PROVE  Seqs!Next \/ (Shown' = Shown /\ ret' = ret)
<1>1. ASSUME NEW c \in Container, NEW n \in Node, DoPushFront(c, n)
      PROVE  Seqs!Next
    BY <1>1, PushFrontShown DEF Seqs!Next
<1>2. ASSUME NEW c \in Container, NEW n \in Node, DoPushBack(c, n)
      PROVE  Seqs!Next
    BY <1>2, PushBackShown DEF Seqs!Next
<1>3. ASSUME NEW m \in Node, NEW n \in Node, DoInsertAfter(m, n)
      PROVE  Seqs!Next
    BY <1>3, InsertAfterShown DEF Seqs!Next
<1>4. ASSUME NEW m \in Node, NEW n \in Node, DoInsertBefore(m, n)
      PROVE  Seqs!Next
    BY <1>4, InsertBeforeShown DEF Seqs!Next
<1>5. ASSUME NEW n \in Node, DoUnlink(n)
      PROVE  Seqs!Next
    BY <1>5, UnlinkShown DEF Seqs!Next
<1>6. ASSUME NEW c \in Container, NEW o \in Container, AppendCall(c, o)
      PROVE  Shown' = Shown /\ ret' = ret
    BY <1>6, CallShown DEF AppendCall, Calls, Idle
<1>7. ASSUME NEW c \in Container, NEW pos \in Node, SplitReject(c, pos)
      PROVE  Seqs!Next
    BY <1>7, SplitRejectShown DEF Seqs!Next
<1>8. ASSUME NEW c \in Container, NEW o \in Container, NEW pos \in Node, SplitCall(c, o, pos)
      PROVE  Shown' = Shown /\ ret' = ret
    BY <1>8, CallShown DEF SplitCall, Calls, Idle
<1>9. ASSUME NEW c \in Container, NEW s \in Batch, ExtendCall(c, s)
      PROVE  Shown' = Shown /\ ret' = ret
    BY <1>9, CallShown DEF ExtendCall, Calls, Idle
<1>10. ASSUME NEW kind \in {"extend_after", "extend_before"}, NEW m \in Node, NEW s \in Batch,
              ExtendNodeCall(kind, m, s)
       PROVE  Shown' = Shown /\ ret' = ret
    BY <1>10, CallShown DEF ExtendNodeCall, Calls, Idle
<1>11. CASE Call
    BY <1>1, <1>2, <1>3, <1>4, <1>5, <1>6, <1>7, <1>8, <1>9, <1>10, <1>11 DEF Call
<1>12. CASE AppendReturn
    BY <1>12, AppendShown DEF Seqs!Next
<1>13. CASE SplitReturn
    BY <1>13, SplitShown DEF Seqs!Next
<1>14. CASE ExtendReturn \/ ExtendFail
    <2>1. op.nodes \in Seqs!Batch /\ (op.kind = "extend" => op.self \in Container)
        BY <1>14, ExtendEnds, ShownBatch
    <2>2. ExtendEdit
        BY <1>14, ExtendShown
    <2> QED BY <2>1, <2>2 DEF ExtendEdit, Seqs!Next
<1> QED BY <1>11, <1>12, <1>13, <1>14, TurnShown DEF Next, Loop

(* The lists implement sequences with atomic edits.  push_front,           *)
(* push_back, insert_after, insert_before and unlink are one edit each;    *)
(* append, split and the extends change nothing until they return, and     *)
(* have then made one edit: with the order of the nodes, the result and    *)
(* the error that ListSeq states, for any lists, nodes and iterators, an   *)
(* append of a list to itself and an extend that fails half way included.  *)
THEOREM ListsAreSequences == Spec => ImplementsSeqs
<1>1. Init => Seqs!Init
    <2> SUFFICES ASSUME Init PROVE Seqs!Init
        OBVIOUS
    <2>1. InOrder(ctx, [c \in Container |-> <<>>]) /\ op = Idle /\ ret = Ok
        BY EmptyInOrder DEF Init
    <2>2. Shown = [c \in Container |-> <<>>]
        BY <2>1, ListsOf DEF Shown
    <2> QED BY <2>1, <2>2 DEF Seqs!Init, Seqs!OkResult, Ok
<1>2. OrderInv /\ OrderInv' /\ [Next]_vars => [Seqs!Next]_<<Shown, ret>>
    <2> SUFFICES ASSUME OrderInv, OrderInv', [Next]_vars
                 PROVE  Seqs!Next \/ UNCHANGED <<Shown, ret>>
        OBVIOUS
    <2>1. CASE UNCHANGED vars
        BY <2>1 DEF vars, Shown, Lists
    <2>2. CASE Next
        BY <2>2, StepShown
    <2> QED BY <2>1, <2>2
<1> QED BY InitOrder, NextOrder, <1>1, <1>2, PTL DEF Spec, ImplementsSeqs, Seqs!Spec, Seqs!vars

LEMMA OnlyReturnEnds ==
    ASSUME OrderInv, OrderInv', [Next]_vars, Extending, op' = Idle, ret' = Ok
    PROVE  ExtendReturn
<1>1. op # Idle /\ ~ Calls
    BY DEF Extending, Idle, Calls
<1>2. Loop
    BY <1>1 DEF Next, vars, Call, DoPushFront, DoPushBack, DoInsertAfter, DoInsertBefore,
         DoUnlink, AppendCall, SplitReject, SplitCall, ExtendCall, ExtendNodeCall
<1>3. ~ AppendReturn /\ ~ SplitReturn
    BY DEF AppendReturn, SplitReturn, Extending
<1>4. ~ ExtendFail
    BY DEF ExtendFail
<1>5. ~ (AppendTurn \/ SplitTurn \/ ExtendTurn)
    BY TurnShown
<1> QED BY <1>2, <1>3, <1>4, <1>5 DEF Loop

(* Somewhere in a container there is room for no nodes at all: an extend   *)
(* with nothing to insert, at a node that is in no container, has placed   *)
(* its nodes as soon as there is a container.                              *)
LEMMA ExtendReturns ==
    ASSUME OrderInv, OrderInv', ExtendReturn, Container # {}
    PROVE  \E c \in Container :
              LET list == Lists(ctx')[c] IN
              \E i \in 0 .. (Len(list) - Len(op.nodes)) :
                 SubSeq(list, i + 1, i + Len(op.nodes)) = op.nodes
<1> DEFINE Within(list, s) == \E i \in 0 .. (Len(list) - Len(s)) :
                                 SubSeq(list, i + 1, i + Len(s)) = s
<1>1. /\ op.nodes \in Seq(Node) /\ op.todo = <<>> /\ ExtendState(op, Shown, Shown')
      /\ Shown' = Lists(ctx') /\ Apart(Shown) /\ Apart(Shown')
    BY ExtendEnds, ShownBatch DEF ExtendReturn
<1>2. PICK a \in Seq(Node) :
          /\ op.nodes = a \o op.todo
          /\ \/ \E c \in Container : \E x, y \in Seq(Node) :
                   /\ Shown[c] = x \o y
                   /\ Shown' = [Shown EXCEPT ![c] = (x \o a) \o y]
                   /\ op.kind = "extend" => c = op.self /\ y = <<>>
                   /\ op.kind = "extend_after" =>
                         x # <<>> /\ op.at = (x \o a)[Len(x \o a)]
                   /\ op.kind = "extend_before" => y # <<>> /\ op.at = y[1]
             \/ /\ op.kind # "extend" /\ a = <<>> /\ Shown' = Shown
                /\ \A c \in Container : \A i \in 1 .. Len(Shown[c]) : Shown[c][i] # op.at
    BY <1>1, Zenon DEF ExtendState
<1>3. op.nodes = a /\ Shown \in [Container -> Seq(Node)] /\ Shown' \in [Container -> Seq(Node)]
    BY <1>1, <1>2, ConcatEmptySeq DEF Apart
<1>4. \E c \in Container : Within(Shown'[c], a)
    <2>1. CASE a = <<>>
        <3>1. PICK c \in Container : TRUE
            OBVIOUS
        <3>2. Shown'[c] \in Seq(Node)
            BY <1>3
        <3>3. Len(a) = 0 /\ 0 \in 0 .. (Len(Shown'[c]) - 0) /\ SubSeq(Shown'[c], 0 + 1, 0 + 0) = a
            BY <2>1, <3>2, SubSeqEmpty
        <3> QED BY <3>3
    <2>2. ASSUME NEW c \in Container, NEW x \in Seq(Node), NEW y \in Seq(Node),
                 Shown' = [Shown EXCEPT ![c] = (x \o a) \o y]
          PROVE  \E d \in Container : Within(Shown'[d], a)
        <3>1. PICK u, v, w : u = x \o a /\ v = a \o y /\ w = x \o v
            OBVIOUS
        <3>2. Join(v, a, y) /\ Join(u, x, a)
            BY <3>1, Joined
        <3>3. v \in Seq(Node) /\ u \in Seq(Node)
            BY <3>2 DEF Join
        <3>4. Join(w, x, v)
            BY <3>1, <3>3, Joined
        <3>5. (x \o a) \o y = x \o (a \o y)
            BY Regroup
        <3>6. Shown'[c] = w
            BY <1>3, <2>2, <3>1, <3>5
        <3>7. /\ Len(w) = Len(x) + Len(v) /\ Len(v) = Len(a) + Len(y)
              /\ Len(x) \in Nat /\ Len(a) \in Nat /\ Len(y) \in Nat /\ w \in Seq(Node)
              /\ \A i \in 1 .. Len(a) : Len(x) + i \in 1 .. Len(w) /\ w[Len(x) + i] = a[i]
            <4>1. \A i \in 1 .. Len(a) : i \in 1 .. Len(v) /\ v[i] = a[i]
                BY <3>2 DEF Join
            <4>2. \A i \in 1 .. Len(v) : Len(x) + i \in 1 .. Len(w) /\ w[Len(x) + i] = v[i]
                BY <3>4 DEF Join
            <4>3. /\ Len(w) = Len(x) + Len(v) /\ Len(v) = Len(a) + Len(y) /\ w \in Seq(Node)
                  /\ Len(x) \in Nat /\ Len(a) \in Nat /\ Len(y) \in Nat
                BY <3>2, <3>4 DEF Join
            <4> QED BY <4>1, <4>2, <4>3
        <3> DEFINE q == SubSeq(w, Len(x) + 1, Len(x) + Len(a))
        <3>8. /\ Len(x) + 1 \in Int /\ Len(x) + Len(a) \in Int
              /\ \A i \in (Len(x) + 1) .. (Len(x) + Len(a)) : w[i] \in Node
            <4>1. \A i \in (Len(x) + 1) .. (Len(x) + Len(a)) : i \in 1 .. Len(w)
                BY <3>7
            <4> QED BY <3>7, <4>1
        <3>9. /\ q \in Seq(Node)
              /\ Len(q) = IF Len(x) + 1 <= Len(x) + Len(a)
                          THEN (Len(x) + Len(a)) - (Len(x) + 1) + 1 ELSE 0
              /\ \A i \in 1 .. ((Len(x) + Len(a)) - (Len(x) + 1) + 1) :
                    q[i] = w[(Len(x) + 1) + i - 1]
            BY <3>8, SubSeqProperties
        <3> HIDE DEF q
        <3>10. Len(q) = Len(a)
            BY <3>7, <3>9
        <3>11. \A i \in 1 .. Len(a) : /\ i \in 1 .. ((Len(x) + Len(a)) - (Len(x) + 1) + 1)
                                      /\ (Len(x) + 1) + i - 1 = Len(x) + i
            BY <3>7
        <3>12. \A i \in 1 .. Len(q) : q[i] = a[i]
            BY <3>7, <3>9, <3>10, <3>11
        <3>13. q = a
            BY <3>9, <3>10, <3>12, SeqEqual
        <3>14. Len(x) \in 0 .. (Len(w) - Len(a))
            BY <3>7
        <3>15. Within(w, a)
            BY <3>13, <3>14 DEF q
        <3> HIDE DEF Within
        <3> QED BY <3>6, <3>15
    <2> QED BY <1>2, <2>1, <2>2
<1> HIDE DEF Within
<1>5. \E c \in Container : Within(Lists(ctx')[c], op.nodes)
    BY <1>1, <1>3, <1>4
<1> QED BY <1>5, Zenon DEF Within

(* An extend that succeeds leaves its nodes next to one another and in the *)
(* order of the iterator, whichever of the three it is, for iterators of   *)
(* any length.  (Without a container there is no list to find them in; a   *)
(* program that has no container has no node to insert either.)            *)
THEOREM ExtendsKeepOrder == Container # {} => (Spec => ExtendsInOrder)
<1> SUFFICES ASSUME Container # {} PROVE Spec => ExtendsInOrder
    OBVIOUS
<1>1. OrderInv /\ OrderInv' /\ [Next]_vars =>
         [Extending /\ op' = Idle /\ ret' = Ok =>
            \E c \in Container :
               LET list == Lists(ctx')[c] IN
               \E i \in 0 .. (Len(list) - Len(op.nodes)) :
                  SubSeq(list, i + 1, i + Len(op.nodes)) = op.nodes]_op
    BY OnlyReturnEnds, ExtendReturns, Zenon
<1> QED BY InitOrder, NextOrder, <1>1, PTL DEF Spec, ExtendsInOrder

-----------------------------------------------------------------------------
(* Walks with a cursor: LinkedListCursor. *)

HIDE ClientAssumption DEF ClientAssumption
USE CursorAssumption DEF CursorAssumption

-----------------------------------------------------------------------------
(* The order of the nodes in the lists, in a direction. *)

Directions == {"Forward", "Backward"}

(* y comes after x in direction d, in the list of one container. *)
Precedes(L, d, x, y) ==
    \E c \in Container : \E i, j \in 1 .. Len(L[c]) :
       /\ L[c][i] = x /\ L[c][j] = y
       /\ \/ d = "Forward" /\ i < j
          \/ d = "Backward" /\ j < i

LEMMA PrecedesWithin ==
    ASSUME NEW h, NEW L, InOrder(h, L), NEW d, NEW x, NEW y, Precedes(L, d, x, y)
    PROVE  /\ x \in Node /\ y \in Node /\ x # y
           /\ h.container[x] \in Container /\ h.container[y] = h.container[x]
<1>1. PICK c \in Container : \E i, j \in 1 .. Len(L[c]) :
         /\ L[c][i] = x /\ L[c][j] = y
         /\ \/ d = "Forward" /\ i < j
            \/ d = "Backward" /\ j < i
    BY DEF Precedes
<1> DEFINE s == L[c]
<1>2. /\ s \in Seq(Node)
      /\ \A i \in 1 .. Len(s) : h.container[s[i]] = c
      /\ \A i, j \in 1 .. Len(s) : s[i] = s[j] => i = j
    BY DEF InOrder
<1>3. PICK i \in 1 .. Len(s), j \in 1 .. Len(s) : s[i] = x /\ s[j] = y /\ (i < j \/ j < i)
    BY <1>1
<1> HIDE DEF s
<1>4. s[i] \in Node /\ s[j] \in Node
    BY <1>2, ElementOfSeq
<1> QED BY <1>2, <1>3, <1>4

LEMMA PrecedesTotal ==
    ASSUME NEW h, NEW L, InOrder(h, L), NEW d \in Directions, NEW x \in Node, NEW y \in Node,
           x # y, h.container[x] \in Container, h.container[y] = h.container[x]
    PROVE  Precedes(L, d, x, y) \/ Precedes(L, d, y, x)
<1>1. PICK c \in Container : c = h.container[x]
    OBVIOUS
<1>2. c # None /\ h.container[y] = c
    BY <1>1
<1>3. L[c] \in Seq(Node)
    BY DEF InOrder
<1>4. PICK i \in 1 .. Len(L[c]) : L[c][i] = x
    BY <1>1, <1>2 DEF InOrder
<1>5. PICK j \in 1 .. Len(L[c]) : L[c][j] = y
    <2>1. h.container[y] # None
        BY <1>2
    <2>2. \E k \in 1 .. Len(L[h.container[y]]) : L[h.container[y]][k] = y
        BY <2>1 DEF InOrder
    <2> QED BY <1>2, <2>2
<1>6. i \in Int /\ j \in Int /\ i # j
    BY <1>4, <1>5
<1>7. i < j \/ j < i
    BY <1>6
<1>8. d = "Forward" \/ d = "Backward"
    BY DEF Directions
<1> QED BY <1>4, <1>5, <1>7, <1>8 DEF Precedes

(* The neighbour of a node in a direction is the next one in that order. *)
LEMMA AlongIsNext ==
    ASSUME NEW h, Sound(h), NEW L, InOrder(h, L), NEW d \in Directions, NEW x \in Node,
           NEW z, z = Along(h, d, x)
    PROVE  /\ h.container[x] = None => z = None
           /\ z = None => \A y : ~Precedes(L, d, x, y)
           /\ z # None => /\ z \in Node
                          /\ h.container[x] \in Container
                          /\ h.container[z] = h.container[x]
                          /\ \A y : Precedes(L, d, x, y) <=>
                                       (y = z \/ Precedes(L, d, z, y))
<1>1. /\ h.container[x] \in Container \cup {None}
      /\ h.container[x] = None => z = None
    BY DEF Sound, Ctx, LocallyLinked, Along
<1>2. CASE h.container[x] = None
    <2>1. \A y : ~Precedes(L, d, x, y)
        BY <1>2, PrecedesWithin
    <2> QED BY <1>1, <1>2, <2>1
<1>3. CASE h.container[x] # None
    <2>1. PICK c \in Container : c = h.container[x]
        BY <1>1, <1>3
    <2> DEFINE s == L[c]
    <2>2. /\ s \in Seq(Node)
          /\ \A i \in 1 .. Len(s) :
                /\ h.container[s[i]] = c
                /\ h.next[s[i]] = IF i = Len(s) THEN None ELSE s[i + 1]
                /\ h.prev[s[i]] = IF i = 1 THEN None ELSE s[i - 1]
          /\ \A i, j \in 1 .. Len(s) : s[i] = s[j] => i = j
        BY DEF InOrder
    <2>3. PICK p \in 1 .. Len(s) : s[p] = x
        BY <1>3, <2>1 DEF InOrder
    <2>4. \A u, y : Precedes(L, d, u, y) /\ h.container[u] = c =>
             \E i, j \in 1 .. Len(s) :
               /\ s[i] = u /\ s[j] = y
               /\ \/ d = "Forward" /\ i < j
                  \/ d = "Backward" /\ j < i
        <3> SUFFICES ASSUME NEW u, NEW y, Precedes(L, d, u, y), h.container[u] = c
                     PROVE  \E i, j \in 1 .. Len(s) :
                               /\ s[i] = u /\ s[j] = y
                               /\ \/ d = "Forward" /\ i < j
                                  \/ d = "Backward" /\ j < i
            OBVIOUS
        <3>1. PICK e \in Container : \E i, j \in 1 .. Len(L[e]) :
                 /\ L[e][i] = u /\ L[e][j] = y
                 /\ \/ d = "Forward" /\ i < j
                    \/ d = "Backward" /\ j < i
            BY DEF Precedes
        <3>2. h.container[u] = e
            BY <3>1 DEF InOrder
        <3> QED BY <3>1, <3>2
    <2>5. \A u, y : (\E i, j \in 1 .. Len(s) :
                       /\ s[i] = u /\ s[j] = y
                       /\ \/ d = "Forward" /\ i < j
                          \/ d = "Backward" /\ j < i) => Precedes(L, d, u, y)
        BY DEF Precedes
    <2>6. Len(s) \in Nat /\ p \in Int /\ (d = "Forward" \/ d = "Backward")
        BY <2>2 DEF Directions
    <2> HIDE DEF s
    <2>7. CASE d = "Forward"
        <3>1. z = IF p = Len(s) THEN None ELSE s[p + 1]
            BY <2>2, <2>3, <2>7 DEF Along
        <3>2. CASE p = Len(s)
            <4>1. z = None
                BY <3>1, <3>2
            <4>2. ASSUME NEW y, Precedes(L, d, x, y) PROVE FALSE
                <5>1. PICK i \in 1 .. Len(s), j \in 1 .. Len(s) : s[i] = x /\ i < j
                    BY <2>1, <2>4, <2>7, <4>2
                <5>2. i = p
                    BY <2>2, <2>3, <5>1
                <5> QED BY <2>6, <3>2, <5>1, <5>2
            <4> QED BY <1>3, <4>1, <4>2
        <3>3. CASE p # Len(s)
            <4>1. p + 1 \in 1 .. Len(s) /\ z = s[p + 1] /\ z \in Node /\ z # None
                <5>1. p + 1 \in 1 .. Len(s) /\ z = s[p + 1]
                    BY <2>6, <3>1, <3>3
                <5> QED BY <2>2, <5>1, ElementOfSeq
            <4>2. h.container[z] = c
                BY <2>2, <4>1
            <4>3. ASSUME NEW y, Precedes(L, d, x, y)
                  PROVE  y = z \/ Precedes(L, d, z, y)
                <5>1. PICK i \in 1 .. Len(s), j \in 1 .. Len(s) : s[i] = x /\ s[j] = y /\ i < j
                    BY <2>1, <2>4, <2>7, <4>3
                <5>2. i = p
                    BY <2>2, <2>3, <5>1
                <5>3. j = p + 1 \/ p + 1 < j
                    BY <2>6, <5>1, <5>2
                <5> QED BY <2>5, <2>7, <4>1, <5>1, <5>3
            <4>4. ASSUME NEW y, y = z \/ Precedes(L, d, z, y)
                  PROVE  Precedes(L, d, x, y)
                <5>1. CASE y = z
                    <6>1. p < p + 1
                        BY <2>6
                    <6> QED BY <2>3, <2>5, <2>7, <4>1, <5>1, <6>1
                <5>2. CASE Precedes(L, d, z, y)
                    <6>1. PICK i \in 1 .. Len(s), j \in 1 .. Len(s) : s[i] = z /\ s[j] = y /\ i < j
                        BY <2>4, <2>7, <4>2, <5>2
                    <6>2. i = p + 1
                        BY <2>2, <4>1, <6>1
                    <6>3. p < j
                        BY <2>6, <6>1, <6>2
                    <6> QED BY <2>3, <2>5, <2>7, <6>1, <6>3
                <5> QED BY <4>4, <5>1, <5>2
            <4> QED BY <1>3, <2>1, <4>1, <4>2, <4>3, <4>4
        <3> QED BY <3>2, <3>3
    <2>8. CASE d = "Backward"
        <3>1. z = IF p = 1 THEN None ELSE s[p - 1]
            BY <2>2, <2>3, <2>8 DEF Along
        <3>2. CASE p = 1
            <4>1. z = None
                BY <3>1, <3>2
            <4>2. ASSUME NEW y, Precedes(L, d, x, y) PROVE FALSE
                <5>1. PICK i \in 1 .. Len(s), j \in 1 .. Len(s) : s[i] = x /\ j < i
                    BY <2>1, <2>4, <2>8, <4>2
                <5>2. i = p
                    BY <2>2, <2>3, <5>1
                <5> QED BY <2>6, <3>2, <5>1, <5>2
            <4> QED BY <1>3, <4>1, <4>2
        <3>3. CASE p # 1
            <4>1. p - 1 \in 1 .. Len(s) /\ z = s[p - 1] /\ z \in Node /\ z # None
                <5>1. p - 1 \in 1 .. Len(s) /\ z = s[p - 1]
                    BY <2>6, <3>1, <3>3
                <5> QED BY <2>2, <5>1, ElementOfSeq
            <4>2. h.container[z] = c
                BY <2>2, <4>1
            <4>3. ASSUME NEW y, Precedes(L, d, x, y)
                  PROVE  y = z \/ Precedes(L, d, z, y)
                <5>1. PICK i \in 1 .. Len(s), j \in 1 .. Len(s) : s[i] = x /\ s[j] = y /\ j < i
                    BY <2>1, <2>4, <2>8, <4>3
                <5>2. i = p
                    BY <2>2, <2>3, <5>1
                <5>3. j = p - 1 \/ j < p - 1
                    BY <2>6, <5>1, <5>2
                <5> QED BY <2>5, <2>8, <4>1, <5>1, <5>3
            <4>4. ASSUME NEW y, y = z \/ Precedes(L, d, z, y)
                  PROVE  Precedes(L, d, x, y)
                <5>1. CASE y = z
                    <6>1. p - 1 < p
                        BY <2>6
                    <6> QED BY <2>3, <2>5, <2>8, <4>1, <5>1, <6>1
                <5>2. CASE Precedes(L, d, z, y)
                    <6>1. PICK i \in 1 .. Len(s), j \in 1 .. Len(s) : s[i] = z /\ s[j] = y /\ j < i
                        BY <2>4, <2>8, <4>2, <5>2
                    <6>2. i = p - 1
                        BY <2>2, <4>1, <6>1
                    <6>3. j < p
                        BY <2>6, <6>1, <6>2
                    <6> QED BY <2>3, <2>5, <2>8, <6>1, <6>3
                <5> QED BY <4>4, <5>1, <5>2
            <4> QED BY <1>3, <2>1, <4>1, <4>2, <4>3, <4>4
        <3> QED BY <3>2, <3>3
    <2> QED BY <2>6, <2>7, <2>8
<1> QED BY <1>2, <1>3

(* The first node of the walked list precedes its other nodes. *)
LEMMA FirstIsFirst ==
    ASSUME NEW h, NEW L, InOrder(h, L), NEW d \in Directions, NEW z, z = First(h, d)
    PROVE  /\ z = None => \A y \in Node : h.container[y] # Walked
           /\ z # None => /\ z \in Node /\ h.container[z] = Walked
                          /\ \A y \in Node : h.container[y] = Walked <=>
                                                (y = z \/ Precedes(L, d, z, y))
<1> DEFINE s == L[Walked]
<1>1. /\ s \in Seq(Node)
      /\ h.head[Walked] = IF Len(s) = 0 THEN None ELSE s[1]
      /\ h.tail[Walked] = IF Len(s) = 0 THEN None ELSE s[Len(s)]
      /\ \A i \in 1 .. Len(s) : h.container[s[i]] = Walked
    BY DEF InOrder
<1>2. ASSUME NEW y \in Node, h.container[y] = Walked
      PROVE  \E i \in 1 .. Len(s) : s[i] = y
    <2>1. Walked # None
        OBVIOUS
    <2> QED BY <1>2, <2>1 DEF InOrder
<1>3. \A u, y : (\E i, j \in 1 .. Len(s) :
                    /\ s[i] = u /\ s[j] = y
                    /\ \/ d = "Forward" /\ i < j
                       \/ d = "Backward" /\ j < i) => Precedes(L, d, u, y)
    BY DEF Precedes
<1>4. Len(s) \in Nat /\ (d = "Forward" \/ d = "Backward")
    BY <1>1 DEF Directions
<1> HIDE DEF s
<1>5. CASE Len(s) = 0
    <2>1. z = None
        BY <1>1, <1>5 DEF First
    <2>2. ASSUME NEW y \in Node, h.container[y] = Walked PROVE FALSE
        <3>1. PICK i \in 1 .. Len(s) : s[i] = y
            BY <1>2, <2>2
        <3> QED BY <1>5, <3>1
    <2> QED BY <2>1, <2>2
<1>6. CASE Len(s) # 0
    <2>1. PICK p \in 1 .. Len(s) : /\ z = s[p]
                                   /\ d = "Forward" => p = 1
                                   /\ d = "Backward" => p = Len(s)
        <3>1. 1 \in 1 .. Len(s) /\ Len(s) \in 1 .. Len(s)
            BY <1>4, <1>6
        <3> QED BY <1>1, <1>4, <1>6, <3>1 DEF First
    <2>2. s[p] \in Node
        BY <1>1, ElementOfSeq
    <2>3. z \in Node /\ h.container[z] = Walked /\ z # None
        BY <1>1, <2>1, <2>2
    <2>4. ASSUME NEW y \in Node, h.container[y] = Walked
          PROVE  y = z \/ Precedes(L, d, z, y)
        <3>1. PICK i \in 1 .. Len(s) : s[i] = y
            BY <1>2, <2>4
        <3>2. i = p \/ (d = "Forward" /\ p < i) \/ (d = "Backward" /\ i < p)
            BY <1>4, <2>1
        <3> QED BY <1>3, <2>1, <3>1, <3>2
    <2>5. ASSUME NEW y \in Node, y = z \/ Precedes(L, d, z, y)
          PROVE  h.container[y] = Walked
        BY <2>3, <2>5, PrecedesWithin
    <2> QED BY <2>3, <2>4, <2>5
<1> QED BY <1>5, <1>6

-----------------------------------------------------------------------------
(* An edit that moves one node does not disturb the order of the others. *)

SameOrder(L, M, n) ==
    \A d \in Directions, x, y \in Node \ {n} :
       Precedes(M, d, x, y) <=> Precedes(L, d, x, y)

LEMMA PlacedSame ==
    ASSUME NEW L \in [Container -> Seq(Node)], NEW c \in Container,
           NEW p \in 0 .. Len(L[c]), NEW n \in Node
    PROVE  SameOrder(L, [L EXCEPT ![c] = Placed(@, p, n)], n)
<1> DEFINE s == L[c]
           t == Placed(s, p, n)
           M == [L EXCEPT ![c] = t]
<1>1. /\ s \in Seq(Node) /\ Len(s) \in Nat /\ p \in 0 .. Len(s)
      /\ M[c] = t /\ \A e \in Container : e # c => M[e] = L[e]
    OBVIOUS
<1>2. /\ Len(t) = Len(s) + 1
      /\ \A i \in 1 .. (Len(s) + 1) :
            t[i] = IF i <= p THEN s[i] ELSE IF i = p + 1 THEN n ELSE s[i - 1]
    BY <1>1, PlacedSeq
<1> HIDE DEF M, t, s
<1> SUFFICES ASSUME NEW d \in Directions, NEW x \in Node \ {n}, NEW y \in Node \ {n}
             PROVE  Precedes(M, d, x, y) <=> Precedes(L, d, x, y)
    BY DEF SameOrder, M, t, s
<1>3. ASSUME Precedes(M, d, x, y)
      PROVE  Precedes(L, d, x, y)
    <2>1. PICK e \in Container : \E i, j \in 1 .. Len(M[e]) :
             /\ M[e][i] = x /\ M[e][j] = y
             /\ \/ d = "Forward" /\ i < j
                \/ d = "Backward" /\ j < i
        BY <1>3 DEF Precedes
    <2>2. CASE e = c
        <3>1. PICK i \in 1 .. Len(t), j \in 1 .. Len(t) :
                 /\ t[i] = x /\ t[j] = y
                 /\ \/ d = "Forward" /\ i < j
                    \/ d = "Backward" /\ j < i
            BY <1>1, <2>1, <2>2
        <3>2. i # p + 1 /\ j # p + 1
            BY <1>1, <1>2, <3>1
        <3>3. PICK k : k = IF i <= p THEN i ELSE i - 1
            OBVIOUS
        <3>4. PICK l : l = IF j <= p THEN j ELSE j - 1
            OBVIOUS
        <3>5. /\ k \in 1 .. Len(s) /\ l \in 1 .. Len(s)
              /\ i < j => k < l
              /\ j < i => l < k
            BY <1>1, <1>2, <3>2, <3>3, <3>4
        <3>6. s[k] = x /\ s[l] = y
            BY <1>1, <1>2, <3>1, <3>2, <3>3, <3>4
        <3> QED BY <3>1, <3>5, <3>6 DEF Precedes, s
    <2>3. CASE e # c
        BY <1>1, <2>1, <2>3 DEF Precedes
    <2> QED BY <2>2, <2>3
<1>4. ASSUME Precedes(L, d, x, y)
      PROVE  Precedes(M, d, x, y)
    <2>1. PICK e \in Container : \E i, j \in 1 .. Len(L[e]) :
             /\ L[e][i] = x /\ L[e][j] = y
             /\ \/ d = "Forward" /\ i < j
                \/ d = "Backward" /\ j < i
        BY <1>4 DEF Precedes
    <2>2. CASE e = c
        <3>1. PICK i \in 1 .. Len(s), j \in 1 .. Len(s) :
                 /\ s[i] = x /\ s[j] = y
                 /\ \/ d = "Forward" /\ i < j
                    \/ d = "Backward" /\ j < i
            BY <2>1, <2>2 DEF s
        <3>2. PICK k : k = IF i <= p THEN i ELSE i + 1
            OBVIOUS
        <3>3. PICK l : l = IF j <= p THEN j ELSE j + 1
            OBVIOUS
        <3>4. /\ k \in 1 .. Len(t) /\ l \in 1 .. Len(t)
              /\ i < j => k < l
              /\ j < i => l < k
            BY <1>1, <1>2, <3>2, <3>3
        <3>5. t[k] = x /\ t[l] = y
            BY <1>1, <1>2, <3>1, <3>2, <3>3
        <3> QED BY <1>1, <3>1, <3>4, <3>5 DEF Precedes
    <2>3. CASE e # c
        BY <1>1, <2>1, <2>3 DEF Precedes
    <2> QED BY <2>2, <2>3
<1> QED BY <1>3, <1>4

LEMMA TakenSame ==
    ASSUME NEW L \in [Container -> Seq(Node)], NEW c \in Container,
           NEW p \in 1 .. Len(L[c])
    PROVE  SameOrder(L, [L EXCEPT ![c] = Taken(@, p)], L[c][p])
<1> DEFINE s == L[c]
           t == Taken(s, p)
           M == [L EXCEPT ![c] = t]
           n == s[p]
<1>1. /\ s \in Seq(Node) /\ Len(s) \in Nat /\ p \in 1 .. Len(s)
      /\ M[c] = t /\ \A e \in Container : e # c => M[e] = L[e]
    OBVIOUS
<1>2. /\ Len(t) = Len(s) - 1
      /\ \A i \in 1 .. (Len(s) - 1) : t[i] = IF i < p THEN s[i] ELSE s[i + 1]
    BY <1>1, TakenSeq
<1> HIDE DEF M, t, s
<1> SUFFICES ASSUME NEW d \in Directions, NEW x \in Node \ {n}, NEW y \in Node \ {n}
             PROVE  Precedes(M, d, x, y) <=> Precedes(L, d, x, y)
    BY DEF SameOrder, M, t, s
<1>3. ASSUME Precedes(M, d, x, y)
      PROVE  Precedes(L, d, x, y)
    <2>1. PICK e \in Container : \E i, j \in 1 .. Len(M[e]) :
             /\ M[e][i] = x /\ M[e][j] = y
             /\ \/ d = "Forward" /\ i < j
                \/ d = "Backward" /\ j < i
        BY <1>3 DEF Precedes
    <2>2. CASE e = c
        <3>1. PICK i \in 1 .. Len(t), j \in 1 .. Len(t) :
                 /\ t[i] = x /\ t[j] = y
                 /\ \/ d = "Forward" /\ i < j
                    \/ d = "Backward" /\ j < i
            BY <1>1, <2>1, <2>2
        <3>3. PICK k : k = IF i < p THEN i ELSE i + 1
            OBVIOUS
        <3>4. PICK l : l = IF j < p THEN j ELSE j + 1
            OBVIOUS
        <3>5. /\ k \in 1 .. Len(s) /\ l \in 1 .. Len(s)
              /\ i < j => k < l
              /\ j < i => l < k
            BY <1>1, <1>2, <3>3, <3>4
        <3>6. s[k] = x /\ s[l] = y
            BY <1>1, <1>2, <3>1, <3>3, <3>4
        <3> QED BY <3>1, <3>5, <3>6 DEF Precedes, s
    <2>3. CASE e # c
        BY <1>1, <2>1, <2>3 DEF Precedes
    <2> QED BY <2>2, <2>3
<1>4. ASSUME Precedes(L, d, x, y)
      PROVE  Precedes(M, d, x, y)
    <2>1. PICK e \in Container : \E i, j \in 1 .. Len(L[e]) :
             /\ L[e][i] = x /\ L[e][j] = y
             /\ \/ d = "Forward" /\ i < j
                \/ d = "Backward" /\ j < i
        BY <1>4 DEF Precedes
    <2>2. CASE e = c
        <3>1. PICK i \in 1 .. Len(s), j \in 1 .. Len(s) :
                 /\ s[i] = x /\ s[j] = y
                 /\ \/ d = "Forward" /\ i < j
                    \/ d = "Backward" /\ j < i
            BY <2>1, <2>2 DEF s
        <3>2. PICK k : k = IF i < p THEN i ELSE i - 1
            OBVIOUS
        <3>3. PICK l : l = IF j < p THEN j ELSE j - 1
            OBVIOUS
        <3>4. i # p /\ j # p
            BY <3>1
        <3>5. /\ k \in 1 .. Len(t) /\ l \in 1 .. Len(t)
              /\ i < j => k < l
              /\ j < i => l < k
            BY <1>1, <1>2, <3>2, <3>3, <3>4
        <3>6. /\ t[k] = IF k < p THEN s[k] ELSE s[k + 1]
              /\ t[l] = IF l < p THEN s[l] ELSE s[l + 1]
            BY <1>2, <3>5
        <3>7. /\ i = IF k < p THEN k ELSE k + 1
              /\ j = IF l < p THEN l ELSE l + 1
            BY <1>1, <3>2, <3>3, <3>4
        <3>8. t[k] = x /\ t[l] = y
            BY <3>1, <3>6, <3>7
        <3> QED BY <1>1, <3>1, <3>5, <3>8 DEF Precedes
    <2>3. CASE e # c
        BY <1>1, <2>1, <2>3 DEF Precedes
    <2> QED BY <2>2, <2>3
<1> QED BY <1>3, <1>4

(* g is h with the node n in container c (or in none), the order of the    *)
(* others as it was.                                                       *)
Edited(h, g, L, M, n, c) ==
    /\ Sound(g) /\ InOrder(g, M) /\ SameOrder(L, M, n)
    /\ \A m \in Node : g.container[m] = IF m = n THEN c ELSE h.container[m]

LEMMA PlaceOf ==
    ASSUME NEW h, NEW L, InOrder(h, L), NEW n \in Node, NEW c \in Container,
           h.container[n] = c
    PROVE  /\ L \in [Container -> Seq(Node)] /\ L[c] \in Seq(Node)
           /\ \E p \in 1 .. Len(L[c]) : L[c][p] = n
<1>1. h.container[n] # None
    OBVIOUS
<1>2. \E i \in 1 .. Len(L[h.container[n]]) : L[h.container[n]][i] = n
    BY <1>1 DEF InOrder
<1> QED BY <1>2 DEF InOrder

LEMMA PlacedByInsert ==
    ASSUME NEW h, Sound(h), NEW L, InOrder(h, L), NEW m \in Node, NEW n \in Node,
           h.container[m] = Walked, h.container[n] = None,
           NEW g \in {InsertAfter(h, m, n), InsertBefore(h, m, n)}
    PROVE  \E M : Edited(h, g, L, M, n, Walked)
<1>1. PICK p \in 1 .. Len(L[Walked]) : L[Walked][p] = m
    BY PlaceOf
<1>2. L \in [Container -> Seq(Node)] /\ L[Walked] \in Seq(Node)
    BY PlaceOf
<1>3. /\ p \in 0 .. Len(L[Walked]) /\ p - 1 \in 0 .. Len(L[Walked])
      /\ h.container[m] # None
    BY <1>1, <1>2
<1>4. CASE g = InsertAfter(h, m, n)
    <2> DEFINE M == [L EXCEPT ![Walked] = Placed(@, p, n)]
    <2>1. InOrder(g, M)
        BY <1>1, <1>4, InsertAfterInOrder
    <2>2. SameOrder(L, M, n)
        BY <1>2, <1>3, PlacedSame
    <2>3. Sound(g) /\ g.container = [h.container EXCEPT ![n] = Walked]
        BY <1>3, <1>4, InsertAfterSound
    <2> HIDE DEF M
    <2>4. \A k \in Node : g.container[k] = IF k = n THEN Walked ELSE h.container[k]
        BY <2>3 DEF Sound, Ctx
    <2> QED BY <2>1, <2>2, <2>3, <2>4 DEF Edited
<1>5. CASE g = InsertBefore(h, m, n)
    <2> DEFINE M == [L EXCEPT ![Walked] = Placed(@, p - 1, n)]
    <2>1. InOrder(g, M)
        BY <1>1, <1>5, InsertBeforeInOrder
    <2>2. SameOrder(L, M, n)
        BY <1>2, <1>3, PlacedSame
    <2>3. Sound(g) /\ g.container = [h.container EXCEPT ![n] = Walked]
        BY <1>3, <1>5, InsertBeforeSound
    <2> HIDE DEF M
    <2>4. \A k \in Node : g.container[k] = IF k = n THEN Walked ELSE h.container[k]
        BY <2>3 DEF Sound, Ctx
    <2> QED BY <2>1, <2>2, <2>3, <2>4 DEF Edited
<1> QED BY <1>4, <1>5

LEMMA PlacedByPush ==
    ASSUME NEW h, Sound(h), NEW L, InOrder(h, L), NEW c \in Container, NEW n \in Node,
           h.container[n] = None
    PROVE  Edited(h, PushBack(h, c, n), L, [L EXCEPT ![c] = Placed(@, Len(L[c]), n)], n, c)
<1> DEFINE M == [L EXCEPT ![c] = Placed(@, Len(L[c]), n)]
           g == PushBack(h, c, n)
<1>1. L \in [Container -> Seq(Node)] /\ Len(L[c]) \in 0 .. Len(L[c])
    BY DEF InOrder
<1>2. InOrder(g, M)
    BY PushInOrder
<1>3. SameOrder(L, M, n)
    BY <1>1, PlacedSame
<1>4. Sound(g) /\ g.container = [h.container EXCEPT ![n] = c]
    BY PushBackSound
<1> HIDE DEF M, g
<1>5. \A k \in Node : g.container[k] = IF k = n THEN c ELSE h.container[k]
    BY <1>4 DEF Sound, Ctx
<1>6. Edited(h, g, L, M, n, c)
    BY <1>2, <1>3, <1>4, <1>5 DEF Edited
<1> QED BY <1>6 DEF M, g

LEMMA TakenByUnlink ==
    ASSUME NEW h, Sound(h), NEW L, InOrder(h, L), NEW n \in Node,
           h.container[n] = Walked
    PROVE  \E M : Edited(h, Unlink(h, n), L, M, n, None)
<1>1. PICK p \in 1 .. Len(L[Walked]) : L[Walked][p] = n
    BY PlaceOf
<1>2. L \in [Container -> Seq(Node)]
    BY PlaceOf
<1> DEFINE M == [L EXCEPT ![Walked] = Taken(@, p)]
           g == Unlink(h, n)
<1>3. InOrder(g, M)
    BY <1>1, UnlinkInOrder
<1>4. SameOrder(L, M, n)
    BY <1>1, <1>2, TakenSame
<1>5. Sound(g)
    BY UnlinkSound
<1>6. \A k \in Node : g.container[k] = IF k = n THEN None ELSE h.container[k]
    BY UnlinkFields
<1> HIDE DEF M, g
<1>7. Edited(h, g, L, M, n, None)
    BY <1>3, <1>4, <1>5, <1>6 DEF Edited
<1> QED BY <1>7 DEF g

LEMMA PlacedByMove ==
    ASSUME NEW h, Sound(h), NEW L, InOrder(h, L), NEW n \in Node,
           h.container[n] = Walked
    PROVE  \E M : Edited(h, PushBack(Unlink(h, n), Other, n), L, M, n, Other)
<1> DEFINE k == Unlink(h, n)
           g == PushBack(k, Other, n)
<1>1. PICK K : Edited(h, k, L, K, n, None)
    BY TakenByUnlink
<1>2. /\ Sound(k) /\ InOrder(k, K) /\ SameOrder(L, K, n)
      /\ \A m \in Node : k.container[m] = IF m = n THEN None ELSE h.container[m]
    BY <1>1 DEF Edited
<1>3. k.container[n] = None
    BY <1>2
<1> HIDE DEF k
<1>4. PICK M : Edited(k, g, K, M, n, Other)
    BY <1>2, <1>3, PlacedByPush
<1> HIDE DEF g
<1>5. SameOrder(L, M, n)
    BY <1>2, <1>4 DEF SameOrder, Edited
<1>6. Edited(h, g, L, M, n, Other)
    BY <1>2, <1>4, <1>5 DEF Edited
<1> QED BY <1>6 DEF g, k

Seen == {visited[i] : i \in 1 .. Len(visited)}

(* What the cursor has before it: strategy Pre holds the next node,        *)
(* strategy Post the one it returned last.                                 *)
Rest(L) ==
    {y \in Node :
       \/ /\ cursor.curr # None
          /\ \/ Precedes(L, cursor.direction, cursor.curr, y)
             \/ cursor.strategy = "Pre" /\ y = cursor.curr
       \/ /\ cursor.curr = None /\ cursor.strategy = "Post" /\ ~cursor.done
          /\ context.container[y] = Walked}

WalkTypes ==
    /\ cursor \in [curr : Node \cup {None}, strategy : Strategies,
                   direction : Directions, done : BOOLEAN]
    /\ node \in Node \cup {None}
    /\ fresh \in SUBSET Node
    /\ start \in Seq(Node)
    /\ visited \in Seq(Node)

(* A fresh node is nowhere. *)
FreshApart ==
    \A n \in fresh : /\ context.container[n] = None
                     /\ n \notin Seen
                     /\ \A i \in 1 .. Len(start) : start[i] # n
                     /\ n # cursor.curr /\ n # node

(* The list has the originals in their order still. *)
StartInOrder(L) ==
    /\ \A i, j \in 1 .. Len(start) : start[i] = start[j] => i = j
    /\ \A i, j \in 1 .. Len(start) :
          /\ context.container[start[i]] = Walked
          /\ Precedes(L, cursor.direction, start[i], start[j])
          => i < j

(* So have the nodes visited. *)
SeenInOrder ==
    /\ \A i, j \in 1 .. Len(visited) : visited[i] = visited[j] => i = j
    /\ \A i, j \in 1 .. Len(visited), a, b \in 1 .. Len(start) :
          i < j /\ start[a] = visited[i] /\ start[b] = visited[j] => a < b

(* What the cursor has before it was not visited, and comes later. *)
RestUnseen(L) ==
    /\ \A y \in Rest(L) : y \notin Seen
    /\ \A a, b \in 1 .. Len(start) :
          start[a] \in Seen /\ start[b] \in Rest(L) => a < b

(* What the cursor and its client hold. *)
Held ==
    /\ node # None => visited # <<>> /\ visited[Len(visited)] = node
    /\ cursor.done => cursor.curr = None
    /\ cursor.strategy = "Pre" /\ cursor.curr # None =>
          /\ context.container[cursor.curr] \in {Walked, None}
          /\ ~wild => context.container[cursor.curr] = Walked
    /\ cursor.strategy = "Post" =>
          /\ cursor.curr = node
          /\ cursor.curr = None /\ ~cursor.done => visited = <<>>
          /\ cursor.curr # None =>
                context.container[cursor.curr] \in {Walked, Other, None}

(* A node that was in the other container before this walk, and what       *)
(* strategy Post has before it there, is nothing of the list.              *)
OthersApart(L) ==
    cursor.strategy = "Post" =>
       /\ \/ cursor.curr = None /\ ~cursor.done
          \/ cursor.curr # None /\ context.container[cursor.curr] = Walked
          => \A y \in Node : context.container[y] = Other =>
                y \notin Seen /\ \A i \in 1 .. Len(start) : start[i] # y
       /\ cursor.curr # None /\ context.container[cursor.curr] = Other
          => \A i \in 1 .. Len(start) : start[i] \notin Rest(L)

(* Strategy Post was at a node that was taken out of the list. *)
Stopped ==
    /\ cursor.strategy = "Post"
    /\ visited # <<>> /\ context.container[visited[Len(visited)]] # Walked

(* A disciplined client loses no original. *)
NoneLost(L) ==
    ~wild =>
       /\ \A i, j \in 1 .. Len(start) :
             i < j /\ start[j] \in Seen => start[i] \in Seen
       /\ ~Stopped => \A i \in 1 .. Len(start) : start[i] \in Seen \cup Rest(L)

WalkInv(L) ==
    /\ WalkTypes
    /\ Sound(context) /\ InOrder(context, L)
    /\ FreshApart /\ StartInOrder(L) /\ SeenInOrder /\ RestUnseen(L)
    /\ Held /\ OthersApart(L) /\ NoneLost(L)


(* An edit changes the context, and perhaps fresh and wild, only. *)
EditFrame == UNCHANGED <<cursor, node, start, visited>>

LEMMA FrameKeeps ==
    ASSUME WalkTypes, SeenInOrder, EditFrame, fresh' \in SUBSET Node
    PROVE  WalkTypes' /\ SeenInOrder' /\ Seen' = Seen
BY DEF WalkTypes, SeenInOrder, EditFrame, Seen

(* A client puts a fresh node into the list. *)
LEMMA InsertKeeps ==
    ASSUME NEW L, WalkInv(L), EditFrame, NEW n \in fresh, fresh' = fresh \ {n}, wild' = wild,
           NEW M, Edited(context, context', L, M, n, Walked)
    PROVE  WalkInv(M)'
<1>1. /\ WalkTypes /\ Sound(context) /\ InOrder(context, L)
      /\ FreshApart /\ StartInOrder(L) /\ SeenInOrder /\ RestUnseen(L)
      /\ Held /\ OthersApart(L) /\ NoneLost(L)
    BY DEF WalkInv
<1>2. /\ cursor' = cursor /\ node' = node /\ start' = start /\ visited' = visited
      /\ fresh' \in SUBSET Node /\ n \in Node
    BY <1>1 DEF EditFrame, WalkTypes
<1>3. WalkTypes' /\ SeenInOrder' /\ Seen' = Seen
    BY <1>1, <1>2, FrameKeeps
<1>4. /\ Sound(context') /\ InOrder(context', M) /\ SameOrder(L, M, n)
      /\ \A m \in Node : context'.container[m] = IF m = n THEN Walked
                                                 ELSE context.container[m]
    BY DEF Edited
<1>5. /\ context.container[n] = None /\ n \notin Seen /\ n # cursor.curr /\ n # node
      /\ \A i \in 1 .. Len(start) : start[i] # n
    BY <1>1 DEF FreshApart
<1>6. cursor.direction \in Directions /\ cursor.curr \in Node \cup {None}
    BY <1>1 DEF WalkTypes
<1>7. \A i \in 1 .. Len(start) : start[i] \in Node \ {n}
    BY <1>1, <1>5, ElementOfSeq DEF WalkTypes
<1>8. \A y \in Node \ {n} : y \in Rest(M)' <=> y \in Rest(L)
    BY <1>2, <1>4, <1>5, <1>6 DEF Rest, SameOrder
<1>9. FreshApart'
    BY <1>1, <1>2, <1>3, <1>4 DEF FreshApart
<1>10. StartInOrder(M)'
    BY <1>1, <1>2, <1>4, <1>6, <1>7 DEF StartInOrder, SameOrder
<1>11. RestUnseen(M)'
    <2>1. \A y \in Rest(M)' : y \in Node
        BY DEF Rest
    <2> QED BY <1>1, <1>2, <1>3, <1>5, <1>7, <1>8, <2>1 DEF RestUnseen
<1>12. Held'
    <2>1. cursor.curr # None =>
             context'.container[cursor.curr] = context.container[cursor.curr]
        BY <1>4, <1>5, <1>6
    <2> QED BY <1>1, <1>2, <2>1 DEF Held
<1>13. OthersApart(M)'
    <2>1. \A y \in Node : context'.container[y] = Other => context.container[y] = Other
        BY <1>4
    <2>2. cursor.curr # None =>
             context'.container[cursor.curr] = context.container[cursor.curr]
        BY <1>4, <1>5, <1>6
    <2> QED BY <1>1, <1>2, <1>3, <1>7, <1>8, <2>1, <2>2 DEF OthersApart
<1>14. NoneLost(M)'
    <2>1. \A x \in Node : x # n => context'.container[x] = context.container[x]
        BY <1>4
    <2>2. visited # <<>> => visited[Len(visited)] \in Node /\ visited[Len(visited)] # n
        <3>1. ASSUME visited # <<>> PROVE Len(visited) \in 1 .. Len(visited)
            BY <1>1, <3>1 DEF WalkTypes
        <3>2. ASSUME visited # <<>> PROVE visited[Len(visited)] \in Seen
            BY <3>1, <3>2 DEF Seen
        <3> QED BY <1>1, <1>5, <3>1, <3>2, ElementOfSeq DEF WalkTypes
    <2>3. Stopped' <=> Stopped
        BY <1>2, <2>1, <2>2 DEF Stopped
    <2> QED BY <1>1, <1>2, <1>3, <1>7, <1>8, <2>3 DEF NoneLost
<1> QED BY <1>3, <1>4, <1>9, <1>10, <1>11, <1>12, <1>13, <1>14 DEF WalkInv

(* The node the client was given last was visited, so that it is not what  *)
(* strategy Pre holds.                                                     *)
LEMMA GivenSeen ==
    ASSUME NEW L, WalkInv(L), node # None
    PROVE  /\ node \in Seen /\ node \in Node
           /\ Len(visited) \in 1 .. Len(visited) /\ visited[Len(visited)] = node
           /\ node \notin Rest(L)
           /\ cursor.strategy = "Pre" => cursor.curr # node
<1>1. WalkTypes /\ Held /\ RestUnseen(L)
    BY DEF WalkInv
<1>2. visited # <<>> /\ visited[Len(visited)] = node /\ visited \in Seq(Node)
    BY <1>1 DEF Held, WalkTypes
<1>3. Len(visited) \in 1 .. Len(visited)
    BY <1>2
<1>4. node \in Seen
    BY <1>2, <1>3 DEF Seen
<1>5. node \in Node
    BY <1>1 DEF WalkTypes
<1>6. node \notin Rest(L)
    BY <1>1, <1>4 DEF RestUnseen
<1>7. cursor.strategy = "Pre" => cursor.curr # node
    BY <1>5, <1>6 DEF Rest
<1> QED BY <1>2, <1>3, <1>4, <1>5, <1>6, <1>7

(* A client takes a node out of the list: the one it was given, or, if it  *)
(* is wild, another.                                                       *)
LEMMA UnlinkKeeps ==
    ASSUME NEW L, WalkInv(L), EditFrame, fresh' = fresh,
           NEW n \in Node, context.container[n] = Walked,
           \/ n = node /\ wild' = wild
           \/ n # node /\ wild',
           NEW M, Edited(context, context', L, M, n, None)
    PROVE  WalkInv(M)'
<1>1. /\ WalkTypes /\ Sound(context) /\ InOrder(context, L)
      /\ FreshApart /\ StartInOrder(L) /\ SeenInOrder /\ RestUnseen(L)
      /\ Held /\ OthersApart(L) /\ NoneLost(L)
    BY DEF WalkInv
<1>2. /\ cursor' = cursor /\ node' = node /\ start' = start /\ visited' = visited
      /\ fresh' \in SUBSET Node
    BY <1>1 DEF EditFrame, WalkTypes
<1>3. WalkTypes' /\ SeenInOrder' /\ Seen' = Seen
    BY <1>1, <1>2, FrameKeeps
<1>4. /\ Sound(context') /\ InOrder(context', M) /\ SameOrder(L, M, n)
      /\ \A m \in Node : context'.container[m] = IF m = n THEN None
                                                 ELSE context.container[m]
    BY DEF Edited
<1>5. /\ cursor.direction \in Directions /\ cursor.curr \in Node \cup {None}
      /\ n # None
    BY <1>1 DEF WalkTypes
<1>6. \A i \in 1 .. Len(start) : start[i] \in Node
    BY <1>1, ElementOfSeq DEF WalkTypes
<1>7. \A d, x, y : Precedes(M, d, x, y) => x \in Node \ {n} /\ y \in Node \ {n}
    <2> SUFFICES ASSUME NEW d, NEW x, NEW y, Precedes(M, d, x, y)
                 PROVE  x \in Node \ {n} /\ y \in Node \ {n}
        OBVIOUS
    <2>1. /\ x \in Node /\ y \in Node /\ context'.container[x] \in Container
          /\ context'.container[y] = context'.container[x]
        BY <1>4, PrecedesWithin
    <2> QED BY <1>4, <2>1
<1>8. \A y \in Rest(M)' : y \in Rest(L)
    <2> SUFFICES ASSUME NEW y \in Node, y \in Rest(M)'
                 PROVE  y \in Rest(L)
        BY DEF Rest
    <2>1. CASE cursor.curr # None /\ Precedes(M, cursor.direction, cursor.curr, y)
        BY <1>4, <1>5, <1>7, <2>1 DEF SameOrder, Rest
    <2>2. CASE ~(cursor.curr # None /\ Precedes(M, cursor.direction, cursor.curr, y))
        BY <1>2, <1>4, <2>2 DEF Rest
    <2> QED BY <2>1, <2>2
<1>9. \A y \in Rest(L) : y # n /\ cursor.curr # n => y \in Rest(M)'
    BY <1>2, <1>4, <1>5 DEF Rest, SameOrder
<1>10. FreshApart'
    BY <1>1, <1>2, <1>3, <1>4 DEF FreshApart
<1>11. StartInOrder(M)'
    <2>1. \A i, j \in 1 .. Len(start) :
             Precedes(M, cursor.direction, start[i], start[j]) =>
                /\ Precedes(L, cursor.direction, start[i], start[j])
                /\ context'.container[start[i]] = context.container[start[i]]
        BY <1>4, <1>5, <1>7 DEF SameOrder
    <2> QED BY <1>1, <1>2, <2>1 DEF StartInOrder
<1>12. RestUnseen(M)'
    BY <1>1, <1>2, <1>3, <1>8 DEF RestUnseen
<1>13. n = node => /\ n \in Seen /\ n \notin Rest(L)
                   /\ cursor.strategy = "Pre" => cursor.curr # n
                   /\ Len(visited) \in 1 .. Len(visited) /\ visited[Len(visited)] = n
    BY <1>5, GivenSeen
<1>14. Held'
    <2>1. cursor.curr # None =>
             /\ cursor.curr \in Node
             /\ context'.container[cursor.curr] = IF cursor.curr = n THEN None
                                                  ELSE context.container[cursor.curr]
        BY <1>4, <1>5
    <2>2. wild' \/ (n = node /\ wild' = wild)
        OBVIOUS
    <2> QED BY <1>1, <1>2, <1>13, <2>1, <2>2 DEF Held
<1>15. OthersApart(M)'
    <2>1. \A y \in Node : /\ context'.container[y] = Other => context.container[y] = Other
                          /\ context'.container[y] = Walked => context.container[y] = Walked
        BY <1>4
    <2> QED BY <1>1, <1>2, <1>3, <1>5, <1>8, <2>1 DEF OthersApart
<1>16. NoneLost(M)'
    <2> SUFFICES ASSUME ~wild'
                 PROVE  NoneLost(M)'
        BY DEF NoneLost
    <2>1. n = node /\ wild' = wild
        OBVIOUS
    <2>2. ASSUME ~Stopped'
          PROVE  cursor.strategy = "Pre" /\ ~Stopped
        <3>1. context'.container[visited[Len(visited)]] # Walked /\ visited # <<>>
            BY <1>1, <1>4, <1>13, <2>1 DEF WalkTypes
        <3>2. cursor.strategy # "Post"
            BY <1>2, <2>2, <3>1 DEF Stopped
        <3> QED BY <1>1, <3>2 DEF Stopped, WalkTypes, Strategies
    <2> QED BY <1>1, <1>2, <1>3, <1>9, <1>13, <2>1, <2>2 DEF NoneLost
<1> QED BY <1>3, <1>4, <1>10, <1>11, <1>12, <1>14, <1>15, <1>16 DEF WalkInv

(* A client moves the node it was given to the other container. *)
LEMMA MoveKeeps ==
    ASSUME NEW L, WalkInv(L), EditFrame, fresh' = fresh, wild' = wild,
           node # None, context.container[node] = Walked,
           NEW M, Edited(context, context', L, M, node, Other)
    PROVE  WalkInv(M)'
<1>1. /\ WalkTypes /\ Sound(context) /\ InOrder(context, L)
      /\ FreshApart /\ StartInOrder(L) /\ SeenInOrder /\ RestUnseen(L)
      /\ Held /\ OthersApart(L) /\ NoneLost(L)
    BY DEF WalkInv
<1>2. /\ cursor' = cursor /\ node' = node /\ start' = start /\ visited' = visited
      /\ fresh' \in SUBSET Node
    BY <1>1 DEF EditFrame, WalkTypes
<1>3. WalkTypes' /\ SeenInOrder' /\ Seen' = Seen
    BY <1>1, <1>2, FrameKeeps
<1>4. /\ Sound(context') /\ InOrder(context', M) /\ SameOrder(L, M, node)
      /\ \A m \in Node : context'.container[m] = IF m = node THEN Other
                                                 ELSE context.container[m]
    BY DEF Edited
<1>5. /\ cursor.direction \in Directions /\ cursor.curr \in Node \cup {None}
      /\ cursor.strategy \in {"Pre", "Post"}
    BY <1>1 DEF WalkTypes, Strategies
<1>6. \A i \in 1 .. Len(start) : start[i] \in Node
    BY <1>1, ElementOfSeq DEF WalkTypes
<1>7. /\ node \in Seen /\ node \notin Rest(L) /\ node \in Node
      /\ cursor.strategy = "Pre" => cursor.curr # node
      /\ Len(visited) \in 1 .. Len(visited) /\ visited[Len(visited)] = node
    BY GivenSeen
<1>8. \A d, x, y : Precedes(M, d, x, y) =>
         /\ x \in Node /\ y \in Node /\ x # y
         /\ context'.container[y] = context'.container[x]
    BY <1>4, PrecedesWithin
<1>9. cursor.strategy = "Post" => cursor.curr = node
    BY <1>1 DEF Held
<1>10. ASSUME cursor.strategy = "Pre", NEW y \in Node
       PROVE  y \in Rest(M)' <=> y \in Rest(L)
    <2>1. cursor.curr # node
        BY <1>7, <1>10
    <2>2. CASE cursor.curr = None
        BY <1>2, <1>10, <2>2 DEF Rest
    <2>3. CASE cursor.curr # None
        <3>1. context'.container[cursor.curr] = context.container[cursor.curr]
            BY <1>4, <1>5, <2>1, <2>3
        <3>2. context.container[cursor.curr] \in {Walked, None}
            BY <1>1, <1>10, <2>3 DEF Held
        <3>3. Precedes(M, cursor.direction, cursor.curr, y) => y # node
            BY <1>4, <1>7, <1>8, <3>1, <3>2
        <3>4. y \in Rest(L) => y # node
            BY <1>7
        <3>5. cursor.curr \in Node \ {node}
            BY <1>5, <2>1, <2>3
        <3>6. y # node => (Precedes(M, cursor.direction, cursor.curr, y) <=>
                           Precedes(L, cursor.direction, cursor.curr, y))
            BY <1>4, <1>5, <3>5 DEF SameOrder
        <3> QED BY <1>2, <1>10, <2>1, <2>3, <3>3, <3>4, <3>6 DEF Rest
    <2> QED BY <2>2, <2>3
<1>11. ASSUME cursor.strategy = "Post", NEW y \in Rest(M)'
       PROVE  /\ y \notin Seen /\ y \in Node
              /\ \A i \in 1 .. Len(start) : start[i] # y
    <2>1. cursor.curr = node
        BY <1>9, <1>11
    <2>2. Precedes(M, cursor.direction, node, y)
        BY <1>2, <1>11, <2>1 DEF Rest
    <2>3. y \in Node /\ y # node /\ context'.container[y] = Other
        BY <1>4, <1>7, <1>8, <2>2
    <2>4. context.container[y] = Other
        BY <1>4, <2>3
    <2> QED BY <1>1, <1>11, <2>1, <2>3, <2>4 DEF OthersApart
<1>12. FreshApart'
    BY <1>1, <1>2, <1>3, <1>4 DEF FreshApart
<1>13. StartInOrder(M)'
    <2>1. \A i, j \in 1 .. Len(start) :
             (/\ context'.container[start[i]] = Walked
              /\ Precedes(M, cursor.direction, start[i], start[j])) =>
                /\ Precedes(L, cursor.direction, start[i], start[j])
                /\ context.container[start[i]] = Walked
        <3> SUFFICES ASSUME NEW i \in 1 .. Len(start), NEW j \in 1 .. Len(start),
                            context'.container[start[i]] = Walked,
                            Precedes(M, cursor.direction, start[i], start[j])
                     PROVE  /\ Precedes(L, cursor.direction, start[i], start[j])
                            /\ context.container[start[i]] = Walked
            OBVIOUS
        <3>1. start[i] \in Node \ {node} /\ start[j] \in Node \ {node}
            BY <1>4, <1>6, <1>7, <1>8
        <3> QED BY <1>4, <1>5, <3>1 DEF SameOrder
    <2> QED BY <1>1, <1>2, <2>1 DEF StartInOrder
<1>14. RestUnseen(M)'
    <2>1. CASE cursor.strategy = "Pre"
        <3>1. \A y \in Rest(M)' : y \in Rest(L)
            BY <1>10, <2>1 DEF Rest
        <3> QED BY <1>1, <1>2, <1>3, <3>1 DEF RestUnseen
    <2>2. CASE cursor.strategy = "Post"
        BY <1>2, <1>3, <1>11, <2>2 DEF RestUnseen
    <2> QED BY <1>5, <2>1, <2>2
<1>15. Held'
    <2>1. cursor.curr # None /\ cursor.curr # node =>
             context'.container[cursor.curr] = context.container[cursor.curr]
        BY <1>4, <1>5
    <2>2. context'.container[node] = Other
        BY <1>4, <1>7
    <2> QED BY <1>1, <1>2, <1>7, <2>1, <2>2 DEF Held
<1>16. OthersApart(M)'
    <2> SUFFICES ASSUME cursor.strategy = "Post" PROVE OthersApart(M)'
        BY <1>2 DEF OthersApart
    <2>1. cursor.curr = node /\ context'.container[cursor.curr] = Other
        BY <1>4, <1>7, <1>9
    <2>2. \A i \in 1 .. Len(start) : start[i] \notin Rest(M)'
        BY <1>11
    <2> QED BY <1>2, <2>1, <2>2 DEF OthersApart
<1>17. NoneLost(M)'
    <2>1. cursor.strategy = "Post" => Stopped'
        <3>1. context'.container[visited[Len(visited)]] = Other /\ visited # <<>>
            BY <1>1, <1>4, <1>7 DEF WalkTypes
        <3> QED BY <1>2, <3>1 DEF Stopped
    <2>2. cursor.strategy = "Pre" => ~Stopped
        BY DEF Stopped
    <2>3. cursor.strategy = "Pre" => \A i \in 1 .. Len(start) :
             start[i] \in Rest(M)' <=> start[i] \in Rest(L)
        BY <1>6, <1>10
    <2> QED BY <1>1, <1>2, <1>3, <1>5, <2>1, <2>2, <2>3 DEF NoneLost
<1> QED BY <1>3, <1>4, <1>12, <1>13, <1>14, <1>15, <1>16, <1>17 DEF WalkInv

(* What next returns is the first of what the cursor had before it. *)
NextOf(L) ==
    \/ /\ node' = None /\ visited' = visited
       /\ cursor'.curr = None
       /\ cursor.strategy = "Post" => cursor'.done
       /\ \A y \in Node : y \notin Rest(L) /\ y \notin Rest(L)'
    \/ /\ node' \in Node /\ visited' = Append(visited, node')
       /\ \A y \in Node : y \in Rest(L) <=> (y = node' \/ y \in Rest(L)')
       /\ \A y \in Rest(L)' : Precedes(L, cursor.direction, node', y)

LEMMA NextPre ==
    ASSUME NEW L, WalkInv(L), CallNext, cursor.strategy = "Pre"
    PROVE  /\ cursor' \in [curr : Node \cup {None}, strategy : Strategies,
                           direction : Directions, done : BOOLEAN]
           /\ cursor'.strategy = cursor.strategy /\ cursor'.direction = cursor.direction
           /\ cursor'.done => cursor'.curr = None
           /\ node' = cursor.curr
           /\ node' # None => cursor'.curr = Along(context, cursor.direction, node')
           /\ NextOf(L)
<1> DEFINE d == cursor.direction
           z == Along(context, d, cursor.curr)
<1>1. /\ WalkTypes /\ Sound(context) /\ InOrder(context, L) /\ Held
      /\ cursor \in [curr : Node \cup {None}, strategy : Strategies,
                     direction : Directions, done : BOOLEAN]
      /\ context' = context
    BY DEF WalkInv, WalkTypes, CallNext
<1>2. cursor' = AdvancePre(context, cursor) /\ node' = cursor.curr
    BY DEF CallNext
<1>3. d \in Directions
    BY <1>1
<1>4. CASE cursor.curr = None
    <2>1. cursor' = [cursor EXCEPT !.done = TRUE] /\ node' = None
        BY <1>2, <1>4 DEF AdvancePre
    <2>2. /\ cursor' \in [curr : Node \cup {None}, strategy : Strategies,
                          direction : Directions, done : BOOLEAN]
          /\ cursor'.strategy = cursor.strategy /\ cursor'.direction = cursor.direction
          /\ cursor'.curr = None
        BY <1>1, <1>4, <2>1
    <2>3. visited' = visited
        BY <2>1 DEF CallNext
    <2>4. \A y \in Node : y \notin Rest(L) /\ y \notin Rest(L)'
        BY <1>4, <2>2 DEF Rest
    <2> QED BY <1>2, <1>4, <2>1, <2>2, <2>3, <2>4 DEF NextOf
<1>5. CASE cursor.curr # None
    <2>1. cursor' = [cursor EXCEPT !.curr = z] /\ node' = cursor.curr
        BY <1>2, <1>5 DEF AdvancePre
    <2>2. cursor.curr \in Node
        BY <1>1, <1>5
    <2> HIDE DEF z
    <2>3. /\ z = None => \A y : ~Precedes(L, d, cursor.curr, y)
          /\ z # None => /\ z \in Node
                         /\ \A y : Precedes(L, d, cursor.curr, y) <=>
                                      (y = z \/ Precedes(L, d, z, y))
        BY <1>1, <1>3, <2>2, AlongIsNext DEF z
    <2>4. /\ cursor' \in [curr : Node \cup {None}, strategy : Strategies,
                          direction : Directions, done : BOOLEAN]
          /\ cursor'.strategy = cursor.strategy /\ cursor'.direction = cursor.direction
          /\ cursor'.curr = z /\ cursor'.done = cursor.done
        BY <1>1, <2>1, <2>3
    <2>5. visited' = Append(visited, node') /\ node' \in Node /\ node' = cursor.curr
        BY <1>5, <2>1, <2>2 DEF CallNext
    <2>6. \A y \in Node : y \in Rest(L)' <=> Precedes(L, d, node', y)
        BY <1>1, <2>3, <2>4, <2>5 DEF Rest
    <2>7. \A y \in Node : y \in Rest(L) <=> (y = node' \/ Precedes(L, d, node', y))
        BY <1>5, <2>5 DEF Rest
    <2>8. \A y \in Rest(L)' : y \in Node
        BY DEF Rest
    <2>9. NextOf(L)
        BY <2>5, <2>6, <2>7, <2>8 DEF NextOf
    <2>10. ~cursor.done
        BY <1>1, <1>5 DEF Held
    <2> QED BY <2>1, <2>4, <2>9, <2>10 DEF z
<1> QED BY <1>4, <1>5

LEMMA NextPost ==
    ASSUME NEW L, WalkInv(L), CallNext, cursor.strategy = "Post"
    PROVE  /\ cursor' \in [curr : Node \cup {None}, strategy : Strategies,
                           direction : Directions, done : BOOLEAN]
           /\ cursor'.strategy = cursor.strategy /\ cursor'.direction = cursor.direction
           /\ cursor'.done => cursor'.curr = None
           /\ node' = cursor'.curr
           /\ node' # None =>
                 IF cursor.curr = None
                 THEN ~cursor.done /\ context.container[node'] = Walked
                 ELSE /\ context.container[cursor.curr] # None
                      /\ context.container[node'] = context.container[cursor.curr]
           /\ NextOf(L)
<1> DEFINE d == cursor.direction
           z == IF cursor.curr # None THEN Along(context, d, cursor.curr)
                ELSE IF cursor.done THEN None
                ELSE First(context, d)
<1>1. /\ WalkTypes /\ Sound(context) /\ InOrder(context, L) /\ Held
      /\ cursor \in [curr : Node \cup {None}, strategy : Strategies,
                     direction : Directions, done : BOOLEAN]
      /\ context' = context
    BY DEF WalkInv, WalkTypes, CallNext
<1>2. /\ cursor' = [cursor EXCEPT !.curr = z, !.done = (z = None)]
      /\ node' = cursor'.curr
    BY DEF CallNext, AdvancePost
<1>3. d \in Directions
    BY <1>1
<1>4. /\ z \in Node \cup {None}
      /\ z # None =>
            IF cursor.curr = None
            THEN ~cursor.done /\ context.container[z] = Walked
            ELSE /\ context.container[cursor.curr] # None
                 /\ context.container[z] = context.container[cursor.curr]
      /\ \A y \in Node : y \in Rest(L) <=> z # None /\ (y = z \/ Precedes(L, d, z, y))
    <2>1. CASE cursor.curr # None
        <3>1. cursor.curr \in Node /\ z = Along(context, d, cursor.curr)
            BY <1>1, <2>1
        <3>2. /\ z = None => \A y : ~Precedes(L, d, cursor.curr, y)
              /\ z # None => /\ z \in Node
                             /\ context.container[cursor.curr] \in Container
                             /\ context.container[z] = context.container[cursor.curr]
                             /\ \A y : Precedes(L, d, cursor.curr, y) <=>
                                          (y = z \/ Precedes(L, d, z, y))
            BY <1>1, <1>3, <3>1, AlongIsNext
        <3>3. \A y \in Node : y \in Rest(L) <=> Precedes(L, d, cursor.curr, y)
            BY <2>1 DEF Rest
        <3> HIDE DEF z
        <3> QED BY <2>1, <3>2, <3>3
    <2>2. CASE cursor.curr = None /\ ~cursor.done
        <3>1. z = First(context, d)
            BY <2>2
        <3>2. /\ z = None => \A y \in Node : context.container[y] # Walked
              /\ z # None => /\ z \in Node /\ context.container[z] = Walked
                             /\ \A y \in Node : context.container[y] = Walked <=>
                                                   (y = z \/ Precedes(L, d, z, y))
            BY <1>1, <1>3, <3>1, FirstIsFirst
        <3>3. \A y \in Node : y \in Rest(L) <=> context.container[y] = Walked
            BY <2>2 DEF Rest
        <3> HIDE DEF z
        <3> QED BY <2>2, <3>2, <3>3
    <2>3. CASE cursor.curr = None /\ cursor.done
        <3>1. z = None
            BY <2>3
        <3>2. \A y \in Node : y \notin Rest(L)
            BY <2>3 DEF Rest
        <3> QED BY <3>1, <3>2
    <2> QED BY <2>1, <2>2, <2>3
<1> HIDE DEF z
<1>5. /\ cursor' \in [curr : Node \cup {None}, strategy : Strategies,
                      direction : Directions, done : BOOLEAN]
      /\ cursor'.strategy = cursor.strategy /\ cursor'.direction = cursor.direction
      /\ cursor'.curr = z /\ cursor'.done = (z = None)
    BY <1>1, <1>2, <1>4
<1>6. \A y \in Node : y \in Rest(L)' <=> z # None /\ Precedes(L, d, z, y)
    <2>1. CASE z = None
        BY <1>5, <2>1 DEF Rest
    <2>2. CASE z # None
        BY <1>5, <2>2 DEF Rest
    <2> QED BY <2>1, <2>2
<1>7. NextOf(L)
    <2>1. CASE z = None
        <3>1. node' = None /\ visited' = visited /\ cursor'.curr = None /\ cursor'.done
            BY <1>2, <1>5, <2>1 DEF CallNext
        <3> QED BY <1>4, <1>6, <2>1, <3>1 DEF NextOf
    <2>2. CASE z # None
        <3>1. node' \in Node /\ visited' = Append(visited, node') /\ node' = z
            BY <1>2, <1>4, <1>5, <2>2 DEF CallNext
        <3>2. \A y \in Rest(L)' : y \in Node
            BY DEF Rest
        <3> QED BY <1>4, <1>6, <2>2, <3>1, <3>2 DEF NextOf
    <2> QED BY <2>1, <2>2
<1> QED BY <1>2, <1>4, <1>5, <1>7

LEMMA SeenMore ==
    ASSUME visited \in Seq(Node), NEW x \in Node, visited' = Append(visited, x)
    PROVE  /\ visited' \in Seq(Node) /\ Len(visited') = Len(visited) + 1
           /\ Len(visited) \in Nat /\ visited' # <<>> /\ visited'[Len(visited')] = x
           /\ \A i \in 1 .. Len(visited) : visited'[i] = visited[i]
           /\ Seen' = Seen \cup {x}
<1>1. /\ visited' \in Seq(Node) /\ Len(visited') = Len(visited) + 1
      /\ Len(visited) \in Nat /\ visited'[Len(visited')] = x
      /\ \A i \in 1 .. Len(visited) : visited'[i] = visited[i]
    BY AppendProperties
<1>2. visited' # <<>>
    BY <1>1
<1>3. ASSUME NEW y \in Seen' PROVE y \in Seen \cup {x}
    <2>1. PICK i \in 1 .. Len(visited') : y = visited'[i]
        BY <1>3 DEF Seen
    <2>2. i \in 1 .. Len(visited) \/ i = Len(visited')
        BY <1>1
    <2> QED BY <1>1, <2>1, <2>2 DEF Seen
<1>4. ASSUME NEW y \in Seen PROVE y \in Seen'
    <2>1. PICK i \in 1 .. Len(visited) : y = visited[i]
        BY <1>4 DEF Seen
    <2>2. i \in 1 .. Len(visited')
        BY <1>1
    <2> QED BY <1>1, <2>1, <2>2 DEF Seen
<1>5. x \in Seen'
    <2>1. Len(visited') \in 1 .. Len(visited')
        BY <1>1
    <2> QED BY <1>1, <2>1 DEF Seen
<1> QED BY <1>1, <1>2, <1>3, <1>4, <1>5

(* Whatever next returns, the visited nodes stay in order, and so do those *)
(* that are left.                                                          *)
LEMMA NextInOrder ==
    ASSUME NEW L, WalkInv(L), CallNext, NextOf(L),
           \A i \in 1 .. Len(start), y \in Rest(L)' :
              node' # None /\ start[i] = node' => context.container[node'] = Walked
    PROVE  SeenInOrder' /\ RestUnseen(L)' /\ visited' \in Seq(Node)
<1>1. /\ WalkTypes /\ InOrder(context, L) /\ StartInOrder(L) /\ SeenInOrder
      /\ RestUnseen(L) /\ visited \in Seq(Node) /\ start' = start
    BY DEF WalkInv, WalkTypes, CallNext
<1>2. \A i \in 1 .. Len(start) : start[i] \in Node
    BY <1>1, ElementOfSeq DEF WalkTypes
<1>3. \A y \in Rest(L) \cup Rest(L)' : y \in Node
    BY DEF Rest
<1>4. CASE node' = None
    <2>1. /\ visited' = visited
          /\ \A y \in Node : y \notin Rest(L) /\ y \notin Rest(L)'
        BY <1>4 DEF NextOf
    <2>2. SeenInOrder'
        <3>1. start' = start /\ visited' = visited /\ SeenInOrder
            BY <1>1, <2>1
        <3> QED BY <3>1 DEF SeenInOrder
    <2>3. RestUnseen(L)'
        BY <1>3, <2>1 DEF RestUnseen
    <2> QED BY <1>1, <2>1, <2>2, <2>3
<1>5. CASE node' # None
    <2> DEFINE x == node'
    <2>1. /\ x \in Node /\ visited' = Append(visited, x)
          /\ \A y \in Node : y \in Rest(L) <=> (y = x \/ y \in Rest(L)')
          /\ \A y \in Rest(L)' : Precedes(L, cursor.direction, x, y)
        BY <1>5 DEF NextOf
    <2>2. \A i \in 1 .. Len(start), y \in Rest(L)' :
             start[i] = x => context.container[x] = Walked
        BY <1>5
    <2> HIDE DEF x
    <2>3. /\ visited' \in Seq(Node) /\ Len(visited') = Len(visited) + 1
          /\ Len(visited) \in Nat /\ visited'[Len(visited')] = x
          /\ \A i \in 1 .. Len(visited) : visited'[i] = visited[i]
          /\ Seen' = Seen \cup {x}
        BY <1>1, <2>1, SeenMore
    <2>4. x \in Rest(L) /\ x \notin Seen
        BY <1>1, <2>1 DEF RestUnseen
    <2>5. \A i \in 1 .. Len(visited) : visited[i] \in Seen /\ visited[i] # x
        BY <2>4 DEF Seen
    <2>6. \A i \in 1 .. Len(visited') : i \in 1 .. Len(visited) \/ i = Len(visited')
        BY <2>3
    <2>7. \A i, j \in 1 .. Len(visited') : visited'[i] = visited'[j] => i = j
        BY <1>1, <2>3, <2>5, <2>6 DEF SeenInOrder
    <2>8. ASSUME NEW i \in 1 .. Len(visited'), NEW j \in 1 .. Len(visited'),
                 NEW a \in 1 .. Len(start), NEW b \in 1 .. Len(start),
                 i < j, start[a] = visited'[i], start[b] = visited'[j]
          PROVE  a < b
        <3>1. i \in 1 .. Len(visited)
            BY <2>3, <2>8
        <3>2. CASE j \in 1 .. Len(visited)
            BY <1>1, <2>3, <2>8, <3>1, <3>2 DEF SeenInOrder
        <3>3. CASE j = Len(visited')
            <4>1. start[a] \in Seen /\ start[b] \in Rest(L)
                BY <2>3, <2>4, <2>5, <2>8, <3>1, <3>3
            <4> QED BY <1>1, <4>1 DEF RestUnseen
        <3> QED BY <2>6, <3>2, <3>3
    <2>9. SeenInOrder'
        BY <1>1, <2>7, <2>8 DEF SeenInOrder
    <2>10. \A y \in Rest(L)' : y # x /\ y \in Rest(L)
        BY <1>1, <1>3, <2>1, PrecedesWithin
    <2>11. ASSUME NEW a \in 1 .. Len(start), NEW b \in 1 .. Len(start),
                  start[a] \in Seen', start[b] \in Rest(L)'
           PROVE  a < b
        <3>1. start[b] \in Rest(L) /\ Precedes(L, cursor.direction, x, start[b])
            BY <2>1, <2>10, <2>11
        <3>2. CASE start[a] \in Seen
            BY <1>1, <3>1, <3>2 DEF RestUnseen
        <3>3. CASE start[a] = x
            BY <1>1, <2>2, <2>11, <3>1, <3>3 DEF StartInOrder
        <3> QED BY <2>3, <2>11, <3>2, <3>3
    <2>12. RestUnseen(L)'
        BY <1>1, <2>3, <2>10, <2>11 DEF RestUnseen
    <2> QED BY <2>3, <2>9, <2>12
<1> QED BY <1>4, <1>5

(* No original is passed over. *)
LEMMA NextLosesNone ==
    ASSUME NEW L, WalkInv(L), CallNext, NextOf(L),
           cursor' = [cursor EXCEPT !.curr = cursor'.curr, !.done = cursor'.done],
           node' # None /\ ~wild => \/ context.container[node'] = Walked /\ ~Stopped
                                    \/ /\ cursor.strategy = "Post"
                                       /\ context.container[node'] # Walked
                                       /\ \A i \in 1 .. Len(start) : start[i] # node'
    PROVE  NoneLost(L)'
<1> SUFFICES ASSUME ~wild PROVE NoneLost(L)'
    BY DEF NoneLost, CallNext
<1>1. /\ WalkTypes /\ InOrder(context, L) /\ StartInOrder(L) /\ NoneLost(L)
      /\ visited \in Seq(Node) /\ start' = start /\ context' = context /\ wild' = wild
      /\ cursor \in [curr : Node \cup {None}, strategy : Strategies,
                     direction : Directions, done : BOOLEAN]
    BY DEF WalkInv, WalkTypes, CallNext
<1>2. cursor'.strategy = cursor.strategy
    BY <1>1
<1>3. \A i \in 1 .. Len(start) : start[i] \in Node
    BY <1>1, ElementOfSeq DEF WalkTypes
<1>4. CASE node' = None
    <2>1. visited' = visited /\ \A y \in Node : y \notin Rest(L)
        BY <1>4 DEF NextOf
    <2>2. Seen' = Seen /\ (Stopped' <=> Stopped)
        BY <1>1, <1>2, <2>1 DEF Seen, Stopped
    <2> QED BY <1>1, <1>3, <2>1, <2>2 DEF NoneLost
<1>5. CASE node' # None
    <2> DEFINE x == node'
    <2>1. /\ x \in Node /\ visited' = Append(visited, x)
          /\ \A y \in Node : y \in Rest(L) <=> (y = x \/ y \in Rest(L)')
          /\ \A y \in Rest(L)' : Precedes(L, cursor.direction, x, y)
        BY <1>5 DEF NextOf
    <2>2. \/ context.container[x] = Walked /\ ~Stopped
          \/ /\ cursor.strategy = "Post" /\ context.container[x] # Walked
             /\ \A i \in 1 .. Len(start) : start[i] # x
        BY <1>5
    <2> HIDE DEF x
    <2>3. visited' # <<>> /\ visited'[Len(visited')] = x /\ Seen' = Seen \cup {x}
        BY <1>1, <2>1, SeenMore
    <2>4. CASE context.container[x] = Walked /\ ~Stopped
        <3>1. \A i \in 1 .. Len(start) : start[i] \in Seen \cup Rest(L)
            BY <1>1, <2>4 DEF NoneLost
        <3>2. ASSUME NEW i \in 1 .. Len(start), NEW j \in 1 .. Len(start),
                     i < j, start[j] \in Seen'
              PROVE  start[i] \in Seen'
            <4>1. CASE start[j] \in Seen
                BY <1>1, <2>3, <3>2, <4>1 DEF NoneLost
            <4>2. CASE start[j] = x /\ start[i] \notin Seen'
                <5>1. start[i] \in Rest(L)'
                    BY <1>3, <2>1, <2>3, <3>1, <4>2
                <5>2. Precedes(L, cursor.direction, start[j], start[i])
                    BY <2>1, <4>2, <5>1
                <5>3. j < i
                    BY <1>1, <2>4, <4>2, <5>2 DEF StartInOrder
                <5> QED BY <3>2, <5>3
            <4> QED BY <2>3, <3>2, <4>1, <4>2
        <3>3. \A i \in 1 .. Len(start) : start[i] \in Seen' \cup Rest(L)'
            BY <1>3, <2>1, <2>3, <3>1
        <3> QED BY <1>1, <3>2, <3>3 DEF NoneLost
    <2>5. CASE /\ cursor.strategy = "Post" /\ context.container[x] # Walked
               /\ \A i \in 1 .. Len(start) : start[i] # x
        <3>1. Stopped'
            BY <1>1, <1>2, <2>3, <2>5 DEF Stopped
        <3>2. \A i \in 1 .. Len(start) : start[i] \in Seen' <=> start[i] \in Seen
            BY <2>3, <2>5
        <3> QED BY <1>1, <3>1, <3>2 DEF NoneLost
    <2> QED BY <2>2, <2>4, <2>5
<1> QED BY <1>4, <1>5

LEMMA SameFields ==
    ASSUME NEW k, NEW l,
           k \in [curr : Node \cup {None}, strategy : Strategies,
                  direction : Directions, done : BOOLEAN],
           l \in [curr : Node \cup {None}, strategy : Strategies,
                  direction : Directions, done : BOOLEAN],
           l.strategy = k.strategy, l.direction = k.direction
    PROVE  l = [k EXCEPT !.curr = l.curr, !.done = l.done]
OBVIOUS

LEMMA NextKeepsPre ==
    ASSUME NEW L, WalkInv(L), CallNext, cursor.strategy = "Pre"
    PROVE  WalkInv(L)'
<1>1. /\ WalkTypes /\ Sound(context) /\ InOrder(context, L)
      /\ FreshApart /\ StartInOrder(L) /\ SeenInOrder /\ RestUnseen(L)
      /\ Held /\ OthersApart(L) /\ NoneLost(L)
      /\ visited \in Seq(Node)
      /\ cursor \in [curr : Node \cup {None}, strategy : Strategies,
                     direction : Directions, done : BOOLEAN]
    BY DEF WalkInv, WalkTypes
<1>2. context' = context /\ fresh' = fresh /\ start' = start /\ wild' = wild
    BY DEF CallNext
<1>3. /\ cursor' \in [curr : Node \cup {None}, strategy : Strategies,
                      direction : Directions, done : BOOLEAN]
      /\ cursor'.strategy = cursor.strategy /\ cursor'.direction = cursor.direction
      /\ cursor'.done => cursor'.curr = None
      /\ node' = cursor.curr
      /\ node' # None => cursor'.curr = Along(context, cursor.direction, node')
      /\ NextOf(L)
    BY NextPre
<1>4. cursor' = [cursor EXCEPT !.curr = cursor'.curr, !.done = cursor'.done]
    BY <1>1, <1>3, SameFields
<1>5. node' \in Node \cup {None}
    BY <1>1, <1>3
<1>6. node' # None => /\ context.container[node'] \in {Walked, None}
                      /\ ~wild => context.container[node'] = Walked
    BY <1>1, <1>3 DEF Held
<1>7. cursor'.curr # None =>
         /\ node' # None /\ cursor'.curr \in Node
         /\ context.container[node'] = Walked
         /\ context.container[cursor'.curr] = Walked
    <2> SUFFICES ASSUME cursor'.curr # None
                 PROVE  /\ node' # None /\ cursor'.curr \in Node
                        /\ context.container[node'] = Walked
                        /\ context.container[cursor'.curr] = Walked
        OBVIOUS
    <2>1. node' # None
        BY <1>3 DEF NextOf
    <2>2. node' \in Node /\ cursor.direction \in Directions
        BY <1>1, <1>5, <2>1
    <2>3. /\ context.container[node'] = None => cursor'.curr = None
          /\ context.container[cursor'.curr] = context.container[node']
        BY <1>1, <1>3, <2>1, <2>2, AlongIsNext
    <2> QED BY <1>3, <1>6, <2>1, <2>3
<1>8. \A i \in 1 .. Len(start), y \in Rest(L)' :
         node' # None /\ start[i] = node' => context.container[node'] = Walked
    <2> SUFFICES ASSUME NEW y \in Rest(L)'
                 PROVE  node' # None => context.container[node'] = Walked
        OBVIOUS
    <2>1. cursor'.curr # None
        BY <1>3 DEF Rest
    <2> QED BY <1>7, <2>1
<1>9. SeenInOrder' /\ RestUnseen(L)' /\ visited' \in Seq(Node)
    BY <1>3, <1>8, NextInOrder
<1>10. WalkTypes'
    BY <1>1, <1>2, <1>3, <1>5, <1>9 DEF WalkTypes
<1>11. NoneLost(L)'
    <2>1. ~Stopped
        BY DEF Stopped
    <2> QED BY <1>3, <1>4, <1>6, <2>1, NextLosesNone
<1>12. node' # None => /\ visited' # <<>> /\ visited'[Len(visited')] = node'
                       /\ node' \in Rest(L)
    <2> SUFFICES ASSUME node' # None PROVE visited' # <<>> /\ visited'[Len(visited')] = node' /\ node' \in Rest(L)
        OBVIOUS
    <2>1. node' \in Node /\ visited' = Append(visited, node') /\ node' \in Rest(L)
        BY <1>3 DEF NextOf
    <2> QED BY <1>1, <2>1, SeenMore
<1>13. Held'
    BY <1>2, <1>3, <1>7, <1>12 DEF Held
<1>14. FreshApart'
    <2>1. ASSUME NEW n \in fresh
          PROVE  /\ n \notin Seen' /\ n # cursor'.curr /\ n # node'
                 /\ context.container[n] = None
        <3>1. context.container[n] = None /\ n \notin Seen /\ n # cursor.curr /\ n \in Node
            BY <1>1 DEF FreshApart, WalkTypes
        <3>2. n # cursor'.curr
            BY <1>7, <3>1
        <3>3. node' # None => Seen' = Seen \cup {node'}
            <4>1. node' # None => node' \in Node /\ visited' = Append(visited, node')
                BY <1>3 DEF NextOf
            <4> QED BY <1>1, <4>1, SeenMore
        <3>4. node' = None => Seen' = Seen
            BY DEF CallNext, Seen
        <3> QED BY <1>3, <3>1, <3>2, <3>3, <3>4
    <2> QED BY <1>1, <1>2, <2>1 DEF FreshApart
<1>15. StartInOrder(L)'
    BY <1>1, <1>2, <1>3 DEF StartInOrder
<1>16. OthersApart(L)'
    BY <1>3 DEF OthersApart
<1> QED BY <1>1, <1>2, <1>9, <1>10, <1>11, <1>13, <1>14, <1>15, <1>16 DEF WalkInv

LEMMA NextKeepsPost ==
    ASSUME NEW L, WalkInv(L), CallNext, cursor.strategy = "Post"
    PROVE  WalkInv(L)'
<1>1. /\ WalkTypes /\ Sound(context) /\ InOrder(context, L)
      /\ FreshApart /\ StartInOrder(L) /\ SeenInOrder /\ RestUnseen(L)
      /\ Held /\ OthersApart(L) /\ NoneLost(L)
      /\ visited \in Seq(Node)
      /\ cursor \in [curr : Node \cup {None}, strategy : Strategies,
                     direction : Directions, done : BOOLEAN]
    BY DEF WalkInv, WalkTypes
<1>2. context' = context /\ fresh' = fresh /\ start' = start /\ wild' = wild
    BY DEF CallNext
<1>3. /\ cursor' \in [curr : Node \cup {None}, strategy : Strategies,
                      direction : Directions, done : BOOLEAN]
      /\ cursor'.strategy = cursor.strategy /\ cursor'.direction = cursor.direction
      /\ cursor'.done => cursor'.curr = None
      /\ node' = cursor'.curr
      /\ node' # None =>
            IF cursor.curr = None
            THEN ~cursor.done /\ context.container[node'] = Walked
            ELSE /\ context.container[cursor.curr] # None
                 /\ context.container[node'] = context.container[cursor.curr]
      /\ NextOf(L)
    BY NextPost
<1>4. cursor' = [cursor EXCEPT !.curr = cursor'.curr, !.done = cursor'.done]
    BY <1>1, <1>3, SameFields
<1>5. node' \in Node \cup {None}
    BY <1>1, <1>3
<1>6. node' # None =>
         /\ visited' # <<>> /\ visited'[Len(visited')] = node'
         /\ node' \in Rest(L) /\ Seen' = Seen \cup {node'}
         /\ cursor'.done = FALSE
    <2> SUFFICES ASSUME node' # None
                 PROVE  /\ visited' # <<>> /\ visited'[Len(visited')] = node'
                        /\ node' \in Rest(L) /\ Seen' = Seen \cup {node'}
                        /\ cursor'.done = FALSE
        OBVIOUS
    <2>1. node' \in Node /\ visited' = Append(visited, node') /\ node' \in Rest(L)
        BY <1>3 DEF NextOf
    <2>2. visited' # <<>> /\ visited'[Len(visited')] = node' /\ Seen' = Seen \cup {node'}
        BY <1>1, <2>1, SeenMore
    <2>3. cursor'.done \in BOOLEAN
        BY <1>3
    <2> QED BY <1>3, <2>1, <2>2, <2>3
<1>7. node' = None => visited' = visited /\ Seen' = Seen /\ cursor'.done
    BY <1>3 DEF CallNext, Seen, NextOf
(* Either next is called in the list, or in the other container. *)
<1>8. node' # None =>
         \/ /\ context.container[node'] = Walked
            /\ \/ cursor.curr = None /\ ~cursor.done
               \/ cursor.curr # None /\ context.container[cursor.curr] = Walked
         \/ /\ context.container[node'] = Other /\ cursor.curr # None
            /\ context.container[cursor.curr] = Other
    BY <1>1, <1>3 DEF Held
<1>9. context.container[node'] = Other /\ node' # None =>
         \A i \in 1 .. Len(start) : start[i] # node'
    BY <1>1, <1>6, <1>8 DEF OthersApart
<1>10. SeenInOrder' /\ RestUnseen(L)' /\ visited' \in Seq(Node)
    BY <1>3, <1>8, <1>9, NextInOrder
<1>11. WalkTypes'
    BY <1>1, <1>2, <1>3, <1>5, <1>10 DEF WalkTypes
<1>12. NoneLost(L)'
    <2>1. node' # None /\ context.container[node'] = Walked => ~Stopped
        <3> SUFFICES ASSUME node' # None, context.container[node'] = Walked, Stopped
                     PROVE  FALSE
            OBVIOUS
        <3>1. visited # <<>> /\ context.container[visited[Len(visited)]] # Walked
            BY DEF Stopped
        <3>2. cursor.curr = node /\ (cursor.curr = None /\ ~cursor.done => visited = <<>>)
              /\ (node # None => visited[Len(visited)] = node)
            BY <1>1 DEF Held
        <3> QED BY <1>8, <3>1, <3>2
    <2>2. node' # None => \/ context.container[node'] = Walked /\ ~Stopped
                          \/ /\ cursor.strategy = "Post"
                             /\ context.container[node'] # Walked
                             /\ \A i \in 1 .. Len(start) : start[i] # node'
        BY <1>8, <1>9, <2>1
    <2> QED BY <1>3, <1>4, <2>2, NextLosesNone
<1>13. Held'
    BY <1>2, <1>3, <1>6, <1>7, <1>8 DEF Held
<1>14. FreshApart'
    <2>1. ASSUME NEW n \in fresh
          PROVE  /\ n \notin Seen' /\ n # cursor'.curr /\ n # node'
                 /\ context.container[n] = None
        <3>1. context.container[n] = None /\ n \notin Seen /\ n \in Node
            BY <1>1 DEF FreshApart, WalkTypes
        <3>2. n # node'
            BY <1>8, <3>1
        <3> QED BY <1>3, <1>6, <1>7, <3>1, <3>2
    <2> QED BY <1>1, <1>2, <2>1 DEF FreshApart
<1>15. StartInOrder(L)'
    BY <1>1, <1>2, <1>3 DEF StartInOrder
<1>16. OthersApart(L)'
    <2> SUFFICES ASSUME node' # None PROVE OthersApart(L)'
        BY <1>3, <1>7 DEF OthersApart
    <2>1. CASE context.container[node'] = Walked
        <3>1. \/ cursor.curr = None /\ ~cursor.done
              \/ cursor.curr # None /\ context.container[cursor.curr] = Walked
            BY <1>8, <2>1
        <3>2. \A y \in Node : context.container[y] = Other =>
                 y \notin Seen /\ \A i \in 1 .. Len(start) : start[i] # y
            BY <1>1, <3>1 DEF OthersApart
        <3> QED BY <1>2, <1>3, <1>6, <2>1, <3>2 DEF OthersApart
    <2>2. CASE context.container[node'] = Other
        <3>1. \A i \in 1 .. Len(start) : start[i] \notin Rest(L)
            BY <1>1, <1>8, <2>2 DEF OthersApart
        <3>2. \A y \in Rest(L)' : y \in Rest(L)
            <4>1. \A y \in Rest(L)' : y \in Node
                BY DEF Rest
            <4> QED BY <1>3, <4>1 DEF NextOf
        <3> QED BY <1>2, <1>3, <2>2, <3>1, <3>2 DEF OthersApart
    <2> QED BY <1>8, <2>1, <2>2
<1> QED BY <1>1, <1>2, <1>10, <1>11, <1>12, <1>13, <1>14, <1>15, <1>16 DEF WalkInv

WalkInvariant == \E L : WalkInv(L)

LEMMA NextKeeps == WalkInvariant /\ CallNext => WalkInvariant'
<1> SUFFICES ASSUME NEW L, WalkInv(L), CallNext
             PROVE  \E M : WalkInv(M)'
    BY DEF WalkInvariant
<1>1. cursor.strategy \in {"Pre", "Post"}
    BY DEF WalkInv, WalkTypes, Strategies
<1>2. WalkInv(L)'
    BY <1>1, NextKeepsPre, NextKeepsPost
<1> QED BY <1>2

LEMMA EditKeeps == WalkInvariant /\ Edit => WalkInvariant'
<1> SUFFICES ASSUME NEW L, WalkInv(L), Edit
             PROVE  \E M : WalkInv(M)'
    BY DEF WalkInvariant
<1>1. /\ Sound(context) /\ InOrder(context, L)
      /\ node \in Node \cup {None} /\ fresh \in SUBSET Node
      /\ \A n \in fresh : context.container[n] = None /\ n # node
    BY DEF WalkInv, WalkTypes, FreshApart
<1>2. CASE UnlinkGiven
    <2>1. /\ node \in Node /\ context.container[node] = Walked
          /\ context' = Unlink(context, node)
          /\ EditFrame /\ fresh' = fresh /\ wild' = wild
        BY <1>1, <1>2 DEF UnlinkGiven, Given, EditFrame
    <2>2. PICK M : Edited(context, context', L, M, node, None)
        BY <1>1, <2>1, TakenByUnlink
    <2>3. WalkInv(M)'
        BY <2>1, <2>2, UnlinkKeeps
    <2> QED BY <2>3
<1>3. CASE MoveGiven
    <2>1. /\ node \in Node /\ node # None /\ context.container[node] = Walked
          /\ context' = PushBack(Unlink(context, node), Other, node)
          /\ EditFrame /\ fresh' = fresh /\ wild' = wild
        BY <1>1, <1>3 DEF MoveGiven, Given, EditFrame
    <2>2. PICK M : Edited(context, context', L, M, node, Other)
        BY <1>1, <2>1, PlacedByMove
    <2>3. WalkInv(M)'
        BY <2>1, <2>2, MoveKeeps
    <2> QED BY <2>3
<1>4. ASSUME NEW n \in Node, InsertNew(n)
      PROVE  \E M : WalkInv(M)'
    <2>1. /\ node \in Node /\ context.container[node] = Walked
          /\ n \in fresh /\ context.container[n] = None
          /\ context' \in {InsertAfter(context, node, n), InsertBefore(context, node, n)}
          /\ EditFrame /\ fresh' = fresh \ {n} /\ wild' = wild
        BY <1>1, <1>4 DEF InsertNew, Given, EditFrame
    <2>2. PICK M : Edited(context, context', L, M, n, Walked)
        BY <1>1, <2>1, PlacedByInsert
    <2>3. WalkInv(M)'
        BY <2>1, <2>2, InsertKeeps
    <2> QED BY <2>3
<1>5. ASSUME NEW n \in Node, PushNew(n)
      PROVE  \E M : WalkInv(M)'
    <2>1. /\ n \in fresh /\ context.container[n] = None
          /\ context' = PushBack(context, Walked, n)
          /\ EditFrame /\ fresh' = fresh \ {n} /\ wild' = wild
        BY <1>1, <1>5 DEF PushNew, EditFrame
    <2>2. PICK M : Edited(context, context', L, M, n, Walked)
        BY <1>1, <2>1, PlacedByPush
    <2>3. WalkInv(M)'
        BY <2>1, <2>2, InsertKeeps
    <2> QED BY <2>3
<1>6. ASSUME NEW n \in Node, UnlinkAny(n)
      PROVE  \E M : WalkInv(M)'
    <2>1. /\ context.container[n] = Walked /\ n # node
          /\ context' = Unlink(context, n)
          /\ EditFrame /\ fresh' = fresh /\ wild'
        BY <1>1, <1>6 DEF UnlinkAny, EditFrame
    <2>2. PICK M : Edited(context, context', L, M, n, None)
        BY <1>1, <2>1, TakenByUnlink
    <2>3. WalkInv(M)'
        BY <2>1, <2>2, UnlinkKeeps
    <2> QED BY <2>3
<1> QED BY <1>2, <1>3, <1>4, <1>5, <1>6 DEF Edit

-----------------------------------------------------------------------------
(* Where a walk begins: at first, and where the cursor is turned around.   *)

InDirection(s, d) == IF d = "Forward" THEN s ELSE Reverse(s)

Begun(L) ==
    /\ Sound(context) /\ InOrder(context, L)
    /\ cursor \in [curr : Node \cup {None}, strategy : Strategies,
                   direction : Directions, done : {FALSE}]
    /\ cursor.curr = IF cursor.strategy = "Pre" THEN First(context, cursor.direction) ELSE None
    /\ node = None
    /\ fresh \in SUBSET Node /\ \A n \in fresh : context.container[n] = None
    /\ start = InDirection(L[Walked], cursor.direction)
    /\ visited = <<>>

Begins == \E L : Begun(L)

LEMMA DirectionOrder ==
    ASSUME NEW h, NEW L, InOrder(h, L), NEW d \in Directions,
           NEW s, s = InDirection(L[Walked], d)
    PROVE  /\ s \in Seq(Node)
           /\ \A i, j \in 1 .. Len(s) : s[i] = s[j] => i = j
           /\ \A i \in 1 .. Len(s) : h.container[s[i]] = Walked
           /\ \A i, j \in 1 .. Len(s) : Precedes(L, d, s[i], s[j]) => i < j
<1> DEFINE t == L[Walked]
<1>1. /\ t \in Seq(Node)
      /\ \A i \in 1 .. Len(t) : h.container[t[i]] = Walked
      /\ \A i, j \in 1 .. Len(t) : t[i] = t[j] => i = j
    BY DEF InOrder
<1>2. ASSUME NEW p \in 1 .. Len(t), NEW q \in 1 .. Len(t), Precedes(L, d, t[p], t[q])
      PROVE  \/ d = "Forward" /\ p < q
             \/ d = "Backward" /\ q < p
    <2>1. PICK e \in Container : \E i, j \in 1 .. Len(L[e]) :
             /\ L[e][i] = t[p] /\ L[e][j] = t[q]
             /\ \/ d = "Forward" /\ i < j
                \/ d = "Backward" /\ j < i
        BY <1>2 DEF Precedes
    <2>2. e = Walked
        <3>1. \A i \in 1 .. Len(L[e]) : h.container[L[e][i]] = e
            BY DEF InOrder
        <3> HIDE DEF t
        <3> QED BY <1>1, <2>1, <3>1
    <2>3. PICK i \in 1 .. Len(t), j \in 1 .. Len(t) :
             /\ t[i] = t[p] /\ t[j] = t[q]
             /\ \/ d = "Forward" /\ i < j
                \/ d = "Backward" /\ j < i
        BY <2>1, <2>2
    <2> HIDE DEF t
    <2>4. i = p /\ j = q
        BY <1>1, <2>3
    <2> QED BY <2>3, <2>4
<1> HIDE DEF t
<1>3. Len(t) \in Nat
    BY <1>1
<1>4. CASE d = "Forward"
    <2>1. s = t
        BY <1>4 DEF InDirection, t
    <2> QED BY <1>1, <1>2, <1>4, <2>1
<1>5. CASE d = "Backward"
    <2>1. s = [i \in 1 .. Len(t) |-> t[(Len(t) - i) + 1]]
        BY <1>5 DEF InDirection, t, Reverse
    <2>2. ASSUME NEW i \in 1 .. Len(t)
          PROVE  (Len(t) - i) + 1 \in 1 .. Len(t) /\ t[(Len(t) - i) + 1] \in Node
        <3>1. (Len(t) - i) + 1 \in 1 .. Len(t)
            BY <1>3
        <3> QED BY <1>1, <3>1, ElementOfSeq
    <2>3. s \in [1 .. Len(t) -> Node]
        BY <2>1, <2>2
    <2>4. s \in Seq(Node) /\ Len(s) = Len(t)
        BY <1>3, <2>3
    <2>5. ASSUME NEW i \in 1 .. Len(s), NEW j \in 1 .. Len(s), s[i] = s[j]
          PROVE  i = j
        <3>1. PICK p \in 1 .. Len(t) : p = (Len(t) - i) + 1 /\ s[i] = t[p]
            BY <2>1, <2>2, <2>4
        <3>2. PICK q \in 1 .. Len(t) : q = (Len(t) - j) + 1 /\ s[j] = t[q]
            BY <2>1, <2>2, <2>4
        <3>3. p = q
            BY <1>1, <2>5, <3>1, <3>2
        <3> QED BY <1>3, <2>4, <3>1, <3>2, <3>3
    <2>6. ASSUME NEW i \in 1 .. Len(s), NEW j \in 1 .. Len(s), Precedes(L, d, s[i], s[j])
          PROVE  i < j
        <3>1. PICK p \in 1 .. Len(t) : p = (Len(t) - i) + 1 /\ s[i] = t[p]
            BY <2>1, <2>2, <2>4
        <3>2. PICK q \in 1 .. Len(t) : q = (Len(t) - j) + 1 /\ s[j] = t[q]
            BY <2>1, <2>2, <2>4
        <3>3. q < p
            BY <1>2, <1>5, <2>6, <3>1, <3>2
        <3> QED BY <1>3, <2>4, <3>1, <3>2, <3>3
    <2>7. \A i \in 1 .. Len(s) : h.container[s[i]] = Walked
        BY <1>1, <2>1, <2>2, <2>4
    <2> QED BY <2>4, <2>5, <2>6, <2>7
<1> QED BY <1>4, <1>5 DEF Directions

LEMMA BeginKeeps == Begins => WalkInvariant
<1> SUFFICES ASSUME NEW L, Begun(L) PROVE WalkInv(L)
    BY DEF Begins, WalkInvariant
<1>1. /\ Sound(context) /\ InOrder(context, L)
      /\ cursor \in [curr : Node \cup {None}, strategy : Strategies,
                     direction : Directions, done : {FALSE}]
      /\ cursor.curr = IF cursor.strategy = "Pre" THEN First(context, cursor.direction) ELSE None
      /\ node = None
      /\ fresh \in SUBSET Node /\ \A n \in fresh : context.container[n] = None
      /\ start = InDirection(L[Walked], cursor.direction)
      /\ visited = <<>>
    BY DEF Begun
<1>2. /\ start \in Seq(Node)
      /\ \A i, j \in 1 .. Len(start) : start[i] = start[j] => i = j
      /\ \A i \in 1 .. Len(start) : context.container[start[i]] = Walked
      /\ \A i, j \in 1 .. Len(start) :
            Precedes(L, cursor.direction, start[i], start[j]) => i < j
    BY <1>1, DirectionOrder
<1>3. Seen = {} /\ visited \in Seq(Node) /\ Len(visited) = 0
    BY <1>1 DEF Seen
<1>4. /\ cursor.curr # None => context.container[cursor.curr] = Walked
      /\ \A y \in Node : context.container[y] = Walked => y \in Rest(L)
    <2>1. PICK f : f = First(context, cursor.direction)
        OBVIOUS
    <2>2. /\ f = None => \A y \in Node : context.container[y] # Walked
          /\ f # None => /\ f \in Node /\ context.container[f] = Walked
                         /\ \A y \in Node : context.container[y] = Walked <=>
                               (y = f \/ Precedes(L, cursor.direction, f, y))
        BY <1>1, <2>1, FirstIsFirst
    <2>3. cursor.strategy = "Pre" => cursor.curr = f
        BY <1>1, <2>1
    <2>4. cursor.strategy = "Post" => cursor.curr = None /\ ~cursor.done
        BY <1>1
    <2>5. cursor.strategy \in {"Pre", "Post"}
        BY <1>1 DEF Strategies
    <2> QED BY <2>2, <2>3, <2>4, <2>5 DEF Rest
<1>5. WalkTypes
    BY <1>1, <1>2, <1>3 DEF WalkTypes
<1>6. FreshApart
    BY <1>1, <1>2, <1>3, <1>4 DEF FreshApart
<1>7. StartInOrder(L)
    BY <1>2 DEF StartInOrder
<1>8. SeenInOrder
    BY <1>3 DEF SeenInOrder
<1>9. RestUnseen(L)
    BY <1>3 DEF RestUnseen
<1>10. Held
    BY <1>1, <1>4 DEF Held
<1>11. OthersApart(L)
    BY <1>1, <1>2, <1>3 DEF OthersApart
<1>12. NoneLost(L)
    <2>1. \A i \in 1 .. Len(start) : start[i] \in Rest(L)
        BY <1>2, <1>4, ElementOfSeq
    <2> QED BY <1>3, <2>1 DEF NoneLost
<1> QED BY <1>1, <1>5, <1>6, <1>7, <1>8, <1>9, <1>10, <1>11, <1>12 DEF WalkInv

LEMMA BeginNextKeeps == Begins' => WalkInvariant'
BY BeginKeeps, PTL

(* What Filled computes. *)
Fills(f, nodes, k) ==
    f = [i \in 0 .. k |->
           IF i = 0 THEN EmptyCtx ELSE PushBack(f[i - 1], Walked, nodes[i])]

LEMMA FillsExists ==
    ASSUME NEW nodes, NEW k \in Nat
    PROVE  \E f : Fills(f, nodes, k)
<1> DEFINE T == {n \in Nat : ~ \E f : Fills(f, nodes, n)}
<1>1. ASSUME T # {} PROVE FALSE
    <2>1. PICK n \in T : \A m \in T : n <= m
        BY <1>1, LeastMember
    <2>2. n # 0
        <3>1. Fills([i \in 0 .. 0 |-> EmptyCtx], nodes, 0)
            BY DEF Fills
        <3> QED BY <3>1
    <2>3. n - 1 \in Nat /\ n - 1 \notin T
        BY <2>1, <2>2
    <2>4. PICK f : Fills(f, nodes, n - 1)
        BY <2>3
    <2> DEFINE longer == [i \in 0 .. n |-> IF i = n THEN PushBack(f[n - 1], Walked, nodes[n])
                                                    ELSE f[i]]
    <2>5. \A i \in 0 .. n :
             longer[i] = IF i = 0 THEN EmptyCtx ELSE PushBack(longer[i - 1], Walked, nodes[i])
        BY <2>2, <2>4 DEF Fills
    <2>6. Fills(longer, nodes, n)
        BY <2>5 DEF Fills
    <2> QED BY <2>6
<1> QED BY <1>1

LEMMA FilledIs ==
    ASSUME NEW nodes, Len(nodes) \in Nat
    PROVE  \E f : Fills(f, nodes, Len(nodes)) /\ Filled(nodes) = f[Len(nodes)]
<1> DEFINE g == CHOOSE f : Fills(f, nodes, Len(nodes))
<1>1. Fills(g, nodes, Len(nodes))
    BY FillsExists, Zenon
<1>2. Filled(nodes) = g[Len(nodes)]
    BY DEF Filled, Fills
<1> QED BY <1>1, <1>2

(* The first k nodes, in the walked container. *)
FirstNodes(nodes, k) ==
    [c \in Container |-> IF c = Walked THEN [j \in 1 .. k |-> nodes[j]] ELSE <<>>]

LEMMA FilledInOrder ==
    ASSUME NEW nodes \in Initial
    PROVE  /\ Sound(Filled(nodes)) /\ InOrder(Filled(nodes), FirstNodes(nodes, Len(nodes)))
           /\ FirstNodes(nodes, Len(nodes))[Walked] = nodes
<1>1. /\ nodes \in Seq(Node) /\ Len(nodes) \in Nat
      /\ \A i, j \in 1 .. Len(nodes) : nodes[i] = nodes[j] => i = j
      /\ \A i \in 1 .. Len(nodes) : nodes[i] \in Node
    BY ElementOfSeq DEF IsInjective
<1>2. PICK f : Fills(f, nodes, Len(nodes)) /\ Filled(nodes) = f[Len(nodes)]
    BY <1>1, FilledIs
<1> DEFINE Good(k) ==
              /\ Sound(f[k]) /\ InOrder(f[k], FirstNodes(nodes, k))
              /\ \A m \in Node : (\A j \in 1 .. k : nodes[j] # m) => f[k].container[m] = None
           T == {k \in Nat : k <= Len(nodes) /\ ~Good(k)}
<1>3. ASSUME T # {} PROVE FALSE
    <2>1. PICK k \in T : \A m \in T : k <= m
        BY <1>3, LeastMember
    <2>2. k \in Nat /\ k <= Len(nodes) /\ ~Good(k)
        BY <2>1
    <2>3. f[k] = IF k = 0 THEN EmptyCtx ELSE PushBack(f[k - 1], Walked, nodes[k])
        BY <1>1, <1>2, <2>2 DEF Fills
    <2>4. k # 0
        <3> SUFFICES ASSUME k = 0 PROVE Good(0)
            BY <2>2
        <3>1. f[0] = EmptyCtx
            BY <2>3
        <3>2. FirstNodes(nodes, 0) = [c \in Container |-> <<>>]
            BY DEF FirstNodes
        <3>3. \A m \in Node : EmptyCtx.container[m] = None
            BY DEF EmptyCtx
        <3> QED BY <3>1, <3>2, <3>3, EmptySound, EmptyInOrder
    <2>5. k - 1 \in Nat /\ k - 1 <= Len(nodes) /\ Good(k - 1)
        <3> HIDE DEF Good
        <3>1. k - 1 \in Nat /\ k - 1 <= Len(nodes) /\ ~ k <= k - 1
            BY <1>1, <2>2, <2>4
        <3>2. k - 1 \notin T
            BY <2>1, <3>1
        <3> QED BY <3>1, <3>2
    <2> DEFINE h == f[k - 1]
               n == nodes[k]
               L == FirstNodes(nodes, k - 1)
    <2>6. /\ Sound(h) /\ InOrder(h, L) /\ n \in Node /\ k \in 1 .. Len(nodes)
          /\ \A m \in Node : (\A j \in 1 .. (k - 1) : nodes[j] # m) => h.container[m] = None
        BY <1>1, <2>2, <2>4, <2>5
    <2>7. h.container[n] = None
        <3>1. \A j \in 1 .. (k - 1) : nodes[j] # n
            BY <1>1, <2>2, <2>4, <2>6
        <3> HIDE DEF n, h
        <3> QED BY <2>6, <3>1
    <2>8. f[k] = PushBack(h, Walked, n)
        BY <2>3, <2>4
    <2> HIDE DEF h, Good
    <2>9. InOrder(f[k], [L EXCEPT ![Walked] = @ \o <<n>>])
        <3> HIDE DEF L, n
        <3>1. Walked \in Container
            OBVIOUS
        <3>2. Sound(h) /\ InOrder(h, L) /\ n \in Node
            BY <2>6
        <3>3. InOrder(PushBack(h, Walked, n), [L EXCEPT ![Walked] = @ \o <<n>>])
            BY <2>7, <3>1, <3>2, PushEnds
        <3> QED BY <2>8, <3>3
    <2>10. Sound(f[k]) /\ f[k].container = [h.container EXCEPT ![n] = Walked]
        BY <2>6, <2>7, <2>8, PushBackSound
    <2>11. [L EXCEPT ![Walked] = @ \o <<n>>] = FirstNodes(nodes, k)
        <3> DEFINE s == [j \in 1 .. (k - 1) |-> nodes[j]]
                   t == [j \in 1 .. k |-> nodes[j]]
        <3>1. s \in Seq(Node) /\ Len(s) = k - 1 /\ t \in Seq(Node) /\ Len(t) = k
            BY <1>1, <2>2, <2>5, <2>6
        <3>2. s \o <<n>> = t
            <4>1. /\ <<n>> \in Seq(Node) /\ Len(<<n>>) = 1 /\ <<n>>[1] = n
                BY <2>6
            <4>2. /\ s \o <<n>> \in Seq(Node) /\ Len(s \o <<n>>) = k
                  /\ \A j \in 1 .. k : (s \o <<n>>)[j] = IF j <= k - 1 THEN s[j] ELSE <<n>>[j - (k - 1)]
                <5> HIDE DEF s
                <5>1. /\ s \o <<n>> \in Seq(Node) /\ Len(s \o <<n>>) = Len(s) + Len(<<n>>)
                      /\ \A j \in 1 .. (Len(s) + Len(<<n>>)) : (s \o <<n>>)[j] =
                            IF j <= Len(s) THEN s[j] ELSE <<n>>[j - Len(s)]
                    BY <3>1, <4>1, ConcatProperties
                <5> QED BY <2>2, <3>1, <4>1, <5>1
            <4>3. \A j \in 1 .. k : (s \o <<n>>)[j] = t[j]
                BY <2>2, <4>1, <4>2
            <4> HIDE DEF s, t
            <4> QED BY <3>1, <4>2, <4>3, SeqEqual
        <3>3. /\ L \in [Container -> Seq(Node)] /\ L[Walked] = s
              /\ \A c \in Container : c # Walked => L[c] = <<>>
            BY <2>6 DEF FirstNodes, InOrder
        <3> HIDE DEF L, s
        <3> QED BY <3>2, <3>3 DEF FirstNodes
    <2>12. ASSUME NEW m \in Node, \A j \in 1 .. k : nodes[j] # m
           PROVE  f[k].container[m] = None
        <3>1. m # n /\ \A j \in 1 .. (k - 1) : nodes[j] # m
            BY <2>2, <2>6, <2>12
        <3>2. h.container[m] = None
            BY <2>6, <3>1
        <3>3. h.container \in [Node -> Container \cup {None}]
            BY <2>6 DEF Sound, Ctx
        <3> QED BY <2>10, <3>1, <3>2, <3>3
    <2>13. Good(k)
        BY <2>9, <2>10, <2>11, <2>12 DEF Good
    <2> QED BY <2>2, <2>13
<1>4. Good(Len(nodes))
    BY <1>1, <1>3
<1>5. FirstNodes(nodes, Len(nodes))[Walked] = nodes
    <2>1. [j \in 1 .. Len(nodes) |-> nodes[j]] = nodes
        BY <1>1
    <2> QED BY <2>1 DEF FirstNodes
<1> QED BY <1>2, <1>4, <1>5

LEMMA InitBegins == WalkInit => Begins
<1> SUFFICES ASSUME WalkInit PROVE Begins
    OBVIOUS
<1>1. PICK nodes \in Initial, s \in Strategies :
         /\ context = Filled(nodes)
         /\ cursor = NewCursor(context, s)
         /\ node = None
         /\ fresh = Node \ ToSet(nodes)
         /\ start = nodes
         /\ visited = <<>>
    BY DEF WalkInit
<1> DEFINE L == FirstNodes(nodes, Len(nodes))
<1>2. Sound(context) /\ InOrder(context, L) /\ L[Walked] = nodes
    BY <1>1, FilledInOrder
<1> HIDE DEF L
<1>3. First(context, "Forward") \in Node \cup {None}
    BY <1>2, FirstIsFirst DEF Directions
<1>4. /\ cursor \in [curr : Node \cup {None}, strategy : Strategies,
                     direction : Directions, done : {FALSE}]
      /\ cursor.direction = "Forward"
      /\ cursor.curr = IF cursor.strategy = "Pre" THEN First(context, cursor.direction) ELSE None
    BY <1>1, <1>3 DEF NewCursor, Directions
<1>5. ASSUME NEW n \in fresh PROVE context.container[n] = None
    <2>1. n \in Node /\ \A i \in 1 .. Len(nodes) : nodes[i] # n
        BY <1>1 DEF ToSet
    <2>2. ASSUME context.container[n] # None PROVE FALSE
        <3>1. context.container[n] \in Container
            BY <1>2, <2>1, <2>2 DEF Sound, Ctx
        <3>2. PICK i \in 1 .. Len(L[context.container[n]]) : L[context.container[n]][i] = n
            BY <1>2, <2>1, <2>2 DEF InOrder
        <3>3. context.container[n] # Walked
            BY <1>2, <2>1, <3>2
        <3>4. L[context.container[n]] = <<>>
            BY <3>1, <3>3 DEF L, FirstNodes
        <3> QED BY <3>2, <3>4
    <2> QED BY <2>2
<1>6. Begun(L)
    BY <1>1, <1>2, <1>4, <1>5 DEF Begun, InDirection
<1> QED BY <1>6 DEF Begins

LEMMA RevBegins == WalkInvariant /\ Rev => Begins'
<1> SUFFICES ASSUME NEW L, WalkInv(L), Rev
             PROVE  Begins'
    BY DEF WalkInvariant
<1>1. /\ Sound(context) /\ InOrder(context, L) /\ fresh \in SUBSET Node
      /\ \A n \in fresh : context.container[n] = None
      /\ cursor \in [curr : Node \cup {None}, strategy : Strategies,
                     direction : Directions, done : BOOLEAN]
    BY DEF WalkInv, WalkTypes, FreshApart
<1>2. /\ cursor' = Reversed(context, cursor)
      /\ node' = None /\ visited' = <<>>
      /\ start' = Ahead(context, cursor'.direction)
      /\ context' = context /\ fresh' = fresh
    BY DEF Rev
<1> DEFINE d == IF cursor.direction = "Forward" THEN "Backward" ELSE "Forward"
<1>3. d \in Directions
    BY DEF Directions
<1>4. First(context, d) \in Node \cup {None}
    BY <1>1, <1>3, FirstIsFirst
<1>5. cursor' = [cursor EXCEPT !.direction = d, !.done = FALSE,
                   !.curr = IF cursor.strategy = "Pre" THEN First(context, d) ELSE None]
    BY <1>2 DEF Reversed
<1> HIDE DEF d
<1>6. /\ cursor' \in [curr : Node \cup {None}, strategy : Strategies,
                      direction : Directions, done : {FALSE}]
      /\ cursor'.direction = d
      /\ cursor'.curr = IF cursor'.strategy = "Pre" THEN First(context, cursor'.direction)
                        ELSE None
    BY <1>1, <1>3, <1>4, <1>5
<1>7. start' = InDirection(L[Walked], d)
    <2>1. Walk(context.next, context.head[Walked], Cardinality(Node)) = L[Walked]
        BY <1>1, ForwardWalk
    <2> QED BY <1>2, <1>6, <2>1 DEF Ahead, InDirection
<1>8. Begun(L)'
    BY <1>1, <1>2, <1>6, <1>7 DEF Begun
<1> QED BY <1>8 DEF Begins

LEMMA WalkStep == WalkInvariant /\ [WalkNext]_walkVars => WalkInvariant'
<1> SUFFICES ASSUME WalkInvariant, [WalkNext]_walkVars PROVE WalkInvariant'
    OBVIOUS
<1>1. CASE Rev
    BY <1>1, RevBegins, BeginNextKeeps
<1>2. CASE CallNext
    BY <1>2, NextKeeps
<1>3. CASE Edit
    BY <1>3, EditKeeps
<1>4. CASE UNCHANGED walkVars
    BY <1>4 DEF walkVars, WalkInvariant, WalkInv, WalkTypes, FreshApart, StartInOrder,
                SeenInOrder, RestUnseen, Held, OthersApart, NoneLost, Stopped, Seen, Rest
<1> QED BY <1>1, <1>2, <1>3, <1>4 DEF WalkNext

LEMMA WalkHolds == WalkSpec => []WalkInvariant
BY InitBegins, BeginKeeps, WalkStep, PTL DEF WalkSpec

LEMMA SeenSet ==
    ASSUME visited \in Seq(Node), start \in Seq(Node)
    PROVE  /\ ToSet(visited) = Seen
           /\ DOMAIN visited = 1 .. Len(visited) /\ DOMAIN start = 1 .. Len(start)
           /\ ToSet(start) = {start[i] : i \in 1 .. Len(start)}
BY DEF ToSet, Seen

(* Whatever the client unlinks, no node is visited twice, and the nodes    *)
(* the list held at first are visited in their order.                      *)
THEOREM WalksInOrder == WalkSpec => []VisitsInOrder
<1>1. WalkInvariant => VisitsInOrder
    <2> SUFFICES ASSUME NEW L, WalkInv(L) PROVE VisitsInOrder
        BY DEF WalkInvariant
    <2>1. /\ visited \in Seq(Node) /\ start \in Seq(Node)
          /\ \A i, j \in 1 .. Len(visited) : visited[i] = visited[j] => i = j
          /\ \A i, j \in 1 .. Len(start) : start[i] = start[j] => i = j
          /\ \A i, j \in 1 .. Len(visited), a, b \in 1 .. Len(start) :
                i < j /\ start[a] = visited[i] /\ start[b] = visited[j] => a < b
        BY DEF WalkInv, WalkTypes, SeenInOrder, StartInOrder
    <2>2. /\ DOMAIN visited = 1 .. Len(visited) /\ DOMAIN start = 1 .. Len(start)
          /\ ToSet(start) = {start[i] : i \in 1 .. Len(start)}
        BY <2>1, SeenSet
    <2> DEFINE Index(n) == CHOOSE i \in DOMAIN start : start[i] = n
    <2>3. ASSUME NEW n \in ToSet(start)
          PROVE  Index(n) \in 1 .. Len(start) /\ start[Index(n)] = n
        <3>1. \E i \in DOMAIN start : start[i] = n
            BY <2>2
        <3> QED BY <2>2, <3>1
    <2>4. ASSUME NEW i \in DOMAIN visited, NEW j \in DOMAIN visited, i < j,
                 {visited[i], visited[j]} \subseteq ToSet(start)
          PROVE  Index(visited[i]) < Index(visited[j])
        <3> HIDE DEF Index
        <3>1. PICK a \in 1 .. Len(start) : a = Index(visited[i]) /\ start[a] = visited[i]
            BY <2>3, <2>4
        <3>2. PICK b \in 1 .. Len(start) : b = Index(visited[j]) /\ start[b] = visited[j]
            BY <2>3, <2>4
        <3>3. a < b
            BY <2>1, <2>2, <2>4, <3>1, <3>2
        <3> QED BY <3>1, <3>2, <3>3
    <2>5. IsInjective(visited)
        BY <2>1, <2>2 DEF IsInjective
    <2> HIDE DEF Index
    <2>6. \A i, j \in DOMAIN visited :
             i < j /\ {visited[i], visited[j]} \subseteq ToSet(start) =>
                Index(visited[i]) < Index(visited[j])
        BY <2>4
    <2> QED BY <2>5, <2>6 DEF VisitsInOrder, Index
<1> QED BY <1>1, WalkHolds, PTL

(* The nodes at the front of start that were visited. *)
LEMMA VisitedPrefix ==
    ASSUME NEW L, WalkInv(L), ~wild
    PROVE  \E k \in 0 .. Len(start) :
              \A i \in 1 .. Len(start) : start[i] \in Seen <=> i <= k
<1>1. /\ start \in Seq(Node) /\ Len(start) \in Nat
      /\ \A i, j \in 1 .. Len(start) : i < j /\ start[j] \in Seen => start[i] \in Seen
    BY DEF WalkInv, WalkTypes, NoneLost
<1> DEFINE T == {k \in Nat : k + 1 \in 1 .. Len(start) /\ start[k + 1] \notin Seen}
<1>2. CASE T = {}
    <2>1. ASSUME NEW i \in 1 .. Len(start) PROVE start[i] \in Seen
        <3>1. i - 1 \in Nat /\ (i - 1) + 1 = i
            BY <1>1
        <3> QED BY <1>2, <3>1
    <2> QED BY <1>1, <2>1
<1>3. CASE T # {}
    <2>1. PICK k \in T : \A l \in T : k <= l
        BY <1>3, LeastMember
    <2>2. k \in Nat /\ k + 1 \in 1 .. Len(start) /\ start[k + 1] \notin Seen
        BY <2>1
    <2>3. ASSUME NEW i \in 1 .. Len(start), i <= k PROVE start[i] \in Seen
        <3>1. i - 1 \in Nat /\ (i - 1) + 1 = i /\ ~ k <= i - 1
            BY <1>1, <2>2, <2>3
        <3> QED BY <2>1, <3>1
    <2>4. ASSUME NEW i \in 1 .. Len(start), ~ i <= k PROVE start[i] \notin Seen
        <3>1. i = k + 1 \/ k + 1 < i
            BY <1>1, <2>2, <2>4
        <3> QED BY <1>1, <2>2, <3>1
    <2>5. k \in 0 .. Len(start)
        BY <1>1, <2>2
    <2> QED BY <2>3, <2>4, <2>5
<1> QED BY <1>2, <1>3

(* A disciplined client has every node the list held at first visited,     *)
(* none left out, unless strategy Post was at a node that was taken out.   *)
THEOREM WalksMissNone == WalkSpec => []VisitsOriginals
<1>1. WalkInvariant => VisitsOriginals
    <2> SUFFICES ASSUME NEW L, WalkInv(L), ~wild PROVE VisitsOriginals
        BY DEF WalkInvariant, VisitsOriginals
    <2>1. /\ visited \in Seq(Node) /\ start \in Seq(Node) /\ Len(start) \in Nat
          /\ Held /\ NoneLost(L)
        BY DEF WalkInv, WalkTypes
    <2>2. PICK k \in 0 .. Len(start) :
             \A i \in 1 .. Len(start) : start[i] \in Seen <=> i <= k
        BY VisitedPrefix
    <2>3. /\ ToSet(visited) = Seen
          /\ ToSet(start) = {start[i] : i \in 1 .. Len(start)}
        BY <2>1, SeenSet
    <2>4. ToSet(visited) \cap ToSet(start) = {start[i] : i \in 1 .. k}
        <3>1. \A i : i \in 1 .. k <=> i \in 1 .. Len(start) /\ i <= k
            BY <2>1, <2>2
        <3>2. ASSUME NEW y \in ToSet(visited) \cap ToSet(start)
              PROVE  y \in {start[i] : i \in 1 .. k}
            <4>1. PICK i \in 1 .. Len(start) : y = start[i]
                BY <2>3, <3>2
            <4> QED BY <2>2, <2>3, <3>1, <3>2, <4>1
        <3>3. ASSUME NEW y \in {start[i] : i \in 1 .. k}
              PROVE  y \in ToSet(visited) \cap ToSet(start)
            <4>1. PICK i \in 1 .. k : y = start[i]
                BY <3>3
            <4>2. i \in 1 .. Len(start) /\ i <= k
                BY <3>1, <4>1
            <4> QED BY <2>2, <2>3, <4>1, <4>2
        <3> QED BY <3>2, <3>3
    <2>5. ASSUME cursor.done, k # Len(start)
          PROVE  Stopped
        <3>1. k + 1 \in 1 .. Len(start) /\ ~ k + 1 <= k
            BY <2>1, <2>2, <2>5
        <3>2. start[k + 1] \notin Seen /\ start[k + 1] \in Node
            BY <2>1, <2>2, <3>1, ElementOfSeq
        <3>3. cursor.curr = None
            BY <2>1, <2>5 DEF Held
        <3>4. start[k + 1] \notin Rest(L)
            BY <2>5, <3>3 DEF Rest
        <3> QED BY <2>1, <3>1, <3>2, <3>4 DEF NoneLost
    <2>6. cursor.done /\ cursor.strategy = "Pre" => k = Len(start)
        BY <2>5 DEF Stopped
    <2>7. cursor.done /\ cursor.strategy = "Post" /\ k # Len(start) =>
             visited # <<>> /\ context.container[visited[Len(visited)]] # Walked
        BY <2>5 DEF Stopped
    <2> QED BY <2>4, <2>6, <2>7 DEF VisitsOriginals
<1> QED BY <1>1, WalkHolds, PTL

(* A step that visits a node is a call of next that returns one. *)
LEMMA OnlyNextVisits ==
    ASSUME WalkInvariant, [WalkNext]_walkVars, Len(visited') > Len(visited)
    PROVE  CallNext /\ node' # None
<1>1. Len(visited) \in Nat
    BY DEF WalkInvariant, WalkInv, WalkTypes
<1>2. visited' # visited
    BY <1>1
<1>3. ~Rev
    <2> SUFFICES ASSUME Rev PROVE FALSE
        OBVIOUS
    <2>1. Len(visited') = 0
        BY DEF Rev
    <2> QED BY <1>1, <2>1
<1>4. Edit => visited' = visited
    BY DEF Edit, UnlinkGiven, MoveGiven, InsertNew, PushNew, UnlinkAny
<1>5. CallNext
    BY <1>2, <1>3, <1>4 DEF WalkNext, walkVars
<1> QED BY <1>2, <1>5 DEF CallNext

(* A disciplined client is only given nodes that are in the list, but for  *)
(* strategy Post after the node it was at was moved.                       *)
THEOREM WalksGiveLinked == WalkSpec => GivesLinked
<1>1. WalkInvariant /\ [WalkNext]_walkVars =>
         (/\ ~wild
          /\ Len(visited') > Len(visited)
          /\ cursor.strategy = "Pre" \/ node = None \/ context.container[node] # Other
          => context.container[node'] = Walked)
    <2> SUFFICES ASSUME NEW L, WalkInv(L), [WalkNext]_walkVars, ~wild,
                        Len(visited') > Len(visited),
                        cursor.strategy = "Pre" \/ node = None
                           \/ context.container[node] # Other
                 PROVE  context.container[node'] = Walked
        BY DEF WalkInvariant
    <2>1. CallNext /\ node' # None
        BY OnlyNextVisits DEF WalkInvariant
    <2>2. Held /\ cursor.strategy \in {"Pre", "Post"}
        BY DEF WalkInv, WalkTypes, Strategies
    <2>3. CASE cursor.strategy = "Pre"
        BY <2>1, <2>2, <2>3, NextPre DEF Held
    <2>4. CASE cursor.strategy = "Post"
        <3>1. IF cursor.curr = None
              THEN context.container[node'] = Walked
              ELSE /\ context.container[cursor.curr] # None
                   /\ context.container[node'] = context.container[cursor.curr]
            BY <2>1, <2>4, NextPost
        <3> QED BY <2>2, <2>4, <3>1 DEF Held
    <2> QED BY <2>2, <2>3, <2>4
<1> QED BY <1>1, WalkHolds, PTL DEF WalkSpec, GivesLinked

(* Strategy Pre returns a node that is out of the list once, as the last.  *)
THEOREM StaleIsLast == WalkSpec => StaleNodeIsLast
<1>1. WalkInvariant /\ [WalkNext]_walkVars =>
         (/\ cursor.strategy = "Pre" /\ Len(visited') > Len(visited)
          /\ context.container[node'] # Walked
          => cursor'.curr = None)
    <2> SUFFICES ASSUME NEW L, WalkInv(L), [WalkNext]_walkVars,
                        cursor.strategy = "Pre", Len(visited') > Len(visited),
                        context.container[node'] # Walked
                 PROVE  cursor'.curr = None
        BY DEF WalkInvariant
    <2>1. CallNext /\ node' # None
        BY OnlyNextVisits DEF WalkInvariant
    <2>2. node' = cursor.curr /\ cursor'.curr = Along(context, cursor.direction, node')
        BY <2>1, NextPre
    <2>3. /\ Held /\ Sound(context) /\ InOrder(context, L)
          /\ cursor.curr \in Node \cup {None} /\ cursor.direction \in Directions
        BY DEF WalkInv, WalkTypes
    <2>4. node' \in Node /\ context.container[node'] = None
        BY <2>1, <2>2, <2>3 DEF Held
    <2> QED BY <2>2, <2>3, <2>4, AlongIsNext
<1> QED BY <1>1, WalkHolds, PTL DEF WalkSpec, StaleNodeIsLast
=============================================================================
