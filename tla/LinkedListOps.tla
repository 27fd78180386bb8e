--------------------------- MODULE LinkedListOps ----------------------------
(***************************************************************************)
(* The methods of LinkedListContainer and LinkedListNode                   *)
(* (infra/linked_list.rs) as functions of the context they are given.  The *)
(* context ctx is what the accessors of the two traits read and write: the *)
(* head and tail of every container; the next, prev and container of every *)
(* node.                                                                   *)
(***************************************************************************)
EXTENDS Naturals, Sequences

CONSTANTS Node,       \* the nodes
          Container,  \* the containers
          None        \* Option::None

ASSUME NoneAssumption == None \notin Node /\ None \notin Container

Ctx == [head : [Container -> Node \cup {None}],
        tail : [Container -> Node \cup {None}],
        next : [Node -> Node \cup {None}],
        prev : [Node -> Node \cup {None}],
        container : [Node -> Container \cup {None}]]

EmptyCtx == [head |-> [c \in Container |-> None],
             tail |-> [c \in Container |-> None],
             next |-> [n \in Node |-> None],
             prev |-> [n \in Node |-> None],
             container |-> [n \in Node |-> None]]

Members(ctx, c) == {n \in Node : ctx.container[n] = c}
Linked(ctx) == {n \in Node : ctx.container[n] # None}

(* A setter called only if there is a node to call it on. *)
Set(field, n, v) == IF n = None THEN field ELSE [field EXCEPT ![n] = v]

-----------------------------------------------------------------------------
(* LinkedListError, and Ok. *)
Ok == [err |-> "Ok"]
NodeAlreadyInContainer(n) == [err |-> "NodeAlreadyInContainer", node |-> n]
PositionNodeNotInContainer(n) == [err |-> "PositionNodeNotInContainer", node |-> n]
CurrentNodeNotLinked(n) == [err |-> "CurrentNodeNotLinked", node |-> n]

(* The early returns of insert_after and insert_before on m. *)
InsertResult(ctx, m, n) ==
    IF ctx.container[m] = None THEN CurrentNodeNotLinked(m)
    ELSE IF ctx.container[n] # None THEN NodeAlreadyInContainer(n)
    ELSE Ok

(* The early return of push_front and push_back. *)
PushResult(ctx, n) ==
    IF ctx.container[n] # None THEN NodeAlreadyInContainer(n) ELSE Ok

-----------------------------------------------------------------------------
(* Mutation of InsertAfter: the tail is not updated. *)
InsertAfterKeepsTail(ctx, m, n) ==
    LET x == ctx.next[m] IN
    [ctx EXCEPT !.next = [@ EXCEPT ![n] = IF x = None THEN @ ELSE x, ![m] = n],
                !.prev = [Set(@, x, n) EXCEPT ![n] = m],
                !.container[n] = ctx.container[m]]

(* m.insert_after(n), past its early returns. *)
InsertAfter(ctx, m, n) ==
    LET x == ctx.next[m]
        c == ctx.container[m]
    IN [head |-> ctx.head,
        tail |-> [ctx.tail EXCEPT ![c] = IF @ = m THEN n ELSE @],
        next |-> [ctx.next EXCEPT ![n] = IF x = None THEN @ ELSE x, ![m] = n],
        prev |-> [Set(ctx.prev, x, n) EXCEPT ![n] = m],
        container |-> [ctx.container EXCEPT ![n] = c]]

(* Mutation of InsertBefore: the previous node keeps its old next. *)
InsertBeforeSkipsPrev(ctx, m, n) ==
    LET x == ctx.prev[m]
        c == ctx.container[m]
    IN [ctx EXCEPT !.prev = [@ EXCEPT ![n] = IF x = None THEN @ ELSE x, ![m] = n],
                   !.next = [@ EXCEPT ![n] = m],
                   !.head[c] = IF @ = m THEN n ELSE @,
                   !.container[n] = c]

(* m.insert_before(n), past its early returns. *)
InsertBefore(ctx, m, n) ==
    LET x == ctx.prev[m]
        c == ctx.container[m]
    IN [head |-> [ctx.head EXCEPT ![c] = IF @ = m THEN n ELSE @],
        tail |-> ctx.tail,
        next |-> [Set(ctx.next, x, n) EXCEPT ![n] = m],
        prev |-> [ctx.prev EXCEPT ![n] = IF x = None THEN @ ELSE x, ![m] = n],
        container |-> [ctx.container EXCEPT ![n] = c]]

(* The first node of an empty list. *)
PushOnly(ctx, c, n) == [ctx EXCEPT !.head[c] = n, !.tail[c] = n, !.container[n] = c]

(* c.push_front(n), past its early return. *)
PushFront(ctx, c, n) ==
    IF ctx.head[c] # None THEN InsertBefore(ctx, ctx.head[c], n)
                          ELSE PushOnly(ctx, c, n)

(* c.push_back(n), past its early return. *)
PushBack(ctx, c, n) ==
    IF ctx.tail[c] # None THEN InsertAfter(ctx, ctx.tail[c], n)
                          ELSE PushOnly(ctx, c, n)

(* Mutation of Unlink: the node keeps its own links. *)
UnlinkKeepsLinks(ctx, n) ==
    LET p == ctx.prev[n]
        x == ctx.next[n]
        c == ctx.container[n]
        Fix(end, new) == IF c # None /\ end[c] = n THEN [end EXCEPT ![c] = new] ELSE end
    IN [head |-> Fix(ctx.head, x),
        tail |-> Fix(ctx.tail, p),
        next |-> Set(ctx.next, p, x),
        prev |-> Set(ctx.prev, x, p),
        container |-> [ctx.container EXCEPT ![n] = None]]

(* n.unlink(). *)
Unlink(ctx, n) ==
    LET p == ctx.prev[n]
        x == ctx.next[n]
        c == ctx.container[n]
        Fix(end, new) == IF c # None /\ end[c] = n THEN [end EXCEPT ![c] = new] ELSE end
    IN [head |-> Fix(ctx.head, x),
        tail |-> Fix(ctx.tail, p),
        next |-> [Set(ctx.next, p, x) EXCEPT ![n] = None],
        prev |-> [Set(ctx.prev, x, p) EXCEPT ![n] = None],
        container |-> [ctx.container EXCEPT ![n] = None]]

-----------------------------------------------------------------------------
(***************************************************************************)
(* The shape a context is meant to have.                                   *)
(***************************************************************************)

(* LinkedListIterator: the nodes it yields from the node x on, next being  *)
(* the links it follows, for at most k calls.                              *)
Follow(next, n) == IF n = None THEN None ELSE next[n]

Walk(next, x, k) ==
    LET at[i \in 0 .. k] == IF i = 0 THEN x ELSE Follow(next, at[i - 1])
        len == CHOOSE i \in 0 .. k : /\ i = k \/ at[i] = None
                                     /\ \A j \in 0 .. (i - 1) : at[j] # None
    IN [i \in 1 .. len |-> at[i - 1]]

(* The doubly linked structure, link by link: next and prev are inverse    *)
(* within a container, the ends of a container are its nodes without a     *)
(* prev or a next, and a node that is not linked has no links.             *)
LocallyLinked(ctx) ==
    /\ \A n \in Node :
          /\ ctx.next[n] # None =>
                /\ ctx.prev[ctx.next[n]] = n
                /\ ctx.container[ctx.next[n]] = ctx.container[n]
          /\ ctx.prev[n] # None =>
                /\ ctx.next[ctx.prev[n]] = n
                /\ ctx.container[ctx.prev[n]] = ctx.container[n]
          /\ ctx.container[n] = None => ctx.next[n] = None /\ ctx.prev[n] = None
    /\ \A c \in Container, n \in Node :
          /\ ctx.head[c] = n <=> (ctx.container[n] = c /\ ctx.prev[n] = None)
          /\ ctx.tail[c] = n <=> (ctx.container[n] = c /\ ctx.next[n] = None)
    /\ \A c \in Container : ctx.head[c] = None <=> ctx.tail[c] = None
=============================================================================
