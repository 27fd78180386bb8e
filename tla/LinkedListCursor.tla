-------------------------- MODULE LinkedListCursor --------------------------
(***************************************************************************)
(* A LinkedListCursor (infra/linked_list.rs) that walks a list while the   *)
(* client edits the list between two calls of next, as the closure of      *)
(* for_each does.  A disciplined client edits the list around the node it  *)
(* was just given: it unlinks it or moves it to another container, inserts *)
(* new nodes next to it, or pushes new nodes to the back; a wild client    *)
(* also unlinks nodes it was not given.                                    *)
(***************************************************************************)
EXTENDS LinkedListOps, FiniteSets, SequencesExt

CONSTANTS Walked,   \* the container the cursor walks
          Other,    \* the container nodes are moved to
          Initial   \* the nodes Walked holds at first: a set of sequences

(* A list holds a node once, and a node that is moved leaves the list.      *)
ASSUME CursorAssumption ==
    /\ IsFiniteSet(Node)
    /\ {Walked, Other} \subseteq Container /\ Walked # Other
    /\ \A nodes \in Initial : nodes \in Seq(Node) /\ IsInjective(nodes)

VARIABLES context,  \* the context: see LinkedListOps
          cursor,   \* the cursor
          node,     \* what next returned last
          fresh,    \* history: the nodes that have not been in a list
          start,    \* history: what the cursor had before it, at first
          visited,  \* history: the nodes next has returned, in order
          wild      \* history: has the client unlinked a node it was not given?

walkVars == <<context, cursor, node, fresh, start, visited, wild>>

Strategies == {"Pre", "Post"}

-----------------------------------------------------------------------------
(* The first node in a direction, and the one after n. *)
First(h, d) == IF d = "Forward" THEN h.head[Walked] ELSE h.tail[Walked]
Along(h, d, n) == IF d = "Forward" THEN h.next[n] ELSE h.prev[n]

(* LinkedListContainer::cursor, LinkedListCursor::new: always forward. *)
NewCursor(h, s) ==
    [curr |-> IF s = "Pre" THEN First(h, "Forward") ELSE None,
     strategy |-> s, direction |-> "Forward", done |-> FALSE]

(* Mutation of Reversed: the done flag is not cleared. *)
ReversedStillDone(h, k) ==
    LET d == IF k.direction = "Forward" THEN "Backward" ELSE "Forward"
    IN [k EXCEPT !.direction = d,
                 !.curr = IF k.strategy = "Pre" THEN First(h, d) ELSE None]

(* rev. *)
Reversed(h, k) ==
    LET d == IF k.direction = "Forward" THEN "Backward" ELSE "Forward"
    IN [k EXCEPT !.direction = d,
                 !.done = FALSE,
                 !.curr = IF k.strategy = "Pre" THEN First(h, d) ELSE None]

(* Mutation of AdvancePre: the node after curr is not fetched. *)
AdvancePreStays(h, k) ==
    IF k.curr = None THEN [k EXCEPT !.done = TRUE] ELSE k

(* Mutation of AdvancePre: the end of the list is not noted. *)
AdvancePreNotDone(h, k) ==
    IF k.curr = None THEN k
    ELSE [k EXCEPT !.curr = Along(h, k.direction, k.curr)]

(* Mutation of AdvancePre: a node without a successor leads to the first. *)
AdvancePreWraps(h, k) ==
    IF k.curr = None THEN [k EXCEPT !.done = TRUE]
    ELSE IF Along(h, k.direction, k.curr) = None
    THEN [k EXCEPT !.curr = First(h, k.direction)]
    ELSE [k EXCEPT !.curr = Along(h, k.direction, k.curr)]

(* next with strategy Pre: curr is returned, and the node after it is      *)
(* fetched; at the end, done is set.                                       *)
AdvancePre(h, k) ==
    IF k.curr = None THEN [k EXCEPT !.done = TRUE]
    ELSE [k EXCEPT !.curr = Along(h, k.direction, k.curr)]

(* next with strategy Post: the node after curr, or the first one, is      *)
(* fetched and returned; done is set if there is none, and stays set.      *)
AdvancePost(h, k) ==
    LET n == IF k.curr # None THEN Along(h, k.direction, k.curr)
             ELSE IF k.done THEN None
             ELSE First(h, k.direction)
    IN [k EXCEPT !.curr = n, !.done = (n = None)]

-----------------------------------------------------------------------------
Filled(nodes) ==
    LET filled[i \in 0 .. Len(nodes)] ==
           IF i = 0 THEN EmptyCtx ELSE PushBack(filled[i - 1], Walked, nodes[i])
    IN filled[Len(nodes)]

(* What a cursor of direction d has before it. *)
Ahead(h, d) ==
    LET list == Walk(h.next, h.head[Walked], Cardinality(Node))
    IN IF d = "Forward" THEN list ELSE Reverse(list)

WalkInit == \E nodes \in Initial, s \in Strategies :
           /\ context = Filled(nodes)
           /\ cursor = NewCursor(context, s)
           /\ node = None
           /\ fresh = Node \ ToSet(nodes)
           /\ start = nodes
           /\ visited = <<>>
           /\ wild = FALSE

(* The client turns the cursor around, which starts the walk anew. *)
Rev ==
    /\ cursor' = Reversed(context, cursor)
    /\ node' = None
    /\ start' = Ahead(context, cursor'.direction)
    /\ visited' = <<>>
    /\ UNCHANGED <<context, fresh, wild>>

CallNext ==
    /\ cursor' = IF cursor.strategy = "Pre" THEN AdvancePre(context, cursor)
                 ELSE AdvancePost(context, cursor)
    /\ node' = IF cursor.strategy = "Pre" THEN cursor.curr ELSE cursor'.curr
    /\ visited' = IF node' = None THEN visited ELSE Append(visited, node')
    /\ UNCHANGED <<context, fresh, start, wild>>

-----------------------------------------------------------------------------
(* What the client does with the node it was given. *)

Given == node # None /\ context.container[node] = Walked

UnlinkGiven ==
    /\ Given
    /\ context' = Unlink(context, node)
    /\ UNCHANGED <<cursor, node, fresh, start, visited, wild>>

MoveGiven ==
    /\ Given
    /\ context' = PushBack(Unlink(context, node), Other, node)
    /\ UNCHANGED <<cursor, node, fresh, start, visited, wild>>

InsertNew(n) ==
    /\ Given
    /\ n \in fresh
    /\ context' \in {InsertAfter(context, node, n), InsertBefore(context, node, n)}
    /\ fresh' = fresh \ {n}
    /\ UNCHANGED <<cursor, node, start, visited, wild>>

PushNew(n) ==
    /\ n \in fresh
    /\ context' = PushBack(context, Walked, n)
    /\ fresh' = fresh \ {n}
    /\ UNCHANGED <<cursor, node, start, visited, wild>>

UnlinkAny(n) ==
    /\ context.container[n] = Walked /\ n # node
    /\ context' = Unlink(context, n)
    /\ wild' = TRUE
    /\ UNCHANGED <<cursor, node, fresh, start, visited>>

Edit == \/ UnlinkGiven \/ MoveGiven
        \/ \E n \in Node : InsertNew(n) \/ PushNew(n) \/ UnlinkAny(n)

WalkNext == Rev \/ CallNext \/ Edit

(* Whoever walks a list calls next until it returns None, as for_each does. *)
WalkSpec == WalkInit /\ [][WalkNext]_walkVars /\ WF_walkVars(CallNext)

-----------------------------------------------------------------------------
(* Of the nodes the list held when the walk began, those visited are the   *)
(* first k, whatever a disciplined client does to the node it was given    *)
(* (that they are visited in their order and once is VisitsInOrder); if    *)
(* the walk ends none was left out.  Only strategy Post stops early, and   *)
(* only because the node it was at was taken out of the list.              *)
VisitsOriginals ==
    ~wild =>
       \E k \in 0 .. Len(start) :
          /\ ToSet(visited) \cap ToSet(start) = {start[i] : i \in 1 .. k}
          /\ cursor.done /\ cursor.strategy = "Pre" => k = Len(start)
          /\ cursor.done /\ cursor.strategy = "Post" /\ k # Len(start) =>
                /\ visited # <<>>
                /\ context.container[visited[Len(visited)]] # Walked

(* A disciplined client is only given nodes that are in the list.  The one *)
(* exception is strategy Post after the client moved the node it was given *)
(* to another container: the cursor then walks on in that container.       *)
GivesLinked ==
    [][/\ ~wild
       /\ Len(visited') > Len(visited)
       /\ cursor.strategy = "Pre" \/ node = None \/ context.container[node] # Other
       => context.container[node'] = Walked]_walkVars

(* Whatever the client unlinks, no node is visited twice and the nodes of  *)
(* the list are visited in order.                                          *)
VisitsInOrder ==
    LET Index(n) == CHOOSE i \in DOMAIN start : start[i] = n IN
    /\ IsInjective(visited)
    /\ \A i, j \in DOMAIN visited :
          i < j /\ {visited[i], visited[j]} \subseteq ToSet(start) =>
             Index(visited[i]) < Index(visited[j])

(* Strategy Pre holds the next node while the client runs.  If the client  *)
(* unlinks that one, the cursor still returns it, once, and then stops: it *)
(* never goes on from a node that is out of the list.                      *)
StaleNodeIsLast ==
    [][/\ cursor.strategy = "Pre" /\ Len(visited') > Len(visited)
       /\ context.container[node'] # Walked
       => cursor'.curr = None]_walkVars

(* A walk that is not turned around for ever ends (for_each never turns    *)
(* its cursor), even though the client pushes nodes while it runs.         *)
ForEachEnds == []<><<Rev>>_walkVars \/ <>(cursor.done)
=============================================================================
