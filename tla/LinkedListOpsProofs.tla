------------------------- MODULE LinkedListOpsProofs -------------------------
(***************************************************************************)
(* The doubly linked structure of infra/linked_list.rs, for any nodes and  *)
(* containers: every method keeps it, given a well-formed context.  Links  *)
(* that are inverse to one another could still lead in a circle: that they *)
(* never do is shown with a rank that grows along next.                    *)
(***************************************************************************)
EXTENDS LinkedListOps, Integers, SequenceTheorems, WellFoundedInduction, TLAPS

USE NoneAssumption DEF NoneAssumption

(* A well-formed context: well-typed, and linked in both directions. *)
Sound(h) == h \in Ctx /\ LocallyLinked(h)

-----------------------------------------------------------------------------
(* The methods. *)

LEMMA EmptySound == Sound(EmptyCtx)
BY DEF Sound, Ctx, EmptyCtx, LocallyLinked

(* The fields after n.unlink(). *)
LEMMA UnlinkFields ==
    ASSUME NEW h, Sound(h), NEW n \in Node
    PROVE  LET g == Unlink(h, n) IN
           /\ g \in Ctx
           /\ \A m \in Node : g.next[m] = IF m = n THEN None
                                          ELSE IF m = h.prev[n] THEN h.next[n]
                                          ELSE h.next[m]
           /\ \A m \in Node : g.prev[m] = IF m = n THEN None
                                          ELSE IF m = h.next[n] THEN h.prev[n]
                                          ELSE h.prev[m]
           /\ \A m \in Node : g.container[m] = IF m = n THEN None ELSE h.container[m]
           /\ \A c \in Container :
                 /\ g.head[c] = IF h.head[c] = n THEN h.next[n] ELSE h.head[c]
                 /\ g.tail[c] = IF h.tail[c] = n THEN h.prev[n] ELSE h.tail[c]
<1> DEFINE g == Unlink(h, n)
           c == h.container[n]
<1> USE DEF Sound, Ctx
<1>1. /\ g.next = [Set(h.next, h.prev[n], h.next[n]) EXCEPT ![n] = None]
      /\ g.prev = [Set(h.prev, h.next[n], h.prev[n]) EXCEPT ![n] = None]
      /\ g.container = [h.container EXCEPT ![n] = None]
      /\ g.head = IF c # None /\ h.head[c] = n THEN [h.head EXCEPT ![c] = h.next[n]] ELSE h.head
      /\ g.tail = IF c # None /\ h.tail[c] = n THEN [h.tail EXCEPT ![c] = h.prev[n]] ELSE h.tail
      /\ g = [head |-> g.head, tail |-> g.tail, next |-> g.next, prev |-> g.prev,
              container |-> g.container]
    BY DEF Unlink
<1>2. \A k \in Container : (h.head[k] = n => k = c) /\ (h.tail[k] = n => k = c)
    BY DEF LocallyLinked
<1>3. /\ h.prev[n] \in Node \cup {None} /\ h.next[n] \in Node \cup {None}
      /\ h.next \in [Node -> Node \cup {None}] /\ h.prev \in [Node -> Node \cup {None}]
    OBVIOUS
<1> HIDE DEF g, Sound
<1>4. /\ g.next \in [Node -> Node \cup {None}]
      /\ \A m \in Node : g.next[m] = IF m = n THEN None
                                     ELSE IF m = h.prev[n] THEN h.next[n]
                                     ELSE h.next[m]
    <2> DEFINE f == Set(h.next, h.prev[n], h.next[n])
    <2>1. /\ f \in [Node -> Node \cup {None}]
          /\ \A m \in Node : f[m] = IF m = h.prev[n] THEN h.next[n] ELSE h.next[m]
        BY <1>3 DEF Set
    <2>2. g.next = [f EXCEPT ![n] = None]
        BY <1>1
    <2> HIDE DEF f
    <2> QED BY <2>1, <2>2
<1>5. /\ g.prev \in [Node -> Node \cup {None}]
      /\ \A m \in Node : g.prev[m] = IF m = n THEN None
                                     ELSE IF m = h.next[n] THEN h.prev[n]
                                     ELSE h.prev[m]
    <2> DEFINE f == Set(h.prev, h.next[n], h.prev[n])
    <2>1. /\ f \in [Node -> Node \cup {None}]
          /\ \A m \in Node : f[m] = IF m = h.next[n] THEN h.prev[n] ELSE h.prev[m]
        BY <1>3 DEF Set
    <2>2. g.prev = [f EXCEPT ![n] = None]
        BY <1>1
    <2> HIDE DEF f
    <2> QED BY <2>1, <2>2
<1>6. /\ g.head \in [Container -> Node \cup {None}]
      /\ g.tail \in [Container -> Node \cup {None}]
      /\ \A k \in Container :
            /\ g.head[k] = IF h.head[k] = n THEN h.next[n] ELSE h.head[k]
            /\ g.tail[k] = IF h.tail[k] = n THEN h.prev[n] ELSE h.tail[k]
    BY <1>1, <1>2, <1>3 DEF Sound
<1>7. /\ g.container \in [Node -> Container \cup {None}]
      /\ \A m \in Node : g.container[m] = IF m = n THEN None ELSE h.container[m]
    BY <1>1 DEF Sound
<1>8. g \in Ctx
    BY <1>1, <1>4, <1>5, <1>6, <1>7
<1> QED BY <1>4, <1>5, <1>6, <1>7, <1>8 DEF g

LEMMA UnlinkSound ==
    ASSUME NEW h, Sound(h), NEW n \in Node
    PROVE  Sound(Unlink(h, n)) /\ Unlink(h, n).container[n] = None
<1> DEFINE g == Unlink(h, n)
<1>1. g \in Ctx /\ h \in Ctx /\ LocallyLinked(h)
    BY UnlinkFields DEF Sound
<1>2. \A m \in Node : /\ h.next[m] \in Node \cup {None}
                      /\ h.prev[m] \in Node \cup {None}
                      /\ h.container[m] \in Container \cup {None}
    BY <1>1 DEF Ctx
<1>3. \A m \in Node : /\ g.next[m] = IF m = n THEN None
                                     ELSE IF m = h.prev[n] THEN h.next[n]
                                     ELSE h.next[m]
                      /\ g.prev[m] = IF m = n THEN None
                                     ELSE IF m = h.next[n] THEN h.prev[n]
                                     ELSE h.prev[m]
                      /\ g.container[m] = IF m = n THEN None ELSE h.container[m]
    BY UnlinkFields
<1>4. \A c \in Container :
          /\ g.head[c] = IF h.head[c] = n THEN h.next[n] ELSE h.head[c]
          /\ g.tail[c] = IF h.tail[c] = n THEN h.prev[n] ELSE h.tail[c]
    BY UnlinkFields
<1> HIDE DEF g
<1>5. ASSUME NEW m \in Node
      PROVE  /\ g.next[m] # None => /\ g.prev[g.next[m]] = m
                                    /\ g.container[g.next[m]] = g.container[m]
             /\ g.prev[m] # None => /\ g.next[g.prev[m]] = m
                                    /\ g.container[g.prev[m]] = g.container[m]
             /\ g.container[m] = None => g.next[m] = None /\ g.prev[m] = None
    <2>1. g.next[m] # None => /\ g.prev[g.next[m]] = m
                              /\ g.container[g.next[m]] = g.container[m]
        BY <1>1, <1>2, <1>3 DEF LocallyLinked
    <2>2. g.prev[m] # None => /\ g.next[g.prev[m]] = m
                              /\ g.container[g.prev[m]] = g.container[m]
        BY <1>1, <1>2, <1>3 DEF LocallyLinked
    <2>3. g.container[m] = None => g.next[m] = None /\ g.prev[m] = None
        BY <1>1, <1>2, <1>3 DEF LocallyLinked
    <2> QED BY <2>1, <2>2, <2>3
<1>6. ASSUME NEW c \in Container, NEW m \in Node
      PROVE  /\ g.head[c] = m <=> (g.container[m] = c /\ g.prev[m] = None)
             /\ g.tail[c] = m <=> (g.container[m] = c /\ g.next[m] = None)
    <2>1. g.head[c] = m <=> (g.container[m] = c /\ g.prev[m] = None)
        BY <1>1, <1>2, <1>3, <1>4 DEF LocallyLinked
    <2>2. g.tail[c] = m <=> (g.container[m] = c /\ g.next[m] = None)
        BY <1>1, <1>2, <1>3, <1>4 DEF LocallyLinked
    <2> QED BY <2>1, <2>2
<1>7. ASSUME NEW c \in Container
      PROVE  g.head[c] = None <=> g.tail[c] = None
    BY <1>1, <1>2, <1>4 DEF LocallyLinked
<1>8. LocallyLinked(g)
    BY <1>5, <1>6, <1>7 DEF LocallyLinked
<1> QED BY <1>1, <1>3, <1>8 DEF Sound, g

(* m.insert_after(n), for a linked m and an unlinked n. *)
LEMMA InsertAfterSound ==
    ASSUME NEW h, Sound(h), NEW m \in Node, NEW n \in Node,
           h.container[m] # None, h.container[n] = None
    PROVE  LET g == InsertAfter(h, m, n) IN
           /\ Sound(g)
           /\ g.container = [h.container EXCEPT ![n] = h.container[m]]
<1> DEFINE g == InsertAfter(h, m, n)
           x == h.next[m]
           c == h.container[m]
<1>1. h \in Ctx /\ LocallyLinked(h) /\ m # n
    BY DEF Sound
<1>2. \A k \in Node : /\ h.next[k] \in Node \cup {None}
                      /\ h.prev[k] \in Node \cup {None}
                      /\ h.container[k] \in Container \cup {None}
    BY <1>1 DEF Ctx
<1>3. c \in Container /\ x # n /\ h.next[n] = None /\ h.prev[n] = None
    BY <1>1, <1>2 DEF LocallyLinked
<1>4. /\ g.next = [h.next EXCEPT ![n] = IF x = None THEN @ ELSE x, ![m] = n]
      /\ g.prev = [Set(h.prev, x, n) EXCEPT ![n] = m]
      /\ g.tail = [h.tail EXCEPT ![c] = IF @ = m THEN n ELSE @]
      /\ g.head = h.head
      /\ g.container = [h.container EXCEPT ![n] = c]
      /\ g = [head |-> g.head, tail |-> g.tail, next |-> g.next, prev |-> g.prev,
              container |-> g.container]
    BY <1>1 DEF InsertAfter, Ctx
<1>5. x = None <=> h.tail[c] = m
    BY <1>1, <1>3 DEF LocallyLinked
<1> HIDE DEF g
<1>6. /\ g.next \in [Node -> Node \cup {None}]
      /\ \A k \in Node : g.next[k] = IF k = m THEN n
                                     ELSE IF k = n THEN x
                                     ELSE h.next[k]
    BY <1>1, <1>2, <1>3, <1>4 DEF Ctx
<1>7. /\ g.prev \in [Node -> Node \cup {None}]
      /\ \A k \in Node : g.prev[k] = IF k = n THEN m
                                     ELSE IF k = x THEN n
                                     ELSE h.prev[k]
    <2> DEFINE f == Set(h.prev, x, n)
    <2>1. /\ f \in [Node -> Node \cup {None}]
          /\ \A k \in Node : f[k] = IF k = x THEN n ELSE h.prev[k]
        BY <1>1, <1>2 DEF Set, Ctx
    <2>2. g.prev = [f EXCEPT ![n] = m]
        BY <1>4
    <2> HIDE DEF f
    <2> QED BY <2>1, <2>2
<1>8. /\ g.tail \in [Container -> Node \cup {None}]
      /\ \A k \in Container : g.tail[k] = IF k = c /\ x = None THEN n ELSE h.tail[k]
      /\ g.head \in [Container -> Node \cup {None}]
      /\ g.container \in [Node -> Container \cup {None}]
      /\ \A k \in Node : g.container[k] = IF k = n THEN c ELSE h.container[k]
    BY <1>1, <1>3, <1>4, <1>5 DEF Ctx
<1>9. g \in Ctx
    BY <1>4, <1>6, <1>7, <1>8 DEF Ctx
<1> HIDE DEF x
<1>x. x = h.next[m]
    BY DEF x
<1> HIDE DEF c
<1>c. c = h.container[m]
    BY DEF c
<1>10. ASSUME NEW k \in Node
       PROVE  /\ g.next[k] # None => /\ g.prev[g.next[k]] = k
                                     /\ g.container[g.next[k]] = g.container[k]
              /\ g.prev[k] # None => /\ g.next[g.prev[k]] = k
                                     /\ g.container[g.prev[k]] = g.container[k]
              /\ g.container[k] = None => g.next[k] = None /\ g.prev[k] = None
    BY <1>1, <1>2, <1>3, <1>6, <1>7, <1>8, <1>x, <1>c DEF LocallyLinked
<1>11. ASSUME NEW e \in Container, NEW k \in Node
       PROVE  /\ g.head[e] = k <=> (g.container[k] = e /\ g.prev[k] = None)
              /\ g.tail[e] = k <=> (g.container[k] = e /\ g.next[k] = None)
    BY <1>1, <1>2, <1>3, <1>4, <1>6, <1>7, <1>8, <1>x, <1>c DEF LocallyLinked
<1>12. ASSUME NEW e \in Container
       PROVE  g.head[e] = None <=> g.tail[e] = None
    BY <1>1, <1>2, <1>3, <1>4, <1>5, <1>8 DEF LocallyLinked
<1>13. LocallyLinked(g)
    BY <1>10, <1>11, <1>12 DEF LocallyLinked
<1> QED BY <1>4, <1>9, <1>13 DEF Sound, g, c

(* m.insert_before(n), for a linked m and an unlinked n. *)
LEMMA InsertBeforeSound ==
    ASSUME NEW h, Sound(h), NEW m \in Node, NEW n \in Node,
           h.container[m] # None, h.container[n] = None
    PROVE  LET g == InsertBefore(h, m, n) IN
           /\ Sound(g)
           /\ g.container = [h.container EXCEPT ![n] = h.container[m]]
<1> DEFINE g == InsertBefore(h, m, n)
           x == h.prev[m]
           c == h.container[m]
<1>1. h \in Ctx /\ LocallyLinked(h) /\ m # n
    BY DEF Sound
<1>2. \A k \in Node : /\ h.next[k] \in Node \cup {None}
                      /\ h.prev[k] \in Node \cup {None}
                      /\ h.container[k] \in Container \cup {None}
    BY <1>1 DEF Ctx
<1>3. c \in Container /\ x # n /\ h.next[n] = None /\ h.prev[n] = None
    BY <1>1, <1>2 DEF LocallyLinked
<1>4. /\ g.prev = [h.prev EXCEPT ![n] = IF x = None THEN @ ELSE x, ![m] = n]
      /\ g.next = [Set(h.next, x, n) EXCEPT ![n] = m]
      /\ g.head = [h.head EXCEPT ![c] = IF @ = m THEN n ELSE @]
      /\ g.tail = h.tail
      /\ g.container = [h.container EXCEPT ![n] = c]
      /\ g = [head |-> g.head, tail |-> g.tail, next |-> g.next, prev |-> g.prev,
              container |-> g.container]
    BY <1>1 DEF InsertBefore, Ctx
<1>5. x = None <=> h.head[c] = m
    BY <1>1, <1>3 DEF LocallyLinked
<1> HIDE DEF g
<1>6. /\ g.prev \in [Node -> Node \cup {None}]
      /\ \A k \in Node : g.prev[k] = IF k = m THEN n
                                     ELSE IF k = n THEN x
                                     ELSE h.prev[k]
    BY <1>1, <1>2, <1>3, <1>4 DEF Ctx
<1>7. /\ g.next \in [Node -> Node \cup {None}]
      /\ \A k \in Node : g.next[k] = IF k = n THEN m
                                     ELSE IF k = x THEN n
                                     ELSE h.next[k]
    <2> DEFINE f == Set(h.next, x, n)
    <2>1. /\ f \in [Node -> Node \cup {None}]
          /\ \A k \in Node : f[k] = IF k = x THEN n ELSE h.next[k]
        BY <1>1, <1>2 DEF Set, Ctx
    <2>2. g.next = [f EXCEPT ![n] = m]
        BY <1>4
    <2> HIDE DEF f
    <2> QED BY <2>1, <2>2
<1>8. /\ g.head \in [Container -> Node \cup {None}]
      /\ \A k \in Container : g.head[k] = IF k = c /\ x = None THEN n ELSE h.head[k]
      /\ g.tail \in [Container -> Node \cup {None}]
      /\ g.container \in [Node -> Container \cup {None}]
      /\ \A k \in Node : g.container[k] = IF k = n THEN c ELSE h.container[k]
    BY <1>1, <1>3, <1>4, <1>5 DEF Ctx
<1>9. g \in Ctx
    BY <1>4, <1>6, <1>7, <1>8 DEF Ctx
<1> HIDE DEF x
<1>x. x = h.prev[m]
    BY DEF x
<1> HIDE DEF c
<1>c. c = h.container[m]
    BY DEF c
<1>10. ASSUME NEW k \in Node
       PROVE  /\ g.next[k] # None => /\ g.prev[g.next[k]] = k
                                     /\ g.container[g.next[k]] = g.container[k]
              /\ g.prev[k] # None => /\ g.next[g.prev[k]] = k
                                     /\ g.container[g.prev[k]] = g.container[k]
              /\ g.container[k] = None => g.next[k] = None /\ g.prev[k] = None
    BY <1>1, <1>2, <1>3, <1>6, <1>7, <1>8, <1>x, <1>c DEF LocallyLinked
<1>11. ASSUME NEW e \in Container, NEW k \in Node
       PROVE  /\ g.head[e] = k <=> (g.container[k] = e /\ g.prev[k] = None)
              /\ g.tail[e] = k <=> (g.container[k] = e /\ g.next[k] = None)
    BY <1>1, <1>2, <1>3, <1>4, <1>6, <1>7, <1>8, <1>x, <1>c DEF LocallyLinked
<1>12. ASSUME NEW e \in Container
       PROVE  g.head[e] = None <=> g.tail[e] = None
    BY <1>1, <1>2, <1>3, <1>4, <1>5, <1>8 DEF LocallyLinked
<1>13. LocallyLinked(g)
    BY <1>10, <1>11, <1>12 DEF LocallyLinked
<1> QED BY <1>4, <1>9, <1>13 DEF Sound, g, c

(* The first node of an empty container. *)
LEMMA PushOnlySound ==
    ASSUME NEW h, Sound(h), NEW c \in Container, NEW n \in Node,
           h.container[n] = None, h.head[c] = None, h.tail[c] = None
    PROVE  LET g == PushOnly(h, c, n) IN
           Sound(g) /\ g.container = [h.container EXCEPT ![n] = c]
<1> DEFINE g == PushOnly(h, c, n)
<1>1. h \in Ctx /\ LocallyLinked(h)
    BY DEF Sound
<1>2. /\ g.next = h.next /\ g.prev = h.prev
      /\ g.head = [h.head EXCEPT ![c] = n]
      /\ g.tail = [h.tail EXCEPT ![c] = n]
      /\ g.container = [h.container EXCEPT ![n] = c]
    BY <1>1 DEF PushOnly, Ctx
<1>3. g \in Ctx
    BY <1>1 DEF PushOnly, Ctx
<1> HIDE DEF g
<1>4. LocallyLinked(g)
    BY <1>1, <1>2 DEF LocallyLinked, Ctx
<1> QED BY <1>2, <1>3, <1>4 DEF Sound, g

(* c.push_front(n), for an unlinked n. *)
LEMMA PushFrontSound ==
    ASSUME NEW h, Sound(h), NEW c \in Container, NEW n \in Node,
           h.container[n] = None
    PROVE  LET g == PushFront(h, c, n) IN
           Sound(g) /\ g.container = [h.container EXCEPT ![n] = c]
<1>1. CASE h.head[c] # None
    <2>1. h.head[c] \in Node /\ h.container[h.head[c]] = c
        BY <1>1 DEF Sound, Ctx, LocallyLinked
    <2>2. PushFront(h, c, n) = InsertBefore(h, h.head[c], n)
        BY <1>1 DEF PushFront
    <2> QED BY <2>1, <2>2, InsertBeforeSound
<1>2. CASE h.head[c] = None
    <2>1. h.head[c] = None /\ h.tail[c] = None
        BY <1>2 DEF Sound, LocallyLinked
    <2>2. PushFront(h, c, n) = PushOnly(h, c, n)
        BY <1>2 DEF PushFront
    <2> QED BY <2>1, <2>2, PushOnlySound
<1> QED BY <1>1, <1>2

(* c.push_back(n), for an unlinked n. *)
LEMMA PushBackSound ==
    ASSUME NEW h, Sound(h), NEW c \in Container, NEW n \in Node,
           h.container[n] = None
    PROVE  LET g == PushBack(h, c, n) IN
           Sound(g) /\ g.container = [h.container EXCEPT ![n] = c]
<1>1. CASE h.tail[c] # None
    <2>1. h.tail[c] \in Node /\ h.container[h.tail[c]] = c
        BY <1>1 DEF Sound, Ctx, LocallyLinked
    <2>2. PushBack(h, c, n) = InsertAfter(h, h.tail[c], n)
        BY <1>1 DEF PushBack
    <2> QED BY <2>1, <2>2, InsertAfterSound
<1>2. CASE h.tail[c] = None
    <2>1. h.head[c] = None /\ h.tail[c] = None
        BY <1>2 DEF Sound, LocallyLinked
    <2>2. PushBack(h, c, n) = PushOnly(h, c, n)
        BY <1>2 DEF PushBack
    <2> QED BY <2>1, <2>2, PushOnlySound
<1> QED BY <1>1, <1>2

-----------------------------------------------------------------------------
(* A rank that grows along next: no walk meets a node twice. *)
Ranked(h, f) == /\ f \in [Node -> Int]
                /\ \A n \in Node : h.next[n] # None => f[n] < f[h.next[n]]

Ordered(h) == \E f : Ranked(h, f)

LEMMA EmptyOrdered == Ordered(EmptyCtx)
<1>1. Ranked(EmptyCtx, [n \in Node |-> 0])
    BY DEF Ranked, EmptyCtx
<1> QED BY <1>1 DEF Ordered

LEMMA UnlinkOrdered ==
    ASSUME NEW h, Sound(h), Ordered(h), NEW n \in Node
    PROVE  Ordered(Unlink(h, n))
<1> DEFINE g == Unlink(h, n)
<1>1. PICK f : Ranked(h, f)
    BY DEF Ordered
<1>2. \A m \in Node : g.next[m] = IF m = n THEN None
                                 ELSE IF m = h.prev[n] THEN h.next[n]
                                 ELSE h.next[m]
    BY UnlinkFields
<1>3. \A m \in Node : /\ h.next[m] \in Node \cup {None}
                      /\ m = h.prev[n] => h.next[m] = n
    BY DEF Sound, Ctx, LocallyLinked
<1> HIDE DEF g
<1>4. Ranked(g, f)
    BY <1>1, <1>2, <1>3 DEF Ranked
<1> QED BY <1>4 DEF Ordered, g

(* The fields next after the insertions. *)
LEMMA InsertNext ==
    ASSUME NEW h, Sound(h), NEW m \in Node, NEW n \in Node,
           h.container[m] # None, h.container[n] = None
    PROVE  /\ \A k \in Node : InsertAfter(h, m, n).next[k] =
                 IF k = m THEN n ELSE IF k = n THEN h.next[m] ELSE h.next[k]
           /\ \A k \in Node : InsertBefore(h, m, n).next[k] =
                 IF k = n THEN m ELSE IF k = h.prev[m] THEN n ELSE h.next[k]
<1>1. /\ h.next \in [Node -> Node \cup {None}] /\ h.prev[m] \in Node \cup {None}
      /\ h.next[n] = None /\ m # n
    BY DEF Sound, Ctx, LocallyLinked
<1>2. /\ InsertAfter(h, m, n).next
             = [h.next EXCEPT ![n] = IF h.next[m] = None THEN @ ELSE h.next[m], ![m] = n]
      /\ InsertBefore(h, m, n).next = [Set(h.next, h.prev[m], n) EXCEPT ![n] = m]
    BY DEF InsertAfter, InsertBefore
<1> QED BY <1>1, <1>2 DEF Set

LEMMA InsertAfterOrdered ==
    ASSUME NEW h, Sound(h), Ordered(h), NEW m \in Node, NEW n \in Node,
           h.container[m] # None, h.container[n] = None
    PROVE  Ordered(InsertAfter(h, m, n))
<1>1. PICK f : Ranked(h, f)
    BY DEF Ordered
<1> DEFINE g == InsertAfter(h, m, n)
           r == [k \in Node |-> IF k = n THEN f[m] + 1
                                ELSE IF f[k] > f[m] THEN f[k] + 1 ELSE f[k]]
<1>2. \A k \in Node : g.next[k] = IF k = m THEN n ELSE IF k = n THEN h.next[m] ELSE h.next[k]
    BY InsertNext
<1>3. \A k \in Node : h.next[k] \in Node \cup {None} /\ h.next[k] # n
    BY DEF Sound, Ctx, LocallyLinked
<1>4. f \in [Node -> Int] /\ r \in [Node -> Int]
    BY <1>1 DEF Ranked
<1> HIDE DEF g
<1>5. ASSUME NEW k \in Node, g.next[k] # None
      PROVE  r[k] < r[g.next[k]]
    <2>1. h.next[m] # None => f[m] < f[h.next[m]]
        BY <1>1 DEF Ranked
    <2>2. h.next[k] # None => f[k] < f[h.next[k]]
        BY <1>1 DEF Ranked
    <2>3. m # n
        OBVIOUS
    <2>4. CASE k = m
        BY <1>2, <1>4, <2>3, <2>4
    <2>5. CASE k = n
        <3>1. g.next[k] = h.next[m] /\ h.next[m] \in Node /\ h.next[m] # n
            BY <1>2, <1>3, <1>5, <2>3, <2>5
        <3> QED BY <1>4, <2>1, <2>5, <3>1
    <2>6. CASE k # m /\ k # n
        <3>1. g.next[k] = h.next[k] /\ h.next[k] \in Node /\ h.next[k] # n
            BY <1>2, <1>3, <1>5, <2>6
        <3> QED BY <1>4, <2>2, <2>6, <3>1
    <2> QED BY <2>4, <2>5, <2>6
<1>6. Ranked(g, r)
    BY <1>4, <1>5 DEF Ranked
<1> QED BY <1>6 DEF Ordered, g

LEMMA InsertBeforeOrdered ==
    ASSUME NEW h, Sound(h), Ordered(h), NEW m \in Node, NEW n \in Node,
           h.container[m] # None, h.container[n] = None
    PROVE  Ordered(InsertBefore(h, m, n))
<1>1. PICK f : Ranked(h, f)
    BY DEF Ordered
<1> DEFINE g == InsertBefore(h, m, n)
           r == [k \in Node |-> IF k = n THEN f[m]
                                ELSE IF f[k] >= f[m] THEN f[k] + 1 ELSE f[k]]
<1>2. \A k \in Node : g.next[k] = IF k = n THEN m ELSE IF k = h.prev[m] THEN n ELSE h.next[k]
    BY InsertNext
<1>3. \A k \in Node : /\ h.next[k] \in Node \cup {None} /\ h.next[k] # n
                      /\ k = h.prev[m] => h.next[k] = m
    BY DEF Sound, Ctx, LocallyLinked
<1>4. f \in [Node -> Int] /\ r \in [Node -> Int]
    BY <1>1 DEF Ranked
<1> HIDE DEF g
<1>5. ASSUME NEW k \in Node, g.next[k] # None
      PROVE  r[k] < r[g.next[k]]
    <2>1. h.next[k] # None => f[k] < f[h.next[k]]
        BY <1>1 DEF Ranked
    <2>2. m # n /\ m # None
        OBVIOUS
    <2>3. CASE k = n
        BY <1>2, <1>4, <2>2, <2>3
    <2>4. CASE k # n /\ k = h.prev[m]
        <3>1. g.next[k] = n /\ f[k] < f[m]
            BY <1>2, <1>3, <2>1, <2>2, <2>4
        <3> QED BY <1>4, <2>4, <3>1
    <2>5. CASE k # n /\ k # h.prev[m]
        <3>1. g.next[k] = h.next[k] /\ h.next[k] \in Node /\ h.next[k] # n
            BY <1>2, <1>3, <1>5, <2>5
        <3> QED BY <1>4, <2>1, <2>5, <3>1
    <2> QED BY <2>3, <2>4, <2>5
<1>6. Ranked(g, r)
    BY <1>4, <1>5 DEF Ranked
<1> QED BY <1>6 DEF Ordered, g

LEMMA PushOrdered ==
    ASSUME NEW h, Sound(h), Ordered(h), NEW c \in Container, NEW n \in Node,
           h.container[n] = None
    PROVE  Ordered(PushFront(h, c, n)) /\ Ordered(PushBack(h, c, n))
<1>1. /\ h.head[c] # None => h.head[c] \in Node /\ h.container[h.head[c]] = c
      /\ h.tail[c] # None => h.tail[c] \in Node /\ h.container[h.tail[c]] = c
    BY DEF Sound, Ctx, LocallyLinked
<1>2. Ordered(PushOnly(h, c, n))
    <2>1. PushOnly(h, c, n).next = h.next
        BY DEF PushOnly, Sound, Ctx
    <2> QED BY <2>1 DEF Ordered, Ranked
<1>3. Ordered(PushFront(h, c, n))
    BY <1>1, <1>2, InsertBeforeOrdered DEF PushFront
<1>4. Ordered(PushBack(h, c, n))
    BY <1>1, <1>2, InsertAfterOrdered DEF PushBack
<1> QED BY <1>3, <1>4

-----------------------------------------------------------------------------
(***************************************************************************)
(* What an iterator meets.                                                 *)
(***************************************************************************)

(* Induction, as sets: a set of numbers that is not empty has a least one. *)
Less == {p \in Nat \X Nat : p[1] < p[2]}

LEMMA LessWellFounded == IsWellFoundedOn(Less, Nat)
BY NatLessThanWellFounded DEF Less, OpToRel

LEMMA LeastMember ==
    ASSUME NEW T \in SUBSET Nat, T # {}
    PROVE  \E x \in T : \A y \in T : x <= y
<1>1. PICK x \in T : \A y \in T : <<y, x>> \notin Less
    BY LessWellFounded, WFMin, Zenon
<1>2. \A y \in T : ~ (y < x)
    BY <1>1 DEF Less
<1> QED BY <1>2

(* The recursive function of Walk: there is one, so at satisfies its       *)
(* equation.                                                               *)
Follows(at, next, x, k) ==
    at = [i \in 0 .. k |-> IF i = 0 THEN x ELSE Follow(next, at[i - 1])]

At(next, x, k) == CHOOSE at : Follows(at, next, x, k)

LEMMA AtFollows ==
    ASSUME NEW next, NEW x, NEW k \in Nat
    PROVE  Follows(At(next, x, k), next, x, k)
<1> DEFINE T == {n \in Nat : ~ \E at : Follows(at, next, x, n)}
<1>1. ASSUME T # {} PROVE FALSE
    <2>1. PICK n \in T : \A m \in T : n <= m
        BY <1>1, LeastMember
    <2>2. n # 0
        <3>1. Follows([i \in 0 .. 0 |-> x], next, x, 0)
            BY DEF Follows
        <3> QED BY <3>1
    <2>3. n - 1 \in Nat /\ n - 1 \notin T
        BY <2>1, <2>2
    <2>4. PICK at : Follows(at, next, x, n - 1)
        BY <2>3
    <2> DEFINE longer == [i \in 0 .. n |-> IF i = n THEN Follow(next, at[n - 1]) ELSE at[i]]
    <2>5. \A i \in 0 .. n :
             longer[i] = IF i = 0 THEN x ELSE Follow(next, longer[i - 1])
        BY <2>2, <2>4 DEF Follows
    <2>6. Follows(longer, next, x, n)
        BY <2>5 DEF Follows
    <2> QED BY <2>6
<1>2. \E at : Follows(at, next, x, k)
    BY <1>1
<1> QED BY <1>2, Zenon DEF At

(* The walk from x meets s, if s starts with x, each of its nodes leads to *)
(* the one that comes after it, and the last to none.                      *)
LEMMA WalkMeets ==
    ASSUME NEW next, NEW x, NEW k \in Nat, NEW s \in Seq(Node), Len(s) <= k,
           x = IF Len(s) = 0 THEN None ELSE s[1],
           \A i \in 1 .. Len(s) :
              next[s[i]] = IF i = Len(s) THEN None ELSE s[i + 1]
    PROVE  Walk(next, x, k) = s
<1> DEFINE at == At(next, x, k)
           Stops(i) == /\ i = k \/ at[i] = None
                       /\ \A j \in 0 .. (i - 1) : at[j] # None
           len == CHOOSE i \in 0 .. k : Stops(i)
<1>1. at = [i \in 0 .. k |-> IF i = 0 THEN x ELSE Follow(next, at[i - 1])]
    BY AtFollows DEF Follows
<1>2. Walk(next, x, k) = [i \in 1 .. len |-> at[i - 1]]
    BY DEF Walk, At, Follows
<1> HIDE DEF at
<1>3. Len(s) \in Nat /\ \A i \in 1 .. Len(s) : s[i] \in Node
    OBVIOUS
<1>4. ASSUME NEW n \in 0 .. k
      PROVE  at[n] = IF n < Len(s) THEN s[n + 1] ELSE None
    <2> DEFINE T == {i \in Nat : i <= k /\ at[i] # IF i < Len(s) THEN s[i + 1] ELSE None}
    <2>1. ASSUME T # {} PROVE FALSE
        <3>1. PICK i \in T : \A j \in T : i <= j
            BY <2>1, LeastMember
        <3>2. at[i] = IF i = 0 THEN x ELSE Follow(next, at[i - 1])
            BY <1>1, <3>1
        <3>3. i # 0
            BY <1>3, <3>1, <3>2
        <3>4. i - 1 \in Nat /\ i - 1 <= k /\ i - 1 \notin T
            BY <3>1, <3>3
        <3>5. at[i - 1] = IF i - 1 < Len(s) THEN s[i] ELSE None
            BY <3>4
        <3>6. CASE i - 1 < Len(s)
            <4>1. i \in 1 .. Len(s) /\ at[i - 1] = s[i] /\ s[i] \in Node
                BY <1>3, <3>3, <3>4, <3>5, <3>6
            <4>2. at[i] = next[s[i]]
                BY <3>2, <3>3, <4>1 DEF Follow
            <4> QED BY <1>3, <3>1, <4>1, <4>2
        <3>7. CASE ~ (i - 1 < Len(s))
            BY <1>3, <3>1, <3>2, <3>3, <3>5, <3>7 DEF Follow
        <3> QED BY <3>6, <3>7
    <2> QED BY <2>1
<1>5. Len(s) \in 0 .. k /\ Stops(Len(s))
    BY <1>3, <1>4
<1>6. ASSUME NEW i \in 0 .. k, Stops(i) PROVE i = Len(s)
    BY <1>3, <1>4, <1>6
<1> HIDE DEF Stops
<1>7. len \in 0 .. k /\ Stops(len)
    BY <1>5, Zenon
<1> HIDE DEF len
<1>8. len = Len(s)
    BY <1>6, <1>7
<1>9. \A i \in 1 .. len : at[i - 1] = s[i]
    BY <1>3, <1>4, <1>7, <1>8
<1> QED BY <1>2, <1>8, <1>9

-----------------------------------------------------------------------------
(***************************************************************************)
(* The methods as edits of sequences: L lists the nodes of every container *)
(* in the order of the links.                                              *)
(***************************************************************************)
InOrder(h, L) ==
    /\ L \in [Container -> Seq(Node)]
    /\ \A c \in Container :
          /\ h.head[c] = IF Len(L[c]) = 0 THEN None ELSE L[c][1]
          /\ h.tail[c] = IF Len(L[c]) = 0 THEN None ELSE L[c][Len(L[c])]
          /\ \A i \in 1 .. Len(L[c]) :
                /\ h.container[L[c][i]] = c
                /\ h.next[L[c][i]] = IF i = Len(L[c]) THEN None ELSE L[c][i + 1]
                /\ h.prev[L[c][i]] = IF i = 1 THEN None ELSE L[c][i - 1]
          /\ \A i, j \in 1 .. Len(L[c]) : L[c][i] = L[c][j] => i = j
    /\ \A n \in Node : h.container[n] # None =>
          \E i \in 1 .. Len(L[h.container[n]]) : L[h.container[n]][i] = n

(* n placed after the first p elements of s; the element p taken out of s. *)
Placed(s, p, n) == [i \in 1 .. (Len(s) + 1) |->
                      IF i <= p THEN s[i] ELSE IF i = p + 1 THEN n ELSE s[i - 1]]
Taken(s, p) == [i \in 1 .. (Len(s) - 1) |-> IF i < p THEN s[i] ELSE s[i + 1]]

LEMMA PlacedSeq ==
    ASSUME NEW s \in Seq(Node), NEW p \in 0 .. Len(s), NEW n \in Node
    PROVE  /\ Placed(s, p, n) \in Seq(Node)
           /\ Len(Placed(s, p, n)) = Len(s) + 1
           /\ \A i \in 1 .. (Len(s) + 1) : Placed(s, p, n)[i] =
                 IF i <= p THEN s[i] ELSE IF i = p + 1 THEN n ELSE s[i - 1]
<1>1. Len(s) \in Nat /\ \A i \in 1 .. Len(s) : s[i] \in Node
    OBVIOUS
<1>2. Placed(s, p, n) \in [1 .. (Len(s) + 1) -> Node]
    BY <1>1 DEF Placed
<1> QED BY <1>1, <1>2 DEF Placed

LEMMA TakenSeq ==
    ASSUME NEW s \in Seq(Node), NEW p \in 1 .. Len(s)
    PROVE  /\ Taken(s, p) \in Seq(Node)
           /\ Len(Taken(s, p)) = Len(s) - 1
           /\ \A i \in 1 .. (Len(s) - 1) : Taken(s, p)[i] = IF i < p THEN s[i] ELSE s[i + 1]
<1>1. Len(s) \in Nat /\ \A i \in 1 .. Len(s) : s[i] \in Node
    OBVIOUS
<1>2. Taken(s, p) \in [1 .. (Len(s) - 1) -> Node]
    BY <1>1 DEF Taken
<1> QED BY <1>1, <1>2 DEF Taken

(* The fields after m.insert_after(n) and m.insert_before(n). *)
LEMMA InsertFields ==
    ASSUME NEW h, Sound(h), NEW m \in Node, NEW n \in Node,
           h.container[m] # None, h.container[n] = None
    PROVE  /\ LET g == InsertAfter(h, m, n) IN
              /\ \A k \in Node : g.next[k] = IF k = m THEN n
                                             ELSE IF k = n THEN h.next[m] ELSE h.next[k]
              /\ \A k \in Node : g.prev[k] = IF k = n THEN m
                                             ELSE IF k = h.next[m] THEN n ELSE h.prev[k]
              /\ \A c \in Container : /\ g.head[c] = h.head[c]
                                      /\ g.tail[c] = IF h.tail[c] = m THEN n ELSE h.tail[c]
           /\ LET g == InsertBefore(h, m, n) IN
              /\ \A k \in Node : g.prev[k] = IF k = m THEN n
                                             ELSE IF k = n THEN h.prev[m] ELSE h.prev[k]
              /\ \A k \in Node : g.next[k] = IF k = n THEN m
                                             ELSE IF k = h.prev[m] THEN n ELSE h.next[k]
              /\ \A c \in Container : /\ g.tail[c] = h.tail[c]
                                      /\ g.head[c] = IF h.head[c] = m THEN n ELSE h.head[c]
<1> DEFINE c == h.container[m]
<1>1. /\ h.next \in [Node -> Node \cup {None}] /\ h.prev \in [Node -> Node \cup {None}]
      /\ h.head \in [Container -> Node \cup {None}] /\ h.tail \in [Container -> Node \cup {None}]
      /\ h.next[n] = None /\ h.prev[n] = None /\ m # n /\ c \in Container
    BY DEF Sound, Ctx, LocallyLinked
<1>2. \A e \in Container : (h.tail[e] = m => e = c) /\ (h.head[e] = m => e = c)
    BY DEF Sound, LocallyLinked
<1>3. /\ InsertAfter(h, m, n).next
             = [h.next EXCEPT ![n] = IF h.next[m] = None THEN @ ELSE h.next[m], ![m] = n]
      /\ InsertAfter(h, m, n).prev = [Set(h.prev, h.next[m], n) EXCEPT ![n] = m]
      /\ InsertAfter(h, m, n).tail = [h.tail EXCEPT ![c] = IF @ = m THEN n ELSE @]
      /\ InsertAfter(h, m, n).head = h.head
    BY DEF InsertAfter
<1>4. /\ InsertBefore(h, m, n).prev
             = [h.prev EXCEPT ![n] = IF h.prev[m] = None THEN @ ELSE h.prev[m], ![m] = n]
      /\ InsertBefore(h, m, n).next = [Set(h.next, h.prev[m], n) EXCEPT ![n] = m]
      /\ InsertBefore(h, m, n).head = [h.head EXCEPT ![c] = IF @ = m THEN n ELSE @]
      /\ InsertBefore(h, m, n).tail = h.tail
    BY DEF InsertBefore
<1> HIDE DEF c
<1>5. \A e \in Container :
         /\ InsertAfter(h, m, n).head[e] = h.head[e]
         /\ InsertAfter(h, m, n).tail[e] = IF h.tail[e] = m THEN n ELSE h.tail[e]
         /\ InsertBefore(h, m, n).tail[e] = h.tail[e]
         /\ InsertBefore(h, m, n).head[e] = IF h.head[e] = m THEN n ELSE h.head[e]
    BY <1>1, <1>2, <1>3, <1>4
<1>6. \A k \in Node : InsertAfter(h, m, n).prev[k] =
         IF k = n THEN m ELSE IF k = h.next[m] THEN n ELSE h.prev[k]
    BY <1>1, <1>3 DEF Set
<1>7. \A k \in Node : InsertBefore(h, m, n).prev[k] =
         IF k = m THEN n ELSE IF k = n THEN h.prev[m] ELSE h.prev[k]
    BY <1>1, <1>4
<1> QED BY <1>5, <1>6, <1>7, InsertNext

(* A node placed between two neighbours, with their links and its own set  *)
(* and the ends of the container moved, is placed in the sequence.         *)
LEMMA PlacedInOrder ==
    ASSUME NEW h, Sound(h), NEW L, InOrder(h, L), NEW c \in Container,
           NEW s, s = L[c], NEW p \in 0 .. Len(s), NEW n \in Node,
           h.container[n] = None, NEW g,
           \A k \in Node : g.next[k] =
              IF k = n THEN IF p = Len(s) THEN None ELSE s[p + 1]
              ELSE IF p # 0 /\ k = s[p] THEN n ELSE h.next[k],
           \A k \in Node : g.prev[k] =
              IF k = n THEN IF p = 0 THEN None ELSE s[p]
              ELSE IF p # Len(s) /\ k = s[p + 1] THEN n ELSE h.prev[k],
           \A k \in Node : g.container[k] = IF k = n THEN c ELSE h.container[k],
           \A e \in Container :
              /\ g.head[e] = IF e = c /\ p = 0 THEN n ELSE h.head[e]
              /\ g.tail[e] = IF e = c /\ p = Len(s) THEN n ELSE h.tail[e]
    PROVE  InOrder(g, [L EXCEPT ![c] = Placed(@, p, n)])
<1> DEFINE q == Placed(s, p, n)
           M == [L EXCEPT ![c] = q]
<1>1. L \in [Container -> Seq(Node)] /\ s \in Seq(Node) /\ Len(s) \in Nat /\ p \in Nat
      /\ p <= Len(s) /\ c # None
    BY DEF InOrder
<1>2. /\ q \in Seq(Node) /\ Len(q) = Len(s) + 1
      /\ \A i \in 1 .. (Len(s) + 1) : q[i] =
            IF i <= p THEN s[i] ELSE IF i = p + 1 THEN n ELSE s[i - 1]
    <2> HIDE DEF M
    <2>1. s \in Seq(Node) /\ p \in 0 .. Len(s) /\ n \in Node
        BY <1>1
    <2> HIDE DEF q
    <2>2. /\ Placed(s, p, n) \in Seq(Node)
          /\ Len(Placed(s, p, n)) = Len(s) + 1
          /\ \A i \in 1 .. (Len(s) + 1) : Placed(s, p, n)[i] =
                IF i <= p THEN s[i] ELSE IF i = p + 1 THEN n ELSE s[i - 1]
        BY <2>1, PlacedSeq
    <2> QED BY <2>2 DEF q
<1> HIDE DEF q
<1>3. /\ \A i \in 1 .. Len(s) : i <= p => q[i] = s[i]
      /\ q[p + 1] = n
      /\ \A i \in 1 .. Len(s) : i > p => q[i + 1] = s[i]
    <2>1. \A i \in 1 .. Len(s) : i <= p => q[i] = s[i]
        BY <1>1, <1>2
    <2>2. q[p + 1] = n
        BY <1>1, <1>2
    <2>3. ASSUME NEW i \in 1 .. Len(s), i > p PROVE q[i + 1] = s[i]
        <3>1. i + 1 \in 1 .. (Len(s) + 1) /\ ~ (i + 1 <= p) /\ i + 1 # p + 1 /\ (i + 1) - 1 = i
            BY <1>1, <2>3
        <3> QED BY <1>2, <3>1
    <2> QED BY <2>1, <2>2, <2>3
<1>4. \A i \in 1 .. Len(q) : \/ i \in 1 .. Len(s) /\ i <= p
                             \/ i = p + 1
                             \/ i - 1 \in 1 .. Len(s) /\ i - 1 > p
    BY <1>1, <1>2
<1>5. \A i \in 1 .. Len(s) :
         /\ s[i] \in Node /\ s[i] # n /\ h.container[s[i]] = c
         /\ h.next[s[i]] = IF i = Len(s) THEN None ELSE s[i + 1]
         /\ h.prev[s[i]] = IF i = 1 THEN None ELSE s[i - 1]
    BY <1>1 DEF InOrder
<1>6. \A i, j \in 1 .. Len(s) : s[i] = s[j] => i = j
    BY DEF InOrder
<1>7. ASSUME NEW i \in 1 .. Len(s)
      PROVE  /\ g.next[s[i]] = IF i = p THEN n ELSE h.next[s[i]]
             /\ g.prev[s[i]] = IF i = p + 1 THEN n ELSE h.prev[s[i]]
    <2>1. p # 0 => p \in 1 .. Len(s)
        BY <1>1
    <2>2. p # Len(s) => p + 1 \in 1 .. Len(s)
        BY <1>1
    <2> QED BY <1>1, <1>5, <1>6, <2>1, <2>2
<1>8. M \in [Container -> Seq(Node)] /\ M[c] = q /\ \A e \in Container : e # c => M[e] = L[e]
    BY <1>1, <1>2
<1> HIDE DEF M
<1>9. ASSUME NEW i \in 1 .. Len(q)
      PROVE  /\ g.container[q[i]] = c
             /\ g.next[q[i]] = IF i = Len(q) THEN None ELSE q[i + 1]
             /\ g.prev[q[i]] = IF i = 1 THEN None ELSE q[i - 1]
    <2>1. CASE i \in 1 .. Len(s) /\ i <= p
        <3>1. q[i] = s[i] /\ i # Len(q) /\ i # p + 1
            BY <1>1, <1>2, <1>3, <2>1
        <3>2. g.next[q[i]] = q[i + 1]
            <4>1. CASE i = p
                BY <1>3, <1>7, <2>1, <3>1, <4>1
            <4>2. CASE i # p
                <5>1. i + 1 \in 1 .. Len(s) /\ i + 1 <= p /\ i # Len(s)
                    BY <1>1, <2>1, <4>2
                <5> QED BY <1>3, <1>5, <1>7, <2>1, <3>1, <4>2, <5>1
            <4> QED BY <4>1, <4>2
        <3>3. g.prev[q[i]] = IF i = 1 THEN None ELSE q[i - 1]
            <4>1. i # 1 => i - 1 \in 1 .. Len(s) /\ i - 1 <= p
                BY <1>1, <2>1
            <4> QED BY <1>3, <1>5, <1>7, <2>1, <3>1, <4>1
        <3> QED BY <1>5, <2>1, <3>1, <3>2, <3>3
    <2>2. CASE i = p + 1
        <3>1. q[i] = n /\ (i = Len(q) <=> p = Len(s)) /\ (i = 1 <=> p = 0) /\ i - 1 = p
            BY <1>1, <1>2, <1>3, <2>2
        <3>2. p # Len(s) => q[i + 1] = s[p + 1]
            <4>1. p # Len(s) => p + 1 \in 1 .. Len(s) /\ p + 1 > p
                BY <1>1
            <4> QED BY <1>3, <2>2, <4>1
        <3>3. p # 0 => q[p] = s[p]
            BY <1>1, <1>3
        <3> QED BY <3>1, <3>2, <3>3
    <2>3. CASE i - 1 \in 1 .. Len(s) /\ i - 1 > p
        <3> DEFINE j == i - 1
        <3>1. j \in 1 .. Len(s) /\ j > p /\ i = j + 1 /\ j # p /\ i # 1
              /\ (i = Len(q) <=> j = Len(s))
            BY <1>1, <1>2, <2>3
        <3> HIDE DEF j
        <3>2. q[i] = s[j]
            BY <1>3, <3>1
        <3>3. j # Len(s) => q[i + 1] = s[j + 1]
            <4>1. j # Len(s) => j + 1 \in 1 .. Len(s) /\ j + 1 > p
                BY <1>1, <3>1
            <4> QED BY <1>3, <3>1, <4>1
        <3>4. j # p + 1 => j # 1 /\ q[i - 1] = s[j - 1]
            <4>1. j # p + 1 => j # 1 /\ j - 1 \in 1 .. Len(s) /\ j - 1 > p /\ (j - 1) + 1 = i - 1
                BY <1>1, <3>1
            <4>2. j # p + 1 => q[(j - 1) + 1] = s[j - 1]
                BY <1>3, <4>1
            <4> QED BY <4>1, <4>2
        <3>5. j = p + 1 => q[i - 1] = n
            BY <1>1, <1>3, <3>1
        <3> QED BY <1>5, <1>7, <3>1, <3>2, <3>3, <3>4, <3>5
    <2> QED BY <1>4, <2>1, <2>2, <2>3
<1>10. ASSUME NEW i \in 1 .. Len(q), NEW j \in 1 .. Len(q), q[i] = q[j] PROVE i = j
    <2> DEFINE Index(k) == IF k <= p THEN k ELSE k - 1
    <2>1. \A k \in 1 .. Len(q) : k # p + 1 =>
             Index(k) \in 1 .. Len(s) /\ q[k] = s[Index(k)] /\ q[k] # n
        <3> SUFFICES ASSUME NEW k \in 1 .. Len(q), k # p + 1
                     PROVE  Index(k) \in 1 .. Len(s) /\ q[k] = s[Index(k)] /\ q[k] # n
            OBVIOUS
        <3>1. CASE k \in 1 .. Len(s) /\ k <= p
            BY <1>3, <1>5, <3>1
        <3>2. CASE k - 1 \in 1 .. Len(s) /\ k - 1 > p
            <4>1. Index(k) = k - 1 /\ (k - 1) + 1 = k
                BY <1>1, <3>2
            <4>2. q[(k - 1) + 1] = s[k - 1]
                BY <1>3, <3>2
            <4> QED BY <1>5, <3>2, <4>1, <4>2
        <3> QED BY <1>4, <3>1, <3>2
    <2>2. CASE i # p + 1 /\ j # p + 1
        <3>1. Index(i) = Index(j)
            <4>1. Index(i) \in 1 .. Len(s) /\ Index(j) \in 1 .. Len(s) /\ s[Index(i)] = s[Index(j)]
                BY <1>10, <2>1, <2>2
            <4> HIDE DEF Index
            <4> QED BY <1>6, <4>1
        <3> QED BY <1>1, <1>2, <2>2, <3>1
    <2>3. CASE i = p + 1 \/ j = p + 1
        <3> HIDE DEF Index
        <3> QED BY <1>3, <1>10, <2>1, <2>3
    <2> QED BY <2>2, <2>3
<1>11. /\ g.head[c] = IF Len(q) = 0 THEN None ELSE q[1]
       /\ g.tail[c] = IF Len(q) = 0 THEN None ELSE q[Len(q)]
    <2>1. /\ h.head[c] = IF Len(s) = 0 THEN None ELSE s[1]
          /\ h.tail[c] = IF Len(s) = 0 THEN None ELSE s[Len(s)]
        BY DEF InOrder
    <2>2. p # 0 => Len(s) # 0 /\ q[1] = s[1]
        BY <1>1, <1>3
    <2>3. p = 0 => q[1] = n
        BY <1>3
    <2>4. p # Len(s) => Len(s) # 0 /\ q[Len(s) + 1] = s[Len(s)]
        BY <1>1, <1>3
    <2>5. p = Len(s) => q[Len(s) + 1] = n
        BY <1>3
    <2> QED BY <1>1, <1>2, <2>1, <2>2, <2>3, <2>4, <2>5
<1>12. ASSUME NEW e \in Container, e # c
       PROVE  /\ g.head[e] = IF Len(L[e]) = 0 THEN None ELSE L[e][1]
              /\ g.tail[e] = IF Len(L[e]) = 0 THEN None ELSE L[e][Len(L[e])]
              /\ \A i \in 1 .. Len(L[e]) :
                    /\ g.container[L[e][i]] = e
                    /\ g.next[L[e][i]] = IF i = Len(L[e]) THEN None ELSE L[e][i + 1]
                    /\ g.prev[L[e][i]] = IF i = 1 THEN None ELSE L[e][i - 1]
              /\ \A i, j \in 1 .. Len(L[e]) : L[e][i] = L[e][j] => i = j
    <2> DEFINE t == L[e]
    <2>1. /\ h.head[e] = IF Len(t) = 0 THEN None ELSE t[1]
          /\ h.tail[e] = IF Len(t) = 0 THEN None ELSE t[Len(t)]
          /\ t \in Seq(Node)
          /\ \A i, j \in 1 .. Len(t) : t[i] = t[j] => i = j
        BY DEF InOrder
    <2>2. \A i \in 1 .. Len(t) :
             /\ t[i] \in Node /\ h.container[t[i]] = e
             /\ h.next[t[i]] = IF i = Len(t) THEN None ELSE t[i + 1]
             /\ h.prev[t[i]] = IF i = 1 THEN None ELSE t[i - 1]
        BY <2>1 DEF InOrder
    <2> HIDE DEF t
    <2>3. \A i \in 1 .. Len(t) : /\ t[i] # n
                                 /\ \A j \in 1 .. Len(s) : t[i] # s[j]
        BY <1>5, <1>12, <2>2
    <2>4. (p # 0 => p \in 1 .. Len(s)) /\ (p # Len(s) => p + 1 \in 1 .. Len(s))
        BY <1>1
    <2>5. \A i \in 1 .. Len(t) : /\ g.next[t[i]] = h.next[t[i]]
                                 /\ g.prev[t[i]] = h.prev[t[i]]
                                 /\ g.container[t[i]] = h.container[t[i]]
        BY <2>2, <2>3, <2>4
    <2>6. g.head[e] = h.head[e] /\ g.tail[e] = h.tail[e]
        BY <1>12
    <2>7. /\ g.head[e] = IF Len(t) = 0 THEN None ELSE t[1]
          /\ g.tail[e] = IF Len(t) = 0 THEN None ELSE t[Len(t)]
          /\ \A i \in 1 .. Len(t) :
                /\ g.container[t[i]] = e
                /\ g.next[t[i]] = IF i = Len(t) THEN None ELSE t[i + 1]
                /\ g.prev[t[i]] = IF i = 1 THEN None ELSE t[i - 1]
        BY <2>1, <2>2, <2>5, <2>6
    <2> QED BY <2>1, <2>7 DEF t
<1>13. ASSUME NEW k \in Node, g.container[k] # None
       PROVE  \E i \in 1 .. Len(M[g.container[k]]) : M[g.container[k]][i] = k
    <2>1. CASE k = n
        <3>1. M[g.container[k]] = q
            BY <1>8, <2>1
        <3>2. p + 1 \in 1 .. Len(q) /\ q[p + 1] = k
            BY <1>1, <1>2, <1>3, <2>1
        <3> QED BY <3>1, <3>2
    <2>2. CASE k # n
        <3>1. g.container[k] = h.container[k]
            BY <2>2
        <3>2. PICK i \in 1 .. Len(L[h.container[k]]) : L[h.container[k]][i] = k
            BY <1>13, <3>1 DEF InOrder
        <3>3. CASE h.container[k] = c
            <4>1. i \in 1 .. Len(s) /\ s[i] = k
                BY <3>2, <3>3
            <4>2. M[g.container[k]] = q
                BY <1>8, <3>1, <3>3
            <4>3. CASE i <= p
                <5>1. i \in 1 .. Len(q) /\ q[i] = k
                    BY <1>1, <1>2, <1>3, <4>1, <4>3
                <5> QED BY <4>2, <5>1
            <4>4. CASE i > p
                <5>1. i + 1 \in 1 .. Len(q) /\ q[i + 1] = k
                    BY <1>1, <1>2, <1>3, <4>1, <4>4
                <5> QED BY <4>2, <5>1
            <4> QED BY <1>1, <4>1, <4>3, <4>4
        <3>4. CASE h.container[k] # c
            <4> DEFINE e == h.container[k]
            <4>1. e \in Container /\ e # c
                BY <1>13, <3>1, <3>4 DEF Sound, Ctx
            <4>2. g.container[k] = e
                BY <3>1, Zenon
            <4> HIDE DEF e
            <4>3. M[e] = L[e]
                BY <1>8, <4>1, Zenon
            <4>4. \E x \in 1 .. Len(L[e]) : L[e][x] = k
                BY <3>2, Zenon DEF e
            <4> QED BY <4>2, <4>3, <4>4, Zenon
        <3> QED BY <3>3, <3>4
    <2> QED BY <2>1, <2>2
<1>14. ASSUME NEW e \in Container
       PROVE  /\ g.head[e] = IF Len(M[e]) = 0 THEN None ELSE M[e][1]
              /\ g.tail[e] = IF Len(M[e]) = 0 THEN None ELSE M[e][Len(M[e])]
              /\ \A i \in 1 .. Len(M[e]) :
                    /\ g.container[M[e][i]] = e
                    /\ g.next[M[e][i]] = IF i = Len(M[e]) THEN None ELSE M[e][i + 1]
                    /\ g.prev[M[e][i]] = IF i = 1 THEN None ELSE M[e][i - 1]
              /\ \A i, j \in 1 .. Len(M[e]) : M[e][i] = M[e][j] => i = j
    <2>1. CASE e = c
        BY <1>8, <1>9, <1>10, <1>11, <2>1
    <2>2. CASE e # c
        BY <1>8, <1>12, <2>2
    <2> QED BY <2>1, <2>2
<1>15. InOrder(g, M)
    BY <1>8, <1>13, <1>14 DEF InOrder
<1> QED BY <1>15 DEF M, q

LEMMA InsertAfterInOrder ==
    ASSUME NEW h, Sound(h), NEW L, InOrder(h, L), NEW c \in Container,
           NEW s, s = L[c], NEW p \in 1 .. Len(s), NEW n \in Node, h.container[n] = None
    PROVE  InOrder(InsertAfter(h, s[p], n), [L EXCEPT ![c] = Placed(@, p, n)])
<1> DEFINE m == s[p]
           g == InsertAfter(h, m, n)
<1>1. s \in Seq(Node) /\ Len(s) \in Nat /\ m \in Node /\ h.container[m] = c /\ c # None
    BY DEF InOrder
<1>2. /\ h.next[m] = IF p = Len(s) THEN None ELSE s[p + 1]
      /\ h.tail[c] = s[Len(s)] /\ Len(s) # 0
      /\ \A j \in 1 .. Len(s) : s[j] = m => j = p
    BY <1>1 DEF InOrder
<1>3. \A e \in Container : h.tail[e] = m <=> e = c /\ p = Len(s)
    <2>1. \A e \in Container : h.tail[e] = m => h.container[m] = e
        BY <1>1 DEF Sound, LocallyLinked
    <2> QED BY <1>1, <1>2, <2>1
<1>4. /\ \A k \in Node : g.next[k] = IF k = m THEN n
                                     ELSE IF k = n THEN h.next[m] ELSE h.next[k]
      /\ \A k \in Node : g.prev[k] = IF k = n THEN m
                                     ELSE IF k = h.next[m] THEN n ELSE h.prev[k]
      /\ \A e \in Container : /\ g.head[e] = h.head[e]
                              /\ g.tail[e] = IF h.tail[e] = m THEN n ELSE h.tail[e]
    BY <1>1, InsertFields
<1>5. \A k \in Node : g.container[k] = IF k = n THEN c ELSE h.container[k]
    <2> HIDE DEF g, m
    <2>1. InsertAfter(h, m, n).container = [h.container EXCEPT ![n] = h.container[m]]
        BY <1>1, InsertAfterSound
    <2> QED BY <1>1, <2>1 DEF Sound, Ctx, g
<1>p. p \in 0 .. Len(s) /\ p # 0 /\ m = s[p] /\ m # n
    BY <1>1
<1> HIDE DEF g, m
<1>6. \A k \in Node : g.next[k] =
         IF k = n THEN IF p = Len(s) THEN None ELSE s[p + 1]
         ELSE IF p # 0 /\ k = s[p] THEN n ELSE h.next[k]
    BY <1>2, <1>4, <1>p
<1>7. \A k \in Node : g.prev[k] =
         IF k = n THEN IF p = 0 THEN None ELSE s[p]
         ELSE IF p # Len(s) /\ k = s[p + 1] THEN n ELSE h.prev[k]
    <2>1. \A k \in Node : k = h.next[m] <=> p # Len(s) /\ k = s[p + 1]
        BY <1>2
    <2> QED BY <1>4, <1>p, <2>1
<1>8. \A e \in Container :
         /\ g.head[e] = IF e = c /\ p = 0 THEN n ELSE h.head[e]
         /\ g.tail[e] = IF e = c /\ p = Len(s) THEN n ELSE h.tail[e]
    BY <1>3, <1>4, <1>p
<1>9. InOrder(g, [L EXCEPT ![c] = Placed(@, p, n)])
    BY <1>5, <1>6, <1>7, <1>8, <1>p, PlacedInOrder
<1> QED BY <1>9 DEF g, m

LEMMA InsertBeforeInOrder ==
    ASSUME NEW h, Sound(h), NEW L, InOrder(h, L), NEW c \in Container,
           NEW s, s = L[c], NEW p \in 1 .. Len(s), NEW n \in Node, h.container[n] = None
    PROVE  InOrder(InsertBefore(h, s[p], n), [L EXCEPT ![c] = Placed(@, p - 1, n)])
<1> DEFINE m == s[p]
           r == p - 1
           g == InsertBefore(h, m, n)
<1>1. s \in Seq(Node) /\ Len(s) \in Nat /\ m \in Node /\ h.container[m] = c /\ c # None
    BY DEF InOrder
<1>2. /\ h.prev[m] = IF p = 1 THEN None ELSE s[p - 1]
      /\ h.head[c] = s[1] /\ Len(s) # 0
      /\ \A j \in 1 .. Len(s) : s[j] = m => j = p
    BY <1>1 DEF InOrder
<1>3. \A e \in Container : h.head[e] = m <=> e = c /\ p = 1
    <2>1. \A e \in Container : h.head[e] = m => h.container[m] = e
        BY <1>1 DEF Sound, LocallyLinked
    <2> QED BY <1>1, <1>2, <2>1
<1>4. /\ \A k \in Node : g.prev[k] = IF k = m THEN n
                                     ELSE IF k = n THEN h.prev[m] ELSE h.prev[k]
      /\ \A k \in Node : g.next[k] = IF k = n THEN m
                                     ELSE IF k = h.prev[m] THEN n ELSE h.next[k]
      /\ \A e \in Container : /\ g.tail[e] = h.tail[e]
                              /\ g.head[e] = IF h.head[e] = m THEN n ELSE h.head[e]
    BY <1>1, InsertFields
<1>5. \A k \in Node : g.container[k] = IF k = n THEN c ELSE h.container[k]
    <2> HIDE DEF g, m
    <2>1. InsertBefore(h, m, n).container = [h.container EXCEPT ![n] = h.container[m]]
        BY <1>1, InsertBeforeSound
    <2> QED BY <1>1, <2>1 DEF Sound, Ctx, g
<1>p. /\ r \in 0 .. Len(s) /\ r # Len(s) /\ m = s[r + 1] /\ m # n
      /\ (p = 1 <=> r = 0) /\ r = p - 1
    BY <1>1
<1> HIDE DEF g, m, r
<1>6. \A k \in Node : g.next[k] =
         IF k = n THEN IF r = Len(s) THEN None ELSE s[r + 1]
         ELSE IF r # 0 /\ k = s[r] THEN n ELSE h.next[k]
    <2>1. \A k \in Node : k = h.prev[m] <=> r # 0 /\ k = s[r]
        BY <1>2, <1>p
    <2> QED BY <1>4, <1>p, <2>1
<1>7. \A k \in Node : g.prev[k] =
         IF k = n THEN IF r = 0 THEN None ELSE s[r]
         ELSE IF r # Len(s) /\ k = s[r + 1] THEN n ELSE h.prev[k]
    BY <1>2, <1>4, <1>p
<1>8. \A e \in Container :
         /\ g.head[e] = IF e = c /\ r = 0 THEN n ELSE h.head[e]
         /\ g.tail[e] = IF e = c /\ r = Len(s) THEN n ELSE h.tail[e]
    BY <1>3, <1>4, <1>p
<1>9. InOrder(g, [L EXCEPT ![c] = Placed(@, r, n)])
    BY <1>5, <1>6, <1>7, <1>8, <1>p, PlacedInOrder
<1> QED BY <1>9 DEF g, m, r

LEMMA PushOnlyInOrder ==
    ASSUME NEW h, Sound(h), NEW L, InOrder(h, L), NEW c \in Container,
           NEW s, s = L[c], Len(s) = 0, NEW n \in Node, h.container[n] = None
    PROVE  InOrder(PushOnly(h, c, n), [L EXCEPT ![c] = Placed(@, 0, n)])
<1> DEFINE g == PushOnly(h, c, n)
<1>1. /\ g.next = h.next /\ g.prev = h.prev
      /\ g.head = [h.head EXCEPT ![c] = n]
      /\ g.tail = [h.tail EXCEPT ![c] = n]
      /\ g.container = [h.container EXCEPT ![n] = c]
      /\ h.next[n] = None /\ h.prev[n] = None
    BY DEF PushOnly, Sound, Ctx, LocallyLinked
<1> HIDE DEF g
<1>2. \A k \in Node : g.container[k] = IF k = n THEN c ELSE h.container[k]
    BY <1>1 DEF Sound, Ctx
<1>3. \A e \in Container :
         /\ g.head[e] = IF e = c /\ 0 = 0 THEN n ELSE h.head[e]
         /\ g.tail[e] = IF e = c /\ 0 = Len(s) THEN n ELSE h.tail[e]
    BY <1>1 DEF Sound, Ctx
<1>4. 0 \in 0 .. Len(s)
    OBVIOUS
<1>5. \A k \in Node : g.next[k] =
         IF k = n THEN IF 0 = Len(s) THEN None ELSE s[0 + 1]
         ELSE IF 0 # 0 /\ k = s[0] THEN n ELSE h.next[k]
    BY <1>1
<1>6. \A k \in Node : g.prev[k] =
         IF k = n THEN IF 0 = 0 THEN None ELSE s[0]
         ELSE IF 0 # Len(s) /\ k = s[0 + 1] THEN n ELSE h.prev[k]
    BY <1>1
<1>7. InOrder(g, [L EXCEPT ![c] = Placed(@, 0, n)])
    BY <1>2, <1>3, <1>4, <1>5, <1>6, PlacedInOrder
<1> QED BY <1>7 DEF g

(* push_front places the node first, push_back last. *)
LEMMA PushInOrder ==
    ASSUME NEW h, Sound(h), NEW L, InOrder(h, L), NEW c \in Container,
           NEW n \in Node, h.container[n] = None
    PROVE  /\ InOrder(PushFront(h, c, n), [L EXCEPT ![c] = Placed(@, 0, n)])
           /\ InOrder(PushBack(h, c, n), [L EXCEPT ![c] = Placed(@, Len(L[c]), n)])
<1> DEFINE s == L[c]
<1>1. /\ s \in Seq(Node) /\ Len(s) \in Nat /\ \A i \in 1 .. Len(s) : s[i] \in Node
      /\ h.head[c] = IF Len(s) = 0 THEN None ELSE s[1]
      /\ h.tail[c] = IF Len(s) = 0 THEN None ELSE s[Len(s)]
    BY DEF InOrder
<1>s. s = L[c]
    OBVIOUS
<1> HIDE DEF s
<1>2. CASE Len(s) = 0
    <2>1. PushFront(h, c, n) = PushOnly(h, c, n) /\ PushBack(h, c, n) = PushOnly(h, c, n)
        BY <1>1, <1>2 DEF PushFront, PushBack
    <2>2. InOrder(PushOnly(h, c, n), [L EXCEPT ![c] = Placed(@, 0, n)])
        BY <1>2, <1>s, PushOnlyInOrder
    <2> QED BY <1>2, <1>s, <2>1, <2>2
<1>3. CASE Len(s) # 0
    <2>1. 1 \in 1 .. Len(s) /\ Len(s) \in 1 .. Len(s) /\ s[1] # None /\ s[Len(s)] # None
        BY <1>1, <1>3
    <2>2. /\ PushFront(h, c, n) = InsertBefore(h, s[1], n)
          /\ PushBack(h, c, n) = InsertAfter(h, s[Len(s)], n)
        BY <1>1, <1>3, <2>1 DEF PushFront, PushBack
    <2>3. InOrder(InsertBefore(h, s[1], n), [L EXCEPT ![c] = Placed(@, 1 - 1, n)])
        BY <1>s, <2>1, InsertBeforeInOrder
    <2>4. InOrder(InsertAfter(h, s[Len(s)], n), [L EXCEPT ![c] = Placed(@, Len(s), n)])
        BY <1>s, <2>1, InsertAfterInOrder
    <2>5. 1 - 1 = 0
        OBVIOUS
    <2> QED BY <1>s, <2>2, <2>3, <2>4, <2>5
<1> QED BY <1>2, <1>3

(* unlink takes the node out of the sequence of its container.             *)
LEMMA UnlinkInOrder ==
    ASSUME NEW h, Sound(h), NEW L, InOrder(h, L), NEW c \in Container,
           NEW s, s = L[c], NEW p \in 1 .. Len(s)
    PROVE  InOrder(Unlink(h, s[p]), [L EXCEPT ![c] = Taken(@, p)])
<1> DEFINE q == Taken(s, p)
           M == [L EXCEPT ![c] = q]
           n == s[p]
           g == Unlink(h, n)
<1>1. /\ L \in [Container -> Seq(Node)] /\ s \in Seq(Node) /\ Len(s) \in Nat /\ n \in Node
      /\ h.container[n] = c /\ c # None
    BY DEF InOrder
<1>2. /\ q \in Seq(Node) /\ Len(q) = Len(s) - 1
      /\ \A i \in 1 .. (Len(s) - 1) : q[i] = IF i < p THEN s[i] ELSE s[i + 1]
    <2> HIDE DEF g, M, n
    <2>1. s \in Seq(Node) /\ p \in 1 .. Len(s)
        BY <1>1
    <2> HIDE DEF q
    <2>2. /\ Taken(s, p) \in Seq(Node)
          /\ Len(Taken(s, p)) = Len(s) - 1
          /\ \A i \in 1 .. (Len(s) - 1) : Taken(s, p)[i] = IF i < p THEN s[i] ELSE s[i + 1]
        BY <2>1, TakenSeq
    <2> QED BY <2>2 DEF q
<1>3. /\ \A k \in Node : g.next[k] = IF k = n THEN None
                                     ELSE IF k = h.prev[n] THEN h.next[n] ELSE h.next[k]
      /\ \A k \in Node : g.prev[k] = IF k = n THEN None
                                     ELSE IF k = h.next[n] THEN h.prev[n] ELSE h.prev[k]
      /\ \A k \in Node : g.container[k] = IF k = n THEN None ELSE h.container[k]
      /\ \A e \in Container :
            /\ g.head[e] = IF h.head[e] = n THEN h.next[n] ELSE h.head[e]
            /\ g.tail[e] = IF h.tail[e] = n THEN h.prev[n] ELSE h.tail[e]
    BY <1>1, UnlinkFields
<1>4. M \in [Container -> Seq(Node)] /\ M[c] = q /\ \A e \in Container : e # c => M[e] = L[e]
    BY <1>1, <1>2
<1>p. p \in 1 .. Len(s) /\ n = s[p]
    OBVIOUS
<1> HIDE DEF q, M, g, n
<1>5. /\ \A i \in 1 .. Len(s) : i < p => i \in 1 .. Len(q) /\ q[i] = s[i]
      /\ \A i \in 1 .. Len(s) : i > p => i - 1 \in 1 .. Len(q) /\ q[i - 1] = s[i]
    <2>1. \A i \in 1 .. Len(s) : i < p => i \in 1 .. Len(q) /\ q[i] = s[i]
        BY <1>1, <1>2, <1>p
    <2>2. ASSUME NEW i \in 1 .. Len(s), i > p PROVE i - 1 \in 1 .. Len(q) /\ q[i - 1] = s[i]
        <3>1. i - 1 \in 1 .. (Len(s) - 1) /\ ~ (i - 1 < p) /\ (i - 1) + 1 = i
            BY <1>1, <1>p, <2>2
        <3> QED BY <1>2, <3>1
    <2> QED BY <2>1, <2>2
<1>6. \A i \in 1 .. Len(q) : \/ i \in 1 .. Len(s) /\ i < p
                             \/ i + 1 \in 1 .. Len(s) /\ i + 1 > p
    BY <1>1, <1>2, <1>p
<1>7. \A i \in 1 .. Len(s) :
         /\ s[i] \in Node /\ h.container[s[i]] = c
         /\ h.next[s[i]] = IF i = Len(s) THEN None ELSE s[i + 1]
         /\ h.prev[s[i]] = IF i = 1 THEN None ELSE s[i - 1]
    BY <1>1 DEF InOrder
<1>8. \A i, j \in 1 .. Len(s) : s[i] = s[j] => i = j
    BY DEF InOrder
<1>9. /\ h.next[n] = IF p = Len(s) THEN None ELSE s[p + 1]
      /\ h.prev[n] = IF p = 1 THEN None ELSE s[p - 1]
    BY <1>7, <1>p
<1>10. ASSUME NEW i \in 1 .. Len(s), i # p
       PROVE  /\ g.next[s[i]] = IF i + 1 = p THEN h.next[n] ELSE h.next[s[i]]
              /\ g.prev[s[i]] = IF i = p + 1 THEN h.prev[n] ELSE h.prev[s[i]]
              /\ g.container[s[i]] = c
    <2>1. s[i] # n
        BY <1>8, <1>10, <1>p
    <2>2. s[i] = h.prev[n] <=> i + 1 = p
        <3>1. p # 1 => p - 1 \in 1 .. Len(s)
            BY <1>1, <1>p
        <3> QED BY <1>7, <1>8, <1>9, <1>p, <3>1
    <2>3. s[i] = h.next[n] <=> i = p + 1
        <3>1. p # Len(s) => p + 1 \in 1 .. Len(s)
            BY <1>1, <1>p
        <3> QED BY <1>7, <1>8, <1>9, <1>p, <3>1
    <2> QED BY <1>3, <1>7, <2>1, <2>2, <2>3
<1>11. ASSUME NEW i \in 1 .. Len(q)
       PROVE  /\ g.container[q[i]] = c
              /\ g.next[q[i]] = IF i = Len(q) THEN None ELSE q[i + 1]
              /\ g.prev[q[i]] = IF i = 1 THEN None ELSE q[i - 1]
    <2>1. CASE i \in 1 .. Len(s) /\ i < p
        <3>1. q[i] = s[i] /\ i # p /\ i # p + 1 /\ i # Len(s)
              /\ (i = Len(q) <=> i + 1 = p /\ p = Len(s))
            BY <1>1, <1>2, <1>5, <1>p, <2>1
        <3>2. CASE i + 1 = p
            <4>1. p # Len(s) => q[i + 1] = s[p + 1]
                <5>1. p # Len(s) => p + 1 \in 1 .. Len(s) /\ p + 1 > p /\ (p + 1) - 1 = i + 1
                    BY <1>1, <1>p, <3>2
                <5> QED BY <1>5, <5>1
            <4>2. i # 1 => q[i - 1] = s[i - 1]
                <5>1. i # 1 => i - 1 \in 1 .. Len(s) /\ i - 1 < p
                    BY <1>1, <2>1
                <5> QED BY <1>5, <5>1
            <4> QED BY <1>7, <1>9, <1>10, <2>1, <3>1, <3>2, <4>1, <4>2
        <3>3. CASE i + 1 # p
            <4>1. q[i + 1] = s[i + 1]
                <5>1. i + 1 \in 1 .. Len(s) /\ i + 1 < p
                    BY <1>1, <1>p, <2>1, <3>3
                <5> QED BY <1>5, <5>1
            <4>2. i # 1 => q[i - 1] = s[i - 1]
                <5>1. i # 1 => i - 1 \in 1 .. Len(s) /\ i - 1 < p
                    BY <1>1, <2>1
                <5> QED BY <1>5, <5>1
            <4>3. i # Len(q)
                BY <3>1, <3>3
            <4>4. g.container[s[i]] = c
                BY <1>10, <2>1, <3>1
            <4>5. g.next[s[i]] = s[i + 1]
                BY <1>7, <1>10, <2>1, <3>1, <3>3
            <4>6. g.prev[s[i]] = IF i = 1 THEN None ELSE s[i - 1]
                BY <1>7, <1>10, <2>1, <3>1
            <4> QED BY <3>1, <4>1, <4>2, <4>3, <4>4, <4>5, <4>6
        <3> QED BY <3>2, <3>3
    <2>2. CASE i + 1 \in 1 .. Len(s) /\ i + 1 > p
        <3> DEFINE j == i + 1
        <3>1. j \in 1 .. Len(s) /\ j > p /\ j - 1 = i /\ j # p /\ j + 1 # p /\ j # 1
              /\ (i = Len(q) <=> j = Len(s))
            BY <1>1, <1>2, <1>p, <2>2
        <3>6. (j = p + 1 => (i = 1 <=> p = 1)) /\ (j # p + 1 => i # 1)
            BY <1>1, <1>2, <1>p, <2>2
        <3> HIDE DEF j
        <3>2. q[i] = s[j]
            BY <1>5, <3>1
        <3>3. j # Len(s) => q[i + 1] = s[j + 1]
            <4>1. j # Len(s) => j + 1 \in 1 .. Len(s) /\ j + 1 > p /\ (j + 1) - 1 = i + 1
                BY <1>1, <3>1
            <4> QED BY <1>5, <4>1
        <3>4. j = p + 1 /\ p # 1 => q[i - 1] = s[p - 1]
            <4>1. j = p + 1 /\ p # 1 => p - 1 \in 1 .. Len(s) /\ p - 1 < p /\ i - 1 = p - 1
                BY <1>1, <1>p, <3>1
            <4> QED BY <1>5, <4>1
        <3>5. j # p + 1 => q[i - 1] = s[j - 1]
            <4>1. j # p + 1 => j - 1 \in 1 .. Len(s) /\ j - 1 > p /\ (j - 1) - 1 = i - 1
                BY <1>1, <1>p, <3>1
            <4> QED BY <1>5, <4>1
        <3>7. g.container[s[j]] = c
            BY <1>10, <3>1
        <3>8. g.next[s[j]] = IF j = Len(s) THEN None ELSE s[j + 1]
            BY <1>7, <1>10, <3>1
        <3>9. g.prev[s[j]] = IF j = p + 1 THEN IF p = 1 THEN None ELSE s[p - 1]
                                          ELSE s[j - 1]
            BY <1>7, <1>9, <1>10, <3>1
        <3> QED BY <3>1, <3>2, <3>3, <3>4, <3>5, <3>6, <3>7, <3>8, <3>9
    <2> QED BY <1>6, <2>1, <2>2
<1>12. ASSUME NEW i \in 1 .. Len(q), NEW j \in 1 .. Len(q), q[i] = q[j] PROVE i = j
    <2> DEFINE Index(k) == IF k < p THEN k ELSE k + 1
    <2>1. ASSUME NEW k \in 1 .. Len(q)
          PROVE  Index(k) \in 1 .. Len(s) /\ q[k] = s[Index(k)]
        <3>1. CASE k \in 1 .. Len(s) /\ k < p
            BY <1>5, <3>1
        <3>2. CASE k + 1 \in 1 .. Len(s) /\ k + 1 > p
            <4>1. Index(k) = k + 1 /\ (k + 1) - 1 = k
                BY <1>1, <1>p, <3>2
            <4>2. q[(k + 1) - 1] = s[k + 1]
                BY <1>5, <3>2
            <4> QED BY <3>2, <4>1, <4>2
        <3> QED BY <1>6, <3>1, <3>2
    <2>2. Index(i) = Index(j)
        <3>1. /\ Index(i) \in 1 .. Len(s) /\ Index(j) \in 1 .. Len(s)
              /\ s[Index(i)] = s[Index(j)]
            BY <1>12, <2>1
        <3> HIDE DEF Index
        <3> QED BY <1>8, <3>1
    <2> QED BY <1>1, <1>2, <1>p, <2>2
<1>13. /\ g.head[c] = IF Len(q) = 0 THEN None ELSE q[1]
       /\ g.tail[c] = IF Len(q) = 0 THEN None ELSE q[Len(q)]
    <2>1. h.head[c] = s[1] /\ h.tail[c] = s[Len(s)] /\ Len(s) # 0
          /\ 1 \in 1 .. Len(s) /\ Len(s) \in 1 .. Len(s)
        BY <1>1, <1>p DEF InOrder
    <2>2. (s[1] = n <=> p = 1) /\ (s[Len(s)] = n <=> p = Len(s))
        BY <1>8, <1>p, <2>1
    <2>3. p # 1 => q[1] = s[1] /\ Len(q) # 0
        BY <1>1, <1>2, <1>5, <1>p, <2>1
    <2>4. p = 1 /\ Len(s) # 1 => q[1] = s[2]
        <3>1. Len(s) # 1 => 2 \in 1 .. Len(s)
            <4>1. \A l \in Nat : l # 0 /\ l # 1 => 2 \in 1 .. l
                OBVIOUS
            <4> QED BY <1>1, <2>1, <4>1
        <3>2. 2 > 1 /\ 2 - 1 = 1
            OBVIOUS
        <3> QED BY <1>5, <3>1, <3>2
    <2>5. p # Len(s) => q[Len(q)] = s[Len(s)] /\ Len(q) # 0
        <3>1. p # Len(s) => Len(s) > p /\ Len(s) - 1 = Len(q) /\ Len(q) # 0
            BY <1>1, <1>2, <1>p
        <3> QED BY <1>5, <2>1, <3>1
    <2>6. p = Len(s) /\ Len(s) # 1 => q[Len(q)] = s[Len(s) - 1]
        <3>1. p = Len(s) /\ Len(s) # 1 => /\ Len(s) - 1 \in 1 .. Len(s)
                                          /\ Len(s) - 1 < p /\ Len(q) = Len(s) - 1
            BY <1>1, <1>2, <1>p
        <3> QED BY <1>5, <3>1
    <2>7. Len(q) = 0 <=> Len(s) = 1
        BY <1>1, <1>2
    <2>8. g.head[c] = IF p = 1 THEN h.next[n] ELSE s[1]
        BY <1>3, <2>1, <2>2
    <2>9. g.tail[c] = IF p = Len(s) THEN h.prev[n] ELSE s[Len(s)]
        BY <1>3, <2>1, <2>2
    <2>10. p = 1 => h.next[n] = IF Len(s) = 1 THEN None ELSE s[2]
        BY <1>9
    <2>11. p = Len(s) => h.prev[n] = IF Len(s) = 1 THEN None ELSE s[Len(s) - 1]
        BY <1>9
    <2>12. Len(s) = 1 => p = 1
        BY <1>p
    <2> QED BY <2>3, <2>4, <2>5, <2>6, <2>7, <2>8, <2>9, <2>10, <2>11, <2>12
<1>14. ASSUME NEW e \in Container, e # c
       PROVE  /\ g.head[e] = IF Len(L[e]) = 0 THEN None ELSE L[e][1]
              /\ g.tail[e] = IF Len(L[e]) = 0 THEN None ELSE L[e][Len(L[e])]
              /\ \A i \in 1 .. Len(L[e]) :
                    /\ g.container[L[e][i]] = e
                    /\ g.next[L[e][i]] = IF i = Len(L[e]) THEN None ELSE L[e][i + 1]
                    /\ g.prev[L[e][i]] = IF i = 1 THEN None ELSE L[e][i - 1]
              /\ \A i, j \in 1 .. Len(L[e]) : L[e][i] = L[e][j] => i = j
    <2> DEFINE t == L[e]
    <2>1. /\ h.head[e] = IF Len(t) = 0 THEN None ELSE t[1]
          /\ h.tail[e] = IF Len(t) = 0 THEN None ELSE t[Len(t)]
          /\ t \in Seq(Node)
          /\ \A i, j \in 1 .. Len(t) : t[i] = t[j] => i = j
        BY DEF InOrder
    <2>2. \A i \in 1 .. Len(t) :
             /\ t[i] \in Node /\ h.container[t[i]] = e
             /\ h.next[t[i]] = IF i = Len(t) THEN None ELSE t[i + 1]
             /\ h.prev[t[i]] = IF i = 1 THEN None ELSE t[i - 1]
        BY <2>1 DEF InOrder
    <2> HIDE DEF t
    <2>3. /\ h.next[n] # None => h.next[n] \in Node /\ h.container[h.next[n]] = c
          /\ h.prev[n] # None => h.prev[n] \in Node /\ h.container[h.prev[n]] = c
        BY <1>1 DEF Sound, Ctx, LocallyLinked
    <2>4. \A i \in 1 .. Len(t) : /\ g.next[t[i]] = h.next[t[i]]
                                 /\ g.prev[t[i]] = h.prev[t[i]]
                                 /\ g.container[t[i]] = h.container[t[i]]
        <3> SUFFICES ASSUME NEW i \in 1 .. Len(t)
                     PROVE  /\ g.next[t[i]] = h.next[t[i]]
                            /\ g.prev[t[i]] = h.prev[t[i]]
                            /\ g.container[t[i]] = h.container[t[i]]
            OBVIOUS
        <3>1. t[i] \in Node /\ h.container[t[i]] = e
            BY <2>2
        <3>2. t[i] # n /\ t[i] # None
            BY <1>1, <1>14, <3>1, NoneAssumption
        <3>3. t[i] # h.next[n] /\ t[i] # h.prev[n]
            BY <1>14, <2>3, <3>1, <3>2
        <3> QED BY <1>3, <3>1, <3>2, <3>3
    <2>5. h.head[e] # n /\ h.tail[e] # n
        BY <1>1, <1>14 DEF Sound, LocallyLinked
    <2>6. g.head[e] = h.head[e] /\ g.tail[e] = h.tail[e]
        BY <1>3, <2>5
    <2>7. /\ g.head[e] = IF Len(t) = 0 THEN None ELSE t[1]
          /\ g.tail[e] = IF Len(t) = 0 THEN None ELSE t[Len(t)]
          /\ \A i \in 1 .. Len(t) :
                /\ g.container[t[i]] = e
                /\ g.next[t[i]] = IF i = Len(t) THEN None ELSE t[i + 1]
                /\ g.prev[t[i]] = IF i = 1 THEN None ELSE t[i - 1]
        BY <2>1, <2>2, <2>4, <2>6
    <2> QED BY <2>1, <2>7 DEF t
<1>15. ASSUME NEW k \in Node, g.container[k] # None
       PROVE  \E i \in 1 .. Len(M[g.container[k]]) : M[g.container[k]][i] = k
    <2>1. k # n /\ g.container[k] = h.container[k]
        BY <1>3, <1>15
    <2>2. PICK i \in 1 .. Len(L[h.container[k]]) : L[h.container[k]][i] = k
        BY <1>15, <2>1 DEF InOrder
    <2>3. CASE h.container[k] = c
        <3>1. i \in 1 .. Len(s) /\ s[i] = k /\ i # p
            BY <1>p, <2>1, <2>2, <2>3
        <3>2. M[g.container[k]] = q
            BY <1>4, <2>1, <2>3
        <3>3. CASE i < p
            BY <1>5, <3>1, <3>2, <3>3
        <3>4. CASE i > p
            BY <1>5, <3>1, <3>2, <3>4
        <3> QED BY <1>1, <1>p, <3>1, <3>3, <3>4
    <2>4. CASE h.container[k] # c
        <3>1. h.container[k] \in Container
            BY <1>15, <2>1 DEF Sound, Ctx
        <3> QED BY <1>4, <2>1, <2>2, <2>4, <3>1
    <2> QED BY <2>3, <2>4
<1>16. ASSUME NEW e \in Container
       PROVE  /\ g.head[e] = IF Len(M[e]) = 0 THEN None ELSE M[e][1]
              /\ g.tail[e] = IF Len(M[e]) = 0 THEN None ELSE M[e][Len(M[e])]
              /\ \A i \in 1 .. Len(M[e]) :
                    /\ g.container[M[e][i]] = e
                    /\ g.next[M[e][i]] = IF i = Len(M[e]) THEN None ELSE M[e][i + 1]
                    /\ g.prev[M[e][i]] = IF i = 1 THEN None ELSE M[e][i - 1]
              /\ \A i, j \in 1 .. Len(M[e]) : M[e][i] = M[e][j] => i = j
    <2>1. CASE e = c
        BY <1>4, <1>11, <1>12, <1>13, <2>1
    <2>2. CASE e # c
        BY <1>4, <1>14, <2>2
    <2> QED BY <2>1, <2>2
<1>17. InOrder(g, M)
    BY <1>4, <1>15, <1>16 DEF InOrder
<1> QED BY <1>17 DEF M, q, g, n

(* A node that is in no container is unlinked without effect. *)
LEMMA UnlinkNothing ==
    ASSUME NEW h, Sound(h), NEW n \in Node, h.container[n] = None
    PROVE  Unlink(h, n) = h
<1>1. /\ h = [head |-> h.head, tail |-> h.tail, next |-> h.next, prev |-> h.prev,
              container |-> h.container]
      /\ h.next \in [Node -> Node \cup {None}] /\ h.prev \in [Node -> Node \cup {None}]
      /\ h.container \in [Node -> Container \cup {None}]
      /\ h.next[n] = None /\ h.prev[n] = None
    BY DEF Sound, Ctx, LocallyLinked
<1>2. /\ [h.next EXCEPT ![n] = None] = h.next
      /\ [h.prev EXCEPT ![n] = None] = h.prev
      /\ [h.container EXCEPT ![n] = None] = h.container
    BY <1>1
<1> QED BY <1>1, <1>2 DEF Unlink, Set

LEMMA EmptyInOrder == InOrder(EmptyCtx, [c \in Container |-> <<>>])
BY DEF InOrder, EmptyCtx

-----------------------------------------------------------------------------
(***************************************************************************)
(* The same edits, written with concatenations.                            *)
(***************************************************************************)

LEMMA ThreeParts ==
    ASSUME NEW x \in Seq(Node), NEW n \in Node, NEW y \in Seq(Node)
    PROVE  /\ (x \o <<n>>) \o y \in Seq(Node)
           /\ Len((x \o <<n>>) \o y) = Len(x) + 1 + Len(y)
           /\ \A i \in 1 .. (Len(x) + 1 + Len(y)) : ((x \o <<n>>) \o y)[i] =
                 IF i <= Len(x) THEN x[i] ELSE IF i = Len(x) + 1 THEN n ELSE y[i - Len(x) - 1]
<1> DEFINE t == x \o <<n>>
<1>1. Len(x) \in Nat /\ Len(y) \in Nat
    OBVIOUS
<1>2. /\ t \in Seq(Node) /\ Len(t) = Len(x) + 1
      /\ \A i \in 1 .. (Len(x) + 1) : t[i] = IF i <= Len(x) THEN x[i] ELSE n
    <2>1. <<n>> \in Seq(Node) /\ Len(<<n>>) = 1 /\ <<n>>[1] = n
        OBVIOUS
    <2>2. /\ t \in Seq(Node) /\ Len(t) = Len(x) + 1
          /\ \A i \in 1 .. (Len(x) + 1) :
                t[i] = IF i <= Len(x) THEN x[i] ELSE <<n>>[i - Len(x)]
        BY <2>1, ConcatProperties
    <2> QED BY <1>1, <2>1, <2>2
<1> HIDE DEF t
<1>3. /\ t \o y \in Seq(Node) /\ Len(t \o y) = Len(t) + Len(y)
      /\ \A i \in 1 .. (Len(t) + Len(y)) :
            (t \o y)[i] = IF i <= Len(t) THEN t[i] ELSE y[i - Len(t)]
    BY <1>2, ConcatProperties
<1>4. ASSUME NEW i \in 1 .. (Len(x) + 1 + Len(y))
      PROVE  (t \o y)[i] =
                 IF i <= Len(x) THEN x[i] ELSE IF i = Len(x) + 1 THEN n ELSE y[i - Len(x) - 1]
    <2>1. CASE i <= Len(t)
        BY <1>1, <1>2, <1>3, <2>1
    <2>2. CASE ~ (i <= Len(t))
        <3>1. i - Len(t) = i - Len(x) - 1
            BY <1>1, <1>2
        <3> QED BY <1>1, <1>2, <1>3, <2>2, <3>1
    <2> QED BY <2>1, <2>2
<1>5. Len(t \o y) = Len(x) + 1 + Len(y)
    BY <1>1, <1>2, <1>3
<1> QED BY <1>3, <1>4, <1>5 DEF t

LEMMA PlacedBetween ==
    ASSUME NEW x \in Seq(Node), NEW n \in Node, NEW y \in Seq(Node)
    PROVE  Placed(x \o y, Len(x), n) = (x \o <<n>>) \o y
<1> DEFINE s == x \o y
           t == (x \o <<n>>) \o y
<1>1. Len(x) \in Nat /\ Len(y) \in Nat
    OBVIOUS
<1>2. /\ s \in Seq(Node) /\ Len(s) = Len(x) + Len(y)
      /\ \A i \in 1 .. (Len(x) + Len(y)) : s[i] = IF i <= Len(x) THEN x[i] ELSE y[i - Len(x)]
    BY ConcatProperties
<1>3. /\ t \in Seq(Node) /\ Len(t) = Len(x) + 1 + Len(y)
      /\ \A i \in 1 .. (Len(x) + 1 + Len(y)) : t[i] =
            IF i <= Len(x) THEN x[i] ELSE IF i = Len(x) + 1 THEN n ELSE y[i - Len(x) - 1]
    BY ThreeParts
<1> HIDE DEF s, t
<1>4. Len(x) \in 0 .. Len(s)
    BY <1>1, <1>2
<1> DEFINE p == Placed(s, Len(x), n)
<1>5. /\ p \in Seq(Node) /\ Len(p) = Len(s) + 1
      /\ \A i \in 1 .. (Len(s) + 1) : p[i] =
            IF i <= Len(x) THEN s[i] ELSE IF i = Len(x) + 1 THEN n ELSE s[i - 1]
    <2> HIDE DEF p
    <2>1. s \in Seq(Node)
        BY <1>2
    <2>2. /\ Placed(s, Len(x), n) \in Seq(Node)
          /\ Len(Placed(s, Len(x), n)) = Len(s) + 1
          /\ \A i \in 1 .. (Len(s) + 1) : Placed(s, Len(x), n)[i] =
                IF i <= Len(x) THEN s[i] ELSE IF i = Len(x) + 1 THEN n ELSE s[i - 1]
        BY <1>4, <2>1, PlacedSeq
    <2> QED BY <2>2 DEF p
<1> HIDE DEF p
<1>6. ASSUME NEW i \in 1 .. Len(p) PROVE p[i] = t[i]
    <2>1. i \in 1 .. (Len(s) + 1) /\ i \in 1 .. (Len(x) + 1 + Len(y))
        BY <1>1, <1>2, <1>5
    <2>2. CASE i <= Len(x)
        <3>1. i \in 1 .. (Len(x) + Len(y))
            BY <1>1, <2>1, <2>2
        <3> QED BY <1>2, <1>3, <1>5, <2>1, <2>2, <3>1
    <2>3. CASE i = Len(x) + 1
        BY <1>1, <1>3, <1>5, <2>1, <2>3
    <2>4. CASE i > Len(x) + 1
        <3>1. i - 1 \in 1 .. (Len(x) + Len(y)) /\ ~ (i - 1 <= Len(x))
              /\ (i - 1) - Len(x) = i - Len(x) - 1 /\ ~ (i <= Len(x)) /\ i # Len(x) + 1
            BY <1>1, <2>1, <2>4
        <3>2. s[i - 1] = y[(i - 1) - Len(x)]
            BY <1>2, <3>1
        <3> QED BY <1>3, <1>5, <2>1, <3>1, <3>2
    <2> QED BY <1>1, <2>1, <2>2, <2>3, <2>4
<1>7. Len(p) = Len(t)
    BY <1>1, <1>2, <1>3, <1>5
<1>8. p = t
    BY <1>3, <1>5, <1>6, <1>7, SeqEqual
<1> QED BY <1>8 DEF p, s, t

LEMMA TakenBetween ==
    ASSUME NEW x \in Seq(Node), NEW n \in Node, NEW y \in Seq(Node)
    PROVE  Taken((x \o <<n>>) \o y, Len(x) + 1) = x \o y
<1> DEFINE s == x \o y
           t == (x \o <<n>>) \o y
<1>1. Len(x) \in Nat /\ Len(y) \in Nat
    OBVIOUS
<1>2. /\ s \in Seq(Node) /\ Len(s) = Len(x) + Len(y)
      /\ \A i \in 1 .. (Len(x) + Len(y)) : s[i] = IF i <= Len(x) THEN x[i] ELSE y[i - Len(x)]
    BY ConcatProperties
<1>3. /\ t \in Seq(Node) /\ Len(t) = Len(x) + 1 + Len(y)
      /\ \A i \in 1 .. (Len(x) + 1 + Len(y)) : t[i] =
            IF i <= Len(x) THEN x[i] ELSE IF i = Len(x) + 1 THEN n ELSE y[i - Len(x) - 1]
    BY ThreeParts
<1> HIDE DEF s, t
<1>4. Len(x) + 1 \in 1 .. Len(t)
    BY <1>1, <1>3
<1> DEFINE q == Taken(t, Len(x) + 1)
<1>5. /\ q \in Seq(Node) /\ Len(q) = Len(t) - 1
      /\ \A i \in 1 .. (Len(t) - 1) : q[i] = IF i < Len(x) + 1 THEN t[i] ELSE t[i + 1]
    BY <1>3, <1>4, TakenSeq
<1> HIDE DEF q
<1>6. ASSUME NEW i \in 1 .. Len(q) PROVE q[i] = s[i]
    <2>1. i \in 1 .. (Len(t) - 1) /\ i \in 1 .. (Len(x) + Len(y))
        BY <1>1, <1>3, <1>5
    <2>2. CASE i <= Len(x)
        <3>1. i \in 1 .. (Len(x) + 1 + Len(y)) /\ i < Len(x) + 1
            BY <1>1, <2>1, <2>2
        <3> QED BY <1>2, <1>3, <1>5, <2>1, <2>2, <3>1
    <2>3. CASE i > Len(x)
        <3>1. /\ i + 1 \in 1 .. (Len(x) + 1 + Len(y)) /\ ~ (i + 1 <= Len(x))
              /\ i + 1 # Len(x) + 1 /\ (i + 1) - Len(x) - 1 = i - Len(x)
              /\ ~ (i < Len(x) + 1) /\ ~ (i <= Len(x))
            BY <1>1, <2>1, <2>3
        <3>2. t[i + 1] = y[(i + 1) - Len(x) - 1]
            BY <1>3, <3>1
        <3> QED BY <1>2, <1>5, <2>1, <3>1, <3>2
    <2> QED BY <1>1, <2>1, <2>2, <2>3
<1>7. Len(q) = Len(s)
    BY <1>1, <1>2, <1>3, <1>5
<1>8. q = s
    BY <1>2, <1>5, <1>6, <1>7, SeqEqual
<1> QED BY <1>8 DEF q, s, t

(* Every element of a sequence lies between the ones before and after it. *)
LEMMA Surrounded ==
    ASSUME NEW s \in Seq(Node), NEW p \in 1 .. Len(s)
    PROVE  \E x, y \in Seq(Node) : /\ s = (x \o <<s[p]>>) \o y
                                   /\ Len(x) = p - 1
<1> DEFINE x == SubSeq(s, 1, p - 1)
           y == SubSeq(s, p + 1, Len(s))
           n == s[p]
<1>1. Len(s) \in Nat /\ p \in Nat /\ \A i \in 1 .. Len(s) : s[i] \in Node
    OBVIOUS
<1>2. x \in Seq(Node) /\ Len(x) = p - 1 /\ \A i \in 1 .. (p - 1) : x[i] = s[i]
    <2>1. \A i \in 1 .. (p - 1) : s[i] \in Node
        BY <1>1
    <2>2. /\ x \in Seq(Node) /\ Len(x) = IF 1 <= p - 1 THEN p - 1 - 1 + 1 ELSE 0
          /\ \A i \in 1 .. ((p - 1) - 1 + 1) : x[i] = s[1 + i - 1]
        BY <1>1, <2>1, SubSeqProperties
    <2> HIDE DEF x
    <2>3. Len(x) = p - 1
        BY <1>1, <2>2
    <2>4. ASSUME NEW i \in 1 .. (p - 1) PROVE x[i] = s[i]
        <3>1. i \in 1 .. ((p - 1) - 1 + 1) /\ 1 + i - 1 = i
            BY <1>1
        <3> QED BY <2>2, <3>1
    <2> QED BY <2>2, <2>3, <2>4
<1>3. /\ y \in Seq(Node) /\ Len(y) = Len(s) - p
      /\ \A i \in 1 .. (Len(s) - p) : y[i] = s[p + i]
    <2>1. \A i \in (p + 1) .. Len(s) : s[i] \in Node
        BY <1>1
    <2>2. /\ y \in Seq(Node) /\ Len(y) = IF p + 1 <= Len(s) THEN Len(s) - (p + 1) + 1 ELSE 0
          /\ \A i \in 1 .. (Len(s) - (p + 1) + 1) : y[i] = s[(p + 1) + i - 1]
        BY <1>1, <2>1, SubSeqProperties
    <2> HIDE DEF y
    <2>3. Len(y) = Len(s) - p
        BY <1>1, <2>2
    <2>4. ASSUME NEW i \in 1 .. (Len(s) - p) PROVE y[i] = s[p + i]
        <3>1. i \in 1 .. (Len(s) - (p + 1) + 1) /\ (p + 1) + i - 1 = p + i
            BY <1>1
        <3> QED BY <2>2, <3>1
    <2> QED BY <2>2, <2>3, <2>4
<1>n. n \in Node /\ n = s[p]
    BY <1>1
<1> HIDE DEF x, y, n
<1> DEFINE t == (x \o <<n>>) \o y
<1>4. /\ t \in Seq(Node) /\ Len(t) = Len(x) + 1 + Len(y)
      /\ \A i \in 1 .. (Len(x) + 1 + Len(y)) : t[i] =
            IF i <= Len(x) THEN x[i] ELSE IF i = Len(x) + 1 THEN n ELSE y[i - Len(x) - 1]
    <2> HIDE DEF t
    <2>1. x \in Seq(Node) /\ y \in Seq(Node) /\ n \in Node
        BY <1>2, <1>3, <1>n
    <2>2. /\ (x \o <<n>>) \o y \in Seq(Node)
          /\ Len((x \o <<n>>) \o y) = Len(x) + 1 + Len(y)
          /\ \A i \in 1 .. (Len(x) + 1 + Len(y)) : ((x \o <<n>>) \o y)[i] =
                IF i <= Len(x) THEN x[i] ELSE IF i = Len(x) + 1 THEN n ELSE y[i - Len(x) - 1]
        BY <2>1, ThreeParts
    <2> QED BY <2>2 DEF t
<1> HIDE DEF t
<1>5. Len(t) = Len(s)
    BY <1>1, <1>2, <1>3, <1>4
<1>6. ASSUME NEW i \in 1 .. Len(t) PROVE t[i] = s[i]
    <2>1. i \in 1 .. (Len(x) + 1 + Len(y)) /\ i \in 1 .. Len(s)
        BY <1>4, <1>5
    <2>2. CASE i < p
        BY <1>1, <1>2, <1>4, <2>1, <2>2
    <2>3. CASE i = p
        BY <1>1, <1>2, <1>4, <1>n, <2>1, <2>3
    <2>4. CASE i > p
        <3>1. /\ ~ (i <= Len(x)) /\ i # Len(x) + 1
              /\ i - Len(x) - 1 \in 1 .. (Len(s) - p) /\ p + (i - Len(x) - 1) = i
            BY <1>1, <1>2, <2>1, <2>4
        <3>2. y[i - Len(x) - 1] = s[p + (i - Len(x) - 1)]
            BY <1>3, <3>1
        <3> QED BY <1>4, <2>1, <3>1, <3>2
    <2> QED BY <1>1, <2>1, <2>2, <2>3, <2>4
<1>7. t = s
    BY <1>4, <1>5, <1>6, SeqEqual
<1> QED BY <1>2, <1>3, <1>7, <1>n DEF t

LEMMA InsertAfterBetween ==
    ASSUME NEW h, Sound(h), NEW L, InOrder(h, L), NEW c \in Container,
           NEW x \in Seq(Node), NEW y \in Seq(Node), L[c] = x \o y, x # <<>>,
           NEW n \in Node, h.container[n] = None
    PROVE  InOrder(InsertAfter(h, x[Len(x)], n), [L EXCEPT ![c] = (x \o <<n>>) \o y])
<1> DEFINE s == L[c]
<1>1. /\ Len(x) \in 1 .. Len(s) /\ s[Len(x)] = x[Len(x)] /\ s = L[c] /\ s = x \o y
    <2>1. Len(x) \in Nat /\ Len(y) \in Nat /\ Len(x) # 0
        OBVIOUS
    <2>2. /\ Len(x \o y) = Len(x) + Len(y)
          /\ \A i \in 1 .. (Len(x) + Len(y)) :
                (x \o y)[i] = IF i <= Len(x) THEN x[i] ELSE y[i - Len(x)]
        BY ConcatProperties
    <2>3. Len(x) \in 1 .. (Len(x) + Len(y))
        BY <2>1
    <2> QED BY <2>1, <2>2, <2>3
<1> HIDE DEF s
<1>2. InOrder(InsertAfter(h, s[Len(x)], n), [L EXCEPT ![c] = Placed(@, Len(x), n)])
    BY <1>1, InsertAfterInOrder
<1>3. Placed(x \o y, Len(x), n) = (x \o <<n>>) \o y
    BY PlacedBetween
<1>4. [L EXCEPT ![c] = Placed(@, Len(x), n)] = [L EXCEPT ![c] = (x \o <<n>>) \o y]
    BY <1>1, <1>3
<1> QED BY <1>1, <1>2, <1>4

LEMMA InsertBeforeBetween ==
    ASSUME NEW h, Sound(h), NEW L, InOrder(h, L), NEW c \in Container,
           NEW x \in Seq(Node), NEW y \in Seq(Node), L[c] = x \o y, y # <<>>,
           NEW n \in Node, h.container[n] = None
    PROVE  InOrder(InsertBefore(h, y[1], n), [L EXCEPT ![c] = (x \o <<n>>) \o y])
<1> DEFINE s == L[c]
<1>1. /\ Len(x) + 1 \in 1 .. Len(s) /\ s[Len(x) + 1] = y[1] /\ s = L[c] /\ s = x \o y
    <2>1. Len(x) \in Nat /\ Len(y) \in Nat /\ Len(y) # 0
        OBVIOUS
    <2>2. /\ Len(x \o y) = Len(x) + Len(y)
          /\ \A i \in 1 .. (Len(x) + Len(y)) :
                (x \o y)[i] = IF i <= Len(x) THEN x[i] ELSE y[i - Len(x)]
        BY ConcatProperties
    <2>3. /\ Len(x) + 1 \in 1 .. (Len(x) + Len(y)) /\ ~ (Len(x) + 1 <= Len(x))
          /\ (Len(x) + 1) - Len(x) = 1
        BY <2>1
    <2> QED BY <2>1, <2>2, <2>3
<1> HIDE DEF s
<1>2. InOrder(InsertBefore(h, s[Len(x) + 1], n),
              [L EXCEPT ![c] = Placed(@, (Len(x) + 1) - 1, n)])
    BY <1>1, InsertBeforeInOrder
<1>3. Placed(x \o y, Len(x), n) = (x \o <<n>>) \o y
    BY PlacedBetween
<1>4. (Len(x) + 1) - 1 = Len(x)
    OBVIOUS
<1>5. [L EXCEPT ![c] = Placed(@, (Len(x) + 1) - 1, n)]
        = [L EXCEPT ![c] = (x \o <<n>>) \o y]
    BY <1>1, <1>3, <1>4
<1> QED BY <1>1, <1>2, <1>5

LEMMA UnlinkBetween ==
    ASSUME NEW h, Sound(h), NEW L, InOrder(h, L), NEW c \in Container,
           NEW x \in Seq(Node), NEW n \in Node, NEW y \in Seq(Node),
           L[c] = (x \o <<n>>) \o y
    PROVE  InOrder(Unlink(h, n), [L EXCEPT ![c] = x \o y])
<1> DEFINE s == L[c]
           t == (x \o <<n>>) \o y
<1>1. Len(x) \in Nat /\ Len(y) \in Nat
    OBVIOUS
<1>2. Len(t) = Len(x) + 1 + Len(y) /\ t[Len(x) + 1] = n
    <2>1. /\ Len(t) = Len(x) + 1 + Len(y)
          /\ \A i \in 1 .. (Len(x) + 1 + Len(y)) : t[i] =
                IF i <= Len(x) THEN x[i] ELSE IF i = Len(x) + 1 THEN n
                ELSE y[i - Len(x) - 1]
        BY ThreeParts
    <2> HIDE DEF t
    <2>2. Len(x) + 1 \in 1 .. (Len(x) + 1 + Len(y)) /\ ~ (Len(x) + 1 <= Len(x))
        BY <1>1
    <2> QED BY <2>1, <2>2
<1>3. s = L[c] /\ s = t
    OBVIOUS
<1>4. Taken(t, Len(x) + 1) = x \o y
    BY TakenBetween
<1> HIDE DEF s, t
<1>5. Len(x) + 1 \in 1 .. Len(s) /\ s[Len(x) + 1] = n
    BY <1>1, <1>2, <1>3
<1>6. InOrder(Unlink(h, s[Len(x) + 1]), [L EXCEPT ![c] = Taken(@, Len(x) + 1)])
    BY <1>3, <1>5, UnlinkInOrder
<1>7. [L EXCEPT ![c] = Taken(@, Len(x) + 1)] = [L EXCEPT ![c] = x \o y]
    BY <1>3, <1>4
<1> QED BY <1>5, <1>6, <1>7

LEMMA PushEnds ==
    ASSUME NEW h, Sound(h), NEW L, InOrder(h, L), NEW c \in Container,
           NEW n \in Node, h.container[n] = None
    PROVE  /\ InOrder(PushFront(h, c, n), [L EXCEPT ![c] = <<n>> \o @])
           /\ InOrder(PushBack(h, c, n), [L EXCEPT ![c] = @ \o <<n>>])
<1> DEFINE s == L[c]
<1>1. s \in Seq(Node) /\ s = L[c] /\ <<>> \in Seq(Node) /\ <<n>> \in Seq(Node)
    BY DEF InOrder
<1>2. /\ InOrder(PushFront(h, c, n), [L EXCEPT ![c] = Placed(@, 0, n)])
      /\ InOrder(PushBack(h, c, n), [L EXCEPT ![c] = Placed(@, Len(L[c]), n)])
    BY PushInOrder
<1> HIDE DEF s
<1>3. Placed(s, 0, n) = <<n>> \o s
    <2>1. Placed(<<>> \o s, Len(<<>>), n) = (<<>> \o <<n>>) \o s
        BY <1>1, PlacedBetween
    <2>2. <<>> \o s = s /\ <<>> \o <<n>> = <<n>>
        BY <1>1, ConcatEmptySeq
    <2>3. Len(<<>>) = 0
        OBVIOUS
    <2> QED BY <2>1, <2>2, <2>3
<1>4. Placed(s, Len(s), n) = s \o <<n>>
    <2>1. Placed(s \o <<>>, Len(s), n) = (s \o <<n>>) \o <<>>
        BY <1>1, PlacedBetween
    <2>2. s \o <<n>> \in Seq(Node)
        BY <1>1, ConcatProperties
    <2>3. s \o <<>> = s /\ (s \o <<n>>) \o <<>> = s \o <<n>>
        BY <1>1, <2>2, ConcatEmptySeq
    <2> QED BY <2>1, <2>3
<1>5. /\ [L EXCEPT ![c] = Placed(@, 0, n)] = [L EXCEPT ![c] = <<n>> \o @]
      /\ [L EXCEPT ![c] = Placed(@, Len(L[c]), n)] = [L EXCEPT ![c] = @ \o <<n>>]
    BY <1>1, <1>3, <1>4
<1> QED BY <1>2, <1>5

(* A turn of append: the first node of o goes to the end of c; a turn of   *)
(* split: the last one goes to the front.  c may be o.                     *)
LEMMA MoveBackInOrder ==
    ASSUME NEW h, Sound(h), NEW L, InOrder(h, L), NEW c \in Container, NEW o \in Container,
           NEW n \in Node, NEW y \in Seq(Node), L[o] = <<n>> \o y
    PROVE  InOrder(PushBack(Unlink(h, n), c, n),
                   [[L EXCEPT ![o] = y] EXCEPT ![c] = @ \o <<n>>])
<1> DEFINE g == Unlink(h, n)
           M == [L EXCEPT ![o] = y]
<1>1. <<>> \in Seq(Node) /\ <<n>> \in Seq(Node)
    OBVIOUS
<1>2. L[o] = (<<>> \o <<n>>) \o y /\ <<>> \o y = y
    BY <1>1, ConcatEmptySeq
<1>3. InOrder(g, M)
    <2>1. InOrder(Unlink(h, n), [L EXCEPT ![o] = <<>> \o y])
        BY <1>1, <1>2, UnlinkBetween
    <2> QED BY <1>2, <2>1
<1>4. Sound(g) /\ g.container[n] = None
    BY UnlinkSound DEF Sound, Ctx
<1> HIDE DEF g, M
<1>5. InOrder(PushBack(g, c, n), [M EXCEPT ![c] = @ \o <<n>>])
    BY <1>3, <1>4, PushEnds
<1> QED BY <1>5 DEF g, M

LEMMA MoveFrontInOrder ==
    ASSUME NEW h, Sound(h), NEW L, InOrder(h, L), NEW c \in Container, NEW o \in Container,
           NEW n \in Node, NEW x \in Seq(Node), L[o] = x \o <<n>>
    PROVE  InOrder(PushFront(Unlink(h, n), c, n),
                   [[L EXCEPT ![o] = x] EXCEPT ![c] = <<n>> \o @])
<1> DEFINE g == Unlink(h, n)
           M == [L EXCEPT ![o] = x]
<1>1. <<>> \in Seq(Node) /\ x \o <<n>> \in Seq(Node)
    BY ConcatProperties
<1>2. L[o] = (x \o <<n>>) \o <<>> /\ x \o <<>> = x
    BY <1>1, ConcatEmptySeq
<1>3. InOrder(g, M)
    <2>1. InOrder(Unlink(h, n), [L EXCEPT ![o] = x \o <<>>])
        BY <1>1, <1>2, UnlinkBetween
    <2> QED BY <1>2, <2>1
<1>4. Sound(g) /\ g.container[n] = None
    BY UnlinkSound DEF Sound, Ctx
<1> HIDE DEF g, M
<1>5. InOrder(PushFront(g, c, n), [M EXCEPT ![c] = <<n>> \o @])
    BY <1>3, <1>4, PushEnds
<1> QED BY <1>5 DEF g, M
=============================================================================
