------------------------------ MODULE ListSeq -------------------------------
(***************************************************************************)
(* What the linked lists of infra/linked_list.rs promise their clients: a  *)
(* container is a sequence of nodes, no node is in two places, and every   *)
(* operation, append, split and the three extends included, is one atomic  *)
(* edit of these sequences, with the error the documentation names.        *)
(***************************************************************************)
EXTENDS Naturals, Sequences, SequencesExt

CONSTANTS Node, Container,
          MaxBatch  \* bound on the nodes passed to one extend

VARIABLES lists,  \* the sequence of nodes of every container
          ret     \* the result of the last operation

vars == <<lists, ret>>

LinkedNodes == UNION {ToSet(lists[c]) : c \in Container}
ContainerOf(n) == CHOOSE c \in Container : n \in ToSet(lists[c])
Position(n) == CHOOSE i \in DOMAIN lists[ContainerOf(n)] : lists[ContainerOf(n)][i] = n

OkResult == [err |-> "Ok"]
Error(kind, n) == [err |-> kind, node |-> n]

(* The nodes s are inserted after the first i nodes of a sequence. *)
Insert(list, i, s) == SubSeq(list, 1, i) \o s \o SubSeq(list, i + 1, Len(list))

(* How many of the nodes s can be inserted one by one: an extend stops at  *)
(* the first node that is in a container already, possibly because the     *)
(* same extend has just inserted it.                                       *)
Acceptable(s) ==
    CHOOSE k \in 0 .. Len(s) :
        /\ \A i \in 1 .. k : s[i] \notin LinkedNodes \cup {s[j] : j \in 1 .. (i - 1)}
        /\ k < Len(s) => s[k + 1] \in LinkedNodes \cup {s[j] : j \in 1 .. k}

(* The nodes s go into container c after its first i nodes, as far as they *)
(* can.                                                                    *)
InsertAll(c, i, s) ==
    LET k == Acceptable(s) IN
    /\ lists' = [lists EXCEPT ![c] = Insert(@, i, SubSeq(s, 1, k))]
    /\ ret' = IF k = Len(s) THEN OkResult ELSE Error("NodeAlreadyInContainer", s[k + 1])

Fail(error) == ret' = error /\ UNCHANGED lists

Init == lists = [c \in Container |-> <<>>] /\ ret = OkResult

(* push_front of one node. *)
PushFront(c, n) == InsertAll(c, 0, <<n>>)

(* push_back of one node, extend of many. *)
Extend(c, s) == InsertAll(c, Len(lists[c]), s)

(* insert_after of one node, extend_after of many. *)
ExtendAfter(m, s) ==
    IF m \in LinkedNodes THEN InsertAll(ContainerOf(m), Position(m), s)
    ELSE Fail(IF s = <<>> THEN OkResult ELSE Error("CurrentNodeNotLinked", m))

(* insert_before of one node, extend_before of many. *)
ExtendBefore(m, s) ==
    IF m \in LinkedNodes THEN InsertAll(ContainerOf(m), Position(m) - 1, s)
    ELSE Fail(IF s = <<>> THEN OkResult ELSE Error("CurrentNodeNotLinked", m))

Unlink(n) ==
    /\ lists' = IF n \in LinkedNodes
                THEN [lists EXCEPT ![ContainerOf(n)] = RemoveAt(@, Position(n))]
                ELSE lists
    /\ UNCHANGED ret

(* The nodes of o move to the end of c, in order; a list that is appended  *)
(* to itself is not empty afterwards, which a debug_assert!() excludes.    *)
Drain(c, o) ==
    IF c = o /\ lists[c] # <<>> THEN Fail([err |-> "debug_assert"])
    ELSE /\ lists' = [lists EXCEPT ![c] = @ \o lists[o], ![o] = <<>>]
         /\ ret' = OkResult

(* The nodes of c after pos move to the front of o, in order.  Splitting a *)
(* list into itself rotates it.                                            *)
Split(c, o, pos) ==
    IF pos \in ToSet(lists[c])
    THEN LET front == SubSeq(lists[c], 1, Position(pos))
             back == SubSeq(lists[c], Position(pos) + 1, Len(lists[c]))
         IN /\ lists' = IF c = o THEN [lists EXCEPT ![c] = back \o front]
                        ELSE [lists EXCEPT ![c] = front, ![o] = back \o @]
            /\ ret' = OkResult
    ELSE Fail(Error("PositionNodeNotInContainer", pos))

Batch == BoundedSeq(Node, MaxBatch)

Next == \/ \E c \in Container, n \in Node : PushFront(c, n) \/ Extend(c, <<n>>)
        \/ \E m, n \in Node : ExtendAfter(m, <<n>>) \/ ExtendBefore(m, <<n>>)
        \/ \E c \in Container, s \in Batch : Extend(c, s)
        \/ \E m \in Node, s \in Batch : ExtendAfter(m, s) \/ ExtendBefore(m, s)
        \/ \E n \in Node : Unlink(n)
        \/ \E c, o \in Container : Drain(c, o)
        \/ \E c, o \in Container, pos \in Node : Split(c, o, pos)

Spec == Init /\ [][Next]_vars
=============================================================================
