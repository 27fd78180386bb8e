------------------------- MODULE MCLinkedListCursor -------------------------
(* Instances of LinkedListCursor for TLC. *)
EXTENDS LinkedListCursor

CONSTANTS n1, n2, n3, n4, c1, c2

FourNodes == {n1, n2, n3, n4}
TwoContainers == {c1, c2}

\* Lists of up to three nodes; the nodes left over are fresh.
UpToThree == {<<>>, <<n1>>, <<n1, n2>>, <<n1, n2, n3>>}
=============================================================================
