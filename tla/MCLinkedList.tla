---------------------------- MODULE MCLinkedList ----------------------------
(* Instances of LinkedList for TLC. *)
EXTENDS LinkedList

CONSTANTS n1, n2, n3, c1, c2

ThreeNodes == {n1, n2, n3}
TwoContainers == {c1, c2}
=============================================================================
