---------------------------- MODULE PointerStore ----------------------------
(***************************************************************************)
(* What the trait Arena (infra/storage.rs) promises its clients: a partial *)
(* map from pointers to data.  Allocation hands out a pointer that is not  *)
(* in use; deallocation and dereferencing answer None for a pointer that   *)
(* is not in use; no call touches the data of any other pointer.  Which    *)
(* unused pointer an allocation picks is left open.                        *)
(***************************************************************************)
EXTENDS Naturals

CONSTANTS Ptr,   \* the pointers a client can hold
          Data,  \* the data an arena stores
          None   \* Option::None

VARIABLES live,  \* the data of every pointer in use
          ret    \* what the last call returned

vars == <<live, ret>>

Used == DOMAIN live

Init == /\ live = [p \in {} |-> None]
        /\ ret = None

(* A fresh pointer now holds d. *)
Alloc(d) ==
    \E p \in Ptr \ Used :
        /\ live' = [q \in Used \cup {p} |-> IF q = p THEN d ELSE live[q]]
        /\ ret' = p

Dealloc(p) ==
    /\ live' = [q \in Used \ {p} |-> live[q]]
    /\ ret' = IF p \in Used THEN live[p] ELSE None

Deref(p) ==
    /\ ret' = IF p \in Used THEN live[p] ELSE None
    /\ UNCHANGED live

(* Writing through a mutable reference. *)
Write(p, d) ==
    /\ ret' = IF p \in Used THEN d ELSE None
    /\ live' = [q \in Used |-> IF q = p THEN d ELSE live[q]]

Next == \/ \E d \in Data : Alloc(d)
        \/ \E p \in Ptr : Dealloc(p) \/ Deref(p)
        \/ \E p \in Ptr, d \in Data : Write(p, d)

Spec == Init /\ [][Next]_vars
=============================================================================
