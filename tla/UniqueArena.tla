---------------------------- MODULE UniqueArena -----------------------------
(***************************************************************************)
(* UniqueArena of infra/storage.rs: an arena that stores equal data once.  *)
(* unique_map sends the hash of a value to the pointers whose data has     *)
(* that hash.  The GenericArena below it is the partial map `live` that    *)
(* module Arena is shown to implement (PointerStore).                      *)
(***************************************************************************)
EXTENDS Naturals

CONSTANTS UniquePtr,   \* the pointers a client can hold
          UniqueData,  \* the data
          HashVal,     \* the hash values
          Hash,        \* the hash of every datum
          Absent       \* Option::None

ASSUME UniqueAssumption == /\ Hash \in [UniqueData -> HashVal]
                           /\ Absent \notin UniqueData \cup UniquePtr

VARIABLES live,        \* the data of every pointer in use
          unique_map,  \* the pointers recorded under every hash
          failed,      \* has unreachable!() or expect() failed?
          result,      \* what the last call returned
          mutated      \* history: has stored data been changed in place?

uniqueVars == <<live, unique_map, failed, result, mutated>>

Used == DOMAIN live

UniqueTypeOK == /\ Used \subseteq UniquePtr
                /\ live \in [Used -> UniqueData]
                /\ unique_map \in [HashVal -> SUBSET UniquePtr]
                /\ failed \in BOOLEAN
                /\ result \in UniquePtr \cup UniqueData \cup {Absent}
                /\ mutated \in BOOLEAN

UniqueInit == /\ live = [p \in {} |-> Absent]
              /\ unique_map = [h \in HashVal |-> {}]
              /\ failed = FALSE
              /\ result = Absent
              /\ mutated = FALSE

(* Mutation of Recorded: equal data is not recognised. *)
RecordedNever(d) == {p \in unique_map[Hash[d]] : FALSE}

(* The pointers recorded under the hash of d whose data is d. *)
Recorded(d) == {p \in unique_map[Hash[d]] : p \in Used /\ live[p] = d}

(* alloc looks at the pointers recorded under the hash of d, in any order; *)
(* it returns the first whose data is d, ...                               *)
AllocShared(d) ==
    /\ ~failed
    /\ \E p \in Recorded(d) : result' = p
    /\ UNCHANGED <<live, unique_map, failed, mutated>>

(* Mutation of AllocNew: the new pointer is not recorded. *)
AllocNewUnrecorded(d) ==
    /\ ~failed
    /\ Recorded(d) = {}
    /\ \E p \in UniquePtr \ Used :
          /\ live' = [q \in Used \cup {p} |-> IF q = p THEN d ELSE live[q]]
          /\ result' = p
    /\ UNCHANGED <<unique_map, failed, mutated>>

(* ... or stores d under a new pointer after it has looked at all of them. *)
(* Its expect() fails if one of them is not in use.                        *)
AllocNew(d) ==
    /\ ~failed
    /\ Recorded(d) = {}
    /\ IF unique_map[Hash[d]] \subseteq Used
       THEN /\ \E p \in UniquePtr \ Used :
                  /\ live' = [q \in Used \cup {p} |-> IF q = p THEN d ELSE live[q]]
                  /\ unique_map' = [unique_map EXCEPT ![Hash[d]] = @ \cup {p}]
                  /\ result' = p
            /\ UNCHANGED failed
       ELSE /\ failed' = TRUE
            /\ UNCHANGED <<live, unique_map, result>>
    /\ UNCHANGED mutated

(* try_dealloc of a pointer that is not in use. *)
DeallocInvalid(p) ==
    /\ ~failed
    /\ p \notin Used
    /\ result' = Absent
    /\ UNCHANGED <<live, unique_map, failed, mutated>>

(* try_dealloc of a pointer that is not recorded under the hash of its     *)
(* data: unreachable!().                                                   *)
DeallocUnreachable(p) ==
    /\ ~failed
    /\ p \in Used
    /\ p \notin unique_map[Hash[live[p]]]
    /\ failed' = TRUE
    /\ UNCHANGED <<live, unique_map, result, mutated>>

(* try_dealloc of any other pointer. *)
UniqueDealloc(p) ==
    /\ ~failed
    /\ p \in Used
    /\ p \in unique_map[Hash[live[p]]]
    /\ unique_map' = [unique_map EXCEPT ![Hash[live[p]]] = @ \ {p}]
    /\ live' = [q \in Used \ {p} |-> live[q]]
    /\ result' = live[p]
    /\ UNCHANGED <<failed, mutated>>

(* try_deref_mut, and an assignment of d through the reference. *)
UniqueDerefMut(p, d) ==
    /\ ~failed
    /\ p \in Used
    /\ live' = [live EXCEPT ![p] = d]
    /\ result' = d
    /\ mutated' = TRUE
    /\ UNCHANGED <<unique_map, failed>>

(* try_deref. *)
UniqueDeref(p) ==
    /\ ~failed
    /\ result' = IF p \in Used THEN live[p] ELSE Absent
    /\ UNCHANGED <<live, unique_map, failed, mutated>>

UniqueNext == \/ \E d \in UniqueData : AllocShared(d) \/ AllocNew(d)
              \/ \E p \in UniquePtr : UniqueDealloc(p) \/ DeallocInvalid(p) \/ DeallocUnreachable(p)
              \/ \E p \in UniquePtr, d \in UniqueData : UniqueDerefMut(p, d)
              \/ \E p \in UniquePtr : UniqueDeref(p)

UniqueSpec == UniqueInit /\ [][UniqueNext]_uniqueVars

-----------------------------------------------------------------------------
(* As long as stored data is not changed in place, two pointers are equal  *)
(* exactly if their data is: the compiler compares types by their pointers *)
(* (ir/ty.rs).                                                             *)
StoredOnce == ~mutated => \A p, q \in Used : live[p] = live[q] => p = q

(* As long as stored data is not changed in place, the map records every   *)
(* pointer in use under the hash of its data, and nothing else.            *)
MapMatchesArena ==
    ~mutated => \A h \in HashVal :
                   unique_map[h] = {p \in Used : Hash[live[p]] = h}

(* Data in the arena is recorded, as the unreachable!() of try_dealloc     *)
(* says, and a recorded pointer is in use, as the expect() of alloc says:  *)
(* neither fails before stored data has been changed in place.             *)
PanicsOnlyAfterMutation == failed => mutated

=============================================================================
