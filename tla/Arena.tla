------------------------------- MODULE Arena -------------------------------
(***************************************************************************)
(* GenericArena of infra/storage.rs: a vector of entries threaded by a     *)
(* free list.  A vacant entry names the next vacant one; free_head is the  *)
(* first of them, the entry that was deallocated last.  A pointer is an    *)
(* index: it carries no generation.                                        *)
(***************************************************************************)
EXTENDS Naturals, FiniteSets

CONSTANTS Data,        \* the data the arena stores
          None,        \* Option::None
          MaxEntries   \* bound on the length of the vector

ASSUME ConstAssumption == /\ MaxEntries \in Nat
                          /\ None \notin Nat
                          /\ None \notin Data

VARIABLES entries,    \* the entries, a function on 0 .. len - 1
          len,        \* entries.len()
          free_head,  \* the first vacant entry, or None
          panicked,   \* has unreachable!() been reached?
          ret,        \* what the last call returned
          twice       \* history: has a vacant entry been deallocated?

vars == <<entries, len, free_head, panicked, ret, twice>>

Index == 0 .. (MaxEntries - 1)

(* The pointers clients pass: the indices, and one that is out of range. *)
Ptr == 0 .. MaxEntries

Vacant(next) == [kind |-> "Vacant", next |-> next]
Occupied(d) == [kind |-> "Occupied", data |-> d]

(* A vacant entry never links past the end of the vector. *)
Entry == {Vacant(n) : n \in (0 .. (len - 1)) \cup {None}}
           \cup {Occupied(d) : d \in Data}

Vacants == {i \in 0 .. (len - 1) : entries[i].kind = "Vacant"}
Live == {i \in 0 .. (len - 1) : entries[i].kind = "Occupied"}

TypeOK == /\ len \in 0 .. MaxEntries
          /\ entries \in [0 .. (len - 1) -> Entry]
          /\ free_head \in (0 .. (len - 1)) \cup {None}
          /\ panicked \in BOOLEAN
          /\ ret \in Index \cup Data \cup {None}
          /\ twice \in BOOLEAN

-----------------------------------------------------------------------------
Init == /\ entries = [i \in {} |-> None]
        /\ len = 0
        /\ free_head = None
        /\ panicked = FALSE
        /\ ret = None
        /\ twice = FALSE

(* Mutation of AllocVacant: free_head is not advanced. *)
AllocVacantStuckHead(d) ==
    /\ ~panicked
    /\ free_head # None
    /\ entries[free_head].kind = "Vacant"
    /\ entries' = [entries EXCEPT ![free_head] = Occupied(d)]
    /\ ret' = free_head
    /\ UNCHANGED <<free_head, len, panicked, twice>>

(* Mutation of AllocVacant: the rest of the free list is dropped. *)
AllocVacantDropsRest(d) ==
    /\ ~panicked
    /\ free_head # None
    /\ entries[free_head].kind = "Vacant"
    /\ free_head' = None
    /\ entries' = [entries EXCEPT ![free_head] = Occupied(d)]
    /\ ret' = free_head
    /\ UNCHANGED <<len, panicked, twice>>

(* alloc, when the free list is not empty: the head is taken and its next  *)
(* becomes the new head.                                                   *)
AllocVacant(d) ==
    /\ ~panicked
    /\ free_head # None
    /\ entries[free_head].kind = "Vacant"
    /\ free_head' = entries[free_head].next
    /\ entries' = [entries EXCEPT ![free_head] = Occupied(d)]
    /\ ret' = free_head
    /\ UNCHANGED <<len, panicked, twice>>

(* Mutation of AllocUnreachable: an occupied head is handed out again. *)
AllocUnreachableReuses ==
    /\ ~panicked
    /\ free_head # None
    /\ entries[free_head].kind = "Occupied"
    /\ ret' = free_head
    /\ UNCHANGED <<entries, len, free_head, panicked, twice>>

(* alloc, when the head of the free list is an occupied entry:             *)
(* unreachable!(), after free_head.take().                                 *)
AllocUnreachable ==
    /\ ~panicked
    /\ free_head # None
    /\ entries[free_head].kind = "Occupied"
    /\ free_head' = None
    /\ panicked' = TRUE
    /\ UNCHANGED <<entries, len, ret, twice>>

(* alloc, when the free list is empty: a new entry is pushed. *)
AllocPush(d) ==
    /\ ~panicked
    /\ free_head = None
    /\ len < MaxEntries
    /\ entries' = [i \in 0 .. len |-> IF i = len THEN Occupied(d) ELSE entries[i]]
    /\ len' = len + 1
    /\ ret' = len
    /\ UNCHANGED <<free_head, panicked, twice>>

(* Mutation of DeallocEntry: the old head is not linked behind the entry. *)
DeallocEntryUnlinked(p) ==
    /\ ~panicked
    /\ p < len
    /\ entries' = [entries EXCEPT ![p] = Vacant(None)]
    /\ free_head' = p
    /\ ret' = IF p \in Live THEN entries[p].data ELSE None
    /\ twice' = (twice \/ p \in Vacants)
    /\ UNCHANGED <<len, panicked>>

(* try_dealloc of a pointer within the vector: the entry becomes the head  *)
(* of the free list whatever it was; only the answer depends on it.        *)
DeallocEntry(p) ==
    /\ ~panicked
    /\ p < len
    /\ entries' = [entries EXCEPT ![p] = Vacant(free_head)]
    /\ free_head' = p
    /\ ret' = IF p \in Live THEN entries[p].data ELSE None
    /\ twice' = (twice \/ p \in Vacants)
    /\ UNCHANGED <<len, panicked>>

(* try_dealloc of a pointer past the end of the vector. *)
DeallocOutOfRange(p) ==
    /\ ~panicked
    /\ p >= len
    /\ ret' = None
    /\ UNCHANGED <<entries, len, free_head, panicked, twice>>

(* try_deref. *)
Deref(p) ==
    /\ ~panicked
    /\ ret' = IF p \in Live THEN entries[p].data ELSE None
    /\ UNCHANGED <<entries, len, free_head, panicked, twice>>

(* try_deref_mut, and an assignment of d through the reference it returns. *)
DerefMut(p, d) ==
    /\ ~panicked
    /\ ret' = IF p \in Live THEN d ELSE None
    /\ entries' = IF p \in Live THEN [entries EXCEPT ![p] = Occupied(d)] ELSE entries
    /\ UNCHANGED <<len, free_head, panicked, twice>>

Dealloc(p) == DeallocEntry(p) \/ DeallocOutOfRange(p)

Next == \/ \E d \in Data : AllocVacant(d) \/ AllocPush(d)
        \/ AllocUnreachable
        \/ \E p \in Ptr : Dealloc(p)
        \/ \E p \in Ptr : Deref(p)
        \/ \E p \in Ptr, d \in Data : DerefMut(p, d)

Spec == Init /\ [][Next]_vars

-----------------------------------------------------------------------------
(* The free list is a stack that holds every vacant entry exactly once:    *)
(* starting from free_head and following next, each vacant entry is met    *)
(* once, no occupied entry is met, and the walk ends.                      *)
FreeStack ==
    LET n == Cardinality(Vacants) IN
    \E s \in [1 .. n -> Vacants] :
        /\ \A i, j \in 1 .. n : s[i] = s[j] => i = j
        /\ \A v \in Vacants : \E i \in 1 .. n : s[i] = v
        /\ free_head = IF n = 0 THEN None ELSE s[1]
        /\ \A i \in 1 .. n :
              entries[s[i]].next = IF i = n THEN None ELSE s[i + 1]

(* As long as no vacant entry is deallocated again, no entry leaks from    *)
(* the free list and none is in it twice.                                  *)
FreeListIsStack == ~twice => FreeStack

(* alloc panics only after a vacant entry has been deallocated again.      *)
PanicsOnlyAfterDoubleFree == panicked => twice

(* As long as no vacant entry is deallocated again, the vector grows only  *)
(* when every entry is occupied: a vacant entry is found before new        *)
(* storage is taken.                                                       *)
GrowOnlyWhenFull == [][len' > len => twice \/ Vacants = {}]_vars

(* The arena implements the abstract pointer store: whatever the free list *)
(* looks like, an allocation never hands out a pointer in use and no call  *)
(* disturbs the data of another pointer.                                   *)
Store == INSTANCE PointerStore
           WITH live <- [i \in Live |-> entries[i].data], ret <- ret

ImplementsStore == Store!Spec

=============================================================================
