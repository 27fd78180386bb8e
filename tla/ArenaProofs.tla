---------------------------- MODULE ArenaProofs -----------------------------
(***************************************************************************)
(* What holds of GenericArena for every size of the vector and every kind  *)
(* of data: type correctness and the implementation of PointerStore for    *)
(* all clients, the shape of the free list as long as no vacant entry has  *)
(* been deallocated again; and of UniqueArena for any data, hash function  *)
(* and set of pointers.                                                    *)
(***************************************************************************)
EXTENDS Arena, UniqueArena, FiniteSetTheorems, TLAPS

USE ConstAssumption DEF ConstAssumption

LEMMA EntryKinds ==
    ASSUME NEW e \in Entry
    PROVE  /\ e.kind \in {"Vacant", "Occupied"}
           /\ e.kind = "Vacant" => e.next \in (0 .. (len - 1)) \cup {None}
           /\ e.kind = "Vacant" => e = Vacant(e.next)
           /\ e.kind = "Occupied" => e.data \in Data
           /\ e.kind = "Occupied" => e = Occupied(e.data)
BY DEF Entry, Vacant, Occupied

LEMMA InitType == Init => TypeOK
<1> SUFFICES ASSUME Init PROVE TypeOK
    OBVIOUS
<1>1. 0 .. (len - 1) = {}
    BY DEF Init
<1>2. entries \in [{} -> Entry]
    BY DEF Init
<1>3. entries \in [0 .. (len - 1) -> Entry]
    BY <1>1, <1>2, Zenon
<1>4. len \in 0 .. MaxEntries /\ free_head = None /\ ret = None
    BY DEF Init
<1>5. panicked \in BOOLEAN /\ twice \in BOOLEAN
    BY Zenon DEF Init
<1> QED BY <1>3, <1>4, <1>5 DEF TypeOK

LEMMA NextType == TypeOK /\ [Next]_vars => TypeOK'
<1> SUFFICES ASSUME TypeOK, [Next]_vars PROVE TypeOK'
    OBVIOUS
<1> USE DEF TypeOK, Index
<1>0. \A i \in 0 .. (len - 1) : entries[i] \in Entry
    OBVIOUS
<1>1. ASSUME NEW d \in Data, AllocVacant(d) PROVE TypeOK'
    <2>1. entries[free_head].next \in (0 .. (len - 1)) \cup {None}
        BY <1>0, <1>1, EntryKinds DEF AllocVacant
    <2>2. entries' \in [0 .. (len - 1) -> Entry]
        BY <1>1 DEF AllocVacant, Entry
    <2> QED BY <1>1, <2>1, <2>2 DEF AllocVacant, Entry
<1>2. ASSUME NEW d \in Data, AllocPush(d) PROVE TypeOK'
    <2>1. Entry \subseteq Entry'
        BY <1>2 DEF AllocPush, Entry
    <2>2. Occupied(d) \in Entry'
        BY DEF Entry
    <2>3. entries' \in [0 .. len -> Entry']
        BY <1>0, <1>2, <2>1, <2>2 DEF AllocPush
    <2> QED BY <1>2, <2>3 DEF AllocPush
<1>3. CASE AllocUnreachable
    BY <1>3 DEF AllocUnreachable, Entry
<1>4. ASSUME NEW p \in Ptr, Dealloc(p) PROVE TypeOK'
    <2>1. CASE DeallocEntry(p)
        <3>1. p \in Live => entries[p].data \in Data
            BY <1>0, EntryKinds DEF Live
        <3>2. Vacant(free_head) \in Entry
            BY DEF Entry
        <3>3. entries' \in [0 .. (len - 1) -> Entry]
            BY <2>1, <3>2 DEF DeallocEntry
        <3> QED BY <2>1, <3>1, <3>3 DEF DeallocEntry, Entry, Ptr
    <2>2. CASE DeallocOutOfRange(p)
        BY <2>2 DEF DeallocOutOfRange, Entry
    <2> QED BY <1>4, <2>1, <2>2 DEF Dealloc
<1>5. ASSUME NEW p \in Ptr, Deref(p) PROVE TypeOK'
    <2>1. p \in Live => entries[p].data \in Data
        BY <1>0, EntryKinds DEF Live
    <2> QED BY <1>5, <2>1 DEF Deref, Entry
<1>6. ASSUME NEW p \in Ptr, NEW d \in Data, DerefMut(p, d) PROVE TypeOK'
    <2>1. Occupied(d) \in Entry
        BY DEF Entry
    <2>2. entries' \in [0 .. (len - 1) -> Entry]
        BY <1>6, <2>1 DEF DerefMut
    <2> QED BY <1>6, <2>2 DEF DerefMut, Entry
<1>7. CASE UNCHANGED vars
    BY <1>7 DEF vars, Entry
<1> QED BY <1>1, <1>2, <1>3, <1>4, <1>5, <1>6, <1>7 DEF Next

(* Every entry links within the vector, and free_head stays within it, *)
(* whatever clients do.                                                 *)
THEOREM TypeCorrect == Spec => []TypeOK
BY InitType, NextType, PTL DEF Spec

-----------------------------------------------------------------------------
(***************************************************************************)
(* The free list.                                                          *)
(***************************************************************************)

(* The walk from free_head, as FreeStack describes it. *)
IsFreeList(n, s) ==
    /\ s \in [1 .. n -> Vacants]
    /\ \A i, j \in 1 .. n : s[i] = s[j] => i = j
    /\ \A v \in Vacants : \E i \in 1 .. n : s[i] = v
    /\ free_head = IF n = 0 THEN None ELSE s[1]
    /\ \A i \in 1 .. n : entries[s[i]].next = IF i = n THEN None ELSE s[i + 1]

LEMMA FreeListShape ==
    FreeStack <=> \E s : IsFreeList(Cardinality(Vacants), s)
BY DEF FreeStack, IsFreeList

LEMMA VacantsFinite ==
    ASSUME TypeOK
    PROVE  /\ IsFiniteSet(Vacants)
           /\ Cardinality(Vacants) \in Nat
           /\ Cardinality(Vacants) = 0 <=> Vacants = {}
<1>1. IsFiniteSet(0 .. (len - 1))
    BY FS_Interval DEF TypeOK
<1>2. IsFiniteSet(Vacants)
    BY <1>1, FS_Subset DEF Vacants
<1> QED BY <1>2, FS_CardinalityType, FS_EmptySet

(* The inductive invariant of clients that have not freed an entry twice. *)
FreeInv == TypeOK /\ FreeStack /\ ~panicked

LEMMA InitFree == Init => FreeInv
<1> SUFFICES ASSUME Init PROVE FreeInv
    OBVIOUS
<1>1. TypeOK
    BY InitType
<1>2. Vacants = {}
    BY DEF Init, Vacants
<1>3. IsFreeList(0, [i \in {} |-> None])
    BY <1>2 DEF IsFreeList, Init
<1> QED BY <1>1, <1>2, <1>3, VacantsFinite, FreeListShape DEF FreeInv, Init

(* Taking the head off the free list leaves its tail. *)
LEMMA AllocVacantFree ==
    ASSUME FreeInv, TypeOK', NEW d \in Data, AllocVacant(d)
    PROVE  FreeStack'
<1> DEFINE n == Cardinality(Vacants)
           m == Cardinality(Vacants')
<1>1. n \in Nat /\ IsFiniteSet(Vacants)
    BY VacantsFinite DEF FreeInv
<1>2. PICK s : IsFreeList(n, s)
    BY FreeListShape DEF FreeInv
<1>3. n # 0 /\ free_head = s[1] /\ s[1] \in Vacants
    BY <1>1, <1>2 DEF IsFreeList, AllocVacant
<1>4. Vacants' = Vacants \ {s[1]}
    BY <1>3 DEF AllocVacant, Vacants, Occupied, FreeInv, TypeOK
<1>5. m = n - 1
    BY <1>1, <1>3, <1>4, FS_RemoveElement
<1> DEFINE t == [k \in 1 .. m |-> s[k + 1]]
<1> HIDE DEF n, m
<1>6. \A i \in 1 .. m : s[i + 1] \in Vacants' /\ t[i] = s[i + 1]
    BY <1>1, <1>2, <1>4, <1>5 DEF IsFreeList
<1>7. t \in [1 .. m -> Vacants']
    BY <1>6
<1>8. \A i, j \in 1 .. m : t[i] = t[j] => i = j
    BY <1>1, <1>2, <1>5, <1>6 DEF IsFreeList
<1>9. \A v \in Vacants' : \E i \in 1 .. m : t[i] = v
    <2> SUFFICES ASSUME NEW v \in Vacants' PROVE \E i \in 1 .. m : t[i] = v
        OBVIOUS
    <2>1. PICK i \in 1 .. n : s[i] = v
        BY <1>2, <1>4 DEF IsFreeList
    <2>2. i - 1 \in 1 .. m
        BY <1>1, <1>4, <1>5, <2>1
    <2> QED BY <1>6, <2>1, <2>2
<1>10. free_head' = IF m = 0 THEN None ELSE t[1]
    <2>1. entries[s[1]].next = IF 1 = n THEN None ELSE s[2]
        BY <1>1, <1>2, <1>3 DEF IsFreeList
    <2> QED BY <1>1, <1>3, <1>5, <1>6, <2>1 DEF AllocVacant
<1>11. \A i \in 1 .. m : entries'[t[i]].next = IF i = m THEN None ELSE t[i + 1]
    <2> SUFFICES ASSUME NEW i \in 1 .. m
                 PROVE  entries'[t[i]].next = IF i = m THEN None ELSE t[i + 1]
        OBVIOUS
    <2>1. entries[s[i + 1]].next = IF i + 1 = n THEN None ELSE s[i + 2]
        BY <1>1, <1>2, <1>5 DEF IsFreeList
    <2>2. entries'[s[i + 1]] = entries[s[i + 1]]
        BY <1>3, <1>4, <1>6 DEF AllocVacant, Vacants, FreeInv, TypeOK
    <2> QED BY <1>1, <1>5, <1>6, <2>1, <2>2
<1> HIDE DEF t
<1> QED BY <1>7, <1>8, <1>9, <1>10, <1>11 DEF FreeStack, m

(* Deallocating an occupied entry puts it in front of the free list. *)
LEMMA DeallocFree ==
    ASSUME FreeInv, TypeOK', NEW p \in Ptr, DeallocEntry(p), p \notin Vacants
    PROVE  FreeStack'
<1> DEFINE n == Cardinality(Vacants)
           m == Cardinality(Vacants')
<1>1. n \in Nat /\ IsFiniteSet(Vacants)
    BY VacantsFinite DEF FreeInv
<1>2. PICK s : IsFreeList(n, s)
    BY FreeListShape DEF FreeInv
<1>3. p \in 0 .. (len - 1)
    BY DEF DeallocEntry, Ptr, FreeInv, TypeOK
<1>4. Vacants' = Vacants \cup {p}
    BY <1>3 DEF DeallocEntry, Vacants, Vacant, FreeInv, TypeOK
<1>5. m = n + 1
    BY <1>1, <1>4, FS_AddElement
<1> DEFINE t == [k \in 1 .. m |-> IF k = 1 THEN p ELSE s[k - 1]]
<1> HIDE DEF n, m
<1>6. /\ t[1] = p
      /\ \A i \in 2 .. m : t[i] = s[i - 1] /\ s[i - 1] \in Vacants
    BY <1>1, <1>2, <1>5 DEF IsFreeList
<1>7. t \in [1 .. m -> Vacants']
    <2>1. \A i \in 1 .. m : i = 1 \/ i \in 2 .. m
        BY <1>1, <1>5
    <2>2. \A i \in 1 .. m : t[i] \in Vacants'
        BY <1>4, <1>6, <2>1
    <2> QED BY <2>2
<1>8. \A i, j \in 1 .. m : t[i] = t[j] => i = j
    <2>1. \A i \in 2 .. m : t[i] # p
        BY <1>6
    <2> QED BY <1>1, <1>2, <1>5, <1>6, <2>1 DEF IsFreeList
<1>9. \A v \in Vacants' : \E i \in 1 .. m : t[i] = v
    <2> SUFFICES ASSUME NEW v \in Vacants' PROVE \E i \in 1 .. m : t[i] = v
        OBVIOUS
    <2>1. CASE v = p
        BY <1>1, <1>5, <1>6, <2>1
    <2>2. CASE v \in Vacants
        <3>1. PICK i \in 1 .. n : s[i] = v
            BY <1>2, <2>2 DEF IsFreeList
        <3>2. i + 1 \in 2 .. m /\ (i + 1) - 1 = i
            BY <1>1, <1>5, <3>1
        <3> QED BY <1>6, <3>1, <3>2
    <2> QED BY <1>4, <2>1, <2>2
<1>10. free_head' = IF m = 0 THEN None ELSE t[1]
    BY <1>1, <1>5, <1>6 DEF DeallocEntry
<1>11. \A i \in 1 .. m : entries'[t[i]].next = IF i = m THEN None ELSE t[i + 1]
    <2> SUFFICES ASSUME NEW i \in 1 .. m
                 PROVE  entries'[t[i]].next = IF i = m THEN None ELSE t[i + 1]
        OBVIOUS
    <2>1. CASE i = 1
        <3>1. entries'[p].next = free_head
            BY <1>3 DEF DeallocEntry, Vacant, FreeInv, TypeOK
        <3>2. free_head = IF n = 0 THEN None ELSE s[1]
            BY <1>2 DEF IsFreeList
        <3> QED BY <1>1, <1>5, <1>6, <2>1, <3>1, <3>2
    <2>2. CASE i \in 2 .. m
        <3>1. entries[s[i - 1]].next = IF i - 1 = n THEN None ELSE s[(i - 1) + 1]
            BY <1>1, <1>2, <1>5, <2>2 DEF IsFreeList
        <3>2. entries'[s[i - 1]] = entries[s[i - 1]]
            BY <1>3, <1>6, <2>2 DEF DeallocEntry, Vacants, FreeInv, TypeOK
        <3> QED BY <1>1, <1>5, <1>6, <2>2, <3>1, <3>2
    <2> QED BY <1>1, <1>5, <2>1, <2>2
<1> HIDE DEF t
<1> QED BY <1>7, <1>8, <1>9, <1>10, <1>11 DEF FreeStack, m

(* The steps that leave every entry of the free list alone. *)
LEMMA SameFree ==
    ASSUME FreeInv, Vacants' = Vacants, free_head' = free_head,
           \A v \in Vacants : entries'[v] = entries[v]
    PROVE  FreeStack'
<1> DEFINE n == Cardinality(Vacants)
           m == Cardinality(Vacants')
<1>1. PICK s : IsFreeList(n, s)
    BY FreeListShape DEF FreeInv
<1>2. \A i \in 1 .. n : entries'[s[i]] = entries[s[i]]
    BY <1>1 DEF IsFreeList
<1>3. m = n
    OBVIOUS
<1> HIDE DEF n, m
<1>4. /\ s \in [1 .. m -> Vacants']
      /\ \A i, j \in 1 .. m : s[i] = s[j] => i = j
      /\ \A v \in Vacants' : \E i \in 1 .. m : s[i] = v
      /\ free_head' = IF m = 0 THEN None ELSE s[1]
    BY <1>1, <1>3 DEF IsFreeList
<1>5. \A i \in 1 .. m : entries'[s[i]].next = IF i = m THEN None ELSE s[i + 1]
    BY <1>1, <1>2, <1>3 DEF IsFreeList
<1> QED BY <1>4, <1>5 DEF FreeStack, m

LEMMA NextFree ==
    ASSUME ~twice', FreeInv, [Next]_vars
    PROVE  FreeInv'
<1>1. TypeOK /\ TypeOK' /\ ~panicked
    BY NextType DEF FreeInv
<1>2. \A i \in 0 .. (len - 1) : entries[i] \in Entry
    BY <1>1 DEF TypeOK
<1>3. free_head # None => free_head \in Vacants
    <2>1. PICK s : IsFreeList(Cardinality(Vacants), s)
        BY FreeListShape DEF FreeInv
    <2> QED BY <1>1, <2>1, VacantsFinite DEF IsFreeList
<1> SUFFICES FreeStack' /\ ~panicked'
    BY <1>1 DEF FreeInv
<1>4. ASSUME NEW d \in Data, AllocVacant(d)
      PROVE  FreeStack' /\ ~panicked'
    BY <1>1, <1>4, AllocVacantFree DEF AllocVacant
<1>5. ASSUME NEW d \in Data, AllocPush(d)
      PROVE  FreeStack' /\ ~panicked'
    <2>1. Vacants' = Vacants
        BY <1>1, <1>5 DEF AllocPush, Vacants, Occupied, TypeOK
    <2>2. \A v \in Vacants : entries'[v] = entries[v]
        BY <1>1, <1>5 DEF AllocPush, Vacants, TypeOK
    <2> QED BY <1>1, <1>5, <2>1, <2>2, SameFree DEF AllocPush
<1>6. ~AllocUnreachable
    BY <1>3 DEF AllocUnreachable, Vacants
<1>7. ASSUME NEW p \in Ptr, Dealloc(p)
      PROVE  FreeStack' /\ ~panicked'
    <2>1. CASE DeallocEntry(p)
        BY <1>1, <1>7, <2>1, DeallocFree DEF Dealloc, DeallocEntry
    <2>2. CASE DeallocOutOfRange(p)
        BY <1>1, <2>2, SameFree DEF DeallocOutOfRange, Vacants
    <2> QED BY <1>7, <2>1, <2>2 DEF Dealloc
<1>8. ASSUME NEW p \in Ptr, Deref(p)
      PROVE  FreeStack' /\ ~panicked'
    BY <1>1, <1>8, SameFree DEF Deref, Vacants
<1>9. ASSUME NEW p \in Ptr, NEW d \in Data, DerefMut(p, d)
      PROVE  FreeStack' /\ ~panicked'
    <2>1. Vacants' = Vacants
        BY <1>1, <1>9 DEF DerefMut, Vacants, Live, Occupied, TypeOK
    <2>2. \A v \in Vacants : entries'[v] = entries[v]
        BY <1>1, <1>9 DEF DerefMut, Vacants, Live, TypeOK
    <2> QED BY <1>1, <1>9, <2>1, <2>2, SameFree DEF DerefMut
<1>10. CASE UNCHANGED vars
    BY <1>1, <1>10, SameFree DEF vars, Vacants
<1> QED BY <1>4, <1>5, <1>6, <1>7, <1>8, <1>9, <1>10 DEF Next

(* The inductive invariant of all clients. *)
ArenaInv == TypeOK /\ (~twice => FreeInv)

LEMMA Invariant == Spec => []ArenaInv
<1>1. Init => ArenaInv
    BY InitFree DEF ArenaInv, FreeInv
<1>2. ArenaInv /\ [Next]_vars => ArenaInv'
    <2> SUFFICES ASSUME ArenaInv, [Next]_vars PROVE ArenaInv'
        OBVIOUS
    <2>1. twice => twice'
        BY Zenon DEF Next, AllocVacant, AllocPush, AllocUnreachable, Dealloc,
             DeallocEntry, DeallocOutOfRange, Deref, DerefMut, vars
    <2>2. TypeOK'
        BY NextType DEF ArenaInv
    <2>3. ~twice' => FreeInv'
        BY <2>1, NextFree DEF ArenaInv
    <2> QED BY <2>2, <2>3 DEF ArenaInv
<1> QED BY <1>1, <1>2, PTL DEF Spec

(* As long as no vacant entry is deallocated again, the free list holds    *)
(* every vacant entry exactly once, in a chain that ends.                  *)
THEOREM FreeListSound == Spec => []FreeListIsStack
<1>1. ArenaInv => FreeListIsStack
    BY DEF ArenaInv, FreeInv, FreeListIsStack
<1> QED BY Invariant, <1>1, PTL

(* alloc reaches its unreachable!() only after a double free. *)
THEOREM AllocPanics == Spec => []PanicsOnlyAfterDoubleFree
<1>1. ArenaInv => PanicsOnlyAfterDoubleFree
    BY DEF ArenaInv, FreeInv, PanicsOnlyAfterDoubleFree
<1> QED BY Invariant, <1>1, PTL

(* Without double frees the vector grows only when it is full. *)
THEOREM GrowthIsNeeded == Spec => GrowOnlyWhenFull
<1>1. ArenaInv /\ [Next]_vars => [len' > len => twice \/ Vacants = {}]_vars
    <2> SUFFICES ASSUME ArenaInv, [Next]_vars, len' > len, ~twice
                 PROVE  Vacants = {}
        OBVIOUS
    <2>1. FreeInv
        BY DEF ArenaInv
    <2>2. len \in Nat
        BY <2>1 DEF FreeInv, TypeOK
    <2>3. free_head = None
        BY <2>2 DEF Next, AllocVacant, AllocPush, AllocUnreachable, Dealloc,
             DeallocEntry, DeallocOutOfRange, Deref, DerefMut, vars
    <2>4. PICK s : IsFreeList(Cardinality(Vacants), s)
        BY <2>1, FreeListShape DEF FreeInv
    <2>5. Cardinality(Vacants) # 0 => s[1] \in Vacants /\ free_head = s[1]
        BY <2>1, <2>4, VacantsFinite DEF IsFreeList, FreeInv
    <2> QED BY <2>1, <2>3, <2>5, VacantsFinite DEF Vacants, FreeInv
<1> QED BY Invariant, <1>1, PTL DEF Spec, GrowOnlyWhenFull

-----------------------------------------------------------------------------
(***************************************************************************)
(* The arena implements PointerStore.                                      *)
(***************************************************************************)

LEMMA InitImplements == Init => Store!Init
<1> SUFFICES ASSUME Init PROVE Store!Init
    OBVIOUS
<1>1. Live = {}
    BY DEF Init, Live
<1> QED BY <1>1 DEF Init, Store!Init

LEMMA StepImplements ==
    ASSUME TypeOK, TypeOK', [Next]_vars
    PROVE  [Store!Next]_(Store!vars)
<1>1. \A i \in 0 .. (len - 1) : entries[i] \in Entry
    BY DEF TypeOK
<1>2. \A i \in Live : i \in Ptr
    BY DEF Live, Ptr, TypeOK
<1> USE DEF TypeOK
<1>3. ASSUME NEW d \in Data, AllocVacant(d) PROVE Store!Next
    <2>1. Live' = Live \cup {free_head} /\ free_head \in Ptr \ Live
        BY <1>3 DEF AllocVacant, Live, Occupied, Ptr
    <2>2. Store!Alloc(d)
        BY <1>3, <2>1 DEF AllocVacant, Live, Occupied, Store!Alloc, Store!Used
    <2> QED BY <2>2 DEF Store!Next
<1>4. ASSUME NEW d \in Data, AllocPush(d) PROVE Store!Next
    <2>1. Live' = Live \cup {len} /\ len \in Ptr \ Live
        BY <1>4 DEF AllocPush, Live, Occupied, Ptr
    <2>2. Store!Alloc(d)
        BY <1>4, <2>1 DEF AllocPush, Live, Occupied, Store!Alloc, Store!Used
    <2> QED BY <2>2 DEF Store!Next
<1>5. CASE AllocUnreachable
    BY <1>5 DEF AllocUnreachable, Live, Store!vars
<1>6. ASSUME NEW p \in Ptr, Dealloc(p) PROVE Store!Next
    <2>1. CASE DeallocEntry(p)
        <3>1. Live' = Live \ {p}
            BY <2>1 DEF DeallocEntry, Live, Vacant, Ptr
        <3>2. Store!Dealloc(p)
            BY <2>1, <3>1 DEF DeallocEntry, Live, Store!Dealloc, Store!Used
        <3> QED BY <3>2 DEF Store!Next
    <2>2. CASE DeallocOutOfRange(p)
        <3>1. Live' = Live /\ p \notin Live
            BY <2>2 DEF DeallocOutOfRange, Live, Ptr
        <3>2. Store!Dealloc(p)
            BY <2>2, <3>1 DEF DeallocOutOfRange, Live, Store!Dealloc, Store!Used
        <3> QED BY <3>2 DEF Store!Next
    <2> QED BY <1>6, <2>1, <2>2 DEF Dealloc
<1>7. ASSUME NEW p \in Ptr, Deref(p) PROVE Store!Next
    <2>1. Store!Deref(p)
        BY <1>7 DEF Deref, Live, Store!Deref, Store!Used
    <2> QED BY <2>1 DEF Store!Next
<1>8. ASSUME NEW p \in Ptr, NEW d \in Data, DerefMut(p, d) PROVE Store!Next
    <2>1. Live' = Live
        BY <1>8 DEF DerefMut, Live, Occupied
    <2>2. Store!Write(p, d)
        BY <1>8, <2>1 DEF DerefMut, Live, Occupied, Store!Write, Store!Used
    <2> QED BY <2>2 DEF Store!Next
<1>9. CASE UNCHANGED vars
    BY <1>9 DEF vars, Live, Store!vars
<1> QED BY <1>3, <1>4, <1>5, <1>6, <1>7, <1>8, <1>9 DEF Next

(* Every behaviour of the arena, double frees included, is a behaviour of  *)
(* the abstract pointer store: a corrupt free list makes alloc abort, it   *)
(* never makes it hand out a pointer in use.                               *)
THEOREM Implements == Spec => ImplementsStore
<1>1. TypeOK /\ TypeOK' /\ [Next]_vars => [Store!Next]_(Store!vars)
    BY StepImplements
<1> QED BY TypeCorrect, InitImplements, <1>1, PTL
        DEF Spec, ImplementsStore, Store!Spec

-----------------------------------------------------------------------------
(* UniqueArena. *)
USE UniqueAssumption DEF UniqueAssumption

LEMMA InitUniqueType == UniqueInit => UniqueTypeOK
<1> SUFFICES ASSUME UniqueInit PROVE UniqueTypeOK
    OBVIOUS
<1>1. Used = {}
    BY DEF UniqueInit, Used
<1>2. live \in [Used -> UniqueData] /\ unique_map \in [HashVal -> SUBSET UniquePtr] /\ result = Absent
    BY <1>1 DEF UniqueInit
<1>3. failed \in BOOLEAN /\ mutated \in BOOLEAN
    BY Zenon DEF UniqueInit
<1> QED BY <1>1, <1>2, <1>3 DEF UniqueTypeOK

LEMMA NextUniqueType == UniqueTypeOK /\ [UniqueNext]_uniqueVars => UniqueTypeOK'
<1> SUFFICES ASSUME UniqueTypeOK, [UniqueNext]_uniqueVars PROVE UniqueTypeOK'
    OBVIOUS
<1> USE DEF UniqueTypeOK, Used
<1>1. ASSUME NEW d \in UniqueData, AllocShared(d) PROVE UniqueTypeOK'
    BY <1>1 DEF AllocShared, Recorded
<1>2. ASSUME NEW d \in UniqueData, AllocNew(d) PROVE UniqueTypeOK'
    <2>1. CASE unique_map[Hash[d]] \subseteq Used
        <3>1. PICK p \in UniquePtr \ Used :
                  /\ live' = [q \in Used \cup {p} |-> IF q = p THEN d ELSE live[q]]
                  /\ unique_map' = [unique_map EXCEPT ![Hash[d]] = @ \cup {p}]
                  /\ result' = p
            BY <1>2, <2>1 DEF AllocNew
        <3>2. Used' = Used \cup {p}
            BY <3>1
        <3>3. live' \in [Used' -> UniqueData]
            BY <3>1, <3>2
        <3>4. unique_map' \in [HashVal -> SUBSET UniquePtr]
            BY <3>1
        <3>5. failed' = failed
            BY <1>2, <2>1 DEF AllocNew
        <3>6. mutated' = mutated
            BY <1>2 DEF AllocNew
        <3> QED BY <3>1, <3>2, <3>3, <3>4, <3>5, <3>6
    <2>2. CASE ~(unique_map[Hash[d]] \subseteq Used)
        <3>1. failed' \in BOOLEAN
            BY <1>2, <2>2, Zenon DEF AllocNew
        <3>2. UNCHANGED <<live, unique_map, result>>
            BY <1>2, <2>2 DEF AllocNew
        <3>3. mutated' = mutated
            BY <1>2 DEF AllocNew
        <3> QED BY <3>1, <3>2, <3>3
    <2> QED BY <2>1, <2>2
<1>3. ASSUME NEW p \in UniquePtr, UniqueDealloc(p) PROVE UniqueTypeOK'
    BY <1>3 DEF UniqueDealloc
<1>4. ASSUME NEW p \in UniquePtr, DeallocInvalid(p) PROVE UniqueTypeOK'
    BY <1>4 DEF DeallocInvalid
<1>5. ASSUME NEW p \in UniquePtr, DeallocUnreachable(p) PROVE UniqueTypeOK'
    BY <1>5 DEF DeallocUnreachable
<1>6. ASSUME NEW p \in UniquePtr, NEW d \in UniqueData, UniqueDerefMut(p, d) PROVE UniqueTypeOK'
    BY <1>6 DEF UniqueDerefMut
<1>7. ASSUME NEW p \in UniquePtr, UniqueDeref(p) PROVE UniqueTypeOK'
    BY <1>7 DEF UniqueDeref
<1>8. CASE UNCHANGED uniqueVars
    BY <1>8 DEF uniqueVars
<1> QED BY <1>1, <1>2, <1>3, <1>4, <1>5, <1>6, <1>7, <1>8 DEF UniqueNext

(* The arena and its map keep their types, whatever clients do. *)
THEOREM UniqueTypeCorrect == UniqueSpec => []UniqueTypeOK
BY InitUniqueType, NextUniqueType, PTL DEF UniqueSpec

-----------------------------------------------------------------------------
(* The inductive invariant: nothing but the types survives a write through *)
(* try_deref_mut.                                                          *)
UniqueInv == UniqueTypeOK /\ MapMatchesArena /\ StoredOnce /\ PanicsOnlyAfterMutation

LEMMA InitUnique == UniqueInit => UniqueInv
BY InitUniqueType DEF UniqueInit, UniqueInv, MapMatchesArena, StoredOnce,
   PanicsOnlyAfterMutation, Used

(* Without writes through try_deref_mut, the map decides equality. *)
LEMMA RecordedIsEqual ==
    ASSUME UniqueInv, ~mutated, NEW d \in UniqueData
    PROVE  /\ Recorded(d) = {p \in Used : live[p] = d}
           /\ unique_map[Hash[d]] \subseteq Used
BY DEF UniqueInv, MapMatchesArena, Recorded

LEMMA NextUnique == ASSUME UniqueInv, [UniqueNext]_uniqueVars PROVE UniqueInv'
<1>1. UniqueTypeOK /\ UniqueTypeOK'
    BY NextUniqueType DEF UniqueInv
<1>2. ASSUME mutated' PROVE UniqueInv'
    BY <1>1, <1>2 DEF UniqueInv, MapMatchesArena, StoredOnce, PanicsOnlyAfterMutation
<1> SUFFICES ASSUME ~mutated' PROVE UniqueInv'
    BY <1>2
<1>3. ~mutated
    BY Zenon DEF UniqueNext, AllocShared, AllocNew, UniqueDealloc, DeallocInvalid,
         DeallocUnreachable, UniqueDerefMut, UniqueDeref, uniqueVars
<1> SUFFICES MapMatchesArena' /\ StoredOnce' /\ ~failed'
    BY <1>1 DEF UniqueInv, PanicsOnlyAfterMutation
<1> USE <1>3 DEF Used, UniqueTypeOK
<1>4. ~failed
    BY DEF UniqueInv, PanicsOnlyAfterMutation
<1>5. ASSUME NEW d \in UniqueData, AllocShared(d)
      PROVE  MapMatchesArena' /\ StoredOnce' /\ ~failed'
    BY <1>5 DEF AllocShared, UniqueInv, MapMatchesArena, StoredOnce
<1>6. ASSUME NEW d \in UniqueData, AllocNew(d)
      PROVE  MapMatchesArena' /\ StoredOnce' /\ ~failed'
    <2>1. unique_map[Hash[d]] \subseteq Used
        BY RecordedIsEqual
    <2>2. PICK p \in UniquePtr \ Used :
              /\ live' = [q \in Used \cup {p} |-> IF q = p THEN d ELSE live[q]]
              /\ unique_map' = [unique_map EXCEPT ![Hash[d]] = @ \cup {p}]
        BY <1>6, <2>1 DEF AllocNew
    <2>3. \A q \in Used : live[q] # d
        BY <1>6, RecordedIsEqual DEF AllocNew
    <2>4. StoredOnce'
        BY <2>2, <2>3 DEF UniqueInv, StoredOnce
    <2>5. MapMatchesArena'
        BY <1>1, <2>2 DEF UniqueInv, MapMatchesArena
    <2> QED BY <1>4, <1>6, <2>1, <2>4, <2>5 DEF AllocNew
<1>7. ASSUME NEW p \in UniquePtr, UniqueDealloc(p)
      PROVE  MapMatchesArena' /\ StoredOnce' /\ ~failed'
    <2>1. MapMatchesArena'
        BY <1>1, <1>7 DEF UniqueDealloc, UniqueInv, MapMatchesArena
    <2> QED BY <1>7, <2>1 DEF UniqueDealloc, UniqueInv, StoredOnce
<1>8. ASSUME NEW p \in UniquePtr, DeallocInvalid(p)
      PROVE  MapMatchesArena' /\ StoredOnce' /\ ~failed'
    BY <1>8 DEF DeallocInvalid, UniqueInv, MapMatchesArena, StoredOnce
<1>9. ASSUME NEW p \in UniquePtr PROVE ~DeallocUnreachable(p)
    BY DEF DeallocUnreachable, UniqueInv, MapMatchesArena
<1>10. ASSUME NEW p \in UniquePtr, NEW d \in UniqueData PROVE ~UniqueDerefMut(p, d)
    BY Zenon DEF UniqueDerefMut
<1>11. ASSUME NEW p \in UniquePtr, UniqueDeref(p)
      PROVE  MapMatchesArena' /\ StoredOnce' /\ ~failed'
    BY <1>11 DEF UniqueDeref, UniqueInv, MapMatchesArena, StoredOnce
<1>12. CASE UNCHANGED uniqueVars
    BY <1>4, <1>12 DEF uniqueVars, UniqueInv, MapMatchesArena, StoredOnce
<1> QED BY <1>5, <1>6, <1>7, <1>8, <1>9, <1>10, <1>11, <1>12 DEF UniqueNext

LEMMA UniqueInvariant == UniqueSpec => []UniqueInv
<1>1. UniqueInv /\ [UniqueNext]_uniqueVars => UniqueInv'
    BY NextUnique
<1> QED BY InitUnique, <1>1, PTL DEF UniqueSpec

(* As long as stored data is not changed, equal data has equal pointers,   *)
(* for every hash function, collisions included.                           *)
THEOREM EqualDataEqualPointers == UniqueSpec => []StoredOnce
<1>1. UniqueInv => StoredOnce
    BY DEF UniqueInv
<1> QED BY UniqueInvariant, <1>1, PTL

(* As long as stored data is not changed, the map is exact. *)
THEOREM MapIsExact == UniqueSpec => []MapMatchesArena
<1>1. UniqueInv => MapMatchesArena
    BY DEF UniqueInv
<1> QED BY UniqueInvariant, <1>1, PTL

(* unreachable!() and expect() fail only after stored data was changed. *)
THEOREM UniquePanics == UniqueSpec => []PanicsOnlyAfterMutation
<1>1. UniqueInv => PanicsOnlyAfterMutation
    BY DEF UniqueInv
<1> QED BY UniqueInvariant, <1>1, PTL
=============================================================================
