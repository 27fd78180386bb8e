---------------------------- MODULE DefUseProofs ----------------------------
(***************************************************************************)
(* Def-use and use-def agree for any number of instructions, values and    *)
(* slots.  The argument rests on a local invariant of an operand list: its *)
(* vacant slots are chained without two of them leading to the same slot.  *)
(***************************************************************************)
EXTENDS DefUse, FiniteSetTheorems, TLAPS

USE DefUseAssumption DEF DefUseAssumption, AllKinds

(* No vacant slot leads to an occupied one, back to the first, or where    *)
(* another one leads.                                                      *)
Chained(list) ==
    /\ list.first_vacant # None => list.first_vacant \in VacantSlots(list)
    /\ \A s \in VacantSlots(list) :
          LET n == list.slots[s].next IN
          n # None => /\ n \in VacantSlots(list)
                      /\ n # list.first_vacant
                      /\ \A t \in VacantSlots(list) : list.slots[t].next = n => t = s

KnowsSlots(list, i, S) ==
    \A s \in OccupiedSlots(list) : /\ list.slots[s].operand.inst = i
                                   /\ list.slots[s].operand.idx = s
                                   /\ Used(list, s) \in S

IsList(list) == list \in Lists /\ Pushed(list)

Sound(list, i, S) == IsList(list) /\ Chained(list) /\ KnowsSlots(list, i, S)

LEMMA EntryKinds ==
    ASSUME NEW e \in Entry
    PROVE  /\ e.kind \in {"Vacant", "Occupied"}
           /\ e.kind = "Vacant" => e.next \in Slot \cup {None}
BY DEF Entry, Vacant, Occupied

LEMMA ListKinds ==
    ASSUME NEW list, IsList(list), NEW s \in Slot
    PROVE  /\ s < list.size => list.slots[s] \in Entry
           /\ s < list.size <=> s \in OccupiedSlots(list) \cup VacantSlots(list)
           /\ s \notin OccupiedSlots(list) \cap VacantSlots(list)
<1>1. s < list.size => list.slots[s] \in Entry
    BY DEF IsList, Lists, Pushed, Slot
<1> QED BY <1>1, EntryKinds DEF OccupiedSlots, VacantSlots

(* The empty list. *)
LEMMA EmptySound ==
    ASSUME NEW i \in Insts, NEW S
    PROVE  Sound(EmptyList, i, S) /\ OccupiedSlots(EmptyList) = {}
<1>1. IsList(EmptyList)
    BY DEF IsList, Lists, Pushed, EmptyList, Slot
<1>2. OccupiedSlots(EmptyList) = {} /\ VacantSlots(EmptyList) = {}
    BY DEF OccupiedSlots, VacantSlots, EmptyList, Slot
<1> QED BY <1>1, <1>2 DEF Sound, Chained, KnowsSlots, EmptyList

(* insert occupies the slot next_idx announced and no other, and does not  *)
(* panic.                                                                  *)
LEMMA InsertSound ==
    ASSUME NEW S, NEW u \in Usable, u \in S, NEW i \in Insts,
           NEW list, Sound(list, i, S),
           NextIdx(list) \in Slot
    PROVE  LET idx == NextIdx(list)
               new == Inserted(list, Operand(u, i, idx))
           IN  /\ ~InsertPanics(list)
               /\ Sound(new, i, S)
               /\ idx \notin OccupiedSlots(list)
               /\ OccupiedSlots(new) = OccupiedSlots(list) \cup {idx}
               /\ Used(new, idx) = u
               /\ \A s \in OccupiedSlots(list) : Used(new, s) = Used(list, s)
               /\ list.first_vacant = None =>
                     new.first_vacant = None /\ new.size = list.size + 1
<1> DEFINE idx == NextIdx(list)
           o == Operand(u, i, idx)
           new == Inserted(list, o)
<1>1. IsList(list) /\ Chained(list) /\ KnowsSlots(list, i, S)
    BY DEF Sound
<1>2. list.size \in 0 .. MaxOperands /\ list.slots \in [Slot -> Entry \cup {None}]
    BY <1>1 DEF IsList, Lists, Pushed
<1>3. Occupied(o) \in Entry
    BY DEF Entry
<1> HIDE DEF o
<1>4. CASE list.first_vacant # None
    <2> DEFINE h == list.first_vacant
               n == list.slots[h].next
    <2>1. h \in VacantSlots(list) /\ idx = h /\ h \in Slot /\ h < list.size
        BY <1>1, <1>4 DEF Chained, NextIdx, VacantSlots
    <2>2. new = [slots |-> [list.slots EXCEPT ![h] = Occupied(o)],
                 size |-> list.size, first_vacant |-> n, len |-> list.len + 1]
        BY <1>4, <2>1 DEF Inserted, o
    <2>3. n \in Slot \cup {None}
        BY <1>1, <2>1, ListKinds, EntryKinds DEF VacantSlots
    <2>4. /\ new.size = list.size /\ new.first_vacant = n
          /\ new.slots[h] = Occupied(o)
          /\ \A s \in Slot : s # h => new.slots[s] = list.slots[s]
          /\ new.slots \in [Slot -> Entry \cup {None}]
          /\ new.len = list.len + 1
        BY <1>2, <1>3, <2>1, <2>2
    <2> HIDE DEF new, n, h
    <2>5. IsList(new)
        <3>1. \A s \in Slot : s < new.size => new.slots[s] \in Entry
            BY <1>1, <1>3, <2>4 DEF IsList, Pushed
        <3>2. new = [slots |-> new.slots, size |-> new.size,
                     first_vacant |-> new.first_vacant, len |-> new.len]
            BY <2>2
        <3> QED BY <1>1, <1>2, <2>3, <2>4, <3>1, <3>2 DEF IsList, Lists, Pushed
    <2>6. /\ OccupiedSlots(new) = OccupiedSlots(list) \cup {h}
          /\ VacantSlots(new) = VacantSlots(list) \ {h}
          /\ h \notin OccupiedSlots(list)
        BY <2>1, <2>4 DEF OccupiedSlots, VacantSlots, Occupied
    <2>7. Chained(new)
        <3>1. \A s \in VacantSlots(list) : s # h => new.slots[s] = list.slots[s]
            BY <2>4 DEF VacantSlots
        <3>2. new.first_vacant = list.slots[h].next
            BY <2>4 DEF n
        <3> QED BY <1>1, <2>1, <2>6, <3>1, <3>2 DEF Chained, h
    <2>8. /\ Used(new, h) = u
          /\ \A s \in OccupiedSlots(list) : Used(new, s) = Used(list, s)
        BY <2>4, <2>6 DEF Used, Occupied, Operand, OccupiedSlots, o
    <2>9. KnowsSlots(new, i, S)
        BY <1>1, <2>1, <2>4, <2>6, <2>8 DEF KnowsSlots, Occupied, Operand, OccupiedSlots, o
    <2>10. ~InsertPanics(list)
        BY <2>1 DEF InsertPanics, h
    <2> QED BY <1>4, <2>1, <2>5, <2>6, <2>7, <2>8, <2>9, <2>10 DEF Sound, new, o
<1>5. CASE list.first_vacant = None
    <2> DEFINE h == list.size
    <2>1. idx = h /\ h \in Slot
        BY <1>5 DEF NextIdx
    <2>2. new = [slots |-> [list.slots EXCEPT ![h] = Occupied(o)],
                 size |-> list.size + 1, first_vacant |-> None, len |-> list.len + 1]
        BY <1>5 DEF Inserted, o
    <2>3. /\ new.size = list.size + 1 /\ new.first_vacant = None
          /\ new.slots[h] = Occupied(o)
          /\ \A s \in Slot : s # h => new.slots[s] = list.slots[s]
          /\ new.slots \in [Slot -> Entry \cup {None}]
          /\ new.len = list.len + 1
        BY <1>2, <1>3, <2>1, <2>2
    <2> HIDE DEF new
    <2>4. IsList(new)
        <3>1. \A s \in Slot : s < new.size => new.slots[s] \in Entry
            BY <1>1, <1>2, <1>3, <2>3 DEF IsList, Pushed, Slot
        <3>2. new = [slots |-> new.slots, size |-> new.size,
                     first_vacant |-> new.first_vacant, len |-> new.len]
            BY <2>2
        <3>3. new.size \in 0 .. MaxOperands
            BY <1>2, <2>1, <2>3 DEF Slot
        <3> QED BY <1>1, <1>2, <2>3, <3>1, <3>2, <3>3 DEF IsList, Lists, Pushed
    <2>5. /\ OccupiedSlots(new) = OccupiedSlots(list) \cup {h}
          /\ VacantSlots(new) = VacantSlots(list)
          /\ h \notin OccupiedSlots(list) /\ h \notin VacantSlots(list)
        BY <1>2, <2>1, <2>3 DEF OccupiedSlots, VacantSlots, Occupied, Slot
    <2>6. \A s \in VacantSlots(list) : new.slots[s] = list.slots[s]
        BY <2>3, <2>5 DEF VacantSlots
    <2>7. Chained(new)
        BY <1>1, <1>5, <2>3, <2>5, <2>6 DEF Chained
    <2>8. /\ Used(new, h) = u
          /\ \A s \in OccupiedSlots(list) : Used(new, s) = Used(list, s)
        BY <2>3, <2>5 DEF Used, Occupied, Operand, OccupiedSlots, o
    <2>9. KnowsSlots(new, i, S)
        BY <1>1, <2>1, <2>3, <2>5, <2>8 DEF KnowsSlots, Occupied, Operand, OccupiedSlots, o
    <2>10. ~InsertPanics(list)
        BY <1>5 DEF InsertPanics
    <2> QED BY <1>5, <2>1, <2>3, <2>4, <2>5, <2>7, <2>8, <2>9, <2>10 DEF Sound, new, o
<1> QED BY <1>4, <1>5

(* remove vacates an occupied slot and no other. *)
LEMMA RemoveSound ==
    ASSUME NEW S, NEW i \in Insts,
           NEW list, Sound(list, i, S), NEW h \in OccupiedSlots(list)
    PROVE  LET new == Removed(list, h)
           IN  /\ Sound(new, i, S)
               /\ OccupiedSlots(new) = OccupiedSlots(list) \ {h}
               /\ \A s \in OccupiedSlots(new) : Used(new, s) = Used(list, s)
<1> DEFINE new == Removed(list, h)
<1>1. IsList(list) /\ Chained(list) /\ KnowsSlots(list, i, S)
    BY DEF Sound
<1>2. /\ list.size \in 0 .. MaxOperands /\ list.slots \in [Slot -> Entry \cup {None}]
      /\ list.first_vacant \in Slot \cup {None} /\ list.len \in Int
    BY <1>1 DEF IsList, Lists, Pushed
<1>3. h \in Slot /\ h < list.size /\ h \notin VacantSlots(list)
    BY DEF OccupiedSlots, VacantSlots
<1>4. Vacant(list.first_vacant) \in Entry
    BY <1>2 DEF Entry
<1>5. new = [slots |-> [list.slots EXCEPT ![h] = Vacant(list.first_vacant)],
             size |-> list.size, first_vacant |-> h, len |-> list.len - 1]
    BY DEF Removed
<1>6. /\ new.size = list.size /\ new.first_vacant = h
      /\ new.slots[h] = Vacant(list.first_vacant)
      /\ \A s \in Slot : s # h => new.slots[s] = list.slots[s]
      /\ new.slots \in [Slot -> Entry \cup {None}]
      /\ new.len = list.len - 1
    BY <1>2, <1>3, <1>4, <1>5
<1> HIDE DEF new
<1>7. IsList(new)
    <2>1. \A s \in Slot : s < new.size => new.slots[s] \in Entry
        BY <1>1, <1>4, <1>6 DEF IsList, Lists, Pushed
    <2>2. new = [slots |-> new.slots, size |-> new.size,
                 first_vacant |-> new.first_vacant, len |-> new.len]
        BY <1>5
    <2> QED BY <1>2, <1>3, <1>6, <2>1, <2>2 DEF IsList, Lists, Pushed
<1>8. /\ OccupiedSlots(new) = OccupiedSlots(list) \ {h}
      /\ VacantSlots(new) = VacantSlots(list) \cup {h}
    BY <1>3, <1>6 DEF OccupiedSlots, VacantSlots, Vacant
<1>9. Chained(new)
    <2>1. new.slots[h].next = list.first_vacant
        BY <1>6 DEF Vacant
    <2>2. \A s \in VacantSlots(list) : s # h /\ new.slots[s] = list.slots[s]
        BY <1>3, <1>6 DEF VacantSlots
    <2> QED BY <1>1, <1>3, <1>6, <1>8, <2>1, <2>2 DEF Chained
<1>10. \A s \in OccupiedSlots(new) : s # h /\ new.slots[s] = list.slots[s]
    BY <1>6, <1>8 DEF OccupiedSlots
<1>11. KnowsSlots(new, i, S) /\ \A s \in OccupiedSlots(new) : Used(new, s) = Used(list, s)
    BY <1>1, <1>8, <1>10 DEF KnowsSlots, Used
<1> QED BY <1>7, <1>8, <1>9, <1>11 DEF Sound, new

-----------------------------------------------------------------------------
(***************************************************************************)
(* The inductive invariant.                                                *)
(***************************************************************************)

(* The lists of the instruction under construction were never removed      *)
(* from, and have room for what is still to be added.                      *)
Fits(list, rest) ==
    list.first_vacant = None /\ list.size + Len(rest) <= MaxOperands

ListsSound ==
    /\ \A i \in Insts : Sound(operands[i], i, Values) /\ Sound(successors[i], i, Blocks)
    /\ \A i \in Insts : kind[i] = None => /\ operands[i] = EmptyList
                                          /\ successors[i] = EmptyList
    /\ building # None => /\ Fits(operands[building.inst], building.args)
                          /\ Fits(successors[building.inst], building.dests)
                          /\ kind[building.inst] # None

(* UsersMatchOperands, one user and one slot at a time. *)
Listed(us, lists, S) ==
    \A v \in S, i \in Insts, s \in Slot :
        <<i, s>> \in us[v] <=>
            s \in OccupiedSlots(lists[i]) /\ Used(lists[i], s) = v

Inv == TypeOK /\ ListsSound /\ Listed(users, operands, Values) /\ Listed(users, successors, Blocks)

LEMMA ListedIsMatch ==
    ASSUME TypeOK
    PROVE  UsersMatchOperands <=> Listed(users, operands, Values) /\ Listed(users, successors, Blocks)
BY DEF UsersMatchOperands, Listed, TypeOK, Usable

LEMMA ValuesAndBlocks == Values \cap Blocks = {} /\ Usable = Values \cup Blocks
BY DEF Values, Usable

LEMMA InitInv == Init => Inv
<1> SUFFICES ASSUME Init PROVE Inv
    OBVIOUS
<1>1. \A i \in Insts : /\ Sound(EmptyList, i, Values) /\ Sound(EmptyList, i, Blocks)
                         /\ OccupiedSlots(EmptyList) = {}
    BY EmptySound
<1>2. \A i \in Insts : operands[i] = EmptyList /\ successors[i] = EmptyList
    BY DEF Init
<1>3. TypeOK
    <2>1. panicked \in BOOLEAN
        BY Zenon DEF Init
    <2> QED BY <1>1, <1>2, <2>1 DEF Init, TypeOK, Sound, IsList
<1>4. ListsSound
    BY <1>1, <1>2 DEF ListsSound, Init
<1>5. Listed(users, operands, Values) /\ Listed(users, successors, Blocks)
    BY <1>1, <1>2, ValuesAndBlocks DEF Listed, Init
<1> QED BY <1>3, <1>4, <1>5 DEF Inv

(* Inst::new: its arguments fit in an empty list. *)
LEMMA CreateInv == ASSUME Inv, NEW i \in Insts, Create(i) PROVE Inv'
<1>0. PICK k \in Kinds :
         \E n \in Arity(k) :
            \E args \in Tuples(Defined, n), dests \in Tuples(Blocks, Dests(k)) :
               New(i, k, args, dests)
    BY DEF Create
<1>1. PICK n \in Arity(k) :
         \E args \in Tuples(Defined, n), dests \in Tuples(Blocks, Dests(k)) :
            New(i, k, args, dests)
    BY <1>0
<1>2. PICK args \in Tuples(Defined, n), dests \in Tuples(Blocks, Dests(k)) :
         New(i, k, args, dests)
    BY <1>1
<1>3. n \in 0 .. MaxOperands /\ Dests(k) \in 0 .. 2
    BY DEF Arity, Dests
<1>4. args \in Seq(Values) /\ Len(args) = n
    BY <1>3 DEF Tuples, Defined, Values
<1>5. dests \in Seq(Blocks) /\ Len(dests) = Dests(k)
    BY <1>3 DEF Tuples
<1>6. Arranged(k, args) \in Seq(Values) /\ Len(Arranged(k, args)) = n
    <2>1. CASE k = "swapped"
        <3>1. n = 2
            BY <2>1 DEF Arity
        <3>2. args[1] \in Values /\ args[2] \in Values
            BY <1>4, <3>1
        <3> QED BY <2>1, <3>1, <3>2 DEF Arranged
    <2>2. CASE k # "swapped"
        BY <1>4, <2>2 DEF Arranged
    <2> QED BY <2>1, <2>2
<1>7. /\ kind[i] = None /\ kind' = [kind EXCEPT ![i] = k]
      /\ building' = [inst |-> i, args |-> Arranged(k, args), dests |-> dests]
      /\ UNCHANGED <<operands, successors, phi_node, users, panicked, ret>>
    BY <1>2 DEF New
<1>8. TypeOK'
    <2>1. panicked' \in BOOLEAN
        BY <1>7, Zenon DEF Inv, TypeOK
    <2>2. kind' \in [Insts -> Kinds \cup {None}]
        BY <1>7 DEF Inv, TypeOK
    <2> QED BY <1>4, <1>5, <1>6, <1>7, <2>1, <2>2 DEF Inv, TypeOK
<1>9. ListsSound'
    <2>1. operands'[i] = EmptyList /\ successors'[i] = EmptyList
        BY <1>7 DEF Inv, ListsSound
    <2>2. k # None
        OBVIOUS
    <2>3. building'.inst = i /\ building'.args = Arranged(k, args) /\ building'.dests = dests
        BY <1>7
    <2>4. kind'[i] = k /\ \A j \in Insts : kind'[j] = None => kind[j] = None
        BY <1>7 DEF Inv, TypeOK
    <2>5. Fits(EmptyList, Arranged(k, args)) /\ Fits(EmptyList, dests)
        BY <1>3, <1>5, <1>6 DEF Fits, EmptyList
    <2> QED BY <1>7, <2>1, <2>2, <2>3, <2>4, <2>5 DEF Inv, ListsSound
<1>10. Listed(users', operands', Values) /\ Listed(users', successors', Blocks)
    BY <1>7 DEF Inv, Listed
<1> QED BY <1>8, <1>9, <1>10 DEF Inv

(* An operand and its user, added together, stay listed together. *)
LEMMA InsertListed ==
    ASSUME NEW S \in SUBSET Usable, NEW v \in S, NEW i \in Insts,
           NEW lists \in [Insts -> Lists],
           NEW us \in [Usable -> SUBSET (Insts \X Slot)],
           Sound(lists[i], i, S), Listed(us, lists, S), NextIdx(lists[i]) \in Slot
    PROVE  LET idx == NextIdx(lists[i]) IN
           Listed([us EXCEPT ![v] = @ \cup {<<i, idx>>}],
                  [lists EXCEPT ![i] = Inserted(@, Operand(v, i, idx))], S)
<1> DEFINE idx == NextIdx(lists[i])
           new == Inserted(lists[i], Operand(v, i, idx))
           us2 == [us EXCEPT ![v] = @ \cup {<<i, idx>>}]
           lists2 == [lists EXCEPT ![i] = new]
<1>1. /\ idx \notin OccupiedSlots(lists[i])
      /\ OccupiedSlots(new) = OccupiedSlots(lists[i]) \cup {idx}
      /\ Used(new, idx) = v
      /\ \A s \in OccupiedSlots(lists[i]) : Used(new, s) = Used(lists[i], s)
    BY InsertSound
<1>2. lists2[i] = new /\ \A j \in Insts : j # i => lists2[j] = lists[j]
    OBVIOUS
<1>3. us2[v] = us[v] \cup {<<i, idx>>} /\ \A w \in S : w # v => us2[w] = us[w]
    OBVIOUS
<1> HIDE DEF idx, new, us2, lists2
<1>4. ASSUME NEW w \in S, NEW j \in Insts, NEW s \in Slot
      PROVE  <<j, s>> \in us2[w] <=>
                s \in OccupiedSlots(lists2[j]) /\ Used(lists2[j], s) = w
    <2>1. <<j, s>> \in us[w] <=>
             s \in OccupiedSlots(lists[j]) /\ Used(lists[j], s) = w
        BY DEF Listed
    <2>2. CASE j # i
        BY <1>2, <1>3, <2>1, <2>2
    <2>3. CASE j = i /\ s = idx
        BY <1>1, <1>2, <1>3, <2>1, <2>3
    <2>4. CASE j = i /\ s # idx
        BY <1>1, <1>2, <1>3, <2>1, <2>4
    <2> QED BY <2>2, <2>3, <2>4
<1> QED BY <1>4 DEF Listed, idx, new, us2, lists2

(* An operand that is removed is dropped under the user it was added as. *)
LEMMA RemoveListed ==
    ASSUME NEW S \in SUBSET Usable, NEW i \in Insts,
           NEW lists \in [Insts -> Lists],
           NEW us \in [Usable -> SUBSET (Insts \X Slot)],
           Sound(lists[i], i, S), Listed(us, lists, S),
           NEW h \in OccupiedSlots(lists[i]), Used(lists[i], h) \in S
    PROVE  LET operand == lists[i].slots[h].operand IN
           Listed([us EXCEPT ![operand.used] = @ \ {<<operand.inst, operand.idx>>}],
                  [lists EXCEPT ![i] = Removed(@, h)], S)
<1> DEFINE v == lists[i].slots[h].operand.used
           new == Removed(lists[i], h)
           us2 == [us EXCEPT ![v] = @ \ {<<i, h>>}]
           lists2 == [lists EXCEPT ![i] = new]
<1>1. /\ OccupiedSlots(new) = OccupiedSlots(lists[i]) \ {h}
      /\ \A s \in OccupiedSlots(new) : Used(new, s) = Used(lists[i], s)
    <2> DEFINE list == lists[i]
    <2>1. h \in OccupiedSlots(list) /\ Sound(list, i, S)
        OBVIOUS
    <2> HIDE DEF list
    <2>2. /\ OccupiedSlots(Removed(list, h)) = OccupiedSlots(list) \ {h}
          /\ \A s \in OccupiedSlots(Removed(list, h)) :
                Used(Removed(list, h), s) = Used(list, s)
        BY <2>1, RemoveSound
    <2> QED BY <2>2 DEF list
<1>2. lists2[i] = new /\ \A j \in Insts : j # i => lists2[j] = lists[j]
    OBVIOUS
<1>3. v \in S /\ v = Used(lists[i], h)
    BY DEF Used
<1>4. us2[v] = us[v] \ {<<i, h>>} /\ \A w \in S : w # v => us2[w] = us[w]
    BY <1>3
<1>5. /\ lists[i].slots[h].operand.inst = i
      /\ lists[i].slots[h].operand.idx = h
    BY DEF Sound, KnowsSlots
<1> HIDE DEF v, new, us2, lists2
<1>6. ASSUME NEW w \in S, NEW j \in Insts, NEW s \in Slot
      PROVE  <<j, s>> \in us2[w] <=>
                s \in OccupiedSlots(lists2[j]) /\ Used(lists2[j], s) = w
    <2>1. <<j, s>> \in us[w] <=>
             s \in OccupiedSlots(lists[j]) /\ Used(lists[j], s) = w
        BY DEF Listed
    <2>2. CASE j # i
        BY <1>2, <1>4, <2>1, <2>2
    <2>3. CASE j = i /\ s = h
        BY <1>1, <1>2, <1>3, <1>4, <2>1, <2>3
    <2>4. CASE j = i /\ s # h
        BY <1>1, <1>2, <1>4, <2>1, <2>4
    <2> QED BY <2>2, <2>3, <2>4
<1> QED BY <1>5, <1>6 DEF Listed, v, new, us2, lists2

(* The users of a block do not matter to values, nor the other way round. *)
LEMMA OtherListed ==
    ASSUME NEW S \in SUBSET Usable, NEW v \in Usable \ S, NEW lists, NEW X,
           NEW us \in [Usable -> SUBSET (Insts \X Slot)], Listed(us, lists, S)
    PROVE  Listed([us EXCEPT ![v] = X], lists, S)
<1> DEFINE us2 == [us EXCEPT ![v] = X]
<1>1. \A w \in S : us2[w] = us[w]
    OBVIOUS
<1> HIDE DEF us2
<1>2. Listed(us2, lists, S)
    BY <1>1 DEF Listed
<1> QED BY <1>2 DEF us2

LEMMA AddOperandInv == ASSUME Inv, AddOperand PROVE Inv'
<1> DEFINE i == building.inst
           v == Head(building.args)
           idx == NextIdx(operands[i])
           new == Inserted(operands[i], Operand(v, i, idx))
<1>1. /\ building \in [inst : Insts, args : Seq(Values), dests : Seq(Blocks)]
      /\ building # None /\ building.args # <<>>
    BY DEF AddOperand, Inv, TypeOK
<1>2. /\ i \in Insts /\ v \in Values /\ Len(building.args) \in Nat \ {0}
      /\ Tail(building.args) \in Seq(Values)
      /\ Len(Tail(building.args)) = Len(building.args) - 1
    BY <1>1
<1>3. Sound(operands[i], i, Values) /\ operands[i] \in Lists
    BY <1>2 DEF Inv, ListsSound, Sound, IsList
<1>4. Fits(operands[i], building.args) /\ idx = operands[i].size /\ idx \in Slot
    BY <1>1, <1>2, <1>3 DEF Inv, ListsSound, Fits, NextIdx, Slot, Lists
<1>5. Sound(new, i, Values) /\ new.first_vacant = None /\ new.size = operands[i].size + 1
    BY <1>2, <1>3, <1>4, InsertSound DEF Usable, Fits
<1>6. /\ users' = [users EXCEPT ![v] = @ \cup {<<i, idx>>}]
      /\ operands' = [operands EXCEPT ![i] = Inserted(@, Operand(v, i, idx))]
      /\ building' = [building EXCEPT !.args = Tail(@)]
      /\ UNCHANGED <<kind, successors, phi_node, panicked, ret>>
    BY DEF AddOperand
<1>7. operands'[i] = new /\ \A j \in Insts : j # i => operands'[j] = operands[j]
    BY <1>2, <1>6 DEF Inv, TypeOK
<1>8. /\ building'.inst = i /\ building'.args = Tail(building.args)
      /\ building'.dests = building.dests
      /\ building' \in [inst : Insts, args : Seq(Values), dests : Seq(Blocks)]
    BY <1>1, <1>2, <1>6
<1>9. Listed(users', operands', Values) /\ Listed(users', successors', Blocks)
    <2>1. Values \in SUBSET Usable /\ Blocks \in SUBSET Usable /\ v \in Usable \ Blocks
        BY <1>2, ValuesAndBlocks
    <2>2. Listed(users', operands', Values)
        BY <1>2, <1>3, <1>4, <1>6, <2>1, InsertListed DEF Inv, TypeOK
    <2>3. Listed(users', successors', Blocks)
        BY <1>6, <2>1, OtherListed DEF Inv, TypeOK
    <2> QED BY <2>2, <2>3
<1> HIDE DEF i, v, new
<1>10. TypeOK'
    <2>1. panicked' \in BOOLEAN
        BY <1>6, Zenon DEF Inv, TypeOK
    <2>2. new \in Lists /\ Pushed(new)
        BY <1>5 DEF Sound, IsList
    <2>3. operands' \in [Insts -> Lists] /\ \A j \in Insts : Pushed(operands'[j])
        BY <1>2, <1>6, <1>7, <2>2 DEF Inv, TypeOK, new
    <2>4. users' \in [Usable -> SUBSET (Insts \X Slot)]
        BY <1>2, <1>4, <1>6 DEF Inv, TypeOK, Usable
    <2> QED BY <1>6, <1>8, <2>1, <2>3, <2>4 DEF Inv, TypeOK
<1>11. ListsSound'
    <2>1. kind[i] # None /\ Fits(successors[i], building.dests)
        BY <1>1 DEF Inv, ListsSound, i
    <2>2. Fits(new, Tail(building.args))
        BY <1>2, <1>3, <1>4, <1>5 DEF Fits, Lists
    <2> QED BY <1>5, <1>6, <1>7, <1>8, <2>1, <2>2 DEF Inv, ListsSound
<1> QED BY <1>9, <1>10, <1>11 DEF Inv

LEMMA AddSuccessorInv == ASSUME Inv, AddSuccessor PROVE Inv'
<1> DEFINE i == building.inst
           b == Head(building.dests)
           idx == NextIdx(successors[i])
           new == Inserted(successors[i], Operand(b, i, idx))
<1>1. /\ building \in [inst : Insts, args : Seq(Values), dests : Seq(Blocks)]
      /\ building # None /\ building.dests # <<>>
    BY DEF AddSuccessor, Inv, TypeOK
<1>2. /\ i \in Insts /\ b \in Blocks /\ Len(building.dests) \in Nat \ {0}
      /\ Tail(building.dests) \in Seq(Blocks)
      /\ Len(Tail(building.dests)) = Len(building.dests) - 1
    BY <1>1
<1>3. Sound(successors[i], i, Blocks) /\ successors[i] \in Lists
    BY <1>2 DEF Inv, ListsSound, Sound, IsList
<1>4. Fits(successors[i], building.dests) /\ idx = successors[i].size /\ idx \in Slot
    BY <1>1, <1>2, <1>3 DEF Inv, ListsSound, Fits, NextIdx, Slot, Lists
<1>5. Sound(new, i, Blocks) /\ new.first_vacant = None /\ new.size = successors[i].size + 1
    BY <1>2, <1>3, <1>4, InsertSound DEF Usable, Fits
<1>6. /\ users' = [users EXCEPT ![b] = @ \cup {<<i, idx>>}]
      /\ successors' = [successors EXCEPT ![i] = Inserted(@, Operand(b, i, idx))]
      /\ building' = [building EXCEPT !.dests = Tail(@)]
      /\ UNCHANGED <<kind, operands, phi_node, panicked, ret>>
    BY DEF AddSuccessor
<1>7. successors'[i] = new /\ \A j \in Insts : j # i => successors'[j] = successors[j]
    BY <1>2, <1>6 DEF Inv, TypeOK
<1>8. /\ building'.inst = i /\ building'.dests = Tail(building.dests)
      /\ building'.args = building.args
      /\ building' \in [inst : Insts, args : Seq(Values), dests : Seq(Blocks)]
    BY <1>1, <1>2, <1>6
<1>9. Listed(users', operands', Values) /\ Listed(users', successors', Blocks)
    <2>1. Values \in SUBSET Usable /\ Blocks \in SUBSET Usable /\ b \in Usable \ Values
        BY <1>2, ValuesAndBlocks
    <2>2. Listed(users', successors', Blocks)
        BY <1>2, <1>3, <1>4, <1>6, <2>1, InsertListed DEF Inv, TypeOK
    <2>3. Listed(users', operands', Values)
        BY <1>6, <2>1, OtherListed DEF Inv, TypeOK
    <2> QED BY <2>2, <2>3
<1> HIDE DEF i, b, new
<1>10. TypeOK'
    <2>1. panicked' \in BOOLEAN
        BY <1>6, Zenon DEF Inv, TypeOK
    <2>2. new \in Lists /\ Pushed(new)
        BY <1>5 DEF Sound, IsList
    <2>3. successors' \in [Insts -> Lists] /\ \A j \in Insts : Pushed(successors'[j])
        BY <1>2, <1>6, <1>7, <2>2 DEF Inv, TypeOK, new
    <2>4. users' \in [Usable -> SUBSET (Insts \X Slot)]
        BY <1>2, <1>4, <1>6 DEF Inv, TypeOK, Usable
    <2> QED BY <1>6, <1>8, <2>1, <2>3, <2>4 DEF Inv, TypeOK
<1>11. ListsSound'
    <2>1. kind[i] # None /\ Fits(operands[i], building.args)
        BY <1>1 DEF Inv, ListsSound, i
    <2>2. Fits(new, Tail(building.dests))
        BY <1>2, <1>3, <1>4, <1>5 DEF Fits, Lists
    <2> QED BY <1>5, <1>6, <1>7, <1>8, <2>1, <2>2 DEF Inv, ListsSound
<1> QED BY <1>9, <1>10, <1>11 DEF Inv

LEMMA BuiltInv == ASSUME Inv, Built PROVE Inv'
<1>1. panicked' \in BOOLEAN
    BY Zenon DEF Inv, TypeOK, Built
<1> QED BY <1>1 DEF Inv, TypeOK, ListsSound, Built

(* The panic of insert never happens, so the call always maps its block. *)
LEMMA InsertIncomingInv ==
    ASSUME Inv, NEW i \in Insts, NEW b \in Blocks, NEW v \in Defined,
           InsertIncoming(i, b, v)
    PROVE  Inv'
<1> DEFINE idx == NextIdx(operands[i])
           new == Inserted(operands[i], Operand(v, i, idx))
<1>1. v \in Values /\ Sound(operands[i], i, Values) /\ operands[i] \in Lists /\ idx \in Slot
    BY DEF Defined, Values, Inv, ListsSound, Sound, IsList, InsertIncoming
<1>2. Sound(new, i, Values) /\ ~InsertPanics(operands[i])
    BY <1>1, InsertSound DEF Usable
<1>3. /\ users' = [users EXCEPT ![v] = @ \cup {<<i, idx>>}]
      /\ operands' = [operands EXCEPT ![i] = Inserted(@, Operand(v, i, idx))]
      /\ phi_node' = [phi_node EXCEPT ![i] = [@ EXCEPT ![b] = idx]]
      /\ UNCHANGED <<kind, successors, building, panicked, ret>>
    BY <1>2 DEF InsertIncoming
<1>4. operands'[i] = new /\ \A j \in Insts : j # i => operands'[j] = operands[j]
    BY <1>3 DEF Inv, TypeOK
<1>5. kind[i] # None /\ building = None
    BY DEF InsertIncoming, IsPhi, Idle
<1>6. Listed(users', operands', Values) /\ Listed(users', successors', Blocks)
    <2>1. Values \in SUBSET Usable /\ Blocks \in SUBSET Usable /\ v \in Usable \ Blocks
        BY <1>1, ValuesAndBlocks
    <2>2. Listed(users', operands', Values)
        BY <1>1, <1>3, <2>1, InsertListed DEF Inv, TypeOK
    <2>3. Listed(users', successors', Blocks)
        BY <1>3, <2>1, OtherListed DEF Inv, TypeOK
    <2> QED BY <2>2, <2>3
<1> HIDE DEF idx, new
<1>7. TypeOK'
    <2>1. panicked' \in BOOLEAN
        BY <1>3, Zenon DEF Inv, TypeOK
    <2>2. new \in Lists /\ Pushed(new)
        BY <1>2 DEF Sound, IsList
    <2>3. operands' \in [Insts -> Lists] /\ \A j \in Insts : Pushed(operands'[j])
        BY <1>3, <1>4, <2>2 DEF Inv, TypeOK, new, idx
    <2>4. users' \in [Usable -> SUBSET (Insts \X Slot)]
        BY <1>1, <1>3 DEF Inv, TypeOK, Usable
    <2>5. phi_node' \in [Insts -> [Blocks -> Slot \cup {None}]]
        BY <1>1, <1>3 DEF Inv, TypeOK
    <2> QED BY <1>3, <2>1, <2>3, <2>4, <2>5 DEF Inv, TypeOK
<1>8. ListsSound'
    BY <1>2, <1>3, <1>4, <1>5 DEF Inv, ListsSound
<1> QED BY <1>6, <1>7, <1>8 DEF Inv

LEMMA RemoveIncomingInv ==
    ASSUME Inv, NEW i \in Insts, NEW b \in Blocks, RemoveIncoming(i, b)
    PROVE  Inv'
<1> DEFINE h == phi_node[i][b]
           operand == operands[i].slots[h].operand
           new == Removed(operands[i], h)
<1>1. /\ Sound(operands[i], i, Values) /\ kind[i] # None /\ building = None
      /\ phi_node' = [phi_node EXCEPT ![i] = [@ EXCEPT ![b] = None]]
      /\ UNCHANGED <<kind, successors, building, ret>>
    BY DEF Inv, ListsSound, RemoveIncoming, IsPhi, Idle
<1>2. phi_node' \in [Insts -> [Blocks -> Slot \cup {None}]]
    BY <1>1 DEF Inv, TypeOK
<1>3. CASE h \notin OccupiedSlots(operands[i])
    <2>1. panicked' = TRUE /\ UNCHANGED <<operands, users>>
        BY <1>3, Zenon DEF RemoveIncoming
    <2>2. panicked' \in BOOLEAN
        BY <2>1, Zenon
    <2>3. TypeOK'
        BY <1>1, <1>2, <2>1, <2>2 DEF Inv, TypeOK
    <2> QED BY <1>1, <2>1, <2>3 DEF Inv, ListsSound
<1>4. CASE h \in OccupiedSlots(operands[i])
    <2>1. /\ operands' = [operands EXCEPT ![i] = Removed(@, h)]
          /\ users' = [users EXCEPT ![operand.used] =
                                      @ \ {<<operand.inst, operand.idx>>}]
        BY <1>4 DEF RemoveIncoming
    <2>2. panicked' \in BOOLEAN
        BY <1>4, Zenon DEF RemoveIncoming, Inv, TypeOK
    <2>3. Sound(new, i, Values)
        BY <1>1, <1>4, RemoveSound
    <2>4. /\ operand.used = Used(operands[i], h) /\ operand.used \in Values
          /\ operand.inst = i /\ operand.idx = h
        BY <1>1, <1>4 DEF Sound, KnowsSlots, Used
    <2>5. operands'[i] = new /\ \A j \in Insts : j # i => operands'[j] = operands[j]
        BY <2>1 DEF Inv, TypeOK
    <2>6. Listed(users', operands', Values) /\ Listed(users', successors', Blocks)
        <3>1. Values \in SUBSET Usable /\ Blocks \in SUBSET Usable
              /\ operand.used \in Usable \ Blocks
            BY <2>4, ValuesAndBlocks
        <3>2. Listed(users', operands', Values)
            <4>1. /\ operands \in [Insts -> Lists]
                  /\ users \in [Usable -> SUBSET (Insts \X Slot)]
                  /\ Listed(users, operands, Values)
                  /\ Used(operands[i], h) \in Values
                BY <2>4 DEF Inv, TypeOK
            <4> HIDE DEF h
            <4> QED BY <1>1, <1>4, <2>1, <3>1, <4>1, RemoveListed
        <3>3. Listed(users', successors', Blocks)
            BY <1>1, <2>1, <3>1, OtherListed DEF Inv, TypeOK
        <3> QED BY <3>2, <3>3
    <2> HIDE DEF h, operand, new
    <2>7. TypeOK'
        <3>1. new \in Lists /\ Pushed(new)
            BY <2>3 DEF Sound, IsList
        <3>2. operands' \in [Insts -> Lists] /\ \A j \in Insts : Pushed(operands'[j])
            BY <2>1, <2>5, <3>1 DEF Inv, TypeOK, new
        <3>3. users' \in [Usable -> SUBSET (Insts \X Slot)]
            BY <2>1 DEF Inv, TypeOK
        <3> QED BY <1>1, <1>2, <2>2, <3>2, <3>3 DEF Inv, TypeOK
    <2>8. ListsSound'
        BY <1>1, <2>3, <2>5 DEF Inv, ListsSound
    <2> QED BY <2>6, <2>7, <2>8 DEF Inv
<1> QED BY <1>3, <1>4

LEMMA IncomingInv ==
    ASSUME Inv, NEW i \in Insts, NEW b \in Blocks, Incoming(i, b)
    PROVE  Inv'
<1>1. UNCHANGED <<kind, operands, successors, phi_node, users, building>>
    BY DEF Incoming
<1>2. panicked' \in BOOLEAN
    BY Zenon DEF Incoming, Inv, TypeOK
<1>3. ret' \in Values \cup {None}
    <2>1. \A s \in OccupiedSlots(operands[i]) : Used(operands[i], s) \in Values
        BY DEF Inv, ListsSound, Sound, KnowsSlots
    <2> QED BY <2>1 DEF Incoming, Inv, TypeOK
<1> QED BY <1>1, <1>2, <1>3 DEF Inv, TypeOK, ListsSound

LEMMA RejectedInv ==
    ASSUME Inv, NEW i \in Insts, NEW b \in Blocks, Rejected(i, b)
    PROVE  Inv'
<1>1. UNCHANGED <<kind, operands, successors, phi_node, users, building, ret>>
    BY DEF Rejected
<1>2. panicked' \in BOOLEAN
    BY Zenon DEF Rejected
<1> QED BY <1>1, <1>2 DEF Inv, TypeOK, ListsSound

LEMMA NextInv == Inv /\ [Next]_vars => Inv'
<1> SUFFICES ASSUME Inv, [Next]_vars PROVE Inv'
    OBVIOUS
<1>1. CASE UNCHANGED vars
    BY <1>1 DEF vars, Inv, TypeOK, ListsSound
<1>2. CASE Next
    BY <1>2, CreateInv, AddOperandInv, AddSuccessorInv, BuiltInv,
       InsertIncomingInv, RemoveIncomingInv, IncomingInv, RejectedInv DEF Next
<1> QED BY <1>1, <1>2

LEMMA Invariance == Spec => []Inv
BY InitInv, NextInv, PTL DEF Spec

(* Slots, users and mappings stay within their ranges: no constructor runs *)
(* past the slots it reserves and drop never names a slot that is not one. *)
THEOREM TypeCorrect == Spec => []TypeOK
<1>1. Inv => TypeOK
    BY DEF Inv
<1> QED BY <1>1, Invariance, PTL

(* For any number of instructions, values, blocks and slots, and whatever  *)
(* is inserted into and removed from phis, the users of a value are exactly *)
(* the operand slots that hold it, and the users of a block the successor  *)
(* slots.                                                                  *)
THEOREM UsersAgree == Spec => []UsersMatchOperands
<1>1. Inv => UsersMatchOperands
    BY ListedIsMatch DEF Inv
<1> QED BY <1>1, Invariance, PTL

(* Every operand is dropped under the slot it was created for. *)
THEOREM SlotsRemembered == Spec => []OperandsKnowTheirSlot
<1>1. Inv => OperandsKnowTheirSlot
    BY DEF Inv, ListsSound, Sound, KnowsSlots, OperandsKnowTheirSlot
<1> QED BY <1>1, Invariance, PTL

-----------------------------------------------------------------------------
(***************************************************************************)
(* The vacant slots of a list are a stack: w lists them from the first,    *)
(* each once, and every one leads to the next.                             *)
(***************************************************************************)
IsStack(list, n, w) ==
    /\ n \in Nat /\ w \in [1 .. n -> VacantSlots(list)]
    /\ \A v \in VacantSlots(list) : \E j \in 1 .. n : w[j] = v
    /\ \A j, k \in 1 .. n : w[j] = w[k] => j = k
    /\ list.first_vacant = IF n = 0 THEN None ELSE w[1]
    /\ \A j \in 1 .. n : list.slots[w[j]].next = IF j = n THEN None ELSE w[j + 1]
    /\ list.len = list.size - n

Stacked(list) == \E n, w : IsStack(list, n, w)

(* The length of the stack is the number of the vacant slots. *)
LEMMA StackCardinality ==
    ASSUME NEW list, NEW n, NEW w, IsStack(list, n, w)
    PROVE  Cardinality(VacantSlots(list)) = n
<1>1. w \in Bijection(1 .. n, VacantSlots(list))
    BY DEF IsStack, Bijection, Injection, Surjection, IsInjective
<1>2. ExistsBijection(1 .. n, VacantSlots(list)) /\ n \in Nat
    BY <1>1 DEF ExistsBijection, IsStack
<1> QED BY <1>2, FS_CountingElements

LEMMA EmptyStacked == Stacked(EmptyList)
<1>1. VacantSlots(EmptyList) = {}
    BY DEF VacantSlots, EmptyList, Slot
<1>2. IsStack(EmptyList, 0, [j \in 1 .. 0 |-> None])
    BY <1>1 DEF IsStack, EmptyList
<1> QED BY <1>2 DEF Stacked

(* insert pops the stack, or leaves it empty and pushes a slot. *)
LEMMA InsertStacked ==
    ASSUME NEW list, IsList(list), Stacked(list), NEW o, NextIdx(list) \in Slot
    PROVE  Stacked(Inserted(list, o))
<1> DEFINE new == Inserted(list, o)
<1>1. PICK n, w : IsStack(list, n, w)
    BY DEF Stacked
<1>2. list.size \in 0 .. MaxOperands /\ list.slots \in [Slot -> Entry \cup {None}] /\ list.len \in Int
    BY DEF IsList, Lists
<1>3. VacantSlots(list) \subseteq Slot /\ None \notin Slot
    BY DEF VacantSlots, Slot
<1>4. CASE list.first_vacant # None
    <2> DEFINE h == list.first_vacant
               w2 == [j \in 1 .. (n - 1) |-> w[j + 1]]
    <2>1. n \in Nat /\ n # 0 /\ h = w[1] /\ h \in VacantSlots(list)
        BY <1>1, <1>4 DEF IsStack
    <2>2. /\ new.size = list.size /\ new.first_vacant = list.slots[h].next
          /\ new.slots = [list.slots EXCEPT ![h] = Occupied(o)]
          /\ new.len = list.len + 1
        BY <1>4 DEF Inserted
    <2>3. /\ new.slots[h] = Occupied(o)
          /\ \A s \in Slot : s # h => new.slots[s] = list.slots[s]
        BY <1>2, <1>3, <2>1, <2>2
    <2> HIDE DEF new, h
    <2>4. VacantSlots(new) = VacantSlots(list) \ {h}
        BY <2>2, <2>3 DEF VacantSlots, Occupied
    <2>5. \A j \in 1 .. (n - 1) : j + 1 \in 1 .. n /\ w2[j] = w[j + 1] /\ j + 1 # 1
        BY <2>1
    <2>6. w2 \in [1 .. (n - 1) -> VacantSlots(new)]
        BY <1>1, <2>1, <2>4, <2>5 DEF IsStack
    <2> HIDE DEF w2
    <2>7. ASSUME NEW v \in VacantSlots(new) PROVE \E j \in 1 .. (n - 1) : w2[j] = v
        <3>1. PICK j \in 1 .. n : w[j] = v
            BY <1>1, <2>4 DEF IsStack
        <3>2. j # 1 /\ j - 1 \in 1 .. (n - 1)
            BY <2>1, <2>4, <3>1
        <3> QED BY <2>5, <3>1, <3>2
    <2>8. \A j, k \in 1 .. (n - 1) : w2[j] = w2[k] => j = k
        BY <1>1, <2>1, <2>5 DEF IsStack
    <2>9. new.first_vacant = IF n - 1 = 0 THEN None ELSE w2[1]
        BY <1>1, <2>1, <2>2, <2>5 DEF IsStack
    <2>10. \A j \in 1 .. (n - 1) :
              new.slots[w2[j]].next = IF j = n - 1 THEN None ELSE w2[j + 1]
        <3> SUFFICES ASSUME NEW j \in 1 .. (n - 1)
                     PROVE  new.slots[w2[j]].next = IF j = n - 1 THEN None ELSE w2[j + 1]
            OBVIOUS
        <3>1. w2[j] \in VacantSlots(list) /\ w2[j] # h
            BY <2>4, <2>6
        <3>2. new.slots[w2[j]] = list.slots[w[j + 1]]
            BY <1>3, <2>3, <2>5, <3>1
        <3>3. list.slots[w[j + 1]].next = IF j + 1 = n THEN None ELSE w[j + 2]
            BY <1>1, <2>1 DEF IsStack
        <3>4. j # n - 1 => j + 1 \in 1 .. (n - 1) /\ w2[j + 1] = w[j + 2]
            BY <2>1, <2>5
        <3> QED BY <2>1, <3>2, <3>3, <3>4
    <2>11. new.len = new.size - (n - 1) /\ n - 1 \in Nat
        BY <1>1, <1>2, <2>1, <2>2 DEF IsStack
    <2>12. IsStack(new, n - 1, w2)
        BY <2>6, <2>7, <2>8, <2>9, <2>10, <2>11 DEF IsStack
    <2> QED BY <2>12 DEF Stacked, new
<1>5. CASE list.first_vacant = None
    <2>1. n = 0 /\ VacantSlots(list) = {}
        BY <1>1, <1>3, <1>5 DEF IsStack
    <2>2. /\ new.size = list.size + 1 /\ new.first_vacant = None
          /\ new.slots = [list.slots EXCEPT ![list.size] = Occupied(o)]
          /\ new.len = list.len + 1
        BY <1>5 DEF Inserted
    <2>3. list.size \in Slot
        BY <1>5 DEF NextIdx
    <2>4. /\ new.slots[list.size] = Occupied(o)
          /\ \A s \in Slot : s # list.size => new.slots[s] = list.slots[s]
        BY <1>2, <2>2, <2>3
    <2> HIDE DEF new
    <2>5. VacantSlots(new) = {}
        BY <1>2, <2>1, <2>2, <2>4 DEF VacantSlots, Occupied, Slot
    <2>6. IsStack(new, 0, w)
        BY <1>1, <1>2, <2>1, <2>2, <2>5 DEF IsStack
    <2> QED BY <2>6 DEF Stacked, new
<1> QED BY <1>4, <1>5

(* remove pushes the slot it vacates. *)
LEMMA RemoveStacked ==
    ASSUME NEW list, IsList(list), Stacked(list), NEW h \in OccupiedSlots(list)
    PROVE  Stacked(Removed(list, h))
<1> DEFINE new == Removed(list, h)
<1>1. PICK n, w : IsStack(list, n, w)
    BY DEF Stacked
<1>2. /\ list.size \in 0 .. MaxOperands /\ list.slots \in [Slot -> Entry \cup {None}]
      /\ list.len \in Int
    BY DEF IsList, Lists
<1>3. /\ VacantSlots(list) \subseteq Slot /\ h \notin VacantSlots(list)
      /\ h \in Slot /\ h < list.size
    BY DEF VacantSlots, OccupiedSlots
<1>4. /\ new.size = list.size /\ new.first_vacant = h
      /\ new.slots = [list.slots EXCEPT ![h] = Vacant(list.first_vacant)]
      /\ new.len = list.len - 1
    BY DEF Removed
<1>5. /\ new.slots[h] = Vacant(list.first_vacant)
      /\ \A s \in Slot : s # h => new.slots[s] = list.slots[s]
    BY <1>2, <1>3, <1>4
<1> DEFINE w2 == [j \in 1 .. (n + 1) |-> IF j = 1 THEN h ELSE w[j - 1]]
<1> HIDE DEF new
<1>6. VacantSlots(new) = VacantSlots(list) \cup {h} /\ n \in Nat
    BY <1>1, <1>3, <1>4, <1>5 DEF VacantSlots, Vacant, IsStack
<1>7. w2[1] = h /\ \A j \in 1 .. n : j + 1 \in 1 .. (n + 1) /\ w2[j + 1] = w[j]
    BY <1>6
<1>8. \A j \in 1 .. (n + 1) : j = 1 \/ (j - 1 \in 1 .. n /\ w2[j] = w[j - 1])
    BY <1>6
<1>9. w2 \in [1 .. (n + 1) -> VacantSlots(new)]
    BY <1>1, <1>6, <1>8 DEF IsStack
<1> HIDE DEF w2
<1>10. ASSUME NEW v \in VacantSlots(new) PROVE \E j \in 1 .. (n + 1) : w2[j] = v
    <2>1. CASE v = h
        BY <1>6, <1>7, <2>1
    <2>2. CASE v # h
        <3>1. PICK j \in 1 .. n : w[j] = v
            BY <1>1, <1>6, <2>2 DEF IsStack
        <3> QED BY <1>7, <3>1
    <2> QED BY <2>1, <2>2
<1>11. \A j \in 1 .. n : w[j] \in VacantSlots(list) /\ w[j] # h
    BY <1>1, <1>3 DEF IsStack
<1>12. ASSUME NEW j \in 1 .. (n + 1), NEW k \in 1 .. (n + 1), w2[j] = w2[k]
       PROVE  j = k
    <2>1. \A a, b \in 1 .. n : w[a] = w[b] => a = b
        BY <1>1 DEF IsStack
    <2>2. CASE j = 1 \/ k = 1
        BY <1>7, <1>8, <1>11, <1>12, <2>2
    <2>3. CASE j # 1 /\ k # 1
        <3>1. /\ j - 1 \in 1 .. n /\ w2[j] = w[j - 1]
              /\ k - 1 \in 1 .. n /\ w2[k] = w[k - 1]
            BY <1>8, <2>3
        <3>2. j - 1 = k - 1
            BY <1>12, <2>1, <3>1
        <3> QED BY <1>6, <3>2
    <2> QED BY <2>2, <2>3
<1>13. new.first_vacant = IF n + 1 = 0 THEN None ELSE w2[1]
    BY <1>4, <1>6, <1>7
<1>14. ASSUME NEW j \in 1 .. (n + 1)
       PROVE  new.slots[w2[j]].next = IF j = n + 1 THEN None ELSE w2[j + 1]
    <2>1. CASE j = 1
        <3>1. new.slots[w2[j]].next = list.first_vacant
            BY <1>5, <1>7, <2>1 DEF Vacant
        <3>2. list.first_vacant = IF n = 0 THEN None ELSE w[1]
            BY <1>1 DEF IsStack
        <3> QED BY <1>6, <1>7, <2>1, <3>1, <3>2
    <2>2. CASE j # 1
        <3>1. j - 1 \in 1 .. n /\ w2[j] = w[j - 1]
            BY <1>8, <2>2
        <3>2. new.slots[w2[j]] = list.slots[w[j - 1]]
            BY <1>3, <1>5, <1>11, <3>1
        <3>3. list.slots[w[j - 1]].next = IF j - 1 = n THEN None ELSE w[(j - 1) + 1]
            BY <1>1, <3>1 DEF IsStack
        <3>4. j # n + 1 => j \in 1 .. n /\ w2[j + 1] = w[j]
            BY <1>6, <1>7, <3>1
        <3> QED BY <1>6, <3>1, <3>2, <3>3, <3>4
    <2> QED BY <2>1, <2>2
<1>15. new.len = new.size - (n + 1) /\ n + 1 \in Nat
    BY <1>1, <1>2, <1>4, <1>6 DEF IsStack
<1>16. IsStack(new, n + 1, w2)
    BY <1>9, <1>10, <1>12, <1>13, <1>14, <1>15 DEF IsStack
<1> QED BY <1>16 DEF Stacked, new

-----------------------------------------------------------------------------
(***************************************************************************)
(* Phis: what phi_node of a block leads to is an operand, and no two       *)
(* blocks of one phi lead to the same one.                                 *)
(***************************************************************************)
PhisMapped ==
    /\ \A i \in Insts, b \in Blocks : phi_node[i][b] # None =>
          IsPhi(i) /\ phi_node[i][b] \in OccupiedSlots(operands[i])
    /\ \A i \in Insts : \A b, c \in Blocks :
          phi_node[i][b] # None /\ phi_node[i][b] = phi_node[i][c] => b = c

ListsStacked == \A i \in Insts : Stacked(operands[i])

PhiInv == Inv /\ ListsStacked /\ PhisMapped

(* The slot a block of a phi leads to, as the abstract map sees it. *)
MapAt(i, b) == IF phi_node[i][b] \notin OccupiedSlots(operands[i])
               THEN None ELSE Used(operands[i], phi_node[i][b])

PhiMapOf == [i \in {j \in Insts : IsPhi(j)} |-> [b \in Blocks |-> MapAt(i, b)]]

(* The operands that were there are still there, where they were. *)
Keeps(old, new) == \A s \in OccupiedSlots(old) :
                      s \in OccupiedSlots(new) /\ Used(new, s) = Used(old, s)

LEMMA InitPhiInv == Init => PhiInv
<1> SUFFICES ASSUME Init PROVE PhiInv
    OBVIOUS
<1>1. ListsStacked
    BY EmptyStacked DEF Init, ListsStacked
<1>2. PhisMapped
    BY DEF Init, PhisMapped
<1> QED BY <1>1, <1>2, InitInv DEF PhiInv

LEMMA MapAtNone ==
    ASSUME PhiInv, NEW i \in Insts, NEW b \in Blocks
    PROVE  /\ MapAt(i, b) = None <=> phi_node[i][b] = None
           /\ MapAt(i, b) \in Values \cup {None}
<1>1. Sound(operands[i], i, Values)
    BY DEF PhiInv, Inv, ListsSound
<1>2. None \notin Values /\ None \notin Slot
    BY DEF Values, Slot
<1>3. OccupiedSlots(operands[i]) \subseteq Slot
    BY DEF OccupiedSlots
<1> QED BY <1>1, <1>2, <1>3 DEF MapAt, PhiInv, PhisMapped, Sound, KnowsSlots

(* A step that neither maps a block nor takes an operand away leaves every *)
(* phi as it was.                                                          *)
LEMMA KeepPhis ==
    ASSUME PhiInv, Inv', ListsStacked', UNCHANGED phi_node,
           \A i \in Insts : Keeps(operands[i], operands'[i]),
           \A i \in Insts : IsPhi(i) => IsPhi(i)'
    PROVE  /\ PhiInv'
           /\ \A i \in Insts, b \in Blocks : MapAt(i, b)' = MapAt(i, b)
<1>1. PhisMapped'
    BY DEF PhiInv, PhisMapped, Keeps
<1>2. ASSUME NEW i \in Insts, NEW b \in Blocks
      PROVE  MapAt(i, b)' = MapAt(i, b)
    <2>1. CASE phi_node[i][b] = None
        <3>1. None \notin OccupiedSlots(operands[i]) /\ None \notin OccupiedSlots(operands'[i])
            BY DEF OccupiedSlots, Slot
        <3> QED BY <2>1, <3>1 DEF MapAt
    <2>2. CASE phi_node[i][b] # None
        BY <2>2 DEF MapAt, PhiInv, PhisMapped, Keeps
    <2> QED BY <2>1, <2>2
<1> QED BY <1>1, <1>2 DEF PhiInv

(* The kinds of the instructions decide which of them are phis. *)
LEMMA SamePhis ==
    ASSUME UNCHANGED kind, \A i \in Insts, b \in Blocks : MapAt(i, b)' = MapAt(i, b)
    PROVE  PhiMapOf' = PhiMapOf
BY DEF PhiMapOf, IsPhi

-----------------------------------------------------------------------------
(* The steps of the abstract map, in terms of MapAt. *)

LEMMA Stutters ==
    ASSUME PhiMapOf' = PhiMapOf, ret' = ret
    PROVE  [Phis!Next]_<<PhiMapOf, ret>>
OBVIOUS

LEMMA CreatePhis ==
    ASSUME PhiInv, NEW i \in Insts, Create(i)
    PROVE  PhiInv' /\ [Phis!Next]_<<PhiMapOf, ret>>
<1>0. PICK k \in Kinds :
         \E n \in Arity(k) :
            \E args \in Tuples(Defined, n), dests \in Tuples(Blocks, Dests(k)) :
               New(i, k, args, dests)
    BY DEF Create
<1>1. /\ kind[i] = None /\ kind' = [kind EXCEPT ![i] = k]
      /\ UNCHANGED <<operands, successors, phi_node, users, panicked, ret>>
    BY <1>0 DEF New
<1>2. Inv' /\ ListsStacked'
    BY <1>1, CreateInv DEF PhiInv, ListsStacked
<1>3. ~IsPhi(i) /\ \A j \in Insts : j # i => (IsPhi(j)' <=> IsPhi(j))
    BY <1>1 DEF IsPhi, PhiInv, Inv, TypeOK
<1>4. /\ PhiInv'
      /\ \A j \in Insts, b \in Blocks : MapAt(j, b)' = MapAt(j, b)
    <2>1. \A j \in Insts : Keeps(operands[j], operands'[j])
        BY <1>1 DEF Keeps
    <2> QED BY <1>1, <1>2, <1>3, <2>1, KeepPhis
<1>5. \A b \in Blocks : MapAt(i, b) = None
    BY <1>3, MapAtNone DEF PhiInv, PhisMapped
<1>6. CASE ~IsPhi(i)'
    <2>1. PhiMapOf' = PhiMapOf
        BY <1>3, <1>4, <1>6 DEF PhiMapOf
    <2> QED BY <1>1, <1>4, <2>1
<1>7. CASE IsPhi(i)'
    <2> DEFINE P == {j \in Insts : IsPhi(j)}
    <2>1. DOMAIN PhiMapOf = P /\ i \notin P /\ {j \in Insts : IsPhi(j)}' = P \cup {i}
        BY <1>3, <1>7 DEF PhiMapOf
    <2>2. PhiMapOf' = [j \in P \cup {i} |->
                          IF j = i THEN [b \in Blocks |-> None] ELSE PhiMapOf[j]]
        BY <1>4, <1>5, <2>1 DEF PhiMapOf
    <2>3. Phis!Create(i)
        BY <1>1, <2>1, <2>2 DEF Phis!Create, Phis!Phis, PhiMapOf, MapAt
    <2> QED BY <1>4, <2>3 DEF Phis!Next
<1> QED BY <1>6, <1>7

(* The constructors' own steps: nothing a phi leads to changes. *)
LEMMA ConstructorPhis ==
    ASSUME PhiInv, AddOperand \/ AddSuccessor \/ Built
    PROVE  PhiInv' /\ [Phis!Next]_<<PhiMapOf, ret>>
<1>1. Inv' /\ UNCHANGED <<kind, phi_node, ret>>
    BY AddOperandInv, AddSuccessorInv, BuiltInv DEF PhiInv, AddOperand, AddSuccessor, Built
<1>2. /\ \A i \in Insts : Keeps(operands[i], operands'[i])
      /\ ListsStacked'
    <2>1. CASE UNCHANGED operands
        BY <2>1 DEF Keeps, PhiInv, ListsStacked
    <2>2. CASE AddOperand
        <3> DEFINE i == building.inst
                   v == Head(building.args)
                   idx == NextIdx(operands[i])
                   o == Operand(v, i, idx)
        <3>1. /\ i \in Insts /\ v \in Values /\ building # None
              /\ Len(building.args) \in Nat \ {0}
            BY <2>2 DEF AddOperand, PhiInv, Inv, TypeOK
        <3>2. Sound(operands[i], i, Values) /\ operands[i] \in Lists /\ IsList(operands[i])
            BY <3>1 DEF PhiInv, Inv, ListsSound, Sound, IsList
        <3>3. idx \in Slot
            BY <3>1, <3>2 DEF PhiInv, Inv, ListsSound, Fits, NextIdx, Slot, Lists
        <3>4. operands' = [operands EXCEPT ![i] = Inserted(operands[i], o)]
            BY <2>2 DEF AddOperand
        <3>5. Keeps(operands[i], Inserted(operands[i], o))
            BY <3>1, <3>2, <3>3, InsertSound DEF Usable, Keeps
        <3>6. Stacked(Inserted(operands[i], o))
            BY <3>1, <3>2, <3>3, InsertStacked DEF PhiInv, ListsStacked
        <3>7. /\ operands'[i] = Inserted(operands[i], o)
              /\ \A j \in Insts : j # i => operands'[j] = operands[j]
            BY <3>1, <3>4 DEF PhiInv, Inv, TypeOK
        <3> HIDE DEF i, o
        <3> QED BY <3>5, <3>6, <3>7 DEF Keeps, PhiInv, ListsStacked
    <2> QED BY <2>1, <2>2 DEF AddSuccessor, Built
<1>3. /\ PhiInv'
      /\ \A i \in Insts, b \in Blocks : MapAt(i, b)' = MapAt(i, b)
    BY <1>1, <1>2, KeepPhis DEF IsPhi
<1>4. PhiMapOf' = PhiMapOf
    BY <1>1, <1>3, SamePhis
<1> QED BY <1>1, <1>3, <1>4

(* insert_incoming maps the block to the value and no other block          *)
(* elsewhere: the slot it takes was no one's.                              *)
LEMMA InsertPhis ==
    ASSUME PhiInv, NEW i \in Insts, NEW b \in Blocks, NEW v \in Defined,
           InsertIncoming(i, b, v)
    PROVE  /\ PhiInv'
           /\ UNCHANGED panicked
           /\ [Phis!Next]_<<PhiMapOf, ret>>
<1> DEFINE idx == NextIdx(operands[i])
           new == Inserted(operands[i], Operand(v, i, idx))
<1>1. v \in Values /\ Sound(operands[i], i, Values) /\ IsList(operands[i]) /\ idx \in Slot
    BY DEF Defined, Values, PhiInv, Inv, ListsSound, Sound, InsertIncoming
<1>2. /\ ~InsertPanics(operands[i])
      /\ idx \notin OccupiedSlots(operands[i])
      /\ OccupiedSlots(new) = OccupiedSlots(operands[i]) \cup {idx}
      /\ Used(new, idx) = v
      /\ \A s \in OccupiedSlots(operands[i]) : Used(new, s) = Used(operands[i], s)
    BY <1>1, InsertSound DEF Usable
<1>3. /\ operands' = [operands EXCEPT ![i] = Inserted(@, Operand(v, i, idx))]
      /\ phi_node' = [phi_node EXCEPT ![i] = [@ EXCEPT ![b] = idx]]
      /\ UNCHANGED <<kind, panicked, ret>>
      /\ IsPhi(i)
    BY <1>2 DEF InsertIncoming
<1>4. Inv' /\ Stacked(new)
    BY <1>1, InsertIncomingInv, InsertStacked DEF PhiInv, ListsStacked
<1>5. /\ operands'[i] = new
      /\ \A j \in Insts : j # i => operands'[j] = operands[j]
      /\ phi_node'[i][b] = idx
      /\ \A j \in Insts, c \in Blocks :
            j # i \/ c # b => phi_node'[j][c] = phi_node[j][c]
    BY <1>3 DEF PhiInv, Inv, TypeOK
<1> HIDE DEF idx, new
<1>6. idx # None /\ None \notin OccupiedSlots(new) /\ None \notin OccupiedSlots(operands[i])
    BY <1>1 DEF OccupiedSlots, Slot
<1>7. PhisMapped'
    <2>1. ASSUME NEW j \in Insts, NEW c \in Blocks, phi_node'[j][c] # None
          PROVE  IsPhi(j)' /\ phi_node'[j][c] \in OccupiedSlots(operands'[j])
        BY <1>2, <1>3, <1>5, <2>1 DEF PhiInv, PhisMapped, IsPhi
    <2>2. ASSUME NEW j \in Insts, NEW c \in Blocks, NEW d \in Blocks,
                 phi_node'[j][c] # None, phi_node'[j][c] = phi_node'[j][d]
          PROVE  c = d
        BY <1>2, <1>5, <2>2 DEF PhiInv, PhisMapped
    <2> QED BY <2>1, <2>2 DEF PhisMapped
<1>8. MapAt(i, b)' = v
    BY <1>2, <1>5 DEF MapAt
<1>9. ASSUME NEW j \in Insts, NEW c \in Blocks, j # i \/ c # b
      PROVE  MapAt(j, c)' = MapAt(j, c)
    <2>1. phi_node'[j][c] = phi_node[j][c]
        BY <1>5, <1>9
    <2>2. CASE j # i
        BY <1>5, <2>1, <2>2 DEF MapAt
    <2>3. CASE j = i /\ phi_node[j][c] = None
        BY <1>5, <1>6, <2>1, <2>3 DEF MapAt
    <2>4. CASE j = i /\ phi_node[j][c] # None
        BY <1>2, <1>5, <2>1, <2>4 DEF MapAt, PhiInv, PhisMapped
    <2> QED BY <2>2, <2>3, <2>4
<1>10. PhiMapOf' = [PhiMapOf EXCEPT ![i] = [@ EXCEPT ![b] = v]]
    BY <1>3, <1>8, <1>9 DEF PhiMapOf, IsPhi
<1>11. Phis!Insert(i, b, v)
    BY <1>3, <1>10 DEF Phis!Insert, Phis!Phis, PhiMapOf, MapAt
<1>12. PhiInv'
    BY <1>4, <1>5, <1>7 DEF PhiInv, ListsStacked
<1> QED BY <1>1, <1>3, <1>11, <1>12 DEF Phis!Next

(* remove_incoming takes the operand of this block and of no other. *)
LEMMA RemovePhis ==
    ASSUME PhiInv, NEW i \in Insts, NEW b \in Blocks, RemoveIncoming(i, b)
    PROVE  /\ PhiInv'
           /\ UNCHANGED panicked
           /\ [Phis!Next]_<<PhiMapOf, ret>>
<1> DEFINE h == phi_node[i][b]
           new == Removed(operands[i], h)
<1>1. /\ h # None /\ h \in OccupiedSlots(operands[i]) /\ IsPhi(i)
      /\ Sound(operands[i], i, Values) /\ IsList(operands[i])
    BY DEF PhiInv, PhisMapped, Inv, ListsSound, Sound, RemoveIncoming
<1>2. /\ operands' = [operands EXCEPT ![i] = Removed(@, h)]
      /\ phi_node' = [phi_node EXCEPT ![i] = [@ EXCEPT ![b] = None]]
      /\ UNCHANGED <<kind, panicked, ret>>
    BY <1>1 DEF RemoveIncoming
<1>3. /\ OccupiedSlots(new) = OccupiedSlots(operands[i]) \ {h}
      /\ \A s \in OccupiedSlots(new) : Used(new, s) = Used(operands[i], s)
      /\ Stacked(new)
    BY <1>1, RemoveSound, RemoveStacked DEF PhiInv, ListsStacked
<1>4. Inv'
    BY RemoveIncomingInv DEF PhiInv
<1>5. /\ operands'[i] = new
      /\ \A j \in Insts : j # i => operands'[j] = operands[j]
      /\ phi_node'[i][b] = None
      /\ \A j \in Insts, c \in Blocks :
            j # i \/ c # b => phi_node'[j][c] = phi_node[j][c]
    BY <1>2 DEF PhiInv, Inv, TypeOK
<1>h. \A c \in Blocks : c # b /\ phi_node[i][c] # None => phi_node[i][c] # h
    BY DEF PhiInv, PhisMapped
<1> HIDE DEF h, new
<1>6. None \notin OccupiedSlots(new) /\ None \notin OccupiedSlots(operands[i])
    BY DEF OccupiedSlots, Slot
<1>7. PhisMapped'
    <2>1. ASSUME NEW j \in Insts, NEW c \in Blocks, phi_node'[j][c] # None
          PROVE  IsPhi(j)' /\ phi_node'[j][c] \in OccupiedSlots(operands'[j])
        <3>1. phi_node'[j][c] = phi_node[j][c] /\ (j # i \/ c # b)
            BY <1>5, <2>1
        <3> QED BY <1>2, <1>3, <1>5, <1>h, <2>1, <3>1 DEF PhiInv, PhisMapped, IsPhi
    <2>2. ASSUME NEW j \in Insts, NEW c \in Blocks, NEW d \in Blocks,
                 phi_node'[j][c] # None, phi_node'[j][c] = phi_node'[j][d]
          PROVE  c = d
        BY <1>5, <2>2 DEF PhiInv, PhisMapped
    <2> QED BY <2>1, <2>2 DEF PhisMapped
<1>8. MapAt(i, b)' = None
    BY <1>5, <1>6 DEF MapAt
<1>9. ASSUME NEW j \in Insts, NEW c \in Blocks, j # i \/ c # b
      PROVE  MapAt(j, c)' = MapAt(j, c)
    <2>1. phi_node'[j][c] = phi_node[j][c]
        BY <1>5, <1>9
    <2>2. CASE j # i
        BY <1>5, <2>1, <2>2 DEF MapAt
    <2>3. CASE j = i /\ phi_node[j][c] = None
        BY <1>5, <1>6, <2>1, <2>3 DEF MapAt
    <2>4. CASE j = i /\ phi_node[j][c] # None
        BY <1>3, <1>5, <1>9, <1>h, <2>1, <2>4 DEF MapAt, PhiInv, PhisMapped
    <2> QED BY <2>2, <2>3, <2>4
<1>10. PhiMapOf' = [PhiMapOf EXCEPT ![i] = [@ EXCEPT ![b] = None]]
    <2>1. \A j \in Insts, c \in Blocks :
             MapAt(j, c)' = IF j = i /\ c = b THEN None ELSE MapAt(j, c)
        BY <1>8, <1>9
    <2>2. \A j \in Insts : IsPhi(j)' <=> IsPhi(j)
        BY <1>2 DEF IsPhi
    <2> QED BY <2>1, <2>2 DEF PhiMapOf
<1>11. PhiMapOf[i][b] # None /\ i \in DOMAIN PhiMapOf
    BY <1>1, MapAtNone DEF PhiMapOf, h
<1>12. Phis!Remove(i, b)
    BY <1>2, <1>10, <1>11 DEF Phis!Remove, Phis!Phis, PhiMapOf, MapAt
<1>13. PhiInv'
    BY <1>3, <1>4, <1>5, <1>7 DEF PhiInv, ListsStacked
<1> QED BY <1>2, <1>12, <1>13 DEF Phis!Next

(* incoming answers what the block is mapped to. *)
LEMMA IncomingPhis ==
    ASSUME PhiInv, NEW i \in Insts, NEW b \in Blocks, Incoming(i, b)
    PROVE  /\ PhiInv'
           /\ UNCHANGED panicked
           /\ [Phis!Next]_<<PhiMapOf, ret>>
<1>1. /\ phi_node[i][b] # None /\ phi_node[i][b] \in OccupiedSlots(operands[i])
      /\ IsPhi(i)
    BY DEF PhiInv, PhisMapped, Incoming
<1>2. /\ ret' = MapAt(i, b) /\ UNCHANGED <<kind, operands, phi_node, panicked>>
    BY <1>1 DEF Incoming, MapAt
<1>3. Inv' /\ ListsStacked' /\ PhisMapped'
    BY <1>2, IncomingInv DEF PhiInv, ListsStacked, PhisMapped, IsPhi
<1>4. PhiMapOf' = PhiMapOf
    BY <1>2 DEF PhiMapOf, MapAt, IsPhi
<1>5. PhiMapOf[i][b] = MapAt(i, b) /\ MapAt(i, b) # None /\ i \in DOMAIN PhiMapOf
    BY <1>1, MapAtNone DEF PhiMapOf
<1>6. Phis!Read(i, b)
    BY <1>2, <1>4, <1>5 DEF Phis!Read, Phis!Phis, PhiMapOf, MapAt
<1> QED BY <1>2, <1>3, <1>6 DEF Phis!Next, PhiInv

LEMMA RejectedPhis ==
    ASSUME PhiInv, NEW i \in Insts, NEW b \in Blocks, Rejected(i, b)
    PROVE  PhiInv' /\ [Phis!Next]_<<PhiMapOf, ret>>
<1>1. UNCHANGED <<kind, operands, phi_node, ret>> /\ Inv'
    BY RejectedInv DEF Rejected, PhiInv
<1>2. ListsStacked' /\ PhisMapped' /\ PhiMapOf' = PhiMapOf
    BY <1>1 DEF PhiInv, ListsStacked, PhisMapped, PhiMapOf, MapAt, IsPhi
<1> QED BY <1>1, <1>2 DEF PhiInv

LEMMA NextPhis == PhiInv /\ [Next]_vars => PhiInv' /\ [Phis!Next]_<<PhiMapOf, ret>>
<1> SUFFICES ASSUME PhiInv, [Next]_vars
             PROVE  PhiInv' /\ [Phis!Next]_<<PhiMapOf, ret>>
    OBVIOUS
<1>1. CASE UNCHANGED vars
    <2>1. Inv' /\ UNCHANGED <<kind, operands, phi_node, ret>>
        BY <1>1, NextInv DEF vars, PhiInv
    <2>2. ListsStacked' /\ PhisMapped' /\ PhiMapOf' = PhiMapOf
        BY <2>1 DEF PhiInv, ListsStacked, PhisMapped, PhiMapOf, MapAt, IsPhi
    <2> QED BY <2>1, <2>2 DEF PhiInv
<1>2. CASE Next
    BY <1>2, CreatePhis, ConstructorPhis, InsertPhis, RemovePhis, IncomingPhis,
       RejectedPhis DEF Next
<1> QED BY <1>1, <1>2

LEMMA PhiInvariance == Spec => []PhiInv
BY InitPhiInv, NextPhis, PTL DEF Spec

(* No slot of an operand list leaks and none is handed out twice, whatever *)
(* is inserted into and removed from phis: the vacant ones form a stack    *)
(* and len counts the rest.                                                *)
THEOREM SlotsAreStacked == Spec => []VacantSlotsAreStack
<1>1. PhiInv => VacantSlotsAreStack
    <2> SUFFICES ASSUME PhiInv, NEW i \in Insts
                 PROVE  LET list == operands[i]
                            n == Cardinality(VacantSlots(list))
                        IN  /\ list.len = list.size - n
                            /\ \E w \in [1 .. n -> VacantSlots(list)] :
                                  /\ \A v \in VacantSlots(list) : \E j \in 1 .. n : w[j] = v
                                  /\ list.first_vacant = IF n = 0 THEN None ELSE w[1]
                                  /\ \A j \in 1 .. n : list.slots[w[j]].next =
                                                          IF j = n THEN None ELSE w[j + 1]
        BY DEF VacantSlotsAreStack
    <2>1. PICK n, w : IsStack(operands[i], n, w)
        BY DEF PhiInv, ListsStacked, Stacked
    <2>2. Cardinality(VacantSlots(operands[i])) = n
        BY <2>1, StackCardinality
    <2> QED BY <2>1, <2>2 DEF IsStack
<1> QED BY <1>1, PhiInvariance, PTL

(* The calls on phis fail only when they are rejected: insert never meets  *)
(* a slot that is not vacant, and a mapped block always leads to an        *)
(* operand.                                                                *)
THEOREM OnlyRejectedPanics ==
    Spec => [][panicked' = panicked \/ \E i \in Insts, b \in Blocks : Rejected(i, b)]_vars
<1>1. PhiInv /\ [Next]_vars =>
         [panicked' = panicked \/ \E i \in Insts, b \in Blocks : Rejected(i, b)]_vars
    <2> SUFFICES ASSUME PhiInv, Next
                 PROVE  panicked' = panicked \/ \E i \in Insts, b \in Blocks : Rejected(i, b)
        BY Zenon
    <2>1. ASSUME NEW i \in Insts, Create(i) PROVE panicked' = panicked
        BY <2>1, Zenon DEF Create, New
    <2>2. AddOperand \/ AddSuccessor \/ Built => panicked' = panicked
        BY Zenon DEF AddOperand, AddSuccessor, Built
    <2>3. ASSUME NEW i \in Insts, NEW b \in Blocks, NEW v \in Defined, InsertIncoming(i, b, v)
          PROVE  panicked' = panicked
        BY <2>3, InsertPhis, Zenon
    <2>4. ASSUME NEW i \in Insts, NEW b \in Blocks, RemoveIncoming(i, b) \/ Incoming(i, b)
          PROVE  panicked' = panicked
        BY <2>4, RemovePhis, IncomingPhis, Zenon
    <2> QED BY <2>1, <2>2, <2>3, <2>4, Zenon DEF Next
<1> QED BY <1>1, PhiInvariance, PTL DEF Spec

(* A phi is a partial map from predecessors to values: slots that are      *)
(* vacated and reused never answer for another block, for any number of    *)
(* phis, blocks and slots.                                                 *)
THEOREM PhisRefineMap == Spec => ImplementsPhiMap
<1>1. Init => Phis!Init
    BY DEF Init, Phis!Init, IsPhi
<1>2. PhiInv /\ [Next]_vars => [Phis!Next]_<<PhiMapOf, ret>>
    BY NextPhis
<1> QED BY <1>1, <1>2, PhiInvariance, PTL DEF Spec, ImplementsPhiMap, Phis!Spec, PhiMapOf, MapAt
=============================================================================
