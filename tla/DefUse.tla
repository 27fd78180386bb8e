------------------------------- MODULE DefUse -------------------------------
(***************************************************************************)
(* The def-use chains of the IR: ir/def_use.rs and the operand lists of    *)
(* ir/inst.rs.  An instruction lists its operands in slots; a value (or a  *)
(* block) lists its users as pairs of an instruction and a slot.  Both     *)
(* sides are updated by separate steps and must agree.  A vacant slot is   *)
(* reused by the next operand, so a slot number outlives its operand.      *)
(***************************************************************************)
EXTENDS Integers, Sequences, FiniteSets

CONSTANTS Insts,        \* the instructions; i also names the result of i
          Params,       \* values that are function parameters
          Constants,    \* values that are constants
          Blocks,       \* basic blocks
          None,         \* Option::None
          Kinds,        \* the kinds of instructions clients create
          MaxOperands   \* bound on the slots of a list

(* A swapped instruction is Gt or Ge; the other comparisons and the        *)
(* arithmetic ones are binary.                                             *)
AllKinds == {"alloca", "phi", "load", "store", "gep", "binary", "swapped",
             "ret", "br", "cond_br"}

ASSUME DefUseAssumption ==
    /\ MaxOperands \in Nat /\ MaxOperands >= 2
    /\ None \notin Nat \cup AllKinds
    /\ None \notin Insts \cup Params \cup Constants \cup Blocks
    /\ Blocks \cap (Insts \cup Params \cup Constants) = {}
    /\ Kinds \subseteq AllKinds

VARIABLES kind,        \* the kind of each instruction, None before it is created
          operands,    \* the operand list of each instruction
          successors,  \* the successor list of each instruction
          phi_node,    \* of each instruction, the slot of each predecessor
          users,       \* the users of each value and of each block
          building,    \* the constructor in progress, or None
          panicked,    \* has a call panicked?
          ret          \* what incoming() answered last

vars == <<kind, operands, successors, phi_node, users, building, panicked, ret>>

Values == Params \cup Constants \cup Insts
Usable == Values \cup Blocks
Slot == 0 .. (MaxOperands - 1)

-----------------------------------------------------------------------------
(* OperandList. *)

Operand(used, inst, idx) == [used |-> used, inst |-> inst, idx |-> idx]
Vacant(next) == [kind |-> "Vacant", next |-> next]
Occupied(operand) == [kind |-> "Occupied", operand |-> operand]

(* The slots that were never pushed hold None. *)
EmptyList == [slots |-> [s \in Slot |-> None], size |-> 0,
              first_vacant |-> None, len |-> 0]

OccupiedSlots(list) ==
    {s \in Slot : s < list.size /\ list.slots[s].kind = "Occupied"}
VacantSlots(list) ==
    {s \in Slot : s < list.size /\ list.slots[s].kind = "Vacant"}
Used(list, s) == list.slots[s].operand.used

(* Mutation of NextIdx: the slot after the last, as if none were reused. *)
NextIdxNeverReuses(list) == list.size

(* next_idx: the slot that insert is going to choose. *)
NextIdx(list) ==
    IF list.first_vacant # None THEN list.first_vacant ELSE list.size

(* insert takes the first vacant slot, which must be vacant, or pushes. *)
InsertPanics(list) ==
    /\ list.first_vacant # None
    /\ list.first_vacant \notin VacantSlots(list)

(* Mutation of Inserted: the vacant slot stays first. *)
InsertedKeepsVacant(list, operand) ==
    IF list.first_vacant # None
    THEN [slots |-> [list.slots EXCEPT ![list.first_vacant] = Occupied(operand)],
          size |-> list.size,
          first_vacant |-> list.first_vacant,
          len |-> list.len + 1]
    ELSE [slots |-> [list.slots EXCEPT ![list.size] = Occupied(operand)],
          size |-> list.size + 1,
          first_vacant |-> None,
          len |-> list.len + 1]

Inserted(list, operand) ==
    IF list.first_vacant # None
    THEN [slots |-> [list.slots EXCEPT ![list.first_vacant] = Occupied(operand)],
          size |-> list.size,
          first_vacant |-> list.slots[list.first_vacant].next,
          len |-> list.len + 1]
    ELSE [slots |-> [list.slots EXCEPT ![list.size] = Occupied(operand)],
          size |-> list.size + 1,
          first_vacant |-> None,
          len |-> list.len + 1]

(* Mutation of Removed: the other vacant slots are forgotten. *)
RemovedForgetsVacant(list, s) ==
    [slots |-> [list.slots EXCEPT ![s] = Vacant(None)],
     size |-> list.size,
     first_vacant |-> s,
     len |-> list.len - 1]

(* remove of an occupied slot: it becomes the first vacant one. *)
Removed(list, s) ==
    [slots |-> [list.slots EXCEPT ![s] = Vacant(list.first_vacant)],
     size |-> list.size,
     first_vacant |-> s,
     len |-> list.len - 1]

-----------------------------------------------------------------------------
(* Constructors: their operands and successors, in the order they are added. *)

Void == {"store", "ret", "br", "cond_br"}

Arity(k) == CASE k \in {"alloca", "phi", "br"} -> {0}
              [] k \in {"load", "cond_br"} -> {1}
              [] k \in {"store", "binary", "swapped"} -> {2}
              [] k = "ret" -> {0, 1}
              [] k = "gep" -> 1 .. MaxOperands
Dests(k) == CASE k = "br" -> 1 [] k = "cond_br" -> 2 [] OTHER -> 0

(* Gt and Ge are Slt and Sle with the sides exchanged. *)
Arranged(k, args) == IF k = "swapped" THEN <<args[2], args[1]>> ELSE args

(* The values that exist. *)
Defined == Params \cup Constants
             \cup {i \in Insts : kind[i] # None /\ kind[i] \notin Void}

Tuples(S, n) == [1 .. n -> S]

Init == /\ kind = [i \in Insts |-> None]
        /\ operands = [i \in Insts |-> EmptyList]
        /\ successors = [i \in Insts |-> EmptyList]
        /\ phi_node = [i \in Insts |-> [b \in Blocks |-> None]]
        /\ users = [u \in Usable |-> {}]
        /\ building = None
        /\ panicked = FALSE
        /\ ret = None

(* A public function is entered when no constructor is running. *)
Idle == ~panicked /\ building = None

(* Inst::new, called by a constructor that goes on to add args and dests. *)
New(i, k, args, dests) ==
    /\ Idle
    /\ kind[i] = None
    /\ kind' = [kind EXCEPT ![i] = k]
    /\ building' = [inst |-> i, args |-> Arranged(k, args), dests |-> dests]
    /\ UNCHANGED <<operands, successors, phi_node, users, panicked, ret>>

(* add_operand: Operand::new records the user under the slot next_idx      *)
(* announced, then insert chooses the slot by itself.                      *)
AddOperand ==
    /\ ~panicked
    /\ building # None
    /\ building.args # <<>>
    /\ LET i == building.inst
           v == Head(building.args)
           idx == NextIdx(operands[i])
       IN  /\ users' = [users EXCEPT ![v] = @ \cup {<<i, idx>>}]
           /\ operands' = [operands EXCEPT ![i] = Inserted(@, Operand(v, i, idx))]
    /\ building' = [building EXCEPT !.args = Tail(@)]
    /\ UNCHANGED <<kind, successors, phi_node, panicked, ret>>

(* add_successor, after the operands. *)
AddSuccessor ==
    /\ ~panicked
    /\ building # None
    /\ building.args = <<>>
    /\ building.dests # <<>>
    /\ LET i == building.inst
           b == Head(building.dests)
           idx == NextIdx(successors[i])
       IN  /\ users' = [users EXCEPT ![b] = @ \cup {<<i, idx>>}]
           /\ successors' = [successors EXCEPT ![i] = Inserted(@, Operand(b, i, idx))]
    /\ building' = [building EXCEPT !.dests = Tail(@)]
    /\ UNCHANGED <<kind, operands, phi_node, panicked, ret>>

(* The constructor returns the instruction. *)
Built ==
    /\ ~panicked
    /\ building # None
    /\ building.args = <<>>
    /\ building.dests = <<>>
    /\ building' = None
    /\ UNCHANGED <<kind, operands, successors, phi_node, users, panicked, ret>>

-----------------------------------------------------------------------------
(* Phi nodes. *)

IsPhi(i) == kind[i] = "phi"

(* Mutation of InsertIncoming: the slot is taken from the length. *)
InsertIncomingAtLen(i, b, v) ==
    /\ Idle
    /\ IsPhi(i)
    /\ LET idx == NextIdx(operands[i]) IN
       /\ idx \in Slot
       /\ users' = [users EXCEPT ![v] = @ \cup {<<i, idx>>}]
       /\ operands' = [operands EXCEPT ![i] = Inserted(@, Operand(v, i, idx))]
       /\ phi_node' = [phi_node EXCEPT ![i] = [@ EXCEPT ![b] = operands[i].len]]
    /\ UNCHANGED <<kind, successors, building, panicked, ret>>

(* insert_incoming: a mapping the block already had is overwritten, the    *)
(* operand it led to stays in the list.                                    *)
InsertIncoming(i, b, v) ==
    /\ Idle
    /\ IsPhi(i)
    /\ LET idx == NextIdx(operands[i]) IN
       /\ idx \in Slot
       /\ users' = [users EXCEPT ![v] = @ \cup {<<i, idx>>}]
       /\ IF InsertPanics(operands[i])
          THEN /\ panicked' = TRUE
               /\ UNCHANGED <<operands, phi_node>>
          ELSE /\ operands' = [operands EXCEPT ![i] = Inserted(@, Operand(v, i, idx))]
               /\ phi_node' = [phi_node EXCEPT ![i] = [@ EXCEPT ![b] = idx]]
               /\ UNCHANGED panicked
    /\ UNCHANGED <<kind, successors, building, ret>>

(* Mutation of RemoveIncoming: the operand is not dropped. *)
RemoveIncomingKeepsUser(i, b) ==
    /\ Idle
    /\ IsPhi(i)
    /\ phi_node[i][b] # None
    /\ phi_node[i][b] \in OccupiedSlots(operands[i])
    /\ phi_node' = [phi_node EXCEPT ![i] = [@ EXCEPT ![b] = None]]
    /\ operands' = [operands EXCEPT ![i] = Removed(@, phi_node[i][b])]
    /\ UNCHANGED <<kind, successors, users, building, panicked, ret>>

(* remove_incoming of a block that is mapped: the operand is taken out of  *)
(* its slot and dropped, under the slot the operand itself remembers.      *)
RemoveIncoming(i, b) ==
    /\ Idle
    /\ IsPhi(i)
    /\ phi_node[i][b] # None
    /\ phi_node' = [phi_node EXCEPT ![i] = [@ EXCEPT ![b] = None]]
    /\ LET s == phi_node[i][b] IN
       IF s \in OccupiedSlots(operands[i])
       THEN LET operand == operands[i].slots[s].operand IN
            /\ operands' = [operands EXCEPT ![i] = Removed(@, s)]
            /\ users' = [users EXCEPT ![operand.used] =
                                        @ \ {<<operand.inst, operand.idx>>}]
            /\ UNCHANGED panicked
       ELSE panicked' = TRUE /\ UNCHANGED <<operands, users>>
    /\ UNCHANGED <<kind, successors, building, ret>>

(* incoming of a block that is mapped. *)
Incoming(i, b) ==
    /\ Idle
    /\ IsPhi(i)
    /\ phi_node[i][b] # None
    /\ IF phi_node[i][b] \in OccupiedSlots(operands[i])
       THEN ret' = Used(operands[i], phi_node[i][b]) /\ UNCHANGED panicked
       ELSE panicked' = TRUE /\ UNCHANGED ret
    /\ UNCHANGED <<kind, operands, successors, phi_node, users, building>>

(* The assert of the three calls on an instruction that is not a phi, and  *)
(* the expect of a block that is not mapped.                               *)
Rejected(i, b) ==
    /\ Idle
    /\ kind[i] # None
    /\ IsPhi(i) => phi_node[i][b] = None
    /\ panicked' = TRUE
    /\ UNCHANGED <<kind, operands, successors, phi_node, users, building, ret>>

Create(i) ==
    \E k \in Kinds : \E n \in Arity(k) :
        \E args \in Tuples(Defined, n), dests \in Tuples(Blocks, Dests(k)) :
            New(i, k, args, dests)

Next == \/ \E i \in Insts : Create(i)
        \/ AddOperand \/ AddSuccessor \/ Built
        \/ \E i \in Insts, b \in Blocks, v \in Defined : InsertIncoming(i, b, v)
        \/ \E i \in Insts, b \in Blocks :
              RemoveIncoming(i, b) \/ Incoming(i, b) \/ Rejected(i, b)

Spec == Init /\ [][Next]_vars

-----------------------------------------------------------------------------
Entry == {Vacant(n) : n \in Slot \cup {None}}
           \cup {Occupied(Operand(u, i, s)) : u \in Usable, i \in Insts, s \in Slot}

Lists == [slots : [Slot -> Entry \cup {None}], size : 0 .. MaxOperands,
          first_vacant : Slot \cup {None}, len : Int]
Pushed(list) == \A s \in Slot : s < list.size => list.slots[s] \in Entry

TypeOK ==
    /\ kind \in [Insts -> Kinds \cup {None}]
    /\ operands \in [Insts -> Lists]
    /\ successors \in [Insts -> Lists]
    /\ \A i \in Insts : Pushed(operands[i]) /\ Pushed(successors[i])
    /\ phi_node \in [Insts -> [Blocks -> Slot \cup {None}]]
    /\ users \in [Usable -> SUBSET (Insts \X Slot)]
    /\ building \in [inst : Insts, args : Seq(Values), dests : Seq(Blocks)]
                      \cup {None}
    /\ panicked \in BOOLEAN
    /\ ret \in Values \cup {None}

(* Def-use agrees with use-def: the users of a value (of a block) are      *)
(* exactly the slots of the operand (successor) lists that hold it.        *)
UsersMatchOperands ==
    /\ \A v \in Values : users[v] =
          {u \in Insts \X Slot : /\ u[2] \in OccupiedSlots(operands[u[1]])
                                 /\ Used(operands[u[1]], u[2]) = v}
    /\ \A b \in Blocks : users[b] =
          {u \in Insts \X Slot : /\ u[2] \in OccupiedSlots(successors[u[1]])
                                 /\ Used(successors[u[1]], u[2]) = b}

(* Every operand remembers the slot it is in: what drop will take out of   *)
(* the users is the user that was put there.                               *)
OperandsKnowTheirSlot ==
    \A i \in Insts : \A s \in OccupiedSlots(operands[i]) :
        /\ operands[i].slots[s].operand.inst = i
        /\ operands[i].slots[s].operand.idx = s

(* The vacant slots of a list are exactly the ones the walk from           *)
(* first_vacant meets, each once, and len counts the others: no slot leaks *)
(* and none is handed out twice.                                           *)
VacantSlotsAreStack ==
    \A i \in Insts :
        LET list == operands[i]
            n == Cardinality(VacantSlots(list))
        IN  /\ list.len = list.size - n
            /\ \E w \in [1 .. n -> VacantSlots(list)] :
                  /\ \A v \in VacantSlots(list) : \E j \in 1 .. n : w[j] = v
                  /\ list.first_vacant = IF n = 0 THEN None ELSE w[1]
                  /\ \A j \in 1 .. n : list.slots[w[j]].next =
                                          IF j = n THEN None ELSE w[j + 1]

(* A phi implements a map from predecessors to values: a slot that was     *)
(* vacated and reused never answers for another block.                     *)
Phis == INSTANCE PhiMap
          WITH incoming <- [i \in {j \in Insts : IsPhi(j)} |->
                              [b \in Blocks |->
                                 IF phi_node[i][b] \notin OccupiedSlots(operands[i])
                                 THEN None
                                 ELSE Used(operands[i], phi_node[i][b])]],
               ret <- ret
ImplementsPhiMap == Phis!Spec
=============================================================================
