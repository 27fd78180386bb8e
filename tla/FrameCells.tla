----------------------------- MODULE FrameCells -----------------------------
(***************************************************************************)
(* What stack frames (backend/lower.rs, the stack layout of MemLoc)        *)
(* promise the code of a function: every local slot, every incoming        *)
(* parameter and every outgoing argument is a variable of its own, called  *)
(* a cell; registers hold what the code put into them; and the caller gets *)
(* back the registers it relies on.  Neither addresses nor the stack       *)
(* pointer appear here.                                                    *)
(***************************************************************************)
EXTENDS Integers, Sequences

CONSTANTS Work,      \* the registers the code works with
          Preserved, \* the registers the caller relies on
          Clobbered, \* the registers a call may change
          Entry,     \* the registers when the function is entered
          Incoming,  \* the cells when the function is entered
          Garbage,   \* an unknown value
          None       \* the function has not returned

VARIABLES body,     \* the code emitted for the function
          pc,       \* how many instructions of it have run
          cells,    \* the value of every cell: a record of kind and offset
          work,     \* the value of every register in Work
          returned  \* the preserved registers at the return, or None

vars == <<body, pc, cells, work, returned>>

Init == /\ body = <<>>
        /\ pc = 0
        /\ cells = Incoming
        /\ work = [r \in Work |-> Entry[r]]
        /\ returned = None

(* More code is emitted, for more cells. *)
Emit == /\ pc = 0
        /\ Len(body') >= Len(body)
        /\ SubSeq(body', 1, Len(body)) = body
        /\ DOMAIN cells \subseteq DOMAIN cells'
        /\ \A c \in DOMAIN cells' :
              cells'[c] = IF c \in DOMAIN cells THEN cells[c] ELSE Garbage
        /\ UNCHANGED <<pc, work, returned>>

(* The cell a memory operand names: through a pointer, the one pointed at. *)
CellAt(loc) ==
    CASE loc.kind \in {"Slot", "Incoming"} -> loc
      [] loc.kind = "RegOffset" /\ loc.base = "sp" ->
            [kind |-> "Outgoing", offset |-> loc.offset]
      [] OTHER -> work[loc.base].ptr

Run(inst) ==
    \/ /\ inst.op = "Li"
       /\ work' = [work EXCEPT ![inst.rd] = inst.imm]
       /\ UNCHANGED cells
    \/ /\ inst.op = "Load"
       /\ work' = [work EXCEPT ![inst.rd] = cells[CellAt(inst.loc)]]
       /\ UNCHANGED cells
    \/ /\ inst.op = "Store"
       /\ cells' = [cells EXCEPT ![CellAt(inst.loc)] = work[inst.rs]]
       /\ UNCHANGED work
    \/ /\ inst.op = "LoadAddr"
       /\ work' = [work EXCEPT ![inst.rd] = [ptr |-> CellAt(inst.loc)]]
       /\ UNCHANGED cells
    \/ /\ inst.op = "Call"
       /\ work' = [r \in Work |-> IF r \in Clobbered THEN Garbage ELSE work[r]]
       /\ cells' = [c \in DOMAIN cells |-> IF c.kind = "Outgoing" THEN Garbage ELSE cells[c]]

Step == /\ pc < Len(body)
        /\ Run(body[pc + 1])
        /\ pc' = pc + 1
        /\ UNCHANGED <<body, returned>>

(* After the last instruction, registers get their old values back. *)
Restore(r) ==
    /\ pc = Len(body)
    /\ returned = None
    /\ work' = [work EXCEPT ![r] = Entry[r]]
    /\ UNCHANGED <<body, pc, cells, returned>>

Return ==
    /\ pc = Len(body)
    /\ returned = None
    /\ returned' = [r \in Preserved |-> Entry[r]]
    /\ UNCHANGED <<body, pc, cells, work>>

Next == \/ Emit \/ Step \/ Return
        \/ \E r \in Preserved \cap Work : Restore(r)

Spec == Init /\ [][Next]_vars
=============================================================================
