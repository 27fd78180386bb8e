----------------------------- MODULE AdjustSeq ------------------------------
(***************************************************************************)
(* What the rewriting of offsets (LowerContext::adjust_offset) is meant to *)
(* do to the code of a function: the blocks are sequences, every           *)
(* instruction of every block is replaced once, in order and at once, by   *)
(* the instructions it stands for.  Module Frame takes this for granted.   *)
(***************************************************************************)
EXTENDS Naturals, SequencesExt

CONSTANTS Blocks,            \* how many blocks the function has
          Near, Far,         \* loads and stores of slots whose offset
                             \* fits an immediate, or does not
          NearAddr, FarAddr, \* LoadAddrs of such slots
          Other,             \* any other instruction
          Resolved,          \* a load or store with its new location
          Li, Add, Addi      \* what adjusting puts before instructions

(* What can be emitted. *)
Body == {Near, Far, NearAddr, FarAddr, Other}

VARIABLES code,   \* the instructions of every block
          at,     \* the next instruction to adjust: its block and place
          phase   \* "build", "adjust" or "done"

vars == <<code, at, phase>>

(* What an instruction is replaced by: a large offset is put into t0. *)
Expansion(d) ==
    CASE d = Near -> <<Resolved>>
      [] d = Far -> <<Li, Add, Resolved>>
      [] d = NearAddr -> <<Addi>>
      [] d = FarAddr -> <<Li, Add, Addi>>
      [] OTHER -> <<d>>

Init == /\ code = [b \in 1 .. Blocks |-> <<>>]
        /\ at = <<1, 1>>
        /\ phase = "build"

Edit(b, list) == code' = [code EXCEPT ![b] = list]

Put(b, i, d) == Edit(b, InsertAt(code[b], i, d))
Drop(b, i) == Edit(b, RemoveAt(code[b], i))

Build == /\ phase = "build"
         /\ \E b \in 1 .. Blocks :
               \/ \E i \in 1 .. (Len(code[b]) + 1), d \in Body : Put(b, i, d)
               \/ \E i \in DOMAIN code[b] : Drop(b, i)
         /\ UNCHANGED <<at, phase>>

Begin == /\ phase = "build"
         /\ phase' = "adjust"
         /\ UNCHANGED <<code, at>>

AdjustInst ==
    LET b == at[1]
        i == at[2]
        new == Expansion(code[b][i])
    IN /\ phase = "adjust"
       /\ i <= Len(code[b])
       /\ Edit(b, SubSeq(code[b], 1, i - 1) \o new \o SubSeq(code[b], i + 1, Len(code[b])))
       /\ at' = <<b, i + Len(new)>>
       /\ UNCHANGED phase

NextBlock ==
    /\ phase = "adjust"
    /\ at[2] > Len(code[at[1]])
    /\ IF at[1] < Blocks
       THEN at' = <<at[1] + 1, 1>> /\ UNCHANGED phase
       ELSE phase' = "done" /\ UNCHANGED at
    /\ UNCHANGED code

Next == Build \/ Begin \/ AdjustInst \/ NextBlock

Spec == Init /\ [][Next]_vars
=============================================================================
