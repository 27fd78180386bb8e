------------------------------- MODULE PhiMap -------------------------------
(***************************************************************************)
(* What a phi instruction promises its clients: a partial map from         *)
(* predecessor blocks to values.  Operand indices, vacant slots and users  *)
(* do not appear here.                                                     *)
(***************************************************************************)
CONSTANTS Insts, Blocks, Values, None

VARIABLES incoming,  \* the phis created so far, each with its partial map
          ret        \* what incoming() answered last

Phis == DOMAIN incoming

Init == /\ incoming = [i \in {} |-> None]
        /\ ret = None

(* Inst::phi. *)
Create(i) ==
    /\ i \notin Phis
    /\ incoming' = [j \in Phis \cup {i} |->
                      IF j = i THEN [b \in Blocks |-> None] ELSE incoming[j]]
    /\ UNCHANGED ret

(* insert_incoming: the block's old value, if any, is replaced. *)
Insert(i, b, v) ==
    /\ i \in Phis
    /\ incoming' = [incoming EXCEPT ![i] = [@ EXCEPT ![b] = v]]
    /\ UNCHANGED ret

(* remove_incoming of a block that is incoming. *)
Remove(i, b) ==
    /\ i \in Phis
    /\ incoming[i][b] # None
    /\ incoming' = [incoming EXCEPT ![i] = [@ EXCEPT ![b] = None]]
    /\ UNCHANGED ret

(* incoming of a block that is incoming. *)
Read(i, b) ==
    /\ i \in Phis
    /\ incoming[i][b] # None
    /\ ret' = incoming[i][b]
    /\ UNCHANGED incoming

Next == \E i \in Insts :
            \/ Create(i)
            \/ \E b \in Blocks : Remove(i, b) \/ Read(i, b)
            \/ \E b \in Blocks, v \in Values : Insert(i, b, v)

Spec == Init /\ [][Next]_<<incoming, ret>>
=============================================================================
