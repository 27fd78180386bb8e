------------------------------- MODULE MCArena ------------------------------
(* Instances of Arena for TLC. *)
EXTENDS Arena

CONSTANTS d1, d2

MCData == {d1, d2}
=============================================================================
