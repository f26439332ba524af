--------------------------- MODULE MCPoolManager ---------------------------
(* Instances of PoolManager for TLC. *)
EXTENDS PoolManager

CONSTANTS A, B, X

TwoPools == <<A, B>>

=============================================================================
