------------------------------ MODULE MCMiners ------------------------------
(* Three jobs, two of one epoch; one reason of the owner for pausing; two   *)
(* streams and five start nonces, so that nonces wrap.                      *)
EXTENDS Miners

CONSTANTS a, b, c

MCEpochOf == [j \in Jobs |-> IF j = c THEN 2 ELSE 1]

=============================================================================
