----------------------------- MODULE FarmFlags ------------------------------
(***************************************************************************)
(* What the PoolManager relies on in the farm (module PoolManager keeps    *)
(* the same record): whether it mines, whether it is paused, and whether   *)
(* its miners are.  A pause belongs to the miners there are: stop() drops  *)
(* the miners and start() makes new ones, which no earlier pause reaches.  *)
(***************************************************************************)
VARIABLE farm

Start   == farm' = [farm EXCEPT !.mining = TRUE, !.minersPaused = FALSE]
Stop    == farm' = [farm EXCEPT !.mining = FALSE, !.minersPaused = FALSE]
Pause   == farm' = [farm EXCEPT !.paused = TRUE, !.minersPaused = farm.mining]
Resume  == farm' = [farm EXCEPT !.paused = FALSE, !.minersPaused = FALSE]

Init == farm = [mining |-> FALSE, paused |-> FALSE, minersPaused |-> FALSE]

Next == Start \/ Stop \/ Pause \/ Resume

Spec == Init /\ [][Next]_farm

=============================================================================
