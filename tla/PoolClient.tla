----------------------------- MODULE PoolClient -----------------------------
(***************************************************************************)
(* What the PoolManager relies on in a pool client: a client tries its     *)
(* pool, is linked to it (isConnected() is true, no session yet), is up    *)
(* from onConnected on, may be closing, and calls onDisconnected, which    *)
(* makes it down, once.  From up there is no way but through closing and   *)
(* down.  A down client is replaced or its URI is given up.                *)
(***************************************************************************)
VARIABLE phase

Step(from, to) == phase \in from /\ phase' = to

Link    == Step({"trying"}, "linked")
Retry   == Step({"linked", "closing"}, "trying")
Login   == Step({"linked"}, "up")
Open    == Step({"trying"}, "up")
Close   == Step({"linked", "up"}, "closing")
Fail    == Step({"trying", "linked", "up", "closing"}, "down")
Replace == Step({"down"}, "trying")
GiveUp  == Step({"down"}, "gone")

Init == phase = "trying"

Next == Link \/ Retry \/ Login \/ Open \/ Close \/ Fail \/ Replace \/ GiveUp

Spec == Init /\ [][Next]_phase

=============================================================================
