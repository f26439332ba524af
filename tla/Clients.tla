------------------------------ MODULE Clients ------------------------------
(***************************************************************************)
(* The clients a PoolManager makes for http:// and simulation:// pools,    *)
(* and what it relies on in either of them.                                *)
(***************************************************************************)
EXTENDS EthGetworkClient, SimulateClient

VARIABLE kind

vars == <<kind, gwVars, sim>>

Init == kind \in {"getwork", "simulate"} /\ GetworkInit /\ SimulateInit

Next ==
    \/ kind = "getwork" /\ GetworkNext /\ UNCHANGED <<kind, sim>>
    \/ kind = "simulate" /\ SimulateNext /\ UNCHANGED <<kind, gwVars>>

Spec == Init /\ [][Next]_vars

FairSpec ==
    /\ Spec
    /\ kind = "getwork" => GetworkFairness
    /\ kind = "simulate" => SimulateFairness

-----------------------------------------------------------------------------
(* Properties *)

\* A client that a queued rotation will destroy counts as down, new as it may be.
phase ==
    IF kind = "simulate" THEN sim.phase
    ELSE IF gw.phase = "trying" /\ Queued("rotate") # {} THEN "down" ELSE gw.phase

PC == INSTANCE PoolClient

\* Either client keeps the PoolManager's view of a pool client: it opens, it is up until it
\* calls onDisconnected, and only a rotation replaces it or gives it up.
ImplementsPoolClient == PC!Spec

\* A simulation that disconnects ends its thread, so that rotateConnect, which joins it,
\* returns.
SimulationEnds == sim.phase = "down" ~> sim.phase # "down"

=============================================================================
