--------------------------- MODULE WorkerLifecycle ---------------------------
(***************************************************************************)
(* What libdev/Worker promises to its owner: the work loop is executed by  *)
(* one thread, only on request, each request starts it at most once, and   *)
(* while the owner is told that it is stopped (phase "idle") it does not   *)
(* run.  A worker destroyed while a request was pending may run its loop   *)
(* one last time, with shouldStop() already true.                          *)
(***************************************************************************)
VARIABLES phase,    \* what the owner has asked for and been told
          running   \* the work loop is executing

vars == <<phase, running>>

Request == phase \in {"created", "idle"} /\ phase' = "requested" /\ UNCHANGED running
Begin   == phase = "requested" /\ phase' = "active" /\ ~running /\ running' = TRUE
Stop    == phase = "active" /\ phase' = "stopping" /\ UNCHANGED running
Finish  == running /\ running' = FALSE /\ UNCHANGED phase
Report  == phase \in {"active", "stopping"} /\ ~running /\ phase' = "idle" /\ UNCHANGED running
Drop    == phase = "created" /\ phase' = "gone" /\ UNCHANGED running
Destroy ==
    /\ \/ phase \in {"requested", "active", "stopping", "idle"} /\ phase' = "destroying"
       \/ phase = "requested" /\ phase' = "lastRun"
    /\ UNCHANGED running
LastRun == phase = "lastRun" /\ phase' = "destroying" /\ ~running /\ running' = TRUE
Gone    == phase = "destroying" /\ ~running /\ phase' = "gone" /\ UNCHANGED running

Init == phase = "created" /\ running = FALSE

Next == Request \/ Begin \/ Stop \/ Finish \/ Report \/ Drop \/ Destroy \/ LastRun \/ Gone

Spec == Init /\ [][Next]_vars

=============================================================================
