----------------------------- MODULE MCClients -----------------------------
(* The clients with two addresses, two jobs and a queue of two requests. *)
EXTENDS Clients
=============================================================================
