------------------------------ MODULE MCWorker ------------------------------
(* Worker with the threads that call a miner's methods: the io thread, the  *)
(* main thread and the destructor's caller may be any of them.              *)
EXTENDS Worker

CONSTANTS io, main, api
=============================================================================
