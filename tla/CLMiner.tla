------------------------------ MODULE CLMiner ------------------------------
(***************************************************************************)
(* The loop of an OpenCL miner (libcl/CLMiner.cpp).  Each turn reads the   *)
(* results of the kernel that was enqueued in the turn before, which ends  *)
(* by itself after one batch.  m_abortMutex protects the queue and buffers *)
(* that kick_miner uses: free_buffers takes it and leaves it locked, and   *)
(* initEpoch gives it back at its end.  kick_miner sets the abort flag of  *)
(* the running batch, which would end anyway: no state here changes.       *)
(***************************************************************************)
EXTENDS Miner

\* A turn of workLoop.
clReads ==
    /\ gpu = "top"
    /\ \/ stop /\ gpu' = "leave" /\ UNCHANGED want
       \/ /\ ~stop
          /\ \E w \in Readings :
               \/ w.job = NoJob /\ gpu' = "wait" /\ UNCHANGED want
               \/ /\ w.job # NoJob
                  /\ want' = w
                  /\ gpu' = IF w.job # current.job /\ w.epoch # current.epoch THEN "init"
                            ELSE "search"
    /\ UNCHANGED <<current, dag, buffers, kind, calls, device>>

\* initEpoch: too little memory, or the buffers are freed under m_abortMutex.
clFrees ==
    /\ \/ Moves("init", "fails") /\ UNCHANGED <<device, buffers>>
       \/ /\ Moves("init", "alloc") /\ device = "none"
          /\ device' = "gpu" /\ buffers' = "partial"
    /\ UNCHANGED <<want, current, dag, kind, calls>>

clAllocates ==
    /\ Moves("alloc", "resume") \/ Moves("alloc", "fails")
    /\ UNCHANGED <<want, current, dag, buffers, kind, calls, device>>

\* The kernel is built and the DAG generated.
clBuilds ==
    /\ \/ Moves("build", "fails") /\ UNCHANGED <<dag, buffers, device>>
       \/ /\ Moves("build", "reread")
          /\ dag' = want.epoch /\ buffers' = "ready" /\ device' = "none"
    /\ UNCHANGED <<want, current, kind, calls>>

clRereads ==
    /\ Moves("reread", "search")
    /\ want' \in Readings
    /\ UNCHANGED <<current, dag, buffers, kind, calls, device>>

\* mutant: current is not updated
clSearches_Forgets ==
    /\ Moves("search", "top")
    /\ UNCHANGED <<current, want, dag, buffers, kind, calls, device>>

\* The kernel is enqueued.
clSearches ==
    /\ Moves("search", "top")
    /\ current' = want
    /\ UNCHANGED <<want, dag, buffers, kind, calls, device>>

\* An operation of the loop throws cl::Error.
clThrows ==
    /\ Moves("top", "leave") \/ Moves("search", "leave")
    /\ UNCHANGED <<want, current, dag, buffers, kind, calls, device>>

clLeaves ==
    /\ Moves("leave", "out") /\ device = "none"
    /\ buffers' = "none"
    /\ UNCHANGED <<want, current, dag, kind, calls, device>>

CLRuns ==
    \/ starts \/ waits \/ failureIsFlagged \/ failureKicks(TRUE) \/ ownReasonEnds
    \/ clReads \/ clFrees \/ clAllocates \/ clBuilds \/ clRereads \/ clSearches \/ clLeaves

=============================================================================
