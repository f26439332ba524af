------------------------------- MODULE Miners -------------------------------
(***************************************************************************)
(* A GPU miner of either class under its owner, and what holds of both.    *)
(***************************************************************************)
EXTENDS CLMiner, CUDAMiner

vars == <<minerVars, streams>>

Init == MinerInit /\ CUDAInit /\ kind \in {"cl", "cuda"}

kick_miner == IF kind = "cl" THEN UNCHANGED streams ELSE CUDAKick

OwnerStep == (Owner /\ UNCHANGED streams) \/ kicked(kick_miner)

\* The calls the owner has begun go on; new ones are its choice.
OwnerGoesOn ==
    \/ (workIsSet \/ headerIsVoid \/ joined) /\ UNCHANGED streams
    \/ kicked(kick_miner)

CLStep == kind = "cl" /\ CLRuns /\ UNCHANGED streams
CUDAStep == kind = "cuda" /\ CUDARuns
CLThrows == kind = "cl" /\ clThrows /\ UNCHANGED streams
CUDAThrows == kind = "cuda" /\ cuThrows

Next == OwnerStep \/ CLStep \/ CUDAStep \/ CLThrows \/ CUDAThrows

\* Threads that can go on are scheduled; a mutex that is free again and again is got.
Fairness == WF_vars(OwnerGoesOn) /\ SF_vars(CLStep \/ CUDAStep)

Spec == Init /\ [][Next]_vars
FairSpec == Spec /\ Fairness

-----------------------------------------------------------------------------
(* Safety *)

Steps == {"start", "top", "wait", "init", "alloc", "resume", "build", "reread", "search",
          "prime", "pass", "stream", "fails", "failKick", "leave", "out"}

\* The values the variables of Miner, CLMiner and CUDAMiner take.
TypeOK ==
    /\ kind \in {"cl", "cuda"}
    /\ work \in Works /\ want \in Works /\ current \in Works
    /\ flags \subseteq Reasons \cup {"own"}
    /\ xpause \in Holders /\ device \in {"none", "gpu"}
    /\ owner \in [call : {"none", "setWork", "pause", "stop"},
                  step : {"none", "locked", "voids", "kick", "joins", "joined"},
                  job : Jobs \cup {NoJob}]
    /\ owner.call = "setWork" => owner.job \in Jobs
    /\ stop \in BOOLEAN
    /\ gpu \in Steps
    /\ dag \in Nat \cup {NoEpoch} /\ buffers \in {"none", "partial", "ready"}
    /\ done \in BOOLEAN /\ busy \subseteq Streams
    /\ idx \in 1..(N + 1) /\ nonce \in Nonces /\ started \in [Streams -> Nonces]

\* kick_miner never meets buffers that are being replaced: an OpenCL miner holds m_abortMutex
\* from free_buffers to the end of initEpoch, and a CUDA miner has m_done set (CLMiner.cpp
\* 361-370, CUDAMiner.cpp 195-204).
KickFindsBuffers ==
    IF kind = "cl" THEN device = "none" => buffers # "partial"
    ELSE ~done => buffers = "ready"

\* A CUDA search runs on the DAG of its job's epoch, although jobs and pauses arrive while
\* the DAG is generated (CUDAMiner.cpp 143-169).
CudaDagMatches ==
    kind = "cuda" /\ gpu \in {"prime", "pass", "stream"} => dag = current.epoch

\* The solutions a stream has found are reported with the start nonce of the batch that
\* found them, also while the streams end one after the other and when the nonce wraps
\* (CUDAMiner.cpp 304-338).
NonceOfBatch ==
    gpu = "stream" /\ idx \in busy => started[idx] = ReportedBase

-----------------------------------------------------------------------------
(* Liveness *)

Searching == gpu \in {"search", "prime", "pass", "stream"}

\* initEpoch of an OpenCL miner waits for ever: for x_pause, whose holder waits for
\* m_abortMutex, or for m_abortMutex, which it holds itself.
Stuck ==
    /\ device = "gpu"
    /\ \/ gpu \in {"resume", "fails"} /\ xpause = "owner" /\ owner.step = "kick"
       \/ gpu = "failKick"

\* A miner that stays paused stops searching for good, whatever work is set meanwhile
\* (Miner.cpp 20-34 and 58-63).
PausedStops == <>[](flags # {}) => <>[]~Searching

\* A stop ends the miner's thread, unless its initEpoch is stuck.
StopEnds == stop ~> gpu = "out" \/ Stuck

\* An OpenCL miner takes up the work it was given, unless it is given other work, is paused
\* or stopped first, or its thread has ended or is stuck (CLMiner.cpp 279-341).
CLTakesWork ==
    \A j \in Jobs :
        (kind = "cl" /\ work.job = j) ~>
            (current.job = j \/ work.job # j \/ stop \/ gpu \in {"leave", "out"} \/ Stuck)

=============================================================================
