---------------------------- MODULE MinersProofs ----------------------------
(***************************************************************************)
(* The safety properties of Miners, for any jobs, any reasons for pausing, *)
(* any number of streams and any number of nonces.                         *)
(***************************************************************************)
EXTENDS Miners, TLAPS

\* The header of work is void as long as no job was set: a read job has an epoch.
WorkInv == work.job # NoJob => work.epoch \in Nat

\* The loop of a CUDA miner: where m_done is set, and where the buffers and the DAG are
\* those of the last job.
LoopInv ==
    /\ kind = "cl" => gpu \notin {"prime", "pass", "stream"}
    /\ kind = "cuda" =>
         /\ gpu \notin {"pass", "stream", "out"} => done
         /\ gpu \in {"pass", "stream"} /\ busy # Streams => done
         /\ gpu \in {"start", "top", "wait"} /\ current.epoch # NoEpoch =>
              buffers = "ready" /\ dag = current.epoch
         /\ gpu \in {"prime", "pass", "stream"} => buffers = "ready" /\ dag = current.epoch

\* How far behind start_nonce the batch of stream i began: N for the stream whose turn it is.
Behind(i) == IF gpu = "pass" THEN N + 1 - i
             ELSE IF i < idx THEN idx - i ELSE N + idx - i

NonceInv ==
    /\ gpu = "stream" => idx \in Streams
    /\ gpu \in {"pass", "stream"} =>
         \A i \in busy : started[i] = Minus(nonce, Behind(i))

IInv == TypeOK /\ KickFindsBuffers /\ WorkInv /\ LoopInv /\ NonceInv

-----------------------------------------------------------------------------

\* The initial states of the miner satisfy the invariant (the constructors).
LEMMA InitHolds == Init => IInv
<1> SUFFICES ASSUME Init PROVE IInv
  OBVIOUS
<1> USE MinerAssumption, StreamsAssumption DEF Init, MinerInit, CUDAInit, NoWork, NoEpoch
<1>1. done \in BOOLEAN /\ done /\ stop \in BOOLEAN
  BY Zenon
<1>2. TypeOK
  BY <1>1 DEF TypeOK, Works, Idle, Holders, Steps, Streams, Nonces
<1>3. KickFindsBuffers /\ WorkInv /\ LoopInv /\ NonceInv
  BY <1>1 DEF KickFindsBuffers, WorkInv, LoopInv, NonceInv
<1> QED BY <1>2, <1>3 DEF IInv

\* What work() returns is typed, and has an epoch unless it is void (Miner.cpp 123-126).
LEMMA ReadingsTyped ==
    ASSUME TypeOK, WorkInv, NEW w \in Readings
    PROVE  w \in Works /\ (w.job # NoJob => w.epoch \in Nat)
BY DEF TypeOK, WorkInv, Readings, Works, At

\* Stepping the nonce of a typed state gives a nonce (CUDAMiner.cpp 304-305).
LEMMA NonceTyped == ASSUME TypeOK PROVE NextNonce \in Nonces
BY StreamsAssumption DEF TypeOK, NextNonce, Plus, Nonces

\* The calls of the owner keep the types (Miner.cpp 20-34, 58-63, 100-109).
LEMMA OwnerTyped == ASSUME TypeOK, OwnerStep PROVE TypeOK'
<1> USE MinerAssumption DEF TypeOK, Holders, calls, thread, streams
<1>1. CASE kicked(kick_miner)
  BY <1>1 DEF kicked, kick_miner, CUDAKick, Idle
<1>2. CASE Owner /\ UNCHANGED streams
  <2>1. ASSUME NEW j \in Jobs, setWork(j) PROVE TypeOK'
    BY <1>2, <2>1 DEF setWork
  <2>2. ASSUME NEW r \in Reasons, pause(r) \/ resume(r) PROVE TypeOK'
    BY <1>2, <2>2 DEF pause, resume
  <2>3. CASE workIsSet
    <3>1. work' \in Works
      <4>1. CASE flags # {}
        BY <2>3, <4>1 DEF workIsSet, GivenWork, Works
      <4>2. CASE flags = {}
        <5>1. owner.job \in Jobs
          BY <2>3 DEF workIsSet, At
        <5> QED BY <2>3, <4>2, <5>1 DEF workIsSet, GivenWork, Works
      <4> QED BY <4>1, <4>2
    <3> QED BY <1>2, <2>3, <3>1 DEF workIsSet
  <2>4. CASE headerIsVoid
    BY <1>2, <2>4 DEF headerIsVoid, Works
  <2>5. CASE triggerStopWorking
    <3>1. stop' \in BOOLEAN
      BY <2>5, Zenon DEF triggerStopWorking
    <3> QED BY <1>2, <2>5, <3>1 DEF triggerStopWorking
  <2>6. CASE joined
    BY <1>2, <2>6 DEF joined
  <2> QED BY <1>2, <2>1, <2>2, <2>3, <2>4, <2>5, <2>6 DEF Owner
<1> QED BY <1>1, <1>2 DEF OwnerStep

\* The steps of an OpenCL miner's thread keep the types (CLMiner.cpp 252-359, 564-725).
LEMMA CLTyped == ASSUME TypeOK, WorkInv, CLStep \/ CLThrows PROVE TypeOK'
<1> USE DEF TypeOK, Holders, calls, streams, Moves, Steps
<1>1. CASE clReads /\ UNCHANGED streams
  BY <1>1, ReadingsTyped DEF clReads
<1>2. CASE clRereads /\ UNCHANGED streams
  BY <1>2, ReadingsTyped DEF clRereads
<1>3. CASE (clFrees \/ clAllocates \/ clSearches \/ clLeaves \/ clThrows) /\ UNCHANGED streams
  BY <1>3 DEF clFrees, clAllocates, clSearches, clLeaves, clThrows
<1>4. CASE clBuilds /\ UNCHANGED streams
  BY <1>4 DEF clBuilds, Works
<1>5. CASE (starts \/ waits \/ ownReasonEnds \/ failureKicks(TRUE)) /\ UNCHANGED streams
  BY <1>5 DEF starts, waits, ownReasonEnds, failureKicks
<1>6. CASE failureIsFlagged /\ UNCHANGED streams
  BY <1>6 DEF failureIsFlagged, Works
<1> QED BY <1>1, <1>2, <1>3, <1>4, <1>5, <1>6 DEF CLStep, CLRuns, CLThrows

\* The steps of a CUDA miner's thread keep the types (CUDAMiner.cpp 134-193, 270-356).
LEMMA CUDATyped == ASSUME TypeOK, WorkInv, NonceInv, CUDAStep \/ CUDAThrows PROVE TypeOK'
<1> USE StreamsAssumption DEF TypeOK, Holders, calls, streams, Moves, Steps, Streams
<1>1. CASE cuReads
  BY <1>1, ReadingsTyped DEF cuReads
<1>2. CASE cuAllocates \/ cuLeaves \/ cuThrows
  <2>1. CASE cuAllocates
    BY <2>1 DEF cuAllocates
  <2>2. CASE cuLeaves
    BY <2>2 DEF cuLeaves
  <2>3. CASE cuThrows
    BY <2>3 DEF cuThrows
  <2> QED BY <1>2, <2>1, <2>2, <2>3
<1>3. CASE cuGenerates
  BY <1>3 DEF cuGenerates, Works
<1>4. CASE cuPrimes
  <2>1. done' \in BOOLEAN
    BY <1>4, Zenon DEF cuPrimes
  <2> QED BY <1>4, <2>1 DEF cuPrimes, Nonces
<1>5. CASE cuPasses
  <2>1. done' \in BOOLEAN
    BY <1>5, Zenon DEF cuPasses
  <2> QED BY <1>5, <2>1 DEF cuPasses
<1>6. CASE cuStream
  <2>1. done' \in BOOLEAN
    BY <1>6, Zenon DEF cuStream, DoneAfterBatch
  <2>2. nonce' \in Nonces /\ started' \in [Streams -> Nonces]
    BY <1>6, NonceTyped DEF cuStream
  <2>3. busy' \subseteq busy
    BY <1>6, Zenon DEF cuStream
  <2>4. idx' \in 1..(N + 1)
    BY <1>6 DEF cuStream, NonceInv
  <2> QED BY <1>6, <2>1, <2>2, <2>3, <2>4 DEF cuStream
<1>7. CASE (starts \/ waits \/ ownReasonEnds) /\ UNCHANGED streams
  BY <1>7 DEF starts, waits, ownReasonEnds
<1>8. CASE failureIsFlagged /\ UNCHANGED streams
  BY <1>8 DEF failureIsFlagged, Works
<1>9. CASE failureKicks(CUDAKick)
  <2>1. done' \in BOOLEAN
    BY <1>9, Zenon DEF failureKicks, CUDAKick
  <2> QED BY <1>9, <2>1 DEF failureKicks, CUDAKick
<1> QED BY <1>1, <1>2, <1>3, <1>4, <1>5, <1>6, <1>7, <1>8, <1>9 DEF CUDAStep, CUDARuns, CUDAThrows

\* Work that is not void has an epoch, whoever sets or voids it.
LEMMA WorkKept == ASSUME TypeOK, WorkInv, Next PROVE WorkInv'
<1> USE MinerAssumption DEF TypeOK, WorkInv, Works, calls
<1>1. CASE OwnerStep
  BY <1>1 DEF OwnerStep, Owner, setWork, workIsSet, GivenWork, pause, headerIsVoid, resume,
              triggerStopWorking, kicked, joined, At
<1>2. CASE CLStep \/ CLThrows
  BY <1>2 DEF CLStep, CLRuns, CLThrows, starts, waits, failureIsFlagged, failureKicks,
              ownReasonEnds, clReads, clFrees, clAllocates, clBuilds, clRereads, clSearches,
              clLeaves, clThrows
<1>3. CASE CUDAStep \/ CUDAThrows
  BY <1>3 DEF CUDAStep, CUDARuns, CUDAThrows, starts, waits, failureIsFlagged, failureKicks,
              ownReasonEnds, cuReads, cuAllocates, cuGenerates, cuPrimes, cuPasses, cuStream,
              cuLeaves, cuThrows
<1> QED BY <1>1, <1>2, <1>3 DEF Next

\* The calls of the owner disturb neither the loop nor the buffers: at most they set m_done.
LEMMA OwnerLoop ==
    ASSUME TypeOK, KickFindsBuffers, LoopInv, OwnerStep PROVE (KickFindsBuffers /\ LoopInv)'
<1>1. UNCHANGED <<kind, device, gpu, current, dag, buffers, busy>>
  BY DEF OwnerStep, Owner, setWork, workIsSet, pause, headerIsVoid, resume,
         triggerStopWorking, kicked, kick_miner, CUDAKick, joined, thread, streams
<1>2. done' = done \/ done' = TRUE
  BY Zenon DEF OwnerStep, kicked, kick_miner, CUDAKick, streams
<1>3. CASE done' = done
  BY <1>1, <1>3 DEF KickFindsBuffers, LoopInv, Streams
<1>4. CASE done' = TRUE
  <2>1. done'
    BY <1>4
  <2> QED BY <1>1, <2>1 DEF KickFindsBuffers, LoopInv
<1> QED BY <1>2, <1>3, <1>4

\* An OpenCL miner replaces its buffers while it holds m_abortMutex (CLMiner.cpp 589-723).
LEMMA CLLoop ==
    ASSUME TypeOK, KickFindsBuffers, LoopInv, CLStep \/ CLThrows
    PROVE  (KickFindsBuffers /\ LoopInv)'
<1>1. kind = "cl" /\ kind' = "cl"
  BY DEF CLStep, CLRuns, CLThrows, starts, waits, failureIsFlagged, failureKicks,
         ownReasonEnds, clReads, clFrees, clAllocates, clBuilds, clRereads, clSearches,
         clLeaves, clThrows
<1>2. (device = "none" => buffers # "partial")'
  BY <1>1 DEF TypeOK, KickFindsBuffers, CLStep, CLRuns, CLThrows, starts, waits,
         failureIsFlagged, failureKicks, ownReasonEnds, clReads, clFrees, clAllocates,
         clBuilds, clRereads, clSearches, clLeaves, clThrows
<1>3. gpu' \notin {"prime", "pass", "stream"}
  BY <1>1 DEF LoopInv, Moves, CLStep, CLRuns, CLThrows, starts, waits,
         failureIsFlagged, failureKicks, ownReasonEnds, clReads, clFrees, clAllocates,
         clBuilds, clRereads, clSearches, clLeaves, clThrows
<1> QED BY <1>1, <1>2, <1>3 DEF KickFindsBuffers, LoopInv

\* A CUDA miner clears m_done only with its buffers and the DAG of the job ready, and leaves
\* search() with m_done set (CUDAMiner.cpp 134-193 and 270-356).
LEMMA CUDALoop ==
    ASSUME TypeOK, WorkInv, KickFindsBuffers, LoopInv, CUDAStep \/ CUDAThrows
    PROVE  (KickFindsBuffers /\ LoopInv)'
<1> USE DEF calls, streams, Moves
<1>1. kind = "cuda" /\ kind' = "cuda"
  BY DEF CUDAStep, CUDARuns, CUDAThrows, starts, waits, failureIsFlagged, failureKicks,
         ownReasonEnds, cuReads, cuAllocates, cuGenerates, cuPrimes, cuPasses, cuStream,
         cuLeaves, cuThrows
<1> DEFINE Flags == (/\ ~done => buffers = "ready"
                     /\ gpu \notin {"pass", "stream", "out"} => done
                     /\ gpu \in {"pass", "stream"} /\ busy # Streams => done)
           Ready == buffers = "ready" /\ dag = current.epoch
           Dag == (/\ gpu \in {"start", "top", "wait"} /\ current.epoch # NoEpoch => Ready
                   /\ gpu \in {"prime", "pass", "stream"} => Ready)
<1>2. Flags /\ Dag
  BY <1>1 DEF KickFindsBuffers, LoopInv
<1>3. SUFFICES Flags' /\ Dag'
  BY <1>1, <1>3, Zenon DEF KickFindsBuffers, LoopInv
<1>4. CASE cuReads
  <2>1. Dag'
    BY <1>2, <1>4, ReadingsTyped DEF cuReads, NoEpoch
  <2>2. gpu = "top" /\ gpu' \in {"leave", "wait", "init", "prime"} /\ UNCHANGED <<done, busy, buffers>>
    BY <1>4 DEF cuReads
  <2>3. done /\ gpu' \notin {"pass", "stream"}
    BY <1>2, <2>2
  <2> QED BY <1>2, <2>1, <2>2, <2>3
<1>5. CASE cuAllocates \/ cuGenerates \/ cuLeaves
  <2>1. Dag'
    BY <1>2, <1>5 DEF cuAllocates, cuGenerates, cuLeaves
  <2>2. done /\ done' = done /\ gpu' \notin {"pass", "stream"}
    BY <1>2, <1>5 DEF cuAllocates, cuGenerates, cuLeaves
  <2> QED BY <2>1, <2>2
<1>6. CASE cuPrimes
  <2>1. Dag'
    BY <1>2, <1>6 DEF cuPrimes
  <2>2. gpu' = "pass" /\ busy' = Streams /\ Streams' = Streams
    BY <1>6 DEF cuPrimes, Streams
  <2> QED BY <2>1, <2>2
<1>7. CASE cuPasses
  <2>1. Dag'
    BY <1>2, <1>7 DEF cuPasses
  <2>2. Streams # {}
    BY StreamsAssumption DEF Streams
  <2>3. CASE Moves("pass", "top") /\ busy = {} /\ UNCHANGED done
    <3>1. done /\ done'
      BY <1>2, <2>2, <2>3
    <3> QED BY <2>1, <2>3, <3>1
  <2>4. CASE gpu = "pass" /\ gpu' = "stream" /\ done' = (done \/ flags # {})
    <3>1. done => done'
      BY <2>4, Zenon
    <3>2. UNCHANGED <<busy, buffers>> /\ buffers = "ready"
      BY <1>2, <1>7, <2>4 DEF cuPasses
    <3>3. busy # Streams => done
      BY <1>2, <2>4
    <3> QED BY <2>1, <2>4, <3>1, <3>2, <3>3 DEF Streams
  <2> QED BY <1>7, <2>3, <2>4 DEF cuPasses
<1>8. CASE cuStream
  <2>1. Dag'
    BY <1>2, <1>8 DEF cuStream
  <2>2. done => done'
    BY <1>8, Zenon DEF cuStream, DoneAfterBatch
  <2>3. busy' = busy \/ done
    BY <1>8, Zenon DEF cuStream
  <2>4. gpu = "stream" /\ gpu' \in {"pass", "stream"} /\ buffers' = "ready"
    BY <1>2, <1>8 DEF cuStream
  <2>5. busy # Streams => done
    BY <1>2, <2>4
  <2> QED BY <2>1, <2>2, <2>3, <2>4, <2>5 DEF Streams
<1>9. CASE cuThrows
  <2>1. gpu' = "out" /\ UNCHANGED <<done, buffers>>
    BY <1>9 DEF cuThrows
  <2> QED BY <1>2, <2>1
<1>10. CASE (starts \/ waits \/ failureIsFlagged \/ ownReasonEnds) /\ UNCHANGED streams
  <2>1. Dag'
    BY <1>2, <1>10 DEF starts, waits, failureIsFlagged, ownReasonEnds
  <2>2. done /\ done' = done /\ gpu' \notin {"pass", "stream"}
    BY <1>2, <1>10 DEF starts, waits, failureIsFlagged, ownReasonEnds
  <2> QED BY <2>1, <2>2
<1>11. CASE failureKicks(CUDAKick)
  <2>1. done' /\ gpu' = "leave"
    BY <1>11, Zenon DEF failureKicks, CUDAKick
  <2> QED BY <2>1
<1> QED BY <1>1, <1>4, <1>5, <1>6, <1>7, <1>8, <1>9, <1>10, <1>11
        DEF CUDAStep, CUDARuns, CUDAThrows, CLStep

\* A stream's batch began as far behind start_nonce as its place in the turn says, after
\* every step of search() (CUDAMiner.cpp 280-345).
LEMMA NonceKept ==
    ASSUME TypeOK, NonceInv, LoopInv, Next, TypeOK' PROVE NonceInv'
<1> USE StreamsAssumption DEF streams, Moves
<1>1. CASE OwnerStep
  <2>1. UNCHANGED <<gpu, busy, idx, nonce, started>>
    BY <1>1 DEF OwnerStep, Owner, setWork, workIsSet, pause, headerIsVoid, resume,
                triggerStopWorking, kicked, kick_miner, CUDAKick, joined, thread
  <2> QED BY <2>1 DEF NonceInv, Behind, Minus, Streams
<1>2. CASE CLStep \/ CLThrows
  <2>1. gpu' \notin {"pass", "stream"}
    BY <1>2 DEF LoopInv, CLStep, CLRuns, CLThrows, starts, waits, failureIsFlagged,
                failureKicks, ownReasonEnds, clReads, clFrees, clAllocates, clBuilds,
                clRereads, clSearches, clLeaves, clThrows
  <2> QED BY <2>1 DEF NonceInv
<1>3. CASE cuPrimes
  <2>1. gpu' = "pass" /\ busy' = Streams /\ nonce' = N /\ started' = [i \in Streams |-> i - 1]
    BY <1>3 DEF cuPrimes
  <2> QED BY <2>1 DEF NonceInv, Behind, Minus, Streams
<1>4. CASE cuPasses
  <2>1. CASE gpu' = "top"
    BY <2>1 DEF NonceInv
  <2>2. CASE gpu' = "stream"
    <3>1. /\ gpu = "pass" /\ idx' = 1
          /\ UNCHANGED <<busy, nonce, started>>
      BY <1>4, <2>2 DEF cuPasses
    <3> QED BY <2>2, <3>1 DEF TypeOK, NonceInv, Behind, Minus, Streams
  <2> QED BY <1>4, <2>1, <2>2 DEF cuPasses
<1>5. CASE cuStream
  <2>1. /\ gpu = "stream" /\ idx \in Streams /\ idx' = idx + 1
        /\ gpu' = IF idx = N THEN "pass" ELSE "stream"
        /\ nonce' = NextNonce
    BY <1>5 DEF cuStream, NonceInv
  <2>2. \A i \in busy' : i \in busy /\ started'[i] = IF i = idx THEN nonce ELSE started[i]
    <3>1. CASE idx \notin busy
      <4>1. busy' = busy /\ started' = started
        BY <1>5, <3>1 DEF cuStream
      <4> QED BY <3>1, <4>1
    <3>2. CASE idx \in busy /\ done
      <4>1. busy' = busy \ {idx} /\ started' = started
        BY <1>5, <3>2 DEF cuStream
      <4> QED BY <4>1
    <3>3. CASE idx \in busy /\ ~done
      <4>1. busy' = busy /\ started' = [started EXCEPT ![idx] = nonce]
        BY <1>5, <3>3 DEF cuStream
      <4> QED BY <4>1 DEF TypeOK
    <3> QED BY <3>1, <3>2, <3>3
  <2>3. ASSUME NEW i \in busy' PROVE started'[i] = Minus(nonce', Behind(i)')
    <3>1. i \in busy /\ i \in Streams /\ nonce \in Nonces
      BY <2>2, <2>3 DEF TypeOK
    <3>2. started[i] = Minus(nonce, Behind(i))
      BY <2>1, <3>1 DEF NonceInv
    <3>3. CASE i = idx
      <4>1. started'[i] = nonce
        BY <2>2, <2>3, <3>3
      <4>2. Behind(i)' = 1
        BY <2>1, <3>3, <3>1 DEF Behind, Streams
      <4> QED BY <2>1, <3>1, <4>1, <4>2 DEF Minus, NextNonce, Plus, Nonces
    <3>4. CASE i # idx
      <4>1. started'[i] = started[i]
        BY <2>2, <2>3, <3>4
      <4>2. Behind(i)' = Behind(i) + 1 /\ Behind(i) \in 1..(N - 1)
        BY <2>1, <3>4, <3>1 DEF Behind, Streams
      <4> QED BY <2>1, <3>1, <3>2, <4>1, <4>2 DEF Minus, NextNonce, Plus, Nonces
    <3> QED BY <3>3, <3>4
  <2>4. gpu' = "stream" => idx' \in Streams
    BY <2>1 DEF Streams
  <2> QED BY <2>3, <2>4 DEF NonceInv, Streams
<1>6. CASE CUDAThrows \/ (CUDAStep /\ ~cuPrimes /\ ~cuPasses /\ ~cuStream)
  <2>1. gpu' \notin {"pass", "stream"}
    BY <1>6 DEF CUDAStep, CUDARuns, CUDAThrows, starts, waits, failureIsFlagged, failureKicks,
                ownReasonEnds, cuReads, cuAllocates, cuGenerates, cuLeaves, cuThrows
  <2> QED BY <2>1 DEF NonceInv
<1> QED BY <1>1, <1>2, <1>3, <1>4, <1>5, <1>6 DEF Next

-----------------------------------------------------------------------------

\* The invariant is inductive: every call of the owner and every step of the thread of a
\* miner of either class keeps it.
THEOREM InductiveInvariant == Spec => []IInv
<1>1. IInv /\ [Next]_vars => IInv'
  <2> SUFFICES ASSUME IInv, [Next]_vars PROVE IInv'
    OBVIOUS
  <2>1. CASE Next
    <3>1. TypeOK'
      BY <2>1, OwnerTyped, CLTyped, CUDATyped DEF IInv, Next
    <3>2. (KickFindsBuffers /\ LoopInv)'
      BY <2>1, OwnerLoop, CLLoop, CUDALoop DEF IInv, Next
    <3>3. WorkInv' /\ NonceInv'
      BY <2>1, <3>1, WorkKept, NonceKept DEF IInv
    <3> QED BY <3>1, <3>2, <3>3 DEF IInv
  <2>2. CASE UNCHANGED vars
    BY <2>2 DEF vars, minerVars, calls, thread, streams, IInv, TypeOK, KickFindsBuffers,
                WorkInv, LoopInv, NonceInv, Behind, Minus, Streams, Nonces
  <2> QED BY <2>1, <2>2
<1> QED BY <1>1, InitHolds, PTL DEF Spec

\* Every variable of a GPU miner keeps its type, for any number of streams and nonces.
THEOREM TypeCorrect == Spec => []TypeOK
BY InductiveInvariant, PTL DEF IInv

\* kick_miner, from any thread and at any moment, finds the buffers it writes to complete.
THEOREM KickSafe == Spec => []KickFindsBuffers
BY InductiveInvariant, PTL DEF IInv

\* A CUDA search runs on the DAG of the epoch of its job.
THEOREM DagSafe == Spec => []CudaDagMatches
<1>1. IInv => CudaDagMatches
  BY DEF IInv, LoopInv, CudaDagMatches
<1> QED BY <1>1, InductiveInvariant, PTL

\* Solutions are reported with the start nonce of the batch that found them, for any number
\* of streams, whichever have ended and however often the nonce has wrapped.
THEOREM NonceSafe == Spec => []NonceOfBatch
<1>1. IInv => NonceOfBatch
  <2> SUFFICES ASSUME IInv, gpu = "stream", idx \in busy PROVE started[idx] = ReportedBase
    BY DEF NonceOfBatch
  <2>1. started[idx] = Minus(nonce, Behind(idx))
    BY DEF IInv, NonceInv
  <2>2. Behind(idx) = N
    BY StreamsAssumption DEF IInv, TypeOK, Behind
  <2> QED BY <2>1, <2>2 DEF ReportedBase
<1> QED BY <1>1, InductiveInvariant, PTL

=============================================================================
