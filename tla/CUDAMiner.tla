----------------------------- MODULE CUDAMiner -----------------------------
(***************************************************************************)
(* The loop of a CUDA miner (libcuda/CUDAMiner.cpp).  search() keeps N     *)
(* streams busy, one batch each, until m_done: it is set by kick_miner, by *)
(* a pause and by a stop.  Start nonces are counted in batches from the    *)
(* job's start nonce, modulo M (64 bits in the code).  m_doneMutex is      *)
(* taken for single steps only.                                            *)
(***************************************************************************)
EXTENDS Miner

CONSTANTS N, M         \* cuStreamSize; the number of start nonces

ASSUME StreamsAssumption == N \in Nat \ {0} /\ M \in Nat \ {0} /\ N < M

VARIABLES
    done,              \* m_done
    busy,              \* streams_bsy
    idx,               \* streamIdx
    nonce,             \* start_nonce
    started            \* the start nonce of the last batch of each stream

streams == <<done, busy, idx, nonce, started>>

Streams == 1..N
Nonces == 0..(M - 1)

\* Unsigned arithmetic, of nonces and numbers below M.
Plus(n, k) == IF n + k < M THEN n + k ELSE n + k - M
Minus(n, k) == IF n >= k THEN n - k ELSE n - k + M

CUDAInit ==
    /\ done = TRUE /\ busy = {} /\ idx = 1 /\ nonce = 0
    /\ started = [i \in Streams |-> 0]

CUDAKick == done' = TRUE /\ UNCHANGED <<busy, idx, nonce, started>>

\* A turn of workLoop.
cuReads ==
    /\ gpu = "top"
    /\ \/ stop /\ gpu' = "leave" /\ UNCHANGED <<want, current>>
       \/ /\ ~stop
          /\ \E w \in Readings :
               \/ w.job = NoJob /\ gpu' = "wait" /\ UNCHANGED <<want, current>>
               \/ /\ w.job # NoJob /\ w.epoch # current.epoch
                  /\ want' = w /\ gpu' = "init" /\ UNCHANGED current
               \/ /\ w.job # NoJob /\ w.epoch = current.epoch
                  /\ current' = w /\ gpu' = "prime" /\ UNCHANGED want
    /\ UNCHANGED <<dag, buffers, kind, calls, device, streams>>

\* initEpoch resets the device, which frees what was allocated, and allocates again.
cuAllocates ==
    /\ Moves("init", "resume") \/ Moves("init", "fails")
    /\ buffers' = "partial"
    /\ UNCHANGED <<want, current, dag, kind, calls, device, streams>>

\* With the DAG generated, the loop reads the work again.
cuGenerates ==
    /\ \/ Moves("build", "fails") /\ UNCHANGED <<dag, buffers, current>>
       \/ /\ Moves("build", "top")
          /\ dag' = want.epoch /\ buffers' = "ready" /\ current' = want
    /\ UNCHANGED <<want, kind, calls, device, streams>>

\* search() starts a batch on each stream, under m_doneMutex.
cuPrimes ==
    /\ Moves("prime", "pass")
    /\ done' = FALSE /\ busy' = Streams
    /\ started' = [i \in Streams |-> i - 1]
    /\ nonce' = N
    /\ UNCHANGED <<idx, want, current, dag, buffers, kind, calls, device>>

\* A turn of the loop of search(): it ends when no stream is busy, and tests paused().
cuPasses ==
    /\ \/ /\ Moves("pass", "top") /\ busy = {}
          /\ UNCHANGED <<done, idx>>
       \/ /\ Moves("pass", "stream") /\ busy # {} /\ xpause = "none"
          /\ done' = (done \/ flags # {})
          /\ idx' = 1
    /\ UNCHANGED <<busy, nonce, started, want, current, dag, buffers, kind, calls, device>>

\* mutant: only a batch that is started advances the nonce
NextNonce_IfStarted == IF done THEN nonce ELSE Plus(nonce, 1)

\* Every stream takes its share of the nonces in each turn, busy or not.
NextNonce == Plus(nonce, 1)

\* mutant: search() does not look at the stop
DoneAfterBatch_NoStop == done

\* A stop is noticed after each batch.
DoneAfterBatch == done \/ stop

\* The batch of stream idx is over: another one, or the stream ends.
cuStream ==
    /\ gpu = "stream"
    /\ \/ /\ idx \notin busy
          /\ UNCHANGED <<done, busy, started>>
       \/ /\ idx \in busy
          /\ busy' = IF done THEN busy \ {idx} ELSE busy
          /\ started' = IF done THEN started ELSE [started EXCEPT ![idx] = nonce]
          /\ done' = DoneAfterBatch
    /\ nonce' = NextNonce
    /\ idx' = idx + 1
    /\ gpu' = IF idx = N THEN "pass" ELSE "stream"
    /\ UNCHANGED <<want, current, dag, buffers, kind, calls, device>>

\* The nonce base of the solutions that cuStream reports for stream idx.
ReportedBase == Minus(nonce, N)

\* A CUDA call of search() fails: workLoop throws.
cuThrows ==
    /\ Moves("prime", "out") \/ Moves("stream", "out")
    /\ UNCHANGED <<want, current, dag, buffers, kind, calls, device, streams>>

cuLeaves ==
    /\ Moves("leave", "out")
    /\ buffers' = "none"
    /\ UNCHANGED <<want, current, dag, kind, calls, device, streams>>

CUDARuns ==
    \/ (starts \/ waits \/ failureIsFlagged \/ ownReasonEnds) /\ UNCHANGED streams
    \/ failureKicks(CUDAKick)
    \/ cuReads \/ cuAllocates \/ cuGenerates \/ cuPrimes \/ cuPasses \/ cuStream \/ cuLeaves

=============================================================================
