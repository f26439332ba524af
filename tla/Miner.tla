------------------------------- MODULE Miner -------------------------------
(***************************************************************************)
(* What every miner of the farm has (libeth/Miner.cpp): the work given to  *)
(* it, the reasons for which it is paused, the mutexes around them, and    *)
(* the calls of its owner.  The owner is one thread at a time: the io      *)
(* thread, and the main thread once the io thread is idle.  kick_miner and *)
(* the loop of the miner's own thread are virtual: CLMiner and CUDAMiner   *)
(* have them.                                                              *)
(***************************************************************************)
EXTENDS Integers

CONSTANTS Jobs,        \* headers of jobs
          EpochOf,     \* the epoch of each
          Reasons,     \* for which the owner pauses the miner
          NoJob,       \* the header h256(): no work
          Torn         \* a header read while it is being cleared

ASSUME MinerAssumption ==
    /\ EpochOf \in [Jobs -> Nat]
    /\ NoJob \notin Jobs /\ Torn \notin Jobs /\ NoJob # Torn
    /\ "own" \notin Reasons

VARIABLES
    kind,              \* the class: "cl" or "cuda"
    work,              \* m_work
    flags,             \* m_pauseFlags
    xpause,            \* the thread that holds x_pause
    device,            \* the thread that holds m_abortMutex (OpenCL), m_doneMutex (CUDA)
    owner,             \* the owner's call, its step and its argument
    stop,              \* triggerStopWorking was called
    gpu,               \* where the miner's thread is
    want,              \* the work read by its loop
    current,           \* the work of the kernel: current (OpenCL), last (CUDA)
    dag,               \* the epoch of the DAG on the device
    buffers            \* "none", "partial" while they are replaced, "ready"

calls == <<work, flags, xpause, owner, stop>>
thread == <<gpu, want, current, dag, buffers>>
minerVars == <<kind, calls, device, thread>>

NoEpoch == -1
Idle == [call |-> "none", step |-> "none", job |-> NoJob]
NoWork == [job |-> NoJob, epoch |-> NoEpoch]
Works == [job : Jobs \cup {NoJob, Torn}, epoch : Nat \cup {NoEpoch}]
Holders == {"none", "owner", "gpu"}

MinerInit ==
    /\ work = NoWork /\ flags = {}
    /\ xpause = "none" /\ device = "none"
    /\ owner = Idle /\ stop = FALSE
    /\ gpu = "start" /\ want = NoWork /\ current = NoWork
    /\ dag = NoEpoch /\ buffers = "none"

-----------------------------------------------------------------------------
(* The owner *)

At(call, step) == owner.call = call /\ owner.step = step

\* miner_work_mutex is taken; gpu holds it for single steps only.
setWork(j) ==
    /\ owner = Idle
    /\ owner' = [call |-> "setWork", step |-> "locked", job |-> j]
    /\ UNCHANGED <<work, flags, xpause, stop, kind, device, thread>>

\* mutant: the pause is ignored
GivenWork_Unpaused == [job |-> owner.job, epoch |-> EpochOf[owner.job]]

\* Void work if this miner is paused.
GivenWork ==
    IF flags # {} THEN [work EXCEPT !.job = NoJob]
    ELSE [job |-> owner.job, epoch |-> EpochOf[owner.job]]

workIsSet ==
    /\ At("setWork", "locked") /\ xpause = "none"
    /\ work' = GivenWork
    /\ owner' = [owner EXCEPT !.step = "kick"]
    /\ UNCHANGED <<flags, xpause, stop, kind, device, thread>>

\* x_pause is held until the miner was kicked.
pause(r) ==
    /\ owner = Idle /\ xpause = "none"
    /\ xpause' = "owner"
    /\ flags' = flags \cup {r}
    /\ owner' = [call |-> "pause", step |-> "voids", job |-> NoJob]
    /\ UNCHANGED <<work, stop, kind, device, thread>>

headerIsVoid ==
    /\ At("pause", "voids")
    /\ work' = [work EXCEPT !.job = NoJob]
    /\ owner' = [owner EXCEPT !.step = "kick"]
    /\ UNCHANGED <<flags, xpause, stop, kind, device, thread>>

resume(r) ==
    /\ owner = Idle /\ xpause = "none"
    /\ flags' = flags \ {r}
    /\ UNCHANGED <<work, xpause, owner, stop, kind, device, thread>>

\* Farm::stop; then the destructor waits for the thread.
triggerStopWorking ==
    /\ owner = Idle
    /\ stop' = TRUE
    /\ owner' = [call |-> "stop", step |-> "kick", job |-> NoJob]
    /\ UNCHANGED <<work, flags, xpause, kind, device, thread>>

\* The end of a call; kick is kick_miner's effect on the class's own state.
kicked(kick) ==
    /\ owner.step = "kick" /\ device = "none"
    /\ kick
    /\ owner' = IF owner.call = "stop" THEN [owner EXCEPT !.step = "joins"] ELSE Idle
    /\ xpause' = IF owner.call = "pause" THEN "none" ELSE xpause
    /\ UNCHANGED <<work, flags, stop, kind, device, thread>>

joined ==
    /\ At("stop", "joins") /\ gpu = "out"
    /\ owner' = [owner EXCEPT !.step = "joined"]
    /\ UNCHANGED <<work, flags, xpause, stop, kind, device, thread>>

Owner ==
    \/ \E j \in Jobs : setWork(j)
    \/ \E r \in Reasons : pause(r) \/ resume(r)
    \/ workIsSet \/ headerIsVoid \/ triggerStopWorking \/ joined

-----------------------------------------------------------------------------
(* The parts of the loop that the classes share *)

\* What work() may return.  pause() clears the header without miner_work_mutex: a reader
\* may find it cleared in part.
Readings ==
    IF At("setWork", "locked") THEN {}
    ELSE IF At("pause", "voids") /\ work.job # NoJob
    THEN {work, [work EXCEPT !.job = Torn], [work EXCEPT !.job = NoJob]}
    ELSE {work}

Moves(from, to) == gpu = from /\ gpu' = to

\* workLoop begins; initDevice() may fail.
starts ==
    /\ Moves("start", "top") \/ Moves("start", "out")
    /\ UNCHANGED <<want, current, dag, buffers, kind, calls, device>>

\* wait_for: a notification or three seconds.
waits ==
    /\ Moves("wait", "top") /\ ~At("setWork", "locked")
    /\ UNCHANGED <<want, current, dag, buffers, kind, calls, device>>

\* initEpoch pauses the miner for its own reason before it returns false.
failureIsFlagged ==
    /\ Moves("fails", "failKick") /\ xpause = "none"
    /\ xpause' = "gpu"
    /\ flags' = flags \cup {"own"}
    /\ work' = [work EXCEPT !.job = NoJob]
    /\ UNCHANGED <<owner, stop, want, current, dag, buffers, kind, device>>

failureKicks(kick) ==
    /\ Moves("failKick", "leave") /\ device = "none"
    /\ kick
    /\ xpause' = "none"
    /\ UNCHANGED <<work, flags, owner, stop, want, current, dag, buffers, kind, device>>

\* The pause flags of initEpoch are released.
ownReasonEnds ==
    /\ Moves("resume", "build") /\ xpause = "none"
    /\ flags' = flags \ {"own"}
    /\ UNCHANGED <<work, xpause, owner, stop, want, current, dag, buffers, kind, device>>

=============================================================================
