------------------------------- MODULE Worker -------------------------------
(***************************************************************************)
(* libdev/Worker: the thread every miner (and the simulation client) runs  *)
(* its work loop in.  Any number of threads may call startWorking,         *)
(* triggerStopWorking and stopWorking; one of them finally destroys the    *)
(* object.  The calls are serialised by workerWorkMutex, the worker thread *)
(* itself takes no lock and communicates through the atomic m_state only.  *)
(***************************************************************************)
EXTENDS Naturals

CONSTANT Callers         \* threads that call the methods of the object

VARIABLES
    m_state,             \* the atomic WorkerState
    m_work,              \* whether the thread object exists
    mutex,               \* holder of workerWorkMutex, {} when free
    cpc,                 \* where each caller is
    tpc,                 \* where the worker thread is
    ex,                  \* the thread's local: the state its exchange returned
    destroyed            \* the destructor has been entered

vars == <<m_state, m_work, mutex, cpc, tpc, ex, destroyed>>
callerVars == <<m_work, mutex, cpc, destroyed>>
threadVars == <<tpc, ex>>

WorkerState == {"Starting", "Started", "Stopping", "Stopped", "Killing"}
CallerPC == {"idle", "starting", "stopping", "joining"}
ThreadPC == {"none", "test", "begin", "loop", "leave", "restore", "sleep", "exited"}

TypeOK ==
    /\ m_state \in WorkerState
    /\ m_work \in BOOLEAN
    /\ mutex \in {{}} \cup {{c} : c \in Callers}
    /\ cpc \in [Callers -> CallerPC]
    /\ tpc \in ThreadPC
    /\ ex \in WorkerState
    /\ destroyed \in BOOLEAN

Init ==
    /\ m_state = "Starting"
    /\ m_work = FALSE
    /\ mutex = {}
    /\ cpc = [c \in Callers |-> "idle"]
    /\ tpc = "none"
    /\ ex = "Stopped"
    /\ destroyed = FALSE

\* m_state.compare_exchange_strong(from, to)
CompareExchange(from, to) == m_state' = IF m_state = from THEN to ELSE m_state

\* A method may only be called on a live object, and starts by locking.
Enter(c) == ~destroyed /\ cpc[c] = "idle" /\ mutex = {}

Lock(c, pc) ==
    /\ mutex' = {c}
    /\ cpc' = [cpc EXCEPT ![c] = pc]

Unlock(c) ==
    /\ mutex' = {}
    /\ cpc' = [cpc EXCEPT ![c] = "idle"]

-----------------------------------------------------------------------------
(* The callers *)

startWorking(c) ==
    /\ Enter(c)
    /\ Lock(c, "starting")
    /\ \/ /\ m_work
          /\ CompareExchange("Stopped", "Starting")
          /\ UNCHANGED <<m_work, tpc>>
       \/ /\ ~m_work
          /\ m_state' = "Starting"
          /\ m_work' = TRUE
          /\ tpc' = "test"
    /\ UNCHANGED <<ex, destroyed>>

\* The spin at the end of startWorking is over.
startReturns(c) ==
    /\ cpc[c] = "starting"
    /\ m_state # "Starting"
    /\ Unlock(c)
    /\ UNCHANGED <<m_state, m_work, threadVars, destroyed>>

triggerStopWorking(c) ==
    /\ Enter(c)
    /\ m_work
    /\ CompareExchange("Started", "Stopping")
    /\ UNCHANGED <<callerVars, threadVars>>

\* mutant: stopWorking announces Stopped itself
stopWorking_Announce(c) ==
    /\ Enter(c)
    /\ m_work
    /\ Lock(c, "stopping")
    /\ CompareExchange("Started", "Stopped")
    /\ UNCHANGED <<m_work, threadVars, destroyed>>

stopWorking(c) ==
    /\ Enter(c)
    /\ m_work
    /\ Lock(c, "stopping")
    /\ CompareExchange("Started", "Stopping")
    /\ UNCHANGED <<m_work, threadVars, destroyed>>

\* The spin of stopWorking has seen Stopped.
stopReturns(c) ==
    /\ cpc[c] = "stopping"
    /\ m_state = "Stopped"
    /\ Unlock(c)
    /\ UNCHANGED <<m_state, m_work, threadVars, destroyed>>

\* ~Worker.  No other thread is inside a method of an object being destroyed.
destruct(c) ==
    /\ Enter(c)
    /\ destroyed' = TRUE
    /\ \/ /\ m_work
          /\ Lock(c, "joining")
          /\ m_state' = "Killing"
       \/ /\ ~m_work
          /\ UNCHANGED <<mutex, cpc, m_state>>
    /\ UNCHANGED <<m_work, threadVars>>

\* m_work->join() has returned; the thread object is released.
joined(c) ==
    /\ cpc[c] = "joining"
    /\ tpc = "exited"
    /\ m_work' = FALSE
    /\ Unlock(c)
    /\ UNCHANGED <<m_state, threadVars, destroyed>>

-----------------------------------------------------------------------------
(* The worker thread *)

Goto(from, to) == tpc = from /\ tpc' = to

threadTest ==
    /\ Goto("test", IF m_state = "Killing" THEN "exited" ELSE "begin")
    /\ UNCHANGED <<m_state, ex, callerVars>>

threadBegin ==
    /\ Goto("begin", "loop")
    /\ CompareExchange("Starting", "Started")
    /\ UNCHANGED <<ex, callerVars>>

\* workLoop() returns or throws: because it polled shouldStop(), or of its own
\* (no device, no DAG, a GPU error).
workLoopReturns ==
    /\ Goto("loop", "leave")
    /\ UNCHANGED <<m_state, ex, callerVars>>

shouldStop == m_state # "Started"

\* mutant: the thread does not look at what its exchange returned
threadLeave_NoRestore ==
    /\ Goto("leave", "sleep")
    /\ ex' = m_state
    /\ m_state' = "Stopped"
    /\ UNCHANGED callerVars

threadLeave ==
    /\ Goto("leave", IF m_state \in {"Killing", "Starting"} THEN "restore" ELSE "sleep")
    /\ ex' = m_state
    /\ m_state' = "Stopped"
    /\ UNCHANGED callerVars

threadRestore ==
    /\ Goto("restore", "sleep")
    /\ m_state' = ex
    /\ UNCHANGED <<ex, callerVars>>

threadWakes ==
    /\ m_state # "Stopped"
    /\ Goto("sleep", "test")
    /\ UNCHANGED <<m_state, ex, callerVars>>

-----------------------------------------------------------------------------

Thread == threadTest \/ threadBegin \/ workLoopReturns \/ threadLeave
              \/ threadRestore \/ threadWakes

Next ==
    \/ Thread
    \/ \E c \in Callers :
          \/ startWorking(c) \/ startReturns(c)
          \/ triggerStopWorking(c)
          \/ stopWorking(c) \/ stopReturns(c)
          \/ destruct(c) \/ joined(c)

Spec == Init /\ [][Next]_vars

\* The operating system runs every thread; a spinning caller polls; a work loop
\* polls shouldStop() once per batch, so it leaves once it should stop.
Fairness ==
    /\ WF_vars(threadTest \/ threadBegin \/ threadLeave \/ threadRestore \/ threadWakes)
    /\ WF_vars(shouldStop /\ workLoopReturns)
    /\ \A c \in Callers : WF_vars(startReturns(c) \/ stopReturns(c) \/ joined(c))

FairSpec == Spec /\ Fairness

-----------------------------------------------------------------------------
(* Properties *)

\* While the atomic says Stopped the work loop is not executing: stopWorking,
\* which returns on Stopped, may be followed by freeing what the loop uses.
StoppedMeansOut == m_state = "Stopped" => tpc \in {"restore", "sleep"}

\* The thread announces the end of a work loop only in a state that a loop can
\* have left: it never overwrites a pending start with Stopped, so the restore
\* of Starting in the thread is never taken and only a kill is ever restored.
StartNotOverwritten == ex # "Starting" /\ (tpc = "leave" => m_state # "Starting")

\* A caller spinning in stopWorking is waiting for something that will come: the
\* thread is on its way from a loop to Stopped, never asleep in another state.
StopWaitsForThread ==
    \A c \in Callers : cpc[c] = "stopping" =>
        \/ m_state \in {"Started", "Stopping"} /\ tpc \in {"loop", "leave"}
        \/ m_state = "Stopped" /\ tpc = "sleep"

\* Once the destructor has set Killing the thread cannot go back to sleep on
\* Stopped for good: Killing is in the atomic, or in the thread's hands.
KillNotLost ==
    destroyed /\ m_work => m_state = "Killing" \/ (tpc = "restore" /\ ex = "Killing")

\* Each call returns: the spin of startWorking and of stopWorking and the join
\* of the destructor end.
CallsReturn == \A c \in Callers : cpc[c] # "idle" ~> cpc[c] = "idle"

-----------------------------------------------------------------------------
(* The worker implements its lifecycle. *)

lifecyclePhase ==
    CASE ~m_work /\ ~destroyed                     -> "created"
      [] ~m_work /\ destroyed                      -> "gone"
      [] m_work /\ destroyed /\ tpc = "begin"      -> "lastRun"
      [] m_work /\ destroyed /\ tpc # "begin"      -> "destroying"
      [] m_work /\ ~destroyed /\ m_state = "Starting" -> "requested"
      [] m_work /\ ~destroyed /\ m_state = "Started"  -> "active"
      [] m_work /\ ~destroyed /\ m_state = "Stopping" -> "stopping"
      [] OTHER                                     -> "idle"

Lifecycle == INSTANCE WorkerLifecycle WITH phase <- lifecyclePhase, running <- tpc = "loop"

\* The handshake through m_state implements the lifecycle its owner relies on.
ImplementsLifecycle == Lifecycle!Spec

=============================================================================
