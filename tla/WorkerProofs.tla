---------------------------- MODULE WorkerProofs ----------------------------
(***************************************************************************)
(* Machine-checked proofs about Worker, for any set of callers.            *)
(***************************************************************************)
EXTENDS Worker, TLAPS

\* The holder of workerWorkMutex is the one caller inside a method.
LockInv == \A c \in Callers : cpc[c] # "idle" => mutex = {c}

\* Which states the atomic can be in at each point of the thread.
ThreadInv ==
    /\ tpc \in {"test", "begin"} => m_state \in {"Starting", "Killing"}
    /\ tpc \in {"loop", "leave"} => m_state \in {"Started", "Stopping", "Killing"}
    /\ tpc = "restore" => m_state = "Stopped" /\ ex = "Killing" /\ destroyed
    /\ tpc = "sleep" => m_state \in {"Stopped", "Starting", "Killing"}
    /\ tpc \in {"none", "exited"} => m_state \in {"Starting", "Killing"}
    /\ ex # "Starting"

\* Life of the object: before the first start, after destruction, and in between.
LifeInv ==
    /\ tpc = "none" <=> (~m_work /\ m_state = "Starting")
    /\ ~m_work => tpc \in {"none", "exited"}
    /\ ~m_work => \A c \in Callers : cpc[c] = "idle"
    /\ tpc = "exited" => destroyed
    /\ m_state = "Killing" => destroyed
    /\ destroyed /\ m_work => m_state = "Killing" \/ tpc = "restore"

\* What the caller inside a method may rely on.
CallInv ==
    /\ m_work /\ m_state = "Starting" => \E c \in Callers : cpc[c] = "starting"
    /\ \A c \in Callers : cpc[c] = "joining" => destroyed
    /\ destroyed => \A c \in Callers : cpc[c] \in {"idle", "joining"}

IInv == TypeOK /\ LockInv /\ ThreadInv /\ LifeInv /\ CallInv /\ StopWaitsForThread

-----------------------------------------------------------------------------
\* The initial state of the object satisfies the inductive invariant.
LEMMA InitInv == Init => IInv
  BY DEF Init, IInv, TypeOK, LockInv, ThreadInv, LifeInv, CallInv, StopWaitsForThread,
         WorkerState, CallerPC, ThreadPC

\* Every step of a caller and of the thread preserves the inductive invariant.
LEMMA StepInv == IInv /\ [Next]_vars => IInv'
  <1> SUFFICES ASSUME IInv, [Next]_vars PROVE IInv'
    OBVIOUS
  <1> USE DEF IInv, TypeOK, LockInv, ThreadInv, LifeInv, CallInv, StopWaitsForThread,
              WorkerState, CallerPC, ThreadPC, CompareExchange, callerVars, threadVars
  <1>1. CASE threadTest
    BY <1>1 DEF threadTest, Goto
  <1>2. CASE threadBegin
    BY <1>2 DEF threadBegin, Goto
  <1>3. CASE workLoopReturns
    BY <1>3 DEF workLoopReturns, Goto
  <1>4. CASE threadLeave
    BY <1>4 DEF threadLeave, Goto
  <1>5. CASE threadRestore
    BY <1>5 DEF threadRestore, Goto
  <1>6. CASE threadWakes
    BY <1>6 DEF threadWakes, Goto
  <1>7. ASSUME NEW c \in Callers, startWorking(c) PROVE IInv'
    <2>0. /\ ~destroyed /\ destroyed' = destroyed /\ ex' = ex /\ m_work' = TRUE
          /\ mutex = {} /\ mutex' = {c}
          /\ cpc' = [cpc EXCEPT ![c] = "starting"]
          /\ \A d \in Callers : cpc[d] = "idle"
      BY <1>7 DEF startWorking, Enter, Lock
    <2>1. CASE m_work
      <3>1. tpc' = tpc /\ m_state' = IF m_state = "Stopped" THEN "Starting" ELSE m_state
        BY <1>7, <2>1 DEF startWorking
      <3>2. QED
        BY <2>0, <2>1, <3>1
    <2>2. CASE ~m_work
      <3>1. tpc' = "test" /\ m_state' = "Starting"
        BY <1>7, <2>2 DEF startWorking
      <3>2. QED
        BY <2>0, <2>2, <3>1
    <2>3. QED
      BY <2>1, <2>2
  <1>8. ASSUME NEW c \in Callers, startReturns(c) PROVE IInv'
    BY <1>8 DEF startReturns, Enter, Lock, Unlock
  <1>9. ASSUME NEW c \in Callers, triggerStopWorking(c) PROVE IInv'
    BY <1>9 DEF triggerStopWorking, Enter, Lock, Unlock
  <1>10. ASSUME NEW c \in Callers, stopWorking(c) PROVE IInv'
    BY <1>10 DEF stopWorking, Enter, Lock, Unlock
  <1>11. ASSUME NEW c \in Callers, stopReturns(c) PROVE IInv'
    BY <1>11 DEF stopReturns, Enter, Lock, Unlock
  <1>12. ASSUME NEW c \in Callers, destruct(c) PROVE IInv'
    BY <1>12 DEF destruct, Enter, Lock, Unlock
  <1>13. ASSUME NEW c \in Callers, joined(c) PROVE IInv'
    BY <1>13 DEF joined, Enter, Lock, Unlock
  <1>14. CASE UNCHANGED vars
    BY <1>14 DEF vars
  <1>15. QED
    BY <1>1, <1>2, <1>3, <1>4, <1>5, <1>6, <1>7, <1>8, <1>9, <1>10, <1>11, <1>12, <1>13, <1>14 DEF Next, Thread

\* The inductive invariant holds throughout.
THEOREM Inductive == Spec => []IInv
  BY InitInv, StepInv, PTL DEF Spec

\* The types of the worker's state are right (libdev/Worker.h, the fields).
THEOREM TypeCorrect == Spec => []TypeOK
  <1>1. IInv => TypeOK
    BY DEF IInv
  <1>2. QED
    BY Inductive, <1>1, PTL

\* stopWorking returns on Stopped, and Stopped means that the loop has been left,
\* however many threads start, stop and destroy the worker.
THEOREM StoppedSafe == Spec => []StoppedMeansOut
  <1>1. IInv => StoppedMeansOut
    BY DEF IInv, TypeOK, ThreadPC, ThreadInv, StoppedMeansOut
  <1>2. QED
    BY Inductive, <1>1, PTL

\* A pending start is never overwritten by the thread's exchange.
THEOREM StartSafe == Spec => []StartNotOverwritten
  <1>1. IInv => StartNotOverwritten
    BY DEF IInv, ThreadInv, StartNotOverwritten
  <1>2. QED
    BY Inductive, <1>1, PTL

\* The spin of stopWorking only ever waits for a thread that is on its way.
THEOREM StopSafe == Spec => []StopWaitsForThread
  <1>1. IInv => StopWaitsForThread
    BY DEF IInv
  <1>2. QED
    BY Inductive, <1>1, PTL

\* The destructor's Killing survives the thread's exchange and restore.
THEOREM KillSafe == Spec => []KillNotLost
  <1>1. IInv => KillNotLost
    BY DEF IInv, ThreadInv, LifeInv, KillNotLost
  <1>2. QED
    BY Inductive, <1>1, PTL

-----------------------------------------------------------------------------
\* Every step of the worker is a step of its lifecycle or leaves it unchanged.
LEMMA StepRefines == IInv /\ [Next]_vars => [Lifecycle!Next]_(Lifecycle!vars)
  <1> SUFFICES ASSUME IInv, [Next]_vars PROVE [Lifecycle!Next]_(Lifecycle!vars)
    OBVIOUS
  <1> USE DEF IInv, TypeOK, LockInv, ThreadInv, LifeInv, CallInv, StopWaitsForThread,
              WorkerState, CallerPC, ThreadPC, CompareExchange, callerVars, threadVars,
              lifecyclePhase, Lifecycle!vars
  <1>1. CASE threadTest
    BY <1>1 DEF threadTest, Goto
  <1>2. CASE threadBegin
    BY <1>2 DEF threadBegin, Goto, Lifecycle!Next, Lifecycle!Begin, Lifecycle!LastRun
  <1>3. CASE workLoopReturns
    BY <1>3 DEF workLoopReturns, Goto, Lifecycle!Next, Lifecycle!Finish
  <1>4. CASE threadLeave
    BY <1>4 DEF threadLeave, Goto, Lifecycle!Next, Lifecycle!Report
  <1>5. CASE threadRestore
    BY <1>5 DEF threadRestore, Goto
  <1>6. CASE threadWakes
    BY <1>6 DEF threadWakes, Goto
  <1>7. ASSUME NEW c \in Callers, startWorking(c) PROVE [Lifecycle!Next]_(Lifecycle!vars)
    BY <1>7 DEF startWorking, Enter, Lock, Lifecycle!Next, Lifecycle!Request
  <1>8. ASSUME NEW c \in Callers, startReturns(c) PROVE [Lifecycle!Next]_(Lifecycle!vars)
    BY <1>8 DEF startReturns, Unlock
  <1>9. ASSUME NEW c \in Callers, triggerStopWorking(c) PROVE [Lifecycle!Next]_(Lifecycle!vars)
    BY <1>9 DEF triggerStopWorking, Enter, Lifecycle!Next, Lifecycle!Stop
  <1>10. ASSUME NEW c \in Callers, stopWorking(c) PROVE [Lifecycle!Next]_(Lifecycle!vars)
    BY <1>10 DEF stopWorking, Enter, Lock, Lifecycle!Next, Lifecycle!Stop
  <1>11. ASSUME NEW c \in Callers, stopReturns(c) PROVE [Lifecycle!Next]_(Lifecycle!vars)
    BY <1>11 DEF stopReturns, Unlock
  <1>12. ASSUME NEW c \in Callers, destruct(c) PROVE [Lifecycle!Next]_(Lifecycle!vars)
    BY <1>12 DEF destruct, Enter, Lock, Lifecycle!Next, Lifecycle!Drop, Lifecycle!Destroy
  <1>13. ASSUME NEW c \in Callers, joined(c) PROVE [Lifecycle!Next]_(Lifecycle!vars)
    BY <1>13 DEF joined, Unlock, Lifecycle!Next, Lifecycle!Gone
  <1>14. CASE UNCHANGED vars
    BY <1>14 DEF vars
  <1>15. QED
    BY <1>1, <1>2, <1>3, <1>4, <1>5, <1>6, <1>7, <1>8, <1>9, <1>10, <1>11, <1>12, <1>13, <1>14 DEF Next, Thread

\* The worker implements the lifecycle its owners rely on, for any callers.
THEOREM Refinement == Spec => ImplementsLifecycle
  <1>1. Init => Lifecycle!Init
    BY DEF Init, Lifecycle!Init, lifecyclePhase
  <1>2. QED
    BY Inductive, <1>1, StepRefines, PTL DEF Spec, ImplementsLifecycle, Lifecycle!Spec

=============================================================================
