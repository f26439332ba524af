---------------------------- MODULE PoolManager ----------------------------
(***************************************************************************)
(* libpool/PoolManager: which of the configured pools the miner works for. *)
(* It selects a pool, builds a client for it, counts the attempts, rotates *)
(* to the next pool, returns to the primary one after a while, suspends    *)
(* the farm when there is no connection and completes the jobs with the    *)
(* number of their epoch.                                                  *)
(*                                                                         *)
(* PoolManager and its client run on the io thread; only stop() runs on    *)
(* the main thread.  The client is the one of module PoolClient, with more *)
(* phases: "none" before the first one, "idle" while it waits for the      *)
(* reconnection delay, "unlinking" for one that closes before its login.   *)
(***************************************************************************)
EXTENDS Integers, Sequences, Functions

CONSTANTS
    Pools,             \* URI objects
    Configured,        \* m_Settings.connections as given on the command line
    ExitPools,         \* URIs whose host is "exit"
    ES2Pools,          \* pools that speak EthereumStratum/2.0.0
    MaxRetries,        \* m_Settings.connectionMaxRetries, 0 for no limit
    RetryDelay,        \* m_Settings.delayBeforeRetry > 0
    FailoverTimeout,   \* m_Settings.poolFailoverTimeout > 0
    Epochs             \* numbers of epochs

\* vector::erase, of the element at position i.
Erase(s, i) == SubSeq(s, 1, i - 1) \o SubSeq(s, i + 1, Len(s))

IsInjection(s) == \A i, j \in 1..Len(s) : s[i] = s[j] => i = j

ASSUME ConstantsAssumption ==
    /\ Configured \in Seq(Pools) /\ Configured # <<>> /\ IsInjection(Configured)
    /\ ExitPools \subseteq Pools /\ ES2Pools \subseteq Pools
    /\ MaxRetries \in Nat
    /\ RetryDelay \in BOOLEAN /\ FailoverTimeout \in BOOLEAN
    /\ Epochs \subseteq Nat

VARIABLES
    connections,       \* m_Settings.connections
    unrecoverable,     \* URIs marked unrecoverable
    active,            \* m_activeConnectionIdx
    attempt,           \* m_connectionAttempt
    running, stopping, pending,     \* m_running, m_stopping, m_async_pending
    client,            \* p_client: its URI and phase
    rotations,         \* number of rotateConnect handlers in the io queue
    failover,          \* m_failovertimer: off, armed, or its handler is queued
    reconnect,         \* m_reconnecttimer, likewise
    farm,              \* Farm: isMining, paused, and whether its miners are paused
    wp,                \* m_currentWp: seed and epoch
    main,              \* where the main thread is
    job,               \* history: the epoch of the last job received
    streak,            \* history: consecutive attempts at one URI with no success
    fault              \* a null pointer was followed, an exception escaped

selection == <<connections, active, attempt>>
flags == <<running, stopping, pending>>
timers == <<failover, reconnect>>
vars == <<selection, unrecoverable, flags, client, rotations, timers, farm, wp, main,
          job, streak, fault>>

NoEpoch == -1
NoSeed == -1           \* h256(): no seed was given
Phases == {"none", "idle", "trying", "linked", "unlinking", "up", "closing", "down"}
TimerStates == {"off", "armed", "queued"}

TypeOK ==
    /\ connections \in Seq(Pools)
    /\ unrecoverable \subseteq Pools
    /\ active \in Nat /\ attempt \in Nat
    /\ running \in BOOLEAN /\ stopping \in BOOLEAN /\ pending \in BOOLEAN
    /\ client \in [uri : Pools, phase : Phases]
    /\ rotations \in Nat
    /\ failover \in TimerStates /\ reconnect \in TimerStates
    /\ farm \in [mining : BOOLEAN, paused : BOOLEAN, minersPaused : BOOLEAN]
    /\ wp \in [seed : Epochs \cup {NoSeed}, epoch : Epochs \cup {NoEpoch}]
    /\ main \in {"waits", "stopping", "disconnects", "spins", "done"}
    /\ job \in Epochs \cup {NoEpoch}
    /\ streak \in [uri : Pools, n : Nat]
    /\ fault \in BOOLEAN

\* PoolManager::start() has posted the first rotateConnect.
Init ==
    /\ connections = Configured
    /\ unrecoverable = {}
    /\ active = 0 /\ attempt = 0
    /\ running = TRUE /\ stopping = FALSE /\ pending = TRUE
    /\ client = [uri |-> Configured[1], phase |-> "none"]
    /\ rotations = 1
    /\ failover = "off" /\ reconnect = "off"
    /\ farm = [mining |-> FALSE, paused |-> FALSE, minersPaused |-> FALSE]
    /\ wp = [seed |-> NoSeed, epoch |-> NoEpoch]
    /\ main = "waits"
    /\ job = NoEpoch
    /\ streak = [uri |-> Configured[1], n |-> 0]
    /\ fault = FALSE

Alive == ~fault /\ main # "done"

isConnected == client.phase \in {"linked", "up"}

Enter(phase) == client' = [client EXCEPT !.phase = phase]

Cancelled(timer) == IF timer = "armed" THEN "off" ELSE timer

-----------------------------------------------------------------------------
(* Farm, as far as the PoolManager drives it.  stop() drops the miners and   *)
(* start() creates new ones, so that no pause of theirs survives.            *)

FarmStarted == [farm EXCEPT !.mining = TRUE, !.minersPaused = FALSE]
FarmStopped == [farm EXCEPT !.mining = FALSE, !.minersPaused = FALSE]
FarmPaused == [farm EXCEPT !.paused = TRUE, !.minersPaused = farm.mining]
FarmResumed == [farm EXCEPT !.paused = FALSE, !.minersPaused = FALSE]

\* The restart asked for through the API: stop() and start().
minerRestart ==
    /\ Alive
    /\ farm' = FarmStarted
    /\ UNCHANGED <<selection, unrecoverable, flags, client, rotations, timers, wp, main,
                   job, streak, fault>>

-----------------------------------------------------------------------------
(* The handlers given to the client *)

\* stop() has asked for the disconnection.
Shutdown(outstanding) ==
    /\ stopping
    /\ farm' = FarmStopped
    /\ running' = FALSE
    /\ pending' = outstanding
    /\ UNCHANGED rotations

\* No connection: mining is suspended and a new connection requested.
Suspend ==
    /\ ~stopping
    /\ farm' = FarmPaused
    /\ pending' = TRUE
    /\ rotations' = rotations + 1
    /\ UNCHANGED running

\* The arguments are m_failovertimer and m_async_pending as the caller leaves them.
onDisconnected(timer, outstanding) ==
    /\ Enter("down")
    /\ failover' = Cancelled(timer)
    /\ Shutdown(outstanding) \/ Suspend
    /\ UNCHANGED <<stopping, fault>>

FailoverArmed_Never == Cancelled(failover)

FailoverArmed == IF active # 0 /\ FailoverTimeout THEN "armed" ELSE Cancelled(failover)

FarmConnected_NoResume == IF ~farm.mining THEN FarmStarted ELSE farm

FarmConnected ==
    IF ~farm.mining THEN FarmStarted
    ELSE IF farm.paused THEN FarmResumed
    ELSE farm

onConnected ==
    /\ Enter("up")
    /\ attempt' = 0
    /\ failover' = FailoverArmed
    /\ farm' = FarmConnected
    /\ pending' = FALSE
    /\ streak' = [streak EXCEPT !.n = 0]

\* Whether a job with this seed and epoch begins a new epoch.
NewEpoch(seed, epoch) ==
    \/ wp.epoch = NoEpoch
    \/ IF client.uri \in ES2Pools THEN epoch # wp.epoch ELSE seed # wp.seed

\* A job of epoch e.  EthereumStratum/2.0.0 announces the epoch and no seed; the other
\* protocols give a seed (or a block), from which the epoch is computed.
onWorkReceived(e) ==
    LET seed == IF client.uri \in ES2Pools THEN NoSeed ELSE e
        epoch == IF client.uri \in ES2Pools THEN e ELSE NoEpoch
    IN  /\ wp' = [seed |-> seed,
                  epoch |-> IF ~NewEpoch(seed, epoch) THEN wp.epoch
                            ELSE IF epoch = NoEpoch THEN e
                            ELSE epoch]
        /\ job' = e

-----------------------------------------------------------------------------
(* The client.  The handlers of a new client come after the rotations that   *)
(* are queued already.                                                       *)

ClientRuns(phases) == Alive /\ rotations = 0 /\ client.phase \in phases

\* A step of the client that the PoolManager does not see.
ClientMoves(from, to) ==
    /\ ClientRuns(from)
    /\ Enter(to)
    /\ UNCHANGED <<selection, unrecoverable, flags, rotations, timers, farm, wp, main, job,
                   streak, fault>>

clientLinks == ClientMoves({"trying"}, "linked")

\* Mode autodetection starts over on a new connection.
clientRetries ==
    /\ client.uri \notin unrecoverable
    /\ ClientMoves({"linked", "unlinking"}, "trying")

\* A TLS stream is being shut down.
clientCloses == ClientMoves({"linked"}, "unlinking") \/ ClientMoves({"up"}, "closing")

clientLogsIn ==
    /\ ClientRuns({"linked"})
    /\ onConnected
    /\ UNCHANGED <<connections, active, unrecoverable, running, stopping, rotations,
                   reconnect, wp, main, job, fault>>

clientRefused ==
    /\ ClientRuns({"trying", "linked", "up"})
    /\ unrecoverable' = unrecoverable \cup {client.uri}
    /\ UNCHANGED <<selection, flags, client, rotations, timers, farm, wp, main, job, streak,
                   fault>>

clientGetsWork ==
    /\ ClientRuns({"up"})
    /\ \E e \in Epochs : onWorkReceived(e)
    /\ UNCHANGED <<selection, unrecoverable, flags, client, rotations, timers, farm, main,
                   streak, fault>>

clientFails ==
    /\ ClientRuns({"trying", "linked", "unlinking", "up", "closing"})
    /\ onDisconnected(failover, pending)
    /\ UNCHANGED <<selection, unrecoverable, reconnect, wp, main, job, streak>>

\* p_client->disconnect().  A client that is shutting down ignores it.  One that has
\* no connection yet may throw, go on to another mode, or report the disconnection.  One
\* whose connection was unset follows a null pointer, or reports it again (getwork).
disconnect(timer, outstanding) ==
    \/ /\ client.phase \in {"unlinking", "closing", "linked", "up", "trying"}
       /\ \/ client.phase \in {"unlinking", "closing"} /\ UNCHANGED client
          \/ client.phase = "linked" /\ Enter("unlinking")
          \/ client.phase = "up" /\ Enter("closing")
          \/ /\ client.phase \in {"linked", "trying"}
             /\ client.uri \notin unrecoverable
             /\ Enter("trying")
       /\ failover' = timer
       /\ pending' = outstanding
       /\ UNCHANGED <<running, stopping, rotations, farm, fault>>
    \/ /\ client.phase \in {"idle", "trying", "linked", "up", "down"}
       /\ onDisconnected(timer, outstanding)
    \/ /\ client.phase \in {"idle", "trying", "down"}
       /\ fault' = TRUE
       /\ failover' = timer
       /\ pending' = outstanding
       /\ UNCHANGED <<running, stopping, client, rotations, farm>>

-----------------------------------------------------------------------------
(* Selection of a pool *)

Wrapped(i, list) == IF i >= Len(list) THEN 0 ELSE i

Rotated_Never(i, list) == i

Rotated(i, list) == Wrapped(i + 1, list)

Tired_OffByOne == MaxRetries # 0 /\ attempt > MaxRetries

\* The active pool had its attempts.
Tired == MaxRetries # 0 /\ attempt >= MaxRetries

\* rotateConnect after its first test: the list without the pool that is given up, the
\* index of the pool selected in it and the number of attempts made at that pool.
Selection ==
    LET start == Wrapped(active, connections)
        dead == connections[start + 1] \in unrecoverable
        list == IF dead \/ (Len(connections) = 1 /\ Tired)
                THEN Erase(connections, start + 1) ELSE connections
        rotate == ~dead /\ Tired /\ list # <<>>
    IN  [list |-> list,
         index |-> IF rotate THEN Rotated(start, list)
                   ELSE IF dead THEN Wrapped(start, list)
                   ELSE start,
         attempt |-> IF dead \/ rotate THEN 0 ELSE attempt]

\* The pool to connect to, if any.
Selected ==
    IF Selection.list = <<>> THEN {}
    ELSE {Selection.list[Selection.index + 1]} \ ExitPools

\* The history counts up to one attempt beyond the limit.
Counted(n) == IF n <= MaxRetries THEN n + 1 ELSE n

rotateConnect ==
    /\ Alive /\ rotations > 0 /\ failover # "queued"
    /\ ~isConnected
    /\ rotations' = rotations - 1
    /\ \/ /\ connections = <<>>                  \* connections.at() throws
          /\ fault' = TRUE
          /\ UNCHANGED <<selection, running, client, reconnect, farm, streak>>
       \/ /\ connections # <<>>
          /\ connections' = Selection.list
          /\ active' = Selection.index
          /\ fault' \in {FALSE, client.phase = "trying"}   \* its handlers are queued
          /\ \/ \E u \in Selected :
                LET n == Selection.attempt + 1
                    waits == n > 1 /\ RetryDelay
                IN  /\ attempt' = n
                    /\ client' = [uri |-> u, phase |-> IF waits THEN "idle" ELSE "trying"]
                    /\ reconnect' = IF waits THEN "armed" ELSE reconnect
                    /\ streak' = [uri |-> u, n |-> IF streak.uri = u THEN Counted(streak.n) ELSE 1]
                    /\ UNCHANGED <<running, farm>>
             \/ /\ Selected = {}
                /\ attempt' = Selection.attempt
                /\ farm' = FarmStopped
                /\ running' = FALSE
                /\ UNCHANGED <<client, reconnect, streak>>
    /\ UNCHANGED <<unrecoverable, stopping, pending, failover, wp, main, job>>

-----------------------------------------------------------------------------
(* Timers *)

failoverFires ==
    /\ Alive /\ failover = "armed"
    /\ failover' = "queued"
    /\ UNCHANGED <<selection, unrecoverable, flags, client, rotations, reconnect, farm, wp,
                   main, job, streak, fault>>

reconnectFires ==
    /\ Alive /\ reconnect = "armed"
    /\ reconnect' = "queued"
    /\ UNCHANGED <<selection, unrecoverable, flags, client, rotations, failover, farm, wp,
                   main, job, streak, fault>>

BackToPrimary ==
    /\ active' = 0
    /\ attempt' = 0
    /\ disconnect("off", pending)
    /\ UNCHANGED connections

failovertimer_elapsed ==
    /\ Alive /\ failover = "queued"
    /\ \/ /\ ~running \/ active = 0
          /\ failover' = "off"
          /\ UNCHANGED <<selection, flags, client, rotations, farm, fault>>
       \/ /\ running /\ active # 0
          /\ BackToPrimary
    /\ UNCHANGED <<unrecoverable, reconnect, wp, main, job, streak>>

Reconnected ==
    IF running /\ client.phase = "idle" THEN [client EXCEPT !.phase = "trying"] ELSE client

\* connect() is for a client that is not connected; it returns if the client is trying, and
\* needs the connection that a client that is down has no more.
reconnecttimer_elapsed ==
    /\ Alive /\ reconnect = "queued"
    /\ reconnect' = "off"
    /\ client' = Reconnected
    /\ fault' = (running /\ client.phase = "down")
    /\ UNCHANGED <<selection, unrecoverable, flags, rotations, failover, farm, wp, main, job,
                   streak>>

-----------------------------------------------------------------------------
(* The list of pools is changed through the API, on the io thread *)

InUse == Range(connections) \cup {client.uri, streak.uri}

addConnection(p) ==
    /\ Alive
    /\ p \in Pools \ InUse
    /\ connections' = Append(connections, p)
    /\ unrecoverable' = unrecoverable \ {p}          \* a new URI object
    /\ UNCHANGED <<active, attempt, flags, client, rotations, timers, farm, wp, main, job,
                   streak, fault>>

\* The index of the active pool once pool i is removed.
IndexWithout(i) == IF active > i THEN active - 1 ELSE active

removeConnection(i) ==
    /\ Alive /\ ~pending
    /\ i < Len(connections) /\ i # active
    /\ connections' = Erase(connections, i + 1)
    /\ active' = IndexWithout(i)
    /\ UNCHANGED <<attempt, unrecoverable, flags, client, rotations, timers, farm, wp, main,
                   job, streak, fault>>

setActiveConnection(i) ==
    /\ Alive /\ ~pending
    /\ i < Len(connections) /\ i # active
    /\ active' = i
    /\ attempt' = 0
    /\ disconnect(failover, TRUE)
    /\ UNCHANGED <<connections, unrecoverable, reconnect, wp, main, job, streak>>

-----------------------------------------------------------------------------
(* The main thread: it waits for a signal, and stops the PoolManager *)

mainWakes ==
    /\ ~fault /\ main = "waits"
    /\ \/ /\ running
          /\ pending' = TRUE /\ stopping' = TRUE
          /\ main' = "stopping"
       \/ /\ ~running
          /\ main' = "done"
          /\ UNCHANGED <<pending, stopping>>
    /\ UNCHANGED <<selection, unrecoverable, running, client, rotations, timers, farm, wp,
                   job, streak, fault>>

mainTests ==
    /\ ~fault /\ main = "stopping"
    /\ \/ /\ isConnected
          /\ main' = "disconnects"
          /\ UNCHANGED <<timers, farm>>
       \/ /\ ~isConnected
          /\ failover' = Cancelled(failover)
          /\ reconnect' = Cancelled(reconnect)
          /\ farm' = FarmStopped
          /\ main' = "done"
    /\ UNCHANGED <<selection, unrecoverable, flags, client, rotations, wp, job, streak,
                   fault>>

mainDisconnects ==
    /\ ~fault /\ main = "disconnects"
    /\ disconnect(failover, pending)
    /\ main' = "spins"
    /\ UNCHANGED <<selection, unrecoverable, reconnect, wp, job, streak>>

mainSpins ==
    /\ ~fault /\ main = "spins" /\ ~running
    /\ client' = [client EXCEPT !.phase = "none"]
    /\ main' = "done"
    /\ UNCHANGED <<selection, unrecoverable, flags, rotations, timers, farm, wp, job, streak,
                   fault>>

-----------------------------------------------------------------------------
Client ==
    \/ clientLinks \/ clientRetries \/ clientLogsIn \/ clientRefused \/ clientGetsWork
    \/ clientCloses \/ clientFails

\* The API server is stopped before the PoolManager is.
Api ==
    /\ main = "waits"
    /\ \/ minerRestart
       \/ \E p \in Pools : addConnection(p)
       \/ \E i \in 0..Len(connections) : removeConnection(i) \/ setActiveConnection(i)

Timers ==
    failoverFires \/ reconnectFires \/ failovertimer_elapsed \/ reconnecttimer_elapsed

Main == mainWakes \/ mainTests \/ mainDisconnects \/ mainSpins

Next == rotateConnect \/ Client \/ Api \/ Timers \/ Main

\* The io thread runs what is queued, timers fire, the main thread runs.  A client does not
\* try for ever: it logs in or fails, however many modes it detects; a session may last for
\* ever.  The main thread wakes when the PoolManager has raised SIGTERM.
Fairness ==
    /\ WF_vars(rotateConnect) /\ WF_vars(Timers)
    /\ SF_vars(clientLogsIn \/ (client.phase # "up" /\ clientFails))
    /\ WF_vars(~running /\ mainWakes)
    /\ WF_vars(mainTests \/ mainDisconnects \/ mainSpins)

Spec == Init /\ [][Next]_vars

FairSpec == Spec /\ Fairness

-----------------------------------------------------------------------------
(* Safety *)

\* Neither stop() nor the end of the list of pools has ended the PoolManager.
Operating == running /\ ~stopping

\* The index of the active pool names a pool of the list, whatever was discarded from the
\* list or removed through the API: the checks for bounds in rotateConnect never correct it.
ActiveInBounds == connections # <<>> => active < Len(connections)

\* No pool is tried more than --retry-max times in a row without a login, even when the
\* failover timer or the API resets the counter of attempts.
RetryBound == MaxRetries # 0 => streak.n <= MaxRetries

\* The API disconnects the client, or removes a pool from the list, only when a client has
\* logged in and not reported its disconnection yet: m_async_pending is set at all times at
\* which p_client has no connection to end, until the program is stopped.
SwitchHasClient == Operating /\ ~pending => client.phase \in {"up", "closing"}

\* Once no switch is pending, a client that is logged in works for the active pool.
ConnectedToActive ==
    Operating /\ ~pending /\ client.phase = "up" =>
        /\ connections # <<>>
        /\ client.uri = connections[active + 1]

\* The miners run while there is a session, however pauses, restarts and disconnections
\* were interleaved before it.
MinersRunWhenConnected ==
    Operating /\ client.phase = "up" => farm.mining /\ ~farm.minersPaused

\* The work given to the farm carries the epoch of its job, also after a switch between
\* pools that announce the epoch and pools that announce the seed.
EpochOfWork == job # NoEpoch => wp.epoch = job

-----------------------------------------------------------------------------
(* Liveness *)

Ended == fault \/ main = "done"

\* Every pool of the list is tried again and again while no pool accepts a login, the
\* retries are limited and the list is not changed any more: rotateConnect starves none.
EveryPoolTried ==
    \A p \in Pools :
        /\ <>[][UNCHANGED connections]_vars
        /\ <>[](~Ended /\ Operating /\ p \in Range(connections) /\ client.phase # "up")
        => []<>(client.uri = p)

\* A session with a backup pool does not last: --failover-timeout leads back to the primary.
ReturnsToPrimary ==
    client.phase = "up" /\ active # 0 /\ FailoverTimeout
        ~> client.phase # "up" \/ active = 0 \/ Ended

=============================================================================
