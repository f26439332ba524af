-------------------------------- MODULE Farm --------------------------------
(***************************************************************************)
(* libeth/Farm: the collection of miners.  It divides the nonces of a job  *)
(* among them, accounts their solutions, looks after their temperature and *)
(* reports one that hangs.                                                 *)
(*                                                                         *)
(* Everything runs on the io thread, except the miners' own loops and the  *)
(* stop() of PoolManager::stop, which runs on the main thread when no pool *)
(* is connected.  The handlers of the PoolManager and the API requests are *)
(* here as the calls they make of the farm.  A miner is as much of Miner   *)
(* as the farm sees: the start nonce of its work, its pause flags,         *)
(* m_initialized, m_hung_miner and what its thread is doing.               *)
(***************************************************************************)
EXTENDS Integers, Sequences, FiniteSets

CONSTANTS
    Counts,            \* numbers of subscribed devices
    WordBits,          \* width of a nonce; 64 in the code
    Nonces,            \* values of --nonce and of the API: digits and value
    ExtraNonces,       \* what a pool reserves: digits and start nonce
    Randoms,           \* start nonces drawn when nothing is reserved
    TempStart, TempStop, Temps,     \* m_Settings, and readings of the sensors
    Movers,            \* bound: the miners that get hot and whose threads are followed
    ApiMiners,         \* bound: the miners the API pauses
    Finders,           \* bound: the miners that find solutions
    MaxPosts,          \* bound on the handlers posted to the io thread
    MaxSolutions       \* bound on the solutions found

\* 2^n, in the form the proofs can unfold
Pow2[n \in Nat] == IF n = 0 THEN 1 ELSE 2 * Pow2[n - 1]

\* EthStratumClient::processExtranonce fills the digits of the pool up with zeros.
ASSUME FarmAssumption ==
    /\ Counts \subseteq Nat \ {0}
    /\ WordBits \in Nat /\ 0 < WordBits /\ WordBits < 65536
    /\ \A x \in Nonces \cup ExtraNonces : x.digits \in Nat /\ x.value \in Nat
    /\ \A x \in ExtraNonces : 0 < x.digits /\ 4 * x.digits <= WordBits =>
          x.value < Pow2[WordBits] /\ x.value % Pow2[WordBits - 4 * x.digits] = 0
    /\ Randoms \subseteq Nat
    /\ Temps \subseteq Nat /\ TempStart \in Nat /\ TempStop \in Nat /\ TempStart < TempStop
    /\ MaxPosts \in Nat /\ MaxSolutions \in Nat

VARIABLES
    devices,           \* number of subscribed devices of m_DevicesCollection
    nonce,             \* m_Settings.nonce
    mining, paused,    \* m_isMining, m_paused
    miners,            \* m_miners
    accounts,          \* m_telemetry.miners: accounts of solutions, tempC
    total,             \* m_telemetry.farm.solutions, of all kinds
    timer,             \* m_collectTimer
    io,                \* the io thread: between handlers, or inside collectData
    posts,             \* handlers posted to the io thread
    link,              \* p_client is connected
    sent,              \* miners of the solutions the pool has not answered
    found, dropped,    \* history: solutions found, and those nobody accounts
    hung,              \* a hung miner was reported
    main,              \* the main thread
    fault              \* an exception escaped, or a destroyed miner was used

lifecycle == <<mining, paused, devices>>
outside == <<posts, link, sent, found, dropped, main>>
watch == <<timer, io, hung>>
vars == <<lifecycle, nonce, miners, accounts, total, watch, outside, fault>>

NoWork == [start |-> 0, bits |-> -1, reserved |-> 0]    \* the header is h256()
Restart == 0                        \* among the posts, a restart; else the miner of a solution
Idx == 1..Len(miners)

NewMiner == [work |-> NoWork, pauses |-> {}, initialized |-> FALSE, hung |-> FALSE, gpu |-> "waits"]
NewAccount == [solutions |-> 0, tempC |-> 0]

\* Farm::Farm: the collector is started with the farm.
Init ==
    /\ devices \in Counts /\ nonce \in Nonces
    /\ mining = FALSE /\ paused = FALSE
    /\ miners = <<>> /\ accounts = <<>> /\ total = 0
    /\ timer = "armed" /\ io = "idle" /\ hung = FALSE
    /\ posts = <<>> /\ link = FALSE /\ sent = <<>> /\ found = 0 /\ dropped = 0
    /\ main = "runs"
    /\ fault = FALSE

\* The io thread takes a handler.
Ready == io = "idle" /\ ~fault /\ main # "gone"

-----------------------------------------------------------------------------
(* start, stop, pause, resume *)

\* When the farm is not mining: a miner and an account for each device.
start ==
    /\ mining' = TRUE
    /\ miners' = [i \in 1..devices |-> NewMiner]
    /\ accounts' = [i \in 1..devices |-> NewAccount]

\* Threads are joined and the miners destroyed.
stop ==
    /\ mining' = FALSE
    /\ miners' = <<>> /\ accounts' = <<>>

\* m_pauseFlags.set; the work is void
Paused(m, why) == [m EXCEPT !.pauses = @ \cup {why}, !.work = NoWork]
\* mutant: every reason is released
Resumed_All(m, why) == [m EXCEPT !.pauses = {}]
\* m_pauseFlags.reset: the other reasons stay
Resumed(m, why) == [m EXCEPT !.pauses = @ \ {why}]

\* mutant: the miners are not told
pause_FlagOnly ==
    /\ paused' = TRUE
    /\ UNCHANGED miners

pause ==
    /\ paused' = TRUE
    /\ miners' = [i \in Idx |-> Paused(miners[i], "farm")]

resume ==
    /\ paused' = FALSE
    /\ miners' = [i \in Idx |-> Resumed(miners[i], "farm")]

-----------------------------------------------------------------------------
(* setWork *)

CeilLog2(n) == CHOOSE k \in 0..n : Pow2[k] >= n /\ \A j \in 0..(k - 1) : Pow2[j] < n

\* mutant: two bits for a hexadecimal digit
SegmentBits_Half(reserved) == (WordBits - CeilLog2(Len(miners)) - 2 * reserved) % 65536
\* segmentBits is a uint16_t.
SegmentBits(reserved) == (WordBits - CeilLog2(Len(miners)) - 4 * reserved) % 65536

\* 1ULL << bits; the processor takes the count modulo the width.
One(bits) == Pow2[bits % WordBits]

\* extra is what the pool reserves in the job.  The base is advanced by one segment for
\* each miner, modulo the width of a nonce; a paused miner is given no work.  (A work keeps
\* segmentBits and the reserved digits here, for the properties.)
setWork(extra, random) ==
    LET own == nonce.digits > 0
        reserved == IF own THEN nonce.digits ELSE extra.digits
        base == IF own THEN (nonce.value * One(WordBits - 4 * nonce.digits)) % Pow2[WordBits]
                ELSE IF extra.digits > 0 THEN extra.value ELSE random
        bits == SegmentBits(reserved)
        work(i) == [start |-> (base + (i - 1) * One(bits)) % Pow2[WordBits],
                    bits |-> bits, reserved |-> reserved]
    IN miners' = [i \in Idx |->
           [miners[i] EXCEPT !.work = IF miners[i].pauses = {} THEN work(i) ELSE NoWork]]

-----------------------------------------------------------------------------
(* Solutions *)

\* Accepted, rejected or failed: the farm's counter is increased first, and
\* telemetry.miners.at() throws when the account of the miner is not there.
accountSolution(midx) ==
    /\ total' = total + 1
    /\ IF midx \in DOMAIN accounts
       THEN /\ accounts' = [accounts EXCEPT ![midx].solutions = @ + 1]
            /\ UNCHANGED fault
       ELSE fault' = TRUE /\ UNCHANGED accounts

\* mutant: no return after a wrong result
submitProofAsync_NoReturn(midx) ==
    /\ accountSolution(midx)
    /\ IF link THEN sent' = Append(sent, midx) /\ UNCHANGED dropped
       ELSE dropped' = dropped + 1 /\ UNCHANGED sent

\* The solution is evaluated again on the host: it may be wrong, and it is submitted only
\* when a pool is connected.
submitProofAsync(midx) ==
    \/ /\ accountSolution(midx)
       /\ UNCHANGED <<sent, dropped>>
    \/ /\ IF link THEN sent' = Append(sent, midx) /\ UNCHANGED dropped
          ELSE dropped' = dropped + 1 /\ UNCHANGED sent
       /\ UNCHANGED <<total, accounts, fault>>

\* A handler posted by submitProof, or by restart_async: stop() and start(), whose new
\* miners have no work until the next job.
Posted ==
    /\ Ready /\ posts # <<>>
    /\ posts' = Tail(posts)
    /\ \/ /\ Head(posts) = Restart
          /\ start
          /\ UNCHANGED <<total, sent, dropped, fault>>
       \/ /\ Head(posts) # Restart
          /\ submitProofAsync(Head(posts))
          /\ UNCHANGED <<mining, miners>>
    /\ UNCHANGED <<paused, devices, nonce, watch, link, found, main>>

\* onSolutionAccepted, onSolutionRejected
Answered ==
    /\ Ready /\ sent # <<>>
    /\ sent' = Tail(sent)
    /\ accountSolution(Head(sent))
    /\ UNCHANGED <<lifecycle, nonce, miners, watch, posts, link, found, dropped, main>>

-----------------------------------------------------------------------------
(* The handlers of the PoolManager and the API requests *)

onConnected ==
    /\ Ready /\ ~link
    /\ link' = TRUE
    /\ \/ ~mining /\ start /\ UNCHANGED paused
       \/ mining /\ paused /\ resume /\ UNCHANGED <<mining, accounts>>
       \/ mining /\ ~paused /\ UNCHANGED <<mining, paused, miners, accounts>>
    /\ UNCHANGED <<devices, nonce, total, watch, posts, sent, found, dropped, main, fault>>

\* Solutions the pool has not answered are never accounted.
onDisconnected ==
    /\ Ready /\ link
    /\ link' = FALSE
    /\ sent' = <<>> /\ dropped' = dropped + Len(sent)
    /\ IF main = "stopping" THEN stop /\ main' = "stopped" /\ UNCHANGED paused
       ELSE pause /\ UNCHANGED <<mining, accounts, main>>
    /\ UNCHANGED <<devices, nonce, total, watch, posts, found, fault>>

onWorkReceived ==
    /\ Ready /\ link /\ miners # <<>>
    /\ \E extra \in ExtraNonces, r \in Randoms : setWork(extra, r)
    /\ UNCHANGED <<lifecycle, nonce, accounts, total, watch, outside, fault>>

restart_async ==
    /\ Ready /\ Len(posts) < MaxPosts
    /\ posts' = Append(posts, Restart)
    /\ UNCHANGED <<lifecycle, nonce, miners, accounts, total, watch,
                   link, sent, found, dropped, main, fault>>

\* miner_pausegpu: a miner is paused or resumed
PauseGpu ==
    /\ Ready
    /\ \E i \in Idx \cap ApiMiners : \E m \in {Paused(miners[i], "api"), Resumed(miners[i], "api")} :
          miners' = [miners EXCEPT ![i] = m]
    /\ UNCHANGED <<lifecycle, nonce, accounts, total, watch, outside, fault>>

set_nonce ==
    /\ Ready
    /\ nonce' \in Nonces \ {nonce}
    /\ UNCHANGED <<lifecycle, miners, accounts, total, watch, outside, fault>>

-----------------------------------------------------------------------------
(* collectData *)

Watched(m) == m.pauses = {} /\ m.initialized

\* The miners are tested in turn, and marked, up to one that was not cleared since the
\* last collection.  It is reported, and collectData returns.
HungIdx == {i \in Idx : Watched(miners[i]) /\ miners[i].hung}
Marked(last) ==
    [i \in Idx |-> IF i < last /\ Watched(miners[i]) THEN [miners[i] EXCEPT !.hung = TRUE] ELSE miners[i]]

Hung ==
    /\ Ready /\ timer = "armed"
    /\ \E i \in HungIdx :
          /\ \A j \in HungIdx : i <= j
          /\ miners' = Marked(i)
    /\ hung' = TRUE /\ timer' = "off"
    /\ UNCHANGED <<lifecycle, nonce, accounts, total, io, outside, fault>>

NotHung ==
    /\ Ready /\ timer = "armed"
    /\ HungIdx = {}
    /\ miners' = Marked(Len(miners) + 1)
    /\ io' = IF miners = <<>> THEN "idle" ELSE "collects"
    /\ UNCHANGED <<lifecycle, nonce, accounts, total, timer, hung, outside, fault>>

Controlled(m, tempC) ==
    IF "hot" \notin m.pauses /\ tempC >= TempStop THEN Paused(m, "hot")
    ELSE IF "hot" \in m.pauses /\ tempC <= TempStart THEN Resumed(m, "hot")
    ELSE m

\* The miners are processed and the timer armed again.  m_miners is not locked: stop() on
\* the main thread may have destroyed them, and telemetry.miners.at() may throw.
Collect ==
    /\ io = "collects" /\ ~fault
    /\ io' = "idle"
    /\ IF miners = <<>> \/ Len(accounts) < Len(miners)
       THEN fault' = TRUE /\ UNCHANGED <<miners, accounts>>
       ELSE /\ \E t \in {r \in [Idx -> Temps] : \A i \in Idx \ Movers : r[i] = TempStart} :
                 /\ miners' = [i \in Idx |-> Controlled(miners[i], t[i])]
                 /\ accounts' = [i \in Idx |-> [accounts[i] EXCEPT !.tempC = t[i]]]
            /\ UNCHANGED fault
    /\ UNCHANGED <<lifecycle, nonce, total, timer, hung, outside>>

-----------------------------------------------------------------------------
(* The loop of a miner, as far as the farm sees it *)

Sets(i, m) == miners' = [miners EXCEPT ![i] = m]

\* No work: the mark is cleared every three seconds.
Waits(i) ==
    /\ miners[i].gpu \in {"waits", "runs"} /\ miners[i].work = NoWork
    /\ Sets(i, [miners[i] EXCEPT !.gpu = "waits", !.hung = FALSE])
    /\ UNCHANGED posts

\* A job of another epoch: initEpoch
Builds(i) ==
    /\ miners[i].gpu \in {"waits", "runs"} /\ miners[i].work # NoWork
    /\ Sets(i, [miners[i] EXCEPT !.gpu = "builds", !.initialized = FALSE])
    /\ UNCHANGED posts

Built(i) ==
    /\ miners[i].gpu = "builds"
    /\ Sets(i, [miners[i] EXCEPT !.gpu = "runs", !.initialized = TRUE])
    /\ UNCHANGED posts

\* A batch ends and the next is started; the first may have found a solution.
Passes(i) ==
    /\ \/ miners[i].gpu = "runs"
       \/ miners[i].gpu = "waits" /\ miners[i].initialized
    /\ miners[i].work # NoWork
    /\ Sets(i, [miners[i] EXCEPT !.gpu = "runs", !.hung = FALSE])
    /\ \/ UNCHANGED <<posts, found>>
       \/ /\ i \in Finders /\ Len(posts) < MaxPosts /\ found < MaxSolutions
          /\ posts' = Append(posts, i) /\ found' = found + 1

\* The device does not come back from a batch.
Hangs(i) ==
    /\ miners[i].gpu = "runs"
    /\ Sets(i, [miners[i] EXCEPT !.gpu = "hangs"])
    /\ UNCHANGED posts

MinerStep ==
    /\ ~fault /\ main # "gone"
    /\ \E i \in Idx \cap Movers :
          \/ (Waits(i) \/ Builds(i) \/ Built(i) \/ Hangs(i)) /\ UNCHANGED found
          \/ Passes(i)
    /\ UNCHANGED <<lifecycle, nonce, accounts, total, watch, link, sent, dropped, main, fault>>

-----------------------------------------------------------------------------
(* PoolManager::rotateConnect has no pool left *)

Exhausted ==
    /\ Ready /\ ~link /\ main = "runs"
    /\ stop
    /\ main' = "stopped"
    /\ UNCHANGED <<paused, devices, nonce, total, watch, posts, link, sent, found, dropped, fault>>

-----------------------------------------------------------------------------
(* The main thread: PoolManager::stop, then the end of the io thread *)

MainStops ==
    /\ main = "runs" /\ ~fault
    /\ IF link THEN main' = "stopping" /\ UNCHANGED <<mining, miners, accounts>>
       ELSE main' = "stopped" /\ stop
    /\ UNCHANGED <<paused, devices, nonce, total, watch, posts, link, sent, found, dropped, fault>>

MainEnds ==
    /\ main = "stopped" /\ ~fault
    /\ main' = "gone"
    /\ UNCHANGED <<lifecycle, nonce, miners, accounts, total, watch,
                   posts, link, sent, found, dropped, fault>>

Next ==
    \/ Posted \/ Answered
    \/ onConnected \/ onDisconnected \/ onWorkReceived
    \/ restart_async \/ PauseGpu \/ set_nonce
    \/ Hung \/ NotHung \/ Collect
    \/ MinerStep
    \/ Exhausted \/ MainStops \/ MainEnds

Spec == Init /\ [][Next]_vars

-----------------------------------------------------------------------------
(* Properties *)

Working == {i \in Idx : miners[i].work # NoWork}

\* Nonce n is in the segment of miner i.
In(n, i) == (n - miners[i].work.start) % Pow2[WordBits] < One(miners[i].work.bits)

\* The reserved digits leave room for a segment for each miner.
Fits(w) == 4 * w.reserved + CeilLog2(Len(miners)) <= WordBits

\* The digits of a nonce that --nonce or the pool reserves.
Prefix(n, w) == n \div Pow2[WordBits - 4 * w.reserved]

\* Farm::setWork: no two miners that work search the same nonce, and none leaves the range
\* of nonces that --nonce or the pool reserved.
SegmentsDisjoint ==
    \A i \in Working : Fits(miners[i].work) =>
        /\ \A j \in Working \ {i} : ~In(miners[i].work.start, j)
        /\ miners[i].work.reserved > 0 =>
             \A j \in Working :
                Prefix(miners[j].work.start + One(miners[j].work.bits) - 1, miners[j].work)
                    = Prefix(miners[i].work.start, miners[i].work)

\* Every solution found is in one place: posted, at the pool, given up with its connection,
\* or in one of the farm's accounts, which hold at least what the miners' accounts hold.
SolutionsAccountedOnce ==
    /\ found = total + dropped + Len(sent)
               + Cardinality({p \in 1..Len(posts) : posts[p] # Restart})
    /\ \A i \in DOMAIN accounts : accounts[i].solutions <= total

\* Farm::collectData, temperature control: a miner whose last reading reached tempStop is
\* paused and one at or below tempStart is not, whatever the pool, the API or a restart did
\* to its other pauses in between.
TemperatureControl ==
    \A i \in Idx \cap DOMAIN accounts :
        /\ accounts[i].tempC >= TempStop => "hot" \in miners[i].pauses
        /\ accounts[i].tempC <= TempStart => "hot" \notin miners[i].pauses

\* "Start data collector timer / It should work for the whole lifetime of Farm / regardless
\* it's mining state" (libeth/Farm.cpp:118)
CollectorLives == timer = "armed"

\* The farm is to the PoolManager what module FarmFlags says.
FarmView == INSTANCE FarmFlags WITH
    farm <- [mining |-> mining, paused |-> paused,
             minersPaused |-> miners # <<>> /\ \A i \in Idx : "farm" \in miners[i].pauses]
ImplementsFarmFlags == FarmView!Spec

=============================================================================
