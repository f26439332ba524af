-------------------------- MODULE EthGetworkClient --------------------------
(***************************************************************************)
(* libpool/getwork/EthGetworkClient: a pool client that polls a node over  *)
(* HTTP.  Every request is sent on a connection of its own, one at a time: *)
(* m_txPending is set while one is under way and the others wait in        *)
(* m_txQueue.  The answer to a getwork request arms m_getwork_timer, whose *)
(* handler sends the next one: that chain is all that keeps the client     *)
(* polling.                                                                *)
(*                                                                         *)
(* gw is the client's state, and an operator on it one of its methods.     *)
(* Operations pending in the io service complete into the queue of its     *)
(* thread, which runs the handlers in order; the rotateConnect that        *)
(* onDisconnected posts is among them, and destroys the client.  Until it  *)
(* runs, the client has no m_conn: onDisconnected has unset it.            *)
(***************************************************************************)
EXTENDS Integers, Sequences

CONSTANTS
    MaxEndpoints,      \* bound on the addresses a host resolves to
    Headers,           \* headers of jobs
    TxCapacity,        \* what m_txQueue holds
    MaxQueue           \* bound on the handlers queued in the io thread

ASSUME ClientsAssumption == MaxEndpoints \in Nat /\ TxCapacity \in Nat

VARIABLES
    gw,                \* the client
    gwQueue,           \* handlers in the queue of the io thread
    gwFault            \* a client, an m_conn or an endpoint that is gone was used

gwVars == <<gw, gwQueue, gwFault>>

Requests == {"getwork", "submit", "hashrate"}
None == "none"

\* What a reply holds: a job, an error of the node, a body that is no answer to the request,
\* or nothing that is an HTTP reply of status 200.
Replies == Headers \cup {"error", "malformed", "invalid"}

SocketOps == {"connect", "write", "read"}

\* A handler: the operation it completes, how ("ok", "failed" or a reply), and whether the
\* client it is bound to exists.
Handler(op, how) == [op |-> op, how |-> how, own |-> TRUE]

NewGetwork == [
    phase |-> "trying",          \* what the PoolManager has been told
    connecting |-> FALSE, connected |-> FALSE,
    endpoints |-> 0, txPending |-> FALSE, txQueue |-> <<>>,
    pending |-> None,            \* m_pendingJReq
    ops |-> [op \in SocketOps \cup {"resolve"} |-> 0],   \* operations pending in the io service
    timer |-> FALSE,             \* m_getwork_timer is armed
    header |-> None,             \* m_current.header
    old |-> FALSE,               \* m_current_tstamp is older than m_worktimeout
    posts |-> 0,                 \* rotations posted by the handler that is running
    broken |-> FALSE]            \* history: a request or an answer of the chain was lost

-----------------------------------------------------------------------------
(* Methods *)

Begin(c, op) == [c EXCEPT !.ops[op] = @ + 1]

\* Operations under way, and a timer handler that is queued, are left to complete.
disconnect(c) ==
    [c EXCEPT !.phase = "down", !.connecting = FALSE, !.connected = FALSE,
              !.txPending = FALSE, !.timer = FALSE, !.txQueue = <<>>, !.posts = @ + 1]

begin_connect(c) == IF c.endpoints > 0 THEN Begin(c, "connect") ELSE disconnect(c)

\* bounded_push drops the request when the queue is full.
send(c, r) ==
    LET full == Len(c.txQueue) >= TxCapacity
        queued == [c EXCEPT !.txQueue = IF full THEN @ ELSE Append(@, r),
                            !.broken = @ \/ (full /\ r = "getwork")]
    IN IF c.txPending THEN queued ELSE begin_connect([queued EXCEPT !.txPending = TRUE])

\* The host is a name to resolve, or an address.
connect(c) ==
    {Begin([c EXCEPT !.connecting = TRUE], "resolve"),
     send([c EXCEPT !.connecting = TRUE, !.endpoints = 1], "getwork")}

-----------------------------------------------------------------------------
(* Handlers, run by the io thread *)

Runs(op) == ~gwFault /\ gwQueue # <<>> /\ Head(gwQueue).op = op /\ Head(gwQueue).own

Faults == gwFault' = TRUE /\ UNCHANGED <<gw, gwQueue>>

\* The handler leaves the client as c.
Leaves(c) ==
    /\ gw' = [c EXCEPT !.posts = 0]
    /\ gwQueue' = Tail(gwQueue) \o [i \in 1..c.posts |-> Handler("rotate", "ok")]
    /\ UNCHANGED gwFault

\* The handler uses m_conn, then leaves the client as c.
UsesConn(c) == IF gw.phase = "down" THEN Faults ELSE Leaves(c)

\* An endpoint that does not do is popped, and the next one tried.
NextEndpoint(c) ==
    IF gw.endpoints = 0 THEN Faults
    ELSE UsesConn(begin_connect([c EXCEPT !.endpoints = @ - 1]))

handle_resolve ==
    /\ Runs("resolve")
    /\ IF Head(gwQueue).how = "ok"
       THEN \E n \in 1..MaxEndpoints : Leaves(send([gw EXCEPT !.endpoints = @ + n], "getwork"))
       ELSE UsesConn(disconnect(gw))

\* mutant: m_connecting is not tested
Opened_Always(c) ==
    [c EXCEPT !.phase = "up", !.connecting = FALSE, !.connected = TRUE, !.old = FALSE]

\* On the first connection the PoolManager is told.
Opened(c) ==
    IF c.connecting
    THEN [c EXCEPT !.phase = "up", !.connecting = FALSE, !.connected = TRUE, !.old = FALSE]
    ELSE c

\* The first request of the queue is written.
Written(c) ==
    Begin([c EXCEPT !.pending = Head(c.txQueue), !.txQueue = Tail(@)], "write")

handle_connect ==
    /\ Runs("connect")
    /\ IF Head(gwQueue).how # "ok" THEN NextEndpoint(gw)
       ELSE IF gw.txQueue = <<>> THEN Leaves([Opened(gw) EXCEPT !.txPending = FALSE])
       ELSE UsesConn(Written(Opened(gw)))

\* A request that could not be written is lost.
handle_write ==
    /\ Runs("write")
    /\ IF Head(gwQueue).how = "ok" THEN Leaves(Begin(gw, "read"))
       ELSE NextEndpoint([gw EXCEPT !.broken = @ \/ gw.pending = "getwork"])

\* mutant: the timer is armed only for a new job
Worked_IfNew(c, header) ==
    IF header = c.header THEN c
    ELSE [c EXCEPT !.header = header, !.old = FALSE, !.timer = TRUE]

\* A job is passed on if it is new, and the next request is timed.
Worked(c, header) ==
    IF header = c.header THEN [c EXCEPT !.timer = TRUE]
    ELSE [c EXCEPT !.header = header, !.old = FALSE, !.timer = TRUE]

\* The reply is taken for the answer to m_pendingJReq; one to a submission is only accounted.
processResponse(c, how) ==
    IF c.pending # "getwork" THEN c
    ELSE IF how \in Headers THEN Worked(c, how)
    ELSE IF how = "error" THEN [c EXCEPT !.timer = TRUE]
    ELSE [c EXCEPT !.broken = TRUE]

\* mutant: m_txPending stays set after the last request
Continue_Stuck(c) == IF c.txQueue # <<>> THEN begin_connect(c) ELSE c

Continue(c) ==
    IF c.txQueue # <<>> THEN begin_connect(c) ELSE [c EXCEPT !.txPending = FALSE]

\* m_conn is named in every warning, and by begin_connect when there is no endpoint.
handle_read ==
    /\ Runs("read")
    /\ LET how == Head(gwQueue).how
           c == Continue(processResponse(gw, how))
       IN IF how \in {"failed", "invalid"} THEN UsesConn(disconnect(gw))
          ELSE IF how \in Headers /\ c.posts = 0 THEN Leaves(c)
          ELSE UsesConn(c)

getwork_timer_elapsed ==
    /\ Runs("timer")
    /\ LET c == send(gw, "getwork")
       IN IF gw.old THEN IF gw.endpoints = 0 THEN Faults
                         ELSE Leaves(disconnect([gw EXCEPT !.endpoints = @ - 1]))
          ELSE IF c.posts = 0 THEN Leaves(c) ELSE UsesConn(c)

\* PoolManager::rotateConnect does nothing when the client is connected.  Else it destroys the
\* client: the handlers of aborted operations do nothing, but those already queued with another
\* result are bound to a client that is gone.  A new client connects, or no pool is left.
rotateConnect ==
    /\ Runs("rotate") /\ gw.phase # "gone" /\ UNCHANGED gwFault
    /\ IF gw.connected THEN gw' = gw /\ gwQueue' = Tail(gwQueue)
       ELSE /\ gw' \in connect(NewGetwork) \cup {[NewGetwork EXCEPT !.phase = "gone"]}
            /\ gwQueue' = [i \in 1..(Len(gwQueue) - 1) |->
                             [gwQueue[i + 1] EXCEPT !.own = gwQueue[i + 1].op = "rotate"]]

\* A handler of a destroyed client, or a rotation when connections is empty, whose at() throws.
Dangling ==
    /\ ~gwFault /\ gwQueue # <<>>
    /\ ~Head(gwQueue).own \/ gw.phase = "gone"
    /\ Faults

-----------------------------------------------------------------------------
(* The io service, time, and the PoolManager *)

\* An operation completes.  Any reply may complete a read: a failed write leaves its bytes in
\* m_request, so that the node may answer an earlier request than the pending one.
Completes(op) ==
    /\ gw.ops[op] > 0 /\ Len(gwQueue) < MaxQueue
    /\ gw' = [gw EXCEPT !.ops[op] = @ - 1]
    /\ \E how \in {"failed"} \cup (IF op = "read" THEN Replies ELSE {"ok"}) :
          gwQueue' = Append(gwQueue, Handler(op, how))
    /\ UNCHANGED gwFault

Elapses ==
    /\ gw.timer /\ Len(gwQueue) < MaxQueue
    /\ gw' = [gw EXCEPT !.timer = FALSE]
    /\ gwQueue' = Append(gwQueue, Handler("timer", "ok"))
    /\ UNCHANGED gwFault

\* m_worktimeout seconds pass without a new job.
Ages ==
    /\ gw.phase = "up" /\ ~gw.old
    /\ gw' = [gw EXCEPT !.old = TRUE]
    /\ UNCHANGED <<gwQueue, gwFault>>

\* submitHashrate and submitSolution, which do nothing without a session; the model lets one
\* request of each kind wait.
submit ==
    /\ ~gwFault /\ gw.connected
    /\ \E r \in Requests \ {"getwork"} :
          /\ \A i \in DOMAIN gw.txQueue : gw.txQueue[i] # r
          /\ LET c == send(gw, r)
             IN /\ gw' = [c EXCEPT !.posts = 0]
                /\ gwQueue' = gwQueue \o [i \in 1..c.posts |-> Handler("rotate", "ok")]
    /\ UNCHANGED gwFault

\* The PoolManager ends a connection: the failover timer, a change of the active pool.
Ended ==
    /\ ~gwFault /\ gw.connected /\ Len(gwQueue) < MaxQueue
    /\ gw' = [disconnect(gw) EXCEPT !.posts = 0]
    /\ gwQueue' = Append(gwQueue, Handler("rotate", "ok"))
    /\ UNCHANGED gwFault

GetworkInit ==
    /\ gw \in connect(NewGetwork)
    /\ gwQueue = <<>> /\ gwFault = FALSE

IoThread ==
    \/ handle_resolve \/ handle_connect \/ handle_write \/ handle_read
    \/ getwork_timer_elapsed \/ rotateConnect \/ Dangling

GetworkNext ==
    \/ IoThread
    \/ Elapses \/ Ages \/ submit \/ Ended
    \/ \E op \in DOMAIN gw.ops : Completes(op)

\* The io thread runs, timers elapse, the operating system ends every connect and write; a node
\* that has taken a request need not answer it: the client does not time its reads.
GetworkFairness ==
    /\ WF_gwVars(IoThread) /\ WF_gwVars(Elapses)
    /\ \A op \in {"resolve", "connect", "write"} : WF_gwVars(Completes(op))

-----------------------------------------------------------------------------
(* Properties *)

Queued(op) == {i \in DOMAIN gwQueue : gwQueue[i].op = op /\ gwQueue[i].own}

Busy(op) == gw.ops[op] > 0 \/ Queued(op) # {}

\* While the client is up, m_txPending says exactly whether a request is under way, and
\* there is one at most: no operation shares the socket with another, and the client never
\* waits for the end of a request that has ended (send, handle_connect, handle_read).
OneRequestAtATime ==
    gw.phase = "up" =>
        /\ gw.txPending <=> \E op \in SocketOps : Busy(op)
        /\ \A op, op2 \in SocketOps : Busy(op) /\ Busy(op2) => op = op2
        /\ \A op \in SocketOps : gw.ops[op] <= 1

\* While the client is up and no request or answer was lost, it is polling: a getwork request
\* waits, is under way or is timed.
PollPending ==
    gw.phase = "up" /\ ~gw.broken =>
        \/ gw.timer \/ Queued("timer") # {}
        \/ \E i \in DOMAIN gw.txQueue : gw.txQueue[i] = "getwork"
        \/ gw.pending = "getwork" /\ (Busy("write") \/ Busy("read"))

=============================================================================
