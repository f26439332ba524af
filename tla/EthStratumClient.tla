-------------------------- MODULE EthStratumClient --------------------------
(***************************************************************************)
(* libpool/stratum/EthStratumClient: one connection to a stratum pool, from *)
(* name resolution through mode autodetection, login and session to the    *)
(* disconnection that makes the PoolManager build the next client.         *)
(*                                                                         *)
(* Everything runs in handlers on the one io thread.  A handler is an      *)
(* action on the head of the io queue; the network only completes pending  *)
(* operations by appending their handlers.  Cancelling an operation        *)
(* appends its handler with an error; one that is already queued stays.    *)
(***************************************************************************)
EXTENDS Integers, Sequences, FiniteSets

CONSTANTS
    Schemes,           \* [version, secure]: what the scheme of a URI asks for; AutoDetect is
                       \* any version, secure is TLS
    MaxEndpoints,      \* addresses a host name resolves to
    ResponseTimeout,   \* m_responsetimeout, in ticks of the workloop timer
    WorkTimeout,       \* m_worktimeout, in ticks of the workloop timer
    TxCapacity,        \* capacity of m_txQueue (64 in the code)
    MaxQueue,          \* bound on the io queue
    MaxPleas           \* bound on unanswered requests

AutoDetect == 999
Modes == 0..3          \* STRATUM, ETHPROXY, ETHEREUMSTRATUM, ETHEREUMSTRATUM2

ASSUME ParametersAssumption ==
    /\ Schemes \subseteq [version : Modes \cup {AutoDetect}, secure : BOOLEAN]
    /\ {MaxEndpoints, ResponseTimeout, WorkTimeout, TxCapacity, MaxQueue, MaxPleas} \subseteq Nat \ {0}

VARIABLES
    uri,               \* the URI object, which outlives the client
    cl,                \* the client object and the operations it has pending
    ioq,               \* handlers waiting for the io thread
    inbox,             \* data of the queued read handlers, a transmission each
    rx,                \* lines the running read handler has yet to process
    reading,           \* the io thread is inside onRecvSocketDataCompleted
    owner,             \* what the PoolManager has been told
    fault              \* a null pointer was followed, an exception escaped

vars == <<uri, cl, ioq, inbox, rx, reading, owner, fault>>

\* Requests: login, subscribe, authorize, submit, and note, which is not answered.
\* Lines of the pool are [line, mode], with the mode of the login that they are about: login_ok,
\* login_err, error_999, subscribe_ok, subscribe_err, authorize_ok, authorize_err, submit_ok, job,
\* setting, hangup.
Ops == {"resolve", "connect", "read", "write", "shutdown"}

NewClient == [
    conn |-> TRUE, connecting |-> FALSE, disconnecting |-> FALSE, connected |-> FALSE,
    authpending |-> FALSE, socket |-> "null", endpoints |-> 0, session |-> "none",
    pleas |-> <<>>, older |-> 0, workAge |-> 0, timer |-> FALSE, newjob |-> FALSE,
    miningSet |-> FALSE,
    txPending |-> FALSE, txCount |-> 0, txQueue |-> <<>>, ops |-> [o \in Ops |-> 0], wire |-> <<>>,
    loginMode |-> 0]

\* The PoolManager has just built the client and called connect().
Init ==
    /\ \E s \in Schemes :
         uri = [version |-> s.version, secure |-> s.secure, mode |-> AutoDetect,
                confirmed |-> FALSE, unrecoverable |-> FALSE, responds |-> FALSE]
    /\ cl = NewClient
    /\ ioq = <<"connect">>
    /\ inbox = <<>> /\ rx = <<>> /\ reading = FALSE
    /\ owner = "connecting"
    /\ fault = FALSE

-----------------------------------------------------------------------------
(* The io thread and the operations a client has pending *)

\* The io thread takes handler h.
Run(h) == ~fault /\ ~reading /\ ioq # <<>> /\ Head(ioq) = h
Rest == Tail(ioq)

isPendingState(c) == c.connecting \/ c.disconnecting
isConnected(c) == c.connected /\ ~isPendingState(c)

Start(c, op) == [c EXCEPT !.ops[op] = @ + 1]
Done(c, op) == [c EXCEPT !.ops[op] = @ - 1]

\* The handlers of the operations that cancelling or closing the socket aborts.
Aborted(c) ==
    [i \in 1..c.ops["read"] |-> "read_err"] \o [i \in 1..c.ops["write"] |-> "write_err"]
        \o [i \in 1..c.ops["connect"] |-> "connect_err"]
        \o [i \in 1..c.ops["shutdown"] |-> "shutdown"]

NoSocketOps(c) == [c EXCEPT !.ops = [o \in Ops |-> IF o = "resolve" THEN @[o] ELSE 0]]

Crash ==
    /\ fault' = TRUE
    /\ UNCHANGED <<uri, cl, ioq, inbox, rx, reading, owner>>

-----------------------------------------------------------------------------
(* Response pleas and the transmit queue *)

enqueue_response_plea(c) ==
    [c EXCEPT !.older = IF c.pleas = <<>> THEN 0 ELSE @, !.pleas = Append(@, 0)]

dequeue_response_plea(c) ==
    IF c.pleas = <<>> THEN c ELSE [c EXCEPT !.older = Head(c.pleas), !.pleas = Tail(@)]

clear_response_pleas(c) == [c EXCEPT !.pleas = <<>>, !.older = 0]

Older(age) == IF age < ResponseTimeout THEN age + 1 ELSE age

\* One interval of the workloop timer has passed.
Aged(c) ==
    [c EXCEPT !.pleas = [i \in DOMAIN @ |-> Older(@[i])],
              !.older = Older(@),
              !.workAge = IF @ > WorkTimeout THEN @ ELSE @ + 1]

\* m_txQueue: the number of its messages, and the requests among them that are to be answered.
Push(c, r) ==
    [c EXCEPT !.txCount = @ + 1, !.txQueue = IF r = "note" THEN @ ELSE Append(@, r)]
Emptied(c) == [c EXCEPT !.txCount = 0, !.txQueue = <<>>]

sendSocketData(c) ==
    IF ~isConnected(c) \/ c.txCount = 0
    THEN [Emptied(c) EXCEPT !.txPending = FALSE]
    ELSE Start([Emptied(c) EXCEPT !.wire = @ \o c.txQueue], "write")

send_WithoutWaiting(c, r) == sendSocketData(Push(c, r))
send(c, r) ==
    LET queued == IF c.txCount < TxCapacity THEN Push(c, r) ELSE c
    IN  IF c.txPending THEN queued ELSE sendSocketData([queued EXCEPT !.txPending = TRUE])

-----------------------------------------------------------------------------
(* Disconnection *)

\* The connection was lost while the stratum mode was being detected ...
Detecting_EvenConfirmed == ~uri.unrecoverable /\ uri.responds
Detecting == ~uri.unrecoverable /\ ~uri.confirmed /\ uri.responds

\* ... and there is another mode to test.
MoreModes == uri.mode > 0

\* The pleas are cleared, the timer is put to sleep, and onDisconnected (which
\* unsets m_conn) is called.
Ended_KeepsConnection(c) == [clear_response_pleas(c) EXCEPT !.timer = FALSE]
Ended(c) == [clear_response_pleas(c) EXCEPT !.timer = FALSE, !.conn = FALSE]

\* disconnect_finalize() on client c, with q the rest of the io queue: either the
\* next stratum mode is tried, or the PoolManager's onDisconnected is called.
disconnect_finalize(c, q) ==
    LET closed == [NoSocketOps(c) EXCEPT
                       !.socket = "null", !.session = "none", !.authpending = FALSE,
                       !.disconnecting = FALSE, !.txPending = FALSE,
                       !.miningSet = FALSE]
    IN  \/ ~c.conn /\ Crash
        \/ /\ c.conn /\ Detecting /\ MoreModes
           /\ uri' = [uri EXCEPT !.mode = @ - 1]
           /\ cl' = closed
           /\ ioq' = q \o Aborted(c) \o <<"start_connect">>
           /\ UNCHANGED <<inbox, rx, reading, owner, fault>>
        \/ /\ c.conn /\ ~(Detecting /\ MoreModes)
           /\ uri' = [uri EXCEPT !.unrecoverable = @ \/ Detecting]
           /\ cl' = Ended(closed)
           /\ ioq' = q \o Aborted(c) \o <<"rotateConnect">>
           /\ owner' = "down"
           /\ UNCHANGED <<inbox, rx, reading, fault>>

\* disconnect(): a TLS stream is shut down first and finalized later.
disconnect(q) ==
    \/ /\ cl.disconnecting
       /\ ioq' = q
       /\ UNCHANGED <<uri, cl, inbox, rx, reading, owner, fault>>
    \/ /\ ~cl.disconnecting
       /\ \/ cl.socket = "closed" /\ Crash      \* m_socket->cancel() throws
          \/ cl.socket = "open" /\ ~cl.conn /\ Crash
          \/ /\ cl.socket = "open" /\ cl.conn /\ uri.secure
             /\ cl' = enqueue_response_plea(
                         Start([NoSocketOps(cl) EXCEPT !.connected = FALSE,
                                                       !.disconnecting = TRUE], "shutdown"))
             /\ ioq' = q \o Aborted(cl)
             /\ UNCHANGED <<uri, inbox, rx, reading, owner, fault>>
          \/ /\ cl.socket = "open" /\ cl.conn /\ ~uri.secure
             /\ disconnect_finalize([cl EXCEPT !.connected = FALSE], q)
          \/ /\ cl.socket = "null"
             /\ disconnect_finalize([cl EXCEPT !.connected = FALSE], q)

Disconnect == Run("disconnect") /\ disconnect(Rest)

Finalize == Run("finalize") /\ disconnect_finalize(cl, Rest)

onSSLShutdownCompleted ==
    /\ Run("shutdown")
    /\ cl' = clear_response_pleas(cl)
    /\ ioq' = Rest \o <<"finalize">>
    /\ UNCHANGED <<uri, inbox, rx, reading, owner, fault>>

-----------------------------------------------------------------------------
(* Connection *)

\* connect() is only called on a new client, so its early return is never taken.
connect ==
    /\ Run("connect")
    /\ ~cl.connecting
    /\ LET armed == [cl EXCEPT !.timer = TRUE, !.authpending = FALSE,
                               !.socket = IF @ = "null" THEN "closed" ELSE @]
       IN  \/ /\ cl' = Start([armed EXCEPT !.endpoints = 0], "resolve")
              /\ ioq' = Rest                          \* a host name
           \/ /\ cl' = [armed EXCEPT !.endpoints = 1]
              /\ ioq' = Rest \o <<"start_connect">>  \* an IP address
    /\ UNCHANGED <<uri, inbox, rx, reading, owner, fault>>

resolve_handler ==
    \/ /\ Run("resolve_ok")
       /\ \E n \in 1..MaxEndpoints : cl' = [cl EXCEPT !.endpoints = n]
       /\ ioq' = Rest \o <<"start_connect">>
       /\ UNCHANGED <<uri, inbox, rx, reading, owner, fault>>
    \/ /\ Run("resolve_err")
       /\ disconnect_finalize([cl EXCEPT !.connecting = FALSE], Rest)

HasEndpoint == cl.endpoints > 0

\* A socket starts connecting, and the attempt is timed.
Attempt(c) ==
    enqueue_response_plea(clear_response_pleas(
        Start([c EXCEPT !.connecting = TRUE, !.socket = "open"], "connect")))

start_connect ==
    /\ Run("start_connect")
    /\ \/ /\ cl.connecting
          /\ ioq' = Rest
          /\ UNCHANGED <<uri, cl, inbox, rx, reading, owner, fault>>
       \/ /\ ~cl.connecting /\ HasEndpoint
          /\ cl' = Attempt(cl)
          /\ ioq' = Rest
          /\ UNCHANGED <<uri, inbox, rx, reading, owner, fault>>
       \/ /\ ~cl.connecting /\ ~HasEndpoint
          /\ disconnect_finalize(cl, Rest)

\* The connection failed, or the timer closed the socket before it was made.
connectFailed ==
    /\ \/ Run("connect_err")
       \/ Run("connect_ok") /\ cl.socket # "open"
    /\ \/ (cl.socket = "null" \/ cl.endpoints = 0) /\ Crash
       \/ /\ cl.socket # "null" /\ cl.endpoints > 0
          /\ cl' = [NoSocketOps(cl) EXCEPT !.connecting = FALSE, !.socket = "closed",
                                           !.endpoints = @ - 1]
          /\ ioq' = Rest \o Aborted(cl) \o <<"start_connect">>
          /\ UNCHANGED <<uri, inbox, rx, reading, owner, fault>>

\* The stratum mode of the login that is about to be sent.
LoginMode ==
    IF uri.version # AutoDetect THEN uri.version
    ELSE IF ~uri.confirmed /\ uri.mode = AutoDetect THEN 3 ELSE uri.mode

connected ==
    /\ Run("connect_ok")
    /\ cl.socket = "open"
    /\ LET up == [Emptied(cl) EXCEPT !.connecting = FALSE, !.connected = TRUE, !.wire = <<>>]
       IN  \/ ~cl.conn /\ Crash
           \/ /\ cl.conn /\ uri.secure               \* the TLS handshake fails
              /\ uri' = [uri EXCEPT !.responds = TRUE, !.unrecoverable = TRUE]
              /\ cl' = up
              /\ ioq' = Rest \o <<"disconnect">>
              /\ UNCHANGED <<inbox, rx, reading, owner, fault>>
           \/ /\ cl.conn
              /\ uri' = [uri EXCEPT !.responds = TRUE, !.mode = LoginMode,
                                    !.confirmed = @ \/ uri.version # AutoDetect]
              /\ cl' = send(enqueue_response_plea(Start(
                          [clear_response_pleas(up) EXCEPT !.loginMode = LoginMode],
                          "read")), "login")
              /\ ioq' = Rest
              /\ UNCHANGED <<inbox, rx, reading, owner, fault>>

-----------------------------------------------------------------------------
(* The workloop timer *)

\* Ways a tick ends the connection attempt, the shutdown, the tentative login or
\* the session; only the last one re-arms the timer.
Pending(c) == c.pleas # <<>> /\ isPendingState(c) /\ ResponseTimeout >= c.older
TooLong(c) == c.pleas # <<>> /\ isConnected(c) /\ c.older >= ResponseTimeout
TooIdle(c) ==
    /\ c.pleas # <<>> /\ isConnected(c) /\ c.older < ResponseTimeout
    /\ c.session # "none" /\ c.workAge > WorkTimeout
Tentative == ~uri.confirmed /\ ~uri.unrecoverable

\* A mining.noop is due in an EthereumStratum/2.0.0 session.
KeptAlive(c) == IF uri.mode = 3 /\ c.session # "none" THEN {send(c, "note")} ELSE {}

Rearmed_Never(c) == c
Rearmed(c) == [c EXCEPT !.timer = TRUE]

workloop_timer_elapsed ==
    /\ Run("tick")
    /\ \/ /\ ~cl.conn
          /\ ioq' = Rest
          /\ UNCHANGED <<cl, fault>>
       \/ /\ cl.conn
          /\ \E c \in {Aged(cl)} \cup KeptAlive(Aged(cl)) :
             LET close == [NoSocketOps(c) EXCEPT !.socket = "closed"]
                 closing == c.connecting \/ (c.disconnecting /\ uri.secure /\ c.socket = "open")
             IN  \/ /\ Pending(c) /\ c.connecting /\ c.socket = "null"
                    /\ fault' = TRUE
                    /\ UNCHANGED <<cl, ioq>>
                 \/ /\ Pending(c) /\ closing /\ c.socket # "null"
                    /\ cl' = close
                    /\ ioq' = Rest \o Aborted(c)
                    /\ UNCHANGED fault
                 \/ /\ TooLong(c) /\ Tentative
                    /\ cl' = clear_response_pleas(c)
                    /\ ioq' = Rest \o <<"login_timeout">>
                    /\ UNCHANGED fault
                 \/ /\ (TooLong(c) /\ ~Tentative) \/ TooIdle(c)
                    /\ c.endpoints > 0               \* EndpointsToPop
                    /\ cl' = clear_response_pleas([Rearmed(c) EXCEPT !.endpoints = @ - 1])
                    /\ ioq' = Rest \o <<"disconnect">>
                    /\ UNCHANGED fault
                 \/ /\ ~(Pending(c) /\ closing) /\ ~TooLong(c) /\ ~TooIdle(c)
                    /\ cl' = Rearmed(c)
                    /\ ioq' = Rest
                    /\ UNCHANGED fault
    /\ UNCHANGED <<uri, inbox, rx, reading, owner>>

-----------------------------------------------------------------------------
(* Receiving: the read handler takes a transmission and processes its lines *)

onRecvSocketDataCompleted ==
    /\ Run("read")
    /\ reading' = TRUE
    /\ rx' = Head(inbox)
    /\ inbox' = Tail(inbox)
    /\ cl' = [cl EXCEPT !.newjob = FALSE]
    /\ ioq' = Rest
    /\ UNCHANGED <<uri, owner, fault>>

\* The last line is done: a new job is dispatched and reading goes on.
endOfTransmission ==
    /\ ~fault /\ reading /\ rx = <<>>
    /\ reading' = FALSE
    /\ cl' = IF isConnected(cl) THEN Start(cl, "read") ELSE cl
    /\ UNCHANGED <<uri, ioq, inbox, rx, owner, fault>>

onRecvError ==
    /\ Run("read_err")
    /\ \/ /\ isConnected(cl)
          /\ uri' = [uri EXCEPT !.unrecoverable = @ \/ cl.authpending]
          /\ ioq' = Rest \o <<"disconnect">>
       \/ /\ ~isConnected(cl)
          /\ ioq' = Rest
          /\ UNCHANGED uri
    /\ UNCHANGED <<cl, inbox, rx, reading, owner, fault>>

\* processResponse() of the next line, when it is one of these.
TakeLine(lines) ==
    /\ ~fault /\ reading /\ rx # <<>> /\ Head(rx).line \in lines
    /\ rx' = Tail(rx)
    /\ UNCHANGED <<inbox, reading>>

\* All lines but the ones below make processResponse follow m_conn.
processOrphan ==
    /\ ~fault /\ reading /\ rx # <<>> /\ ~cl.conn
    /\ Head(rx).line # "hangup"
    /\ Crash

\* An invalid message, mining.bye: the pool is left.
processHangup ==
    /\ TakeLine({"hangup"})
    /\ ioq' = ioq \o <<"disconnect">>
    /\ UNCHANGED <<uri, cl, owner, fault>>

\* A login that the pool refused, or answered in another dialect.
loginRefused(c) ==
    /\ cl' = c
    /\ uri' = [uri EXCEPT !.unrecoverable = @ \/ uri.confirmed]
    /\ UNCHANGED <<owner, fault>>

\* startSession() and the request that follows the login in each mode.
loginAccepted(c) ==
    /\ uri' = [uri EXCEPT !.confirmed = TRUE]
    /\ owner' = "up"
    /\ LET started(session) == [c EXCEPT !.session = session, !.workAge = 0]
       IN  \/ /\ uri.mode = 3
              /\ cl' = send(enqueue_response_plea(started("open")), "subscribe")
           \/ /\ uri.mode = 2
              /\ cl' = send(enqueue_response_plea(
                          [send(started("subscribed"), "note") EXCEPT !.authpending = TRUE]),
                          "authorize")
           \/ /\ uri.mode = 0
              /\ cl' = send(enqueue_response_plea(
                          [started("subscribed") EXCEPT !.authpending = TRUE]), "authorize")
           \/ /\ uri.mode = 1
              /\ cl' = send(started("authorized"), "note")
    /\ UNCHANGED fault

\* Modes 0 and 1 take any answer without an error for a good one.
processLogin ==
    LET good == /\ Head(rx).line = "login_ok"
                /\ uri.mode \in {0, 1, Head(rx).mode}
    IN  /\ cl.conn
        /\ TakeLine({"login_ok", "login_err"})
        /\ \/ good /\ loginAccepted(dequeue_response_plea(cl)) /\ UNCHANGED ioq
           \/ ~good /\ loginRefused(dequeue_response_plea(cl)) /\ ioq' = ioq \o <<"disconnect">>

\* The error the timer sends itself when a tentative login is not answered.
loginTimeout ==
    /\ Run("login_timeout")
    /\ \/ ~cl.conn /\ Crash
       \/ /\ cl.conn
          /\ loginRefused(dequeue_response_plea(cl))
          /\ ioq' = Rest \o <<"disconnect">>
          /\ UNCHANGED <<inbox, rx, reading>>

processError999 ==
    /\ cl.conn
    /\ TakeLine({"error_999"})
    /\ ioq' = IF uri.confirmed /\ cl.session = "authorized" THEN ioq ELSE ioq \o <<"disconnect">>
    /\ UNCHANGED <<uri, cl, owner, fault>>

\* The answer to mining.subscribe; only EthereumStratum/2.0.0 asks for it.
processSubscribe ==
    /\ cl.conn
    /\ \/ /\ TakeLine({"subscribe_err"})
          /\ cl' = dequeue_response_plea(cl)
          /\ uri' = [uri EXCEPT !.unrecoverable = TRUE]
          /\ ioq' = ioq \o <<"disconnect">>
          /\ UNCHANGED <<owner, fault>>
       \/ /\ TakeLine({"subscribe_ok"})
          /\ cl' = send(enqueue_response_plea(
                      [dequeue_response_plea(cl) EXCEPT !.session = "subscribed",
                                                        !.authpending = TRUE]), "authorize")
          /\ UNCHANGED <<uri, ioq, owner, fault>>

processAuthorize ==
    /\ cl.conn
    /\ \/ /\ TakeLine({"authorize_ok"})
          /\ cl' = [dequeue_response_plea(cl) EXCEPT !.authpending = FALSE,
                                                     !.session = "authorized"]
          /\ UNCHANGED <<uri, ioq>>
       \/ /\ TakeLine({"authorize_err"})
          /\ cl' = [dequeue_response_plea(cl) EXCEPT !.authpending = @ /\ uri.mode = 3]
          /\ uri' = [uri EXCEPT !.unrecoverable = TRUE]
          /\ ioq' = ioq \o <<"disconnect">>
    /\ UNCHANGED <<owner, fault>>

processSubmitted ==
    /\ cl.conn
    /\ TakeLine({"submit_ok"})
    /\ cl' = dequeue_response_plea(cl)
    /\ UNCHANGED <<uri, ioq, owner, fault>>

\* mining.notify is taken in a subscribed session and once per transmission, but in
\* EthereumStratum/2.0.0 whenever a mining.set has been received.
JobTaken ==
    /\ uri.confirmed
    /\ IF uri.mode = 3 THEN cl.miningSet
       ELSE cl.session \in {"subscribed", "authorized"} /\ ~cl.newjob

processNotify ==
    /\ cl.conn
    /\ TakeLine({"job"})
    /\ cl' = IF JobTaken THEN [cl EXCEPT !.newjob = TRUE, !.workAge = 0]
             ELSE cl
    /\ UNCHANGED <<uri, ioq, owner, fault>>

\* mining.set (EthereumStratum/2.0.0), mining.set_target and the like write into the
\* session.
processSetting ==
    /\ cl.conn /\ (uri.confirmed => cl.session # "none")
    /\ TakeLine({"setting"})
    /\ cl' = [cl EXCEPT !.miningSet = @ \/ (uri.confirmed /\ uri.mode = 3)]
    /\ UNCHANGED <<uri, ioq, owner, fault>>

\* A notification before the login is answered: an explicit scheme is confirmed from
\* the start, but there is no session to write into yet.
processWithoutSession ==
    /\ ~fault /\ reading /\ rx # <<>> /\ cl.conn /\ cl.session = "none"
    /\ Head(rx).line = "setting" /\ uri.confirmed
    /\ Crash

-----------------------------------------------------------------------------
(* Sending *)

onSendSocketDataCompleted ==
    /\ \/ /\ Run("write_ok")
          /\ cl' = IF cl.txCount = 0 THEN [cl EXCEPT !.txPending = FALSE]
                   ELSE sendSocketData(cl)
          /\ ioq' = Rest
       \/ /\ Run("write_err")
          /\ cl' = [Emptied(cl) EXCEPT !.txPending = FALSE]
          /\ \E tls \in {<<>>} \cup (IF uri.secure THEN {<<"disconnect">>} ELSE {}) :
             ioq' = Rest \o tls \o (IF isConnected(cl) THEN <<"disconnect">> ELSE <<>>)
    /\ UNCHANGED <<uri, inbox, rx, reading, owner, fault>>

submitSolution_NoPlea ==
    /\ ~fault /\ ~reading /\ cl.conn
    /\ isConnected(cl) /\ cl.session = "authorized"
    /\ Len(cl.pleas) < MaxPleas
    /\ cl' = send(cl, "submit")
    /\ UNCHANGED <<uri, ioq, inbox, rx, reading, owner, fault>>

\* PoolManager's onSolutionFound hands a solution to a connected client.
submitSolution ==
    /\ ~fault /\ ~reading /\ cl.conn
    /\ isConnected(cl) /\ cl.session = "authorized"
    /\ Len(cl.pleas) < MaxPleas
    /\ cl' = send(enqueue_response_plea(cl), "submit")
    /\ UNCHANGED <<uri, ioq, inbox, rx, reading, owner, fault>>

\* PoolManager's hashrate timer, which runs from onConnected to onDisconnected.
submitHashrate ==
    /\ ~fault /\ ~reading /\ owner = "up"
    /\ isConnected(cl)
    /\ cl' = send(cl, "note")
    /\ UNCHANGED <<uri, ioq, inbox, rx, reading, owner, fault>>

-----------------------------------------------------------------------------
(* The owner *)

\* PoolManager::rotateConnect: an unrecoverable URI is erased, otherwise the client is
\* replaced.  Handlers of the old client that are still queued would run on
\* freed memory.
rotateConnect ==
    /\ Run("rotateConnect")
    /\ \/ Rest # <<>> /\ Crash
       \/ /\ Rest = <<>> /\ uri.unrecoverable
          /\ owner' = "gone"
          /\ ioq' = <<>>
          /\ UNCHANGED <<uri, cl, inbox, rx, reading, fault>>
       \/ /\ Rest = <<>> /\ ~uri.unrecoverable
          /\ owner' = "connecting"
          /\ uri' = [uri EXCEPT !.responds = FALSE]
          /\ cl' = NewClient
          /\ ioq' = <<"connect">>
          /\ UNCHANGED <<inbox, rx, reading, fault>>

\* A switch of the active connection, or the return to the primary pool.
ownerDisconnects ==
    /\ ~fault /\ ~reading /\ owner = "up"
    /\ disconnect(ioq)

-----------------------------------------------------------------------------
(* The network completes pending operations. *)

Complete(op, handlers) ==
    /\ ~fault /\ cl.ops[op] > 0 /\ Len(ioq) < MaxQueue
    /\ cl' = Done(cl, op)
    /\ \E h \in handlers : ioq' = Append(ioq, h)
    /\ UNCHANGED <<uri, inbox, rx, reading, owner, fault>>

resolverAnswers == Complete("resolve", {"resolve_ok", "resolve_err"})
peerConnects == Complete("connect", {"connect_ok", "connect_err"})
peerCloses == Complete("read", {"read_err"})
peerTakes == Complete("write", {"write_ok", "write_err"})
peerShutsDown == Complete("shutdown", {"shutdown"})

Answers(r) ==
    CASE r = "login"     -> {"login_ok", "login_err", "error_999"}
      [] r = "subscribe" -> {"subscribe_ok", "subscribe_err"}
      [] r = "authorize" -> {"authorize_ok", "authorize_err", "error_999"}
      [] r = "submit"    -> {"submit_ok"}
Without(s, i) == SubSeq(s, 1, i - 1) \o SubSeq(s, i + 1, Len(s))
Unsolicited == {"job", "setting", "hangup"}

\* What a pool may put into one transmission: an answer or a notification, and
\* perhaps another notification behind it.
poolSends ==
    /\ ~fault /\ cl.ops["read"] > 0 /\ Len(ioq) < MaxQueue
    /\ \E i \in 0..Len(cl.wire) :
       \E first \in IF i = 0 THEN Unsolicited ELSE Answers(cl.wire[i]) :
       \E second \in {<<>>} \cup {<<[line |-> u, mode |-> 0]>> : u \in {"job", "hangup"}} :
          /\ inbox' = Append(inbox,
                 <<[line |-> first, mode |-> IF first = "login_ok" THEN cl.loginMode ELSE 0]>>
                     \o second)
          /\ cl' = Done([cl EXCEPT !.wire = IF i = 0 THEN @ ELSE Without(@, i)], "read")
    /\ ioq' = Append(ioq, "read")
    /\ UNCHANGED <<uri, rx, reading, owner, fault>>

timerFires ==
    /\ ~fault /\ cl.timer /\ Len(ioq) < MaxQueue
    /\ cl' = [cl EXCEPT !.timer = FALSE]
    /\ ioq' = Append(ioq, "tick")
    /\ UNCHANGED <<uri, inbox, rx, reading, owner, fault>>

-----------------------------------------------------------------------------

IoThread ==
    \/ connect \/ resolve_handler \/ start_connect \/ connectFailed \/ connected
    \/ workloop_timer_elapsed
    \/ onRecvSocketDataCompleted \/ endOfTransmission \/ onRecvError
    \/ processOrphan \/ processHangup \/ processLogin \/ loginTimeout \/ processError999
    \/ processSubscribe \/ processAuthorize \/ processSubmitted \/ processNotify
    \/ processSetting \/ processWithoutSession
    \/ onSendSocketDataCompleted
    \/ Disconnect \/ Finalize \/ onSSLShutdownCompleted
    \/ rotateConnect

Network ==
    \/ resolverAnswers \/ peerConnects \/ peerCloses \/ peerTakes \/ peerShutsDown
    \/ poolSends \/ timerFires

Next == IoThread \/ Network \/ submitSolution \/ submitHashrate \/ ownerDisconnects

Spec == Init /\ [][Next]_vars

\* The io thread runs, the timer expires, the resolver answers or gives up, and a
\* write is taken by the TCP stack or fails.  Nothing is assumed of the pool.
Fairness ==
    /\ WF_vars(IoThread)
    /\ WF_vars(timerFires)
    /\ WF_vars(resolverAnswers)
    /\ WF_vars(peerTakes)

FairSpec == Spec /\ Fairness

-----------------------------------------------------------------------------
(* Properties *)

Queued(handlers) == Cardinality({i \in DOMAIN ioq : ioq[i] \in handlers})

\* "Run in sync so no 2 different async reads may overlap": one read at most is pending, completed
\* and queued, or being handled, across reconnections too; and m_sendBuffer is written to the
\* socket by one async_write at a time, although disconnect_finalize clears m_txPending with a
\* write still to complete.
IoDoesNotOverlap ==
    /\ cl.ops["read"] + Queued({"read", "read_err"}) + (IF reading THEN 1 ELSE 0) <= 1
    /\ cl.ops["write"] + Queued({"write_ok", "write_err"}) <= 1

\* onDisconnected is called once per client and leaves exactly one rotateConnect.
OneRotationPerClient ==
    ~fault => Queued({"rotateConnect"}) = IF owner = "down" THEN 1 ELSE 0

\* Whatever the pool still owes an answer to is being timed, unless the
\* connection is about to be dropped anyway.
AnswersAreTimed ==
    isConnected(cl) /\ cl.wire # <<>> =>
        cl.pleas # <<>> \/ Queued({"disconnect", "login_timeout"}) > 0

\* "As there may be a connection issue we also endorse a timeout": with an explicit scheme over
\* plain TCP, a connection attempt, a disconnection and a login come to an end even if the pool
\* stays silent.
SilenceEnds ==
    (uri.version # AutoDetect /\ ~uri.secure /\ (isPendingState(cl) \/ (isConnected(cl) /\ cl.session = "none")))
    ~> \/ fault
       \/ ~isPendingState(cl) /\ (~isConnected(cl) \/ cl.session # "none")

-----------------------------------------------------------------------------
(* A client of a URI with an explicit scheme is the client that the          *)
(* PoolManager expects.  (While modes are being detected, a late answer can  *)
(* start a session on a closed connection.)                                  *)

clientPhase ==
    IF uri.version = AutoDetect THEN "trying"
    ELSE IF owner \in {"down", "gone"} THEN owner
    ELSE IF cl.disconnecting THEN "closing"
    ELSE IF ~isConnected(cl) THEN "trying"
    ELSE IF owner = "up" THEN "up" ELSE "linked"

Client == INSTANCE PoolClient WITH phase <- clientPhase

\* The order of callbacks that the PoolManager relies on.
ImplementsPoolClient == Client!Spec

=============================================================================
