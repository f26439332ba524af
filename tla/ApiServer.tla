----------------------------- MODULE ApiServer -----------------------------
(***************************************************************************)
(* libapi/ApiServer.cpp: the server of the API and its sessions.           *)
(*                                                                         *)
(* Handlers run on the thread of g_io_service, one at a time.  start and   *)
(* stop run on the main thread, and the first begin_accept on a thread of  *)
(* its own.  A session belongs to m_sessions alone, and its handlers hold  *)
(* a plain pointer to it: one that completes after the session has gone    *)
(* is undefined, and the process may end there (dead).                     *)
(*                                                                         *)
(* What a client sends is a sequence of pieces [kind, size, what]: half of *)
(* a line, the rest of a line of JSON (what: the value, or Bad), a line of *)
(* HTTP (what: method and path), an empty line.  A read takes any number   *)
(* of the pieces that are under way.                                       *)
(***************************************************************************)
EXTENDS ApiRequests, SequencesExt

CONSTANTS
    Clients,            \* each connects at most once
    Cases,              \* a sequence of [port, password, sent]: the arguments of ApiServer::ApiServer,
                        \* and what each client sends
    InitialMiner        \* the miner when the server starts

ASSUME ApiServerAssumption == Len(Cases) > 0 /\ ~InitialMiner.client

VARIABLES
    config,
    main,               \* the main thread: before start, serving, closed the acceptor, stopped
    work,               \* m_workThread: none, about to call begin_accept, done
    running,            \* m_running
    open,               \* m_acceptor is
    accept,             \* the accept under way: none, pending, failed (its handler is due)
    sessions,           \* the session of each client
    miner,
    dead                \* undefined behaviour has ended the process

vars == <<config, main, work, running, open, accept, sessions, miner, dead>>

NoSession(script) ==
    [state |-> "none",              \* none, live (in m_sessions), erased
     sent |-> script,               \* what is under way to the server
     message |-> <<>>,              \* m_message
     authenticated |-> FALSE,
     read |-> FALSE,                \* an async_read is under way
     sendBuffer |-> <<>>,           \* m_sendBuffer: the numbers of the answers in it
     writes |-> <<>>,               \* the async_writes under way: how much each took, and _disconnect
     wire |-> <<>>,                 \* the answers as they were sent
     lines |-> <<>>, answers |-> <<>>,       \* history: the lines that were answered, and the error of each
     overlapped |-> FALSE]          \* history: a write began while another was under way

\* ApiServer::ApiServer: a negative port is one that may only be read from.
Configured(c) ==
    [port |-> IF c.port < 0 THEN -c.port ELSE c.port, readonly |-> c.port < 0, password |-> c.password]

Init ==
    /\ \E i \in DOMAIN Cases :
         /\ config = Configured(Cases[i])
         /\ sessions = [c \in Clients |-> NoSession(Cases[i].sent[c])]
    /\ main = "start" /\ work = "none" /\ running = FALSE /\ open = FALSE /\ accept = "none"
    /\ miner = InitialMiner
    /\ dead = FALSE

-----------------------------------------------------------------------------
(* The sessions *)

\* m_onDisconnected erases the session: its socket is closed, and what is under way is aborted.
disconnect(s) == [s EXCEPT !.state = "erased"]

\* The socket takes what is in the buffer at once; the buffer is emptied when the write completes.
sendSocketData(s, disconnects) ==
    LET number == Len(s.answers)
        buffer == Append(s.sendBuffer, number)
    IN [s EXCEPT !.sendBuffer = buffer, !.wire = @ \o buffer,
                 !.writes = Append(@, [size |-> Len(buffer), disconnects |-> disconnects]),
                 !.overlapped = @ \/ s.writes # <<>>]

\* The one element of a set, which TLC evaluates once
Only(set) == CHOOSE x \in set : TRUE

Answered(s, line, error, disconnects) ==
    Only({sendSocketData(t, disconnects) :
            t \in {[s EXCEPT !.lines = Append(@, line), !.answers = Append(@, error)]}})

\* The first line of the message that is complete: how many pieces it has; 0 if there is none
LineLength(message) ==
    LET ends == {i \in DOMAIN message : message[i].kind # "half"}
    IN IF ends = {} THEN 0 ELSE CHOOSE i \in ends : \A j \in ends : i <= j

Bad == [type |-> "bad"]
Size(message) == FoldSeq(LAMBDA piece, n : n + piece.size, 0, message)
IsHttp(message) == LineLength(message) > 0 /\ message[LineLength(message)].kind = "http"

Status(request) ==
    IF request.method # "GET" THEN 405
    ELSE IF request.path \notin {"/", "/getstat1", "/metrics"} THEN 404
    ELSE 200

HttpAnswer(s) ==
    LET request == s.message[LineLength(s.message)].what
    IN [Answered(s, request, Status(request), TRUE) EXCEPT !.message = <<>>]

\* The lines of a message, and what is left of it: the value of each line that is not empty
JsonLine(piece) == IF piece.kind = "http" THEN Bad ELSE piece.what
Lines(message) == SelectSeq(message, LAMBDA piece : piece.kind \in {"json", "http"})
Rest(message) ==
    LET ends == {i \in DOMAIN message : message[i].kind # "half"}
    IN IF ends = {} THEN message
       ELSE SubSeq(message, (CHOOSE i \in ends : \A j \in ends : j <= i) + 1, Len(message))

\* One line: x is [s, miner, dead].
HandleLine(x, line) ==
    IF x.dead THEN x
    ELSE IF line = Bad THEN [x EXCEPT !.s = Answered(x.s, line, -32700, FALSE)]
    ELSE IF Crashes(x.miner, x.s, line, config) THEN [x EXCEPT !.dead = TRUE]
    ELSE Only({[x EXCEPT !.miner = r.miner,
                         !.s = Answered([x.s EXCEPT !.authenticated = r.authenticated], line, r.error, FALSE)] :
                 r \in {processRequest(x.miner, x.s, line, config)}})

\* The socket is open as long as the session is in m_sessions.
recvSocketData_Lines(s) == [s EXCEPT !.read = s.message = <<>>] \* mutant: the rest of a line is not waited for
recvSocketData(s) == [s EXCEPT !.read = TRUE]

HandleLines(s) ==
    LET Step(y, piece) == Only({HandleLine(x, JsonLine(piece)) : x \in {y}})
    IN [FoldLeft(Step, [s |-> s, miner |-> miner, dead |-> FALSE], Lines(s.message))
          EXCEPT !.s = recvSocketData([@ EXCEPT !.message = Rest(@)])]

\* A message of less than 4 characters: the handler returns, and no read is under way any more.
Handle(s) ==
    LET is == [s |-> s, miner |-> miner, dead |-> FALSE]
    IN IF Size(s.message) < 4 THEN is
       ELSE IF IsHttp(s.message)
            THEN IF Status(s.message[LineLength(s.message)].what) = 200 /\ ~miner.client
                 THEN [is EXCEPT !.dead = TRUE]
                 ELSE [is EXCEPT !.s = HttpAnswer(s)]
       ELSE HandleLines(s)

Live(c) == ~dead /\ sessions[c].state = "live"

\* Data arrives: n pieces of it.
onRecvSocketDataCompleted(c) ==
    /\ Live(c) /\ sessions[c].read
    /\ \E n \in 1..Len(sessions[c].sent) :
         \E s \in {[sessions[c] EXCEPT !.read = FALSE, !.message = @ \o SubSeq(sessions[c].sent, 1, n),
                                       !.sent = SubSeq(@, n + 1, Len(@))]} :
         \E x \in {Handle(s)} :
           /\ sessions' = [sessions EXCEPT ![c] = x.s]
           /\ miner' = x.miner /\ dead' = x.dead
    /\ UNCHANGED <<config, main, work, running, open, accept>>

\* The client has closed its end, or the connection is lost.
onRecvFailed(c) ==
    /\ Live(c) /\ sessions[c].read
    /\ sessions' = [sessions EXCEPT ![c] = disconnect([@ EXCEPT !.read = FALSE])]
    /\ UNCHANGED <<config, main, work, running, open, accept, miner, dead>>

Consumed_Kept(s) == s.sendBuffer \* mutant: the buffer is not consumed
Consumed(s) == SubSeq(s.sendBuffer, Head(s.writes).size + 1, Len(s.sendBuffer))

\* The first write completes, with or without an error.
onSendSocketDataCompleted(c) ==
    /\ Live(c) /\ sessions[c].writes # <<>>
    /\ LET write == Head(sessions[c].writes)
           s == [sessions[c] EXCEPT !.writes = Tail(@), !.sendBuffer = Consumed(sessions[c])]
       IN \E error \in BOOLEAN :
            sessions' = [sessions EXCEPT ![c] = IF error \/ write.disconnects THEN disconnect(s) ELSE s]
    /\ UNCHANGED <<config, main, work, running, open, accept, miner, dead>>

\* A handler of a session that was erased
Dangling(c) ==
    /\ ~dead /\ sessions[c].state = "erased"
    /\ \/ sessions[c].read /\ sessions' = [sessions EXCEPT ![c].read = FALSE]
       \/ sessions[c].writes # <<>> /\ sessions' = [sessions EXCEPT ![c].writes = Tail(@)]
    /\ dead' \in BOOLEAN
    /\ UNCHANGED <<config, main, work, running, open, accept, miner>>

-----------------------------------------------------------------------------
(* The server *)

\* What async_accept begins
begin_accept_Always == IF open THEN "pending" ELSE "failed" \* mutant: isRunning is not asked
begin_accept == IF ~running THEN "none" ELSE IF open THEN "pending" ELSE "failed"

\* bound = FALSE: the port is taken, and the acceptor stays open without listening.
start ==
    /\ ~dead /\ main = "start" /\ main' = "serving"
    /\ \E bound \in {config.port # 0} \cup {FALSE} :
         /\ running' = bound /\ open' = bound
         /\ work' = IF bound THEN "begins" ELSE "none"
    /\ UNCHANGED <<config, accept, sessions, miner, dead>>

FirstAccept ==
    /\ ~dead /\ work = "begins" /\ work' = "done"
    /\ accept' = begin_accept
    /\ UNCHANGED <<config, main, running, open, sessions, miner, dead>>

\* A client connects.  remote_endpoint throws if it has already gone.
handle_accept(c) ==
    /\ ~dead /\ accept = "pending" /\ sessions[c].state = "none"
    /\ sessions' = [sessions EXCEPT ![c] =
                      recvSocketData([@ EXCEPT !.state = "live", !.authenticated = config.password = ""])]
    /\ accept' = begin_accept
    /\ dead' \in BOOLEAN
    /\ UNCHANGED <<config, main, work, running, open, miner>>

AcceptFailed ==
    /\ ~dead /\ accept = "failed"
    /\ accept' = begin_accept
    /\ UNCHANGED <<config, main, work, running, open, sessions, miner, dead>>

PoolStarted == miner.client \/ miner.pending

\* stop, up to m_acceptor.close.  The main thread starts the PoolManager first.
stop ==
    /\ ~dead /\ main = "serving" /\ main' = "closed"
    /\ running /\ PoolStarted
    /\ open' = FALSE
    /\ accept' = IF accept = "pending" THEN "failed" ELSE accept
    /\ UNCHANGED <<config, work, running, sessions, miner, dead>>

\* stop, from m_workThread.join on
StopJoined ==
    /\ ~dead /\ main = "closed" /\ main' = "stopped"
    /\ work = "done"
    /\ running' = FALSE
    /\ sessions' = [c \in Clients |-> IF sessions[c].state = "live" THEN disconnect(sessions[c]) ELSE sessions[c]]
    /\ UNCHANGED <<config, work, open, accept, miner, dead>>

-----------------------------------------------------------------------------
(* The miner: PoolManager, as far as it changes what the API reads *)

\* PoolManager::start, which follows ApiServer::start on the main thread
PoolStarts ==
    /\ ~dead /\ main = "serving" /\ ~PoolStarted
    /\ miner' = [miner EXCEPT !.pending = TRUE, !.switches = @ + 1]
    /\ UNCHANGED <<config, main, work, running, open, accept, sessions, dead>>

\* The first rotateConnect has made the client.
Rotated ==
    /\ ~dead /\ miner.pending /\ ~miner.client
    /\ miner' = [miner EXCEPT !.client = TRUE]
    /\ UNCHANGED <<config, main, work, running, open, accept, sessions, dead>>

\* The client has logged in: the switch that was asked for is over.  The attempts that fail, after
\* which the pool manager moves on by itself, are in module PoolManager.
LoggedIn ==
    /\ ~dead /\ miner.pending /\ miner.client
    /\ miner' = [miner EXCEPT !.pending = FALSE]
    /\ UNCHANGED <<config, main, work, running, open, accept, sessions, dead>>

-----------------------------------------------------------------------------
Next ==
    \/ start \/ FirstAccept \/ AcceptFailed \/ stop \/ StopJoined
    \/ PoolStarts \/ Rotated \/ LoggedIn
    \/ \E c \in Clients :
         \/ handle_accept(c) \/ onRecvSocketDataCompleted(c) \/ onRecvFailed(c)
         \/ onSendSocketDataCompleted(c) \/ Dangling(c)

\* The threads run, and so do the handlers of what has completed; clients and signals need not come.
Fairness ==
    /\ WF_vars(FirstAccept) /\ WF_vars(AcceptFailed) /\ WF_vars(StopJoined)
    /\ \A c \in Clients :
         /\ WF_vars(onRecvSocketDataCompleted(c))
         /\ WF_vars(onSendSocketDataCompleted(c))

Spec == Init /\ [][Next]_vars /\ Fairness

-----------------------------------------------------------------------------
(* Properties *)

IsCall(line, methods) ==
    "type" \in DOMAIN line /\ line.type = "object" /\ WellFormed(line) /\ Value("method", line) \in methods

\* The client of these lines has shown the password, and has not tried another since.
Trusted(lines) ==
    LET tries == SelectSeq(lines, LAMBDA line : IsCall(line, {"api_authorize"}))
    IN IF tries = <<>> THEN config.password = "" ELSE PasswordGiven(Last(tries), config.password)

\* The lines of client c that a step answers
New(c) == (Len(sessions[c].lines) + 1)..Len(sessions'[c].lines)

Settings(m) == <<m.paused, m.nonce, m.verbosity, m.restarts, m.reboots, m.connections, m.active>>

\* Pools, pauses, nonce, verbosity and restarts change only by a line with a writing method, of a
\* client whose last api_authorize had the password, on a port that is not read-only
\* (ApiConnection::processRequest).
OnlyTrustedWrite ==
    [][Settings(miner') # Settings(miner) =>
         \E c \in Clients : \E k \in New(c) :
             /\ IsCall(sessions'[c].lines[k], Writes)
             /\ ~config.readonly
             /\ Trusted(SubSeq(sessions'[c].lines, 1, k - 1))]_vars

\* Whatever pools clients add and remove, the active one stays the same until one of them calls
\* miner_setactiveconnection (PoolManager::removeConnection moves the index along).
ActiveKept ==
    [][getActiveConnection(miner') # getActiveConnection(miner) =>
         \E c \in Clients : \E k \in New(c) :
             IsCall(sessions'[c].lines[k], {"miner_setactiveconnection"})]_vars

FirstTimes(s) == SelectSeq([i \in DOMAIN s |-> <<i, s[i]>>], LAMBDA x : \A j \in 1..(x[1] - 1) : s[j] # x[2])

\* The answers are sent in the order of the lines and none is left out; if no two writes were under
\* way together, which is so for a client that waits for each answer, each is sent once
\* (ApiConnection::sendSocketData shares one buffer between writes).
AnswersSent ==
    \A c \in Clients :
        LET s == sessions[c]
            numbers == [i \in DOMAIN s.answers |-> i]
        IN /\ [i \in DOMAIN FirstTimes(s.wire) |-> FirstTimes(s.wire)[i][2]] = numbers
           /\ ~s.overlapped => s.wire = numbers

\* The totals of the page, of /metrics and of miner_getstat1 are the same number, up to the width in
\* which the statistics show hash rates (only getHttpMinerStatDetail adds up rows).
PagesAgree ==
    \A total \in {getHttpMinerStatDetail(miner), getMinerStat1(miner).hashrate} :
        Shown(total) = getHttpMinerMetrics(miner)

\* A client that sends at least 4 characters at a time, and stays, has all its lines
\* answered, in however many parts they arrive, or has been answered by HTTP and disconnected.
LinesAnswered ==
    \A c \in Clients :
        (sessions[c].state = "live" /\ \A piece \in Range(sessions[c].message \o sessions[c].sent) : piece.size >= 4)
        ~> \/ dead \/ sessions[c].state = "erased"
           \/ sessions[c].sent = <<>> /\ LineLength(sessions[c].message) = 0 /\ sessions[c].writes = <<>>

\* Once the acceptor is closed the chain of accepts ends (ApiServer::begin_accept asks isRunning).
AcceptsEnd == main = "closed" ~> dead \/ (main = "stopped" /\ accept = "none")
=============================================================================
