--------------------- MODULE EthStratumClientInvariant ----------------------
(***************************************************************************)
(* The inductive invariant of the stratum client, for any schemes,         *)
(* timeouts and capacities, any number of addresses of a host and of       *)
(* queued handlers, and that every handler the io thread runs keeps it.    *)
(*                                                                         *)
(* Everything rests on the order of the handlers in the io queue.  What    *)
(* the invariant says of it is said with three predicates: no handler of a *)
(* kind is queued, one at most is, none is queued behind one of another    *)
(* kind.                                                                   *)
(***************************************************************************)
EXTENDS EthStratumClient, TLAPS
\* Most leaves are first-order; the others cite SMT.
USE Zenon

\* The kinds of handlers.
Early == {"connect", "resolve_ok", "resolve_err"}
Starts == {"start_connect"}
Connects == {"connect_ok", "connect_err"}
Reads == {"read", "read_err"}
Writes == {"write_ok", "write_err"}
Timeouts == {"login_timeout"}
Discs == {"disconnect"}
Shuts == {"shutdown"}
Finals == {"finalize"}
Closes == {"shutdown", "finalize"}
Rotates == {"rotateConnect"}
Data == {"read"}
Handlers ==
    UNION {Early, Starts, Connects, Reads, Writes, Timeouts, Discs, Closes, Rotates, {"tick"}}

NoneIn(q, S) == \A i \in DOMAIN q : q[i] \notin S
Once(q, S) == \A i, j \in DOMAIN q : q[i] \in S /\ q[j] \in S => i = j
NoneBehind(q, A, B) == \A i, j \in DOMAIN q : i < j /\ q[i] \in A => q[j] \notin B

\* Of an operation, with n pending and its handlers in S.
AtMostOne(n, q, S) == n \in {0, 1} /\ Once(q, S) /\ (n = 1 => NoneIn(q, S))
Nothing(n, q, S) == n = 0 /\ NoneIn(q, S)

-----------------------------------------------------------------------------
(* The inductive invariant *)

Fields == {"conn", "connecting", "disconnecting", "connected", "authpending", "socket",
           "endpoints", "session", "pleas", "older", "workAge", "timer", "newjob", "miningSet",
           "txPending", "txCount", "txQueue", "ops", "wire", "loginMode"}

Shape(c) == DOMAIN c = Fields /\ c = [f \in DOMAIN c |-> c[f]]

UriFields == {"version", "secure", "mode", "confirmed", "unrecoverable", "responds"}

Requests == {"login", "subscribe", "authorize", "submit"}

ClientOK(c) ==
    /\ Shape(c)
    /\ c.conn \in BOOLEAN /\ c.connecting \in BOOLEAN /\ c.disconnecting \in BOOLEAN
    /\ c.connected \in BOOLEAN /\ c.socket \in {"null", "closed", "open"}
    /\ c.txPending \in BOOLEAN /\ c.txCount \in Nat
    /\ c.pleas \in Seq(Nat) /\ c.wire \in Seq(Requests) /\ c.txQueue \in Seq(Requests)
    /\ c.ops \in [Ops -> Nat]

\* One operation of a kind at most is pending, completed or being handled.
OpsOK(c, q, busy) ==
    /\ AtMostOne(c.ops["resolve"], q, Early)
    /\ AtMostOne(c.ops["connect"], q, Connects)
    /\ AtMostOne(c.ops["read"], q, Reads)
    /\ AtMostOne(c.ops["write"], q, Writes)
    /\ AtMostOne(c.ops["shutdown"], q, Closes)
    /\ busy => Nothing(c.ops["read"], q, Reads)

\* Nothing that could make a client disconnect is queued.
Calm(q) == NoneIn(q, Reads) /\ NoneIn(q, Writes) /\ NoneIn(q, Timeouts) /\ NoneIn(q, Discs)

\* A client whose host is being resolved has done nothing else.
EarlyOK(c, q, busy, told) ==
    ~Nothing(c.ops["resolve"], q, Early) =>
        /\ ~c.connecting /\ ~c.connected /\ ~c.disconnecting /\ ~busy /\ told = "connecting"
        /\ Calm(q) /\ NoneIn(q, Starts)

\* Nothing of the last connection is under way once another is being made.  One that has
\* lost its socket (disconnect_finalize) ends in a fault; any other meets no start_connect
\* after its handler.
ConnectingOK(c, q, busy) ==
    /\ ~c.connecting => Nothing(c.ops["connect"], q, Connects)
    /\ c.connecting =>
          /\ ~c.connected /\ ~c.disconnecting /\ ~busy
          /\ Nothing(c.ops["read"], q, Reads) /\ Nothing(c.ops["write"], q, Writes)
          /\ c.socket # "null" => NoneBehind(q, Connects, Starts)

\* A connected client connects no more, and m_txPending tells of its write.
LinkedOK(c, q) ==
    c.connected =>
        /\ ~c.disconnecting /\ c.socket = "open"
        /\ NoneIn(q, Starts)
        /\ c.txPending \/ Nothing(c.ops["write"], q, Writes)

\* Otherwise it neither reads nor writes; what did is handled before the next connection.
UnlinkedOK(c, q) ==
    ~c.connected =>
        /\ c.ops["read"] = 0 /\ c.ops["write"] = 0
        /\ NoneBehind(q, Starts, Reads) /\ NoneBehind(q, Starts, Writes)

\* While a TLS stream is shut down, all that could ask for a disconnection comes to be
\* handled before the finalization.
ClosingOK(c, q, busy, secure) ==
    /\ ~c.disconnecting => Nothing(c.ops["shutdown"], q, Closes)
    /\ c.disconnecting =>
          /\ secure /\ ~c.connected /\ NoneIn(q, Starts)
          /\ NoneBehind(q, Shuts, Reads) /\ NoneBehind(q, Shuts, Writes)
          /\ NoneBehind(q, Shuts, Timeouts) /\ NoneBehind(q, Finals, Discs)
          /\ \/ NoneIn(q, Finals)
             \/ NoneIn(q, Reads) /\ NoneIn(q, Writes) /\ NoneIn(q, Timeouts) /\ ~busy

\* So nothing is left of a TLS connection, nor of the only connection of a client that detects
\* no mode, when it is given up.
QuietOK(c, q, busy, told, u) ==
    ~c.connected /\ ~c.disconnecting /\ (u.secure \/ (u.version # AutoDetect /\ c.conn)) =>
        Calm(q) /\ ~busy /\ told # "up"

\* The PoolManager was told that a client is down when it is, and will replace it.
OwnerOK(c, q, told) ==
    /\ told \in {"connecting", "up", "down", "gone"}
    /\ c.conn <=> told \in {"connecting", "up"}
    /\ Once(q, Rotates)
    /\ told = "down" <=> ~NoneIn(q, Rotates)

\* No mode is detected for an explicit scheme, nor in a session.
UriOK(u, told) ==
    /\ DOMAIN u = UriFields /\ u = [f \in DOMAIN u |-> u[f]]
    /\ u.secure \in BOOLEAN
    /\ u.version # AutoDetect => (u.responds => u.confirmed \/ u.unrecoverable)
    /\ told = "up" => u.confirmed

\* Of a transmission, or what is left of it, all but the first line answers no request.
Transmission(t) ==
    /\ \E S : t \in Seq(S)
    /\ \A i \in DOMAIN t : i # 1 => t[i].line \in Unsolicited
Owed(t) == IF t # <<>> /\ t[1].line \notin Unsolicited THEN 1 ELSE 0

\* The data are those of the read handler that is queued.
LinesOK(data, lines, q, busy) ==
    /\ Transmission(lines) /\ (~busy => lines = <<>>)
    /\ \/ data = <<>> /\ NoneIn(q, Data)
       \/ \E t : data = <<t>> /\ Transmission(t) /\ ~NoneIn(q, Data)

\* There are as many pleas as answers to come.
Pleas(c) == Len(c.pleas)
Awaited(c) == Len(c.wire) + Len(c.txQueue)
Received(data) == IF data = <<>> THEN 0 ELSE Owed(data[1])
TimedOK(c, q, data, lines) ==
    c.connected =>
        \/ ~NoneIn(q, Discs) \/ ~NoneIn(q, Timeouts)
        \/ Awaited(c) + Owed(lines) + Received(data) <= Pleas(c)

Core(c, q, busy, told, u) ==
    /\ OpsOK(c, q, busy) /\ EarlyOK(c, q, busy, told)
    /\ ConnectingOK(c, q, busy) /\ LinkedOK(c, q) /\ UnlinkedOK(c, q)
    /\ ClosingOK(c, q, busy, u.secure) /\ QuietOK(c, q, busy, told, u) /\ OwnerOK(c, q, told)

Holds(c, q, data, lines, busy, told, u) ==
    /\ ClientOK(c) /\ q \in Seq(Handlers) /\ busy \in BOOLEAN /\ UriOK(u, told)
    /\ Core(c, q, busy, told, u) /\ LinesOK(data, lines, q, busy) /\ TimedOK(c, q, data, lines)

IInv == Holds(cl, ioq, inbox, rx, reading, owner, uri)

-----------------------------------------------------------------------------
(* The io queue *)

\* The handler at the head is taken.
LEMMA Popped ==
    ASSUME NEW q \in Seq(Handlers), q # <<>>
    PROVE  /\ Tail(q) \in Seq(Handlers) /\ Head(q) \in Handlers
           /\ \A S : NoneIn(q, S) <=> Head(q) \notin S /\ NoneIn(Tail(q), S)
           /\ \A S : Once(q, S) =>
                  Once(Tail(q), S) /\ (Head(q) \in S => NoneIn(Tail(q), S))
           /\ \A A, B : NoneBehind(q, A, B) =>
                  NoneBehind(Tail(q), A, B) /\ (Head(q) \in A => NoneIn(Tail(q), B))
<1> DEFINE t == Tail(q)
<1>1. t \in Seq(Handlers) /\ Head(q) \in Handlers /\ Head(q) = q[1]
  BY SMT
<1>2. DOMAIN q = 1..Len(q) /\ Len(q) \in Nat /\ Len(q) > 0 /\ DOMAIN t = 1..(Len(q) - 1)
  BY SMT
<1>3. \A i \in DOMAIN t : t[i] = q[i + 1] /\ i + 1 \in DOMAIN q /\ i \in Nat
  BY SMT, <1>2
<1>4. \A i \in DOMAIN q : i = 1 \/ (i - 1 \in DOMAIN t /\ t[i - 1] = q[i])
  BY SMT, <1>2, <1>3
<1>5. 1 \in DOMAIN q
  BY SMT, <1>2
<1> HIDE DEF t
<1>6. ASSUME NEW S PROVE NoneIn(q, S) <=> Head(q) \notin S /\ NoneIn(t, S)
  BY <1>1, <1>3, <1>4, <1>5 DEF NoneIn
<1>7. ASSUME NEW S, Once(q, S) PROVE Once(t, S) /\ (Head(q) \in S => NoneIn(t, S))
  BY SMT, <1>1, <1>3, <1>5, <1>7 DEF Once, NoneIn
<1>8. ASSUME NEW A, NEW B, NoneBehind(q, A, B)
      PROVE  NoneBehind(t, A, B) /\ (Head(q) \in A => NoneIn(t, B))
  <2>1. NoneBehind(t, A, B)
    BY SMT, <1>3, <1>8 DEF NoneBehind
  <2>2. ASSUME Head(q) \in A, NEW i \in DOMAIN t PROVE t[i] \notin B
    <3>1. 1 < i + 1
      BY SMT, <1>2
    <3> QED BY <1>1, <1>3, <1>5, <1>8, <2>2, <3>1 DEF NoneBehind
  <2> QED BY <2>1, <2>2 DEF NoneIn
<1> QED BY <1>1, <1>6, <1>7, <1>8 DEF t

\* Handlers are appended.
LEMMA Joined ==
    ASSUME NEW q \in Seq(Handlers), NEW t \in Seq(Handlers)
    PROVE  /\ q \o t \in Seq(Handlers)
           /\ \A S : NoneIn(q \o t, S) <=> NoneIn(q, S) /\ NoneIn(t, S)
           /\ \A S : Once(q, S) /\ Once(t, S) /\ (NoneIn(q, S) \/ NoneIn(t, S)) => Once(q \o t, S)
           /\ \A A, B : /\ NoneBehind(q, A, B) /\ NoneBehind(t, A, B)
                        /\ NoneIn(q, A) \/ NoneIn(t, B)
                        => NoneBehind(q \o t, A, B)
<1> DEFINE r == q \o t
           n == Len(q)
<1>1. r \in Seq(Handlers) /\ DOMAIN r = 1..(n + Len(t)) /\ n \in Nat /\ Len(t) \in Nat
  BY SMT
<1>2. DOMAIN q = 1..n /\ DOMAIN t = 1..Len(t)
  BY SMT
<1>3. \A i \in DOMAIN q : i \in DOMAIN r /\ r[i] = q[i] /\ i \in Nat /\ i <= n
  BY SMT
<1>4. \A i \in DOMAIN t : i + n \in DOMAIN r /\ r[i + n] = t[i] /\ i \in Nat
  BY SMT
<1>5. \A i \in DOMAIN r : i \in Nat /\ (i \in DOMAIN q \/ (i - n \in DOMAIN t /\ r[i] = t[i - n] /\ i > n))
  <2> SUFFICES ASSUME NEW i \in DOMAIN r, i \notin DOMAIN q
               PROVE  i - n \in DOMAIN t /\ r[i] = t[i - n] /\ i > n
    BY SMT, <1>1
  <2>1. i > n /\ i - n \in DOMAIN t
    BY SMT, <1>1, <1>2
  <2>2. (i - n) + n = i
    BY SMT, <1>1
  <2> HIDE DEF r, n
  <2> QED BY <1>4, <2>1, <2>2
<1> HIDE DEF r, n
<1>6. ASSUME NEW S PROVE NoneIn(r, S) <=> NoneIn(q, S) /\ NoneIn(t, S)
  BY <1>3, <1>4, <1>5 DEF NoneIn
<1>7. ASSUME NEW S, Once(q, S), Once(t, S), NoneIn(q, S) \/ NoneIn(t, S) PROVE Once(r, S)
  <2> SUFFICES ASSUME NEW i \in DOMAIN r, NEW j \in DOMAIN r, r[i] \in S, r[j] \in S PROVE i = j
    BY DEF Once
  <2>1. CASE NoneIn(q, S)
    <3>1. i - n \in DOMAIN t /\ r[i] = t[i - n] /\ j - n \in DOMAIN t /\ r[j] = t[j - n]
      BY <1>3, <1>5, <2>1 DEF NoneIn
    <3>2. i - n = j - n
      BY <1>7, <3>1 DEF Once
    <3> QED BY SMT, <1>1, <1>5, <3>2
  <2>2. CASE NoneIn(t, S)
    <3>1. i \in DOMAIN q /\ j \in DOMAIN q
      BY <1>5, <2>2 DEF NoneIn
    <3> QED BY <1>3, <1>7, <3>1 DEF Once
  <2> QED BY <1>7, <2>1, <2>2
<1>8. ASSUME NEW A, NEW B, NoneBehind(q, A, B), NoneBehind(t, A, B), NoneIn(q, A) \/ NoneIn(t, B)
      PROVE  NoneBehind(r, A, B)
  <2> SUFFICES ASSUME NEW i \in DOMAIN r, NEW j \in DOMAIN r, i < j, r[i] \in A, r[j] \in B PROVE FALSE
    BY DEF NoneBehind
  <2>1. CASE j \in DOMAIN q
    BY SMTT(30), <1>1, <1>3, <1>5, <1>8, <2>1 DEF NoneBehind
  <2>2. CASE i \in DOMAIN q /\ j \notin DOMAIN q
    BY <1>3, <1>5, <1>8, <2>2 DEF NoneIn
  <2>3. CASE i \notin DOMAIN q /\ j \notin DOMAIN q
    <3>1. i - n \in DOMAIN t /\ j - n \in DOMAIN t /\ i - n < j - n
      BY SMT, <1>1, <1>5, <2>3
    <3> QED BY <1>5, <1>8, <2>3, <3>1 DEF NoneBehind
  <2>4. i \in DOMAIN q \/ j \notin DOMAIN q
    BY SMT, <1>1, <1>2, <1>5
  <2> QED BY <2>1, <2>2, <2>3, <2>4
<1> QED BY <1>1, <1>6, <1>7, <1>8 DEF r

\* One handler, or none.
LEMMA Single ==
    ASSUME NEW h \in Handlers
    PROVE  /\ <<h>> \in Seq(Handlers)
           /\ \A S : NoneIn(<<h>>, S) <=> h \notin S
           /\ \A S : Once(<<h>>, S)
           /\ \A A, B : NoneBehind(<<h>>, A, B)
<1>1. <<h>> \in Seq(Handlers) /\ DOMAIN <<h>> = {1} /\ <<h>>[1] = h
  BY SMT
<1> QED BY SMT, <1>1 DEF NoneIn, Once, NoneBehind

\* No handler.
LEMMA Empty ==
    /\ <<>> \in Seq(Handlers)
    /\ \A S : NoneIn(<<>>, S) /\ Once(<<>>, S)
    /\ \A A, B : NoneBehind(<<>>, A, B)
BY SMT DEF NoneIn, Once, NoneBehind

\* Of a kind that is not queued there is no more than one, and none out of order.
LEMMA Absent ==
    ASSUME NEW q, NEW S, NoneIn(q, S)
    PROVE  Once(q, S) /\ \A A : NoneBehind(q, S, A) /\ NoneBehind(q, A, S)
BY DEF NoneIn, Once, NoneBehind

\* The kinds of the handlers.
LEMMA Members ==
    /\ \A h : h \in Early <=> h \in {"connect", "resolve_ok", "resolve_err"}
    /\ \A h : h \in Starts <=> h = "start_connect"
    /\ \A h : h \in Connects <=> h = "connect_ok" \/ h = "connect_err"
    /\ \A h : h \in Reads <=> h = "read" \/ h = "read_err"
    /\ \A h : h \in Writes <=> h = "write_ok" \/ h = "write_err"
    /\ \A h : h \in Timeouts <=> h = "login_timeout"
    /\ \A h : h \in Discs <=> h = "disconnect"
    /\ \A h : h \in Shuts <=> h = "shutdown"
    /\ \A h : h \in Finals <=> h = "finalize"
    /\ \A h : h \in Closes <=> h = "shutdown" \/ h = "finalize"
    /\ \A h : h \in Rotates <=> h = "rotateConnect"
    /\ \A h : h \in Data <=> h = "read"
BY DEF Early, Starts, Connects, Reads, Writes, Timeouts, Discs, Shuts, Finals, Closes, Rotates, Data

\* All of them are handlers.
LEMMA AreHandlers ==
    /\ "connect" \in Handlers /\ "resolve_ok" \in Handlers /\ "resolve_err" \in Handlers
    /\ "start_connect" \in Handlers /\ "connect_ok" \in Handlers /\ "connect_err" \in Handlers
    /\ "read" \in Handlers /\ "read_err" \in Handlers /\ "write_ok" \in Handlers
    /\ "write_err" \in Handlers /\ "login_timeout" \in Handlers /\ "disconnect" \in Handlers
    /\ "shutdown" \in Handlers /\ "finalize" \in Handlers /\ "rotateConnect" \in Handlers
    /\ "tick" \in Handlers
BY DEF Handlers, Early, Starts, Connects, Reads, Writes, Timeouts, Discs, Closes, Rotates

\* Kinds that are parts of others.
LEMMA Parts ==
    ASSUME NEW q
    PROVE  /\ NoneIn(q, Closes) <=> NoneIn(q, Shuts) /\ NoneIn(q, Finals)
           /\ NoneIn(q, Reads) => NoneIn(q, Data)
BY Members DEF NoneIn

\* Up to one handler h.
LEMMA Repeated ==
    ASSUME NEW h \in Handlers, NEW n \in {0, 1}
    PROVE  LET s == [i \in 1..n |-> h]
           IN  /\ s \in Seq(Handlers)
               /\ \A S : NoneIn(s, S) <=> (n = 0 \/ h \notin S)
               /\ \A S : Once(s, S)
<1> DEFINE s == [i \in 1..n |-> h]
<1> SUFFICES /\ s \in Seq(Handlers)
             /\ \A S : NoneIn(s, S) <=> (n = 0 \/ h \notin S)
             /\ \A S : Once(s, S)
  OBVIOUS
<1>1. n \in Nat /\ DOMAIN s = 1..n /\ \A i \in 1..n : s[i] = h
  BY SMT
<1>2. s \in Seq(Handlers)
  BY SMT, <1>1
<1>3. n = 0 => 1..n = {}
  BY SMT
<1>4. n = 1 => 1..n = {1}
  BY SMT
<1> HIDE DEF s
<1>5. \A S : NoneIn(s, S) <=> (n = 0 \/ h \notin S)
  BY <1>1, <1>3, <1>4 DEF NoneIn
<1>6. \A S : Once(s, S)
  BY SMT, <1>1, <1>3, <1>4 DEF Once
<1> QED BY <1>2, <1>5, <1>6

\* The handlers of aborted operations.
LEMMA AbortedIs ==
    ASSUME NEW c, c.ops["read"] \in {0, 1}, c.ops["write"] \in {0, 1},
           c.ops["connect"] \in {0, 1}, c.ops["shutdown"] \in {0, 1}
    PROVE  /\ Aborted(c) \in Seq(Handlers)
           /\ NoneIn(Aborted(c), Reads) <=> c.ops["read"] = 0
           /\ NoneIn(Aborted(c), Writes) <=> c.ops["write"] = 0
           /\ NoneIn(Aborted(c), Connects) <=> c.ops["connect"] = 0
           /\ NoneIn(Aborted(c), Shuts) <=> c.ops["shutdown"] = 0
           /\ NoneIn(Aborted(c), Early) /\ NoneIn(Aborted(c), Starts)
           /\ NoneIn(Aborted(c), Timeouts) /\ NoneIn(Aborted(c), Discs)
           /\ NoneIn(Aborted(c), Finals) /\ NoneIn(Aborted(c), Rotates) /\ NoneIn(Aborted(c), Data)
           /\ Once(Aborted(c), Reads) /\ Once(Aborted(c), Writes) /\ Once(Aborted(c), Connects)
           /\ Once(Aborted(c), Closes)
<1> DEFINE r == [i \in 1..c.ops["read"] |-> "read_err"]
           w == [i \in 1..c.ops["write"] |-> "write_err"]
           k == [i \in 1..c.ops["connect"] |-> "connect_err"]
           x == [i \in 1..c.ops["shutdown"] |-> "shutdown"]
<1>1. /\ r \in Seq(Handlers) /\ \A S : NoneIn(r, S) <=> (c.ops["read"] = 0 \/ "read_err" \notin S)
      /\ \A S : Once(r, S)
  BY Repeated, AreHandlers
<1>2. /\ w \in Seq(Handlers) /\ \A S : NoneIn(w, S) <=> (c.ops["write"] = 0 \/ "write_err" \notin S)
      /\ \A S : Once(w, S)
  BY Repeated, AreHandlers
<1>3. /\ k \in Seq(Handlers) /\ \A S : NoneIn(k, S) <=> (c.ops["connect"] = 0 \/ "connect_err" \notin S)
      /\ \A S : Once(k, S)
  BY Repeated, AreHandlers
<1>4. /\ x \in Seq(Handlers) /\ \A S : NoneIn(x, S) <=> (c.ops["shutdown"] = 0 \/ "shutdown" \notin S)
      /\ \A S : Once(x, S)
  BY Repeated, AreHandlers
<1>5. Aborted(c) = ((r \o w) \o k) \o x
  BY DEF Aborted
<1> HIDE DEF r, w, k, x
<1>6. /\ r \o w \in Seq(Handlers)
      /\ \A S : NoneIn(r \o w, S) <=> NoneIn(r, S) /\ NoneIn(w, S)
      /\ \A S : NoneIn(r, S) \/ NoneIn(w, S) => Once(r \o w, S)
  BY <1>1, <1>2, Joined
<1>7. /\ (r \o w) \o k \in Seq(Handlers)
      /\ \A S : NoneIn((r \o w) \o k, S) <=> NoneIn(r, S) /\ NoneIn(w, S) /\ NoneIn(k, S)
      /\ \A S : Once(r \o w, S) /\ (NoneIn(r \o w, S) \/ NoneIn(k, S)) => Once((r \o w) \o k, S)
  BY <1>3, <1>6, Joined
<1>8. /\ Aborted(c) \in Seq(Handlers)
      /\ \A S : NoneIn(Aborted(c), S) <=> NoneIn(r, S) /\ NoneIn(w, S) /\ NoneIn(k, S) /\ NoneIn(x, S)
      /\ \A S : Once((r \o w) \o k, S) /\ (NoneIn((r \o w) \o k, S) \/ NoneIn(x, S)) => Once(Aborted(c), S)
  <2> DEFINE m == (r \o w) \o k
  <2>1. Aborted(c) = m \o x
    BY <1>5
  <2>2. m \in Seq(Handlers) /\ \A S : NoneIn(m, S) <=> NoneIn(r, S) /\ NoneIn(w, S) /\ NoneIn(k, S)
    BY <1>7
  <2> SUFFICES
        /\ Aborted(c) \in Seq(Handlers)
        /\ \A S : NoneIn(Aborted(c), S) <=> NoneIn(r, S) /\ NoneIn(w, S) /\ NoneIn(k, S) /\ NoneIn(x, S)
        /\ \A S : Once(m, S) /\ (NoneIn(m, S) \/ NoneIn(x, S)) => Once(Aborted(c), S)
    OBVIOUS
  <2> HIDE DEF m
  <2>3. /\ m \o x \in Seq(Handlers)
        /\ \A S : NoneIn(m \o x, S) <=> NoneIn(m, S) /\ NoneIn(x, S)
        /\ \A S : Once(m, S) /\ Once(x, S) /\ (NoneIn(m, S) \/ NoneIn(x, S)) => Once(m \o x, S)
    BY <1>4, <2>2, Joined
  <2> QED BY <1>4, <2>1, <2>2, <2>3
<1>9. /\ \A S \in {Writes, Connects, Closes, Shuts, Early, Starts, Timeouts, Discs, Finals, Rotates, Data} : NoneIn(r, S)
      /\ \A S \in {Reads, Connects, Closes, Shuts, Early, Starts, Timeouts, Discs, Finals, Rotates, Data} : NoneIn(w, S)
      /\ \A S \in {Reads, Writes, Closes, Shuts, Early, Starts, Timeouts, Discs, Finals, Rotates, Data} : NoneIn(k, S)
      /\ \A S \in {Reads, Writes, Connects, Early, Starts, Timeouts, Discs, Finals, Rotates, Data} : NoneIn(x, S)
  <2>1. \A S \in {Writes, Connects, Closes, Shuts, Early, Starts, Timeouts, Discs, Finals, Rotates, Data} : "read_err" \notin S
    BY Members
  <2>2. \A S \in {Reads, Connects, Closes, Shuts, Early, Starts, Timeouts, Discs, Finals, Rotates, Data} : "write_err" \notin S
    BY Members
  <2>3. \A S \in {Reads, Writes, Closes, Shuts, Early, Starts, Timeouts, Discs, Finals, Rotates, Data} : "connect_err" \notin S
    BY Members
  <2>4. \A S \in {Reads, Writes, Connects, Early, Starts, Timeouts, Discs, Finals, Rotates, Data} : "shutdown" \notin S
    BY Members
  <2> QED BY <1>1, <1>2, <1>3, <1>4, <2>1, <2>2, <2>3, <2>4
<1>10. /\ NoneIn(r, Reads) <=> c.ops["read"] = 0
       /\ NoneIn(w, Writes) <=> c.ops["write"] = 0
       /\ NoneIn(k, Connects) <=> c.ops["connect"] = 0
       /\ NoneIn(x, Shuts) <=> c.ops["shutdown"] = 0
  BY <1>1, <1>2, <1>3, <1>4, Members
<1>11. Once(Aborted(c), Reads)
  BY <1>6, <1>7, <1>8, <1>9
<1>12. Once(Aborted(c), Writes)
  BY <1>6, <1>7, <1>8, <1>9
<1>13. Once(Aborted(c), Connects)
  BY <1>6, <1>7, <1>8, <1>9
<1>14. Once(Aborted(c), Closes)
  BY <1>6, <1>7, <1>8, <1>9
<1>15. /\ NoneIn(Aborted(c), Reads) <=> c.ops["read"] = 0
       /\ NoneIn(Aborted(c), Writes) <=> c.ops["write"] = 0
  BY <1>8, <1>9, <1>10
<1>16. /\ NoneIn(Aborted(c), Connects) <=> c.ops["connect"] = 0
       /\ NoneIn(Aborted(c), Shuts) <=> c.ops["shutdown"] = 0
  BY <1>8, <1>9, <1>10
<1>17. \A S \in {Early, Starts, Timeouts, Discs, Finals, Rotates, Data} : NoneIn(Aborted(c), S)
  BY <1>8, <1>9
<1> QED BY <1>8, <1>11, <1>12, <1>13, <1>14, <1>15, <1>16, <1>17

-----------------------------------------------------------------------------
(* The methods that assign the fields of a client *)

\* d differs from c in the changed fields at most.
Keeps(c, d, changed) == \A f \in Fields \ changed : d[f] = c[f]

\* The lengths of the sequences of a client.
LEMMA Lengths ==
    ASSUME NEW c, ClientOK(c)
    PROVE  Awaited(c) \in Nat /\ Pleas(c) \in Nat
<1>1. c.wire \in Seq(Requests) /\ c.txQueue \in Seq(Requests) /\ c.pleas \in Seq(Nat)
  BY DEF ClientOK
<1>2. Len(c.wire) \in Nat /\ Len(c.txQueue) \in Nat /\ Len(c.pleas) \in Nat
  BY SMT, <1>1
<1>3. \A m, n \in Nat : m + n \in Nat
  BY SMT
<1>4. Len(c.wire) + Len(c.txQueue) \in Nat
  BY <1>2, <1>3
<1> QED BY <1>2, <1>4 DEF Awaited, Pleas

\* An operation is started.
LEMMA StartIs ==
    ASSUME NEW c, ClientOK(c), NEW op \in Ops
    PROVE  LET d == Start(c, op)
           IN  /\ ClientOK(d) /\ Keeps(c, d, {"ops"})
               /\ d.ops = [c.ops EXCEPT ![op] = @ + 1]
<1> DEFINE d == Start(c, op)
<1>1. Shape(d) /\ Keeps(c, d, {"ops"}) /\ d.ops = [c.ops EXCEPT ![op] = @ + 1]
  BY DEF Start, ClientOK, Shape, Keeps, Fields
<1> SUFFICES ClientOK(d) /\ Keeps(c, d, {"ops"}) /\ d.ops = [c.ops EXCEPT ![op] = @ + 1]
  OBVIOUS
<1> HIDE DEF d
<1>2. d.ops \in [Ops -> Nat]
  BY SMT, <1>1 DEF ClientOK
<1> QED BY <1>1, <1>2 DEF ClientOK, Keeps, Fields

\* An operation is done.
LEMMA DoneIs ==
    ASSUME NEW c, ClientOK(c), NEW op \in Ops, c.ops[op] > 0
    PROVE  LET d == Done(c, op)
           IN  /\ ClientOK(d) /\ Keeps(c, d, {"ops"})
               /\ d.ops = [c.ops EXCEPT ![op] = @ - 1]
<1> DEFINE d == Done(c, op)
<1>1. Shape(d) /\ Keeps(c, d, {"ops"}) /\ d.ops = [c.ops EXCEPT ![op] = @ - 1]
  BY DEF Done, ClientOK, Shape, Keeps, Fields
<1> SUFFICES ClientOK(d) /\ Keeps(c, d, {"ops"}) /\ d.ops = [c.ops EXCEPT ![op] = @ - 1]
  OBVIOUS
<1> HIDE DEF d
<1>2. d.ops \in [Ops -> Nat]
  BY SMT, <1>1 DEF ClientOK
<1> QED BY <1>1, <1>2 DEF ClientOK, Keeps, Fields

\* The operations on the socket are aborted.
LEMMA NoSocketOpsIs ==
    ASSUME NEW c, ClientOK(c)
    PROVE  LET d == NoSocketOps(c)
           IN  /\ ClientOK(d) /\ Keeps(c, d, {"ops"})
               /\ d.ops["resolve"] = c.ops["resolve"]
               /\ \A o \in Ops \ {"resolve"} : d.ops[o] = 0
<1> DEFINE d == NoSocketOps(c)
<1>1. Shape(d) /\ Keeps(c, d, {"ops"}) /\ d.ops = [o \in Ops |-> IF o = "resolve" THEN c.ops[o] ELSE 0]
  BY DEF NoSocketOps, ClientOK, Shape, Keeps, Fields
<1> SUFFICES /\ ClientOK(d) /\ Keeps(c, d, {"ops"})
             /\ d.ops["resolve"] = c.ops["resolve"]
             /\ \A o \in Ops \ {"resolve"} : d.ops[o] = 0
  OBVIOUS
<1> HIDE DEF d
<1>2. d.ops \in [Ops -> Nat]
  BY SMT, <1>1 DEF ClientOK
<1>3. "resolve" \in Ops
  BY DEF Ops
<1> QED BY <1>1, <1>2, <1>3 DEF ClientOK, Keeps, Fields

\* A plea is added,
LEMMA EnqueueIs ==
    ASSUME NEW c, ClientOK(c)
    PROVE  LET d == enqueue_response_plea(c)
           IN  /\ ClientOK(d) /\ Keeps(c, d, {"pleas", "older"})
               /\ Pleas(d) = Pleas(c) + 1
<1> DEFINE d == enqueue_response_plea(c)
<1>1. Shape(d) /\ Keeps(c, d, {"pleas", "older"}) /\ d.pleas = Append(c.pleas, 0)
  BY DEF enqueue_response_plea, ClientOK, Shape, Keeps, Fields
<1> SUFFICES /\ ClientOK(d) /\ Keeps(c, d, {"pleas", "older"}) /\ Pleas(d) = Pleas(c) + 1
  OBVIOUS
<1> HIDE DEF d
<1>2. d.pleas \in Seq(Nat) /\ Pleas(d) = Pleas(c) + 1
  BY SMT, <1>1 DEF ClientOK, Pleas
<1> QED BY <1>1, <1>2 DEF ClientOK, Keeps, Fields

\* the oldest is removed, if there is one,
LEMMA DequeueIs ==
    ASSUME NEW c, ClientOK(c)
    PROVE  LET d == dequeue_response_plea(c)
           IN  /\ ClientOK(d) /\ Keeps(c, d, {"pleas", "older"})
               /\ Pleas(c) <= Pleas(d) + 1
<1> DEFINE d == dequeue_response_plea(c)
<1> SUFFICES /\ ClientOK(d) /\ Keeps(c, d, {"pleas", "older"}) /\ Pleas(c) <= Pleas(d) + 1
  OBVIOUS
<1>1. CASE c.pleas = <<>>
  <2>1. d = c
    BY <1>1 DEF dequeue_response_plea
  <2> HIDE DEF d
  <2> QED BY SMT, <2>1, Lengths DEF Keeps
<1>2. CASE c.pleas # <<>>
  <2>1. Shape(d) /\ Keeps(c, d, {"pleas", "older"}) /\ d.pleas = Tail(c.pleas)
    BY <1>2 DEF dequeue_response_plea, ClientOK, Shape, Keeps, Fields
  <2> HIDE DEF d
  <2>2. d.pleas \in Seq(Nat) /\ Pleas(c) <= Pleas(d) + 1
    BY SMT, <1>2, <2>1 DEF ClientOK, Pleas
  <2> QED BY <2>1, <2>2 DEF ClientOK, Keeps, Fields
<1> QED BY <1>1, <1>2

\* or all are.
LEMMA ClearIs ==
    ASSUME NEW c, ClientOK(c)
    PROVE  LET d == clear_response_pleas(c)
           IN  ClientOK(d) /\ Keeps(c, d, {"pleas", "older"}) /\ Pleas(d) = 0
<1> DEFINE d == clear_response_pleas(c)
<1>1. Shape(d) /\ Keeps(c, d, {"pleas", "older"}) /\ d.pleas = <<>>
  BY DEF clear_response_pleas, ClientOK, Shape, Keeps, Fields
<1> SUFFICES ClientOK(d) /\ Keeps(c, d, {"pleas", "older"}) /\ Pleas(d) = 0
  OBVIOUS
<1> HIDE DEF d
<1>2. d.pleas \in Seq(Nat) /\ Pleas(d) = 0
  BY SMT, <1>1 DEF Pleas
<1> QED BY <1>1, <1>2 DEF ClientOK, Keeps, Fields

\* Pleas get older, and none is lost by it.
LEMMA AgedIs ==
    ASSUME NEW c, ClientOK(c)
    PROVE  LET d == Aged(c)
           IN  ClientOK(d) /\ Keeps(c, d, {"pleas", "older", "workAge"}) /\ Pleas(d) = Pleas(c)
<1> DEFINE d == Aged(c)
<1>1. /\ Shape(d) /\ Keeps(c, d, {"pleas", "older", "workAge"})
      /\ d.pleas = [i \in DOMAIN c.pleas |-> Older(c.pleas[i])]
  <2>1. Shape(d)
    BY DEF Aged, ClientOK, Shape
  <2>2. Keeps(c, d, {"pleas", "older", "workAge"})
    BY DEF Aged, ClientOK, Shape, Keeps, Fields
  <2>3. d.pleas = [i \in DOMAIN c.pleas |-> Older(c.pleas[i])]
    BY DEF Aged, ClientOK, Shape, Fields
  <2> QED BY <2>1, <2>2, <2>3
<1> SUFFICES ClientOK(d) /\ Keeps(c, d, {"pleas", "older", "workAge"}) /\ Pleas(d) = Pleas(c)
  OBVIOUS
<1> HIDE DEF d
<1>2. d.pleas \in Seq(Nat) /\ Pleas(d) = Pleas(c)
  <2>1. c.pleas \in Seq(Nat) /\ DOMAIN c.pleas = 1..Len(c.pleas) /\ Len(c.pleas) \in Nat
    BY SMT DEF ClientOK
  <2>2. \A i \in 1..Len(c.pleas) : Older(c.pleas[i]) \in Nat
    BY SMT, <2>1 DEF Older
  <2>3. d.pleas \in Seq(Nat) /\ Len(d.pleas) = Len(c.pleas)
    BY SMT, <1>1, <2>1, <2>2
  <2> QED BY <2>3 DEF Pleas
<1> QED BY <1>1, <1>2 DEF ClientOK, Keeps, Fields

\* A message is queued.
LEMMA PushIs ==
    ASSUME NEW c, ClientOK(c), NEW r \in Requests \cup {"note"}
    PROVE  LET d == Push(c, r)
           IN  /\ ClientOK(d) /\ Keeps(c, d, {"txCount", "txQueue"}) /\ d.txCount # 0
               /\ Awaited(d) <= Awaited(c) + 1
               /\ r = "note" => Awaited(d) = Awaited(c)
<1> DEFINE d == Push(c, r)
<1>1. /\ Shape(d) /\ Keeps(c, d, {"txCount", "txQueue"}) /\ d.txCount = c.txCount + 1
      /\ d.txQueue = IF r = "note" THEN c.txQueue ELSE Append(c.txQueue, r)
  BY DEF Push, ClientOK, Shape, Keeps, Fields
<1> SUFFICES /\ ClientOK(d) /\ Keeps(c, d, {"txCount", "txQueue"}) /\ d.txCount # 0
             /\ Awaited(d) <= Awaited(c) + 1
             /\ r = "note" => Awaited(d) = Awaited(c)
  OBVIOUS
<1> HIDE DEF d
<1>2. d.txQueue \in Seq(Requests) /\ d.txCount \in Nat /\ d.txCount # 0
  BY SMT, <1>1 DEF ClientOK, Requests
<1>3. Awaited(d) <= Awaited(c) + 1 /\ (r = "note" => Awaited(d) = Awaited(c))
  <2>1. d.wire = c.wire /\ c.txQueue \in Seq(Requests) /\ c.wire \in Seq(Requests)
    BY <1>1 DEF Keeps, Fields, ClientOK
  <2>2. CASE r = "note"
    <3>1. Awaited(d) = Awaited(c)
      BY <1>1, <2>1, <2>2 DEF Awaited
    <3> QED BY SMT, <3>1, Lengths
  <2>3. CASE r # "note"
    <3>1. Len(d.txQueue) = Len(c.txQueue) + 1 /\ Len(c.txQueue) \in Nat /\ Len(c.wire) \in Nat
      BY SMT, <1>1, <2>1, <2>3
    <3> DEFINE m == Len(c.wire)
               n == Len(c.txQueue)
    <3>2. Awaited(d) = m + (n + 1) /\ Awaited(c) = m + n /\ m \in Nat /\ n \in Nat
      BY <2>1, <3>1 DEF Awaited
    <3> HIDE DEF m, n
    <3>3. m + (n + 1) <= (m + n) + 1
      BY SMT, <3>2
    <3> QED BY <2>3, <3>2, <3>3
  <2> QED BY <2>2, <2>3
<1> QED BY <1>1, <1>2, <1>3 DEF ClientOK, Keeps, Fields

\* The queue is emptied.
LEMMA EmptiedIs ==
    ASSUME NEW c, ClientOK(c)
    PROVE  LET d == Emptied(c)
           IN  ClientOK(d) /\ Keeps(c, d, {"txCount", "txQueue"}) /\ d.txQueue = <<>>
<1> DEFINE d == Emptied(c)
<1>1. Shape(d) /\ Keeps(c, d, {"txCount", "txQueue"}) /\ d.txCount = 0 /\ d.txQueue = <<>>
  BY DEF Emptied, ClientOK, Shape, Keeps, Fields
<1> SUFFICES ClientOK(d) /\ Keeps(c, d, {"txCount", "txQueue"}) /\ d.txQueue = <<>>
  OBVIOUS
<1> HIDE DEF d
<1>2. d.txQueue \in Seq(Requests) /\ d.txCount \in Nat
  BY SMT, <1>1
<1> QED BY <1>1, <1>2 DEF ClientOK, Keeps, Fields

\* sendSocketData begins a write when the client is connected, and forgets the messages otherwise.
LEMMA SendSocketDataIs ==
    ASSUME NEW c, ClientOK(c)
    PROVE  LET d == sendSocketData(c)
           IN  /\ ClientOK(d) /\ Keeps(c, d, {"txPending", "txCount", "txQueue", "ops", "wire"})
               /\ Awaited(d) <= Awaited(c)
               /\ IF ~isConnected(c) \/ c.txCount = 0
                  THEN d.ops = c.ops /\ ~d.txPending
                  ELSE d.ops = [c.ops EXCEPT !["write"] = @ + 1] /\ d.txPending = c.txPending
<1> DEFINE d == sendSocketData(c)
           e == Emptied(c)
<1> SUFFICES /\ ClientOK(d) /\ Keeps(c, d, {"txPending", "txCount", "txQueue", "ops", "wire"})
             /\ Awaited(d) <= Awaited(c)
             /\ IF ~isConnected(c) \/ c.txCount = 0
                THEN d.ops = c.ops /\ ~d.txPending
                ELSE d.ops = [c.ops EXCEPT !["write"] = @ + 1] /\ d.txPending = c.txPending
  OBVIOUS
<1>1. ClientOK(e) /\ Keeps(c, e, {"txCount", "txQueue"}) /\ e.txQueue = <<>>
  BY EmptiedIs
<1>2. CASE ~isConnected(c) \/ c.txCount = 0
  <2>1. d = [e EXCEPT !.txPending = FALSE]
    BY <1>2 DEF sendSocketData
  <2> HIDE DEF d, e
  <2>2. Shape(d) /\ Keeps(e, d, {"txPending"}) /\ d.txPending = FALSE
    BY <1>1, <2>1 DEF ClientOK, Shape, Keeps, Fields
  <2>3. ClientOK(d) /\ d.txQueue = <<>> /\ d.wire = c.wire /\ d.ops = c.ops
    BY <1>1, <2>2 DEF ClientOK, Keeps, Fields
  <2>4. Keeps(c, d, {"txPending", "txCount", "txQueue", "ops", "wire"})
    BY <1>1, <2>2 DEF Keeps
  <2>5. Awaited(d) <= Awaited(c)
    <3>1. Len(d.txQueue) = 0 /\ Len(c.wire) \in Nat /\ Len(c.txQueue) \in Nat
      BY SMT, <2>3 DEF ClientOK
    <3> QED BY SMT, <2>3, <3>1 DEF Awaited
  <2> QED BY <1>2, <2>2, <2>3, <2>4, <2>5
<1>3. CASE ~(~isConnected(c) \/ c.txCount = 0)
  <2> DEFINE f == [e EXCEPT !.wire = @ \o c.txQueue]
  <2>1. d = Start(f, "write")
    BY <1>3 DEF sendSocketData
  <2>2. Shape(f) /\ Keeps(e, f, {"wire"}) /\ f.wire = e.wire \o c.txQueue
    <3> HIDE DEF e
    <3> QED BY <1>1 DEF ClientOK, Shape, Keeps, Fields
  <2> HIDE DEF d, e, f
  <2>3. e.wire = c.wire /\ c.wire \in Seq(Requests) /\ c.txQueue \in Seq(Requests)
    BY <1>1 DEF Keeps, Fields, ClientOK
  <2>4. f.wire \in Seq(Requests) /\ Len(f.wire) = Len(c.wire) + Len(c.txQueue)
    BY SMT, <2>2, <2>3
  <2>5. ClientOK(f)
    BY <1>1, <2>2, <2>4 DEF ClientOK, Keeps, Fields
  <2>6. ClientOK(d) /\ Keeps(f, d, {"ops"}) /\ d.ops = [f.ops EXCEPT !["write"] = @ + 1]
    BY <2>1, <2>5, StartIs DEF Ops
  <2>7. d.wire = f.wire /\ d.txQueue = <<>> /\ f.ops = c.ops /\ d.txPending = c.txPending
    BY <1>1, <2>2, <2>6 DEF Keeps, Fields
  <2>8. Keeps(c, d, {"txPending", "txCount", "txQueue", "ops", "wire"})
    BY <1>1, <2>2, <2>6 DEF Keeps
  <2>9. Awaited(d) <= Awaited(c)
    <3>1. Len(d.txQueue) = 0 /\ Len(d.wire) = Len(c.wire) + Len(c.txQueue)
      BY <2>4, <2>7
    <3>2. Len(c.wire) \in Nat /\ Len(c.txQueue) \in Nat
      BY SMT, <2>3
    <3> QED BY SMT, <3>1, <3>2 DEF Awaited
  <2> QED BY <1>3, <2>6, <2>7, <2>8, <2>9
<1> QED BY <1>2, <1>3

\* send queues the message, and begins a write when none is under way.
LEMMA SendIs ==
    ASSUME NEW c, ClientOK(c), NEW r \in Requests \cup {"note"}
    PROVE  LET d == send(c, r)
           IN  /\ ClientOK(d) /\ Keeps(c, d, {"txPending", "txCount", "txQueue", "ops", "wire"})
               /\ Awaited(d) <= Awaited(c) + 1
               /\ r = "note" => Awaited(d) <= Awaited(c)
               /\ \/ d.ops = c.ops /\ d.txPending = c.txPending
                  \/ /\ isConnected(c) /\ ~c.txPending
                     /\ d.txPending /\ d.ops = [c.ops EXCEPT !["write"] = @ + 1]
<1> DEFINE d == send(c, r)
           queued == IF c.txCount < TxCapacity THEN Push(c, r) ELSE c
<1> SUFFICES /\ ClientOK(d) /\ Keeps(c, d, {"txPending", "txCount", "txQueue", "ops", "wire"})
             /\ Awaited(d) <= Awaited(c) + 1
             /\ r = "note" => Awaited(d) <= Awaited(c)
             /\ \/ d.ops = c.ops /\ d.txPending = c.txPending
                \/ /\ isConnected(c) /\ ~c.txPending
                   /\ d.txPending /\ d.ops = [c.ops EXCEPT !["write"] = @ + 1]
  OBVIOUS
<1>1. /\ ClientOK(queued) /\ Keeps(c, queued, {"txCount", "txQueue"})
      /\ Awaited(queued) <= Awaited(c) + 1
      /\ r = "note" => Awaited(queued) = Awaited(c)
  <2>1. CASE c.txCount < TxCapacity
    BY <2>1, PushIs
  <2>2. CASE ~(c.txCount < TxCapacity)
    <3>1. queued = c /\ Awaited(c) \in Nat
      BY <2>2, Lengths
    <3> HIDE DEF queued
    <3> QED BY SMT, <3>1 DEF Keeps
  <2> QED BY <2>1, <2>2
<1>2. CASE c.txPending
  <2>1. d = queued
    BY <1>2 DEF send
  <2> HIDE DEF d, queued
  <2>2. d.wire = c.wire /\ d.ops = c.ops /\ d.txPending = c.txPending
    BY <1>1, <2>1 DEF Keeps, Fields
  <2>3. Awaited(c) \in Nat /\ Awaited(d) \in Nat
    BY <1>1, <2>1, Lengths
  <2>4. Keeps(c, d, {"txPending", "txCount", "txQueue", "ops", "wire"})
    BY <1>1, <2>1 DEF Keeps
  <2> QED BY SMT, <1>1, <2>1, <2>2, <2>3, <2>4
<1>3. CASE ~c.txPending
  <2> DEFINE e == [queued EXCEPT !.txPending = TRUE]
  <2>1. d = sendSocketData(e)
    BY <1>3 DEF send
  <2>2. Shape(e) /\ Keeps(queued, e, {"txPending"}) /\ e.txPending = TRUE
    <3> HIDE DEF queued
    <3> QED BY <1>1 DEF ClientOK, Shape, Keeps, Fields
  <2> HIDE DEF d, queued, e
  <2>3. ClientOK(e)
    BY <1>1, <2>2 DEF ClientOK, Keeps, Fields
  <2>4. e.wire = c.wire /\ e.ops = c.ops /\ e.txQueue = queued.txQueue
    BY <1>1, <2>2 DEF Keeps, Fields
  <2>5. isConnected(e) <=> isConnected(c)
    BY <1>1, <2>2 DEF Keeps, Fields, isConnected, isPendingState
  <2>6. /\ ClientOK(d) /\ Keeps(e, d, {"txPending", "txCount", "txQueue", "ops", "wire"})
        /\ Awaited(d) <= Awaited(e)
        /\ IF ~isConnected(e) \/ e.txCount = 0
           THEN d.ops = e.ops /\ ~d.txPending
           ELSE d.ops = [e.ops EXCEPT !["write"] = @ + 1] /\ d.txPending = e.txPending
    BY <2>1, <2>3, SendSocketDataIs
  <2>7. Keeps(c, d, {"txPending", "txCount", "txQueue", "ops", "wire"})
    BY <1>1, <2>2, <2>6 DEF Keeps
  <2>8. Awaited(e) = Awaited(queued) /\ Awaited(c) \in Nat /\ Awaited(d) \in Nat /\ Awaited(e) \in Nat
    <3>1. Awaited(e) = Awaited(queued)
      BY <1>1, <2>2 DEF Awaited, Keeps, Fields
    <3> QED BY <2>3, <2>6, <3>1, Lengths
  <2>9. Awaited(d) <= Awaited(c) + 1 /\ (r = "note" => Awaited(d) <= Awaited(c))
    BY SMT, <1>1, <2>6, <2>8
  <2>10. d.txPending \in BOOLEAN /\ c.txPending \in BOOLEAN
    BY <2>6 DEF ClientOK
  <2>11. \/ d.ops = c.ops /\ d.txPending = c.txPending
         \/ /\ isConnected(c) /\ ~c.txPending
            /\ d.txPending /\ d.ops = [c.ops EXCEPT !["write"] = @ + 1]
    BY <1>3, <2>2, <2>4, <2>5, <2>6, <2>10
  <2> QED BY <2>6, <2>7, <2>9, <2>11
<1> QED BY <1>2, <1>3

-----------------------------------------------------------------------------
(* What keeps the order of the handlers *)

\* The fields that it is about are the same.
SameCore(c, d) ==
    /\ d.conn = c.conn /\ d.connecting = c.connecting /\ d.disconnecting = c.disconnecting
    /\ d.connected = c.connected /\ d.socket = c.socket /\ d.txPending = c.txPending
    /\ d.ops = c.ops

\* The relations are about some of the fields only.
LEMMA CoreSame ==
    ASSUME NEW c, NEW d, NEW q, NEW busy, NEW told, NEW u, NEW v, Core(c, q, busy, told, u),
           SameCore(c, d), v.secure = u.secure, v.version = u.version
    PROVE  Core(d, q, busy, told, v)
BY DEF Core, SameCore, OpsOK, EarlyOK, ConnectingOK, LinkedOK, UnlinkedOK, ClosingOK, QuietOK,
       OwnerOK

\* A handler is taken from the queue.
LEMMA CorePop ==
    ASSUME NEW c, NEW q \in Seq(Handlers), NEW busy, NEW told, NEW u, Core(c, q, busy, told, u),
           q # <<>>, Head(q) # "rotateConnect"
    PROVE  Core(c, Tail(q), busy, told, u)
<1>1. \A S : NoneIn(q, S) => NoneIn(Tail(q), S)
  BY Popped
<1>2. \A S : Once(q, S) => Once(Tail(q), S)
  BY Popped
<1>3. \A A, B : NoneBehind(q, A, B) => NoneBehind(Tail(q), A, B)
  BY Popped
<1>4. NoneIn(Tail(q), Rotates) => NoneIn(q, Rotates)
  BY Popped, Members
<1>5. OpsOK(c, Tail(q), busy)
  BY <1>1, <1>2 DEF Core, OpsOK, AtMostOne, Nothing
<1>6. EarlyOK(c, Tail(q), busy, told)
  BY <1>1 DEF Core, EarlyOK, Nothing, Calm
<1>7. ConnectingOK(c, Tail(q), busy)
  BY <1>1, <1>3 DEF Core, ConnectingOK, Nothing
<1>8. LinkedOK(c, Tail(q)) /\ UnlinkedOK(c, Tail(q))
  BY <1>1, <1>3 DEF Core, LinkedOK, UnlinkedOK, Nothing
<1>9. ClosingOK(c, Tail(q), busy, u.secure)
  BY <1>1, <1>3 DEF Core, ClosingOK, Nothing
<1>10. QuietOK(c, Tail(q), busy, told, u)
  BY <1>1 DEF Core, QuietOK, Calm
<1>11. OwnerOK(c, Tail(q), told)
  BY <1>1, <1>2, <1>4 DEF Core, OwnerOK
<1> QED BY <1>5, <1>6, <1>7, <1>8, <1>9, <1>10, <1>11 DEF Core

\* A handler is appended to the queue.
LEMMA Appended ==
    ASSUME NEW q \in Seq(Handlers), NEW h \in Handlers
    PROVE  /\ q \o <<h>> \in Seq(Handlers) /\ Append(q, h) = q \o <<h>>
           /\ \A S : NoneIn(q \o <<h>>, S) <=> NoneIn(q, S) /\ h \notin S
           /\ \A S : Once(q, S) /\ (NoneIn(q, S) \/ h \notin S) => Once(q \o <<h>>, S)
           /\ \A A, B : NoneBehind(q, A, B) /\ (NoneIn(q, A) \/ h \notin B)
                        => NoneBehind(q \o <<h>>, A, B)
<1> DEFINE t == <<h>>
<1>1. /\ t \in Seq(Handlers) /\ (\A S : NoneIn(t, S) <=> h \notin S) /\ (\A S : Once(t, S))
      /\ \A A, B : NoneBehind(t, A, B)
  BY Single
<1>2. Append(q, h) = q \o t
  BY SMT
<1> SUFFICES
      /\ q \o t \in Seq(Handlers)
      /\ \A S : NoneIn(q \o t, S) <=> NoneIn(q, S) /\ h \notin S
      /\ \A S : Once(q, S) /\ (NoneIn(q, S) \/ h \notin S) => Once(q \o t, S)
      /\ \A A, B : NoneBehind(q, A, B) /\ (NoneIn(q, A) \/ h \notin B) => NoneBehind(q \o t, A, B)
  BY <1>2
<1> HIDE DEF t
<1> QED BY <1>1, Joined

\* The client gave its connection up, and has none to detect a mode with.
GivenUp(c, u) ==
    ~c.connected /\ ~c.disconnecting /\ (u.secure \/ (u.version # AutoDetect /\ c.conn))

\* A disconnection is asked for.
LEMMA CoreDisc ==
    ASSUME NEW c, NEW q \in Seq(Handlers), NEW busy, NEW told, NEW u, Core(c, q, busy, told, u),
           Nothing(c.ops["resolve"], q, Early), c.disconnecting => NoneIn(q, Finals),
           ~GivenUp(c, u)
    PROVE  q \o <<"disconnect">> \in Seq(Handlers) /\ Core(c, q \o <<"disconnect">>, busy, told, u)
<1> DEFINE h == "disconnect"
           p == q \o <<h>>
<1> SUFFICES p \in Seq(Handlers) /\ Core(c, p, busy, told, u)
  OBVIOUS
<1>1. h \in Handlers /\ h \notin Early /\ h \notin Starts /\ h \notin Connects /\ h \notin Reads /\ h \notin Writes /\ h \notin Timeouts /\ h \notin Shuts /\ h \notin Closes /\ h \notin Finals /\ h \notin Rotates
  BY Members, AreHandlers
<1> HIDE DEF h
<1>2. /\ p \in Seq(Handlers)
      /\ \A S : NoneIn(p, S) <=> NoneIn(q, S) /\ h \notin S
      /\ \A S : Once(q, S) /\ (NoneIn(q, S) \/ h \notin S) => Once(p, S)
      /\ \A A, B : NoneBehind(q, A, B) /\ (NoneIn(q, A) \/ h \notin B) => NoneBehind(p, A, B)
  BY <1>1, Appended
<1> HIDE DEF p
<1>5. OpsOK(c, p, busy)
  BY <1>1, <1>2 DEF Core, OpsOK, AtMostOne, Nothing
<1>6. EarlyOK(c, p, busy, told)
  BY <1>1, <1>2 DEF Core, EarlyOK, Nothing, Calm
<1>7. ConnectingOK(c, p, busy)
  BY <1>1, <1>2 DEF Core, ConnectingOK, Nothing
<1>8. LinkedOK(c, p) /\ UnlinkedOK(c, p)
  BY <1>1, <1>2 DEF Core, LinkedOK, UnlinkedOK, Nothing
<1>9. ClosingOK(c, p, busy, u.secure)
  BY <1>1, <1>2 DEF Core, ClosingOK, Nothing
<1>10. QuietOK(c, p, busy, told, u)
  BY <1>1, <1>2 DEF Core, QuietOK, GivenUp, Calm
<1>11. OwnerOK(c, p, told)
  BY <1>1, <1>2 DEF Core, OwnerOK
<1> QED BY <1>2, <1>5, <1>6, <1>7, <1>8, <1>9, <1>10, <1>11 DEF Core

\* The login is given up.
LEMMA CoreTimeout ==
    ASSUME NEW c, NEW q \in Seq(Handlers), NEW busy, NEW told, NEW u, Core(c, q, busy, told, u), c.connected
    PROVE  q \o <<"login_timeout">> \in Seq(Handlers) /\ Core(c, q \o <<"login_timeout">>, busy, told, u)
<1> DEFINE h == "login_timeout"
           p == q \o <<h>>
<1> SUFFICES p \in Seq(Handlers) /\ Core(c, p, busy, told, u)
  OBVIOUS
<1>1. h \in Handlers /\ h \notin Early /\ h \notin Starts /\ h \notin Connects /\ h \notin Reads /\ h \notin Writes /\ h \notin Discs /\ h \notin Shuts /\ h \notin Closes /\ h \notin Finals /\ h \notin Rotates
  BY Members, AreHandlers
<1> HIDE DEF h
<1>2. /\ p \in Seq(Handlers)
      /\ \A S : NoneIn(p, S) <=> NoneIn(q, S) /\ h \notin S
      /\ \A S : Once(q, S) /\ (NoneIn(q, S) \/ h \notin S) => Once(p, S)
      /\ \A A, B : NoneBehind(q, A, B) /\ (NoneIn(q, A) \/ h \notin B) => NoneBehind(p, A, B)
  BY <1>1, Appended
<1> HIDE DEF p
<1>5. OpsOK(c, p, busy)
  BY <1>1, <1>2 DEF Core, OpsOK, AtMostOne, Nothing
<1>6. EarlyOK(c, p, busy, told)
  BY <1>1, <1>2 DEF Core, EarlyOK, Nothing, Calm
<1>7. ConnectingOK(c, p, busy)
  BY <1>1, <1>2 DEF Core, ConnectingOK, Nothing
<1>8. LinkedOK(c, p) /\ UnlinkedOK(c, p)
  BY <1>1, <1>2 DEF Core, LinkedOK, UnlinkedOK, Nothing
<1>9. ClosingOK(c, p, busy, u.secure)
  BY <1>1, <1>2 DEF Core, ClosingOK, Nothing
<1>10. QuietOK(c, p, busy, told, u)
  BY <1>1, <1>2 DEF Core, QuietOK, Calm
<1>11. OwnerOK(c, p, told)
  BY <1>1, <1>2 DEF Core, OwnerOK
<1> QED BY <1>2, <1>5, <1>6, <1>7, <1>8, <1>9, <1>10, <1>11 DEF Core

\* send begins a write when none is under way.
LEMMA SendCore ==
    ASSUME NEW c, ClientOK(c), NEW r \in Requests \cup {"note"}, NEW q, NEW busy, NEW told, NEW u,
           Core(c, q, busy, told, u)
    PROVE  Core(send(c, r), q, busy, told, u)
<1> DEFINE d == send(c, r)
<1> SUFFICES Core(d, q, busy, told, u)
  OBVIOUS
<1>1. /\ ClientOK(d) /\ Keeps(c, d, {"txPending", "txCount", "txQueue", "ops", "wire"})
      /\ \/ d.ops = c.ops /\ d.txPending = c.txPending
         \/ /\ isConnected(c) /\ ~c.txPending
            /\ d.txPending /\ d.ops = [c.ops EXCEPT !["write"] = @ + 1]
  BY SendIs
<1> HIDE DEF d
<1>2. /\ d.conn = c.conn /\ d.connecting = c.connecting /\ d.disconnecting = c.disconnecting
      /\ d.connected = c.connected /\ d.socket = c.socket
  BY <1>1 DEF Keeps, Fields
<1>3. CASE d.ops = c.ops /\ d.txPending = c.txPending
  <2>1. SameCore(c, d)
    BY <1>2, <1>3 DEF SameCore
  <2> QED BY <2>1, CoreSame
<1>4. CASE /\ isConnected(c) /\ ~c.txPending
           /\ d.txPending /\ d.ops = [c.ops EXCEPT !["write"] = @ + 1]
  <2>1. c.connected /\ ~c.connecting /\ ~c.disconnecting
    BY <1>4 DEF isConnected, isPendingState
  <2>2. c.ops["write"] = 0 /\ NoneIn(q, Writes)
    BY <1>4, <2>1 DEF Core, LinkedOK, Nothing
  <2>3. /\ d.ops["write"] = 1 /\ d.ops["resolve"] = c.ops["resolve"]
        /\ d.ops["connect"] = c.ops["connect"] /\ d.ops["read"] = c.ops["read"]
        /\ d.ops["shutdown"] = c.ops["shutdown"]
    BY SMT, <1>4, <2>2 DEF ClientOK, Ops
  <2>4. OpsOK(d, q, busy)
    BY <2>2, <2>3, Absent DEF Core, OpsOK, AtMostOne, Nothing
  <2>5. EarlyOK(d, q, busy, told) /\ ConnectingOK(d, q, busy)
    BY <1>2, <2>1, <2>3 DEF Core, EarlyOK, ConnectingOK, Nothing
  <2>6. LinkedOK(d, q) /\ UnlinkedOK(d, q)
    BY <1>2, <1>4, <2>1 DEF Core, LinkedOK, UnlinkedOK
  <2>7. ClosingOK(d, q, busy, u.secure) /\ QuietOK(d, q, busy, told, u) /\ OwnerOK(d, q, told)
    BY <1>2, <2>1, <2>3 DEF Core, ClosingOK, QuietOK, OwnerOK, Nothing
  <2> QED BY <2>4, <2>5, <2>6, <2>7 DEF Core
<1> QED BY <1>1, <1>3, <1>4

\* What disconnect_finalize does to the client in any case.
Closed(c) ==
    [NoSocketOps(c) EXCEPT
         !.socket = "null", !.session = "none", !.authpending = FALSE,
         !.disconnecting = FALSE, !.txPending = FALSE, !.miningSet = FALSE]

\* What disconnect_finalize() leaves of a client.
LEMMA ClosedIs ==
    ASSUME NEW c, ClientOK(c)
    PROVE  LET d == Closed(c)
           IN  /\ ClientOK(d) /\ d.conn = c.conn /\ d.connecting = c.connecting
               /\ d.connected = c.connected /\ ~d.disconnecting /\ d.socket = "null"
               /\ d.ops["resolve"] = c.ops["resolve"]
               /\ \A o \in Ops \ {"resolve"} : d.ops[o] = 0
<1> DEFINE d == Closed(c)
           e == NoSocketOps(c)
<1> SUFFICES /\ ClientOK(d) /\ d.conn = c.conn /\ d.connecting = c.connecting
             /\ d.connected = c.connected /\ ~d.disconnecting /\ d.socket = "null"
             /\ d.ops["resolve"] = c.ops["resolve"]
             /\ \A o \in Ops \ {"resolve"} : d.ops[o] = 0
  OBVIOUS
<1>1. /\ ClientOK(e) /\ Keeps(c, e, {"ops"}) /\ e.ops["resolve"] = c.ops["resolve"]
      /\ \A o \in Ops \ {"resolve"} : e.ops[o] = 0
  BY NoSocketOpsIs
<1>2. d = [e EXCEPT !.socket = "null", !.session = "none", !.authpending = FALSE,
                    !.disconnecting = FALSE, !.txPending = FALSE, !.miningSet = FALSE]
  BY DEF Closed
<1> HIDE DEF d, e
<1>3. /\ Shape(d) /\ d.socket = "null" /\ d.disconnecting = FALSE /\ d.txPending = FALSE
      /\ Keeps(e, d, {"socket", "session", "authpending", "disconnecting", "txPending", "miningSet"})
  BY <1>1, <1>2 DEF ClientOK, Shape, Keeps, Fields
<1> QED BY <1>1, <1>3 DEF ClientOK, Keeps, Fields

\* The client is no longer timed and has been given up.
LEMMA EndedIs ==
    ASSUME NEW c, ClientOK(c)
    PROVE  LET d == Ended(c)
           IN  /\ ClientOK(d) /\ ~d.conn /\ d.connecting = c.connecting
               /\ d.connected = c.connected /\ d.disconnecting = c.disconnecting
               /\ d.socket = c.socket /\ d.ops = c.ops
<1> DEFINE d == Ended(c)
           e == clear_response_pleas(c)
<1> SUFFICES /\ ClientOK(d) /\ ~d.conn /\ d.connecting = c.connecting
             /\ d.connected = c.connected /\ d.disconnecting = c.disconnecting
             /\ d.socket = c.socket /\ d.ops = c.ops
  OBVIOUS
<1>1. ClientOK(e) /\ Keeps(c, e, {"pleas", "older"})
  BY ClearIs
<1>2. d = [e EXCEPT !.timer = FALSE, !.conn = FALSE]
  BY DEF Ended
<1> HIDE DEF d, e
<1>3. Shape(d) /\ d.conn = FALSE /\ Keeps(e, d, {"timer", "conn"})
  BY <1>1, <1>2 DEF ClientOK, Shape, Keeps, Fields
<1> QED BY <1>1, <1>3 DEF ClientOK, Keeps, Fields

\* What the callers of disconnect_finalize ensure: nothing of a TLS connection is left, and what
\* is left of another one is handled before the next.
Finalizable(c, q, u) ==
    /\ OpsOK(c, q, FALSE) /\ ~c.connected
    /\ Nothing(c.ops["resolve"], q, Early) /\ Nothing(c.ops["shutdown"], q, Closes)
    /\ ~c.connecting => Nothing(c.ops["connect"], q, Connects)
    /\ c.connecting => Nothing(c.ops["read"], q, Reads) /\ Nothing(c.ops["write"], q, Writes)
    /\ u.secure => Calm(q) /\ c.ops["read"] = 0 /\ c.ops["write"] = 0
    /\ NoneBehind(q, Starts, Reads) /\ NoneBehind(q, Starts, Writes)
    /\ NoneIn(q, Starts) \/ (c.ops["read"] = 0 /\ c.ops["write"] = 0)

\* disconnect_finalize tries the next stratum mode.
LEMMA FinalizedRetry ==
    ASSUME NEW c, ClientOK(c), c.conn, NEW q \in Seq(Handlers), NEW told, NEW u,
           Finalizable(c, q, u), OwnerOK(c, q, told),
           u.version = AutoDetect, told # "up"
    PROVE  LET p == q \o Aborted(c) \o <<"start_connect">>
           IN  p \in Seq(Handlers) /\ Core(Closed(c), p, FALSE, told, u)
<1> DEFINE h == "start_connect"
           t == Aborted(c)
           b == q \o t
           p == b \o <<h>>
           d == Closed(c)
           busy == FALSE
<1> SUFFICES p \in Seq(Handlers) /\ Core(d, p, busy, told, u)
  OBVIOUS
<1>1. h \in Handlers /\ h \notin Early /\ h \notin Connects /\ h \notin Reads /\ h \notin Writes /\ h \notin Timeouts /\ h \notin Discs /\ h \notin Shuts /\ h \notin Closes /\ h \notin Finals /\ h \notin Rotates
  BY Members, AreHandlers
<1>2. /\ c.ops["read"] \in {0, 1} /\ c.ops["write"] \in {0, 1} /\ c.ops["connect"] \in {0, 1}
      /\ c.ops["shutdown"] = 0 /\ c.ops["resolve"] = 0
  BY DEF Finalizable, OpsOK, AtMostOne, Nothing
<1>3. /\ t \in Seq(Handlers)
      /\ NoneIn(t, Reads) <=> c.ops["read"] = 0
      /\ NoneIn(t, Writes) <=> c.ops["write"] = 0
      /\ NoneIn(t, Connects) <=> c.ops["connect"] = 0
      /\ NoneIn(t, Shuts)
      /\ NoneIn(t, Early) /\ NoneIn(t, Starts) /\ NoneIn(t, Timeouts) /\ NoneIn(t, Discs)
      /\ NoneIn(t, Finals) /\ NoneIn(t, Rotates)
      /\ Once(t, Reads) /\ Once(t, Writes) /\ Once(t, Connects) /\ Once(t, Closes)
  BY SMT, <1>2, AbortedIs
<1>4. NoneIn(t, Closes)
  BY <1>3, Parts
<1> HIDE DEF h, t
<1>12. /\ b \in Seq(Handlers)
       /\ \A S : NoneIn(b, S) <=> NoneIn(q, S) /\ NoneIn(t, S)
       /\ \A S : Once(q, S) /\ Once(t, S) /\ (NoneIn(q, S) \/ NoneIn(t, S)) => Once(b, S)
       /\ \A A, B : /\ NoneBehind(q, A, B) /\ NoneBehind(t, A, B)
                    /\ NoneIn(q, A) \/ NoneIn(t, B)
                    => NoneBehind(b, A, B)
  BY <1>3, Joined
<1> HIDE DEF b
<1>13. /\ p \in Seq(Handlers)
       /\ \A S : NoneIn(p, S) <=> NoneIn(b, S) /\ h \notin S
       /\ \A S : Once(b, S) /\ (NoneIn(b, S) \/ h \notin S) => Once(p, S)
       /\ \A A, B : NoneBehind(b, A, B) /\ (NoneIn(b, A) \/ h \notin B) => NoneBehind(p, A, B)
  BY <1>1, <1>12, Appended
<1>14. /\ d.conn = c.conn /\ d.connecting = c.connecting
       /\ d.connected = c.connected /\ ~d.disconnecting /\ d.socket = "null"
       /\ d.ops["resolve"] = 0 /\ d.ops["connect"] = 0 /\ d.ops["read"] = 0
       /\ d.ops["write"] = 0 /\ d.ops["shutdown"] = 0
  BY <1>2, ClosedIs DEF Ops
<1> HIDE DEF p, d
<1>15. OpsOK(d, p, busy)
  <2>1. /\ Once(b, Reads) /\ Once(b, Writes) /\ Once(b, Connects) /\ NoneIn(b, Early) /\ NoneIn(b, Closes)
    BY <1>2, <1>3, <1>4, <1>12 DEF Finalizable, OpsOK, AtMostOne, Nothing
  <2>2. /\ Once(p, Reads) /\ Once(p, Writes) /\ Once(p, Connects) /\ NoneIn(p, Early) /\ NoneIn(p, Closes)
    BY <1>1, <1>13, <2>1
  <2> QED BY SMT, <1>14, <2>2, Absent DEF OpsOK, AtMostOne
<1>16. EarlyOK(d, p, busy, told)
  BY <1>1, <1>3, <1>12, <1>13, <1>14 DEF Finalizable, EarlyOK, Nothing
<1>17. ConnectingOK(d, p, busy)
  BY <1>1, <1>3, <1>12, <1>13, <1>14 DEF Finalizable, ConnectingOK, Nothing
<1>18. LinkedOK(d, p)
  BY <1>14 DEF Finalizable, LinkedOK
<1>19. UnlinkedOK(d, p)
  <2>1. NoneBehind(t, Starts, Reads) /\ NoneBehind(t, Starts, Writes)
    BY <1>3, Absent
  <2>2. NoneBehind(b, Starts, Reads) /\ NoneBehind(b, Starts, Writes)
    BY <1>3, <1>12, <2>1 DEF Finalizable
  <2> QED BY <1>1, <1>13, <1>14, <2>2 DEF UnlinkedOK
<1>20. ClosingOK(d, p, busy, u.secure)
  BY <1>1, <1>4, <1>12, <1>13, <1>14 DEF Finalizable, ClosingOK, Nothing
<1>21. QuietOK(d, p, busy, told, u)
  BY <1>1, <1>3, <1>12, <1>13, <1>14 DEF Finalizable, QuietOK, Calm
<1>22. OwnerOK(d, p, told)
  BY <1>1, <1>3, <1>12, <1>13, <1>14, Absent DEF OwnerOK
<1> QED BY <1>13, <1>15, <1>16, <1>17, <1>18, <1>19, <1>20, <1>21, <1>22 DEF Core

\* disconnect_finalize gives the client up.
LEMMA FinalizedDown ==
    ASSUME NEW c, ClientOK(c), c.conn, NEW q \in Seq(Handlers), NEW told, NEW u,
           Finalizable(c, q, u), OwnerOK(c, q, told)
    PROVE  LET p == q \o Aborted(c) \o <<"rotateConnect">>
           IN  p \in Seq(Handlers) /\ Core(Ended(Closed(c)), p, FALSE, "down", u)
<1> DEFINE h == "rotateConnect"
           t == Aborted(c)
           b == q \o t
           p == b \o <<h>>
           d == Ended(Closed(c))
           busy == FALSE
<1> SUFFICES p \in Seq(Handlers) /\ Core(d, p, busy, "down", u)
  OBVIOUS
<1>1. h \in Handlers /\ h \notin Early /\ h \notin Starts /\ h \notin Connects /\ h \notin Reads /\ h \notin Writes /\ h \notin Timeouts /\ h \notin Discs /\ h \notin Shuts /\ h \notin Closes /\ h \notin Finals
  BY Members, AreHandlers
<1>2. /\ c.ops["read"] \in {0, 1} /\ c.ops["write"] \in {0, 1} /\ c.ops["connect"] \in {0, 1}
      /\ c.ops["shutdown"] = 0 /\ c.ops["resolve"] = 0
  BY DEF Finalizable, OpsOK, AtMostOne, Nothing
<1>3. /\ t \in Seq(Handlers)
      /\ NoneIn(t, Reads) <=> c.ops["read"] = 0
      /\ NoneIn(t, Writes) <=> c.ops["write"] = 0
      /\ NoneIn(t, Connects) <=> c.ops["connect"] = 0
      /\ NoneIn(t, Shuts)
      /\ NoneIn(t, Early) /\ NoneIn(t, Starts) /\ NoneIn(t, Timeouts) /\ NoneIn(t, Discs)
      /\ NoneIn(t, Finals) /\ NoneIn(t, Rotates)
      /\ Once(t, Reads) /\ Once(t, Writes) /\ Once(t, Connects) /\ Once(t, Closes)
  BY SMT, <1>2, AbortedIs
<1>4. NoneIn(t, Closes)
  BY <1>3, Parts
<1> HIDE DEF h, t
<1>12. /\ b \in Seq(Handlers)
       /\ \A S : NoneIn(b, S) <=> NoneIn(q, S) /\ NoneIn(t, S)
       /\ \A S : Once(q, S) /\ Once(t, S) /\ (NoneIn(q, S) \/ NoneIn(t, S)) => Once(b, S)
       /\ \A A, B : /\ NoneBehind(q, A, B) /\ NoneBehind(t, A, B)
                    /\ NoneIn(q, A) \/ NoneIn(t, B)
                    => NoneBehind(b, A, B)
  BY <1>3, Joined
<1> HIDE DEF b
<1>13. /\ p \in Seq(Handlers)
       /\ \A S : NoneIn(p, S) <=> NoneIn(b, S) /\ h \notin S
       /\ \A S : Once(b, S) /\ (NoneIn(b, S) \/ h \notin S) => Once(p, S)
       /\ \A A, B : NoneBehind(b, A, B) /\ (NoneIn(b, A) \/ h \notin B) => NoneBehind(p, A, B)
  BY <1>1, <1>12, Appended
<1>14. /\ ~d.conn /\ d.connecting = c.connecting
       /\ d.connected = c.connected /\ ~d.disconnecting /\ d.socket = "null"
       /\ d.ops["resolve"] = 0 /\ d.ops["connect"] = 0 /\ d.ops["read"] = 0
       /\ d.ops["write"] = 0 /\ d.ops["shutdown"] = 0
  BY SMT, <1>2, ClosedIs, EndedIs DEF Ops
<1> HIDE DEF p, d
<1>15. OpsOK(d, p, busy)
  <2>1. /\ Once(b, Reads) /\ Once(b, Writes) /\ Once(b, Connects) /\ NoneIn(b, Early) /\ NoneIn(b, Closes)
    BY <1>2, <1>3, <1>4, <1>12 DEF Finalizable, OpsOK, AtMostOne, Nothing
  <2>2. /\ Once(p, Reads) /\ Once(p, Writes) /\ Once(p, Connects) /\ NoneIn(p, Early) /\ NoneIn(p, Closes)
    BY <1>1, <1>13, <2>1
  <2> QED BY SMT, <1>14, <2>2, Absent DEF OpsOK, AtMostOne
<1>16. EarlyOK(d, p, busy, "down")
  BY <1>1, <1>3, <1>12, <1>13, <1>14 DEF Finalizable, EarlyOK, Nothing
<1>17. ConnectingOK(d, p, busy)
  BY <1>1, <1>3, <1>12, <1>13, <1>14 DEF Finalizable, ConnectingOK, Nothing
<1>18. LinkedOK(d, p)
  BY <1>14 DEF Finalizable, LinkedOK
<1>19. UnlinkedOK(d, p)
  <2>1. NoneBehind(t, Starts, Reads) /\ NoneBehind(t, Starts, Writes)
    BY <1>3, Absent
  <2>2. NoneBehind(b, Starts, Reads) /\ NoneBehind(b, Starts, Writes)
    BY <1>3, <1>12, <2>1 DEF Finalizable
  <2> QED BY <1>1, <1>13, <1>14, <2>2 DEF UnlinkedOK
<1>20. ClosingOK(d, p, busy, u.secure)
  BY <1>1, <1>4, <1>12, <1>13, <1>14 DEF Finalizable, ClosingOK, Nothing
<1>21. QuietOK(d, p, busy, "down", u)
  BY <1>1, <1>3, <1>12, <1>13, <1>14 DEF Finalizable, QuietOK, Calm
<1>22. OwnerOK(d, p, "down")
  <2>1. NoneIn(b, Rotates) /\ h \in Rotates
    BY <1>3, <1>12, Members DEF OwnerOK, h
  <2> QED BY <1>13, <1>14, <2>1, Absent DEF OwnerOK
<1> QED BY <1>13, <1>15, <1>16, <1>17, <1>18, <1>19, <1>20, <1>21, <1>22 DEF Core

-----------------------------------------------------------------------------
(* What keeps the invariant *)

\* The fields that the invariant does not mention.
Loose == {"authpending", "endpoints", "session", "older", "workAge", "timer", "newjob",
          "miningSet", "loginMode"}

\* Other fields are assigned.
LEMMA LooseIs ==
    ASSUME NEW c, ClientOK(c), NEW d, Shape(d), Keeps(c, d, Loose)
    PROVE  /\ ClientOK(d) /\ SameCore(c, d) /\ Awaited(d) = Awaited(c) /\ Pleas(d) = Pleas(c)
<1>1. /\ d.conn = c.conn /\ d.connecting = c.connecting /\ d.disconnecting = c.disconnecting
      /\ d.connected = c.connected /\ d.socket = c.socket /\ d.txPending = c.txPending
      /\ d.ops = c.ops /\ d.wire = c.wire /\ d.txQueue = c.txQueue /\ d.txCount = c.txCount
      /\ d.pleas = c.pleas
  BY DEF Keeps, Fields, Loose
<1>2. ClientOK(d)
  BY <1>1 DEF ClientOK
<1>3. Awaited(d) = Awaited(c) /\ Pleas(d) = Pleas(c)
  BY <1>1 DEF Awaited, Pleas
<1> QED BY <1>1, <1>2, <1>3 DEF SameCore

\* Pleas are added or removed.
LEMMA PleasSame ==
    ASSUME NEW c, NEW d, Keeps(c, d, {"pleas", "older", "workAge"})
    PROVE  SameCore(c, d) /\ Awaited(d) = Awaited(c)
<1>1. d.wire = c.wire /\ d.txQueue = c.txQueue
  BY DEF Keeps, Fields
<1>2. Awaited(d) = Awaited(c)
  BY <1>1 DEF Awaited
<1> QED BY <1>2 DEF Keeps, Fields, SameCore

\* Answers that have been received count.
LEMMA Counts ==
    /\ \A t : Owed(t) \in {0, 1}
    /\ \A data : Received(data) \in {0, 1}
    /\ Owed(<<>>) = 0 /\ Received(<<>>) = 0
BY DEF Owed, Received

\* The handlers that carry data are the same.
LEMMA LinesSame ==
    ASSUME NEW data, NEW lines, NEW q, NEW p, NEW busy, LinesOK(data, lines, q, busy),
           NoneIn(p, Data) <=> NoneIn(q, Data)
    PROVE  LinesOK(data, lines, p, busy)
BY DEF LinesOK

\* No answer is timed less.
LEMMA TimedSame ==
    ASSUME NEW c, ClientOK(c), NEW d, ClientOK(d), NEW q, NEW p, NEW data, NEW lines,
           TimedOK(c, q, data, lines), d.connected = c.connected,
           NoneIn(p, Discs) => NoneIn(q, Discs), NoneIn(p, Timeouts) => NoneIn(q, Timeouts),
           Awaited(d) <= Awaited(c), Pleas(d) >= Pleas(c)
    PROVE  TimedOK(d, p, data, lines)
<1>1. /\ Awaited(c) \in Nat /\ Awaited(d) \in Nat /\ Pleas(c) \in Nat /\ Pleas(d) \in Nat
      /\ Owed(lines) \in Nat /\ Received(data) \in Nat
  BY SMT, Lengths, Counts
<1> QED BY SMT, <1>1 DEF TimedOK

\* So is the invariant.
LEMMA HoldsSame ==
    ASSUME NEW c, NEW q, NEW data, NEW lines, NEW busy, NEW told, NEW u,
           Holds(c, q, data, lines, busy, told, u),
           NEW d, ClientOK(d), SameCore(c, d), Awaited(d) <= Awaited(c), Pleas(d) >= Pleas(c),
           NEW v, UriOK(v, told), v.secure = u.secure, v.version = u.version
    PROVE  Holds(d, q, data, lines, busy, told, v)
<1>1. Core(d, q, busy, told, v)
  BY CoreSame DEF Holds
<1>2. TimedOK(d, q, data, lines)
  BY TimedSame DEF Holds, SameCore
<1> QED BY <1>1, <1>2 DEF Holds

\* A handler is taken from the queue.
LEMMA HoldsPop ==
    ASSUME NEW c, NEW q, NEW data, NEW lines, NEW busy, NEW told, NEW u,
           Holds(c, q, data, lines, busy, told, u), q # <<>>,
           Head(q) \notin {"rotateConnect", "read", "disconnect", "login_timeout"}
    PROVE  Holds(c, Tail(q), data, lines, busy, told, u)
<1>1. q \in Seq(Handlers) /\ ClientOK(c)
  BY DEF Holds
<1>2. Tail(q) \in Seq(Handlers) /\ \A S : NoneIn(q, S) <=> Head(q) \notin S /\ NoneIn(Tail(q), S)
  BY <1>1, Popped
<1>3. Core(c, Tail(q), busy, told, u)
  BY <1>1, CorePop DEF Holds
<1>4. LinesOK(data, lines, Tail(q), busy)
  BY <1>2, LinesSame, Members DEF Holds
<1>5. TimedOK(c, Tail(q), data, lines)
  <2>1. NoneIn(Tail(q), Discs) => NoneIn(q, Discs)
    BY <1>2, Members
  <2>2. NoneIn(Tail(q), Timeouts) => NoneIn(q, Timeouts)
    BY <1>2, Members
  <2>3. Awaited(c) \in Nat /\ Pleas(c) \in Nat
    BY <1>1, Lengths
  <2> QED BY SMT, <1>1, <2>1, <2>2, <2>3, TimedSame DEF Holds
<1> QED BY <1>2, <1>3, <1>4, <1>5 DEF Holds

\* A disconnection is asked for.
LEMMA HoldsDisc ==
    ASSUME NEW c, ClientOK(c), NEW q \in Seq(Handlers), NEW data, NEW lines, NEW busy \in BOOLEAN,
           NEW told, NEW u, UriOK(u, told), Core(c, q, busy, told, u), LinesOK(data, lines, q, busy),
           Nothing(c.ops["resolve"], q, Early), c.disconnecting => NoneIn(q, Finals),
           ~GivenUp(c, u)
    PROVE  Holds(c, q \o <<"disconnect">>, data, lines, busy, told, u)
<1> DEFINE p == q \o <<"disconnect">>
<1>1. p \in Seq(Handlers) /\ Core(c, p, busy, told, u)
  BY CoreDisc
<1>2. \A S : NoneIn(p, S) <=> NoneIn(q, S) /\ "disconnect" \notin S
  BY Appended, AreHandlers
<1> SUFFICES Holds(c, p, data, lines, busy, told, u)
  OBVIOUS
<1> HIDE DEF p
<1>3. ~NoneIn(p, Discs) /\ (NoneIn(p, Data) <=> NoneIn(q, Data))
  BY <1>2, Members
<1>4. LinesOK(data, lines, p, busy)
  BY <1>3, LinesSame
<1>5. TimedOK(c, p, data, lines)
  BY <1>3 DEF TimedOK
<1> QED BY <1>1, <1>4, <1>5 DEF Holds

\* While a handler runs that may ask for a disconnection, the client has a connection to end.
LEMMA Leavable ==
    ASSUME NEW c, NEW q \in Seq(Handlers), NEW busy, NEW told, NEW u, Core(c, q, busy, told, u),
           busy \/ ~NoneIn(q, Reads) \/ ~NoneIn(q, Writes) \/ ~NoneIn(q, Timeouts)
    PROVE  /\ Nothing(c.ops["resolve"], q, Early) /\ ~GivenUp(c, u)
           /\ c.disconnecting => NoneIn(q, Finals)
<1>1. Nothing(c.ops["resolve"], q, Early)
  BY DEF Core, EarlyOK, Calm
<1>2. ~GivenUp(c, u)
  BY DEF Core, QuietOK, GivenUp, Calm
<1>3. c.disconnecting => NoneIn(q, Finals)
  BY DEF Core, ClosingOK
<1> QED BY <1>1, <1>2, <1>3

\* A client that is connected is in no pending state.
LEMMA LinkedIs ==
    ASSUME NEW c, NEW q, NEW busy, NEW told, NEW u, Core(c, q, busy, told, u)
    PROVE  /\ isConnected(c) <=> c.connected
           /\ c.connected => /\ ~GivenUp(c, u) /\ ~c.disconnecting /\ ~c.connecting
                             /\ Nothing(c.ops["resolve"], q, Early)
BY DEF Core, LinkedOK, ConnectingOK, EarlyOK, isConnected, isPendingState, GivenUp

-----------------------------------------------------------------------------
(* Every step keeps the invariant: disconnection *)

\* A fault changes nothing else.
LEMMA CrashStep ==
    ASSUME IInv, Crash
    PROVE  IInv'
BY DEF IInv, Crash

\* disconnect_finalize() on a client that it may be called on.
LEMMA FinalizeStep ==
    ASSUME IInv, NEW c, ClientOK(c), NEW q \in Seq(Handlers), ~reading, Finalizable(c, q, uri),
           OwnerOK(c, q, owner), LinesOK(inbox, rx, q, FALSE), disconnect_finalize(c, q)
    PROVE  IInv'
<1> DEFINE d == Closed(c)
<1>1. ClientOK(d) /\ ClientOK(Ended(d)) /\ ~d.connected /\ ~Ended(d).connected
  <2>1. ClientOK(d) /\ d.connected = c.connected
    BY ClosedIs
  <2>2. ClientOK(Ended(d)) /\ Ended(d).connected = d.connected
    BY <2>1, EndedIs
  <2> QED BY <2>1, <2>2 DEF Finalizable
<1>2. reading = FALSE /\ UriOK(uri, owner)
  BY DEF IInv, Holds
<1>3. /\ c.ops["read"] \in {0, 1} /\ c.ops["write"] \in {0, 1} /\ c.ops["connect"] \in {0, 1}
      /\ c.ops["shutdown"] \in {0, 1}
  BY DEF Finalizable, OpsOK, AtMostOne
<1>4. Aborted(c) \in Seq(Handlers) /\ NoneIn(Aborted(c), Data)
  BY SMT, <1>3, AbortedIs
<1>5. q \o Aborted(c) \in Seq(Handlers) /\ (NoneIn(q \o Aborted(c), Data) <=> NoneIn(q, Data))
  BY <1>4, Joined
<1>6. ASSUME NEW h \in {"start_connect", "rotateConnect"}
      PROVE  LinesOK(inbox, rx, q \o Aborted(c) \o <<h>>, FALSE)
  <2> DEFINE b == q \o Aborted(c)
  <2>1. h \in Handlers /\ h \notin Data
    BY AreHandlers, Members
  <2>2. b \in Seq(Handlers) /\ (NoneIn(b, Data) <=> NoneIn(q, Data))
    BY <1>5
  <2> HIDE DEF b
  <2>3. NoneIn(b \o <<h>>, Data) <=> NoneIn(q, Data)
    BY <2>1, <2>2, Appended
  <2>4. LinesOK(inbox, rx, b \o <<h>>, FALSE)
    BY <2>3, LinesSame
  <2> QED BY <2>4 DEF b
<1>7. CASE ~c.conn /\ Crash
  BY <1>7, CrashStep
<1>8. CASE /\ c.conn /\ Detecting /\ MoreModes
           /\ uri' = [uri EXCEPT !.mode = @ - 1]
           /\ cl' = d
           /\ ioq' = q \o Aborted(c) \o <<"start_connect">>
           /\ UNCHANGED <<inbox, rx, reading, owner, fault>>
  <2>1. uri.version = AutoDetect /\ owner # "up"
    BY <1>2, <1>8 DEF UriOK, Detecting
  <2>2. ioq' \in Seq(Handlers) /\ Core(d, ioq', FALSE, owner, uri)
    BY <1>8, <2>1, FinalizedRetry
  <2>3. UriOK(uri', owner) /\ uri'.secure = uri.secure /\ uri'.version = uri.version
    BY <1>2, <1>8 DEF UriOK, UriFields
  <2> HIDE DEF d
  <2>4. SameCore(d, d)
    BY DEF SameCore
  <2>5. Core(d, ioq', FALSE, owner, uri')
    BY <2>2, <2>3, <2>4, CoreSame
  <2>6. TimedOK(d, ioq', inbox, rx)
    BY <1>1 DEF TimedOK
  <2>7. LinesOK(inbox, rx, ioq', FALSE)
    BY <1>6, <1>8
  <2> QED BY <1>1, <1>2, <1>8, <2>2, <2>3, <2>5, <2>6, <2>7 DEF IInv, Holds
<1>9. CASE /\ c.conn /\ ~(Detecting /\ MoreModes)
           /\ uri' = [uri EXCEPT !.unrecoverable = @ \/ Detecting]
           /\ cl' = Ended(d)
           /\ ioq' = q \o Aborted(c) \o <<"rotateConnect">>
           /\ owner' = "down"
           /\ UNCHANGED <<inbox, rx, reading, fault>>
  <2>2. ioq' \in Seq(Handlers) /\ Core(Ended(d), ioq', FALSE, "down", uri)
    BY <1>9, FinalizedDown
  <2>3. UriOK(uri', "down") /\ uri'.secure = uri.secure /\ uri'.version = uri.version
    <3>1. DOMAIN uri' = UriFields /\ uri' = [f \in DOMAIN uri' |-> uri'[f]]
      BY <1>2, <1>9 DEF UriOK, UriFields
    <3>2. /\ uri'.secure = uri.secure /\ uri'.version = uri.version /\ uri'.responds = uri.responds
          /\ uri'.confirmed = uri.confirmed /\ (uri.unrecoverable => uri'.unrecoverable)
      BY <1>2, <1>9 DEF UriOK, UriFields
    <3> QED BY <1>2, <3>1, <3>2 DEF UriOK
  <2> DEFINE e == Ended(d)
  <2> HIDE DEF d, e
  <2>4. SameCore(e, e)
    BY DEF SameCore
  <2>5. Core(e, ioq', FALSE, "down", uri')
    BY <2>2, <2>3, <2>4, CoreSame DEF e
  <2>6. TimedOK(e, ioq', inbox, rx)
    BY <1>1 DEF TimedOK, e
  <2>7. LinesOK(inbox, rx, ioq', FALSE)
    BY <1>6, <1>9
  <2> QED BY <1>1, <1>2, <1>9, <2>2, <2>3, <2>5, <2>6, <2>7 DEF IInv, Holds, e
<1> QED BY <1>7, <1>8, <1>9 DEF disconnect_finalize, Closed

\* The connection is marked as lost.
LEMMA UnlinkIs ==
    ASSUME NEW c, ClientOK(c)
    PROVE  LET d == [c EXCEPT !.connected = FALSE]
           IN  /\ ClientOK(d) /\ ~d.connected /\ d.conn = c.conn /\ d.connecting = c.connecting
               /\ d.disconnecting = c.disconnecting /\ d.ops = c.ops /\ Aborted(d) = Aborted(c)
<1> DEFINE d == [c EXCEPT !.connected = FALSE]
<1> SUFFICES /\ ClientOK(d) /\ ~d.connected /\ d.conn = c.conn /\ d.connecting = c.connecting
             /\ d.disconnecting = c.disconnecting /\ d.ops = c.ops /\ Aborted(d) = Aborted(c)
  OBVIOUS
<1>1. Shape(d) /\ Keeps(c, d, {"connected"}) /\ d.connected = FALSE
  BY DEF ClientOK, Shape, Keeps, Fields
<1> HIDE DEF d
<1>2. ClientOK(d) /\ d.ops = c.ops
  BY <1>1 DEF ClientOK, Keeps, Fields
<1>3. Aborted(d) = Aborted(c)
  BY <1>2 DEF Aborted
<1> QED BY <1>1, <1>2, <1>3 DEF Keeps, Fields

\* The shutdown of a TLS stream begins.
ShuttingDown(c) ==
    Start([NoSocketOps(c) EXCEPT !.connected = FALSE, !.disconnecting = TRUE], "shutdown")

\* A client whose TLS stream is being shut down.
LEMMA ShuttingDownIs ==
    ASSUME NEW c, ClientOK(c), NEW q \in Seq(Handlers), NEW told, NEW u,
           Core(c, q, FALSE, told, u), c.connected, u.secure
    PROVE  LET d == enqueue_response_plea(ShuttingDown(c))
               p == q \o Aborted(c)
           IN  /\ ClientOK(d) /\ ~d.connected /\ p \in Seq(Handlers) /\ Core(d, p, FALSE, told, u)
               /\ NoneIn(p, Data) <=> NoneIn(q, Data)
<1> DEFINE e == NoSocketOps(c)
           f == [e EXCEPT !.connected = FALSE, !.disconnecting = TRUE]
           g == Start(f, "shutdown")
           d == enqueue_response_plea(g)
           t == Aborted(c)
           p == q \o t
           busy == FALSE
<1> SUFFICES /\ ClientOK(d) /\ ~d.connected /\ p \in Seq(Handlers) /\ Core(d, p, busy, told, u)
             /\ NoneIn(p, Data) <=> NoneIn(q, Data)
  BY DEF ShuttingDown
<1>1. /\ ClientOK(e) /\ Keeps(c, e, {"ops"}) /\ e.ops["resolve"] = c.ops["resolve"]
      /\ \A o \in Ops \ {"resolve"} : e.ops[o] = 0
  BY NoSocketOpsIs
<1>2. /\ Shape(f) /\ Keeps(e, f, {"connected", "disconnecting"})
      /\ f.connected = FALSE /\ f.disconnecting = TRUE
  <2> HIDE DEF e
  <2> QED BY <1>1 DEF ClientOK, Shape, Keeps, Fields
<1> HIDE DEF e, f
<1>3. ClientOK(f)
  BY <1>1, <1>2 DEF ClientOK, Keeps, Fields
<1>4. ClientOK(g) /\ Keeps(f, g, {"ops"}) /\ g.ops = [f.ops EXCEPT !["shutdown"] = @ + 1]
  BY <1>3, StartIs DEF Ops
<1> HIDE DEF g
<1>12. ClientOK(d) /\ Keeps(g, d, {"pleas", "older"})
  BY <1>4, EnqueueIs
<1> HIDE DEF d
<1>13. /\ d.conn = c.conn /\ d.connecting = c.connecting /\ d.connected = FALSE
       /\ d.disconnecting = TRUE /\ d.socket = c.socket /\ d.txPending = c.txPending
       /\ f.ops = e.ops /\ d.ops = g.ops
  BY SMTT(30), <1>1, <1>2, <1>4, <1>12 DEF Keeps, Fields
<1>14. /\ d.ops["resolve"] = c.ops["resolve"] /\ d.ops["connect"] = 0 /\ d.ops["read"] = 0
       /\ d.ops["write"] = 0 /\ d.ops["shutdown"] = 1
  <2>1. f.ops \in [Ops -> Nat]
    BY <1>3 DEF ClientOK
  <2>2. /\ \A o \in Ops \ {"shutdown"} : g.ops[o] = f.ops[o]
        /\ g.ops["shutdown"] = f.ops["shutdown"] + 1
    BY SMT, <1>4, <2>1 DEF Ops
  <2> QED BY SMT, <1>1, <1>13, <2>2 DEF Ops
<1>15. /\ ~c.disconnecting /\ ~c.connecting /\ Nothing(c.ops["resolve"], q, Early)
       /\ Nothing(c.ops["connect"], q, Connects) /\ Nothing(c.ops["shutdown"], q, Closes)
       /\ NoneIn(q, Starts)
  BY DEF Core, LinkedOK, ConnectingOK, ClosingOK, EarlyOK
<1>16. /\ t \in Seq(Handlers)
       /\ NoneIn(t, Reads) <=> c.ops["read"] = 0
       /\ NoneIn(t, Writes) <=> c.ops["write"] = 0
       /\ NoneIn(t, Connects) /\ NoneIn(t, Shuts)
       /\ NoneIn(t, Early) /\ NoneIn(t, Starts) /\ NoneIn(t, Timeouts) /\ NoneIn(t, Discs)
       /\ NoneIn(t, Finals) /\ NoneIn(t, Rotates) /\ NoneIn(t, Data)
       /\ Once(t, Reads) /\ Once(t, Writes)
  <2>1. /\ c.ops["read"] \in {0, 1} /\ c.ops["write"] \in {0, 1} /\ c.ops["connect"] = 0
        /\ c.ops["shutdown"] = 0
    BY <1>15 DEF Core, OpsOK, AtMostOne, Nothing
  <2> QED BY SMT, <2>1, AbortedIs
<1>17. NoneIn(t, Closes) /\ NoneIn(q, Shuts) /\ NoneIn(q, Finals)
  BY <1>15, <1>16, Parts DEF Nothing
<1> HIDE DEF t
<1>18. /\ p \in Seq(Handlers)
       /\ \A S : NoneIn(p, S) <=> NoneIn(q, S) /\ NoneIn(t, S)
       /\ \A S : Once(q, S) /\ Once(t, S) /\ (NoneIn(q, S) \/ NoneIn(t, S)) => Once(p, S)
  BY <1>16, Joined
<1> HIDE DEF p
<1>19. /\ NoneIn(p, Early) /\ NoneIn(p, Starts) /\ NoneIn(p, Connects) /\ NoneIn(p, Closes)
       /\ NoneIn(p, Shuts) /\ NoneIn(p, Finals) /\ (NoneIn(p, Rotates) <=> NoneIn(q, Rotates))
       /\ NoneIn(p, Data) <=> NoneIn(q, Data)
  BY <1>15, <1>16, <1>17, <1>18 DEF Nothing
<1>20. Once(p, Reads) /\ Once(p, Writes) /\ (Once(q, Rotates) => Once(p, Rotates))
  BY <1>16, <1>18, Absent DEF Core, OpsOK, AtMostOne
<1>5. OpsOK(d, p, busy)
  BY SMT, <1>14, <1>15, <1>19, <1>20, Absent DEF OpsOK, AtMostOne, Nothing
<1>6. EarlyOK(d, p, busy, told)
  BY <1>14, <1>15, <1>19 DEF EarlyOK, Nothing
<1>7. ConnectingOK(d, p, busy)
  BY <1>13, <1>14, <1>15, <1>19 DEF ConnectingOK, Nothing
<1>8. LinkedOK(d, p) /\ UnlinkedOK(d, p)
  BY <1>13, <1>14, <1>19, Absent DEF LinkedOK, UnlinkedOK
<1>9. ClosingOK(d, p, busy, u.secure)
  BY <1>13, <1>19, Absent DEF ClosingOK
<1>10. QuietOK(d, p, busy, told, u)
  BY <1>13 DEF QuietOK
<1>11. OwnerOK(d, p, told)
  BY <1>13, <1>19, <1>20 DEF Core, OwnerOK
<1> QED BY <1>12, <1>13, <1>18, <1>19, <1>5, <1>6, <1>7, <1>8, <1>9, <1>10, <1>11 DEF Core

\* disconnect() on a client that has a connection to end.
LEMMA DisconnectStep ==
    ASSUME IInv, ~reading, NEW q \in Seq(Handlers), Core(cl, q, FALSE, owner, uri),
           LinesOK(inbox, rx, q, FALSE), Nothing(cl.ops["resolve"], q, Early), ~GivenUp(cl, uri),
           disconnect(q)
    PROVE  IInv'
<1>1. ClientOK(cl) /\ UriOK(uri, owner) /\ reading = FALSE
  BY DEF IInv, Holds
<1> DEFINE c == [cl EXCEPT !.connected = FALSE]
<1>2. /\ ClientOK(c) /\ ~c.connected /\ c.conn = cl.conn /\ c.connecting = cl.connecting
      /\ c.disconnecting = cl.disconnecting /\ c.ops = cl.ops
  BY <1>1, UnlinkIs
<1> HIDE DEF c
<1>3. CASE /\ cl.disconnecting
           /\ ioq' = q
           /\ UNCHANGED <<uri, cl, inbox, rx, reading, owner, fault>>
  <2>1. TimedOK(cl, q, inbox, rx)
    BY <1>3 DEF Core, LinkedOK, TimedOK
  <2> QED BY <1>1, <1>3, <2>1 DEF IInv, Holds
<1>4. CASE Crash
  BY <1>4, CrashStep
<1>5. CASE /\ ~cl.disconnecting /\ cl.socket = "open" /\ cl.conn /\ uri.secure
           /\ cl' = enqueue_response_plea(ShuttingDown(cl))
           /\ ioq' = q \o Aborted(cl)
           /\ UNCHANGED <<uri, inbox, rx, reading, owner, fault>>
  <2>1. cl.connected /\ uri.secure
    BY <1>5 DEF GivenUp
  <2>2. /\ ClientOK(cl') /\ ~cl'.connected /\ ioq' \in Seq(Handlers)
        /\ Core(cl', ioq', FALSE, owner, uri) /\ (NoneIn(ioq', Data) <=> NoneIn(q, Data))
    BY <1>1, <1>5, <2>1, ShuttingDownIs
  <2>3. LinesOK(inbox, rx, ioq', FALSE)
    BY <2>2, LinesSame
  <2>4. TimedOK(cl', ioq', inbox, rx)
    BY <2>2 DEF TimedOK
  <2> QED BY <1>1, <1>5, <2>2, <2>3, <2>4 DEF IInv, Holds
<1>6. CASE ~cl.disconnecting /\ (~uri.secure \/ cl.socket = "null") /\ disconnect_finalize(c, q)
  <2>1. ~uri.secure
    BY <1>6 DEF GivenUp, Core, LinkedOK
  <2>2. NoneBehind(q, Starts, Reads) /\ NoneBehind(q, Starts, Writes)
    BY Absent DEF Core, LinkedOK, UnlinkedOK
  <2>3. NoneIn(q, Starts) \/ (cl.ops["read"] = 0 /\ cl.ops["write"] = 0)
    BY DEF Core, LinkedOK, UnlinkedOK
  <2>4. Nothing(cl.ops["shutdown"], q, Closes)
    BY <1>6 DEF Core, ClosingOK
  <2>5. OpsOK(c, q, FALSE) /\ OwnerOK(c, q, owner)
    BY <1>2 DEF Core, OpsOK, OwnerOK
  <2>6. /\ ~cl.connecting => Nothing(cl.ops["connect"], q, Connects)
        /\ cl.connecting => Nothing(cl.ops["read"], q, Reads) /\ Nothing(cl.ops["write"], q, Writes)
    BY DEF Core, ConnectingOK
  <2>7. Finalizable(c, q, uri)
    BY <1>2, <2>1, <2>2, <2>3, <2>4, <2>5, <2>6 DEF Finalizable
  <2> QED BY <1>1, <1>2, <1>6, <2>5, <2>7, FinalizeStep
<1> QED BY <1>3, <1>4, <1>5, <1>6 DEF disconnect, ShuttingDown, c

\* A disconnect() that was posted.
LEMMA DisconnectKeeps ==
    ASSUME IInv, Disconnect
    PROVE  IInv'
<1>1. ~reading /\ ioq # <<>> /\ Head(ioq) = "disconnect" /\ disconnect(Tail(ioq))
  BY DEF Disconnect, Run, Rest
<1>2. /\ ioq \in Seq(Handlers) /\ Core(cl, ioq, reading, owner, uri)
      /\ LinesOK(inbox, rx, ioq, reading) /\ reading = FALSE
  BY <1>1 DEF IInv, Holds
<1>3. /\ Tail(ioq) \in Seq(Handlers)
      /\ \A S : NoneIn(ioq, S) <=> Head(ioq) \notin S /\ NoneIn(Tail(ioq), S)
  BY <1>1, <1>2, Popped
<1>4. ~NoneIn(ioq, Discs) /\ (NoneIn(Tail(ioq), Data) <=> NoneIn(ioq, Data))
  BY <1>1, <1>3, Members
<1>5. Core(cl, Tail(ioq), FALSE, owner, uri)
  BY <1>1, <1>2, CorePop
<1>6. LinesOK(inbox, rx, Tail(ioq), FALSE)
  BY <1>2, <1>4, LinesSame
<1>7. Nothing(cl.ops["resolve"], ioq, Early) /\ ~GivenUp(cl, uri)
  BY <1>2, <1>4 DEF Core, EarlyOK, QuietOK, Calm, GivenUp
<1>8. Nothing(cl.ops["resolve"], Tail(ioq), Early)
  BY <1>3, <1>7 DEF Nothing
<1> QED BY <1>1, <1>3, <1>5, <1>6, <1>7, <1>8, DisconnectStep

\* A disconnect() that the PoolManager calls.
LEMMA ownerDisconnectsKeeps ==
    ASSUME IInv, ownerDisconnects
    PROVE  IInv'
<1>1. ~reading /\ owner = "up" /\ disconnect(ioq)
  BY DEF ownerDisconnects
<1>2. /\ ioq \in Seq(Handlers) /\ Core(cl, ioq, reading, owner, uri)
      /\ LinesOK(inbox, rx, ioq, reading) /\ reading = FALSE
  BY <1>1 DEF IInv, Holds
<1>3. Nothing(cl.ops["resolve"], ioq, Early) /\ ~GivenUp(cl, uri)
  BY <1>1, <1>2 DEF Core, EarlyOK, QuietOK, GivenUp
<1> QED BY <1>1, <1>2, <1>3, DisconnectStep

\* A disconnect_finalize() that was posted.
LEMMA FinalizeKeeps ==
    ASSUME IInv, Finalize
    PROVE  IInv'
<1>1. ~reading /\ ioq # <<>> /\ Head(ioq) = "finalize" /\ disconnect_finalize(cl, Tail(ioq))
  BY DEF Finalize, Run, Rest
<1> DEFINE q == Tail(ioq)
<1>2. /\ ioq \in Seq(Handlers) /\ Core(cl, ioq, reading, owner, uri) /\ ClientOK(cl)
      /\ LinesOK(inbox, rx, ioq, reading) /\ reading = FALSE
  BY <1>1 DEF IInv, Holds
<1>3. /\ q \in Seq(Handlers)
      /\ \A S : NoneIn(ioq, S) <=> Head(ioq) \notin S /\ NoneIn(q, S)
      /\ \A S : Once(ioq, S) => Once(q, S) /\ (Head(ioq) \in S => NoneIn(q, S))
      /\ \A A, B : NoneBehind(ioq, A, B) => NoneBehind(q, A, B) /\ (Head(ioq) \in A => NoneIn(q, B))
  BY <1>1, <1>2, Popped
<1>4. Core(cl, q, FALSE, owner, uri)
  BY <1>1, <1>2, CorePop
<1> HIDE DEF q
<1>5. /\ ~NoneIn(ioq, Finals) /\ ~NoneIn(ioq, Closes) /\ Head(ioq) \in Closes /\ Head(ioq) \in Finals
      /\ NoneIn(q, Data) <=> NoneIn(ioq, Data)
  BY <1>1, <1>3, Members
<1>6. LinesOK(inbox, rx, q, FALSE)
  BY <1>2, <1>5, LinesSame
<1>7. cl.disconnecting
  BY <1>2, <1>5 DEF Core, ClosingOK, Nothing
<1>8. /\ uri.secure /\ ~cl.connected /\ NoneIn(q, Starts) /\ NoneIn(q, Discs)
      /\ NoneIn(q, Reads) /\ NoneIn(q, Writes) /\ NoneIn(q, Timeouts)
  BY <1>2, <1>3, <1>5, <1>7 DEF Core, ClosingOK
<1>9. Nothing(cl.ops["shutdown"], q, Closes)
  BY <1>2, <1>3, <1>5 DEF Core, OpsOK, AtMostOne, Nothing
<1>10. cl.ops["read"] = 0 /\ cl.ops["write"] = 0 /\ ~cl.connecting
  BY <1>4, <1>7, <1>8 DEF Core, UnlinkedOK, ConnectingOK
<1>11. Nothing(cl.ops["resolve"], q, Early) /\ Nothing(cl.ops["connect"], q, Connects)
  BY <1>4, <1>7, <1>10 DEF Core, EarlyOK, ConnectingOK
<1>12. Finalizable(cl, q, uri)
  BY <1>4, <1>8, <1>9, <1>10, <1>11, Absent DEF Core, Finalizable, Calm
<1> QED BY <1>1, <1>2, <1>3, <1>4, <1>6, <1>12, FinalizeStep DEF Core, q

-----------------------------------------------------------------------------
(* Every step keeps the invariant: connection *)

\* onSSLShutdownCompleted: whatever could ask for a disconnection has been handled.
LEMMA onSSLShutdownCompletedKeeps ==
    ASSUME IInv, onSSLShutdownCompleted
    PROVE  IInv'
<1> DEFINE q == Tail(ioq)
           h == "finalize"
           p == q \o <<h>>
           d == clear_response_pleas(cl)
           busy == FALSE
           told == owner
           u == uri
<1>1. /\ ~reading /\ ioq # <<>> /\ Head(ioq) = "shutdown" /\ cl' = d /\ ioq' = p
      /\ UNCHANGED <<uri, inbox, rx, reading, owner, fault>>
  BY DEF onSSLShutdownCompleted, Run, Rest
<1>2. /\ ioq \in Seq(Handlers) /\ Core(cl, ioq, reading, owner, uri) /\ ClientOK(cl)
      /\ LinesOK(inbox, rx, ioq, reading) /\ reading = FALSE /\ UriOK(uri, owner)
  BY <1>1 DEF IInv, Holds
<1>3. /\ q \in Seq(Handlers)
      /\ \A S : NoneIn(ioq, S) <=> Head(ioq) \notin S /\ NoneIn(q, S)
      /\ \A S : Once(ioq, S) => Once(q, S) /\ (Head(ioq) \in S => NoneIn(q, S))
      /\ \A A, B : NoneBehind(ioq, A, B) => NoneBehind(q, A, B) /\ (Head(ioq) \in A => NoneIn(q, B))
  BY <1>1, <1>2, Popped
<1>4. Core(cl, q, FALSE, owner, uri)
  BY <1>1, <1>2, CorePop
<1> HIDE DEF q
<1>12. h \in Handlers /\ h \notin Data /\ h \notin Early /\ h \notin Starts /\ h \notin Connects /\ h \notin Reads /\ h \notin Writes /\ h \notin Timeouts /\ h \notin Discs /\ h \notin Shuts /\ h \notin Rotates
  BY Members, AreHandlers
<1> HIDE DEF h
<1>13. /\ p \in Seq(Handlers)
       /\ \A S : NoneIn(p, S) <=> NoneIn(q, S) /\ h \notin S
       /\ \A S : Once(q, S) /\ (NoneIn(q, S) \/ h \notin S) => Once(p, S)
       /\ \A A, B : NoneBehind(q, A, B) /\ (NoneIn(q, A) \/ h \notin B) => NoneBehind(p, A, B)
  BY <1>3, <1>12, Appended
<1>14. ClientOK(d) /\ Keeps(cl, d, {"pleas", "older"})
  BY <1>2, ClearIs
<1> HIDE DEF p, d
<1>15. SameCore(cl, d)
  BY <1>14 DEF SameCore, Keeps, Fields
<1>16. Core(d, q, busy, told, u)
  BY <1>4, <1>15, CoreSame
<1>17. /\ Head(ioq) \in Closes /\ Head(ioq) \in Shuts /\ Head(ioq) \notin Data
  BY <1>1, Members
<1>18. cl.disconnecting /\ Nothing(cl.ops["shutdown"], q, Closes)
  BY <1>2, <1>3, <1>17 DEF Core, OpsOK, AtMostOne, ClosingOK, Nothing
<1>19. /\ NoneIn(q, Reads) /\ NoneIn(q, Writes) /\ NoneIn(q, Timeouts) /\ NoneIn(q, Finals)
       /\ ~cl.connected
  BY <1>2, <1>3, <1>17, <1>18, Parts DEF Core, ClosingOK, Nothing
<1>20. d.disconnecting = cl.disconnecting /\ d.ops = cl.ops /\ d.connected = cl.connected
  BY <1>15 DEF SameCore
<1>5. OpsOK(d, p, busy)
  BY SMTT(30), <1>12, <1>13, <1>16, <1>18, <1>19, <1>20 DEF Core, OpsOK, AtMostOne, Nothing
<1>6. EarlyOK(d, p, busy, told)
  BY <1>12, <1>13, <1>16, <1>18, <1>19, <1>20 DEF Core, EarlyOK, Nothing, Calm
<1>7. ConnectingOK(d, p, busy)
  BY <1>12, <1>13, <1>16, <1>18, <1>19, <1>20 DEF Core, ConnectingOK, Nothing
<1>8. LinkedOK(d, p) /\ UnlinkedOK(d, p)
  BY <1>12, <1>13, <1>16, <1>18, <1>19, <1>20 DEF Core, LinkedOK, UnlinkedOK, Nothing
<1>9. ClosingOK(d, p, busy, u.secure)
  BY <1>12, <1>13, <1>16, <1>18, <1>19, <1>20 DEF Core, ClosingOK, Nothing
<1>10. QuietOK(d, p, busy, told, u)
  BY <1>12, <1>13, <1>16, <1>18, <1>19, <1>20 DEF Core, QuietOK, Calm
<1>11. OwnerOK(d, p, told)
  BY <1>12, <1>13, <1>16, <1>18, <1>19, <1>20 DEF Core, OwnerOK
<1>21. LinesOK(inbox, rx, p, busy)
  BY <1>2, <1>3, <1>12, <1>13, <1>17, LinesSame
<1>22. TimedOK(d, p, inbox, rx)
  BY <1>19, <1>20 DEF TimedOK
<1> QED BY <1>1, <1>2, <1>13, <1>14, <1>21, <1>22, <1>5, <1>6, <1>7, <1>8, <1>9, <1>10, <1>11
        DEF IInv, Holds, Core

\* A new client, with its connect() posted.
LEMMA NewHolds ==
    ASSUME NEW u, UriOK(u, "connecting")
    PROVE  Holds(NewClient, <<"connect">>, <<>>, <<>>, FALSE, "connecting", u)
<1> DEFINE c == NewClient
           p == <<"connect">>
           busy == FALSE
           told == "connecting"
<1>1. /\ c.conn = TRUE /\ c.connecting = FALSE /\ c.disconnecting = FALSE /\ c.connected = FALSE
      /\ c.socket = "null" /\ c.txPending = FALSE /\ c.txCount = 0 /\ c.pleas = <<>>
      /\ c.wire = <<>> /\ c.txQueue = <<>> /\ c.ops = [o \in Ops |-> 0]
  BY DEF NewClient
<1>2. Shape(c)
  BY DEF NewClient, Shape, Fields
<1> HIDE DEF c
<1>3. ClientOK(c)
  <2>1. c.ops \in [Ops -> Nat]
    BY SMT, <1>1
  <2>2. c.pleas \in Seq(Nat) /\ c.wire \in Seq(Requests) /\ c.txQueue \in Seq(Requests)
    BY SMT, <1>1
  <2>3. c.conn \in BOOLEAN /\ c.connecting \in BOOLEAN /\ c.disconnecting \in BOOLEAN
        /\ c.connected \in BOOLEAN /\ c.socket \in {"null", "closed", "open"}
        /\ c.txPending \in BOOLEAN
    BY <1>1
  <2>4. c.txCount \in Nat
    <3>1. c.txCount = 0
      BY <1>1
    <3> QED BY SMT, <3>1
  <2> QED BY <1>2, <2>1, <2>2, <2>3, <2>4 DEF ClientOK
<1>4. /\ c.ops["resolve"] = 0 /\ c.ops["connect"] = 0 /\ c.ops["read"] = 0 /\ c.ops["write"] = 0
      /\ c.ops["shutdown"] = 0
  BY <1>1 DEF Ops
<1>12. /\ p \in Seq(Handlers) /\ (\A S : NoneIn(p, S) <=> "connect" \notin S)
       /\ (\A S : Once(p, S)) /\ \A A, B : NoneBehind(p, A, B)
  BY Single, AreHandlers
<1> HIDE DEF p
<1>13. /\ NoneIn(p, Starts) /\ NoneIn(p, Connects) /\ NoneIn(p, Reads) /\ NoneIn(p, Writes)
       /\ NoneIn(p, Timeouts) /\ NoneIn(p, Discs) /\ NoneIn(p, Closes) /\ NoneIn(p, Rotates)
       /\ NoneIn(p, Data)
  BY <1>12, Members
<1>5. OpsOK(c, p, busy)
  BY SMT, <1>1, <1>4, <1>12, <1>13 DEF OpsOK, AtMostOne, Nothing
<1>6. EarlyOK(c, p, busy, told)
  BY <1>1, <1>4, <1>12, <1>13 DEF EarlyOK, Nothing, Calm
<1>7. ConnectingOK(c, p, busy)
  BY <1>1, <1>4, <1>12, <1>13 DEF ConnectingOK, Nothing
<1>8. LinkedOK(c, p) /\ UnlinkedOK(c, p)
  BY <1>1, <1>4, <1>12, <1>13 DEF LinkedOK, UnlinkedOK, Nothing
<1>9. ClosingOK(c, p, busy, u.secure)
  BY <1>1, <1>4, <1>12, <1>13 DEF ClosingOK, Nothing
<1>10. QuietOK(c, p, busy, told, u)
  BY <1>1, <1>4, <1>12, <1>13 DEF QuietOK, Calm
<1>11. OwnerOK(c, p, told)
  BY <1>1, <1>4, <1>12, <1>13 DEF OwnerOK
<1>14. LinesOK(<<>>, <<>>, p, busy)
  <2>1. Transmission(<<>>)
    BY SMT DEF Transmission
  <2> QED BY <1>13, <2>1 DEF LinesOK
<1>15. TimedOK(c, p, <<>>, <<>>)
  BY <1>1 DEF TimedOK
<1>16. Holds(c, p, <<>>, <<>>, busy, told, u)
  BY <1>3, <1>12, <1>14, <1>15, <1>5, <1>6, <1>7, <1>8, <1>9, <1>10, <1>11 DEF Holds, Core
<1> QED BY <1>16 DEF c, p

\* rotateConnect: the client is replaced, or its URI erased.
LEMMA rotateConnectKeeps ==
    ASSUME IInv, rotateConnect
    PROVE  IInv'
<1>1. ~reading /\ ioq # <<>> /\ Head(ioq) = "rotateConnect"
  BY DEF rotateConnect, Run
<1>2. /\ ioq \in Seq(Handlers) /\ Core(cl, ioq, reading, owner, uri) /\ ClientOK(cl)
      /\ LinesOK(inbox, rx, ioq, reading) /\ reading = FALSE /\ UriOK(uri, owner)
  BY <1>1 DEF IInv, Holds
<1>3. \A S : NoneIn(ioq, S) <=> Head(ioq) \notin S /\ NoneIn(Tail(ioq), S)
  BY <1>1, <1>2, Popped
<1>4. ~NoneIn(ioq, Rotates) /\ owner = "down" /\ ~cl.conn
  BY <1>1, <1>2, <1>3, Members DEF Core, OwnerOK
<1>5. CASE Crash
  BY <1>5, CrashStep
<1>6. ASSUME Tail(ioq) = <<>> PROVE inbox = <<>> /\ rx = <<>>
  <2>1. NoneIn(ioq, Data)
    BY <1>1, <1>3, <1>6, Empty, Members
  <2> QED BY <1>2, <2>1 DEF LinesOK
<1>7. CASE /\ Tail(ioq) = <<>> /\ uri.unrecoverable
           /\ owner' = "gone"
           /\ ioq' = <<>>
           /\ UNCHANGED <<uri, cl, inbox, rx, reading, fault>>
  <2> DEFINE p == <<>>
             busy == FALSE
             told == "gone"
             u == uri
  <2>1. /\ p \in Seq(Handlers) /\ (\A S : NoneIn(p, S) /\ Once(p, S))
        /\ \A A, B : NoneBehind(p, A, B)
    BY Empty
  <2> HIDE DEF p
  <2>5. OpsOK(cl, p, busy)
    BY <1>2, <1>4, <2>1 DEF Core, OpsOK, AtMostOne, Nothing
  <2>6. EarlyOK(cl, p, busy, told)
    BY <1>2, <1>4, <2>1 DEF Core, EarlyOK, Nothing, Calm
  <2>7. ConnectingOK(cl, p, busy)
    BY <1>2, <1>4, <2>1 DEF Core, ConnectingOK, Nothing
  <2>8. LinkedOK(cl, p) /\ UnlinkedOK(cl, p)
    BY <1>2, <1>4, <2>1 DEF Core, LinkedOK, UnlinkedOK, Nothing
  <2>9. ClosingOK(cl, p, busy, u.secure)
    BY <1>2, <1>4, <2>1 DEF Core, ClosingOK, Nothing
  <2>10. QuietOK(cl, p, busy, told, u)
    BY <1>2, <1>4, <2>1 DEF Core, QuietOK, Calm
  <2>11. OwnerOK(cl, p, told)
    BY <1>2, <1>4, <2>1 DEF Core, OwnerOK
  <2>12. UriOK(uri, told)
    BY <1>2 DEF UriOK
  <2>13. LinesOK(inbox, rx, p, busy)
    <3>1. NoneIn(ioq, Data)
      BY <1>1, <1>3, <1>7, Empty, Members
    <3> QED BY <1>2, <2>1, <3>1, LinesSame
  <2>14. TimedOK(cl, p, inbox, rx)
    <3>1. NoneIn(ioq, Discs) /\ NoneIn(ioq, Timeouts)
      BY <1>1, <1>3, <1>7, Empty, Members
    <3> QED BY <3>1 DEF IInv, Holds, TimedOK
  <2> QED BY <1>2, <1>7, <2>1, <2>5, <2>6, <2>7, <2>8, <2>9, <2>10, <2>11, <2>12, <2>13, <2>14
          DEF IInv, Holds, Core, p
<1>8. CASE /\ Tail(ioq) = <<>> /\ ~uri.unrecoverable
           /\ owner' = "connecting"
           /\ uri' = [uri EXCEPT !.responds = FALSE]
           /\ cl' = NewClient
           /\ ioq' = <<"connect">>
           /\ UNCHANGED <<inbox, rx, reading, fault>>
  <2>1. UriOK(uri', "connecting")
    BY <1>2, <1>8 DEF UriOK, UriFields
  <2>2. inbox = <<>> /\ rx = <<>>
    BY <1>6, <1>8
  <2> QED BY <1>2, <1>8, <2>1, <2>2, NewHolds DEF IInv
<1> QED BY <1>5, <1>7, <1>8 DEF rotateConnect, Rest

\* The host is known: the connection is going to be made.
LEMMA Resolved ==
    ASSUME IInv, ~reading, ioq # <<>>, Head(ioq) \in Early, NEW d, ClientOK(d),
           d.conn = cl.conn, d.connecting = cl.connecting, d.disconnecting = cl.disconnecting,
           d.connected = cl.connected, d.txPending = cl.txPending, d.ops = cl.ops
    PROVE  Holds(d, Tail(ioq) \o <<"start_connect">>, inbox, rx, reading, owner, uri)
<1> DEFINE q == Tail(ioq)
           h == "start_connect"
           p == q \o <<h>>
           busy == FALSE
           told == owner
           u == uri
<1> SUFFICES Holds(d, p, inbox, rx, reading, told, u)
  OBVIOUS
<1>1. /\ ~reading /\ ioq # <<>> /\ Head(ioq) \in Early /\ Head(ioq) # "rotateConnect"
      /\ Head(ioq) \notin Data
  BY Members
<1>2. /\ ioq \in Seq(Handlers) /\ Core(cl, ioq, reading, owner, uri) /\ ClientOK(cl)
      /\ LinesOK(inbox, rx, ioq, reading) /\ reading = FALSE /\ UriOK(uri, owner)
  BY <1>1 DEF IInv, Holds
<1>3. /\ q \in Seq(Handlers)
      /\ \A S : NoneIn(ioq, S) <=> Head(ioq) \notin S /\ NoneIn(q, S)
      /\ \A S : Once(ioq, S) => Once(q, S) /\ (Head(ioq) \in S => NoneIn(q, S))
      /\ \A A, B : NoneBehind(ioq, A, B) => NoneBehind(q, A, B) /\ (Head(ioq) \in A => NoneIn(q, B))
  BY <1>1, <1>2, Popped
<1>4. Core(cl, q, FALSE, owner, uri)
  BY <1>1, <1>2, CorePop
<1> HIDE DEF q
<1>12. h \in Handlers /\ h \notin Data /\ h \notin Early /\ h \notin Connects /\ h \notin Reads /\ h \notin Writes /\ h \notin Timeouts /\ h \notin Discs /\ h \notin Shuts /\ h \notin Closes /\ h \notin Finals /\ h \notin Rotates
  BY Members, AreHandlers
<1> HIDE DEF h
<1>13. /\ p \in Seq(Handlers)
       /\ \A S : NoneIn(p, S) <=> NoneIn(q, S) /\ h \notin S
       /\ \A S : Once(q, S) /\ (NoneIn(q, S) \/ h \notin S) => Once(p, S)
       /\ \A A, B : NoneBehind(q, A, B) /\ (NoneIn(q, A) \/ h \notin B) => NoneBehind(p, A, B)
  BY <1>3, <1>12, Appended
<1> HIDE DEF p
<1>14. /\ ~cl.connecting /\ ~cl.connected /\ ~cl.disconnecting
       /\ Nothing(cl.ops["resolve"], q, Early) /\ Calm(q)
  BY <1>1, <1>2, <1>3 DEF Core, OpsOK, AtMostOne, EarlyOK, Calm, Nothing
<1>5. OpsOK(d, p, busy)
  BY <1>4, <1>12, <1>13, <1>14 DEF Core, OpsOK, AtMostOne, Nothing
<1>6. EarlyOK(d, p, busy, told)
  BY <1>4, <1>12, <1>13, <1>14 DEF Core, EarlyOK, Nothing, Calm
<1>7. ConnectingOK(d, p, busy)
  BY <1>4, <1>12, <1>13, <1>14 DEF Core, ConnectingOK, Nothing
<1>8. LinkedOK(d, p) /\ UnlinkedOK(d, p)
  BY <1>4, <1>12, <1>13, <1>14 DEF Core, LinkedOK, UnlinkedOK, Nothing
<1>9. ClosingOK(d, p, busy, u.secure)
  BY <1>4, <1>12, <1>13, <1>14 DEF Core, ClosingOK, Nothing
<1>10. QuietOK(d, p, busy, told, u)
  BY <1>4, <1>12, <1>13, <1>14 DEF Core, QuietOK, Calm
<1>11. OwnerOK(d, p, told)
  BY <1>4, <1>12, <1>13, <1>14 DEF Core, OwnerOK
<1>15. LinesOK(inbox, rx, p, busy)
  BY <1>1, <1>2, <1>3, <1>12, <1>13, LinesSame
<1>16. TimedOK(d, p, inbox, rx)
  BY <1>14 DEF TimedOK
<1> QED BY <1>2, <1>13, <1>15, <1>16, <1>5, <1>6, <1>7, <1>8, <1>9, <1>10, <1>11 DEF Holds, Core

\* connect() resolves the host, or has its address.
LEMMA connectKeeps ==
    ASSUME IInv, connect
    PROVE  IInv'
<1> DEFINE armed == [cl EXCEPT !.timer = TRUE, !.authpending = FALSE,
                               !.socket = IF @ = "null" THEN "closed" ELSE @]
           q == Tail(ioq)
           busy == FALSE
           told == owner
           u == uri
<1>1. /\ ~reading /\ ioq # <<>> /\ Head(ioq) = "connect" /\ Head(ioq) \in Early
      /\ Head(ioq) \notin Data /\ Head(ioq) # "rotateConnect"
      /\ UNCHANGED <<uri, inbox, rx, reading, owner, fault>>
  BY Members DEF connect, Run
<1>2. /\ ioq \in Seq(Handlers) /\ Core(cl, ioq, reading, owner, uri) /\ ClientOK(cl)
      /\ LinesOK(inbox, rx, ioq, reading) /\ reading = FALSE /\ UriOK(uri, owner)
  BY <1>1 DEF IInv, Holds
<1>3. /\ q \in Seq(Handlers)
      /\ \A S : NoneIn(ioq, S) <=> Head(ioq) \notin S /\ NoneIn(q, S)
      /\ \A S : Once(ioq, S) => Once(q, S) /\ (Head(ioq) \in S => NoneIn(q, S))
      /\ \A A, B : NoneBehind(ioq, A, B) => NoneBehind(q, A, B) /\ (Head(ioq) \in A => NoneIn(q, B))
  BY <1>1, <1>2, Popped
<1>4. Core(cl, q, FALSE, owner, uri)
  BY <1>1, <1>2, CorePop
<1> HIDE DEF q
<1>12. /\ ~cl.connecting /\ ~cl.connected /\ ~cl.disconnecting
       /\ Nothing(cl.ops["resolve"], q, Early) /\ Calm(q) /\ NoneIn(q, Starts) /\ owner = "connecting"
  BY <1>1, <1>2, <1>3 DEF Core, OpsOK, AtMostOne, EarlyOK, Calm, Nothing
<1>13. CASE cl' = Start([armed EXCEPT !.endpoints = 0], "resolve") /\ ioq' = q
  <2> DEFINE e == [armed EXCEPT !.endpoints = 0]
             d == Start(e, "resolve")
  <2>1. /\ Shape(e) /\ Keeps(cl, e, {"timer", "authpending", "endpoints", "socket"})
        /\ e.socket = IF cl.socket = "null" THEN "closed" ELSE cl.socket
    BY <1>2 DEF ClientOK, Shape, Keeps, Fields
  <2> HIDE DEF e
  <2>2. ClientOK(e)
    BY <1>2, <2>1 DEF ClientOK, Keeps, Fields
  <2>3. ClientOK(d) /\ Keeps(e, d, {"ops"}) /\ d.ops = [e.ops EXCEPT !["resolve"] = @ + 1]
    BY <2>2, StartIs DEF Ops
  <2> HIDE DEF d
  <2>4. /\ d.conn = cl.conn /\ d.connecting = cl.connecting /\ d.disconnecting = cl.disconnecting
        /\ d.connected = cl.connected /\ d.txPending = cl.txPending /\ e.ops = cl.ops
    BY <2>1, <2>3 DEF Keeps, Fields
  <2>12. /\ d.ops["resolve"] = 1 /\ d.ops["connect"] = cl.ops["connect"]
         /\ d.ops["read"] = cl.ops["read"] /\ d.ops["write"] = cl.ops["write"]
         /\ d.ops["shutdown"] = cl.ops["shutdown"]
    BY SMTT(30), <1>2, <1>12, <2>3, <2>4 DEF Ops, ClientOK, Nothing
  <2>5. OpsOK(d, q, busy)
    BY <1>4, <1>12, <2>4, <2>12 DEF Core, OpsOK, AtMostOne, Nothing
  <2>6. EarlyOK(d, q, busy, told)
    BY <1>4, <1>12, <2>4, <2>12 DEF Core, EarlyOK, Nothing, Calm
  <2>7. ConnectingOK(d, q, busy)
    BY <1>4, <1>12, <2>4, <2>12 DEF Core, ConnectingOK, Nothing
  <2>8. LinkedOK(d, q) /\ UnlinkedOK(d, q)
    BY <1>4, <1>12, <2>4, <2>12 DEF Core, LinkedOK, UnlinkedOK, Nothing
  <2>9. ClosingOK(d, q, busy, u.secure)
    BY <1>4, <1>12, <2>4, <2>12 DEF Core, ClosingOK, Nothing
  <2>10. QuietOK(d, q, busy, told, u)
    BY <1>4, <1>12, <2>4, <2>12 DEF Core, QuietOK, Calm
  <2>11. OwnerOK(d, q, told)
    BY <1>4, <1>12, <2>4, <2>12 DEF Core, OwnerOK
  <2>13. LinesOK(inbox, rx, q, busy)
    BY <1>1, <1>2, <1>3, LinesSame
  <2>14. TimedOK(d, q, inbox, rx)
    BY <1>12, <2>4 DEF TimedOK
  <2>15. cl' = d
    BY <1>13 DEF d, e
  <2> QED BY <1>1, <1>2, <1>3, <1>13, <2>3, <2>13, <2>14, <2>15, <2>5, <2>6, <2>7, <2>8, <2>9, <2>10, <2>11
          DEF IInv, Holds, Core
<1>14. CASE cl' = [armed EXCEPT !.endpoints = 1] /\ ioq' = q \o <<"start_connect">>
  <2> DEFINE d == [armed EXCEPT !.endpoints = 1]
  <2>1. /\ Shape(d) /\ Keeps(cl, d, {"timer", "authpending", "endpoints", "socket"})
        /\ d.socket = IF cl.socket = "null" THEN "closed" ELSE cl.socket
    BY <1>2 DEF ClientOK, Shape, Keeps, Fields
  <2> HIDE DEF d
  <2>2. ClientOK(d)
    BY <1>2, <2>1 DEF ClientOK, Keeps, Fields
  <2>3. /\ d.conn = cl.conn /\ d.connecting = cl.connecting /\ d.disconnecting = cl.disconnecting
        /\ d.connected = cl.connected /\ d.txPending = cl.txPending /\ d.ops = cl.ops
    BY <2>1 DEF Keeps, Fields
  <2>4. Holds(d, q \o <<"start_connect">>, inbox, rx, reading, owner, uri)
    BY <1>1, <2>2, <2>3, Resolved DEF q
  <2>5. cl' = d
    BY <1>14 DEF d
  <2> QED BY <1>1, <1>14, <2>4, <2>5 DEF IInv
<1> QED BY <1>13, <1>14 DEF connect, Rest, q

\* The resolver has answered: there are addresses, or the client gives up.
LEMMA resolve_handlerKeeps ==
    ASSUME IInv, resolve_handler
    PROVE  IInv'
<1> DEFINE q == Tail(ioq)
<1>1. /\ ~reading /\ ioq # <<>> /\ Head(ioq) \in Early /\ Head(ioq) \notin Data
      /\ Head(ioq) # "rotateConnect"
  BY Members DEF resolve_handler, Run
<1>2. /\ ioq \in Seq(Handlers) /\ Core(cl, ioq, reading, owner, uri) /\ ClientOK(cl)
      /\ LinesOK(inbox, rx, ioq, reading) /\ reading = FALSE /\ UriOK(uri, owner)
  BY <1>1 DEF IInv, Holds
<1>3. /\ q \in Seq(Handlers)
      /\ \A S : NoneIn(ioq, S) <=> Head(ioq) \notin S /\ NoneIn(q, S)
      /\ \A S : Once(ioq, S) => Once(q, S) /\ (Head(ioq) \in S => NoneIn(q, S))
      /\ \A A, B : NoneBehind(ioq, A, B) => NoneBehind(q, A, B) /\ (Head(ioq) \in A => NoneIn(q, B))
  BY <1>1, <1>2, Popped
<1>4. Core(cl, q, FALSE, owner, uri)
  BY <1>1, <1>2, CorePop
<1> HIDE DEF q
<1>12. /\ ~cl.connecting /\ ~cl.connected /\ ~cl.disconnecting
       /\ Nothing(cl.ops["resolve"], q, Early) /\ Calm(q) /\ NoneIn(q, Starts)
  BY <1>1, <1>2, <1>3 DEF Core, OpsOK, AtMostOne, EarlyOK, Calm, Nothing
<1>13. ASSUME NEW n \in 1..MaxEndpoints, cl' = [cl EXCEPT !.endpoints = n],
              ioq' = q \o <<"start_connect">>, UNCHANGED <<uri, inbox, rx, reading, owner, fault>>
       PROVE  IInv'
  <2> DEFINE d == [cl EXCEPT !.endpoints = n]
  <2>1. Shape(d) /\ Keeps(cl, d, Loose)
    BY <1>2 DEF ClientOK, Shape, Keeps, Fields, Loose
  <2> HIDE DEF d
  <2>2. ClientOK(d) /\ SameCore(cl, d)
    BY <1>2, <2>1, LooseIs
  <2>3. Holds(d, q \o <<"start_connect">>, inbox, rx, reading, owner, uri)
    BY <1>1, <2>2, Resolved DEF q, SameCore
  <2>4. cl' = d
    BY <1>13 DEF d
  <2> QED BY <1>13, <2>3, <2>4 DEF IInv
<1>14. CASE disconnect_finalize([cl EXCEPT !.connecting = FALSE], q)
  <2> DEFINE d == [cl EXCEPT !.connecting = FALSE]
  <2>1. Shape(d) /\ Keeps(cl, d, {"connecting"}) /\ d.connecting = FALSE
    BY <1>2 DEF ClientOK, Shape, Keeps, Fields
  <2>2. disconnect_finalize(d, q)
    BY <1>14
  <2> HIDE DEF d
  <2>3. ClientOK(d)
    BY <1>2, <2>1 DEF ClientOK, Keeps, Fields
  <2>4. d.conn = cl.conn /\ d.connected = cl.connected /\ d.ops = cl.ops
    BY <2>1 DEF Keeps, Fields
  <2>5. OpsOK(d, q, FALSE) /\ OwnerOK(d, q, owner)
    BY <1>4, <2>4 DEF Core, OpsOK, OwnerOK
  <2>6. cl.ops["read"] = 0 /\ cl.ops["write"] = 0 /\ Nothing(cl.ops["connect"], q, Connects)
        /\ Nothing(cl.ops["shutdown"], q, Closes)
    BY <1>4, <1>12 DEF Core, UnlinkedOK, ConnectingOK, ClosingOK
  <2>7. Finalizable(d, q, uri)
    BY <1>12, <2>1, <2>4, <2>5, <2>6, Absent DEF Finalizable
  <2>8. LinesOK(inbox, rx, q, FALSE)
    BY <1>1, <1>2, <1>3, LinesSame
  <2> QED BY <1>1, <1>3, <2>2, <2>3, <2>5, <2>7, <2>8, FinalizeStep
<1> QED BY <1>13, <1>14 DEF resolve_handler, Rest, q

\* A connection attempt begins when nothing is left of the last one.
LEMMA AttemptIs ==
    ASSUME NEW c, ClientOK(c)
    PROVE  LET d == Attempt(c)
           IN  /\ ClientOK(d) /\ d.conn = c.conn /\ d.connecting /\ d.disconnecting = c.disconnecting
               /\ d.connected = c.connected /\ d.socket = "open" /\ d.txPending = c.txPending
               /\ d.ops = [c.ops EXCEPT !["connect"] = @ + 1]
<1> DEFINE e == [c EXCEPT !.connecting = TRUE, !.socket = "open"]
           f == Start(e, "connect")
           g == clear_response_pleas(f)
           d == enqueue_response_plea(g)
<1> SUFFICES /\ ClientOK(d) /\ d.conn = c.conn /\ d.connecting /\ d.disconnecting = c.disconnecting
             /\ d.connected = c.connected /\ d.socket = "open" /\ d.txPending = c.txPending
             /\ d.ops = [c.ops EXCEPT !["connect"] = @ + 1]
  BY DEF Attempt
<1>1. Shape(e) /\ Keeps(c, e, {"connecting", "socket"}) /\ e.connecting = TRUE /\ e.socket = "open"
  BY DEF ClientOK, Shape, Keeps, Fields
<1> HIDE DEF e
<1>2. ClientOK(e)
  BY <1>1 DEF ClientOK, Keeps, Fields
<1>3. ClientOK(f) /\ Keeps(e, f, {"ops"}) /\ f.ops = [e.ops EXCEPT !["connect"] = @ + 1]
  BY <1>2, StartIs DEF Ops
<1> HIDE DEF f
<1>4. ClientOK(g) /\ Keeps(f, g, {"pleas", "older"})
  BY <1>3, ClearIs
<1> HIDE DEF g
<1>5. ClientOK(d) /\ Keeps(g, d, {"pleas", "older"})
  BY <1>4, EnqueueIs
<1> HIDE DEF d
<1> QED BY SMT, <1>1, <1>3, <1>4, <1>5 DEF Keeps, Fields

\* An attempt to connect is begun, or there is no address left.
LEMMA start_connectKeeps ==
    ASSUME IInv, start_connect
    PROVE  IInv'
<1> DEFINE q == Tail(ioq)
           busy == FALSE
           told == owner
           u == uri
<1>1. /\ ~reading /\ ioq # <<>> /\ Head(ioq) = "start_connect" /\ Head(ioq) \in Starts
      /\ Head(ioq) \notin Data /\ Head(ioq) # "rotateConnect"
  BY Members DEF start_connect, Run
<1>2. /\ ioq \in Seq(Handlers) /\ Core(cl, ioq, reading, owner, uri) /\ ClientOK(cl)
      /\ LinesOK(inbox, rx, ioq, reading) /\ reading = FALSE /\ UriOK(uri, owner)
  BY <1>1 DEF IInv, Holds
<1>3. /\ q \in Seq(Handlers)
      /\ \A S : NoneIn(ioq, S) <=> Head(ioq) \notin S /\ NoneIn(q, S)
      /\ \A S : Once(ioq, S) => Once(q, S) /\ (Head(ioq) \in S => NoneIn(q, S))
      /\ \A A, B : NoneBehind(ioq, A, B) => NoneBehind(q, A, B) /\ (Head(ioq) \in A => NoneIn(q, B))
  BY <1>1, <1>2, Popped
<1>4. Core(cl, q, FALSE, owner, uri)
  BY <1>1, <1>2, CorePop
<1> HIDE DEF q
<1>12. /\ ~NoneIn(ioq, Starts) /\ ~cl.connected /\ ~cl.disconnecting
       /\ Nothing(cl.ops["resolve"], q, Early) /\ Nothing(cl.ops["shutdown"], q, Closes)
       /\ cl.ops["read"] = 0 /\ cl.ops["write"] = 0 /\ NoneIn(q, Reads) /\ NoneIn(q, Writes)
  <2>1. ~NoneIn(ioq, Starts)
    BY <1>1, <1>3
  <2>2. ~cl.connected /\ ~cl.disconnecting /\ Nothing(cl.ops["resolve"], ioq, Early)
    BY <1>2, <2>1 DEF Core, LinkedOK, ClosingOK, EarlyOK
  <2>3. cl.ops["read"] = 0 /\ cl.ops["write"] = 0 /\ NoneIn(q, Reads) /\ NoneIn(q, Writes)
    BY <1>1, <1>2, <1>3, <2>2 DEF Core, UnlinkedOK
  <2> QED BY <1>3, <1>4, <2>1, <2>2, <2>3 DEF Core, ClosingOK, Nothing
<1>13. CASE /\ cl.connecting
            /\ ioq' = q
            /\ UNCHANGED <<uri, cl, inbox, rx, reading, owner, fault>>
  <2>1. Holds(cl, q, inbox, rx, reading, owner, uri)
    BY <1>1, HoldsPop DEF IInv, q
  <2> QED BY <1>13, <2>1 DEF IInv
<1>14. CASE /\ ~cl.connecting
            /\ cl' = Attempt(cl)
            /\ ioq' = q
            /\ UNCHANGED <<uri, inbox, rx, reading, owner, fault>>
  <2> DEFINE d == Attempt(cl)
  <2>1. /\ ClientOK(d) /\ d.conn = cl.conn /\ d.connecting /\ d.disconnecting = cl.disconnecting
        /\ d.connected = cl.connected /\ d.socket = "open" /\ d.txPending = cl.txPending
        /\ d.ops = [cl.ops EXCEPT !["connect"] = @ + 1]
    BY <1>2, AttemptIs
  <2>2. cl' = d
    BY <1>14
  <2> HIDE DEF d
  <2>3. Nothing(cl.ops["connect"], q, Connects)
    BY <1>4, <1>14 DEF Core, ConnectingOK
  <2>4. /\ d.ops["resolve"] = cl.ops["resolve"] /\ d.ops["connect"] = 1
        /\ d.ops["read"] = 0 /\ d.ops["write"] = 0 /\ d.ops["shutdown"] = cl.ops["shutdown"]
    BY SMTT(30), <1>2, <1>12, <2>1, <2>3 DEF Ops, ClientOK, Nothing
  <2>5. OpsOK(d, q, busy)
    BY <1>4, <1>12, <2>1, <2>3, <2>4, Absent DEF Core, OpsOK, AtMostOne, Nothing
  <2>6. EarlyOK(d, q, busy, told)
    BY <1>4, <1>12, <2>1, <2>3, <2>4, Absent DEF Core, EarlyOK, Nothing, Calm
  <2>7. ConnectingOK(d, q, busy)
    BY <1>4, <1>12, <2>1, <2>3, <2>4, Absent DEF Core, ConnectingOK, Nothing
  <2>8. LinkedOK(d, q) /\ UnlinkedOK(d, q)
    BY <1>4, <1>12, <2>1, <2>3, <2>4, Absent DEF Core, LinkedOK, UnlinkedOK, Nothing
  <2>9. ClosingOK(d, q, busy, u.secure)
    BY <1>4, <1>12, <2>1, <2>3, <2>4, Absent DEF Core, ClosingOK, Nothing
  <2>10. QuietOK(d, q, busy, told, u)
    BY <1>4, <1>12, <2>1, <2>3, <2>4, Absent DEF Core, QuietOK, Calm
  <2>11. OwnerOK(d, q, told)
    BY <1>4, <1>12, <2>1, <2>3, <2>4, Absent DEF Core, OwnerOK
  <2>13. LinesOK(inbox, rx, q, busy)
    BY <1>1, <1>2, <1>3, LinesSame
  <2>14. TimedOK(d, q, inbox, rx)
    BY <1>12, <2>1 DEF TimedOK
  <2> QED BY <1>2, <1>3, <1>14, <2>1, <2>2, <2>13, <2>14, <2>5, <2>6, <2>7, <2>8, <2>9, <2>10, <2>11
          DEF IInv, Holds, Core
<1>15. CASE ~cl.connecting /\ disconnect_finalize(cl, q)
  <2>1. uri.secure => Calm(q)
    BY <1>4, <1>12 DEF Core, QuietOK
  <2>2. Finalizable(cl, q, uri)
    BY <1>4, <1>12, <1>15, <2>1, Absent DEF Core, ConnectingOK, Finalizable
  <2>3. LinesOK(inbox, rx, q, FALSE)
    BY <1>1, <1>2, <1>3, LinesSame
  <2> QED BY <1>1, <1>2, <1>3, <1>4, <1>15, <2>2, <2>3, FinalizeStep DEF Core
<1> QED BY <1>13, <1>14, <1>15 DEF start_connect, Rest, q

\* A connection that failed leaves nothing behind, and the next address is tried.
LEMMA connectFailedKeeps ==
    ASSUME IInv, connectFailed
    PROVE  IInv'
<1> DEFINE q == Tail(ioq)
           t == Aborted(cl)
           b == q \o t
           h == "start_connect"
           p == b \o <<h>>
           e == NoSocketOps(cl)
           d == [e EXCEPT !.connecting = FALSE, !.socket = "closed", !.endpoints = @ - 1]
           busy == FALSE
           told == owner
           u == uri
<1>1. /\ ~reading /\ ioq # <<>> /\ Head(ioq) \in Connects
      /\ Head(ioq) \notin Data /\ Head(ioq) # "rotateConnect"
  BY Members DEF connectFailed, Run
<1>2. /\ ioq \in Seq(Handlers) /\ Core(cl, ioq, reading, owner, uri) /\ ClientOK(cl)
      /\ LinesOK(inbox, rx, ioq, reading) /\ reading = FALSE /\ UriOK(uri, owner)
  BY <1>1 DEF IInv, Holds
<1>3. /\ q \in Seq(Handlers)
      /\ \A S : NoneIn(ioq, S) <=> Head(ioq) \notin S /\ NoneIn(q, S)
      /\ \A S : Once(ioq, S) => Once(q, S) /\ (Head(ioq) \in S => NoneIn(q, S))
      /\ \A A, B : NoneBehind(ioq, A, B) => NoneBehind(q, A, B) /\ (Head(ioq) \in A => NoneIn(q, B))
  BY <1>1, <1>2, Popped
<1>4. Core(cl, q, FALSE, owner, uri)
  BY <1>1, <1>2, CorePop
<1> HIDE DEF q
<1>12. CASE Crash
  BY <1>12, CrashStep
<1>13. CASE cl' = d /\ ioq' = p /\ UNCHANGED <<uri, inbox, rx, reading, owner, fault>>
  <2>1. ~NoneIn(ioq, Connects) /\ Nothing(cl.ops["connect"], q, Connects)
    BY <1>1, <1>2, <1>3 DEF Core, OpsOK, AtMostOne, Nothing
  <2>2. /\ cl.connecting /\ ~cl.connected /\ ~cl.disconnecting
        /\ Nothing(cl.ops["read"], q, Reads) /\ Nothing(cl.ops["write"], q, Writes)
    BY <1>2, <1>4, <2>1 DEF Core, ConnectingOK, Nothing
  <2>3. Nothing(cl.ops["resolve"], q, Early) /\ Nothing(cl.ops["shutdown"], q, Closes)
    BY <1>4, <2>2 DEF Core, EarlyOK, ClosingOK
  <2>4. /\ t \in Seq(Handlers) /\ NoneIn(t, Reads) /\ NoneIn(t, Writes) /\ NoneIn(t, Connects)
        /\ NoneIn(t, Shuts) /\ NoneIn(t, Early) /\ NoneIn(t, Starts) /\ NoneIn(t, Timeouts)
        /\ NoneIn(t, Discs) /\ NoneIn(t, Finals) /\ NoneIn(t, Rotates) /\ NoneIn(t, Data)
    <3>1. /\ cl.ops["read"] = 0 /\ cl.ops["write"] = 0 /\ cl.ops["connect"] = 0
          /\ cl.ops["shutdown"] = 0
      BY <2>1, <2>2, <2>3 DEF Nothing
    <3> QED BY SMT, <3>1, AbortedIs
  <2>12. NoneIn(t, Closes)
    BY <2>4, Parts
  <2>13. /\ ClientOK(e) /\ Keeps(cl, e, {"ops"}) /\ e.ops["resolve"] = cl.ops["resolve"]
         /\ \A o \in Ops \ {"resolve"} : e.ops[o] = 0
    BY <1>2, NoSocketOpsIs
  <2> HIDE DEF t, e
  <2>14. /\ Shape(d) /\ Keeps(e, d, {"connecting", "socket", "endpoints"})
         /\ d.connecting = FALSE /\ d.socket = "closed"
    BY <2>13 DEF ClientOK, Shape, Keeps, Fields
  <2>15. cl' = d /\ ioq' = p
    BY <1>13
  <2>16. h \in Handlers /\ h \notin Data /\ h \notin Early /\ h \notin Connects /\ h \notin Reads /\ h \notin Writes /\ h \notin Timeouts /\ h \notin Discs /\ h \notin Shuts /\ h \notin Closes /\ h \notin Finals /\ h \notin Rotates
    BY Members, AreHandlers
  <2> HIDE DEF d, h
  <2>17. ClientOK(d)
    BY <2>13, <2>14 DEF ClientOK, Keeps, Fields
  <2>18. /\ d.conn = cl.conn /\ d.disconnecting = cl.disconnecting /\ d.connected = cl.connected
         /\ d.txPending = cl.txPending /\ d.ops = e.ops
    BY <2>13, <2>14 DEF Keeps, Fields
  <2>19. /\ d.ops["resolve"] = cl.ops["resolve"] /\ d.ops["connect"] = 0 /\ d.ops["read"] = 0
         /\ d.ops["write"] = 0 /\ d.ops["shutdown"] = 0
    BY <2>13, <2>18 DEF Ops
  <2>20. /\ b \in Seq(Handlers)
         /\ \A S : NoneIn(b, S) <=> NoneIn(q, S) /\ NoneIn(t, S)
         /\ \A S : Once(q, S) /\ Once(t, S) /\ (NoneIn(q, S) \/ NoneIn(t, S)) => Once(b, S)
    BY <1>3, <2>4, Joined
  <2> HIDE DEF b
  <2>21. /\ p \in Seq(Handlers)
         /\ \A S : NoneIn(p, S) <=> NoneIn(b, S) /\ h \notin S
         /\ \A S : Once(b, S) /\ (NoneIn(b, S) \/ h \notin S) => Once(p, S)
    BY <2>16, <2>20, Appended
  <2> HIDE DEF p
  <2>22. /\ NoneIn(p, Early) /\ NoneIn(p, Connects) /\ NoneIn(p, Reads) /\ NoneIn(p, Writes)
         /\ NoneIn(p, Closes)
    BY <2>1, <2>2, <2>3, <2>4, <2>12, <2>16, <2>20, <2>21 DEF Nothing
  <2>23. /\ NoneIn(q, Timeouts) => NoneIn(p, Timeouts)
         /\ NoneIn(q, Discs) => NoneIn(p, Discs)
         /\ NoneIn(p, Rotates) <=> NoneIn(q, Rotates)
         /\ Once(q, Rotates) => Once(p, Rotates)
         /\ NoneIn(p, Data) <=> NoneIn(ioq, Data)
    BY <1>1, <1>3, <2>4, <2>16, <2>20, <2>21, Absent
  <2>5. OpsOK(d, p, busy)
    BY <1>4, <2>2, <2>3, <2>14, <2>18, <2>19, <2>22, <2>23, Absent DEF Core, OpsOK, AtMostOne, Nothing
  <2>6. EarlyOK(d, p, busy, told)
    BY <1>4, <2>2, <2>3, <2>14, <2>18, <2>19, <2>22, <2>23, Absent DEF Core, EarlyOK, Nothing, Calm
  <2>7. ConnectingOK(d, p, busy)
    BY <1>4, <2>2, <2>3, <2>14, <2>18, <2>19, <2>22, <2>23, Absent DEF Core, ConnectingOK, Nothing
  <2>8. LinkedOK(d, p) /\ UnlinkedOK(d, p)
    BY <1>4, <2>2, <2>3, <2>14, <2>18, <2>19, <2>22, <2>23, Absent DEF Core, LinkedOK, UnlinkedOK, Nothing
  <2>9. ClosingOK(d, p, busy, u.secure)
    BY <1>4, <2>2, <2>3, <2>14, <2>18, <2>19, <2>22, <2>23, Absent DEF Core, ClosingOK, Nothing
  <2>10. QuietOK(d, p, busy, told, u)
    BY <1>4, <2>2, <2>3, <2>14, <2>18, <2>19, <2>22, <2>23, Absent DEF Core, QuietOK, Calm
  <2>11. OwnerOK(d, p, told)
    BY <1>4, <2>2, <2>3, <2>14, <2>18, <2>19, <2>22, <2>23, Absent DEF Core, OwnerOK
  <2>24. LinesOK(inbox, rx, p, busy)
    BY <1>2, <2>23, LinesSame
  <2>25. TimedOK(d, p, inbox, rx)
    BY <2>2, <2>18 DEF TimedOK
  <2> QED BY <1>2, <1>13, <2>15, <2>17, <2>21, <2>24, <2>25, <2>5, <2>6, <2>7, <2>8, <2>9, <2>10, <2>11
          DEF IInv, Holds, Core
<1> QED BY <1>12, <1>13 DEF connectFailed, Rest, q

-----------------------------------------------------------------------------
(* Requests, answers and pleas *)

\* A request to be answered is sent together with a plea.
LEMMA SendHolds ==
    ASSUME NEW c, NEW q, NEW data, NEW lines, NEW busy, NEW told, NEW u,
           Holds(c, q, data, lines, busy, told, u), NEW r \in Requests
    PROVE  Holds(send(enqueue_response_plea(c), r), q, data, lines, busy, told, u)
<1> DEFINE e == enqueue_response_plea(c)
           d == send(e, r)
<1>1. ClientOK(c) /\ Core(c, q, busy, told, u) /\ TimedOK(c, q, data, lines)
  BY DEF Holds
<1>2. ClientOK(e) /\ Keeps(c, e, {"pleas", "older"}) /\ Pleas(e) = Pleas(c) + 1
  BY <1>1, EnqueueIs
<1> HIDE DEF e
<1>3. SameCore(c, e) /\ Awaited(e) = Awaited(c)
  BY <1>2, PleasSame DEF Keeps
<1>4. Core(e, q, busy, told, u)
  BY <1>1, <1>3, CoreSame
<1>5. /\ ClientOK(d) /\ Keeps(e, d, {"txPending", "txCount", "txQueue", "ops", "wire"})
      /\ Awaited(d) <= Awaited(e) + 1
  BY <1>2, SendIs
<1>6. Core(d, q, busy, told, u)
  BY <1>2, <1>4, SendCore
<1> SUFFICES Holds(d, q, data, lines, busy, told, u)
  BY DEF e
<1> HIDE DEF d
<1>7. Pleas(d) = Pleas(e) /\ d.connected = c.connected
  <2>1. d.pleas = e.pleas /\ d.connected = e.connected /\ e.connected = c.connected
    BY <1>2, <1>5 DEF Keeps, Fields
  <2> QED BY <2>1 DEF Pleas
<1>8. /\ Awaited(c) \in Nat /\ Awaited(d) \in Nat /\ Pleas(c) \in Nat
      /\ Owed(lines) \in Nat /\ Received(data) \in Nat
  BY SMT, <1>1, <1>5, Lengths, Counts
<1>9. TimedOK(d, q, data, lines)
  BY SMT, <1>1, <1>2, <1>3, <1>5, <1>7, <1>8 DEF TimedOK
<1> QED BY <1>5, <1>6, <1>9 DEF Holds

\* A message that is not answered needs none.
LEMMA NoteHolds ==
    ASSUME NEW c, NEW q, NEW data, NEW lines, NEW busy, NEW told, NEW u,
           Holds(c, q, data, lines, busy, told, u)
    PROVE  Holds(send(c, "note"), q, data, lines, busy, told, u)
<1> DEFINE d == send(c, "note")
<1>1. ClientOK(c) /\ Core(c, q, busy, told, u) /\ TimedOK(c, q, data, lines)
  BY DEF Holds
<1>2. /\ ClientOK(d) /\ Keeps(c, d, {"txPending", "txCount", "txQueue", "ops", "wire"})
      /\ Awaited(d) <= Awaited(c)
  BY <1>1, SendIs
<1>3. Core(d, q, busy, told, u)
  BY <1>1, SendCore
<1> SUFFICES Holds(d, q, data, lines, busy, told, u)
  OBVIOUS
<1> HIDE DEF d
<1>4. Pleas(d) = Pleas(c) /\ d.connected = c.connected
  <2>1. d.pleas = c.pleas /\ d.connected = c.connected
    BY <1>2 DEF Keeps, Fields
  <2> QED BY <2>1 DEF Pleas
<1>5. Pleas(c) \in Nat
  BY <1>1, Lengths
<1>6. TimedOK(d, q, data, lines)
  BY SMT, <1>1, <1>2, <1>4, <1>5, TimedSame
<1> QED BY <1>2, <1>3, <1>6 DEF Holds

\* A line is taken: what is left of the transmission answers nothing.
LEMMA TakenIs ==
    ASSUME NEW t, Transmission(t), t # <<>>
    PROVE  /\ Transmission(Tail(t)) /\ Owed(Tail(t)) = 0
           /\ Owed(t) = IF Head(t).line \in Unsolicited THEN 0 ELSE 1
<1>1. PICK S : t \in Seq(S)
  BY DEF Transmission
<1> DEFINE r == Tail(t)
<1>2. /\ r \in Seq(S) /\ Head(t) = t[1]
      /\ \A i \in DOMAIN r : r[i] = t[i + 1] /\ i + 1 \in DOMAIN t /\ i + 1 # 1
  BY SMT, <1>1
<1>3. r # <<>> => 1 \in DOMAIN r
  BY SMT, <1>2
<1> HIDE DEF r
<1>4. \A i \in DOMAIN r : r[i].line \in Unsolicited
  BY <1>2 DEF Transmission
<1>5. Transmission(r) /\ Owed(r) = 0
  BY <1>2, <1>3, <1>4 DEF Transmission, Owed
<1>6. Owed(t) = IF Head(t).line \in Unsolicited THEN 0 ELSE 1
  BY <1>2 DEF Owed
<1> QED BY <1>5, <1>6 DEF r

\* A line is processed that answers nothing, or whose plea stays.
LEMMA TakenHolds ==
    ASSUME NEW c, NEW q, NEW data, NEW lines, NEW told, NEW u,
           Holds(c, q, data, lines, TRUE, told, u), lines # <<>>
    PROVE  Holds(c, q, data, Tail(lines), TRUE, told, u)
<1>1. ClientOK(c) /\ TimedOK(c, q, data, lines) /\ LinesOK(data, lines, q, TRUE)
  BY DEF Holds
<1>2. Transmission(Tail(lines)) /\ Owed(Tail(lines)) = 0
  BY <1>1, TakenIs DEF LinesOK
<1>3. LinesOK(data, Tail(lines), q, TRUE)
  BY <1>1, <1>2 DEF LinesOK
<1>4. /\ Awaited(c) \in Nat /\ Pleas(c) \in Nat /\ Owed(lines) \in Nat /\ Received(data) \in Nat
  BY SMT, <1>1, Lengths, Counts
<1>5. TimedOK(c, q, data, Tail(lines))
  BY SMT, <1>1, <1>2, <1>4 DEF TimedOK
<1> QED BY <1>3, <1>5 DEF Holds

\* An answer takes its plea with it.
LEMMA AnsweredHolds ==
    ASSUME NEW c, NEW q, NEW data, NEW lines, NEW told, NEW u,
           Holds(c, q, data, lines, TRUE, told, u), lines # <<>>, Head(lines).line \notin Unsolicited
    PROVE  Holds(dequeue_response_plea(c), q, data, Tail(lines), TRUE, told, u)
<1> DEFINE d == dequeue_response_plea(c)
<1>1. /\ ClientOK(c) /\ TimedOK(c, q, data, lines) /\ LinesOK(data, lines, q, TRUE)
      /\ Core(c, q, TRUE, told, u)
  BY DEF Holds
<1>2. Transmission(Tail(lines)) /\ Owed(Tail(lines)) = 0 /\ Owed(lines) = 1
  BY <1>1, TakenIs DEF LinesOK
<1>3. LinesOK(data, Tail(lines), q, TRUE)
  BY <1>1, <1>2 DEF LinesOK
<1>4. ClientOK(d) /\ Keeps(c, d, {"pleas", "older"}) /\ Pleas(c) <= Pleas(d) + 1
  BY <1>1, DequeueIs
<1> SUFFICES Holds(d, q, data, Tail(lines), TRUE, told, u)
  OBVIOUS
<1> HIDE DEF d
<1>5. SameCore(c, d) /\ Awaited(d) = Awaited(c)
  BY <1>4, PleasSame DEF Keeps
<1>6. Core(d, q, TRUE, told, u)
  BY <1>1, <1>5, CoreSame
<1>7. /\ Awaited(c) \in Nat /\ Pleas(c) \in Nat /\ Pleas(d) \in Nat /\ Received(data) \in Nat
  BY SMT, <1>1, <1>4, Lengths, Counts
<1>8. TimedOK(d, q, data, Tail(lines))
  BY SMT, <1>1, <1>2, <1>4, <1>5, <1>7 DEF TimedOK, SameCore
<1> QED BY <1>3, <1>4, <1>6, <1>8 DEF Holds

\* The client has just been connected, with nothing sent yet.
LEMMA UpIs ==
    ASSUME NEW c, ClientOK(c)
    PROVE  LET d == [Emptied(c) EXCEPT !.connecting = FALSE, !.connected = TRUE, !.wire = <<>>]
           IN  /\ ClientOK(d) /\ d.conn = c.conn /\ d.connecting = FALSE /\ d.connected = TRUE
               /\ d.disconnecting = c.disconnecting /\ d.socket = c.socket
               /\ d.txPending = c.txPending /\ d.ops = c.ops /\ Awaited(d) = 0
<1> DEFINE e == Emptied(c)
           d == [e EXCEPT !.connecting = FALSE, !.connected = TRUE, !.wire = <<>>]
<1>1. ClientOK(e) /\ Keeps(c, e, {"txCount", "txQueue"}) /\ e.txQueue = <<>>
  BY EmptiedIs
<1> SUFFICES /\ ClientOK(d) /\ d.conn = c.conn /\ d.connecting = FALSE /\ d.connected = TRUE
             /\ d.disconnecting = c.disconnecting /\ d.socket = c.socket
             /\ d.txPending = c.txPending /\ d.ops = c.ops /\ Awaited(d) = 0
  OBVIOUS
<1> HIDE DEF e
<1>2. /\ Shape(d) /\ Keeps(e, d, {"connecting", "connected", "wire"}) /\ d.connecting = FALSE
      /\ d.connected = TRUE /\ d.wire = <<>>
  BY <1>1 DEF ClientOK, Shape, Keeps, Fields
<1> HIDE DEF d
<1>3. ClientOK(d)
  <2>1. d.wire \in Seq(Requests)
    BY SMT, <1>2
  <2> QED BY <1>1, <1>2, <2>1 DEF ClientOK, Keeps, Fields
<1>4. Awaited(d) = 0
  <2>1. d.txQueue = <<>> /\ d.wire = <<>>
    BY <1>1, <1>2 DEF Keeps, Fields
  <2> QED BY SMT, <2>1 DEF Awaited
<1> QED BY <1>1, <1>2, <1>3, <1>4 DEF Keeps, Fields

\* The connection is made: a login is sent, unless the TLS handshake fails.
LEMMA connectedKeeps ==
    ASSUME IInv, connected
    PROVE  IInv'
<1> DEFINE q == Tail(ioq)
           up == [Emptied(cl) EXCEPT !.connecting = FALSE, !.connected = TRUE, !.wire = <<>>]
           busy == FALSE
           told == owner
           u == uri
<1>1. /\ ~reading /\ ioq # <<>> /\ Head(ioq) \in Connects
      /\ Head(ioq) \notin Data /\ Head(ioq) # "rotateConnect" /\ cl.socket = "open"
  BY Members DEF connected, Run
<1>2. /\ ioq \in Seq(Handlers) /\ Core(cl, ioq, reading, owner, uri) /\ ClientOK(cl)
      /\ LinesOK(inbox, rx, ioq, reading) /\ reading = FALSE /\ UriOK(uri, owner)
  BY <1>1 DEF IInv, Holds
<1>3. /\ q \in Seq(Handlers)
      /\ \A S : NoneIn(ioq, S) <=> Head(ioq) \notin S /\ NoneIn(q, S)
      /\ \A S : Once(ioq, S) => Once(q, S) /\ (Head(ioq) \in S => NoneIn(q, S))
      /\ \A A, B : NoneBehind(ioq, A, B) => NoneBehind(q, A, B) /\ (Head(ioq) \in A => NoneIn(q, B))
  BY <1>1, <1>2, Popped
<1>4. Core(cl, q, FALSE, owner, uri)
  BY <1>1, <1>2, CorePop
<1> HIDE DEF q
<1>12. /\ ClientOK(up) /\ up.conn = cl.conn /\ up.connecting = FALSE /\ up.connected = TRUE
       /\ up.disconnecting = cl.disconnecting /\ up.socket = cl.socket
       /\ up.txPending = cl.txPending /\ up.ops = cl.ops /\ Awaited(up) = 0
  BY <1>2, UpIs
<1> HIDE DEF up
<1>13. ~NoneIn(ioq, Connects) /\ Nothing(cl.ops["connect"], q, Connects)
  BY <1>1, <1>2, <1>3 DEF Core, OpsOK, AtMostOne, Nothing
<1>14. /\ cl.connecting /\ ~cl.connected /\ ~cl.disconnecting /\ NoneIn(q, Starts)
       /\ Nothing(cl.ops["read"], q, Reads) /\ Nothing(cl.ops["write"], q, Writes)
  BY <1>1, <1>2, <1>3, <1>4, <1>13 DEF Core, ConnectingOK, Nothing
<1>15. Nothing(cl.ops["resolve"], q, Early) /\ Nothing(cl.ops["shutdown"], q, Closes)
  BY <1>4, <1>14 DEF Core, EarlyOK, ClosingOK
<1>16. LinesOK(inbox, rx, q, busy) /\ inbox = <<>> /\ rx = <<>>
  <2>1. LinesOK(inbox, rx, q, busy)
    BY <1>1, <1>2, <1>3, LinesSame
  <2>2. NoneIn(q, Data)
    BY <1>14, Parts DEF Nothing
  <2> QED BY <2>1, <2>2 DEF LinesOK
<1>17. CASE Crash
  BY <1>17, CrashStep
<1>18. CASE /\ uri' = [uri EXCEPT !.responds = TRUE, !.unrecoverable = TRUE]
            /\ cl' = up
            /\ ioq' = q \o <<"disconnect">>
            /\ UNCHANGED <<inbox, rx, reading, owner, fault>>
  <2>1. UriOK(uri', owner) /\ uri'.secure = uri.secure /\ uri'.version = uri.version
    BY <1>2, <1>18 DEF UriOK, UriFields
  <2>5. OpsOK(up, q, busy)
    BY <1>4, <1>12, <1>13, <1>14, <1>15 DEF Core, OpsOK, AtMostOne, Nothing
  <2>6. EarlyOK(up, q, busy, told)
    BY <1>4, <1>12, <1>13, <1>14, <1>15 DEF Core, EarlyOK, Nothing, Calm
  <2>7. ConnectingOK(up, q, busy)
    BY <1>4, <1>12, <1>13, <1>14, <1>15 DEF Core, ConnectingOK, Nothing
  <2>8. LinkedOK(up, q) /\ UnlinkedOK(up, q)
    BY <1>1, <1>4, <1>12, <1>13, <1>14, <1>15 DEF Core, LinkedOK, UnlinkedOK, Nothing
  <2>9. ClosingOK(up, q, busy, u.secure)
    BY <1>4, <1>12, <1>13, <1>14, <1>15 DEF Core, ClosingOK, Nothing
  <2>10. QuietOK(up, q, busy, told, u)
    BY <1>4, <1>12, <1>13, <1>14, <1>15 DEF Core, QuietOK, Calm
  <2>11. OwnerOK(up, q, told)
    BY <1>4, <1>12, <1>13, <1>14, <1>15 DEF Core, OwnerOK
  <2>12. Core(up, q, busy, told, u)
    BY <2>5, <2>6, <2>7, <2>8, <2>9, <2>10, <2>11 DEF Core
  <2>13. SameCore(up, up)
    BY DEF SameCore
  <2>14. Core(up, q, busy, told, uri')
    BY <2>1, <2>12, <2>13, CoreSame
  <2>15. ~GivenUp(up, uri') /\ ~up.disconnecting /\ Nothing(up.ops["resolve"], q, Early)
    BY <1>12, <1>14, <1>15 DEF GivenUp
  <2>16. Holds(up, q \o <<"disconnect">>, inbox, rx, busy, told, uri')
    BY <1>3, <1>12, <1>16, <2>1, <2>14, <2>15, HoldsDisc
  <2> QED BY <1>2, <1>18, <2>16 DEF IInv
<1>19. CASE /\ uri' = [uri EXCEPT !.responds = TRUE, !.mode = LoginMode,
                                  !.confirmed = @ \/ uri.version # AutoDetect]
            /\ cl' = send(enqueue_response_plea(Start(
                        [clear_response_pleas(up) EXCEPT !.loginMode = LoginMode], "read")), "login")
            /\ ioq' = q
            /\ UNCHANGED <<inbox, rx, reading, owner, fault>>
  <2> DEFINE e == clear_response_pleas(up)
             f == [e EXCEPT !.loginMode = LoginMode]
             d == Start(f, "read")
  <2>1. UriOK(uri', owner) /\ uri'.secure = uri.secure /\ uri'.version = uri.version
    <3>1. DOMAIN uri' = UriFields /\ uri' = [x \in DOMAIN uri' |-> uri'[x]]
      BY <1>2, <1>19 DEF UriOK, UriFields
    <3>2. /\ uri'.secure = uri.secure /\ uri'.version = uri.version
          /\ uri'.confirmed = (uri.confirmed \/ uri.version # AutoDetect)
      BY <1>2, <1>19 DEF UriOK, UriFields
    <3> QED BY <1>2, <3>1, <3>2 DEF UriOK
  <2>2. ClientOK(e) /\ Keeps(up, e, {"pleas", "older"}) /\ Pleas(e) = 0
    BY <1>12, ClearIs
  <2>3. cl' = send(enqueue_response_plea(d), "login")
    BY <1>19
  <2> HIDE DEF e
  <2>4. Shape(f) /\ Keeps(e, f, Loose)
    BY <2>2 DEF ClientOK, Shape, Keeps, Fields, Loose
  <2> HIDE DEF f
  <2>12. ClientOK(f) /\ SameCore(e, f) /\ Awaited(f) = Awaited(e)
    BY <2>2, <2>4, LooseIs
  <2>13. SameCore(up, e) /\ Awaited(e) = Awaited(up)
    BY <2>2, PleasSame DEF Keeps
  <2>14. ClientOK(d) /\ Keeps(f, d, {"ops"}) /\ d.ops = [f.ops EXCEPT !["read"] = @ + 1]
    BY <2>12, StartIs DEF Ops
  <2> HIDE DEF d
  <2>15. /\ d.conn = cl.conn /\ d.connecting = FALSE /\ d.connected = TRUE
         /\ d.disconnecting = cl.disconnecting /\ d.socket = cl.socket
         /\ d.txPending = cl.txPending /\ f.ops = cl.ops
    BY <1>12, <2>12, <2>13, <2>14 DEF Keeps, Fields, SameCore
  <2>16. /\ d.ops["read"] = 1 /\ d.ops["resolve"] = cl.ops["resolve"]
         /\ d.ops["connect"] = cl.ops["connect"] /\ d.ops["write"] = cl.ops["write"]
         /\ d.ops["shutdown"] = cl.ops["shutdown"]
    BY SMT, <1>2, <1>14, <2>14, <2>15 DEF Ops, ClientOK, Nothing
  <2>5. OpsOK(d, q, busy)
    BY <1>1, <1>4, <1>13, <1>14, <1>15, <2>15, <2>16, Absent DEF Core, OpsOK, AtMostOne, Nothing
  <2>6. EarlyOK(d, q, busy, told)
    BY <1>1, <1>4, <1>13, <1>14, <1>15, <2>15, <2>16, Absent DEF Core, EarlyOK, Nothing, Calm
  <2>7. ConnectingOK(d, q, busy)
    BY <1>1, <1>4, <1>13, <1>14, <1>15, <2>15, <2>16, Absent DEF Core, ConnectingOK, Nothing
  <2>8. LinkedOK(d, q) /\ UnlinkedOK(d, q)
    BY <1>1, <1>4, <1>13, <1>14, <1>15, <2>15, <2>16, Absent DEF Core, LinkedOK, UnlinkedOK, Nothing
  <2>9. ClosingOK(d, q, busy, u.secure)
    BY <1>1, <1>4, <1>13, <1>14, <1>15, <2>15, <2>16, Absent DEF Core, ClosingOK, Nothing
  <2>10. QuietOK(d, q, busy, told, u)
    BY <1>1, <1>4, <1>13, <1>14, <1>15, <2>15, <2>16, Absent DEF Core, QuietOK, Calm
  <2>11. OwnerOK(d, q, told)
    BY <1>1, <1>4, <1>13, <1>14, <1>15, <2>15, <2>16, Absent DEF Core, OwnerOK
  <2>17. Core(d, q, busy, told, u)
    BY <2>5, <2>6, <2>7, <2>8, <2>9, <2>10, <2>11 DEF Core
  <2>18. SameCore(d, d)
    BY DEF SameCore
  <2>19. Core(d, q, busy, told, uri')
    BY <2>1, <2>17, <2>18, CoreSame
  <2>20. TimedOK(d, q, inbox, rx)
    <3>1. Awaited(d) = Awaited(f)
      BY <2>14 DEF Awaited, Keeps, Fields
    <3>2. Awaited(d) = 0 /\ Pleas(d) \in Nat /\ Owed(rx) = 0 /\ Received(inbox) = 0
      BY <1>12, <1>16, <2>12, <2>13, <2>14, <3>1, Lengths, Counts
    <3> QED BY SMT, <3>2 DEF TimedOK
  <2>21. Holds(d, q, inbox, rx, busy, told, uri')
    BY <1>3, <1>16, <2>1, <2>14, <2>19, <2>20 DEF Holds
  <2>22. Holds(cl', q, inbox, rx, busy, told, uri')
    BY <2>3, <2>21, SendHolds DEF Requests
  <2> QED BY <1>2, <1>19, <2>22 DEF IInv
<1> QED BY <1>17, <1>18, <1>19 DEF connected, Rest, q, up

-----------------------------------------------------------------------------
(* Every step keeps the invariant: receiving and sending *)

\* The read handler takes the data that came with it.
LEMMA onRecvSocketDataCompletedKeeps ==
    ASSUME IInv, onRecvSocketDataCompleted
    PROVE  IInv'
<1> DEFINE q == Tail(ioq)
           d == [cl EXCEPT !.newjob = FALSE]
           busy == TRUE
           told == owner
           u == uri
<1>1. /\ ~reading /\ ioq # <<>> /\ Head(ioq) = "read" /\ Head(ioq) \in Reads
      /\ Head(ioq) \in Data /\ Head(ioq) # "rotateConnect"
      /\ Head(ioq) \notin Discs /\ Head(ioq) \notin Timeouts
  BY Members DEF onRecvSocketDataCompleted, Run
<1>23. /\ cl' = d /\ ioq' = q /\ rx' = Head(inbox) /\ inbox' = Tail(inbox) /\ reading' = TRUE
      /\ UNCHANGED <<uri, owner, fault>>
  BY DEF onRecvSocketDataCompleted, Rest
<1>2. /\ ioq \in Seq(Handlers) /\ Core(cl, ioq, reading, owner, uri) /\ ClientOK(cl)
      /\ LinesOK(inbox, rx, ioq, reading) /\ reading = FALSE /\ UriOK(uri, owner)
  BY <1>1 DEF IInv, Holds
<1>3. /\ q \in Seq(Handlers)
      /\ \A S : NoneIn(ioq, S) <=> Head(ioq) \notin S /\ NoneIn(q, S)
      /\ \A S : Once(ioq, S) => Once(q, S) /\ (Head(ioq) \in S => NoneIn(q, S))
      /\ \A A, B : NoneBehind(ioq, A, B) => NoneBehind(q, A, B) /\ (Head(ioq) \in A => NoneIn(q, B))
  BY <1>1, <1>2, Popped
<1>4. Core(cl, q, FALSE, owner, uri)
  BY <1>1, <1>2, CorePop
<1> HIDE DEF q
<1>12. ~NoneIn(ioq, Reads) /\ ~NoneIn(ioq, Data) /\ Nothing(cl.ops["read"], q, Reads)
  BY <1>1, <1>2, <1>3 DEF Core, OpsOK, AtMostOne, Nothing
<1>13. NoneIn(q, Data)
  BY <1>12, Parts DEF Nothing
<1>14. PICK t : inbox = <<t>> /\ Transmission(t)
  BY <1>2, <1>12 DEF LinesOK
<1>15. rx' = t /\ inbox' = <<>> /\ rx = <<>> /\ Received(inbox) = Owed(t)
  BY SMT, <1>2, <1>14, <1>23 DEF LinesOK, Received
<1>16. LinesOK(inbox', rx', q, TRUE)
  BY <1>13, <1>14, <1>15 DEF LinesOK
<1>17. Shape(d) /\ Keeps(cl, d, Loose)
  BY <1>2 DEF ClientOK, Shape, Keeps, Fields, Loose
<1> HIDE DEF d
<1>18. ClientOK(d) /\ SameCore(cl, d) /\ Awaited(d) = Awaited(cl) /\ Pleas(d) = Pleas(cl)
  BY <1>2, <1>17, LooseIs
<1>19. TimedOK(d, q, inbox', rx')
  <2>1. TimedOK(cl, ioq, inbox, rx)
    BY DEF IInv, Holds
  <2>2. /\ NoneIn(q, Discs) <=> NoneIn(ioq, Discs)
        /\ NoneIn(q, Timeouts) <=> NoneIn(ioq, Timeouts)
    BY <1>1, <1>3
  <2>3. Owed(rx) = 0 /\ Received(inbox') = 0 /\ Awaited(cl) \in Nat /\ Owed(t) \in Nat
    BY SMT, <1>2, <1>15, Counts, Lengths
  <2> QED BY SMT, <1>15, <1>18, <2>1, <2>2, <2>3 DEF TimedOK, SameCore
<1>20. /\ Nothing(cl.ops["resolve"], q, Early) /\ ~GivenUp(cl, uri) /\ ~cl.connecting
       /\ cl.disconnecting => NoneIn(q, Finals)
  <2>1. /\ Nothing(cl.ops["resolve"], ioq, Early) /\ ~GivenUp(cl, uri)
        /\ cl.disconnecting => NoneIn(ioq, Finals)
    BY <1>2, <1>12, Leavable
  <2>2. ~cl.connecting
    BY <1>2, <1>12 DEF Core, ConnectingOK, Nothing
  <2> QED BY <1>3, <2>1, <2>2 DEF Nothing
<1>5. OpsOK(cl, q, busy)
  BY <1>4, <1>12, <1>20 DEF Core, OpsOK, AtMostOne, Nothing
<1>6. EarlyOK(cl, q, busy, told)
  BY <1>4, <1>12, <1>20 DEF Core, EarlyOK, Nothing, Calm
<1>7. ConnectingOK(cl, q, busy)
  BY <1>4, <1>12, <1>20 DEF Core, ConnectingOK, Nothing
<1>8. LinkedOK(cl, q) /\ UnlinkedOK(cl, q)
  BY <1>4, <1>12, <1>20 DEF Core, LinkedOK, UnlinkedOK, Nothing
<1>9. ClosingOK(cl, q, busy, u.secure)
  BY <1>4, <1>12, <1>20 DEF Core, ClosingOK, Nothing
<1>10. QuietOK(cl, q, busy, told, u)
  BY <1>4, <1>12, <1>20 DEF Core, QuietOK, GivenUp
<1>11. OwnerOK(cl, q, told)
  BY <1>4, <1>12, <1>20 DEF Core, OwnerOK
<1>21. Core(cl, q, busy, told, u)
  BY <1>5, <1>6, <1>7, <1>8, <1>9, <1>10, <1>11 DEF Core
<1>22. Core(d, q, busy, told, u)
  BY <1>18, <1>21, CoreSame
<1> QED BY <1>2, <1>3, <1>16, <1>18, <1>19, <1>22, <1>23 DEF IInv, Holds

\* Reading goes on when the last line is done.
LEMMA endOfTransmissionKeeps ==
    ASSUME IInv, endOfTransmission
    PROVE  IInv'
<1> DEFINE q == ioq
           busy == FALSE
           told == owner
           u == uri
<1>1. /\ reading = TRUE /\ rx = <<>> /\ reading' = FALSE
      /\ cl' = IF isConnected(cl) THEN Start(cl, "read") ELSE cl
      /\ UNCHANGED <<uri, ioq, inbox, rx, owner, fault>>
  BY DEF endOfTransmission, IInv, Holds
<1>2. /\ ioq \in Seq(Handlers) /\ Core(cl, q, TRUE, told, u) /\ ClientOK(cl)
      /\ LinesOK(inbox, rx, ioq, TRUE) /\ UriOK(uri, owner) /\ TimedOK(cl, ioq, inbox, rx)
  BY <1>1 DEF IInv, Holds
<1>3. Nothing(cl.ops["read"], q, Reads) /\ Nothing(cl.ops["resolve"], q, Early) /\ ~cl.connecting
  BY <1>2 DEF Core, OpsOK, EarlyOK, ConnectingOK
<1>4. LinesOK(inbox, rx, ioq, FALSE)
  BY <1>1, <1>2 DEF LinesOK
<1>12. CASE ~isConnected(cl)
  <2>5. OpsOK(cl, q, busy)
    BY <1>2, <1>3 DEF Core, OpsOK, AtMostOne, Nothing
  <2>6. EarlyOK(cl, q, busy, told)
    BY <1>2, <1>3 DEF Core, EarlyOK, Nothing, Calm
  <2>7. ConnectingOK(cl, q, busy)
    BY <1>2, <1>3 DEF Core, ConnectingOK, Nothing
  <2>8. LinkedOK(cl, q) /\ UnlinkedOK(cl, q)
    BY <1>2, <1>3 DEF Core, LinkedOK, UnlinkedOK, Nothing
  <2>9. ClosingOK(cl, q, busy, u.secure)
    BY <1>2, <1>3 DEF Core, ClosingOK, Nothing
  <2>10. QuietOK(cl, q, busy, told, u)
    BY <1>2, <1>3 DEF Core, QuietOK, Calm
  <2>11. OwnerOK(cl, q, told)
    BY <1>2, <1>3 DEF Core, OwnerOK
  <2> QED BY <1>1, <1>2, <1>4, <1>12, <2>5, <2>6, <2>7, <2>8, <2>9, <2>10, <2>11 DEF IInv, Holds, Core
<1>13. CASE isConnected(cl)
  <2> DEFINE d == Start(cl, "read")
  <2>1. ClientOK(d) /\ Keeps(cl, d, {"ops"}) /\ d.ops = [cl.ops EXCEPT !["read"] = @ + 1]
    BY <1>2, StartIs DEF Ops
  <2>2. cl' = d
    BY <1>1, <1>13
  <2> HIDE DEF d
  <2>3. /\ d.conn = cl.conn /\ d.connecting = cl.connecting /\ d.connected = cl.connected
        /\ d.disconnecting = cl.disconnecting /\ d.socket = cl.socket
        /\ d.txPending = cl.txPending /\ cl.connected
    BY <1>13, <2>1 DEF Keeps, Fields, isConnected
  <2>4. /\ d.ops["read"] = 1 /\ d.ops["resolve"] = cl.ops["resolve"]
        /\ d.ops["connect"] = cl.ops["connect"] /\ d.ops["write"] = cl.ops["write"]
        /\ d.ops["shutdown"] = cl.ops["shutdown"]
    BY SMTT(30), <1>2, <1>3, <2>1 DEF Ops, ClientOK, Nothing
  <2>5. OpsOK(d, q, busy)
    BY <1>2, <1>3, <2>3, <2>4, Absent DEF Core, OpsOK, AtMostOne, Nothing
  <2>6. EarlyOK(d, q, busy, told)
    BY <1>2, <1>3, <2>3, <2>4, Absent DEF Core, EarlyOK, Nothing, Calm
  <2>7. ConnectingOK(d, q, busy)
    BY <1>2, <1>3, <2>3, <2>4, Absent DEF Core, ConnectingOK, Nothing
  <2>8. LinkedOK(d, q) /\ UnlinkedOK(d, q)
    BY <1>2, <1>3, <2>3, <2>4, Absent DEF Core, LinkedOK, UnlinkedOK, Nothing
  <2>9. ClosingOK(d, q, busy, u.secure)
    BY <1>2, <1>3, <2>3, <2>4, Absent DEF Core, ClosingOK, Nothing
  <2>10. QuietOK(d, q, busy, told, u)
    BY <1>2, <1>3, <2>3, <2>4, Absent DEF Core, QuietOK, Calm
  <2>11. OwnerOK(d, q, told)
    BY <1>2, <1>3, <2>3, <2>4, Absent DEF Core, OwnerOK
  <2>12. TimedOK(d, ioq, inbox, rx)
    <3>1. Awaited(d) = Awaited(cl) /\ Pleas(d) = Pleas(cl)
      BY <2>1 DEF Awaited, Pleas, Keeps, Fields
    <3> QED BY <1>2, <2>3, <3>1 DEF TimedOK
  <2> QED BY <1>1, <1>2, <1>4, <2>1, <2>2, <2>12, <2>5, <2>6, <2>7, <2>8, <2>9, <2>10, <2>11
          DEF IInv, Holds, Core
<1> QED BY <1>12, <1>13

\* The URI is found to be unrecoverable, or its mode is confirmed.
LEMMA UriIs ==
    ASSUME NEW u, NEW told, UriOK(u, told), NEW x
    PROVE  /\ LET v == [u EXCEPT !.unrecoverable = @ \/ x]
              IN  UriOK(v, told) /\ v.secure = u.secure /\ v.version = u.version
           /\ LET v == [u EXCEPT !.unrecoverable = TRUE]
              IN  UriOK(v, told) /\ v.secure = u.secure /\ v.version = u.version
           /\ LET v == [u EXCEPT !.confirmed = TRUE]
              IN  UriOK(v, "up") /\ v.secure = u.secure /\ v.version = u.version
<1>1. ASSUME NEW v, DOMAIN v = UriFields, v = [f \in DOMAIN v |-> v[f]],
             \A f \in UriFields \ {"unrecoverable", "confirmed"} : v[f] = u[f],
             u.unrecoverable => v.unrecoverable, u.confirmed => v.confirmed
      PROVE  /\ UriOK(v, told) /\ v.secure = u.secure /\ v.version = u.version
             /\ v.confirmed => UriOK(v, "up")
  <2>1. v.secure = u.secure /\ v.version = u.version /\ v.responds = u.responds
    BY <1>1 DEF UriFields
  <2> QED BY <1>1, <2>1 DEF UriOK
<1> DEFINE v1 == [u EXCEPT !.unrecoverable = @ \/ x]
           v2 == [u EXCEPT !.unrecoverable = TRUE]
           v3 == [u EXCEPT !.confirmed = TRUE]
<1>2. UriOK(v1, told) /\ v1.secure = u.secure /\ v1.version = u.version
  <2>1. DOMAIN v1 = UriFields /\ v1 = [f \in DOMAIN v1 |-> v1[f]]
    BY DEF UriOK
  <2>2. /\ \A f \in UriFields \ {"unrecoverable", "confirmed"} : v1[f] = u[f]
        /\ (u.unrecoverable => v1.unrecoverable) /\ (u.confirmed => v1.confirmed)
    BY DEF UriOK, UriFields
  <2> HIDE DEF v1
  <2> QED BY <1>1, <2>1, <2>2
<1>3. UriOK(v2, told) /\ v2.secure = u.secure /\ v2.version = u.version
  <2>1. DOMAIN v2 = UriFields /\ v2 = [f \in DOMAIN v2 |-> v2[f]]
    BY DEF UriOK
  <2>2. /\ \A f \in UriFields \ {"unrecoverable", "confirmed"} : v2[f] = u[f]
        /\ (u.unrecoverable => v2.unrecoverable) /\ (u.confirmed => v2.confirmed)
    BY DEF UriOK, UriFields
  <2> HIDE DEF v2
  <2> QED BY <1>1, <2>1, <2>2
<1>4. UriOK(v3, "up") /\ v3.secure = u.secure /\ v3.version = u.version
  <2>1. DOMAIN v3 = UriFields /\ v3 = [f \in DOMAIN v3 |-> v3[f]]
    BY DEF UriOK
  <2>2. /\ \A f \in UriFields \ {"unrecoverable", "confirmed"} : v3[f] = u[f]
        /\ (u.unrecoverable => v3.unrecoverable) /\ (u.confirmed => v3.confirmed) /\ v3.confirmed
    BY DEF UriOK, UriFields
  <2> HIDE DEF v3
  <2> QED BY <1>1, <2>1, <2>2
<1> QED BY <1>2, <1>3, <1>4

\* A handler that may ask for a disconnection does, on a client that has been changed a little.
LEMMA AskedHolds ==
    ASSUME IInv, ~reading, ioq # <<>>,
           Head(ioq) \in Reads \cup Writes \cup Timeouts, Head(ioq) \notin Data,
           NEW d, ClientOK(d), SameCore(cl, d),
           NEW v, UriOK(v, owner), v.secure = uri.secure, v.version = uri.version
    PROVE  Holds(d, Tail(ioq) \o <<"disconnect">>, inbox, rx, reading, owner, v)
<1> DEFINE q == Tail(ioq)
<1>1. ~reading /\ ioq # <<>> /\ Head(ioq) # "rotateConnect"
  BY Members
<1>2. /\ ioq \in Seq(Handlers) /\ Core(cl, ioq, reading, owner, uri) /\ ClientOK(cl)
      /\ LinesOK(inbox, rx, ioq, reading) /\ reading = FALSE /\ UriOK(uri, owner)
  BY <1>1 DEF IInv, Holds
<1>3. /\ q \in Seq(Handlers)
      /\ \A S : NoneIn(ioq, S) <=> Head(ioq) \notin S /\ NoneIn(q, S)
      /\ \A S : Once(ioq, S) => Once(q, S) /\ (Head(ioq) \in S => NoneIn(q, S))
      /\ \A A, B : NoneBehind(ioq, A, B) => NoneBehind(q, A, B) /\ (Head(ioq) \in A => NoneIn(q, B))
  BY <1>1, <1>2, Popped
<1>4. Core(cl, q, FALSE, owner, uri)
  BY <1>1, <1>2, CorePop
<1> HIDE DEF q
<1>5. ~NoneIn(ioq, Reads) \/ ~NoneIn(ioq, Writes) \/ ~NoneIn(ioq, Timeouts)
  BY <1>3
<1>6. /\ Nothing(cl.ops["resolve"], ioq, Early) /\ ~GivenUp(cl, uri)
      /\ cl.disconnecting => NoneIn(ioq, Finals)
  BY <1>2, <1>5, Leavable
<1>7. Core(d, q, FALSE, owner, v)
  BY <1>4, CoreSame
<1>8. /\ Nothing(d.ops["resolve"], q, Early) /\ ~GivenUp(d, v)
      /\ d.disconnecting => NoneIn(q, Finals)
  BY <1>3, <1>6 DEF Nothing, SameCore, GivenUp
<1>9. LinesOK(inbox, rx, q, FALSE)
  BY <1>2, <1>3, LinesSame
<1>10. Holds(d, q \o <<"disconnect">>, inbox, rx, FALSE, owner, v)
  BY <1>3, <1>7, <1>8, <1>9, HoldsDisc
<1> QED BY <1>2, <1>10 DEF q

\* A read that fails ends the connection.
LEMMA onRecvErrorKeeps ==
    ASSUME IInv, onRecvError
    PROVE  IInv'
<1>1. /\ ~reading /\ ioq # <<>> /\ Head(ioq) = "read_err" /\ Head(ioq) \in Reads
      /\ Head(ioq) \notin Data /\ UNCHANGED <<cl, inbox, rx, reading, owner, fault>>
  BY Members DEF onRecvError, Run
<1>2. ClientOK(cl) /\ UriOK(uri, owner) /\ SameCore(cl, cl)
  BY DEF IInv, Holds, SameCore
<1>3. CASE /\ uri' = [uri EXCEPT !.unrecoverable = @ \/ cl.authpending]
           /\ ioq' = Tail(ioq) \o <<"disconnect">>
  <2>1. UriOK(uri', owner) /\ uri'.secure = uri.secure /\ uri'.version = uri.version
    BY <1>2, <1>3, UriIs
  <2>2. Holds(cl, ioq', inbox, rx, reading, owner, uri')
    BY <1>1, <1>2, <1>3, <2>1, AskedHolds
  <2> QED BY <1>1, <2>2 DEF IInv
<1>4. CASE ioq' = Tail(ioq) /\ UNCHANGED uri
  <2>1. Holds(cl, Tail(ioq), inbox, rx, reading, owner, uri)
    BY <1>1, HoldsPop DEF IInv
  <2> QED BY <1>1, <1>4, <2>1 DEF IInv
<1> QED BY <1>3, <1>4 DEF onRecvError, Rest

\* While lines are processed, a disconnection can be asked for.
LEMMA HungUpHolds ==
    ASSUME NEW c, NEW q, NEW data, NEW lines, NEW told, NEW u,
           Holds(c, q, data, lines, TRUE, told, u)
    PROVE  Holds(c, q \o <<"disconnect">>, data, lines, TRUE, told, u)
<1>1. /\ ClientOK(c) /\ q \in Seq(Handlers) /\ UriOK(u, told) /\ Core(c, q, TRUE, told, u)
      /\ LinesOK(data, lines, q, TRUE)
  BY DEF Holds
<1>2. /\ Nothing(c.ops["resolve"], q, Early) /\ ~GivenUp(c, u)
      /\ c.disconnecting => NoneIn(q, Finals)
  BY <1>1, Leavable
<1> QED BY <1>1, <1>2, HoldsDisc

\* What a line that is taken leaves.
LEMMA LineIs ==
    ASSUME IInv, NEW lines, TakeLine(lines)
    PROVE  /\ reading = TRUE /\ rx # <<>> /\ Head(rx).line \in lines /\ rx' = Tail(rx)
           /\ inbox' = inbox /\ reading' = TRUE
           /\ Holds(cl, ioq, inbox, rx, TRUE, owner, uri) /\ ClientOK(cl) /\ UriOK(uri, owner)
           /\ Holds(cl, ioq, inbox, Tail(rx), TRUE, owner, uri)
           /\ Head(rx).line \notin Unsolicited =>
                  Holds(dequeue_response_plea(cl), ioq, inbox, Tail(rx), TRUE, owner, uri)
<1>1. /\ reading = TRUE /\ rx # <<>> /\ Head(rx).line \in lines /\ rx' = Tail(rx)
      /\ inbox' = inbox /\ reading' = reading
  BY DEF TakeLine, IInv, Holds
<1>2. Holds(cl, ioq, inbox, rx, TRUE, owner, uri)
  BY <1>1 DEF IInv
<1>3. Holds(cl, ioq, inbox, Tail(rx), TRUE, owner, uri)
  BY <1>1, <1>2, TakenHolds
<1>4. Head(rx).line \notin Unsolicited =>
          Holds(dequeue_response_plea(cl), ioq, inbox, Tail(rx), TRUE, owner, uri)
  BY <1>1, <1>2, AnsweredHolds
<1>5. ClientOK(cl) /\ UriOK(uri, owner)
  BY <1>2 DEF Holds
<1> QED BY <1>1, <1>2, <1>3, <1>4, <1>5

\* A line that makes the client leave.
LEMMA processHangupKeeps ==
    ASSUME IInv, processHangup
    PROVE  IInv'
<1>1. /\ reading' = TRUE /\ rx' = Tail(rx) /\ inbox' = inbox
      /\ Holds(cl, ioq, inbox, Tail(rx), TRUE, owner, uri)
  BY LineIs DEF processHangup
<1>2. Holds(cl, ioq \o <<"disconnect">>, inbox, Tail(rx), TRUE, owner, uri)
  BY <1>1, HungUpHolds
<1> QED BY <1>1, <1>2 DEF processHangup, IInv

\* Other fields of the client are assigned, and perhaps something is learnt of its URI.
LEMMA LooseHolds ==
    ASSUME NEW c, NEW q, NEW data, NEW lines, NEW busy, NEW told, NEW u,
           Holds(c, q, data, lines, busy, told, u),
           NEW d, Shape(d), Keeps(c, d, Loose),
           NEW v, UriOK(v, told), v.secure = u.secure, v.version = u.version
    PROVE  Holds(d, q, data, lines, busy, told, v)
<1>1. ClientOK(c)
  BY DEF Holds
<1>2. /\ ClientOK(d) /\ SameCore(c, d) /\ Awaited(d) = Awaited(c) /\ Pleas(d) = Pleas(c)
  BY <1>1, LooseIs
<1>3. Awaited(c) \in Nat /\ Pleas(c) \in Nat
  BY <1>1, Lengths
<1> QED BY SMTT(30), <1>2, <1>3, HoldsSame

\* The URI is learnt about, with the client as it is.
LEMMA UriHolds ==
    ASSUME NEW c, NEW q, NEW data, NEW lines, NEW busy, NEW told, NEW u,
           Holds(c, q, data, lines, busy, told, u),
           NEW v, UriOK(v, told), v.secure = u.secure, v.version = u.version
    PROVE  Holds(c, q, data, lines, busy, told, v)
<1>1. Shape(c) /\ Keeps(c, c, Loose)
  BY DEF Holds, ClientOK, Keeps
<1> QED BY <1>1, LooseHolds

\* The PoolManager is told that the client is up.
LEMMA ToldHolds ==
    ASSUME NEW c, NEW q, NEW data, NEW lines, NEW told, NEW u,
           Holds(c, q, data, lines, TRUE, told, u), c.conn,
           NEW v, UriOK(v, "up"), v.secure = u.secure, v.version = u.version
    PROVE  Holds(c, q, data, lines, TRUE, "up", v)
<1>1. Core(c, q, TRUE, told, u)
  BY DEF Holds
<1>2. EarlyOK(c, q, TRUE, "up") /\ QuietOK(c, q, TRUE, "up", v)
  BY <1>1 DEF Core, EarlyOK, QuietOK
<1>3. OwnerOK(c, q, "up")
  BY <1>1 DEF Core, OwnerOK
<1>4. Core(c, q, TRUE, "up", v)
  BY <1>1, <1>2, <1>3 DEF Core
<1> QED BY <1>4 DEF Holds

\* The answer to the login starts the session, or makes the client leave.
LEMMA processLoginKeeps ==
    ASSUME IInv, processLogin
    PROVE  IInv'
<1> DEFINE c == dequeue_response_plea(cl)
<1>1. TakeLine({"login_ok", "login_err"}) /\ cl.conn
  BY DEF processLogin
<1>2. /\ reading' = TRUE /\ rx' = Tail(rx) /\ inbox' = inbox /\ ClientOK(cl) /\ UriOK(uri, owner)
      /\ Holds(c, ioq, inbox, Tail(rx), TRUE, owner, uri)
  <2> DEFINE lines == {"login_ok", "login_err"}
  <2>1. TakeLine(lines) /\ \A x \in lines : x \notin Unsolicited
    BY <1>1 DEF Unsolicited
  <2> HIDE DEF lines
  <2> QED BY <2>1, LineIs
<1>3. ClientOK(c) /\ c.conn = cl.conn
  BY <1>2, DequeueIs DEF Keeps, Fields
<1> HIDE DEF c
<1>4. CASE loginAccepted(c) /\ UNCHANGED ioq
  <2>1. uri' = [uri EXCEPT !.confirmed = TRUE] /\ owner' = "up"
    BY <1>4 DEF loginAccepted
  <2>2. UriOK(uri', "up") /\ uri'.secure = uri.secure /\ uri'.version = uri.version
    BY <1>2, <2>1, UriIs
  <2>3. Holds(c, ioq, inbox, Tail(rx), TRUE, "up", uri')
    BY <1>1, <1>2, <1>3, <2>2, ToldHolds
  <2>4. ASSUME NEW d, Shape(d), Keeps(c, d, Loose)
        PROVE  Holds(d, ioq, inbox, Tail(rx), TRUE, "up", uri')
    BY <2>2, <2>3, <2>4, LooseHolds
  <2> DEFINE started(session) == [c EXCEPT !.session = session, !.workAge = 0]
             late(session) == [started(session) EXCEPT !.authpending = TRUE]
  <2>5. ASSUME NEW session PROVE Holds(started(session), ioq, inbox, Tail(rx), TRUE, "up", uri')
    <3> DEFINE d == started(session)
    <3>1. Shape(d) /\ Keeps(c, d, Loose)
      BY <1>3 DEF ClientOK, Shape, Keeps, Fields, Loose
    <3> HIDE DEF d
    <3>2. Holds(d, ioq, inbox, Tail(rx), TRUE, "up", uri')
      BY <2>4, <3>1
    <3> QED BY <3>2 DEF d
  <2>6. ASSUME NEW session PROVE Holds(late(session), ioq, inbox, Tail(rx), TRUE, "up", uri')
    <3> DEFINE d == late(session)
    <3>1. Shape(d) /\ Keeps(c, d, Loose)
      BY <1>3 DEF ClientOK, Shape, Keeps, Fields, Loose
    <3> HIDE DEF d
    <3>2. Holds(d, ioq, inbox, Tail(rx), TRUE, "up", uri')
      BY <2>4, <3>1
    <3> QED BY <3>2 DEF d
  <2>7. CASE cl' = send(enqueue_response_plea(started("open")), "subscribe")
    <3>1. Holds(cl', ioq, inbox, Tail(rx), TRUE, "up", uri')
      BY <2>5, <2>7, SendHolds DEF Requests
    <3> QED BY <1>2, <1>4, <2>1, <3>1 DEF IInv
  <2>8. CASE cl' = send(enqueue_response_plea(
                       [send(started("subscribed"), "note") EXCEPT !.authpending = TRUE]), "authorize")
    <3> DEFINE e == send(started("subscribed"), "note")
               d == [e EXCEPT !.authpending = TRUE]
    <3>1. Holds(e, ioq, inbox, Tail(rx), TRUE, "up", uri')
      BY <2>5, NoteHolds
    <3> HIDE DEF e
    <3>2. Shape(d) /\ Keeps(e, d, Loose)
      BY <3>1 DEF Holds, ClientOK, Shape, Keeps, Fields, Loose
    <3>3. cl' = send(enqueue_response_plea(d), "authorize")
      BY <2>8 DEF e
    <3> HIDE DEF d
    <3>4. Holds(d, ioq, inbox, Tail(rx), TRUE, "up", uri')
      BY <2>2, <3>1, <3>2, LooseHolds
    <3>5. Holds(cl', ioq, inbox, Tail(rx), TRUE, "up", uri')
      BY <3>3, <3>4, SendHolds DEF Requests
    <3> QED BY <1>2, <1>4, <2>1, <3>5 DEF IInv
  <2>9. CASE cl' = send(enqueue_response_plea(late("subscribed")), "authorize")
    <3>1. Holds(cl', ioq, inbox, Tail(rx), TRUE, "up", uri')
      BY <2>6, <2>9, SendHolds DEF Requests
    <3> QED BY <1>2, <1>4, <2>1, <3>1 DEF IInv
  <2>10. CASE cl' = send(started("authorized"), "note")
    <3>1. Holds(cl', ioq, inbox, Tail(rx), TRUE, "up", uri')
      BY <2>5, <2>10, NoteHolds
    <3> QED BY <1>2, <1>4, <2>1, <3>1 DEF IInv
  <2> QED BY <1>4, <2>7, <2>8, <2>9, <2>10 DEF loginAccepted
<1>5. CASE loginRefused(c) /\ ioq' = ioq \o <<"disconnect">>
  <2>1. /\ cl' = c /\ uri' = [uri EXCEPT !.unrecoverable = @ \/ uri.confirmed] /\ owner' = owner
    BY <1>5 DEF loginRefused
  <2>2. UriOK(uri', owner) /\ uri'.secure = uri.secure /\ uri'.version = uri.version
    BY <1>2, <2>1, UriIs
  <2>3. Holds(c, ioq, inbox, Tail(rx), TRUE, owner, uri')
    BY <1>2, <2>2, UriHolds
  <2>4. Holds(c, ioq \o <<"disconnect">>, inbox, Tail(rx), TRUE, owner, uri')
    BY <2>3, HungUpHolds
  <2> QED BY <1>2, <1>5, <2>1, <2>4 DEF IInv
<1> QED BY <1>4, <1>5 DEF processLogin, c

\* The login that is not answered makes the client leave.
LEMMA loginTimeoutKeeps ==
    ASSUME IInv, loginTimeout
    PROVE  IInv'
<1>1. ~reading /\ ioq # <<>> /\ Head(ioq) \in Timeouts /\ Head(ioq) \notin Data
  BY Members DEF loginTimeout, Run
<1>2. ClientOK(cl) /\ UriOK(uri, owner)
  BY DEF IInv, Holds
<1>3. CASE Crash
  BY <1>3, CrashStep
<1>4. CASE /\ loginRefused(dequeue_response_plea(cl))
           /\ ioq' = Tail(ioq) \o <<"disconnect">>
           /\ UNCHANGED <<inbox, rx, reading>>
  <2> DEFINE c == dequeue_response_plea(cl)
  <2>1. ClientOK(c) /\ Keeps(cl, c, {"pleas", "older"})
    BY <1>2, DequeueIs
  <2>2. /\ cl' = c /\ uri' = [uri EXCEPT !.unrecoverable = @ \/ uri.confirmed] /\ owner' = owner
    BY <1>4 DEF loginRefused
  <2> HIDE DEF c
  <2>3. SameCore(cl, c)
    BY <2>1, PleasSame DEF Keeps
  <2>4. UriOK(uri', owner) /\ uri'.secure = uri.secure /\ uri'.version = uri.version
    BY <1>2, <2>2, UriIs
  <2>5. Holds(c, ioq', inbox, rx, reading, owner, uri')
    BY <1>1, <1>4, <2>1, <2>3, <2>4, AskedHolds
  <2> QED BY <1>4, <2>2, <2>5 DEF IInv
<1> QED BY <1>3, <1>4 DEF loginTimeout, Rest

\* An error that is about no request.
LEMMA processError999Keeps ==
    ASSUME IInv, processError999
    PROVE  IInv'
<1>1. /\ reading' = TRUE /\ rx' = Tail(rx) /\ inbox' = inbox
      /\ Holds(cl, ioq, inbox, Tail(rx), TRUE, owner, uri)
  BY LineIs DEF processError999
<1>2. Holds(cl, ioq \o <<"disconnect">>, inbox, Tail(rx), TRUE, owner, uri)
  BY <1>1, HungUpHolds
<1>3. ioq' = ioq \/ ioq' = ioq \o <<"disconnect">>
  BY DEF processError999
<1> QED BY <1>1, <1>2, <1>3 DEF processError999, IInv

\* The answer to the subscription.
LEMMA processSubscribeKeeps ==
    ASSUME IInv, processSubscribe
    PROVE  IInv'
<1> DEFINE c == dequeue_response_plea(cl)
<1> HIDE DEF c
<1>1. ASSUME TakeLine({"subscribe_err"})
      PROVE  /\ reading' = TRUE /\ rx' = Tail(rx) /\ inbox' = inbox /\ UriOK(uri, owner)
             /\ Holds(c, ioq, inbox, Tail(rx), TRUE, owner, uri)
  <2> DEFINE lines == {"subscribe_err"}
  <2>1. TakeLine(lines) /\ \A x \in lines : x \notin Unsolicited
    BY <1>1 DEF Unsolicited
  <2> HIDE DEF lines
  <2> QED BY <2>1, LineIs DEF c
<1>2. ASSUME TakeLine({"subscribe_ok"})
      PROVE  /\ reading' = TRUE /\ rx' = Tail(rx) /\ inbox' = inbox /\ UriOK(uri, owner)
             /\ Holds(c, ioq, inbox, Tail(rx), TRUE, owner, uri)
  <2> DEFINE lines == {"subscribe_ok"}
  <2>1. TakeLine(lines) /\ \A x \in lines : x \notin Unsolicited
    BY <1>2 DEF Unsolicited
  <2> HIDE DEF lines
  <2> QED BY <2>1, LineIs DEF c
<1>3. CASE /\ TakeLine({"subscribe_err"})
           /\ cl' = c
           /\ uri' = [uri EXCEPT !.unrecoverable = TRUE]
           /\ ioq' = ioq \o <<"disconnect">>
           /\ UNCHANGED <<owner, fault>>
  <2>1. UriOK(uri', owner) /\ uri'.secure = uri.secure /\ uri'.version = uri.version
    BY <1>1, <1>3, UriIs
  <2>2. Holds(c, ioq, inbox, Tail(rx), TRUE, owner, uri')
    BY <1>1, <1>3, <2>1, UriHolds
  <2>3. Holds(c, ioq \o <<"disconnect">>, inbox, Tail(rx), TRUE, owner, uri')
    BY <2>2, HungUpHolds
  <2> QED BY <1>1, <1>3, <2>3 DEF IInv
<1>4. CASE /\ TakeLine({"subscribe_ok"})
           /\ cl' = send(enqueue_response_plea(
                       [c EXCEPT !.session = "subscribed", !.authpending = TRUE]), "authorize")
           /\ UNCHANGED <<uri, ioq, owner, fault>>
  <2> DEFINE d == [c EXCEPT !.session = "subscribed", !.authpending = TRUE]
  <2>1. Holds(c, ioq, inbox, Tail(rx), TRUE, owner, uri) /\ UriOK(uri, owner)
    BY <1>2, <1>4
  <2>2. Shape(d) /\ Keeps(c, d, Loose)
    BY <2>1 DEF Holds, ClientOK, Shape, Keeps, Fields, Loose
  <2>3. cl' = send(enqueue_response_plea(d), "authorize")
    BY <1>4
  <2> HIDE DEF d
  <2>4. Holds(d, ioq, inbox, Tail(rx), TRUE, owner, uri)
    BY <2>1, <2>2, LooseHolds
  <2>5. Holds(cl', ioq, inbox, Tail(rx), TRUE, owner, uri)
    BY <2>3, <2>4, SendHolds DEF Requests
  <2> QED BY <1>2, <1>4, <2>5 DEF IInv
<1> QED BY <1>3, <1>4 DEF processSubscribe, c

\* The answer to the authorization.
LEMMA processAuthorizeKeeps ==
    ASSUME IInv, processAuthorize
    PROVE  IInv'
<1> DEFINE c == dequeue_response_plea(cl)
<1> HIDE DEF c
<1>1. ASSUME TakeLine({"authorize_ok"})
      PROVE  /\ reading' = TRUE /\ rx' = Tail(rx) /\ inbox' = inbox /\ UriOK(uri, owner)
             /\ Holds(c, ioq, inbox, Tail(rx), TRUE, owner, uri)
  <2> DEFINE lines == {"authorize_ok"}
  <2>1. TakeLine(lines) /\ \A x \in lines : x \notin Unsolicited
    BY <1>1 DEF Unsolicited
  <2> HIDE DEF lines
  <2> QED BY <2>1, LineIs DEF c
<1>2. ASSUME TakeLine({"authorize_err"})
      PROVE  /\ reading' = TRUE /\ rx' = Tail(rx) /\ inbox' = inbox /\ UriOK(uri, owner)
             /\ Holds(c, ioq, inbox, Tail(rx), TRUE, owner, uri)
  <2> DEFINE lines == {"authorize_err"}
  <2>1. TakeLine(lines) /\ \A x \in lines : x \notin Unsolicited
    BY <1>2 DEF Unsolicited
  <2> HIDE DEF lines
  <2> QED BY <2>1, LineIs DEF c
<1>3. CASE /\ TakeLine({"authorize_ok"})
           /\ cl' = [c EXCEPT !.authpending = FALSE, !.session = "authorized"]
           /\ UNCHANGED <<uri, ioq, owner, fault>>
  <2> DEFINE d == [c EXCEPT !.authpending = FALSE, !.session = "authorized"]
  <2>1. Holds(c, ioq, inbox, Tail(rx), TRUE, owner, uri) /\ UriOK(uri, owner)
    BY <1>1, <1>3
  <2>2. Shape(d) /\ Keeps(c, d, Loose)
    BY <2>1 DEF Holds, ClientOK, Shape, Keeps, Fields, Loose
  <2>3. cl' = d
    BY <1>3
  <2> HIDE DEF d
  <2>4. Holds(d, ioq, inbox, Tail(rx), TRUE, owner, uri)
    BY <2>1, <2>2, LooseHolds
  <2> QED BY <1>1, <1>3, <2>3, <2>4 DEF IInv
<1>4. CASE /\ TakeLine({"authorize_err"})
           /\ cl' = [c EXCEPT !.authpending = @ /\ uri.mode = 3]
           /\ uri' = [uri EXCEPT !.unrecoverable = TRUE]
           /\ ioq' = ioq \o <<"disconnect">>
           /\ UNCHANGED <<owner, fault>>
  <2> DEFINE d == [c EXCEPT !.authpending = @ /\ uri.mode = 3]
  <2>1. Holds(c, ioq, inbox, Tail(rx), TRUE, owner, uri) /\ UriOK(uri, owner)
    BY <1>2, <1>4
  <2>2. Shape(d) /\ Keeps(c, d, Loose)
    BY <2>1 DEF Holds, ClientOK, Shape, Keeps, Fields, Loose
  <2>3. cl' = d
    BY <1>4
  <2> HIDE DEF d
  <2>4. UriOK(uri', owner) /\ uri'.secure = uri.secure /\ uri'.version = uri.version
    BY <1>4, <2>1, UriIs
  <2>5. Holds(d, ioq, inbox, Tail(rx), TRUE, owner, uri')
    BY <2>1, <2>2, <2>4, LooseHolds
  <2>6. Holds(d, ioq \o <<"disconnect">>, inbox, Tail(rx), TRUE, owner, uri')
    BY <2>5, HungUpHolds
  <2> QED BY <1>2, <1>4, <2>3, <2>6 DEF IInv
<1> QED BY <1>3, <1>4 DEF processAuthorize, c

\* The answer to a solution.
LEMMA processSubmittedKeeps ==
    ASSUME IInv, processSubmitted
    PROVE  IInv'
<1> DEFINE c == dequeue_response_plea(cl)
<1> HIDE DEF c
<1>1. ASSUME TakeLine({"submit_ok"})
      PROVE  /\ reading' = TRUE /\ rx' = Tail(rx) /\ inbox' = inbox /\ UriOK(uri, owner)
             /\ Holds(c, ioq, inbox, Tail(rx), TRUE, owner, uri)
  <2> DEFINE lines == {"submit_ok"}
  <2>1. TakeLine(lines) /\ \A x \in lines : x \notin Unsolicited
    BY <1>1 DEF Unsolicited
  <2> HIDE DEF lines
  <2> QED BY <2>1, LineIs DEF c
<1>2. TakeLine({"submit_ok"}) /\ cl' = c /\ UNCHANGED <<uri, ioq, owner, fault>>
  BY DEF processSubmitted, c
<1> QED BY <1>1, <1>2 DEF IInv

\* A job.
LEMMA processNotifyKeeps ==
    ASSUME IInv, processNotify
    PROVE  IInv'
<1> DEFINE d == [cl EXCEPT !.newjob = TRUE, !.workAge = 0]
<1>1. /\ reading' = TRUE /\ rx' = Tail(rx) /\ inbox' = inbox /\ UriOK(uri, owner) /\ ClientOK(cl)
      /\ Holds(cl, ioq, inbox, Tail(rx), TRUE, owner, uri)
  BY LineIs DEF processNotify
<1>2. Shape(d) /\ Keeps(cl, d, Loose)
  BY <1>1 DEF ClientOK, Shape, Keeps, Fields, Loose
<1>3. (cl' = d \/ cl' = cl) /\ UNCHANGED <<uri, ioq, owner, fault>>
  BY DEF processNotify
<1> HIDE DEF d
<1>4. Holds(d, ioq, inbox, Tail(rx), TRUE, owner, uri)
  BY <1>1, <1>2, LooseHolds
<1> QED BY <1>1, <1>3, <1>4 DEF IInv

\* A setting of the session.
LEMMA processSettingKeeps ==
    ASSUME IInv, processSetting
    PROVE  IInv'
<1> DEFINE d == [cl EXCEPT !.miningSet = @ \/ (uri.confirmed /\ uri.mode = 3)]
<1>1. /\ reading' = TRUE /\ rx' = Tail(rx) /\ inbox' = inbox /\ UriOK(uri, owner) /\ ClientOK(cl)
      /\ Holds(cl, ioq, inbox, Tail(rx), TRUE, owner, uri)
  BY LineIs DEF processSetting
<1>2. Shape(d) /\ Keeps(cl, d, Loose)
  BY <1>1 DEF ClientOK, Shape, Keeps, Fields, Loose
<1>3. cl' = d /\ UNCHANGED <<uri, ioq, owner, fault>>
  BY DEF processSetting
<1> HIDE DEF d
<1>4. Holds(d, ioq, inbox, Tail(rx), TRUE, owner, uri)
  BY <1>1, <1>2, LooseHolds
<1> QED BY <1>1, <1>3, <1>4 DEF IInv

\* A write is done, and perhaps the next one begins.
LEMMA WrittenHolds ==
    ASSUME IInv, ~reading, ioq # <<>>, Head(ioq) \in Writes,
           NEW d, ClientOK(d), Keeps(cl, d, {"txPending", "txCount", "txQueue", "ops", "wire"}),
           Awaited(d) <= Awaited(cl),
           \/ d.ops = cl.ops /\ ~d.txPending
           \/ /\ isConnected(cl) /\ d.ops = [cl.ops EXCEPT !["write"] = @ + 1]
              /\ d.txPending = cl.txPending
    PROVE  Holds(d, Tail(ioq), inbox, rx, FALSE, owner, uri)
<1> DEFINE q == Tail(ioq)
           busy == FALSE
           told == owner
           u == uri
<1>1. /\ ~reading /\ ioq # <<>> /\ Head(ioq) # "rotateConnect" /\ Head(ioq) \notin Data
      /\ Head(ioq) \in Writes /\ Head(ioq) \notin Discs /\ Head(ioq) \notin Timeouts
  BY Members
<1>2. /\ ioq \in Seq(Handlers) /\ Core(cl, ioq, reading, owner, uri) /\ ClientOK(cl)
      /\ LinesOK(inbox, rx, ioq, reading) /\ reading = FALSE /\ UriOK(uri, owner)
  BY <1>1 DEF IInv, Holds
<1>3. /\ q \in Seq(Handlers)
      /\ \A S : NoneIn(ioq, S) <=> Head(ioq) \notin S /\ NoneIn(q, S)
      /\ \A S : Once(ioq, S) => Once(q, S) /\ (Head(ioq) \in S => NoneIn(q, S))
      /\ \A A, B : NoneBehind(ioq, A, B) => NoneBehind(q, A, B) /\ (Head(ioq) \in A => NoneIn(q, B))
  BY <1>1, <1>2, Popped
<1>4. Core(cl, q, FALSE, owner, uri)
  BY <1>1, <1>2, CorePop
<1> HIDE DEF q
<1>12. ~NoneIn(ioq, Writes) /\ Nothing(cl.ops["write"], q, Writes)
  BY <1>1, <1>2, <1>3 DEF Core, OpsOK, AtMostOne, Nothing
<1>13. /\ d.conn = cl.conn /\ d.connecting = cl.connecting /\ d.connected = cl.connected
       /\ d.disconnecting = cl.disconnecting /\ d.socket = cl.socket /\ d.pleas = cl.pleas
  BY DEF Keeps, Fields
<1>14. Core(d, q, busy, told, u)
  <2>1. CASE d.ops = cl.ops /\ ~d.txPending
    <3>5. OpsOK(d, q, busy)
      BY <1>4, <1>12, <1>13, <2>1 DEF Core, OpsOK, AtMostOne, Nothing
    <3>6. EarlyOK(d, q, busy, told)
      BY <1>4, <1>12, <1>13, <2>1 DEF Core, EarlyOK, Nothing, Calm
    <3>7. ConnectingOK(d, q, busy)
      BY <1>4, <1>12, <1>13, <2>1 DEF Core, ConnectingOK, Nothing
    <3>8. LinkedOK(d, q) /\ UnlinkedOK(d, q)
      BY <1>4, <1>12, <1>13, <2>1 DEF Core, LinkedOK, UnlinkedOK, Nothing
    <3>9. ClosingOK(d, q, busy, u.secure)
      BY <1>4, <1>12, <1>13, <2>1 DEF Core, ClosingOK, Nothing
    <3>10. QuietOK(d, q, busy, told, u)
      BY <1>4, <1>12, <1>13, <2>1 DEF Core, QuietOK, Calm
    <3>11. OwnerOK(d, q, told)
      BY <1>4, <1>12, <1>13, <2>1 DEF Core, OwnerOK
    <3> QED BY <3>5, <3>6, <3>7, <3>8, <3>9, <3>10, <3>11 DEF Core
  <2>2. CASE /\ isConnected(cl) /\ d.ops = [cl.ops EXCEPT !["write"] = @ + 1]
             /\ d.txPending = cl.txPending
    <3>1. cl.connected /\ ~cl.connecting /\ ~cl.disconnecting /\ cl.txPending
      BY <1>2, <1>12, <2>2 DEF isConnected, isPendingState, Core, LinkedOK, Nothing
    <3>2. /\ d.ops["write"] = 1 /\ d.ops["resolve"] = cl.ops["resolve"]
          /\ d.ops["connect"] = cl.ops["connect"] /\ d.ops["read"] = cl.ops["read"]
          /\ d.ops["shutdown"] = cl.ops["shutdown"]
      BY SMTT(30), <1>2, <1>12, <2>2 DEF Ops, ClientOK, Nothing
    <3>5. OpsOK(d, q, busy)
      BY <1>4, <1>12, <1>13, <2>2, <3>1, <3>2, Absent DEF Core, OpsOK, AtMostOne, Nothing
    <3>6. EarlyOK(d, q, busy, told)
      BY <1>4, <1>12, <1>13, <2>2, <3>1, <3>2, Absent DEF Core, EarlyOK, Nothing, Calm
    <3>7. ConnectingOK(d, q, busy)
      BY <1>4, <1>12, <1>13, <2>2, <3>1, <3>2, Absent DEF Core, ConnectingOK, Nothing
    <3>8. LinkedOK(d, q) /\ UnlinkedOK(d, q)
      BY <1>4, <1>12, <1>13, <2>2, <3>1, <3>2, Absent DEF Core, LinkedOK, UnlinkedOK, Nothing
    <3>9. ClosingOK(d, q, busy, u.secure)
      BY <1>4, <1>12, <1>13, <2>2, <3>1, <3>2, Absent DEF Core, ClosingOK, Nothing
    <3>10. QuietOK(d, q, busy, told, u)
      BY <1>4, <1>12, <1>13, <2>2, <3>1, <3>2, Absent DEF Core, QuietOK, Calm
    <3>11. OwnerOK(d, q, told)
      BY <1>4, <1>12, <1>13, <2>2, <3>1, <3>2, Absent DEF Core, OwnerOK
    <3> QED BY <3>5, <3>6, <3>7, <3>8, <3>9, <3>10, <3>11 DEF Core
  <2> QED BY <2>1, <2>2
<1>15. LinesOK(inbox, rx, q, busy)
  BY <1>1, <1>2, <1>3, LinesSame
<1>16. TimedOK(d, q, inbox, rx)
  <2>1. TimedOK(cl, ioq, inbox, rx)
    BY DEF IInv, Holds
  <2>2. /\ NoneIn(q, Discs) => NoneIn(ioq, Discs)
        /\ NoneIn(q, Timeouts) => NoneIn(ioq, Timeouts)
    BY <1>1, <1>3
  <2>3. Pleas(d) = Pleas(cl) /\ Pleas(cl) \in Nat
    BY <1>2, <1>13, Lengths DEF Pleas
  <2> QED BY SMTT(30), <1>2, <1>13, <2>1, <2>2, <2>3, TimedSame
<1> QED BY <1>2, <1>3, <1>14, <1>15, <1>16 DEF Holds, q

\* A write is done, or fails and ends the connection.
LEMMA onSendSocketDataCompletedKeeps ==
    ASSUME IInv, onSendSocketDataCompleted
    PROVE  IInv'
<1> DEFINE q == Tail(ioq)
<1>1. /\ ~reading /\ ioq # <<>> /\ Head(ioq) \in Writes /\ Head(ioq) # "rotateConnect"
      /\ UNCHANGED <<uri, inbox, rx, reading, owner, fault>>
  BY Members DEF onSendSocketDataCompleted, Run
<1>2. /\ ioq \in Seq(Handlers) /\ Core(cl, ioq, reading, owner, uri) /\ ClientOK(cl)
      /\ LinesOK(inbox, rx, ioq, reading) /\ reading = FALSE /\ UriOK(uri, owner)
  BY <1>1 DEF IInv, Holds
<1>3. /\ q \in Seq(Handlers)
      /\ \A S : NoneIn(ioq, S) <=> Head(ioq) \notin S /\ NoneIn(q, S)
      /\ \A S : Once(ioq, S) => Once(q, S) /\ (Head(ioq) \in S => NoneIn(q, S))
      /\ \A A, B : NoneBehind(ioq, A, B) => NoneBehind(q, A, B) /\ (Head(ioq) \in A => NoneIn(q, B))
  BY <1>1, <1>2, Popped
<1>4. Core(cl, q, FALSE, owner, uri)
  BY <1>1, <1>2, CorePop
<1> HIDE DEF q
<1>5. CASE /\ cl' = IF cl.txCount = 0 THEN [cl EXCEPT !.txPending = FALSE] ELSE sendSocketData(cl)
           /\ ioq' = q
  <2>1. CASE cl.txCount = 0
    <3> DEFINE d == [cl EXCEPT !.txPending = FALSE]
    <3>1. Shape(d) /\ Keeps(cl, d, {"txPending"}) /\ d.txPending = FALSE
      BY <1>2 DEF ClientOK, Shape, Keeps, Fields
    <3>2. cl' = d
      BY <1>5, <2>1
    <3> HIDE DEF d
    <3>3. ClientOK(d) /\ d.ops = cl.ops
      BY <1>2, <3>1 DEF ClientOK, Keeps, Fields
    <3>4. Keeps(cl, d, {"txPending", "txCount", "txQueue", "ops", "wire"})
      BY <3>1 DEF Keeps
    <3>5. Awaited(d) <= Awaited(cl)
      <4>1. d.wire = cl.wire /\ d.txQueue = cl.txQueue
        BY <3>1 DEF Keeps, Fields
      <4>2. Awaited(d) = Awaited(cl) /\ Awaited(cl) \in Nat
        BY <1>2, <4>1, Lengths DEF Awaited
      <4> QED BY SMT, <4>2
    <3>6. Holds(d, q, inbox, rx, FALSE, owner, uri)
      BY <1>1, <3>1, <3>3, <3>4, <3>5, WrittenHolds DEF q
    <3> QED BY <1>1, <1>2, <1>5, <3>2, <3>6 DEF IInv
  <2>2. CASE cl.txCount # 0
    <3> DEFINE d == sendSocketData(cl)
    <3>1. /\ ClientOK(d) /\ Keeps(cl, d, {"txPending", "txCount", "txQueue", "ops", "wire"})
          /\ Awaited(d) <= Awaited(cl)
          /\ IF ~isConnected(cl) \/ cl.txCount = 0
             THEN d.ops = cl.ops /\ ~d.txPending
             ELSE d.ops = [cl.ops EXCEPT !["write"] = @ + 1] /\ d.txPending = cl.txPending
      BY <1>2, SendSocketDataIs
    <3>2. cl' = d
      BY <1>5, <2>2
    <3> HIDE DEF d
    <3>3. Holds(d, q, inbox, rx, FALSE, owner, uri)
      BY <1>1, <3>1, WrittenHolds DEF q
    <3> QED BY <1>1, <1>2, <1>5, <3>2, <3>3 DEF IInv
  <2> QED BY <2>1, <2>2
<1>6. ASSUME NEW tls \in {<<>>, <<"disconnect">>}, NEW more \in {<<>>, <<"disconnect">>},
             cl' = [Emptied(cl) EXCEPT !.txPending = FALSE], ioq' = q \o tls \o more
      PROVE  IInv'
  <2> DEFINE e == Emptied(cl)
             d == [e EXCEPT !.txPending = FALSE]
  <2>1. ClientOK(e) /\ Keeps(cl, e, {"txCount", "txQueue"}) /\ e.txQueue = <<>>
    BY <1>2, EmptiedIs
  <2>2. cl' = d
    BY <1>6
  <2> HIDE DEF e
  <2>3. Shape(d) /\ Keeps(e, d, {"txPending"}) /\ d.txPending = FALSE
    BY <2>1 DEF ClientOK, Shape, Keeps, Fields
  <2> HIDE DEF d
  <2>4. ClientOK(d) /\ d.txQueue = <<>> /\ d.wire = cl.wire /\ d.ops = cl.ops
        /\ d.conn = cl.conn /\ d.connected = cl.connected /\ d.disconnecting = cl.disconnecting
    BY <2>1, <2>3 DEF ClientOK, Keeps, Fields
  <2>5. Keeps(cl, d, {"txPending", "txCount", "txQueue", "ops", "wire"})
    BY <2>1, <2>3 DEF Keeps
  <2>6. Awaited(d) <= Awaited(cl)
    <3>1. Len(d.txQueue) = 0 /\ Len(cl.wire) \in Nat /\ Len(cl.txQueue) \in Nat
      BY SMT, <1>2, <2>4 DEF ClientOK
    <3> QED BY SMTT(30), <2>4, <3>1 DEF Awaited
  <2>7. Holds(d, q, inbox, rx, FALSE, owner, uri)
    BY <1>1, <2>3, <2>4, <2>5, <2>6, WrittenHolds DEF q
  <2>8. /\ Nothing(d.ops["resolve"], q, Early) /\ ~GivenUp(d, uri)
        /\ d.disconnecting => NoneIn(q, Finals)
    <3>1. ~NoneIn(ioq, Writes)
      BY <1>1, <1>3
    <3>2. /\ Nothing(cl.ops["resolve"], ioq, Early) /\ ~GivenUp(cl, uri)
          /\ cl.disconnecting => NoneIn(ioq, Finals)
      BY <1>2, <3>1, Leavable
    <3> QED BY <1>3, <2>4, <3>2 DEF Nothing, GivenUp
  <2>9. ASSUME NEW p, Holds(d, p, inbox, rx, FALSE, owner, uri),
               Nothing(d.ops["resolve"], p, Early), d.disconnecting => NoneIn(p, Finals)
        PROVE  /\ Holds(d, p \o <<"disconnect">>, inbox, rx, FALSE, owner, uri)
               /\ Nothing(d.ops["resolve"], p \o <<"disconnect">>, Early)
               /\ d.disconnecting => NoneIn(p \o <<"disconnect">>, Finals)
    <3>1. /\ ClientOK(d) /\ p \in Seq(Handlers) /\ UriOK(uri, owner) /\ Core(d, p, FALSE, owner, uri)
          /\ LinesOK(inbox, rx, p, FALSE)
      BY <2>9 DEF Holds
    <3>2. Holds(d, p \o <<"disconnect">>, inbox, rx, FALSE, owner, uri)
      BY <2>8, <2>9, <3>1, HoldsDisc
    <3>3. \A S : NoneIn(p \o <<"disconnect">>, S) <=> NoneIn(p, S) /\ "disconnect" \notin S
      BY <3>1, Appended, AreHandlers
    <3>4. "disconnect" \notin Early /\ "disconnect" \notin Finals
      BY Members
    <3> QED BY <2>9, <3>2, <3>3, <3>4 DEF Nothing
  <2>10. /\ Holds(d, q \o tls, inbox, rx, FALSE, owner, uri)
         /\ Nothing(d.ops["resolve"], q \o tls, Early)
         /\ d.disconnecting => NoneIn(q \o tls, Finals)
    <3>1. CASE tls = <<>>
      <4>1. q \o tls = q
        BY SMT, <1>3, <3>1
      <4> QED BY <2>7, <2>8, <4>1
    <3>2. CASE tls = <<"disconnect">>
      BY <2>7, <2>8, <2>9, <3>2
    <3> QED BY <3>1, <3>2
  <2> DEFINE p == q \o tls
  <2>11. Holds(d, p \o more, inbox, rx, FALSE, owner, uri)
    <3> HIDE DEF p
    <3>1. CASE more = <<>>
      <4>1. p \in Seq(Handlers)
        BY <2>10 DEF Holds, p
      <4>2. p \o more = p
        BY SMT, <3>1, <4>1
      <4> QED BY <2>10, <4>2 DEF p
    <3>2. CASE more = <<"disconnect">>
      <4>1. /\ Holds(d, p, inbox, rx, FALSE, owner, uri) /\ Nothing(d.ops["resolve"], p, Early)
            /\ d.disconnecting => NoneIn(p, Finals)
        BY <2>10 DEF p
      <4> QED BY <2>9, <3>2, <4>1
    <3> QED BY <3>1, <3>2
  <2> QED BY <1>1, <1>2, <1>6, <2>2, <2>11 DEF IInv
<1>7. CASE /\ cl' = [Emptied(cl) EXCEPT !.txPending = FALSE]
           /\ \E tls \in {<<>>} \cup (IF uri.secure THEN {<<"disconnect">>} ELSE {}) :
                 ioq' = q \o tls \o (IF isConnected(cl) THEN <<"disconnect">> ELSE <<>>)
  <2>1. PICK tls \in {<<>>} \cup (IF uri.secure THEN {<<"disconnect">>} ELSE {}) :
            ioq' = q \o tls \o (IF isConnected(cl) THEN <<"disconnect">> ELSE <<>>)
    BY <1>7
  <2>2. tls \in {<<>>, <<"disconnect">>}
    OBVIOUS
  <2>3. CASE isConnected(cl)
    BY <1>6, <1>7, <2>1, <2>2, <2>3
  <2>4. CASE ~isConnected(cl)
    BY <1>6, <1>7, <2>1, <2>2, <2>4
  <2> QED BY <2>3, <2>4
<1> QED BY <1>5, <1>7 DEF onSendSocketDataCompleted, Rest, q

\* The timer closes the socket of an attempt, or of a shutdown, that takes too long.
LEMMA CutHolds ==
    ASSUME NEW c, NEW q, NEW data, NEW lines, NEW busy, NEW told, NEW u,
           Holds(c, q, data, lines, busy, told, u), c.connecting \/ c.disconnecting,
           c.socket # "null"
    PROVE  Holds([NoSocketOps(c) EXCEPT !.socket = "closed"], q \o Aborted(c),
                 data, lines, busy, told, u)
<1> DEFINE e == NoSocketOps(c)
           d == [e EXCEPT !.socket = "closed"]
           t == Aborted(c)
           p == q \o t
<1> SUFFICES Holds(d, p, data, lines, busy, told, u)
  OBVIOUS
<1>1. /\ ClientOK(c) /\ q \in Seq(Handlers) /\ busy \in BOOLEAN /\ UriOK(u, told)
      /\ Core(c, q, busy, told, u) /\ LinesOK(data, lines, q, busy)
  BY DEF Holds
<1>2. /\ c.ops["read"] \in {0, 1} /\ c.ops["write"] \in {0, 1}
      /\ c.ops["connect"] \in {0, 1} /\ c.ops["shutdown"] \in {0, 1}
  BY <1>1 DEF Core, OpsOK, AtMostOne
<1>3. /\ ~c.connected /\ c.ops["read"] = 0 /\ c.ops["write"] = 0
      /\ Nothing(c.ops["resolve"], q, Early) /\ (c.connecting => ~c.disconnecting)
  BY <1>1 DEF Core, EarlyOK, ConnectingOK, ClosingOK, UnlinkedOK
<1>4. /\ t \in Seq(Handlers) /\ NoneIn(t, Reads) /\ NoneIn(t, Writes)
      /\ NoneIn(t, Connects) <=> c.ops["connect"] = 0
      /\ NoneIn(t, Shuts) <=> c.ops["shutdown"] = 0
      /\ NoneIn(t, Early) /\ NoneIn(t, Starts) /\ NoneIn(t, Timeouts) /\ NoneIn(t, Discs)
      /\ NoneIn(t, Finals) /\ NoneIn(t, Rotates) /\ NoneIn(t, Data)
      /\ Once(t, Connects) /\ Once(t, Closes)
      /\ NoneIn(t, Closes) <=> c.ops["shutdown"] = 0
  <2>1. /\ t \in Seq(Handlers)
        /\ NoneIn(t, Reads) <=> c.ops["read"] = 0
        /\ NoneIn(t, Writes) <=> c.ops["write"] = 0
        /\ NoneIn(t, Connects) <=> c.ops["connect"] = 0
        /\ NoneIn(t, Shuts) <=> c.ops["shutdown"] = 0
        /\ NoneIn(t, Early) /\ NoneIn(t, Starts) /\ NoneIn(t, Timeouts) /\ NoneIn(t, Discs)
        /\ NoneIn(t, Finals) /\ NoneIn(t, Rotates) /\ NoneIn(t, Data)
        /\ Once(t, Connects) /\ Once(t, Closes)
    BY SMT, <1>2, AbortedIs
  <2> HIDE DEF t
  <2> QED BY <1>3, <2>1, Parts
<1> HIDE DEF t
<1>12. /\ p \in Seq(Handlers)
       /\ \A S : NoneIn(p, S) <=> NoneIn(q, S) /\ NoneIn(t, S)
       /\ \A S : Once(q, S) /\ Once(t, S) /\ (NoneIn(q, S) \/ NoneIn(t, S)) => Once(p, S)
       /\ \A A, B : /\ NoneBehind(q, A, B) /\ NoneBehind(t, A, B)
                    /\ NoneIn(q, A) \/ NoneIn(t, B)
                    => NoneBehind(p, A, B)
  BY <1>1, <1>4, Joined
<1>13. /\ \A S : NoneIn(t, S) => Once(t, S)
       /\ \A A, B : NoneIn(t, B) => NoneBehind(t, A, B)
  BY Absent
<1> HIDE DEF p
<1>14. /\ ClientOK(e) /\ Keeps(c, e, {"ops"}) /\ e.ops["resolve"] = c.ops["resolve"]
       /\ \A o \in Ops \ {"resolve"} : e.ops[o] = 0
  BY <1>1, NoSocketOpsIs
<1> HIDE DEF e
<1>15. Shape(d) /\ Keeps(e, d, {"socket"}) /\ d.socket = "closed"
  BY <1>14 DEF ClientOK, Shape, Keeps, Fields
<1> HIDE DEF d
<1>16. ClientOK(d)
  BY <1>14, <1>15 DEF ClientOK, Keeps, Fields
<1>17. /\ d.conn = c.conn /\ d.connecting = c.connecting /\ d.disconnecting = c.disconnecting
       /\ d.connected = c.connected /\ d.socket = "closed" /\ d.ops = e.ops
  BY <1>14, <1>15 DEF Keeps, Fields
<1>18. /\ d.ops["resolve"] = 0 /\ d.ops["connect"] = 0 /\ d.ops["read"] = 0
       /\ d.ops["write"] = 0 /\ d.ops["shutdown"] = 0
  BY <1>3, <1>14, <1>17 DEF Ops, Nothing
<1>5. OpsOK(d, p, busy)
  BY <1>1, <1>3, <1>4, <1>12, <1>13, <1>17, <1>18 DEF Core, OpsOK, AtMostOne, Nothing
<1>6. EarlyOK(d, p, busy, told)
  BY <1>1, <1>3, <1>4, <1>12, <1>13, <1>17, <1>18 DEF Core, EarlyOK, Nothing, Calm
<1>7. ConnectingOK(d, p, busy)
  BY <1>1, <1>3, <1>4, <1>12, <1>13, <1>17, <1>18 DEF Core, ConnectingOK, Nothing
<1>8. LinkedOK(d, p) /\ UnlinkedOK(d, p)
  BY <1>1, <1>3, <1>4, <1>12, <1>13, <1>17, <1>18 DEF Core, LinkedOK, UnlinkedOK, Nothing
<1>9. ClosingOK(d, p, busy, u.secure)
  BY <1>1, <1>3, <1>4, <1>12, <1>13, <1>17, <1>18 DEF Core, ClosingOK, Nothing
<1>10. QuietOK(d, p, busy, told, u)
  BY <1>1, <1>3, <1>4, <1>12, <1>13, <1>17, <1>18 DEF Core, QuietOK, Calm
<1>11. OwnerOK(d, p, told)
  BY <1>1, <1>3, <1>4, <1>12, <1>13, <1>17, <1>18 DEF Core, OwnerOK
<1>19. LinesOK(data, lines, p, busy)
  BY <1>1, <1>4, <1>12, LinesSame
<1>20. TimedOK(d, p, data, lines)
  BY <1>3, <1>17 DEF TimedOK
<1> QED BY <1>1, <1>5, <1>6, <1>7, <1>8, <1>9, <1>10, <1>11, <1>12, <1>16, <1>19, <1>20 DEF Holds, Core

\* The workloop timer elapses.
LEMMA workloop_timer_elapsedKeeps ==
    ASSUME IInv, workloop_timer_elapsed
    PROVE  IInv'
<1> DEFINE q == Tail(ioq)
<1>1. /\ ~reading /\ ioq # <<>> /\ Head(ioq) = "tick"
      /\ UNCHANGED <<uri, inbox, rx, reading, owner>>
  BY DEF workloop_timer_elapsed, Run
<1>2. Head(ioq) \notin {"rotateConnect", "read", "disconnect", "login_timeout"}
  BY <1>1
<1>3. CASE ioq' = q /\ cl' = cl
  <2>1. Holds(cl, q, inbox, rx, reading, owner, uri)
    BY <1>1, <1>2, HoldsPop DEF IInv
  <2> QED BY <1>1, <1>3, <2>1 DEF IInv
<1>4. ASSUME NEW c \in {Aged(cl)} \cup KeptAlive(Aged(cl))
      PROVE  Holds(c, ioq, inbox, rx, reading, owner, uri)
  <2> DEFINE a == Aged(cl)
  <2>1. ClientOK(cl) /\ UriOK(uri, owner)
    BY DEF IInv, Holds
  <2>2. ClientOK(a) /\ Keeps(cl, a, {"pleas", "older", "workAge"}) /\ Pleas(a) = Pleas(cl)
    BY <2>1, AgedIs
  <2> HIDE DEF a
  <2>3. SameCore(cl, a) /\ Awaited(a) = Awaited(cl) /\ Awaited(cl) \in Nat /\ Pleas(cl) \in Nat
    BY <2>1, <2>2, PleasSame, Lengths
  <2>4. Awaited(a) <= Awaited(cl) /\ Pleas(a) >= Pleas(cl)
    BY SMT, <2>2, <2>3
  <2>5. Holds(a, ioq, inbox, rx, reading, owner, uri)
    BY <2>1, <2>2, <2>3, <2>4, HoldsSame DEF IInv
  <2>6. Holds(send(a, "note"), ioq, inbox, rx, reading, owner, uri)
    BY <2>5, NoteHolds
  <2>7. c = a \/ c = send(a, "note")
    BY DEF KeptAlive, a
  <2> QED BY <2>5, <2>6, <2>7
<1>5. ASSUME NEW c, Holds(c, ioq, inbox, rx, reading, owner, uri)
      PROVE  /\ Holds(c, q, inbox, rx, reading, owner, uri) /\ ClientOK(c)
             /\ q \in Seq(Handlers) /\ UriOK(uri, owner) /\ reading \in BOOLEAN
             /\ Core(c, q, reading, owner, uri) /\ LinesOK(inbox, rx, q, reading)
  BY <1>1, <1>2, <1>5, HoldsPop DEF Holds
<1> HIDE DEF q
<1>6. ASSUME NEW c, Holds(c, ioq, inbox, rx, reading, owner, uri),
             UNCHANGED <<cl, ioq>>
      PROVE  IInv'
  BY <1>1, <1>6 DEF IInv
<1>7. ASSUME NEW c, Holds(c, ioq, inbox, rx, reading, owner, uri), Pending(c),
             c.socket # "null",
             cl' = [NoSocketOps(c) EXCEPT !.socket = "closed"], ioq' = q \o Aborted(c)
      PROVE  IInv'
  <2>1. c.connecting \/ c.disconnecting
    BY <1>7 DEF Pending, isPendingState
  <2>2. Holds(cl', ioq', inbox, rx, reading, owner, uri)
    BY <1>5, <1>7, <2>1, CutHolds
  <2> QED BY <1>1, <2>2 DEF IInv
<1>8. ASSUME NEW c, Holds(c, ioq, inbox, rx, reading, owner, uri), TooLong(c),
             cl' = clear_response_pleas(c), ioq' = q \o <<"login_timeout">>
      PROVE  IInv'
  <2> DEFINE d == clear_response_pleas(c)
             p == q \o <<"login_timeout">>
  <2>1. ClientOK(d) /\ Keeps(c, d, {"pleas", "older"})
    BY <1>5, <1>8, ClearIs
  <2>2. cl' = d /\ ioq' = p
    BY <1>8
  <2> HIDE DEF d
  <2>3. SameCore(c, d)
    <3>1. Keeps(c, d, {"pleas", "older", "workAge"})
      BY <2>1 DEF Keeps
    <3> QED BY <3>1, PleasSame
  <2>4. c.connected
    BY <1>8 DEF TooLong, isConnected
  <2>5. p \in Seq(Handlers) /\ Core(c, p, reading, owner, uri)
    BY <1>5, <1>8, <2>4, CoreTimeout
  <2>6. Core(d, p, reading, owner, uri)
    BY <2>3, <2>5, CoreSame
  <2>7. \A S : NoneIn(p, S) <=> NoneIn(q, S) /\ "login_timeout" \notin S
    BY <1>5, <1>8, Appended, AreHandlers
  <2> HIDE DEF p
  <2>8. LinesOK(inbox, rx, p, reading)
    BY <1>5, <1>8, <2>7, LinesSame, Members
  <2>9. TimedOK(d, p, inbox, rx)
    BY <2>7, Members DEF TimedOK
  <2> QED BY <1>1, <1>5, <1>8, <2>1, <2>2, <2>5, <2>6, <2>8, <2>9 DEF IInv, Holds
<1>9. ASSUME NEW c, Holds(c, ioq, inbox, rx, reading, owner, uri), TooLong(c) \/ TooIdle(c),
             cl' = clear_response_pleas([Rearmed(c) EXCEPT !.endpoints = @ - 1]),
             ioq' = q \o <<"disconnect">>
      PROVE  IInv'
  <2> DEFINE a == Rearmed(c)
             b == [a EXCEPT !.endpoints = @ - 1]
             d == clear_response_pleas(b)
  <2>1. cl' = d
    BY <1>9
  <2>2. Shape(a) /\ Keeps(c, a, {"timer"})
    BY <1>5, <1>9 DEF ClientOK, Shape, Keeps, Fields, Rearmed
  <2> HIDE DEF a
  <2>3. Shape(b) /\ Keeps(a, b, {"endpoints"})
    BY <2>2 DEF Shape, Keeps, Fields
  <2> HIDE DEF b
  <2>4. Keeps(c, b, Loose)
    BY <2>2, <2>3 DEF Keeps, Loose
  <2>5. ClientOK(b) /\ SameCore(c, b)
    BY <1>5, <1>9, <2>3, <2>4, LooseIs
  <2>6. ClientOK(d) /\ Keeps(b, d, {"pleas", "older"})
    BY <2>5, ClearIs
  <2> HIDE DEF d
  <2>7. SameCore(b, d)
    <3>1. Keeps(b, d, {"pleas", "older", "workAge"})
      BY <2>6 DEF Keeps
    <3> QED BY <3>1, PleasSame
  <2>8. Core(d, q, reading, owner, uri)
    <3>1. Core(b, q, reading, owner, uri)
      BY <1>5, <1>9, <2>5, CoreSame
    <3> QED BY <2>7, <3>1, CoreSame
  <2>9. d.connected
    <3>1. c.connected
      BY <1>9 DEF TooLong, TooIdle, isConnected
    <3> QED BY <2>5, <2>7, <3>1 DEF SameCore
  <2>10. ~GivenUp(d, uri) /\ ~d.disconnecting /\ Nothing(d.ops["resolve"], q, Early)
    BY <2>8, <2>9, LinkedIs
  <2>11. Holds(d, q \o <<"disconnect">>, inbox, rx, reading, owner, uri)
    BY <1>5, <1>9, <2>6, <2>8, <2>10, HoldsDisc
  <2> QED BY <1>1, <1>9, <2>1, <2>11 DEF IInv
<1>10. ASSUME NEW c, Holds(c, ioq, inbox, rx, reading, owner, uri), cl' = Rearmed(c), ioq' = q
       PROVE  IInv'
  <2> DEFINE d == Rearmed(c)
  <2>1. Shape(d) /\ Keeps(c, d, {"timer"})
    BY <1>5, <1>10 DEF ClientOK, Shape, Keeps, Fields, Rearmed
  <2>2. cl' = d
    BY <1>10
  <2> HIDE DEF d
  <2>3. Keeps(c, d, Loose)
    BY <2>1 DEF Keeps, Loose
  <2>4. Holds(d, q, inbox, rx, reading, owner, uri)
    BY <1>5, <1>10, <2>1, <2>3, LooseHolds
  <2> QED BY <1>1, <1>10, <2>2, <2>4 DEF IInv
<1>11. CASE ~cl.conn
  BY <1>3, <1>11 DEF workloop_timer_elapsed, Rest, q
<1>12. CASE cl.conn
  <2>1. PICK c \in {Aged(cl)} \cup KeptAlive(Aged(cl)) :
          \/ UNCHANGED <<cl, ioq>>
          \/ /\ Pending(c) /\ c.socket # "null"
             /\ cl' = [NoSocketOps(c) EXCEPT !.socket = "closed"] /\ ioq' = q \o Aborted(c)
          \/ /\ TooLong(c)
             /\ cl' = clear_response_pleas(c) /\ ioq' = q \o <<"login_timeout">>
          \/ /\ TooLong(c) \/ TooIdle(c)
             /\ cl' = clear_response_pleas([Rearmed(c) EXCEPT !.endpoints = @ - 1])
             /\ ioq' = q \o <<"disconnect">>
          \/ cl' = Rearmed(c) /\ ioq' = q
    BY <1>12 DEF workloop_timer_elapsed, Rest, q
  <2>2. Holds(c, ioq, inbox, rx, reading, owner, uri)
    BY <1>4
  <2> QED BY <1>6, <1>7, <1>8, <1>9, <1>10, <2>1, <2>2
<1>13. cl.conn \in BOOLEAN
  BY DEF IInv, Holds, ClientOK
<1> QED BY <1>11, <1>12, <1>13

=============================================================================
