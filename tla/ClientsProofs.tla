--------------------------- MODULE ClientsProofs ---------------------------
(***************************************************************************)
(* The safety properties of the clients for http:// and simulation://      *)
(* pools, for any number of addresses of a host, any jobs, any capacity of *)
(* the queue of requests and any number of queued handlers.                *)
(*                                                                         *)
(* A method of the getwork client is an operator on a client c, and is run *)
(* with the handlers q that are still to run: what the invariant says of   *)
(* c and q is kept method by method, and then handler by handler.          *)
(***************************************************************************)
EXTENDS Clients, SequenceTheorems, TLAPS

-----------------------------------------------------------------------------
(* The inductive invariant of the getwork client *)

Ops == SocketOps \cup {"resolve"}

GetworkClients == [
    phase : {"trying", "up", "down", "gone"},
    connecting : BOOLEAN, connected : BOOLEAN,
    endpoints : Nat, txPending : BOOLEAN, txQueue : Seq(Requests),
    pending : Requests \cup {None},
    ops : [Ops -> Nat],
    timer : BOOLEAN,
    header : Headers \cup {None},
    old : BOOLEAN,
    posts : Nat,
    broken : BOOLEAN]

Handlers == [
    op : Ops \cup {"timer", "rotate"}, how : Replies \cup {"ok", "failed"}, own : BOOLEAN]

\* Handler i of q is one of the client there is, for an operation in ops.
Owns(q, i, ops) == q[i].own /\ q[i].op \in ops

\* No operation is under way.
Idle(c, q) ==
    /\ \A op \in Ops : c.ops[op] = 0
    /\ \A i \in DOMAIN q : ~Owns(q, i, Ops)

\* One operation is under way, and it is op: either it is pending or its handler is queued.
Alone(c, q, op) ==
    /\ \A o \in Ops : o # op => c.ops[o] = 0
    /\ c.ops[op] \in {0, 1}
    /\ c.ops[op] = 1 => \A i \in DOMAIN q : ~Owns(q, i, Ops)
    /\ c.ops[op] = 0 =>
          \E i \in DOMAIN q : Owns(q, i, {op}) /\ \A j \in DOMAIN q : Owns(q, j, Ops) => j = i

HasGetwork(c) == \E i \in DOMAIN c.txQueue : c.txQueue[i] = "getwork"

\* What the PoolManager was told is what the flags say.
PhaseOK(c) ==
    /\ c.connecting <=> c.phase = "trying"
    /\ c.connected <=> c.phase = "up"

\* A client that connects resolves its host, or connects to send its first request.  A rotation
\* it finds in the queue is run before any handler of its own.
Connects(c, q) ==
    /\ ~c.timer /\ \A i \in DOMAIN q : ~Owns(q, i, {"timer"})
    /\ c.txPending => Alone(c, q, "connect") /\ (c.broken \/ HasGetwork(c))
    /\ ~c.txPending => Alone(c, q, "resolve")
    /\ \A i, j \in DOMAIN q : Owns(q, i, Ops) /\ Owns(q, j, {"rotate"}) => j < i

\* m_txPending says whether a request is under way.
Flagged(c, q) ==
    /\ c.txPending => \E op \in SocketOps : Alone(c, q, op)
    /\ ~c.txPending => Idle(c, q)

\* The client polls, unless a request or an answer was lost.
Polls(c, q) ==
    \/ c.broken \/ c.timer
    \/ \E i \in DOMAIN q : Owns(q, i, {"timer"})
    \/ HasGetwork(c)
    \/ c.pending = "getwork" /\ (Alone(c, q, "write") \/ Alone(c, q, "read"))

\* A client that was given up has nothing under way.
Still(c, q) == Idle(c, q) /\ ~c.timer /\ \A i \in DOMAIN q : ~Owns(q, i, {"timer"})

ClientOK(c, q) ==
    /\ c \in GetworkClients /\ q \in Seq(Handlers) /\ PhaseOK(c)
    /\ c.phase = "trying" => Connects(c, q)
    /\ c.phase = "up" => Flagged(c, q) /\ Polls(c, q)
    /\ c.phase = "gone" => Still(c, q)

IInv == ClientOK(gw, gwQueue) /\ gw.posts = 0

-----------------------------------------------------------------------------
(* The fields of a client, and the methods that assign them *)

Fields == {"phase", "connecting", "connected", "endpoints", "txPending", "txQueue", "pending",
           "ops", "timer", "header", "old", "posts", "broken"}

Shape(c) == DOMAIN c = Fields /\ c = [f \in DOMAIN c |-> c[f]]

\* d differs from c in the changed fields at most.
Keeps(c, d, changed) == \A f \in Fields \ changed : d[f] = c[f]

FieldsTyped(c) ==
    /\ c.phase \in {"trying", "up", "down", "gone"}
    /\ c.connecting \in BOOLEAN /\ c.connected \in BOOLEAN /\ c.endpoints \in Nat
    /\ c.txPending \in BOOLEAN /\ c.txQueue \in Seq(Requests)
    /\ c.pending \in Requests \cup {None}
    /\ c.ops \in [Ops -> Nat] /\ c.timer \in BOOLEAN /\ c.header \in Headers \cup {None}
    /\ c.old \in BOOLEAN /\ c.posts \in Nat /\ c.broken \in BOOLEAN

\* A record is a client when its fields have their types,
LEMMA ClientIntro == ASSUME NEW c, Shape(c), FieldsTyped(c) PROVE c \in GetworkClients
BY DEF GetworkClients, Fields, Shape, FieldsTyped

\* and only then.
LEMMA ClientElim == ASSUME NEW c \in GetworkClients PROVE Shape(c) /\ FieldsTyped(c)
BY DEF GetworkClients, Fields, Shape, FieldsTyped

\* An operation begins.
LEMMA BeginIs ==
    ASSUME NEW c, Shape(c), NEW op
    PROVE  LET d == Begin(c, op)
           IN  /\ Shape(d) /\ Keeps(c, d, {"ops"})
               /\ d.ops = [c.ops EXCEPT ![op] = @ + 1]
BY DEF Begin, Fields, Shape, Keeps

\* onDisconnected is called, which posts a rotation.
LEMMA DisconnectIs ==
    ASSUME NEW c, Shape(c)
    PROVE  LET d == disconnect(c)
           IN  /\ Shape(d)
               /\ Keeps(c, d, {"phase", "connecting", "connected", "txPending", "timer",
                               "txQueue", "posts"})
               /\ d.phase = "down" /\ d.connecting = FALSE /\ d.connected = FALSE
               /\ d.txPending = FALSE /\ d.timer = FALSE /\ d.txQueue = <<>>
               /\ d.posts = c.posts + 1
<1>1. Shape(disconnect(c))
  BY DEF disconnect, Shape
<1>2. Keeps(c, disconnect(c), {"phase", "connecting", "connected", "txPending", "timer",
                               "txQueue", "posts"})
  BY DEF disconnect, Fields, Shape, Keeps
<1> QED BY <1>1, <1>2 DEF disconnect, Fields, Shape

\* The request waits, or is lost.
Enqueued(c, r) ==
    [c EXCEPT !.txQueue = IF Len(c.txQueue) >= TxCapacity THEN @ ELSE Append(@, r),
              !.broken = @ \/ (Len(c.txQueue) >= TxCapacity /\ r = "getwork")]

\* m_txPending is set.
Marked(c) == [c EXCEPT !.txPending = TRUE]

\* What send does, in these terms.
LEMMA SendIs ==
    ASSUME NEW c, NEW r
    PROVE  send(c, r) = IF c.txPending THEN Enqueued(c, r) ELSE begin_connect(Marked(Enqueued(c, r)))
BY Zenon DEF send, Enqueued, Marked

\* The fields of a client whose request waits.
LEMMA EnqueuedIs ==
    ASSUME NEW c, Shape(c), NEW r
    PROVE  LET d == Enqueued(c, r)
           IN  /\ Shape(d) /\ Keeps(c, d, {"txQueue", "broken"})
               /\ d.txQueue = IF Len(c.txQueue) >= TxCapacity THEN c.txQueue ELSE Append(c.txQueue, r)
               /\ d.broken = (c.broken \/ (Len(c.txQueue) >= TxCapacity /\ r = "getwork"))
<1>1. Shape(Enqueued(c, r))
  BY DEF Enqueued, Shape
<1>2. Keeps(c, Enqueued(c, r), {"txQueue", "broken"})
  BY DEF Enqueued, Shape, Fields, Keeps
<1>3. Enqueued(c, r).txQueue = IF Len(c.txQueue) >= TxCapacity THEN c.txQueue ELSE Append(c.txQueue, r)
  BY DEF Enqueued, Shape, Fields
<1>4. Enqueued(c, r).broken = (c.broken \/ (Len(c.txQueue) >= TxCapacity /\ r = "getwork"))
  BY Zenon DEF Enqueued, Shape, Fields
<1> QED BY <1>1, <1>2, <1>3, <1>4

\* The fields of a client that sets m_txPending.
LEMMA MarkedIs ==
    ASSUME NEW c, Shape(c)
    PROVE  LET d == Marked(c)
           IN  Shape(d) /\ Keeps(c, d, {"txPending"}) /\ d.txPending = TRUE
BY DEF Marked, Fields, Shape, Keeps

\* The PoolManager is told of the first connection.
LEMMA OpenedIs ==
    ASSUME NEW c, Shape(c)
    PROVE  LET d == Opened(c)
           IN  /\ Shape(d) /\ Keeps(c, d, {"phase", "connecting", "connected", "old"})
               /\ IF c.connecting
                  THEN d.phase = "up" /\ d.connecting = FALSE /\ d.connected = TRUE /\ d.old = FALSE
                  ELSE d = c
<1>1. CASE c.connecting
  BY <1>1 DEF Opened, Fields, Shape, Keeps
<1>2. CASE ~c.connecting
  BY <1>2 DEF Opened, Keeps
<1> QED BY <1>1, <1>2

\* The first request of the queue is written.
LEMMA WrittenIs ==
    ASSUME NEW c, Shape(c)
    PROVE  LET d == Written(c)
           IN  /\ Shape(d) /\ Keeps(c, d, {"pending", "txQueue", "ops"})
               /\ d.pending = Head(c.txQueue) /\ d.txQueue = Tail(c.txQueue)
               /\ d.ops = [c.ops EXCEPT !["write"] = @ + 1]
BY DEF Written, Begin, Fields, Shape, Keeps

-----------------------------------------------------------------------------
(* The methods keep the invariant *)

\* A client that began an operation is a client.
LEMMA BeginTyped ==
    ASSUME NEW c \in GetworkClients, NEW op \in Ops
    PROVE  Begin(c, op) \in GetworkClients
<1> DEFINE d == Begin(c, op)
<1>1. Shape(c) /\ FieldsTyped(c)
  BY ClientElim
<1>2. Shape(d) /\ Keeps(c, d, {"ops"}) /\ d.ops = [c.ops EXCEPT ![op] = @ + 1]
  BY <1>1, BeginIs
<1> HIDE DEF d
<1>3. FieldsTyped(d)
  BY <1>1, <1>2 DEF Keeps, Fields, FieldsTyped
<1> QED BY <1>2, <1>3, ClientIntro DEF d

\* A client that disconnects is down.
LEMMA DisconnectOK ==
    ASSUME NEW c \in GetworkClients
    PROVE  LET d == disconnect(c)
           IN  d \in GetworkClients /\ d.phase = "down" /\ PhaseOK(d)
<1> DEFINE d == disconnect(c)
<1>1. Shape(c) /\ FieldsTyped(c)
  BY ClientElim
<1>2. /\ Shape(d)
      /\ Keeps(c, d, {"phase", "connecting", "connected", "txPending", "timer",
                      "txQueue", "posts"})
      /\ d.phase = "down" /\ d.connecting = FALSE /\ d.connected = FALSE
      /\ d.txPending = FALSE /\ d.timer = FALSE /\ d.txQueue = <<>>
      /\ d.posts = c.posts + 1
  BY <1>1, DisconnectIs
<1> HIDE DEF d
<1>3. FieldsTyped(d)
  <2>1. /\ d.endpoints = c.endpoints /\ d.pending = c.pending /\ d.ops = c.ops
        /\ d.header = c.header /\ d.old = c.old /\ d.broken = c.broken
    BY <1>2 DEF Keeps, Fields
  <2>2. d.txQueue \in Seq(Requests) /\ d.posts \in Nat
    BY <1>1, <1>2 DEF FieldsTyped
  <2> QED BY <1>1, <1>2, <2>1, <2>2 DEF FieldsTyped
<1>4. PhaseOK(d)
  BY <1>2 DEF PhaseOK
<1> QED BY <1>2, <1>3, <1>4, ClientIntro DEF d

\* A client whose request waits is a client.
LEMMA EnqueuedTyped ==
    ASSUME NEW c \in GetworkClients, NEW r \in Requests
    PROVE  Enqueued(c, r) \in GetworkClients
<1> DEFINE d == Enqueued(c, r)
<1>1. Shape(c) /\ FieldsTyped(c)
  BY ClientElim
<1>2. /\ Shape(d) /\ Keeps(c, d, {"txQueue", "broken"})
      /\ d.txQueue = IF Len(c.txQueue) >= TxCapacity THEN c.txQueue ELSE Append(c.txQueue, r)
      /\ d.broken = (c.broken \/ (Len(c.txQueue) >= TxCapacity /\ r = "getwork"))
  BY <1>1, EnqueuedIs
<1> HIDE DEF d
<1>3. d.txQueue \in Seq(Requests)
  BY <1>1, <1>2 DEF FieldsTyped
<1>4. d.broken \in BOOLEAN
  BY <1>2, Zenon
<1>5. FieldsTyped(d)
  BY <1>1, <1>2, <1>3, <1>4 DEF Keeps, Fields, FieldsTyped
<1> QED BY <1>2, <1>5, ClientIntro DEF d

\* A client that sets m_txPending is a client.
LEMMA MarkedTyped ==
    ASSUME NEW c \in GetworkClients
    PROVE  Marked(c) \in GetworkClients
<1> DEFINE d == Marked(c)
<1>1. Shape(c) /\ FieldsTyped(c)
  BY ClientElim
<1>2. Shape(d) /\ Keeps(c, d, {"txPending"}) /\ d.txPending = TRUE
  BY <1>1, MarkedIs
<1> HIDE DEF d
<1>3. FieldsTyped(d)
  BY <1>1, <1>2 DEF Keeps, Fields, FieldsTyped
<1> QED BY <1>2, <1>3, ClientIntro DEF d

\* A client that is down satisfies the invariant whatever is under way.
LEMMA DownIsOK ==
    ASSUME NEW c \in GetworkClients, NEW q \in Seq(Handlers), c.phase = "down", PhaseOK(c)
    PROVE  ClientOK(c, q)
BY DEF ClientOK

\* What begins when nothing is under way is alone.
LEMMA BeginAlone ==
    ASSUME NEW c \in GetworkClients, NEW q, NEW op \in Ops, Idle(c, q)
    PROVE  Alone(Begin(c, op), q, op)
<1>1. /\ c.ops[op] = 0
      /\ \A o \in Ops : c.ops[o] = 0
      /\ \A i \in DOMAIN q : ~Owns(q, i, Ops)
  BY DEF Idle
<1>2. c.ops \in [Ops -> Nat]
  BY ClientElim DEF FieldsTyped
<1>3. Begin(c, op).ops = [c.ops EXCEPT ![op] = @ + 1]
  BY BeginIs, ClientElim
<1>4. Begin(c, op).ops[op] = 1 /\ \A o \in Ops : o # op => Begin(c, op).ops[o] = 0
  BY <1>1, <1>2, <1>3
<1> QED BY <1>1, <1>4 DEF Alone

\* Something will make the client send a getwork request.
Waits(c, q) ==
    \/ c.broken \/ c.timer
    \/ \E i \in DOMAIN q : Owns(q, i, {"timer"})
    \/ HasGetwork(c)

NoTimer(c, q) == ~c.timer /\ \A i \in DOMAIN q : ~Owns(q, i, {"timer"})

\* A client that may connect to send the requests that wait.
Ready(c, q) ==
    /\ c \in GetworkClients /\ q \in Seq(Handlers) /\ PhaseOK(c)
    /\ c.txPending /\ Idle(c, q) /\ c.phase \in {"trying", "up"}
    /\ c.phase = "trying" => NoTimer(c, q) /\ (c.broken \/ HasGetwork(c))
    /\ c.phase = "up" => Waits(c, q)

\* A method that is called on c leaves it as d, which is right; it posts a rotation only if it
\* disconnects.
Served(c, d, q) ==
    /\ ClientOK(d, q)
    /\ d.phase \in {c.phase, "down"}
    /\ d.phase # "down" => d.posts = c.posts

\* A disconnected client is right.
LEMMA DisconnectServed ==
    ASSUME NEW c \in GetworkClients, NEW q \in Seq(Handlers)
    PROVE  Served(c, disconnect(c), q)
BY DisconnectOK, DownIsOK DEF Served

\* begin_connect of a client that may connect.
LEMMA BeginConnectServed ==
    ASSUME NEW c, NEW q, Ready(c, q)
    PROVE  /\ Served(c, begin_connect(c), q)
           /\ c.endpoints > 0 => begin_connect(c).phase = c.phase
<1>1. c \in GetworkClients /\ q \in Seq(Handlers)
  BY DEF Ready
<1>2. CASE ~(c.endpoints > 0)
  BY <1>1, <1>2, DisconnectServed DEF begin_connect
<1>3. CASE c.endpoints > 0
  <2> DEFINE d == Begin(c, "connect")
  <2>1. begin_connect(c) = d
    BY <1>3 DEF begin_connect
  <2>2. "connect" \in Ops /\ "connect" \in SocketOps
    BY DEF Ops, SocketOps
  <2>3. d \in GetworkClients /\ Keeps(c, d, {"ops"})
    BY <1>1, <2>2, BeginTyped, BeginIs, ClientElim
  <2>4. Alone(d, q, "connect")
    BY <1>1, <2>2, BeginAlone DEF Ready
  <2> HIDE DEF d
  <2>5. /\ d.phase = c.phase /\ d.connecting = c.connecting /\ d.connected = c.connected
        /\ d.txPending = c.txPending /\ d.txQueue = c.txQueue /\ d.timer = c.timer
        /\ d.posts = c.posts /\ d.broken = c.broken
    BY <2>3 DEF Keeps, Fields
  <2>6. PhaseOK(d)
    BY <2>5 DEF Ready, PhaseOK
  <2>7. \A i \in DOMAIN q : ~Owns(q, i, Ops)
    BY DEF Ready, Idle
  <2>8. ASSUME c.phase = "trying" PROVE Connects(d, q)
    <3>1. NoTimer(c, q) /\ (c.broken \/ HasGetwork(c)) /\ c.txPending
      BY <2>8 DEF Ready
    <3> QED BY <3>1, <2>4, <2>5, <2>7 DEF Connects, HasGetwork, NoTimer
  <2>9. ASSUME c.phase = "up" PROVE Flagged(d, q) /\ Polls(d, q)
    <3>1. Waits(c, q) /\ c.txPending
      BY <2>9 DEF Ready
    <3>2. Flagged(d, q)
      BY <3>1, <2>2, <2>4, <2>5 DEF Flagged
    <3>3. Polls(d, q)
      BY <3>1, <2>5 DEF Polls, Waits, HasGetwork
    <3> QED BY <3>2, <3>3
  <2>10. c.phase \in {"trying", "up"}
    BY DEF Ready
  <2> QED BY <1>1, <2>1, <2>3, <2>5, <2>6, <2>8, <2>9, <2>10 DEF Served, ClientOK
<1> QED BY <1>2, <1>3

\* A method called on a client that is down leaves it down.
StaysDown(c, d) == c.phase = "down" /\ PhaseOK(c) => d \in GetworkClients /\ d.phase = "down" /\ PhaseOK(d)

\* begin_connect of a client that is down.
LEMMA BeginConnectDown ==
    ASSUME NEW c \in GetworkClients
    PROVE  StaysDown(c, begin_connect(c))
<1>1. CASE ~(c.endpoints > 0)
  BY <1>1, DisconnectOK DEF begin_connect, StaysDown
<1>2. CASE c.endpoints > 0
  <2> DEFINE d == Begin(c, "connect")
  <2>1. begin_connect(c) = d
    BY <1>2 DEF begin_connect
  <2>2. d \in GetworkClients /\ Keeps(c, d, {"ops"})
    BY BeginTyped, BeginIs, ClientElim DEF Ops, SocketOps
  <2> HIDE DEF d
  <2>3. d.phase = c.phase /\ d.connecting = c.connecting /\ d.connected = c.connected
    BY <2>2 DEF Keeps, Fields
  <2> QED BY <2>1, <2>2, <2>3 DEF StaysDown, PhaseOK
<1> QED BY <1>1, <1>2

\* When nothing is under way, no operation is alone.
LEMMA IdleNotAlone ==
    ASSUME NEW c, NEW q, NEW op \in Ops, Idle(c, q), Alone(c, q, op)
    PROVE  FALSE
BY DEF Idle, Alone, Owns

\* What is said of the operations depends on those pending and on those queued only.
LEMMA SameOps ==
    ASSUME NEW c, NEW d, NEW q, d.ops = c.ops
    PROVE  /\ Idle(d, q) <=> Idle(c, q)
           /\ \A op : Alone(d, q, op) <=> Alone(c, q, op)
BY DEF Idle, Alone

\* What a request that is put in the queue changes.
LEMMA EnqueuedKeeps ==
    ASSUME NEW c \in GetworkClients, NEW r \in Requests
    PROVE  LET e == Enqueued(c, r)
           IN  /\ e \in GetworkClients
               /\ e.phase = c.phase /\ e.connecting = c.connecting /\ e.connected = c.connected
               /\ e.endpoints = c.endpoints /\ e.txPending = c.txPending /\ e.ops = c.ops
               /\ e.pending = c.pending /\ e.timer = c.timer /\ e.posts = c.posts
               /\ c.broken => e.broken
               /\ HasGetwork(c) => HasGetwork(e)
               /\ r = "getwork" => e.broken \/ HasGetwork(e)
<1> DEFINE e == Enqueued(c, r)
           full == Len(c.txQueue) >= TxCapacity
<1>1. /\ Shape(e) /\ Keeps(c, e, {"txQueue", "broken"})
      /\ e.txQueue = IF full THEN c.txQueue ELSE Append(c.txQueue, r)
      /\ e.broken = (c.broken \/ (full /\ r = "getwork"))
  BY ClientElim, EnqueuedIs
<1>2. e \in GetworkClients
  BY EnqueuedTyped
<1>3. c.txQueue \in Seq(Requests)
  BY ClientElim DEF FieldsTyped
<1> HIDE DEF e, full
<1>4. /\ e.phase = c.phase /\ e.connecting = c.connecting /\ e.connected = c.connected
      /\ e.endpoints = c.endpoints /\ e.txPending = c.txPending /\ e.ops = c.ops
      /\ e.pending = c.pending /\ e.timer = c.timer /\ e.posts = c.posts
  BY <1>1 DEF Keeps, Fields
<1>5. (c.broken => e.broken) /\ (full /\ r = "getwork" => e.broken)
  BY <1>1, Zenon
<1>6. full => e.txQueue = c.txQueue
  BY <1>1
<1>7. ASSUME ~full
      PROVE  /\ Len(c.txQueue) + 1 \in DOMAIN e.txQueue /\ e.txQueue[Len(c.txQueue) + 1] = r
             /\ \A i \in DOMAIN c.txQueue : i \in DOMAIN e.txQueue /\ e.txQueue[i] = c.txQueue[i]
  <2>1. e.txQueue = Append(c.txQueue, r)
    BY <1>1, <1>7
  <2> QED BY <1>3, <2>1
<1>8. HasGetwork(c) => HasGetwork(e)
  BY <1>6, <1>7 DEF HasGetwork
<1>9. r = "getwork" => e.broken \/ HasGetwork(e)
  BY <1>5, <1>7 DEF HasGetwork
<1> QED BY <1>2, <1>4, <1>5, <1>8, <1>9 DEF e

\* What setting m_txPending changes.
LEMMA MarkedKeeps ==
    ASSUME NEW c \in GetworkClients
    PROVE  LET m == Marked(c)
           IN  /\ m \in GetworkClients /\ m.txPending
               /\ m.phase = c.phase /\ m.connecting = c.connecting /\ m.connected = c.connected
               /\ m.endpoints = c.endpoints /\ m.txQueue = c.txQueue /\ m.ops = c.ops
               /\ m.pending = c.pending /\ m.timer = c.timer /\ m.posts = c.posts
               /\ m.broken = c.broken
<1> DEFINE m == Marked(c)
<1>1. Shape(m) /\ Keeps(c, m, {"txPending"}) /\ m.txPending = TRUE
  BY ClientElim, MarkedIs
<1>2. m \in GetworkClients
  BY MarkedTyped
<1> HIDE DEF m
<1>3. /\ m.phase = c.phase /\ m.connecting = c.connecting /\ m.connected = c.connected
      /\ m.endpoints = c.endpoints /\ m.txQueue = c.txQueue /\ m.ops = c.ops
      /\ m.pending = c.pending /\ m.timer = c.timer /\ m.posts = c.posts
      /\ m.broken = c.broken
  BY <1>1 DEF Keeps, Fields
<1> QED BY <1>1, <1>2, <1>3 DEF m

\* A client that is up sends a request: it waits, or the client connects.
LEMMA SendUp ==
    ASSUME NEW c \in GetworkClients, NEW q \in Seq(Handlers), NEW r \in Requests,
           c.phase = "up", PhaseOK(c), Flagged(c, q), r = "getwork" \/ Polls(c, q)
    PROVE  Served(c, send(c, r), q)
<1> DEFINE e == Enqueued(c, r)
<1>1. /\ e \in GetworkClients
      /\ e.phase = c.phase /\ e.connecting = c.connecting /\ e.connected = c.connected
      /\ e.endpoints = c.endpoints /\ e.txPending = c.txPending /\ e.ops = c.ops
      /\ e.pending = c.pending /\ e.timer = c.timer /\ e.posts = c.posts
      /\ c.broken => e.broken
      /\ HasGetwork(c) => HasGetwork(e)
      /\ r = "getwork" => e.broken \/ HasGetwork(e)
  BY EnqueuedKeeps
<1>2. send(c, r) = IF c.txPending THEN e ELSE begin_connect(Marked(e))
  BY SendIs
<1> HIDE DEF e
<1>3. PhaseOK(e)
  BY <1>1 DEF PhaseOK
<1>4. CASE c.txPending
  <2>1. Flagged(e, q)
    BY <1>1, <1>4, SameOps DEF Flagged
  <2>2. Polls(e, q)
    <3>1. CASE r = "getwork"
      BY <1>1, <3>1 DEF Polls
    <3>2. CASE Polls(c, q)
      BY <1>1, <3>2, SameOps DEF Polls
    <3> QED BY <3>1, <3>2
  <2> QED BY <1>1, <1>2, <1>3, <1>4, <2>1, <2>2 DEF Served, ClientOK
<1>5. CASE ~c.txPending
  <2> DEFINE m == Marked(e)
  <2>1. /\ m \in GetworkClients /\ m.txPending
        /\ m.phase = e.phase /\ m.connecting = e.connecting /\ m.connected = e.connected
        /\ m.endpoints = e.endpoints /\ m.txQueue = e.txQueue /\ m.ops = e.ops
        /\ m.pending = e.pending /\ m.timer = e.timer /\ m.posts = e.posts
        /\ m.broken = e.broken
    BY <1>1, MarkedKeeps
  <2> HIDE DEF m
  <2>2. Idle(c, q) /\ Idle(m, q)
    BY <1>1, <1>5, <2>1, SameOps DEF Flagged
  <2>3. Waits(c, q) \/ r = "getwork"
    BY <2>2, IdleNotAlone DEF Polls, Waits, Ops, SocketOps
  <2>4. Waits(m, q)
    BY <1>1, <2>1, <2>3 DEF Waits, HasGetwork
  <2>5. Ready(m, q)
    BY <1>1, <1>3, <2>1, <2>2, <2>4 DEF Ready, PhaseOK
  <2>6. Served(m, begin_connect(m), q)
    BY <2>5, BeginConnectServed
  <2> QED BY <1>1, <1>2, <1>5, <2>1, <2>6 DEF Served, m
<1> QED BY <1>4, <1>5

\* A client that connects sends its first request.
LEMMA SendTrying ==
    ASSUME NEW c \in GetworkClients, NEW q \in Seq(Handlers),
           c.phase = "trying", PhaseOK(c), ~c.txPending, Idle(c, q), NoTimer(c, q),
           c.endpoints > 0
    PROVE  /\ Served(c, send(c, "getwork"), q)
           /\ send(c, "getwork").phase = "trying"
<1> DEFINE r == "getwork"
           e == Enqueued(c, r)
           m == Marked(e)
<1>1. r \in Requests
  BY DEF Requests
<1>2. /\ e \in GetworkClients
      /\ e.phase = c.phase /\ e.connecting = c.connecting /\ e.connected = c.connected
      /\ e.endpoints = c.endpoints /\ e.ops = c.ops
      /\ e.timer = c.timer /\ e.posts = c.posts
      /\ e.broken \/ HasGetwork(e)
  BY <1>1, EnqueuedKeeps
<1>3. send(c, "getwork") = begin_connect(m)
  BY SendIs
<1> HIDE DEF e
<1>4. /\ m \in GetworkClients /\ m.txPending
      /\ m.phase = e.phase /\ m.connecting = e.connecting /\ m.connected = e.connected
      /\ m.endpoints = e.endpoints /\ m.txQueue = e.txQueue /\ m.ops = e.ops
      /\ m.timer = e.timer /\ m.posts = e.posts
      /\ m.broken = e.broken
  BY <1>2, MarkedKeeps
<1> HIDE DEF m
<1>5. Idle(m, q)
  BY <1>2, <1>4, SameOps
<1>6. NoTimer(m, q) /\ (m.broken \/ HasGetwork(m))
  BY <1>2, <1>4 DEF NoTimer, HasGetwork
<1>7. Ready(m, q)
  BY <1>2, <1>4, <1>5, <1>6 DEF Ready, PhaseOK
<1>8. Served(m, begin_connect(m), q) /\ begin_connect(m).phase = m.phase
  BY <1>2, <1>4, <1>7, BeginConnectServed
<1> QED BY <1>2, <1>3, <1>4, <1>8 DEF Served

\* A client that is down sends a request, and stays down.
LEMMA SendDown ==
    ASSUME NEW c \in GetworkClients, NEW r \in Requests
    PROVE  StaysDown(c, send(c, r))
<1> DEFINE e == Enqueued(c, r)
           m == Marked(e)
<1>1. /\ e \in GetworkClients
      /\ e.phase = c.phase /\ e.connecting = c.connecting /\ e.connected = c.connected
  BY EnqueuedKeeps
<1>2. send(c, r) = IF c.txPending THEN e ELSE begin_connect(m)
  BY SendIs
<1> HIDE DEF e
<1>3. /\ m \in GetworkClients
      /\ m.phase = e.phase /\ m.connecting = e.connecting /\ m.connected = e.connected
  BY <1>1, MarkedKeeps
<1> HIDE DEF m
<1>4. StaysDown(m, begin_connect(m))
  BY <1>3, BeginConnectDown
<1> QED BY <1>1, <1>2, <1>3, <1>4 DEF StaysDown, PhaseOK

-----------------------------------------------------------------------------
(* The queue of the io thread *)

\* The handlers after the one that runs.
LEMMA TailIs ==
    ASSUME NEW q \in Seq(Handlers), q # <<>>
    PROVE  /\ Tail(q) \in Seq(Handlers) /\ 1 \in DOMAIN q /\ q[1] = Head(q)
           /\ \A i \in DOMAIN Tail(q) : i + 1 \in DOMAIN q /\ Tail(q)[i] = q[i + 1]
           /\ \A i \in DOMAIN q : i # 1 => i - 1 \in DOMAIN Tail(q) /\ Tail(q)[i - 1] = q[i]
<1>1. Len(q) \in Nat /\ Len(q) > 0 /\ DOMAIN q = 1..Len(q)
  OBVIOUS
<1>2. /\ Tail(q) \in Seq(Handlers) /\ Len(Tail(q)) = Len(q) - 1
      /\ \A i \in 1..(Len(q) - 1) : Tail(q)[i] = q[i + 1]
  BY <1>1
<1>3. DOMAIN Tail(q) = 1..(Len(q) - 1)
  BY <1>2
<1>4. q[1] = Head(q)
  BY <1>1
<1>5. ASSUME NEW i \in DOMAIN q, i # 1
      PROVE  i - 1 \in DOMAIN Tail(q) /\ Tail(q)[i - 1] = q[i]
  BY <1>1, <1>2, <1>3, <1>5
<1> QED BY <1>1, <1>2, <1>3, <1>4, <1>5

\* The handler that runs is of the operation under way: the others leave it to itself.
LEMMA RunsOp ==
    ASSUME NEW c, NEW q, ClientOK(c, q), q # <<>>, Owns(q, 1, Ops)
    PROVE  /\ c.phase # "gone"
           /\ c.phase \in {"trying", "up"} => Alone(c, q, q[1].op) /\ Idle(c, Tail(q))
           /\ c.phase = "trying" => /\ q[1].op = "connect" <=> c.txPending
                                    /\ q[1].op = "resolve" <=> ~c.txPending
                                    /\ \A i \in DOMAIN q : ~Owns(q, i, {"rotate"})
           /\ c.phase = "up" => q[1].op \in SocketOps /\ c.txPending
<1>1. q \in Seq(Handlers) /\ 1 \in DOMAIN q
  BY TailIs DEF ClientOK
<1>2. c.phase # "gone"
  BY <1>1 DEF ClientOK, Still, Idle
<1>3. ASSUME NEW op \in Ops, Alone(c, q, op)
      PROVE  q[1].op = op /\ Idle(c, Tail(q))
  <2>1. c.ops[op] = 0
    BY <1>1, <1>3 DEF Alone
  <2>2. PICK i \in DOMAIN q : Owns(q, i, {op}) /\ \A j \in DOMAIN q : Owns(q, j, Ops) => j = i
    BY <2>1, <1>3 DEF Alone
  <2>3. i = 1
    BY <1>1, <2>2
  <2>4. \A o \in Ops : c.ops[o] = 0
    BY <1>3, <2>1 DEF Alone
  <2>5. ASSUME NEW j \in DOMAIN Tail(q), Owns(Tail(q), j, Ops) PROVE FALSE
    <3>1. j + 1 \in DOMAIN q /\ Tail(q)[j] = q[j + 1]
      BY <1>1, TailIs
    <3>2. Owns(q, j + 1, Ops)
      BY <2>5, <3>1 DEF Owns
    <3>3. j \in Nat /\ j # 0
      BY <1>1, TailIs
    <3> QED BY <2>2, <2>3, <3>1, <3>2, <3>3
  <2> QED BY <2>2, <2>3, <2>4, <2>5 DEF Idle, Owns
<1>4. ASSUME c.phase = "trying"
      PROVE  /\ Alone(c, q, q[1].op) /\ Idle(c, Tail(q))
             /\ q[1].op = "connect" <=> c.txPending
             /\ q[1].op = "resolve" <=> ~c.txPending
             /\ \A i \in DOMAIN q : ~Owns(q, i, {"rotate"})
  <2>1. Connects(c, q)
    BY <1>4 DEF ClientOK
  <2>2. "connect" \in Ops /\ "resolve" \in Ops
    BY DEF Ops, SocketOps
  <2>3. CASE c.txPending
    <3>1. Alone(c, q, "connect")
      BY <2>1, <2>3 DEF Connects
    <3>2. q[1].op = "connect" /\ Idle(c, Tail(q))
      BY <3>1, <2>2, <1>3
    <3> QED BY <3>1, <3>2, <2>1, <2>3, <1>1 DEF Connects
  <2>4. CASE ~c.txPending
    <3>1. Alone(c, q, "resolve")
      BY <2>1, <2>4 DEF Connects
    <3>2. q[1].op = "resolve" /\ Idle(c, Tail(q))
      BY <3>1, <2>2, <1>3
    <3> QED BY <3>1, <3>2, <2>1, <2>4, <1>1 DEF Connects
  <2> QED BY <2>3, <2>4
<1>5. ASSUME c.phase = "up"
      PROVE  /\ Alone(c, q, q[1].op) /\ Idle(c, Tail(q))
             /\ q[1].op \in SocketOps /\ c.txPending
  <2>1. Flagged(c, q)
    BY <1>5 DEF ClientOK
  <2>2. c.txPending
    BY <1>1, <2>1 DEF Flagged, Idle
  <2>3. PICK op \in SocketOps : Alone(c, q, op)
    BY <2>1, <2>2 DEF Flagged
  <2>4. q[1].op = op /\ Idle(c, Tail(q))
    BY <2>3, <1>3 DEF Ops
  <2> QED BY <2>2, <2>3, <2>4
<1> QED BY <1>2, <1>4, <1>5

\* A handler that is not of an operation leaves the one under way to itself.
LEMMA TailOps ==
    ASSUME NEW c, NEW q \in Seq(Handlers), q # <<>>, ~Owns(q, 1, Ops), NEW op \in Ops
    PROVE  /\ Idle(c, q) => Idle(c, Tail(q))
           /\ Alone(c, q, op) => Alone(c, Tail(q), op)
<1> DEFINE t == Tail(q)
<1>1. /\ \A i \in DOMAIN t : i + 1 \in DOMAIN q /\ t[i] = q[i + 1]
      /\ \A i \in DOMAIN q : i # 1 => i - 1 \in DOMAIN t /\ t[i - 1] = q[i]
      /\ t \in Seq(Handlers)
  BY TailIs
<1>2. DOMAIN t \subseteq Nat /\ DOMAIN q \subseteq Nat
  BY <1>1
<1> HIDE DEF t
<1>3. \A i \in DOMAIN t : \A S : Owns(t, i, S) <=> Owns(q, i + 1, S)
  BY <1>1 DEF Owns
<1>4. ASSUME \A i \in DOMAIN q : ~Owns(q, i, Ops)
      PROVE  \A i \in DOMAIN t : ~Owns(t, i, Ops)
  BY <1>1, <1>3, <1>4
<1>5. ASSUME NEW i \in DOMAIN q, Owns(q, i, {op}), \A j \in DOMAIN q : Owns(q, j, Ops) => j = i
      PROVE  \E k \in DOMAIN t : Owns(t, k, {op}) /\ \A j \in DOMAIN t : Owns(t, j, Ops) => j = k
  <2>1. i # 1
    BY <1>5 DEF Owns
  <2>2. i - 1 \in DOMAIN t /\ (i - 1) + 1 = i
    BY <1>1, <1>2, <2>1
  <2>3. Owns(t, i - 1, {op})
    BY <1>3, <1>5, <2>2
  <2>4. ASSUME NEW j \in DOMAIN t, Owns(t, j, Ops) PROVE j = i - 1
    BY <1>1, <1>2, <1>3, <1>5, <2>4
  <2> QED BY <2>2, <2>3, <2>4
<1>6. Idle(c, q) => Idle(c, t)
  BY <1>4 DEF Idle
<1>7. Alone(c, q, op) => Alone(c, t, op)
  BY <1>4, <1>5 DEF Alone
<1> QED BY <1>6, <1>7 DEF t

\* What was to make the client poll still is, unless its handler ran.
LEMMA TailWaits ==
    ASSUME NEW c, NEW q \in Seq(Handlers), q # <<>>, Waits(c, q), ~Owns(q, 1, {"timer"})
    PROVE  Waits(c, Tail(q))
BY TailIs DEF Waits, Owns

\* No timer is queued after the handler that runs if none was.
LEMMA TailNoTimer ==
    ASSUME NEW c, NEW q \in Seq(Handlers), q # <<>>, NoTimer(c, q)
    PROVE  NoTimer(c, Tail(q))
BY TailIs DEF NoTimer, Owns

-----------------------------------------------------------------------------
(* The steps of the getwork client *)

\* What the PoolManager sees of client c when the handlers q are still to run.
View(c, q) ==
    IF c.phase = "trying" /\ \E i \in DOMAIN q : Owns(q, i, {"rotate"}) THEN "down" ELSE c.phase

\* A step of PoolClient, or a stutter.
Moves(a, b) ==
    \/ a = b
    \/ a = "trying" /\ b \in {"up", "down"}
    \/ a = "up" /\ b = "down"
    \/ a = "down" /\ b \in {"trying", "gone"}

StepOK == IInv' /\ Moves(View(gw, gwQueue), View(gw, gwQueue)')

\* A step that changes neither the client nor the queue.
LEMMA SameStep == ASSUME IInv, gw' = gw, gwQueue' = gwQueue PROVE StepOK
<1>1. IInv'
  BY DEF IInv, ClientOK, PhaseOK, Connects, Flagged, Polls, Still, Idle, Alone, Owns, HasGetwork
<1>2. View(gw, gwQueue)' = View(gw, gwQueue)
  BY DEF View, Owns
<1> QED BY <1>1, <1>2 DEF StepOK, Moves

\* The number of rotations a handler posts does not matter to the invariant.
LEMMA PostsReset ==
    ASSUME NEW c \in GetworkClients, NEW q
    PROVE  LET d == [c EXCEPT !.posts = 0]
           IN  d.posts = 0 /\ d.phase = c.phase /\ (ClientOK(c, q) => ClientOK(d, q))
<1> DEFINE d == [c EXCEPT !.posts = 0]
<1>1. Shape(c) /\ FieldsTyped(c)
  BY ClientElim
<1>2. Shape(d) /\ Keeps(c, d, {"posts"}) /\ d.posts = 0
  BY <1>1 DEF Shape, Keeps, Fields
<1> HIDE DEF d
<1>3. /\ d.phase = c.phase /\ d.connecting = c.connecting /\ d.connected = c.connected
      /\ d.txPending = c.txPending /\ d.txQueue = c.txQueue /\ d.ops = c.ops
      /\ d.pending = c.pending /\ d.timer = c.timer /\ d.broken = c.broken
      /\ d.endpoints = c.endpoints /\ d.header = c.header /\ d.old = c.old
  BY <1>2 DEF Keeps, Fields
<1>4. d \in GetworkClients
  BY <1>1, <1>2, <1>3, ClientIntro DEF FieldsTyped
<1>5. (Idle(d, q) <=> Idle(c, q)) /\ \A op : Alone(d, q, op) <=> Alone(c, q, op)
  BY <1>3, SameOps
<1>6. HasGetwork(d) <=> HasGetwork(c)
  BY <1>3 DEF HasGetwork
<1>7. ASSUME ClientOK(c, q) PROVE ClientOK(d, q)
  <2>1. PhaseOK(d)
    BY <1>3, <1>7 DEF ClientOK, PhaseOK
  <2>2. Connects(c, q) => Connects(d, q)
    BY <1>3, <1>5, <1>6 DEF Connects
  <2>3. Flagged(c, q) => Flagged(d, q)
    BY <1>3, <1>5 DEF Flagged
  <2>4. Polls(c, q) => Polls(d, q)
    BY <1>3, <1>5, <1>6 DEF Polls
  <2>5. Still(c, q) => Still(d, q)
    BY <1>3, <1>5 DEF Still
  <2> QED BY <1>3, <1>4, <1>7, <2>1, <2>2, <2>3, <2>4, <2>5 DEF ClientOK
<1> QED BY <1>2, <1>3, <1>7 DEF d

Rotations(n) == [i \in 1..n |-> Handler("rotate", "ok")]

\* Rotations that are posted go to the end of the queue.
LEMMA PostedIs ==
    ASSUME NEW q \in Seq(Handlers), NEW n \in Nat
    PROVE  /\ q \o Rotations(n) \in Seq(Handlers)
           /\ n = 0 => q \o Rotations(n) = q
<1>1. Handler("rotate", "ok") \in Handlers
  BY DEF Handler, Handlers
<1>2. Rotations(n) \in Seq(Handlers)
  BY <1>1 DEF Rotations
<1>3. n = 0 => Rotations(n) = <<>>
  BY DEF Rotations
<1> QED BY <1>2, <1>3

\* A client that a handler leaves right, with what the handler posts, is right.
LEMMA PostedOK ==
    ASSUME NEW c, NEW q, ClientOK(c, q), c.phase # "down" => c.posts = 0,
           gw' = [c EXCEPT !.posts = 0], gwQueue' = q \o Rotations(c.posts)
    PROVE  /\ IInv' /\ gw'.phase = c.phase
           /\ c.phase # "down" => gwQueue' = q
<1>1. c \in GetworkClients /\ q \in Seq(Handlers) /\ c.posts \in Nat
  BY ClientElim DEF ClientOK, FieldsTyped
<1>2. gw'.posts = 0 /\ gw'.phase = c.phase /\ ClientOK(gw', q)
  BY <1>1, PostsReset
<1>3. gwQueue' \in Seq(Handlers) /\ (c.posts = 0 => gwQueue' = q)
  BY <1>1, PostedIs
<1>4. CASE c.phase = "down"
  BY <1>2, <1>3, <1>4, DownIsOK DEF IInv, ClientOK
<1>5. CASE c.phase # "down"
  <2>1. gwQueue' = q
    BY <1>3, <1>5
  <2> QED BY <1>2, <2>1, <1>5 DEF IInv
<1> QED BY <1>2, <1>3, <1>4, <1>5

\* A handler runs.
Heads(op) == gwQueue # <<>> /\ Owns(gwQueue, 1, {op}) /\ gwQueue[1] = Head(gwQueue)

\* What Runs says of the first handler of the queue.
LEMMA RunsHeads == ASSUME gwQueue \in Seq(Handlers), NEW op, Runs(op) PROVE Heads(op)
BY TailIs DEF Runs, Heads, Owns

\* A handler leaves the client right, and its phase moves as it may.
LEMMA LeavesOK ==
    ASSUME IInv, NEW op \in Ops \cup {"timer"}, Heads(op), NEW c,
           ClientOK(c, Tail(gwQueue)), c.phase # "down" => c.posts = 0,
           Moves(gw.phase, c.phase), c.phase = "trying" => gw.phase = "trying",
           gw.phase = "trying" => op # "timer",
           Leaves(c)
    PROVE  StepOK
<1> DEFINE t == Tail(gwQueue)
<1>1. gw' = [c EXCEPT !.posts = 0] /\ gwQueue' = t \o Rotations(c.posts)
  BY DEF Leaves, Rotations
<1>2. IInv' /\ gw'.phase = c.phase /\ (c.phase # "down" => gwQueue' = t)
  BY <1>1, PostedOK
<1>3. gwQueue \in Seq(Handlers) /\ gwQueue # <<>>
  BY DEF IInv, ClientOK, Heads
<1>4. ASSUME gw.phase = "trying" PROVE \A i \in DOMAIN gwQueue : ~Owns(gwQueue, i, {"rotate"})
  <2>1. Owns(gwQueue, 1, Ops)
    BY <1>4 DEF Heads, Owns
  <2> QED BY <1>3, <1>4, <2>1, RunsOp DEF IInv
<1>5. View(gw, gwQueue) = gw.phase
  BY <1>4 DEF View
<1>6. View(gw, gwQueue)' = c.phase
  <2>1. CASE c.phase = "trying"
    <3>1. \A i \in DOMAIN gwQueue : ~Owns(gwQueue, i, {"rotate"})
      BY <1>4, <2>1
    <3>2. \A i \in DOMAIN t : ~Owns(t, i, {"rotate"})
      BY <1>3, <3>1, TailIs DEF Owns
    <3>3. gwQueue' = t
      BY <1>2, <2>1
    <3> HIDE DEF t
    <3> QED BY <1>2, <2>1, <3>2, <3>3 DEF View, Owns
  <2>2. CASE c.phase # "trying"
    BY <1>2, <2>2 DEF View
  <2> QED BY <2>1, <2>2
<1> QED BY <1>2, <1>5, <1>6 DEF StepOK

\* What the invariant says when the handler of an operation runs.
LEMMA HeadState ==
    ASSUME IInv, NEW op \in Ops, Heads(op)
    PROVE  LET t == Tail(gwQueue)
           IN  /\ gw \in GetworkClients /\ t \in Seq(Handlers) /\ PhaseOK(gw)
               /\ gw.phase \in {"trying", "up", "down"}
               /\ gw.phase = "trying" =>
                     /\ op \in {"connect", "resolve"} /\ (op = "connect" <=> gw.txPending)
                     /\ Idle(gw, t) /\ NoTimer(gw, t)
                     /\ gw.txPending => gw.broken \/ HasGetwork(gw)
               /\ gw.phase = "up" =>
                     /\ op \in SocketOps /\ gw.txPending /\ Idle(gw, t)
                     /\ Waits(gw, t) \/ (gw.pending = "getwork" /\ op \in {"write", "read"})
<1> DEFINE t == Tail(gwQueue)
<1>1. gw \in GetworkClients /\ gwQueue \in Seq(Handlers) /\ PhaseOK(gw) /\ gwQueue # <<>>
  BY DEF IInv, ClientOK, Heads
<1>2. t \in Seq(Handlers)
  BY <1>1, TailIs
<1>3. Owns(gwQueue, 1, Ops) /\ gwQueue[1].op = op /\ ~Owns(gwQueue, 1, {"timer"})
  BY DEF Heads, Owns, Ops, SocketOps
<1>4. ClientOK(gw, gwQueue)
  BY DEF IInv
<1>5. /\ gw.phase # "gone"
      /\ gw.phase \in {"trying", "up"} => Alone(gw, gwQueue, op) /\ Idle(gw, t)
      /\ gw.phase = "trying" => (op = "connect" <=> gw.txPending) /\ (op = "resolve" <=> ~gw.txPending)
      /\ gw.phase = "up" => op \in SocketOps /\ gw.txPending
  BY <1>1, <1>3, <1>4, RunsOp
<1>6. gw.phase \in {"trying", "up", "down", "gone"}
  BY <1>1, ClientElim DEF FieldsTyped
<1>7. ASSUME gw.phase = "trying"
      PROVE  NoTimer(gw, t) /\ (gw.txPending => gw.broken \/ HasGetwork(gw))
  <2>1. Connects(gw, gwQueue)
    BY <1>4, <1>7 DEF ClientOK
  <2>2. NoTimer(gw, gwQueue)
    BY <2>1 DEF Connects, NoTimer
  <2> QED BY <1>1, <2>1, <2>2, TailNoTimer DEF Connects
<1>8. ASSUME gw.phase = "up"
      PROVE  Waits(gw, t) \/ (gw.pending = "getwork" /\ op \in {"write", "read"})
  <2>1. Polls(gw, gwQueue)
    BY <1>4, <1>8 DEF ClientOK
  <2>2. CASE Waits(gw, gwQueue)
    BY <1>1, <1>3, <2>2, TailWaits
  <2>3. ASSUME NEW o \in {"write", "read"}, Alone(gw, gwQueue, o) PROVE op = o
    <3>1. gwQueue[1].op = o
      <4>1. 1 \in DOMAIN gwQueue
        BY <1>1, TailIs
      <4>2. gw.ops[o] = 0
        BY <1>3, <2>3, <4>1 DEF Alone
      <4>3. PICK i \in DOMAIN gwQueue : Owns(gwQueue, i, {o})
               /\ \A j \in DOMAIN gwQueue : Owns(gwQueue, j, Ops) => j = i
        BY <2>3, <4>2 DEF Alone
      <4> QED BY <1>3, <4>1, <4>3 DEF Owns
    <3> QED BY <1>3, <3>1
  <2>4. CASE ~Waits(gw, gwQueue)
    BY <2>1, <2>3, <2>4 DEF Polls, Waits
  <2> QED BY <2>2, <2>4
<1> QED BY <1>1, <1>2, <1>5, <1>6, <1>7, <1>8

\* A handler whose methods left the client right.
LEMMA ServedLeaves ==
    ASSUME IInv, NEW op \in Ops \cup {"timer"}, Heads(op), NEW c,
           Served(gw, c, Tail(gwQueue)), gw.phase # "gone",
           gw.phase = "trying" => op # "timer",
           Leaves(c)
    PROVE  StepOK
<1>1. /\ ClientOK(c, Tail(gwQueue)) /\ c.phase \in {gw.phase, "down"}
      /\ c.phase # "down" => c.posts = 0
  BY DEF Served, IInv
<1>2. gw.phase \in {"trying", "up", "down", "gone"}
  BY ClientElim DEF IInv, ClientOK, FieldsTyped
<1>3. Moves(gw.phase, c.phase)
  BY <1>1, <1>2 DEF Moves
<1> QED BY <1>1, <1>3, LeavesOK

\* A handler that faults changes nothing.
LEMMA FaultsOK == ASSUME IInv, Faults PROVE StepOK
BY SameStep DEF Faults

\* A handler run on a client that is down.
LEMMA DownLeaves ==
    ASSUME IInv, NEW op \in Ops \cup {"timer"}, Heads(op), NEW c, gw.phase = "down",
           StaysDown(gw, c), Leaves(c)
    PROVE  StepOK
<1>1. gwQueue \in Seq(Handlers) /\ gwQueue # <<>> /\ PhaseOK(gw)
  BY DEF IInv, ClientOK, Heads
<1>2. c \in GetworkClients /\ c.phase = "down" /\ PhaseOK(c) /\ Tail(gwQueue) \in Seq(Handlers)
  BY <1>1, TailIs DEF StaysDown
<1>3. Served(gw, c, Tail(gwQueue))
  BY <1>2, DownIsOK DEF Served
<1> QED BY <1>3, ServedLeaves

\* A handler that uses m_conn: it faults, or its methods left the client right.
LEMMA ServedUses ==
    ASSUME IInv, NEW op \in Ops \cup {"timer"}, Heads(op), NEW c,
           gw.phase # "down" => Served(gw, c, Tail(gwQueue)), gw.phase # "gone",
           gw.phase = "trying" => op # "timer",
           UsesConn(c)
    PROVE  StepOK
<1>1. CASE gw.phase = "down"
  BY <1>1, FaultsOK DEF UsesConn
<1>2. CASE gw.phase # "down"
  BY <1>2, ServedLeaves DEF UsesConn
<1> QED BY <1>1, <1>2

\* Changing the number of endpoints is all that this does.
LEMMA EndpointsKeeps ==
    ASSUME NEW c \in GetworkClients, NEW n \in Nat
    PROVE  LET d == [c EXCEPT !.endpoints = n]
           IN  /\ d \in GetworkClients /\ d.endpoints = n
               /\ d.phase = c.phase /\ d.connecting = c.connecting /\ d.connected = c.connected
               /\ d.txPending = c.txPending /\ d.txQueue = c.txQueue /\ d.ops = c.ops
               /\ d.pending = c.pending /\ d.timer = c.timer /\ d.posts = c.posts
               /\ d.broken = c.broken
<1> DEFINE d == [c EXCEPT !.endpoints = n]
<1>1. Shape(c) /\ FieldsTyped(c)
  BY ClientElim
<1>2. Shape(d) /\ Keeps(c, d, {"endpoints"}) /\ d.endpoints = n
  BY <1>1 DEF Shape, Keeps, Fields
<1> HIDE DEF d
<1>3. /\ d.phase = c.phase /\ d.connecting = c.connecting /\ d.connected = c.connected
      /\ d.txPending = c.txPending /\ d.txQueue = c.txQueue /\ d.ops = c.ops
      /\ d.pending = c.pending /\ d.timer = c.timer /\ d.broken = c.broken
      /\ d.posts = c.posts /\ d.header = c.header /\ d.old = c.old
  BY <1>2 DEF Keeps, Fields
<1>4. d \in GetworkClients
  BY <1>1, <1>2, <1>3, ClientIntro DEF FieldsTyped
<1> QED BY <1>2, <1>3, <1>4 DEF d

\* The handler of a resolved host.
LEMMA ResolveStep == ASSUME IInv, handle_resolve PROVE StepOK
<1> DEFINE t == Tail(gwQueue)
<1>1. "resolve" \in Ops /\ Heads("resolve")
  BY RunsHeads DEF handle_resolve, IInv, ClientOK, Ops
<1>2. /\ gw \in GetworkClients /\ t \in Seq(Handlers) /\ PhaseOK(gw)
      /\ gw.phase \in {"trying", "down"}
      /\ gw.phase = "trying" => ~gw.txPending /\ Idle(gw, t) /\ NoTimer(gw, t)
  BY <1>1, HeadState DEF SocketOps
<1>3. CASE Head(gwQueue).how = "ok"
  <2>1. PICK n \in 1..MaxEndpoints : Leaves(send([gw EXCEPT !.endpoints = @ + n], "getwork"))
    BY <1>3 DEF handle_resolve
  <2> DEFINE m == gw.endpoints + n
             d == [gw EXCEPT !.endpoints = m]
  <2>2. m \in Nat /\ m > 0
    BY <1>2, ClientElim, ClientsAssumption DEF FieldsTyped
  <2>3. Leaves(send(d, "getwork"))
    BY <2>1
  <2> HIDE DEF m
  <2>4. /\ d \in GetworkClients /\ d.endpoints = m
        /\ d.phase = gw.phase /\ d.connecting = gw.connecting /\ d.connected = gw.connected
        /\ d.txPending = gw.txPending /\ d.txQueue = gw.txQueue /\ d.ops = gw.ops
        /\ d.timer = gw.timer /\ d.posts = gw.posts /\ d.broken = gw.broken
    BY <1>2, <2>2, EndpointsKeeps
  <2> HIDE DEF d
  <2>5. PhaseOK(d) /\ (Idle(gw, t) => Idle(d, t)) /\ (NoTimer(gw, t) => NoTimer(d, t))
    BY <1>2, <2>4, SameOps DEF PhaseOK, NoTimer
  <2>6. CASE gw.phase = "trying"
    <3>1. Served(d, send(d, "getwork"), t)
      BY <1>2, <2>2, <2>4, <2>5, <2>6, SendTrying
    <3>2. Served(gw, send(d, "getwork"), t)
      BY <2>4, <3>1 DEF Served
    <3> QED BY <1>1, <2>3, <2>6, <3>2, ServedLeaves
  <2>7. CASE gw.phase = "down"
    <3>1. StaysDown(d, send(d, "getwork"))
      BY <2>4, SendDown DEF Requests
    <3>2. StaysDown(gw, send(d, "getwork"))
      BY <2>4, <2>5, <3>1 DEF StaysDown
    <3> QED BY <1>1, <2>3, <2>7, <3>2, DownLeaves
  <2> QED BY <1>2, <2>6, <2>7
<1>4. CASE Head(gwQueue).how # "ok"
  <2>1. UsesConn(disconnect(gw))
    BY <1>4 DEF handle_resolve
  <2>2. Served(gw, disconnect(gw), t)
    BY <1>2, DisconnectServed
  <2>3. gw.phase # "gone" /\ "resolve" # "timer"
    BY <1>2
  <2> QED BY <1>1, <2>1, <2>2, <2>3, ServedUses
<1> QED BY <1>3, <1>4

\* A client that gives up an endpoint, and connects to the next one.
LEMMA NextEndpointStep ==
    ASSUME IInv, NEW op \in Ops, Heads(op), NEW c \in GetworkClients,
           gw.phase # "gone", gw.phase # "down" => Ready(c, Tail(gwQueue)),
           c.phase = gw.phase, c.posts = gw.posts, c.endpoints = gw.endpoints,
           NextEndpoint(c)
    PROVE  StepOK
<1> DEFINE t == Tail(gwQueue)
           m == c.endpoints - 1
           d == [c EXCEPT !.endpoints = m]
<1>1. CASE gw.endpoints = 0
  BY <1>1, FaultsOK DEF NextEndpoint
<1>2. CASE gw.endpoints # 0
  <2>1. UsesConn(begin_connect(d))
    BY <1>2 DEF NextEndpoint
  <2>2. m \in Nat
    BY <1>2, ClientElim DEF FieldsTyped
  <2> HIDE DEF m
  <2>3. /\ d \in GetworkClients
        /\ d.phase = c.phase /\ d.connecting = c.connecting /\ d.connected = c.connected
        /\ d.txPending = c.txPending /\ d.txQueue = c.txQueue /\ d.ops = c.ops
        /\ d.timer = c.timer /\ d.posts = c.posts /\ d.broken = c.broken
    BY <2>2, EndpointsKeeps
  <2> HIDE DEF d
  <2>4. ASSUME gw.phase # "down" PROVE Served(gw, begin_connect(d), t)
    <3>1. Ready(c, t)
      BY <2>4
    <3>2. Idle(d, t)
      BY <2>3, <3>1, SameOps DEF Ready
    <3>3. (Waits(c, t) => Waits(d, t)) /\ (NoTimer(c, t) => NoTimer(d, t))
          /\ (HasGetwork(c) => HasGetwork(d))
      BY <2>3 DEF Waits, NoTimer, HasGetwork
    <3>4. Ready(d, t)
      BY <2>3, <3>1, <3>2, <3>3 DEF Ready, PhaseOK
    <3> HIDE DEF t
    <3>5. Served(d, begin_connect(d), t)
      BY <3>4, BeginConnectServed
    <3> QED BY <2>3, <3>5 DEF Served
  <2>5. op # "timer"
    BY DEF Ops, SocketOps
  <2> QED BY <2>1, <2>4, <2>5, ServedUses
<1> QED BY <1>1, <1>2

\* A client whose connection is open, and that has no request to send.
LEMMA OpenedEmpty ==
    ASSUME NEW c \in GetworkClients, NEW q \in Seq(Handlers), PhaseOK(c),
           c.phase = "trying" => c.broken /\ Idle(c, q),
           c.phase = "up" => Waits(c, q) /\ Idle(c, q),
           c.phase # "gone"
    PROVE  LET d == [Opened(c) EXCEPT !.txPending = FALSE]
           IN  /\ ClientOK(d, q) /\ d.posts = c.posts
               /\ d.phase = IF c.phase = "trying" THEN "up" ELSE c.phase
<1> DEFINE e == Opened(c)
           d == [e EXCEPT !.txPending = FALSE]
<1>1. Shape(c) /\ FieldsTyped(c)
  BY ClientElim
<1>2. Shape(e) /\ Keeps(c, e, {"phase", "connecting", "connected", "old"})
  BY <1>1, OpenedIs
<1>3. IF c.connecting THEN e.phase = "up" /\ e.connecting = FALSE /\ e.connected = TRUE /\ e.old = FALSE
      ELSE e = c
  BY <1>1, OpenedIs
<1> HIDE DEF e
<1>4. Shape(d) /\ Keeps(e, d, {"txPending"}) /\ d.txPending = FALSE
  BY <1>2 DEF Shape, Keeps, Fields
<1> HIDE DEF d
<1>5. /\ d.endpoints = c.endpoints /\ d.txQueue = c.txQueue /\ d.pending = c.pending
      /\ d.ops = c.ops /\ d.timer = c.timer /\ d.header = c.header /\ d.posts = c.posts
      /\ d.broken = c.broken
      /\ d.phase = e.phase /\ d.connecting = e.connecting /\ d.connected = e.connected
      /\ d.old = e.old
  BY <1>2, <1>4 DEF Keeps, Fields
<1>6. /\ d.phase = (IF c.phase = "trying" THEN "up" ELSE c.phase)
      /\ PhaseOK(d) /\ e.old \in BOOLEAN /\ e.connecting \in BOOLEAN /\ e.connected \in BOOLEAN
  BY <1>1, <1>3, <1>5 DEF PhaseOK, FieldsTyped
<1>7. d \in GetworkClients
  <2>1. FieldsTyped(d)
    BY <1>1, <1>4, <1>5, <1>6 DEF FieldsTyped
  <2> QED BY <2>1, <1>4, ClientIntro
<1>8. ASSUME d.phase = "up" PROVE Flagged(d, q) /\ Polls(d, q)
  <2>1. c.phase \in {"trying", "up"}
    BY <1>6, <1>8
  <2>2. Idle(d, q)
    BY <1>5, <2>1, SameOps
  <2>3. Waits(c, q)
    BY <2>1 DEF Waits
  <2>4. Polls(d, q)
    BY <2>3, <1>5 DEF Waits, Polls, HasGetwork
  <2> QED BY <2>2, <2>4, <1>4 DEF Flagged
<1>9. d.phase \in {"up", "down"}
  BY <1>1, <1>6 DEF FieldsTyped
<1>10. ClientOK(d, q)
  BY <1>6, <1>7, <1>8, <1>9 DEF ClientOK
<1> QED BY <1>5, <1>6, <1>10 DEF d, e

\* A client whose connection is open, and that writes its first request.
LEMMA OpenedWritten ==
    ASSUME NEW c \in GetworkClients, NEW q \in Seq(Handlers), PhaseOK(c),
           c.phase \in {"trying", "up"}, c.txPending, c.txQueue # <<>>, Idle(c, q), Waits(c, q)
    PROVE  LET d == Written(Opened(c))
           IN  ClientOK(d, q) /\ d.posts = c.posts /\ d.phase = "up"
<1> DEFINE e == Opened(c)
           d == Written(e)
<1>1. Shape(c) /\ FieldsTyped(c)
  BY ClientElim
<1>2. Shape(e) /\ Keeps(c, e, {"phase", "connecting", "connected", "old"})
  BY <1>1, OpenedIs
<1>3. IF c.connecting THEN e.phase = "up" /\ e.connecting = FALSE /\ e.connected = TRUE /\ e.old = FALSE
      ELSE e = c
  BY <1>1, OpenedIs
<1> HIDE DEF e
<1>4. /\ Shape(d) /\ Keeps(e, d, {"pending", "txQueue", "ops"})
      /\ d.pending = Head(e.txQueue) /\ d.txQueue = Tail(e.txQueue)
      /\ d.ops = [e.ops EXCEPT !["write"] = @ + 1]
  BY <1>2, WrittenIs
<1> HIDE DEF d
<1>5. /\ d.endpoints = c.endpoints /\ d.txPending = c.txPending
      /\ d.timer = c.timer /\ d.header = c.header /\ d.posts = c.posts /\ d.broken = c.broken
      /\ d.phase = e.phase /\ d.connecting = e.connecting /\ d.connected = e.connected
      /\ d.old = e.old /\ e.txQueue = c.txQueue /\ e.ops = c.ops
  BY <1>2, <1>4 DEF Keeps, Fields
<1>6. d.phase = "up" /\ PhaseOK(d) /\ e.old \in BOOLEAN /\ e.connecting \in BOOLEAN
      /\ e.connected \in BOOLEAN
  BY <1>1, <1>3, <1>5 DEF PhaseOK, FieldsTyped
<1>7. d.pending \in Requests /\ d.txQueue \in Seq(Requests)
  BY <1>1, <1>4, <1>5 DEF FieldsTyped
<1>8. "write" \in Ops /\ "write" \in SocketOps
  BY DEF Ops, SocketOps
<1>9. d.ops \in [Ops -> Nat] /\ d.ops["write"] = 1 /\ \A o \in Ops : o # "write" => d.ops[o] = 0
  BY <1>1, <1>4, <1>5, <1>8 DEF FieldsTyped, Idle
<1>10. d \in GetworkClients
  <2>1. FieldsTyped(d)
    BY <1>1, <1>4, <1>5, <1>6, <1>7, <1>9 DEF FieldsTyped
  <2> QED BY <2>1, <1>4, ClientIntro
<1>11. Alone(d, q, "write")
  BY <1>9 DEF Alone, Idle
<1>12. ASSUME HasGetwork(c) PROVE d.pending = "getwork" \/ HasGetwork(d)
  <2>1. PICK i \in DOMAIN c.txQueue : c.txQueue[i] = "getwork"
    BY <1>12 DEF HasGetwork
  <2>2. c.txQueue \in Seq(Requests)
    BY <1>1 DEF FieldsTyped
  <2>3. CASE i = 1
    BY <1>4, <1>5, <2>1, <2>2, <2>3
  <2>4. CASE i # 1
    <3>1. i - 1 \in DOMAIN Tail(c.txQueue) /\ Tail(c.txQueue)[i - 1] = c.txQueue[i]
      BY <2>1, <2>2, <2>4
    <3> QED BY <1>4, <1>5, <2>1, <3>1 DEF HasGetwork
  <2> QED BY <2>3, <2>4
<1>13. Polls(d, q)
  BY <1>5, <1>11, <1>12 DEF Waits, Polls
<1>14. Flagged(d, q)
  BY <1>5, <1>8, <1>11 DEF Flagged
<1>15. ClientOK(d, q)
  BY <1>6, <1>10, <1>13, <1>14 DEF ClientOK
<1> QED BY <1>5, <1>6, <1>15 DEF d, e

\* The handler of a connection.
LEMMA ConnectStep == ASSUME IInv, handle_connect PROVE StepOK
<1> DEFINE t == Tail(gwQueue)
<1>1. "connect" \in Ops /\ Heads("connect")
  BY RunsHeads DEF handle_connect, IInv, ClientOK, Ops, SocketOps
<1>2. /\ gw \in GetworkClients /\ t \in Seq(Handlers) /\ PhaseOK(gw)
      /\ gw.phase \in {"trying", "up", "down"} /\ gw.posts = 0
      /\ gw.phase = "trying" => /\ gw.txPending /\ Idle(gw, t) /\ NoTimer(gw, t)
                                /\ gw.broken \/ HasGetwork(gw)
      /\ gw.phase = "up" => gw.txPending /\ Idle(gw, t) /\ Waits(gw, t)
  BY <1>1, HeadState DEF IInv
<1> HIDE DEF t
<1>3. CASE Head(gwQueue).how # "ok"
  <2>1. NextEndpoint(gw)
    BY <1>3 DEF handle_connect
  <2>2. gw.phase # "down" => Ready(gw, t)
    BY <1>2 DEF Ready
  <2> QED BY <1>1, <1>2, <2>1, <2>2, NextEndpointStep DEF t
<1>4. CASE Head(gwQueue).how = "ok" /\ gw.txQueue = <<>>
  <2> DEFINE d == [Opened(gw) EXCEPT !.txPending = FALSE]
  <2>1. Leaves(d)
    BY <1>4 DEF handle_connect
  <2>2. ~HasGetwork(gw)
    BY <1>4 DEF HasGetwork
  <2>3. /\ ClientOK(d, t) /\ d.posts = gw.posts
        /\ d.phase = IF gw.phase = "trying" THEN "up" ELSE gw.phase
    BY <1>2, <2>2, OpenedEmpty
  <2> HIDE DEF d
  <2>4. Moves(gw.phase, d.phase) /\ d.phase # "trying"
    BY <1>2, <2>3 DEF Moves
  <2> QED BY <1>1, <1>2, <2>1, <2>3, <2>4, LeavesOK DEF t
<1>5. CASE Head(gwQueue).how = "ok" /\ gw.txQueue # <<>>
  <2> DEFINE d == Written(Opened(gw))
  <2>1. UsesConn(d)
    BY <1>5 DEF handle_connect
  <2>2. CASE gw.phase = "down"
    BY <2>1, <2>2, FaultsOK DEF UsesConn
  <2>3. CASE gw.phase # "down"
    <3>1. Leaves(d)
      BY <2>1, <2>3 DEF UsesConn
    <3>2. Waits(gw, t)
      BY <1>2, <2>3 DEF Waits
    <3>3. ClientOK(d, t) /\ d.posts = gw.posts /\ d.phase = "up"
      BY <1>2, <1>5, <2>3, <3>2, OpenedWritten
    <3> HIDE DEF d
    <3>4. Moves(gw.phase, d.phase) /\ d.phase # "trying"
      BY <1>2, <2>3, <3>3 DEF Moves
    <3> QED BY <1>1, <1>2, <3>1, <3>3, <3>4, LeavesOK DEF t
  <2> QED BY <2>2, <2>3
<1> QED BY <1>3, <1>4, <1>5

\* The handler of a write.
LEMMA WriteStep == ASSUME IInv, handle_write PROVE StepOK
<1> DEFINE t == Tail(gwQueue)
<1>1. "write" \in Ops /\ Heads("write") /\ "read" \in Ops /\ "read" \in SocketOps
  BY RunsHeads DEF handle_write, IInv, ClientOK, Ops, SocketOps
<1>2. /\ gw \in GetworkClients /\ t \in Seq(Handlers) /\ PhaseOK(gw)
      /\ gw.phase \in {"up", "down"} /\ gw.posts = 0
      /\ gw.phase = "up" => /\ gw.txPending /\ Idle(gw, t)
                            /\ Waits(gw, t) \/ gw.pending = "getwork"
  BY <1>1, HeadState DEF IInv
<1> HIDE DEF t
<1>3. CASE Head(gwQueue).how = "ok"
  <2> DEFINE d == Begin(gw, "read")
  <2>1. Leaves(d)
    BY <1>3 DEF handle_write
  <2>2. d \in GetworkClients /\ Keeps(gw, d, {"ops"})
    BY <1>1, <1>2, BeginTyped, BeginIs, ClientElim
  <2>3. Idle(gw, t) => Alone(d, t, "read")
    BY <1>1, <1>2, BeginAlone
  <2> HIDE DEF d
  <2>4. /\ d.phase = gw.phase /\ d.connecting = gw.connecting /\ d.connected = gw.connected
        /\ d.txPending = gw.txPending /\ d.txQueue = gw.txQueue /\ d.timer = gw.timer
        /\ d.pending = gw.pending /\ d.posts = gw.posts /\ d.broken = gw.broken
    BY <2>2 DEF Keeps, Fields
  <2>5. PhaseOK(d)
    BY <1>2, <2>4 DEF PhaseOK
  <2>6. ASSUME gw.phase = "up" PROVE Flagged(d, t) /\ Polls(d, t)
    <3>1. Flagged(d, t)
      BY <1>1, <1>2, <2>3, <2>4, <2>6 DEF Flagged
    <3>2. Polls(d, t)
      BY <1>2, <2>3, <2>4, <2>6 DEF Polls, Waits, HasGetwork
    <3> QED BY <3>1, <3>2
  <2>7. ClientOK(d, t)
    BY <1>2, <2>2, <2>4, <2>5, <2>6 DEF ClientOK
  <2>8. Served(gw, d, t)
    BY <2>4, <2>7 DEF Served
  <2> QED BY <1>1, <1>2, <2>1, <2>8, ServedLeaves DEF t
<1>4. CASE Head(gwQueue).how # "ok"
  <2> DEFINE b == gw.broken \/ gw.pending = "getwork"
             c == [gw EXCEPT !.broken = b]
  <2>1. NextEndpoint(c)
    BY <1>4 DEF handle_write
  <2>2. b \in BOOLEAN /\ (gw.broken => b) /\ (gw.pending = "getwork" => b)
    BY Zenon
  <2> HIDE DEF b
  <2>3. Shape(gw) /\ FieldsTyped(gw)
    BY <1>2, ClientElim
  <2>4. Shape(c) /\ Keeps(gw, c, {"broken"}) /\ c.broken = b
    BY <2>3 DEF Shape, Keeps, Fields
  <2> HIDE DEF c
  <2>5. /\ c.phase = gw.phase /\ c.connecting = gw.connecting /\ c.connected = gw.connected
        /\ c.txPending = gw.txPending /\ c.txQueue = gw.txQueue /\ c.ops = gw.ops
        /\ c.pending = gw.pending /\ c.timer = gw.timer /\ c.posts = gw.posts
        /\ c.endpoints = gw.endpoints /\ c.header = gw.header /\ c.old = gw.old
    BY <2>4 DEF Keeps, Fields
  <2>6. c \in GetworkClients
    BY <2>2, <2>3, <2>4, <2>5, ClientIntro DEF FieldsTyped
  <2>7. ASSUME gw.phase # "down" PROVE Ready(c, t)
    <3>1. Idle(c, t)
      BY <1>2, <2>5, <2>7, SameOps
    <3>2. Waits(c, t)
      BY <1>2, <2>2, <2>4, <2>5, <2>7 DEF Waits, HasGetwork
    <3> QED BY <1>2, <2>5, <2>6, <2>7, <3>1, <3>2 DEF Ready, PhaseOK
  <2> QED BY <1>1, <1>2, <2>1, <2>5, <2>6, <2>7, NextEndpointStep DEF t
<1> QED BY <1>3, <1>4

\* What the answer to a request changes: a getwork request is timed, or its answer is lost.
LEMMA ProcessKeeps ==
    ASSUME NEW c \in GetworkClients, NEW how
    PROVE  LET p == processResponse(c, how)
           IN  /\ p \in GetworkClients
               /\ p.phase = c.phase /\ p.connecting = c.connecting /\ p.connected = c.connected
               /\ p.endpoints = c.endpoints /\ p.txPending = c.txPending /\ p.txQueue = c.txQueue
               /\ p.ops = c.ops /\ p.posts = c.posts
               /\ c.broken => p.broken
               /\ c.timer => p.timer
               /\ c.pending = "getwork" => p.timer \/ p.broken
<1> DEFINE p == processResponse(c, how)
           Right(d) ==
               /\ d \in GetworkClients
               /\ d.phase = c.phase /\ d.connecting = c.connecting /\ d.connected = c.connected
               /\ d.endpoints = c.endpoints /\ d.txPending = c.txPending /\ d.txQueue = c.txQueue
               /\ d.ops = c.ops /\ d.posts = c.posts
               /\ c.broken => d.broken
               /\ c.timer => d.timer
<1>1. Shape(c) /\ FieldsTyped(c)
  BY ClientElim
<1>2. LET d == [c EXCEPT !.timer = TRUE] IN Right(d) /\ d.timer
  <2> DEFINE d == [c EXCEPT !.timer = TRUE]
  <2>1. Shape(d) /\ Keeps(c, d, {"timer"}) /\ d.timer = TRUE
    BY <1>1 DEF Shape, Keeps, Fields
  <2> HIDE DEF d
  <2>2. /\ d.phase = c.phase /\ d.connecting = c.connecting /\ d.connected = c.connected
        /\ d.txPending = c.txPending /\ d.txQueue = c.txQueue /\ d.ops = c.ops
        /\ d.pending = c.pending /\ d.posts = c.posts /\ d.broken = c.broken
        /\ d.endpoints = c.endpoints /\ d.header = c.header /\ d.old = c.old
    BY <2>1 DEF Keeps, Fields
  <2>3. d \in GetworkClients
    BY <1>1, <2>1, <2>2, ClientIntro DEF FieldsTyped
  <2> QED BY <2>1, <2>2, <2>3 DEF d
<1>3. LET d == [c EXCEPT !.broken = TRUE] IN Right(d) /\ d.broken
  <2> DEFINE d == [c EXCEPT !.broken = TRUE]
  <2>1. Shape(d) /\ Keeps(c, d, {"broken"}) /\ d.broken = TRUE
    BY <1>1 DEF Shape, Keeps, Fields
  <2> HIDE DEF d
  <2>2. /\ d.phase = c.phase /\ d.connecting = c.connecting /\ d.connected = c.connected
        /\ d.txPending = c.txPending /\ d.txQueue = c.txQueue /\ d.ops = c.ops
        /\ d.pending = c.pending /\ d.posts = c.posts /\ d.timer = c.timer
        /\ d.endpoints = c.endpoints /\ d.header = c.header /\ d.old = c.old
    BY <2>1 DEF Keeps, Fields
  <2>3. d \in GetworkClients
    BY <1>1, <2>1, <2>2, ClientIntro DEF FieldsTyped
  <2> QED BY <2>1, <2>2, <2>3 DEF d
<1>4. ASSUME how \in Headers
      PROVE  LET d == [c EXCEPT !.header = how, !.old = FALSE, !.timer = TRUE] IN Right(d) /\ d.timer
  <2> DEFINE d == [c EXCEPT !.header = how, !.old = FALSE, !.timer = TRUE]
  <2>1. Shape(d) /\ Keeps(c, d, {"header", "old", "timer"}) /\ d.timer = TRUE
        /\ d.header = how /\ d.old = FALSE
    BY <1>1 DEF Shape, Keeps, Fields
  <2> HIDE DEF d
  <2>2. /\ d.phase = c.phase /\ d.connecting = c.connecting /\ d.connected = c.connected
        /\ d.txPending = c.txPending /\ d.txQueue = c.txQueue /\ d.ops = c.ops
        /\ d.pending = c.pending /\ d.posts = c.posts /\ d.broken = c.broken
        /\ d.endpoints = c.endpoints
    BY <2>1 DEF Keeps, Fields
  <2>3. d \in GetworkClients
    BY <1>1, <1>4, <2>1, <2>2, ClientIntro DEF FieldsTyped
  <2> QED BY <2>1, <2>2, <2>3 DEF d
<1>5. Right(c)
  OBVIOUS
<1> HIDE DEF Right
<1>6. ASSUME c.pending # "getwork" PROVE p = c
  BY <1>6 DEF processResponse
<1>7. ASSUME c.pending = "getwork" PROVE Right(p) /\ (p.timer \/ p.broken)
  <2>1. CASE how \in Headers
    BY <1>2, <1>4, <1>7, <2>1 DEF processResponse, Worked
  <2>2. CASE how \notin Headers
    BY <1>2, <1>3, <1>7, <2>2 DEF processResponse
  <2> QED BY <2>1, <2>2
<1>8. Right(p) /\ (c.pending = "getwork" => p.timer \/ p.broken)
  BY <1>5, <1>6, <1>7
<1> QED BY <1>8 DEF Right

\* The next request is sent, or m_txPending is reset.
LEMMA ContinueServed ==
    ASSUME NEW c \in GetworkClients, NEW q \in Seq(Handlers), PhaseOK(c), c.phase = "up",
           c.txPending, Idle(c, q), Waits(c, q)
    PROVE  Served(c, Continue(c), q)
<1>1. CASE c.txQueue # <<>>
  <2>1. Ready(c, q)
    BY DEF Ready
  <2> QED BY <1>1, <2>1, BeginConnectServed DEF Continue
<1>2. CASE c.txQueue = <<>>
  <2> DEFINE d == [c EXCEPT !.txPending = FALSE]
  <2>1. Continue(c) = d
    BY <1>2 DEF Continue
  <2>2. Shape(c) /\ FieldsTyped(c)
    BY ClientElim
  <2>3. Shape(d) /\ Keeps(c, d, {"txPending"}) /\ d.txPending = FALSE
    BY <2>2 DEF Shape, Keeps, Fields
  <2> HIDE DEF d
  <2>4. /\ d.phase = c.phase /\ d.connecting = c.connecting /\ d.connected = c.connected
        /\ d.timer = c.timer /\ d.txQueue = c.txQueue /\ d.ops = c.ops
        /\ d.pending = c.pending /\ d.posts = c.posts /\ d.broken = c.broken
        /\ d.endpoints = c.endpoints /\ d.header = c.header /\ d.old = c.old
    BY <2>3 DEF Keeps, Fields
  <2>5. d \in GetworkClients
    BY <2>2, <2>3, <2>4, ClientIntro DEF FieldsTyped
  <2>6. Flagged(d, q)
    BY <2>3, <2>4, SameOps DEF Flagged
  <2>7. Polls(d, q)
    BY <2>4 DEF Waits, Polls, HasGetwork
  <2>8. PhaseOK(d)
    BY <2>4 DEF PhaseOK
  <2>9. ClientOK(d, q)
    BY <2>4, <2>5, <2>6, <2>7, <2>8 DEF ClientOK
  <2> QED BY <2>1, <2>4, <2>9 DEF Served
<1> QED BY <1>1, <1>2

\* The same for a client that is down.
LEMMA ContinueDown ==
    ASSUME NEW c \in GetworkClients
    PROVE  StaysDown(c, Continue(c))
<1>1. CASE c.txQueue # <<>>
  BY <1>1, BeginConnectDown DEF Continue
<1>2. CASE c.txQueue = <<>>
  <2> DEFINE d == [c EXCEPT !.txPending = FALSE]
  <2>1. Continue(c) = d
    BY <1>2 DEF Continue
  <2>2. Shape(c) /\ FieldsTyped(c)
    BY ClientElim
  <2>3. Shape(d) /\ Keeps(c, d, {"txPending"}) /\ d.txPending = FALSE
    BY <2>2 DEF Shape, Keeps, Fields
  <2> HIDE DEF d
  <2>4. /\ d.phase = c.phase /\ d.connecting = c.connecting /\ d.connected = c.connected
        /\ d.timer = c.timer /\ d.txQueue = c.txQueue /\ d.ops = c.ops
        /\ d.pending = c.pending /\ d.posts = c.posts /\ d.broken = c.broken
        /\ d.endpoints = c.endpoints /\ d.header = c.header /\ d.old = c.old
    BY <2>3 DEF Keeps, Fields
  <2>5. d \in GetworkClients
    BY <2>2, <2>3, <2>4, ClientIntro DEF FieldsTyped
  <2> QED BY <2>1, <2>4, <2>5 DEF StaysDown, PhaseOK
<1> QED BY <1>1, <1>2

\* The handler of a read.
LEMMA ReadStep == ASSUME IInv, handle_read PROVE StepOK
<1> DEFINE t == Tail(gwQueue)
           how == Head(gwQueue).how
           p == processResponse(gw, how)
           c == Continue(p)
<1>1. "read" \in Ops /\ Heads("read")
  BY RunsHeads DEF handle_read, IInv, ClientOK, Ops, SocketOps
<1>2. /\ gw \in GetworkClients /\ t \in Seq(Handlers) /\ PhaseOK(gw)
      /\ gw.phase \in {"up", "down"} /\ gw.posts = 0
      /\ gw.phase = "up" => /\ gw.txPending /\ Idle(gw, t)
                            /\ Waits(gw, t) \/ gw.pending = "getwork"
  BY <1>1, HeadState DEF IInv
<1>3. /\ p \in GetworkClients
      /\ p.phase = gw.phase /\ p.connecting = gw.connecting /\ p.connected = gw.connected
      /\ p.endpoints = gw.endpoints /\ p.txPending = gw.txPending /\ p.txQueue = gw.txQueue
      /\ p.ops = gw.ops /\ p.posts = gw.posts
      /\ gw.broken => p.broken
      /\ gw.timer => p.timer
      /\ gw.pending = "getwork" => p.timer \/ p.broken
  BY <1>2, ProcessKeeps
<1>4. \/ UsesConn(disconnect(gw)) \/ Leaves(c) \/ UsesConn(c)
  BY DEF handle_read
<1> HIDE DEF t, p
<1>5. ASSUME gw.phase = "up" PROVE Served(gw, c, t)
  <2>1. Idle(p, t)
    BY <1>2, <1>3, <1>5, SameOps
  <2>2. Waits(p, t)
    BY <1>2, <1>3, <1>5 DEF Waits, HasGetwork
  <2>3. PhaseOK(p)
    BY <1>2, <1>3 DEF PhaseOK
  <2>4. Served(p, c, t)
    BY <1>2, <1>3, <1>5, <2>1, <2>2, <2>3, ContinueServed
  <2> QED BY <1>3, <2>4 DEF Served
<1>6. ASSUME gw.phase = "down" PROVE StaysDown(gw, c)
  BY <1>2, <1>3, ContinueDown DEF StaysDown, PhaseOK
<1>7. CASE UsesConn(disconnect(gw))
  <2>1. Served(gw, disconnect(gw), t)
    BY <1>2, DisconnectServed
  <2> QED BY <1>1, <1>2, <1>7, <2>1, ServedUses DEF t
<1> HIDE DEF c
<1>8. CASE Leaves(c)
  <2>1. CASE gw.phase = "up"
    BY <1>1, <1>5, <1>8, <2>1, ServedLeaves DEF t
  <2>2. CASE gw.phase = "down"
    BY <1>1, <1>6, <1>8, <2>2, DownLeaves
  <2> QED BY <1>2, <2>1, <2>2
<1>9. CASE UsesConn(c)
  BY <1>1, <1>2, <1>5, <1>9, ServedUses DEF t
<1> QED BY <1>4, <1>7, <1>8, <1>9

\* The handler of the timer.
LEMMA TimerStep == ASSUME IInv, getwork_timer_elapsed PROVE StepOK
<1> DEFINE t == Tail(gwQueue)
           c == send(gw, "getwork")
<1>1. Heads("timer") /\ "getwork" \in Requests
  BY RunsHeads DEF getwork_timer_elapsed, IInv, ClientOK, Requests
<1>2. /\ gw \in GetworkClients /\ gwQueue \in Seq(Handlers) /\ PhaseOK(gw) /\ gw.posts = 0
      /\ gwQueue # <<>> /\ 1 \in DOMAIN gwQueue /\ t \in Seq(Handlers)
  BY <1>1, TailIs DEF IInv, ClientOK, Heads
<1>3. Owns(gwQueue, 1, {"timer"}) /\ ~Owns(gwQueue, 1, Ops)
  BY <1>1 DEF Heads, Owns, Ops, SocketOps
<1>4. gw.phase \in {"up", "down"}
  <2>1. gw.phase \in {"trying", "up", "down", "gone"}
    BY <1>2, ClientElim DEF FieldsTyped
  <2> QED BY <1>2, <1>3, <2>1 DEF IInv, ClientOK, Connects, Still
<1>5. ASSUME gw.phase = "up" PROVE Flagged(gw, t)
  <2>1. Flagged(gw, gwQueue)
    BY <1>5 DEF IInv, ClientOK
  <2>2. /\ Idle(gw, gwQueue) => Idle(gw, t)
        /\ \A op \in Ops : Alone(gw, gwQueue, op) => Alone(gw, t, op)
    BY <1>2, <1>3, TailOps DEF Ops
  <2> QED BY <2>1, <2>2 DEF Flagged, Ops
<1>6. CASE gw.old
  <2> DEFINE m == gw.endpoints - 1
             e == [gw EXCEPT !.endpoints = m]
  <2>1. CASE gw.endpoints = 0
    BY <1>6, <2>1, FaultsOK DEF getwork_timer_elapsed
  <2>2. CASE gw.endpoints # 0
    <3>1. Leaves(disconnect(e))
      BY <1>6, <2>2 DEF getwork_timer_elapsed
    <3>2. m \in Nat
      BY <1>2, <2>2, ClientElim DEF FieldsTyped
    <3> HIDE DEF m
    <3>3. e \in GetworkClients /\ e.phase = gw.phase /\ e.posts = gw.posts
      BY <1>2, <3>2, EndpointsKeeps
    <3> HIDE DEF e
    <3>4. Served(e, disconnect(e), t)
      BY <1>2, <3>3, DisconnectServed
    <3>5. Served(gw, disconnect(e), t)
      BY <3>3, <3>4 DEF Served
    <3> QED BY <1>1, <1>4, <3>1, <3>5, ServedLeaves
  <2> QED BY <2>1, <2>2
<1>7. CASE ~gw.old
  <2>1. Leaves(c) \/ UsesConn(c)
    BY <1>7 DEF getwork_timer_elapsed
  <2>2. CASE gw.phase = "up"
    <3>1. Served(gw, c, t)
      BY <1>1, <1>2, <1>5, <2>2, SendUp
    <3> HIDE DEF c, t
    <3> QED BY <1>1, <2>1, <2>2, <3>1, ServedLeaves, ServedUses DEF t
  <2>3. CASE gw.phase = "down"
    <3>1. StaysDown(gw, c)
      BY <1>1, <1>2, SendDown
    <3>2. Faults \/ Leaves(c)
      BY <2>1, <2>3 DEF UsesConn
    <3> HIDE DEF c
    <3> QED BY <1>1, <2>3, <3>1, <3>2, DownLeaves, FaultsOK
  <2> QED BY <1>4, <2>2, <2>3
<1> QED BY <1>6, <1>7

\* A new client, which no handler is bound to, connects.
LEMMA ConnectOK ==
    ASSUME NEW q \in Seq(Handlers), \A i \in DOMAIN q : q[i].own => q[i].op = "rotate",
           NEW c \in connect(NewGetwork)
    PROVE  ClientOK(c, q) /\ c.posts = 0 /\ c.phase = "trying"
<1> DEFINE n == NewGetwork
           d == [n EXCEPT !.connecting = TRUE]
           e == [n EXCEPT !.connecting = TRUE, !.endpoints = 1]
<1>1. c = Begin(d, "resolve") \/ c = send(e, "getwork")
  BY DEF connect
<1>2. Shape(n)
  BY DEF Shape, Fields, NewGetwork
<1>3. /\ n.phase = "trying" /\ n.connecting = FALSE /\ n.connected = FALSE /\ n.endpoints = 0
      /\ n.txPending = FALSE /\ n.txQueue = <<>> /\ n.pending = None
      /\ n.ops = [op \in Ops |-> 0] /\ n.timer = FALSE /\ n.header = None /\ n.old = FALSE
      /\ n.posts = 0 /\ n.broken = FALSE
  BY DEF NewGetwork, Ops
<1> HIDE DEF n
<1>4. Shape(d) /\ Keeps(n, d, {"connecting"}) /\ d.connecting = TRUE
  BY <1>2 DEF Shape, Keeps, Fields
<1>5. Shape(e) /\ Keeps(n, e, {"connecting", "endpoints"}) /\ e.connecting = TRUE /\ e.endpoints = 1
  BY <1>2 DEF Shape, Keeps, Fields
<1> HIDE DEF d, e
<1>6. \A i \in DOMAIN q : ~Owns(q, i, Ops) /\ ~Owns(q, i, {"timer"})
  BY DEF Owns, Ops, SocketOps
<1>7. ASSUME NEW x, Shape(x), Keeps(n, x, {"connecting", "endpoints"}), x.connecting = TRUE,
             x.endpoints \in Nat
      PROVE  /\ x \in GetworkClients /\ PhaseOK(x) /\ x.phase = "trying" /\ ~x.txPending
             /\ x.posts = 0 /\ Idle(x, q) /\ NoTimer(x, q)
  <2>1. /\ x.phase = "trying" /\ x.connected = FALSE /\ x.txPending = FALSE /\ x.txQueue = <<>>
        /\ x.pending = None /\ x.ops = [op \in Ops |-> 0] /\ x.timer = FALSE /\ x.header = None
        /\ x.old = FALSE /\ x.posts = 0 /\ x.broken = FALSE
    BY <1>3, <1>7 DEF Keeps, Fields
  <2>2. <<>> \in Seq(Requests) /\ [op \in Ops |-> 0] \in [Ops -> Nat]
    OBVIOUS
  <2>3. x \in GetworkClients
    <3>1. x.txQueue \in Seq(Requests) /\ x.ops \in [Ops -> Nat]
      BY <2>1, <2>2
    <3>2. FieldsTyped(x)
      <4>1. /\ x.connecting \in BOOLEAN /\ x.connected \in BOOLEAN /\ x.txPending \in BOOLEAN
            /\ x.timer \in BOOLEAN /\ x.old \in BOOLEAN /\ x.broken \in BOOLEAN
        BY <1>7, <2>1, <3>1, Zenon
      <4>2. x.phase \in {"trying", "up", "down", "gone"} /\ x.endpoints \in Nat /\ x.posts \in Nat
            /\ x.pending \in Requests \cup {None} /\ x.header \in Headers \cup {None}
        BY <1>7, <2>1, <3>1
      <4> QED BY <3>1, <4>1, <4>2 DEF FieldsTyped
    <3> QED BY <1>7, <3>2, ClientIntro
  <2>4. PhaseOK(x)
    BY <1>7, <2>1 DEF PhaseOK
  <2>5. Idle(x, q) /\ NoTimer(x, q)
    BY <1>6, <2>1 DEF Idle, NoTimer
  <2> QED BY <2>1, <2>3, <2>4, <2>5
<1>8. CASE c = send(e, "getwork")
  <2>1. /\ e \in GetworkClients /\ PhaseOK(e) /\ e.phase = "trying" /\ ~e.txPending
        /\ e.posts = 0 /\ Idle(e, q) /\ NoTimer(e, q)
    <3>1. e.endpoints \in Nat
      BY <1>5
    <3> QED BY <1>5, <1>7, <3>1, Zenon
  <2>2. Served(e, c, q) /\ c.phase = "trying"
    BY <1>5, <1>8, <2>1, SendTrying
  <2> QED BY <2>1, <2>2 DEF Served
<1>9. CASE c = Begin(d, "resolve")
  <2>1. Keeps(n, d, {"connecting", "endpoints"}) /\ d.endpoints = 0
    BY <1>3, <1>4 DEF Keeps, Fields
  <2>2. /\ d \in GetworkClients /\ PhaseOK(d) /\ d.phase = "trying" /\ ~d.txPending
        /\ d.posts = 0 /\ Idle(d, q) /\ NoTimer(d, q)
    <3>1. d.endpoints \in Nat
      BY <2>1
    <3> QED BY <1>4, <1>7, <2>1, <3>1, Zenon
  <2>3. c \in GetworkClients /\ Alone(c, q, "resolve") /\ Keeps(d, c, {"ops"})
    BY <1>4, <1>9, <2>2, BeginTyped, BeginAlone, BeginIs DEF Ops
  <2>4. /\ c.phase = d.phase /\ c.connecting = d.connecting /\ c.connected = d.connected
        /\ c.txPending = d.txPending /\ c.timer = d.timer /\ c.posts = d.posts
    BY <2>3 DEF Keeps, Fields
  <2>5. Connects(c, q)
    BY <1>6, <2>2, <2>3, <2>4 DEF Connects, NoTimer
  <2>6. PhaseOK(c)
    BY <2>2, <2>4 DEF PhaseOK
  <2> QED BY <2>2, <2>3, <2>4, <2>5, <2>6 DEF ClientOK
<1> QED BY <1>1, <1>8, <1>9

\* A pool that was given up.
LEMMA GoneOK ==
    ASSUME NEW q \in Seq(Handlers), \A i \in DOMAIN q : q[i].own => q[i].op = "rotate"
    PROVE  LET c == [NewGetwork EXCEPT !.phase = "gone"]
           IN  ClientOK(c, q) /\ c.posts = 0 /\ c.phase = "gone"
<1> DEFINE n == NewGetwork
           c == [n EXCEPT !.phase = "gone"]
<1>1. Shape(n)
  BY DEF Shape, Fields, NewGetwork
<1>2. /\ n.connecting = FALSE /\ n.connected = FALSE /\ n.endpoints = 0
      /\ n.txPending = FALSE /\ n.txQueue = <<>> /\ n.pending = None
      /\ n.ops = [op \in Ops |-> 0] /\ n.timer = FALSE /\ n.header = None /\ n.old = FALSE
      /\ n.posts = 0 /\ n.broken = FALSE
  BY DEF NewGetwork, Ops
<1> HIDE DEF n
<1>3. Shape(c) /\ Keeps(n, c, {"phase"}) /\ c.phase = "gone"
  BY <1>1 DEF Shape, Keeps, Fields
<1> HIDE DEF c
<1>4. /\ c.connecting = FALSE /\ c.connected = FALSE /\ c.endpoints = 0
      /\ c.txPending = FALSE /\ c.txQueue = <<>> /\ c.pending = None
      /\ c.ops = [op \in Ops |-> 0] /\ c.timer = FALSE /\ c.header = None /\ c.old = FALSE
      /\ c.posts = 0 /\ c.broken = FALSE
  BY <1>2, <1>3 DEF Keeps, Fields
<1>5. <<>> \in Seq(Requests) /\ [op \in Ops |-> 0] \in [Ops -> Nat]
  OBVIOUS
<1>6. c \in GetworkClients
  <2>1. c.txQueue \in Seq(Requests) /\ c.ops \in [Ops -> Nat]
    BY <1>4, <1>5
  <2>2. FieldsTyped(c)
    <3>1. /\ c.connecting \in BOOLEAN /\ c.connected \in BOOLEAN /\ c.txPending \in BOOLEAN
          /\ c.timer \in BOOLEAN /\ c.old \in BOOLEAN /\ c.broken \in BOOLEAN
      BY <1>3, <1>4, <2>1, Zenon
    <3>2. c.phase \in {"trying", "up", "down", "gone"} /\ c.endpoints \in Nat /\ c.posts \in Nat
          /\ c.pending \in Requests \cup {None} /\ c.header \in Headers \cup {None}
      BY <1>3, <1>4, <2>1
    <3> QED BY <2>1, <3>1, <3>2 DEF FieldsTyped
  <2> QED BY <1>3, <2>2, ClientIntro
<1>7. \A i \in DOMAIN q : ~Owns(q, i, Ops) /\ ~Owns(q, i, {"timer"})
  BY DEF Owns, Ops, SocketOps
<1>8. Still(c, q) /\ PhaseOK(c)
  BY <1>3, <1>4, <1>7 DEF Still, Idle, PhaseOK
<1>9. ClientOK(c, q)
  BY <1>3, <1>6, <1>8 DEF ClientOK
<1> QED BY <1>3, <1>4, <1>9 DEF c, n

\* PoolManager::rotateConnect leaves a client that is connected, and replaces one that is not.
LEMMA RotateStep == ASSUME IInv, rotateConnect PROVE StepOK
<1> DEFINE t == Tail(gwQueue)
<1>1. Heads("rotate")
  BY RunsHeads DEF rotateConnect, IInv, ClientOK
<1>2. /\ gw \in GetworkClients /\ gwQueue \in Seq(Handlers) /\ PhaseOK(gw) /\ gw.posts = 0
      /\ gwQueue # <<>> /\ 1 \in DOMAIN gwQueue /\ t \in Seq(Handlers)
  BY <1>1, TailIs DEF IInv, ClientOK, Heads
<1>3. Owns(gwQueue, 1, {"rotate"}) /\ ~Owns(gwQueue, 1, Ops) /\ ~Owns(gwQueue, 1, {"timer"})
  BY <1>1 DEF Heads, Owns, Ops, SocketOps
<1>4. gw.phase \in {"trying", "up", "down"}
  BY <1>2, ClientElim DEF FieldsTyped, rotateConnect
<1>5. CASE gw.connected
  <2>1. gw' = gw /\ gwQueue' = t
    BY <1>5 DEF rotateConnect
  <2>2. gw.phase = "up"
    BY <1>2, <1>5 DEF PhaseOK
  <2>3. Flagged(gw, gwQueue) /\ Polls(gw, gwQueue)
    BY <2>2 DEF IInv, ClientOK
  <2>4. /\ Idle(gw, gwQueue) => Idle(gw, t)
        /\ \A op \in Ops : Alone(gw, gwQueue, op) => Alone(gw, t, op)
    BY <1>2, <1>3, TailOps DEF Ops
  <2>5. Flagged(gw, t)
    BY <2>3, <2>4 DEF Flagged, Ops
  <2>6. Waits(gw, gwQueue) => Waits(gw, t)
    BY <1>2, <1>3, TailWaits
  <2> HIDE DEF t
  <2>7. Polls(gw, t)
    BY <2>3, <2>4, <2>6 DEF Polls, Waits, Ops, SocketOps
  <2>8. ClientOK(gw, t)
    BY <1>2, <2>2, <2>5, <2>7 DEF ClientOK
  <2>9. IInv'
    BY <1>2, <2>1, <2>8 DEF IInv
  <2>10. View(gw, gwQueue) = "up" /\ View(gw, gwQueue)' = "up"
    BY <2>1, <2>2 DEF View
  <2> QED BY <2>9, <2>10 DEF StepOK, Moves
<1>6. CASE ~gw.connected
  <2> DEFINE q == [i \in 1..(Len(gwQueue) - 1) |->
                      [gwQueue[i + 1] EXCEPT !.own = gwQueue[i + 1].op = "rotate"]]
  <2>1. /\ gw' \in connect(NewGetwork) \cup {[NewGetwork EXCEPT !.phase = "gone"]}
        /\ gwQueue' = q
    BY <1>6 DEF rotateConnect
  <2>2. gw.phase \in {"trying", "down"}
    BY <1>2, <1>4, <1>6 DEF PhaseOK
  <2>3. View(gw, gwQueue) = "down"
    BY <1>2, <1>3, <2>2 DEF View
  <2>4. ASSUME NEW h \in Handlers, NEW b \in BOOLEAN
        PROVE  LET k == [h EXCEPT !.own = b] IN k \in Handlers /\ k.own = b /\ k.op = h.op
    BY DEF Handlers
  <2>5. ASSUME NEW i \in 1..(Len(gwQueue) - 1)
        PROVE  q[i] \in Handlers /\ (q[i].own => q[i].op = "rotate")
    <3> DEFINE h == gwQueue[i + 1]
               b == h.op = "rotate"
    <3>1. h \in Handlers
      BY <1>2, <2>5
    <3>2. q[i] = [h EXCEPT !.own = b]
      BY <2>5
    <3>3. b \in BOOLEAN
      BY Zenon
    <3> HIDE DEF q
    <3>4. q[i] \in Handlers /\ q[i].own = b /\ q[i].op = h.op
      BY <3>1, <3>2, <3>3, <2>4
    <3> QED BY <3>4
  <2>6. q \in Seq(Handlers)
    <3>1. Len(gwQueue) - 1 \in Nat
      BY <1>2
    <3>2. DOMAIN q = 1..(Len(gwQueue) - 1) /\ q = [i \in DOMAIN q |-> q[i]]
      OBVIOUS
    <3> HIDE DEF q
    <3> QED BY <2>5, <3>1, <3>2
  <2>7. DOMAIN q = 1..(Len(gwQueue) - 1)
    OBVIOUS
  <2> HIDE DEF q
  <2>8. /\ ClientOK(gw', q) /\ gw'.posts = 0 /\ gw'.phase \in {"trying", "gone"}
    <3>1. \A i \in DOMAIN q : q[i].own => q[i].op = "rotate"
      BY <2>5, <2>7
    <3>2. CASE gw' \in connect(NewGetwork)
      BY <2>6, <3>1, <3>2, ConnectOK
    <3>3. CASE gw' = [NewGetwork EXCEPT !.phase = "gone"]
      BY <2>6, <3>1, <3>3, GoneOK
    <3> QED BY <2>1, <3>2, <3>3
  <2>9. IInv'
    BY <2>1, <2>8 DEF IInv
  <2>10. View(gw, gwQueue)' \in {"trying", "down", "gone"}
    BY <2>8 DEF View
  <2> QED BY <2>3, <2>9, <2>10 DEF StepOK, Moves
<1> QED BY <1>5, <1>6

\* A handler goes to the end of the queue.
LEMMA AppendIs ==
    ASSUME NEW q \in Seq(Handlers), NEW h \in Handlers
    PROVE  LET a == Append(q, h)
               n == Len(q) + 1
           IN  /\ a \in Seq(Handlers) /\ n \in DOMAIN a /\ a[n] = h
               /\ \A i \in DOMAIN q : i \in DOMAIN a /\ a[i] = q[i] /\ i < n
               /\ \A i \in DOMAIN a : i = n \/ i \in DOMAIN q
OBVIOUS

\* A handler that is not of an operation is appended.
LEMMA AppendOps ==
    ASSUME NEW c, NEW q \in Seq(Handlers), NEW h \in Handlers, h.op \notin Ops, NEW op \in Ops
    PROVE  /\ Idle(c, q) => Idle(c, Append(q, h))
           /\ Alone(c, q, op) => Alone(c, Append(q, h), op)
<1> DEFINE a == Append(q, h)
           n == Len(q) + 1
<1>1. /\ a \in Seq(Handlers) /\ n \in DOMAIN a /\ a[n] = h
      /\ \A i \in DOMAIN q : i \in DOMAIN a /\ a[i] = q[i]
      /\ \A i \in DOMAIN a : i = n \/ i \in DOMAIN q
  BY AppendIs
<1> HIDE DEF a, n
<1>2. \A i \in DOMAIN q : \A S : Owns(a, i, S) <=> Owns(q, i, S)
  BY <1>1 DEF Owns
<1>3. ~Owns(a, n, Ops)
  BY <1>1 DEF Owns
<1>4. ASSUME \A i \in DOMAIN q : ~Owns(q, i, Ops) PROVE \A i \in DOMAIN a : ~Owns(a, i, Ops)
  BY <1>1, <1>2, <1>3, <1>4
<1>5. ASSUME NEW i \in DOMAIN q, Owns(q, i, {op}), \A j \in DOMAIN q : Owns(q, j, Ops) => j = i
      PROVE  \E k \in DOMAIN a : Owns(a, k, {op}) /\ \A j \in DOMAIN a : Owns(a, j, Ops) => j = k
  BY <1>1, <1>2, <1>3, <1>5
<1>6. Idle(c, q) => Idle(c, a)
  BY <1>4 DEF Idle
<1>7. Alone(c, q, op) => Alone(c, a, op)
  BY <1>4, <1>5 DEF Alone
<1> QED BY <1>6, <1>7 DEF a

\* What was to make the client poll still is.
LEMMA AppendWaits ==
    ASSUME NEW c, NEW q \in Seq(Handlers), NEW h \in Handlers, Waits(c, q)
    PROVE  Waits(c, Append(q, h))
<1>1. \A i \in DOMAIN q : i \in DOMAIN Append(q, h) /\ Append(q, h)[i] = q[i]
  BY AppendIs
<1> QED BY <1>1 DEF Waits, Owns

\* An operation that was pending completes: its handler is the one under way.
LEMMA CompleteAlone ==
    ASSUME NEW c \in GetworkClients, NEW d, NEW q \in Seq(Handlers), NEW op \in Ops, NEW o \in Ops,
           NEW h \in Handlers, h.op = op, h.own,
           Alone(c, q, o), c.ops[op] > 0, d.ops = [c.ops EXCEPT ![op] = @ - 1]
    PROVE  o = op /\ Alone(d, Append(q, h), op)
<1> DEFINE a == Append(q, h)
           n == Len(q) + 1
<1>1. /\ a \in Seq(Handlers) /\ n \in DOMAIN a /\ a[n] = h
      /\ \A i \in DOMAIN q : i \in DOMAIN a /\ a[i] = q[i]
      /\ \A i \in DOMAIN a : i = n \/ i \in DOMAIN q
  BY AppendIs
<1> HIDE DEF a, n
<1>2. c.ops \in [Ops -> Nat]
  BY ClientElim DEF FieldsTyped
<1>3. o = op
  BY <1>2 DEF Alone
<1>4. c.ops[op] = 1 /\ (\A i \in DOMAIN q : ~Owns(q, i, Ops)) /\ \A p \in Ops : p # op => c.ops[p] = 0
  BY <1>2, <1>3 DEF Alone
<1>5. d.ops[op] = 0 /\ \A p \in Ops : p # op => d.ops[p] = 0
  BY <1>2, <1>4
<1>6. Owns(a, n, {op})
  BY <1>1 DEF Owns
<1>7. \A j \in DOMAIN a : Owns(a, j, Ops) => j = n
  BY <1>1, <1>4 DEF Owns
<1> QED BY <1>1, <1>3, <1>5, <1>6, <1>7 DEF Alone, a

\* The client when an operation completes.
LEMMA CompletedIs ==
    ASSUME NEW c \in GetworkClients, NEW op \in Ops, c.ops[op] > 0
    PROVE  LET d == [c EXCEPT !.ops[op] = @ - 1]
           IN  /\ d \in GetworkClients
               /\ d.ops = [c.ops EXCEPT ![op] = @ - 1]
               /\ d.phase = c.phase /\ d.connecting = c.connecting /\ d.connected = c.connected
               /\ d.txPending = c.txPending /\ d.txQueue = c.txQueue /\ d.timer = c.timer
               /\ d.pending = c.pending /\ d.posts = c.posts /\ d.broken = c.broken
<1> DEFINE d == [c EXCEPT !.ops[op] = @ - 1]
<1>1. Shape(c) /\ FieldsTyped(c)
  BY ClientElim
<1>2. Shape(d) /\ Keeps(c, d, {"ops"}) /\ d.ops = [c.ops EXCEPT ![op] = @ - 1]
  BY <1>1 DEF Shape, Keeps, Fields
<1> HIDE DEF d
<1>3. /\ d.phase = c.phase /\ d.connecting = c.connecting /\ d.connected = c.connected
      /\ d.txPending = c.txPending /\ d.txQueue = c.txQueue /\ d.timer = c.timer
      /\ d.pending = c.pending /\ d.posts = c.posts /\ d.broken = c.broken
      /\ d.endpoints = c.endpoints /\ d.header = c.header /\ d.old = c.old
  BY <1>2 DEF Keeps, Fields
<1>4. d.ops \in [Ops -> Nat]
  BY <1>1, <1>2 DEF FieldsTyped
<1>5. d \in GetworkClients
  BY <1>1, <1>2, <1>3, <1>4, ClientIntro DEF FieldsTyped
<1> QED BY <1>2, <1>3, <1>5 DEF d

\* An operation completes.
LEMMA CompletesStep ==
    ASSUME IInv, NEW op \in DOMAIN gw.ops, Completes(op)
    PROVE  StepOK
<1>1. gw \in GetworkClients /\ gwQueue \in Seq(Handlers) /\ PhaseOK(gw) /\ gw.posts = 0
  BY DEF IInv, ClientOK
<1>2. op \in Ops
  BY <1>1, ClientElim DEF FieldsTyped
<1>3. PICK how \in Replies \cup {"ok", "failed"} : gwQueue' = Append(gwQueue, Handler(op, how))
  BY DEF Completes
<1> DEFINE h == Handler(op, how)
           n == Len(gwQueue) + 1
<1>4. h \in Handlers /\ h.op = op /\ h.own
  BY <1>2 DEF Handler, Handlers
<1>5. /\ gw' \in GetworkClients
      /\ gw'.ops = [gw.ops EXCEPT ![op] = @ - 1]
      /\ gw'.phase = gw.phase /\ gw'.connecting = gw.connecting /\ gw'.connected = gw.connected
      /\ gw'.txPending = gw.txPending /\ gw'.txQueue = gw.txQueue /\ gw'.timer = gw.timer
      /\ gw'.pending = gw.pending /\ gw'.posts = gw.posts /\ gw'.broken = gw.broken
  BY <1>1, <1>2, CompletedIs DEF Completes
<1> HIDE DEF h
<1>6. gwQueue' = Append(gwQueue, h) /\ gw.ops[op] > 0
  BY <1>3 DEF h, Completes
<1>7. /\ gwQueue' \in Seq(Handlers) /\ n \in DOMAIN gwQueue' /\ gwQueue'[n] = h
      /\ \A i \in DOMAIN gwQueue : i \in DOMAIN gwQueue' /\ gwQueue'[i] = gwQueue[i] /\ i < n
      /\ \A i \in DOMAIN gwQueue' : i = n \/ i \in DOMAIN gwQueue
  BY <1>1, <1>4, <1>6, AppendIs
<1> HIDE DEF n
<1>8. \A o \in Ops : Alone(gw, gwQueue, o) => o = op /\ Alone(gw', gwQueue', op)
  BY <1>1, <1>2, <1>4, <1>5, <1>6, CompleteAlone
<1>9. \A i \in DOMAIN gwQueue : \A S : Owns(gwQueue', i, S) <=> Owns(gwQueue, i, S)
  BY <1>7 DEF Owns
<1>10. ~Owns(gwQueue', n, {"timer"}) /\ ~Owns(gwQueue', n, {"rotate"})
  BY <1>2, <1>4, <1>7 DEF Owns, Ops, SocketOps
<1>11. PhaseOK(gw')
  BY <1>1, <1>5 DEF PhaseOK
<1>12. HasGetwork(gw') <=> HasGetwork(gw)
  BY <1>5 DEF HasGetwork
<1>13. ASSUME gw.phase = "trying" PROVE Connects(gw', gwQueue')
  <2>1. Connects(gw, gwQueue)
    BY <1>13 DEF IInv, ClientOK
  <2>2. ~gw'.timer /\ \A i \in DOMAIN gwQueue' : ~Owns(gwQueue', i, {"timer"})
    BY <1>5, <1>7, <1>9, <1>10, <2>1 DEF Connects
  <2>3. "connect" \in Ops /\ "resolve" \in Ops
    BY DEF Ops, SocketOps
  <2>4. gw'.txPending => Alone(gw', gwQueue', "connect") /\ (gw'.broken \/ HasGetwork(gw'))
    BY <1>5, <1>8, <1>12, <2>1, <2>3 DEF Connects
  <2>5. ~gw'.txPending => Alone(gw', gwQueue', "resolve")
    BY <1>5, <1>8, <2>1, <2>3 DEF Connects
  <2>6. ASSUME NEW i \in DOMAIN gwQueue', NEW j \in DOMAIN gwQueue',
               Owns(gwQueue', i, Ops), Owns(gwQueue', j, {"rotate"})
        PROVE  j < i
    <3>1. j \in DOMAIN gwQueue /\ Owns(gwQueue, j, {"rotate"})
      BY <1>7, <1>9, <1>10, <2>6
    <3>2. CASE i = n
      BY <1>7, <3>1, <3>2
    <3>3. CASE i \in DOMAIN gwQueue
      BY <1>9, <2>1, <2>6, <3>1, <3>3 DEF Connects
    <3> QED BY <1>7, <3>2, <3>3
  <2> QED BY <2>2, <2>4, <2>5, <2>6 DEF Connects
<1>14. ASSUME gw.phase = "up" PROVE Flagged(gw', gwQueue') /\ Polls(gw', gwQueue')
  <2>1. Flagged(gw, gwQueue) /\ Polls(gw, gwQueue)
    BY <1>14 DEF IInv, ClientOK
  <2>2. gw.txPending
    BY <1>2, <1>6, <2>1 DEF Flagged, Idle
  <2>3. PICK o \in SocketOps : Alone(gw, gwQueue, o)
    BY <2>1, <2>2 DEF Flagged
  <2>4. Flagged(gw', gwQueue')
    BY <1>5, <1>8, <2>2, <2>3 DEF Flagged, Ops
  <2>5. Polls(gw', gwQueue')
    <3>1. CASE Waits(gw, gwQueue)
      BY <1>5, <1>7, <1>9, <1>12, <3>1 DEF Waits, Polls
    <3>2. CASE ~Waits(gw, gwQueue)
      BY <1>5, <1>8, <2>1, <3>2 DEF Waits, Polls, Ops, SocketOps
    <3> QED BY <3>1, <3>2
  <2> QED BY <2>4, <2>5
<1>15. gw.phase # "gone"
  BY <1>2, <1>6 DEF IInv, ClientOK, Still, Idle
<1>16. IInv'
  <2>1. ClientOK(gw', gwQueue')
    BY <1>5, <1>7, <1>11, <1>13, <1>14, <1>15 DEF ClientOK
  <2> QED BY <1>1, <1>5, <2>1 DEF IInv
<1>17. View(gw, gwQueue)' = View(gw, gwQueue)
  BY <1>5, <1>7, <1>9, <1>10 DEF View
<1> QED BY <1>16, <1>17 DEF StepOK, Moves

\* The timer elapses: its handler is queued.
LEMMA ElapsesStep == ASSUME IInv, Elapses PROVE StepOK
<1> DEFINE h == Handler("timer", "ok")
           n == Len(gwQueue) + 1
<1>1. /\ gw \in GetworkClients /\ gwQueue \in Seq(Handlers) /\ PhaseOK(gw) /\ gw.posts = 0
      /\ gw.timer
  BY DEF IInv, ClientOK, Elapses
<1>2. Shape(gw) /\ FieldsTyped(gw)
  BY <1>1, ClientElim
<1>3. h \in Handlers /\ h.op = "timer" /\ h.own
  BY DEF Handler, Handlers
<1>4. gw' = [gw EXCEPT !.timer = FALSE] /\ gwQueue' = Append(gwQueue, h)
  BY DEF Elapses
<1>5. Shape(gw') /\ Keeps(gw, gw', {"timer"}) /\ gw'.timer = FALSE
  BY <1>2, <1>4 DEF Shape, Keeps, Fields
<1>6. /\ gw'.phase = gw.phase /\ gw'.connecting = gw.connecting /\ gw'.connected = gw.connected
      /\ gw'.txPending = gw.txPending /\ gw'.txQueue = gw.txQueue /\ gw'.ops = gw.ops
      /\ gw'.pending = gw.pending /\ gw'.posts = gw.posts /\ gw'.broken = gw.broken
      /\ gw'.endpoints = gw.endpoints /\ gw'.header = gw.header /\ gw'.old = gw.old
  BY <1>5 DEF Keeps, Fields
<1>7. gw' \in GetworkClients
  BY <1>2, <1>5, <1>6, ClientIntro DEF FieldsTyped
<1> HIDE DEF h
<1>8. gwQueue' \in Seq(Handlers) /\ n \in DOMAIN gwQueue' /\ gwQueue'[n] = h
  BY <1>1, <1>3, <1>4, AppendIs
<1>9. Owns(gwQueue', n, {"timer"})
  BY <1>3, <1>8 DEF Owns
<1>10. PhaseOK(gw')
  BY <1>1, <1>6 DEF PhaseOK
<1>11. gw.phase \in {"up", "down"}
  BY <1>1, <1>2 DEF IInv, ClientOK, Connects, Still, FieldsTyped
<1>12. ASSUME gw.phase = "up" PROVE Flagged(gw', gwQueue') /\ Polls(gw', gwQueue')
  <2>1. Flagged(gw, gwQueue)
    BY <1>12 DEF IInv, ClientOK
  <2>2. h.op \notin Ops
    BY <1>3 DEF Ops, SocketOps
  <2>3. \A op \in Ops : /\ Idle(gw, gwQueue) => Idle(gw, gwQueue')
                        /\ Alone(gw, gwQueue, op) => Alone(gw, gwQueue', op)
    BY <1>1, <1>3, <1>4, <2>2, AppendOps
  <2>4. /\ Idle(gw', gwQueue') <=> Idle(gw, gwQueue')
        /\ \A op : Alone(gw', gwQueue', op) <=> Alone(gw, gwQueue', op)
    BY <1>6, SameOps
  <2>5. Flagged(gw', gwQueue')
    BY <1>6, <2>1, <2>3, <2>4 DEF Flagged, Ops
  <2>6. Polls(gw', gwQueue')
    BY <1>8, <1>9 DEF Polls
  <2> QED BY <2>5, <2>6
<1>13. IInv'
  <2>1. ClientOK(gw', gwQueue')
    BY <1>6, <1>7, <1>8, <1>10, <1>11, <1>12 DEF ClientOK
  <2> QED BY <1>1, <1>6, <2>1 DEF IInv
<1>14. View(gw, gwQueue)' = View(gw, gwQueue)
  BY <1>6, <1>11 DEF View
<1> QED BY <1>13, <1>14 DEF StepOK, Moves

\* The job ages.
LEMMA AgesStep == ASSUME IInv, Ages PROVE StepOK
<1>1. gw \in GetworkClients /\ gwQueue \in Seq(Handlers) /\ PhaseOK(gw) /\ gw.posts = 0
      /\ gw.phase = "up"
  BY DEF IInv, ClientOK, Ages
<1>2. Shape(gw) /\ FieldsTyped(gw)
  BY <1>1, ClientElim
<1>3. gw' = [gw EXCEPT !.old = TRUE] /\ gwQueue' = gwQueue
  BY DEF Ages
<1>4. Shape(gw') /\ Keeps(gw, gw', {"old"}) /\ gw'.old = TRUE
  BY <1>2, <1>3 DEF Shape, Keeps, Fields
<1>5. /\ gw'.phase = gw.phase /\ gw'.connecting = gw.connecting /\ gw'.connected = gw.connected
      /\ gw'.txPending = gw.txPending /\ gw'.txQueue = gw.txQueue /\ gw'.ops = gw.ops
      /\ gw'.pending = gw.pending /\ gw'.posts = gw.posts /\ gw'.broken = gw.broken
      /\ gw'.endpoints = gw.endpoints /\ gw'.header = gw.header /\ gw'.timer = gw.timer
  BY <1>4 DEF Keeps, Fields
<1>6. gw' \in GetworkClients
  BY <1>2, <1>4, <1>5, ClientIntro DEF FieldsTyped
<1>7. /\ Idle(gw', gwQueue) <=> Idle(gw, gwQueue)
      /\ \A op : Alone(gw', gwQueue, op) <=> Alone(gw, gwQueue, op)
  BY <1>5, SameOps
<1>8. Flagged(gw, gwQueue) /\ Polls(gw, gwQueue)
  BY <1>1 DEF IInv, ClientOK
<1>9. Flagged(gw', gwQueue)
  BY <1>5, <1>7, <1>8 DEF Flagged
<1>10. Polls(gw', gwQueue)
  BY <1>5, <1>7, <1>8 DEF Polls, HasGetwork
<1>11. PhaseOK(gw')
  BY <1>1, <1>5 DEF PhaseOK
<1>12. ClientOK(gw', gwQueue)
  BY <1>1, <1>5, <1>6, <1>9, <1>10, <1>11 DEF ClientOK
<1>13. IInv'
  BY <1>1, <1>3, <1>5, <1>12 DEF IInv
<1>14. View(gw, gwQueue) = "up" /\ View(gw, gwQueue)' = "up"
  BY <1>1, <1>5 DEF View
<1> QED BY <1>13, <1>14 DEF StepOK, Moves

\* A submission is sent.
LEMMA SubmitStep == ASSUME IInv, submit PROVE StepOK
<1>1. /\ gw \in GetworkClients /\ gwQueue \in Seq(Handlers) /\ PhaseOK(gw) /\ gw.posts = 0
      /\ gw.connected
  BY DEF IInv, ClientOK, submit
<1>2. gw.phase = "up"
  BY <1>1 DEF PhaseOK
<1>3. Flagged(gw, gwQueue) /\ Polls(gw, gwQueue)
  BY <1>2 DEF IInv, ClientOK
<1>4. PICK r \in Requests : /\ gw' = [send(gw, r) EXCEPT !.posts = 0]
                            /\ gwQueue' = gwQueue \o Rotations(send(gw, r).posts)
  BY DEF submit, Rotations
<1> DEFINE c == send(gw, r)
<1>5. Served(gw, c, gwQueue)
  BY <1>1, <1>2, <1>3, SendUp
<1>6. gw' = [c EXCEPT !.posts = 0] /\ gwQueue' = gwQueue \o Rotations(c.posts)
  BY <1>4
<1> HIDE DEF c
<1>7. ClientOK(c, gwQueue) /\ c.phase \in {"up", "down"} /\ (c.phase # "down" => c.posts = 0)
  BY <1>1, <1>2, <1>5 DEF Served
<1>8. IInv' /\ gw'.phase = c.phase
  BY <1>6, <1>7, PostedOK
<1>9. View(gw, gwQueue) = "up" /\ View(gw, gwQueue)' = c.phase
  BY <1>2, <1>7, <1>8 DEF View
<1> QED BY <1>7, <1>8, <1>9 DEF StepOK, Moves

\* The PoolManager ends a connection.
LEMMA EndedStep == ASSUME IInv, Ended PROVE StepOK
<1> DEFINE c == disconnect(gw)
           h == Handler("rotate", "ok")
<1>1. /\ gw \in GetworkClients /\ gwQueue \in Seq(Handlers) /\ PhaseOK(gw)
      /\ gw.connected
  BY DEF IInv, ClientOK, Ended
<1>2. gw.phase = "up"
  BY <1>1 DEF PhaseOK
<1>3. c \in GetworkClients /\ c.phase = "down" /\ PhaseOK(c)
  BY <1>1, DisconnectOK
<1>4. gw' = [c EXCEPT !.posts = 0] /\ gwQueue' = Append(gwQueue, h)
  BY DEF Ended
<1>5. h \in Handlers
  BY DEF Handler, Handlers
<1> HIDE DEF c, h
<1>6. gwQueue' \in Seq(Handlers)
  BY <1>1, <1>4, <1>5
<1>7. ClientOK(c, gwQueue')
  BY <1>3, <1>6, DownIsOK
<1>8. gw'.posts = 0 /\ gw'.phase = "down" /\ ClientOK(gw', gwQueue')
  BY <1>3, <1>4, <1>7, PostsReset
<1>9. View(gw, gwQueue) = "up" /\ View(gw, gwQueue)' = "down"
  BY <1>2, <1>8 DEF View
<1> QED BY <1>8, <1>9 DEF StepOK, Moves, IInv

\* Every step of the getwork client.
LEMMA GetworkStep == ASSUME IInv, GetworkNext PROVE StepOK
<1>1. CASE handle_resolve BY <1>1, ResolveStep
<1>2. CASE handle_connect BY <1>2, ConnectStep
<1>3. CASE handle_write BY <1>3, WriteStep
<1>4. CASE handle_read BY <1>4, ReadStep
<1>5. CASE getwork_timer_elapsed BY <1>5, TimerStep
<1>6. CASE rotateConnect BY <1>6, RotateStep
<1>7. CASE Dangling BY <1>7, FaultsOK DEF Dangling
<1>8. CASE Elapses BY <1>8, ElapsesStep
<1>9. CASE Ages BY <1>9, AgesStep
<1>10. CASE submit BY <1>10, SubmitStep
<1>11. CASE Ended BY <1>11, EndedStep
<1>12. CASE \E op \in DOMAIN gw.ops : Completes(op) BY <1>12, CompletesStep
<1> QED BY <1>1, <1>2, <1>3, <1>4, <1>5, <1>6, <1>7, <1>8, <1>9, <1>10, <1>11, <1>12
        DEF GetworkNext, IoThread

-----------------------------------------------------------------------------
(* The theorems *)

\* The initial states of the clients satisfy the invariant.
LEMMA InitInvariant == Init => IInv
<1> SUFFICES ASSUME Init PROVE IInv
  OBVIOUS
<1>1. gw \in connect(NewGetwork) /\ gwQueue = <<>>
  BY DEF Init, GetworkInit
<1>2. gwQueue \in Seq(Handlers) /\ DOMAIN gwQueue = {}
  BY <1>1
<1> QED BY <1>1, <1>2, ConnectOK DEF IInv

\* The inductive invariant: the flags of the getwork client, the requests that wait, the
\* operations pending and the handlers queued agree, whatever the order of the handlers.
THEOREM ClientsInvariant == Spec => []IInv
<1>1. Init => IInv
  BY InitInvariant
<1>2. IInv /\ [Next]_vars => IInv'
  <2> SUFFICES ASSUME IInv, [Next]_vars PROVE IInv'
    OBVIOUS
  <2>1. CASE GetworkNext
    BY <2>1, GetworkStep DEF StepOK
  <2>2. CASE UNCHANGED gwVars
    BY <2>2, SameStep DEF StepOK, gwVars
  <2>3. GetworkNext \/ UNCHANGED gwVars
    BY DEF Next, vars
  <2> QED BY <2>1, <2>2, <2>3
<1> QED BY <1>1, <1>2, PTL DEF Spec

\* An operation that is alone is the one that is busy, and the only one.
LEMMA AloneBusy ==
    ASSUME NEW op \in Ops, gw \in GetworkClients, Alone(gw, gwQueue, op)
    PROVE  Busy(op) /\ gw.ops[op] <= 1 /\ \A o \in Ops : o # op => ~Busy(o) /\ gw.ops[o] <= 1
<1>1. gw.ops \in [Ops -> Nat]
  BY ClientElim DEF FieldsTyped
<1>2. Busy(op)
  BY <1>1 DEF Alone, Busy, Queued, Owns
<1>3. ASSUME NEW o \in Ops, o # op PROVE gw.ops[o] = 0 /\ Queued(o) = {}
  BY <1>1, <1>3 DEF Alone, Queued, Owns
<1> QED BY <1>1, <1>2, <1>3 DEF Alone, Busy

\* When the client is idle no operation is busy.
LEMMA IdleBusy ==
    ASSUME gw \in GetworkClients, Idle(gw, gwQueue), NEW op \in Ops
    PROVE  ~Busy(op) /\ gw.ops[op] <= 1
BY DEF Idle, Busy, Queued, Owns

\* m_txPending of a client that is up says whether a request is under way, and there is one
\* at most, for any number of addresses, jobs, waiting requests and queued handlers.
THEOREM RequestsOneAtATime == Spec => []OneRequestAtATime
<1>1. IInv => OneRequestAtATime
  <2> SUFFICES ASSUME IInv, gw.phase = "up"
               PROVE  /\ gw.txPending <=> \E op \in SocketOps : Busy(op)
                      /\ \A op, op2 \in SocketOps : Busy(op) /\ Busy(op2) => op = op2
                      /\ \A op \in SocketOps : gw.ops[op] <= 1
    BY DEF OneRequestAtATime
  <2>1. Flagged(gw, gwQueue) /\ gw \in GetworkClients /\ SocketOps \subseteq Ops
    BY DEF IInv, ClientOK, Ops
  <2>2. CASE gw.txPending
    <3>1. PICK op \in SocketOps : Alone(gw, gwQueue, op)
      BY <2>1, <2>2 DEF Flagged
    <3>2. Busy(op) /\ gw.ops[op] <= 1 /\ \A o \in Ops : o # op => ~Busy(o) /\ gw.ops[o] <= 1
      BY <2>1, <3>1, AloneBusy
    <3> QED BY <2>1, <2>2, <3>2
  <2>3. CASE ~gw.txPending
    <3>1. \A op \in Ops : ~Busy(op) /\ gw.ops[op] <= 1
      BY <2>1, <2>3, IdleBusy DEF Flagged
    <3> QED BY <2>1, <2>3, <3>1
  <2> QED BY <2>2, <2>3
<1> QED BY <1>1, ClientsInvariant, PTL

\* A client that is up, and that lost neither a request nor an answer, is polling.
THEOREM PollIsPending == Spec => []PollPending
<1>1. IInv => PollPending
  <2> SUFFICES ASSUME IInv, gw.phase = "up", ~gw.broken
               PROVE  \/ gw.timer \/ Queued("timer") # {}
                      \/ \E i \in DOMAIN gw.txQueue : gw.txQueue[i] = "getwork"
                      \/ gw.pending = "getwork" /\ (Busy("write") \/ Busy("read"))
    BY DEF PollPending
  <2>1. Polls(gw, gwQueue) /\ gw \in GetworkClients /\ "write" \in Ops /\ "read" \in Ops
    BY DEF IInv, ClientOK, Ops, SocketOps
  <2>2. /\ Alone(gw, gwQueue, "write") => Busy("write")
        /\ Alone(gw, gwQueue, "read") => Busy("read")
    BY <2>1, AloneBusy
  <2>3. ASSUME NEW i \in DOMAIN gwQueue, Owns(gwQueue, i, {"timer"}) PROVE Queued("timer") # {}
    BY <2>3 DEF Queued, Owns
  <2> QED BY <2>1, <2>2, <2>3 DEF Polls, HasGetwork
<1> QED BY <1>1, ClientsInvariant, PTL

-----------------------------------------------------------------------------
(* Either client is a PoolClient *)

\* What the PoolManager sees of the getwork client.
LEMMA PhaseIsView == kind = "getwork" => phase = View(gw, gwQueue)
<1>1. Queued("rotate") # {} <=> \E i \in DOMAIN gwQueue : Owns(gwQueue, i, {"rotate"})
  BY DEF Queued, Owns
<1> QED BY <1>1 DEF phase, View

\* A move of the phase is a step of PoolClient.
LEMMA MovesAreSteps == ASSUME Moves(phase, phase') PROVE [PC!Next]_phase
BY DEF Moves, PC!Next, PC!Step, PC!Link, PC!Retry, PC!Login, PC!Open, PC!Close, PC!Fail,
       PC!Replace, PC!GiveUp

Simulations == [
    phase : {"trying", "up", "down", "gone"}, session : BOOLEAN,
    loop : {"idle", "starts", "samples", "ended"}, job : BOOLEAN]

\* A new simulation.
LEMMA NewSimulateIs ==
    /\ NewSimulate \in Simulations /\ NewSimulate.phase = "trying"
    /\ [NewSimulate EXCEPT !.phase = "gone"] \in Simulations
    /\ [NewSimulate EXCEPT !.phase = "gone"].phase = "gone"
<1>1. NewSimulate \in Simulations /\ NewSimulate.phase = "trying"
  BY DEF NewSimulate, Simulations
<1> QED BY <1>1 DEF Simulations

\* A step of the simulation moves its phase as PoolClient says.
LEMMA SimulateStep ==
    ASSUME sim \in Simulations, SimulateNext
    PROVE  sim' \in Simulations /\ Moves(sim.phase, sim'.phase)
<1>1. CASE sim_connect
  <2>1. sim' \in Simulations /\ sim'.phase = "up" /\ sim.phase = "trying"
    BY <1>1 DEF sim_connect, Simulations
  <2> QED BY <2>1 DEF Moves
<1>2. CASE sim_disconnect
  <2>1. sim' \in Simulations /\ sim'.phase = "down" /\ sim.phase = "up"
    BY <1>2 DEF sim_disconnect, Simulations
  <2> QED BY <2>1 DEF Moves
<1>3. CASE sim_work
  <2>1. sim' \in Simulations /\ sim'.phase = sim.phase
    BY <1>3 DEF sim_work, Simulations
  <2> QED BY <2>1 DEF Moves
<1>4. CASE sim_sample
  <2>1. sim' \in Simulations /\ sim'.phase = sim.phase
    BY <1>4 DEF sim_sample, Simulations
  <2> QED BY <2>1 DEF Moves
<1>5. CASE sim_rotate
  <2>1. sim.phase = "down" /\ sim' \in Simulations /\ sim'.phase \in {"trying", "gone"}
    BY <1>5, NewSimulateIs DEF sim_rotate
  <2> QED BY <2>1 DEF Moves
<1> QED BY <1>1, <1>2, <1>3, <1>4, <1>5 DEF SimulateNext

\* Either client is what the PoolManager relies on: it opens, it is up until it calls
\* onDisconnected, and only a rotation replaces it or gives it up.
THEOREM PoolClientRefinement == Spec => ImplementsPoolClient
<1> DEFINE Inv == IInv /\ sim \in Simulations /\ kind \in {"getwork", "simulate"}
<1>1. Init => IInv /\ sim \in Simulations /\ kind \in {"getwork", "simulate"}
  BY InitInvariant, NewSimulateIs DEF Init, SimulateInit
<1>2. Init => PC!Init
  <2> SUFFICES ASSUME Init PROVE phase = "trying"
    BY DEF PC!Init
  <2>1. sim.phase = "trying" /\ gwQueue = <<>> /\ kind \in {"getwork", "simulate"}
    BY NewSimulateIs DEF Init, SimulateInit, GetworkInit
  <2>2. gw.phase = "trying"
    <3>1. gw \in connect(NewGetwork)
      BY DEF Init, GetworkInit
    <3>2. <<>> \in Seq(Handlers) /\ DOMAIN <<>> = {}
      OBVIOUS
    <3> QED BY <2>1, <3>1, <3>2, ConnectOK
  <2>3. Queued("rotate") = {}
    BY <2>1 DEF Queued
  <2> QED BY <2>1, <2>2, <2>3 DEF phase
<1>3. Inv /\ [Next]_vars => Inv' /\ [PC!Next]_phase
  <2> SUFFICES ASSUME IInv, sim \in Simulations, kind \in {"getwork", "simulate"}, [Next]_vars
               PROVE  Inv' /\ [PC!Next]_phase
    OBVIOUS
  <2>1. CASE kind = "getwork" /\ GetworkNext /\ UNCHANGED <<kind, sim>>
    <3>1. StepOK
      BY <2>1, GetworkStep
    <3>2. phase = View(gw, gwQueue) /\ phase' = View(gw, gwQueue)'
      <4>1. phase = View(gw, gwQueue)
        BY <2>1, PhaseIsView
      <4>2. kind' = "getwork"
        BY <2>1
      <4>3. (kind = "getwork" => phase = View(gw, gwQueue))'
        BY PhaseIsView, PTL
      <4> QED BY <4>1, <4>2, <4>3
    <3>3. [PC!Next]_phase
      BY <3>1, <3>2, MovesAreSteps DEF StepOK
    <3> QED BY <2>1, <3>1, <3>3 DEF StepOK
  <2>2. CASE kind = "simulate" /\ SimulateNext /\ UNCHANGED <<kind, gwVars>>
    <3>1. sim' \in Simulations /\ Moves(sim.phase, sim'.phase)
      BY <2>2, SimulateStep
    <3>2. phase = sim.phase /\ phase' = sim'.phase
      BY <2>2 DEF phase
    <3>3. [PC!Next]_phase
      BY <3>1, <3>2, MovesAreSteps
    <3>4. IInv'
      BY <2>2, SameStep DEF StepOK, gwVars
    <3> QED BY <2>2, <3>1, <3>3, <3>4
  <2>3. CASE UNCHANGED vars
    <3>1. gw' = gw /\ gwQueue' = gwQueue /\ sim' = sim /\ kind' = kind
      BY <2>3 DEF vars, gwVars
    <3>2. IInv'
      BY <3>1, SameStep DEF StepOK
    <3>3. phase' = phase
      BY <3>1 DEF phase, Queued
    <3> QED BY <3>1, <3>2, <3>3
  <2> QED BY <2>1, <2>2, <2>3 DEF Next
<1> QED BY <1>1, <1>2, <1>3, PTL DEF Spec, ImplementsPoolClient, PC!Spec

=============================================================================
