----------------------- MODULE EthStratumClientProofs -----------------------
(***************************************************************************)
(* What the network and the owner do to the stratum client keeps the       *)
(* invariant of EthStratumClientInvariant too, so that it always holds.    *)
(* From it follows what the PoolManager may rely on: with an explicit      *)
(* scheme the client is a PoolClient, its reads and writes do not overlap, *)
(* it is rotated once, and what the pool owes is timed.                    *)
(***************************************************************************)
EXTENDS EthStratumClientInvariant
\* Most leaves are first-order; the others cite SMT.
USE Zenon

-----------------------------------------------------------------------------
(* Every step keeps the invariant: the network and the owner *)

\* The resolver answers.
LEMMA ResolveCompleted ==
    ASSUME NEW c, ClientOK(c), NEW q \in Seq(Handlers), NEW busy, NEW told, NEW u,
           Core(c, q, busy, told, u), c.ops["resolve"] > 0, NEW h \in {"resolve_ok", "resolve_err"}
    PROVE  LET d == Done(c, "resolve")
           IN  /\ ClientOK(d) /\ Keeps(c, d, {"ops"})
               /\ q \o <<h>> \in Seq(Handlers) /\ Core(d, q \o <<h>>, busy, told, u)
<1> DEFINE d == Done(c, "resolve")
           p == q \o <<h>>
<1> SUFFICES ClientOK(d) /\ Keeps(c, d, {"ops"}) /\ p \in Seq(Handlers) /\ Core(d, p, busy, told, u)
  OBVIOUS
<1>1. h \in Handlers /\ h \notin Starts /\ h \notin Connects /\ h \notin Reads /\ h \notin Writes /\ h \notin Timeouts /\ h \notin Discs /\ h \notin Shuts /\ h \notin Closes /\ h \notin Finals /\ h \notin Rotates
  BY Members, AreHandlers
<1>2. /\ p \in Seq(Handlers)
      /\ \A S : NoneIn(p, S) <=> NoneIn(q, S) /\ h \notin S
      /\ \A S : Once(q, S) /\ (NoneIn(q, S) \/ h \notin S) => Once(p, S)
      /\ \A A, B : NoneBehind(q, A, B) /\ (NoneIn(q, A) \/ h \notin B) => NoneBehind(p, A, B)
  BY <1>1, Appended
<1>3. ClientOK(d) /\ Keeps(c, d, {"ops"}) /\ d.ops = [c.ops EXCEPT !["resolve"] = @ - 1]
  BY DoneIs DEF Ops
<1> HIDE DEF d, p
<1>4. /\ d.conn = c.conn /\ d.connecting = c.connecting /\ d.disconnecting = c.disconnecting
      /\ d.connected = c.connected /\ d.socket = c.socket /\ d.txPending = c.txPending
      /\ c.ops["resolve"] = 1 /\ d.ops["resolve"] = 0
      /\ \A o \in Ops \ {"resolve"} : d.ops[o] = c.ops[o]
      /\ NoneIn(q, Early)
  <2>1. c.ops \in [Ops -> Nat]
    BY DEF ClientOK
  <2>2. /\ d.conn = c.conn /\ d.connecting = c.connecting /\ d.disconnecting = c.disconnecting
        /\ d.connected = c.connected /\ d.socket = c.socket /\ d.txPending = c.txPending
    BY <1>3 DEF Keeps, Fields
  <2>3. c.ops["resolve"] = 1
    BY SMT DEF Core, OpsOK, AtMostOne
  <2>4. d.ops["resolve"] = 0 /\ \A o \in Ops \ {"resolve"} : d.ops[o] = c.ops[o]
    BY SMT, <1>3, <2>1, <2>3 DEF Ops
  <2>5. NoneIn(q, Early)
    BY <2>3 DEF Core, OpsOK, AtMostOne, EarlyOK, ConnectingOK, UnlinkedOK, LinkedOK, ClosingOK, Nothing
  <2> QED BY <2>2, <2>3, <2>4, <2>5
<1>12. /\ d.ops["connect"] = c.ops["connect"] /\ d.ops["read"] = c.ops["read"] /\ d.ops["write"] = c.ops["write"] /\ d.ops["shutdown"] = c.ops["shutdown"]
  BY <1>4 DEF Ops
<1>5. OpsOK(d, p, busy)
  BY SMTT(30), <1>1, <1>2, <1>4, <1>12 DEF Core, OpsOK, AtMostOne, Nothing
<1>6. EarlyOK(d, p, busy, told)
  BY SMT, <1>1, <1>2, <1>4, <1>12 DEF Core, EarlyOK, Nothing, Calm
<1>7. ConnectingOK(d, p, busy)
  BY <1>1, <1>2, <1>4, <1>12 DEF Core, ConnectingOK, Nothing
<1>8. LinkedOK(d, p) /\ UnlinkedOK(d, p)
  BY <1>1, <1>2, <1>4, <1>12 DEF Core, LinkedOK, UnlinkedOK, Nothing
<1>9. ClosingOK(d, p, busy, u.secure)
  BY <1>1, <1>2, <1>4, <1>12 DEF Core, ClosingOK, Nothing
<1>10. QuietOK(d, p, busy, told, u)
  BY <1>1, <1>2, <1>4, <1>12 DEF Core, QuietOK, Calm
<1>11. OwnerOK(d, p, told)
  BY <1>1, <1>2, <1>4, <1>12 DEF Core, OwnerOK
<1> QED BY <1>2, <1>3, <1>5, <1>6, <1>7, <1>8, <1>9, <1>10, <1>11 DEF Core

\* The peer accepts the connection, or does not.
LEMMA ConnectCompleted ==
    ASSUME NEW c, ClientOK(c), NEW q \in Seq(Handlers), NEW busy, NEW told, NEW u,
           Core(c, q, busy, told, u), c.ops["connect"] > 0, NEW h \in {"connect_ok", "connect_err"}
    PROVE  LET d == Done(c, "connect")
           IN  /\ ClientOK(d) /\ Keeps(c, d, {"ops"})
               /\ q \o <<h>> \in Seq(Handlers) /\ Core(d, q \o <<h>>, busy, told, u)
<1> DEFINE d == Done(c, "connect")
           p == q \o <<h>>
<1> SUFFICES ClientOK(d) /\ Keeps(c, d, {"ops"}) /\ p \in Seq(Handlers) /\ Core(d, p, busy, told, u)
  OBVIOUS
<1>1. h \in Handlers /\ h \notin Early /\ h \notin Starts /\ h \notin Reads /\ h \notin Writes /\ h \notin Timeouts /\ h \notin Discs /\ h \notin Shuts /\ h \notin Closes /\ h \notin Finals /\ h \notin Rotates
  BY Members, AreHandlers
<1>2. /\ p \in Seq(Handlers)
      /\ \A S : NoneIn(p, S) <=> NoneIn(q, S) /\ h \notin S
      /\ \A S : Once(q, S) /\ (NoneIn(q, S) \/ h \notin S) => Once(p, S)
      /\ \A A, B : NoneBehind(q, A, B) /\ (NoneIn(q, A) \/ h \notin B) => NoneBehind(p, A, B)
  BY <1>1, Appended
<1>3. ClientOK(d) /\ Keeps(c, d, {"ops"}) /\ d.ops = [c.ops EXCEPT !["connect"] = @ - 1]
  BY DoneIs DEF Ops
<1> HIDE DEF d, p
<1>4. /\ d.conn = c.conn /\ d.connecting = c.connecting /\ d.disconnecting = c.disconnecting
      /\ d.connected = c.connected /\ d.socket = c.socket /\ d.txPending = c.txPending
      /\ c.ops["connect"] = 1 /\ d.ops["connect"] = 0
      /\ \A o \in Ops \ {"connect"} : d.ops[o] = c.ops[o]
      /\ NoneIn(q, Connects) /\ c.connecting
  <2>1. c.ops \in [Ops -> Nat]
    BY DEF ClientOK
  <2>2. /\ d.conn = c.conn /\ d.connecting = c.connecting /\ d.disconnecting = c.disconnecting
        /\ d.connected = c.connected /\ d.socket = c.socket /\ d.txPending = c.txPending
    BY <1>3 DEF Keeps, Fields
  <2>3. c.ops["connect"] = 1
    BY SMT DEF Core, OpsOK, AtMostOne
  <2>4. d.ops["connect"] = 0 /\ \A o \in Ops \ {"connect"} : d.ops[o] = c.ops[o]
    BY SMT, <1>3, <2>1, <2>3 DEF Ops
  <2>5. NoneIn(q, Connects) /\ c.connecting
    BY SMT, <2>3 DEF Core, OpsOK, AtMostOne, EarlyOK, ConnectingOK, UnlinkedOK, LinkedOK, ClosingOK, Nothing
  <2> QED BY <2>2, <2>3, <2>4, <2>5
<1>12. /\ d.ops["resolve"] = c.ops["resolve"] /\ d.ops["read"] = c.ops["read"] /\ d.ops["write"] = c.ops["write"] /\ d.ops["shutdown"] = c.ops["shutdown"]
  BY <1>4 DEF Ops
<1>5. OpsOK(d, p, busy)
  BY SMT, <1>1, <1>2, <1>4, <1>12 DEF Core, OpsOK, AtMostOne, Nothing
<1>6. EarlyOK(d, p, busy, told)
  BY <1>1, <1>2, <1>4, <1>12 DEF Core, EarlyOK, Nothing, Calm
<1>7. ConnectingOK(d, p, busy)
  BY <1>1, <1>2, <1>4, <1>12 DEF Core, ConnectingOK, Nothing
<1>8. LinkedOK(d, p) /\ UnlinkedOK(d, p)
  BY <1>1, <1>2, <1>4, <1>12 DEF Core, LinkedOK, UnlinkedOK, Nothing
<1>9. ClosingOK(d, p, busy, u.secure)
  BY <1>1, <1>2, <1>4, <1>12 DEF Core, ClosingOK, Nothing
<1>10. QuietOK(d, p, busy, told, u)
  BY <1>1, <1>2, <1>4, <1>12 DEF Core, QuietOK, Calm
<1>11. OwnerOK(d, p, told)
  BY <1>1, <1>2, <1>4, <1>12 DEF Core, OwnerOK
<1> QED BY <1>2, <1>3, <1>5, <1>6, <1>7, <1>8, <1>9, <1>10, <1>11 DEF Core

\* Data are received, or the connection is lost.
LEMMA ReadCompleted ==
    ASSUME NEW c, ClientOK(c), NEW q \in Seq(Handlers), NEW busy, NEW told, NEW u,
           Core(c, q, busy, told, u), c.ops["read"] > 0, NEW h \in {"read", "read_err"}
    PROVE  LET d == Done(c, "read")
           IN  /\ ClientOK(d) /\ Keeps(c, d, {"ops"})
               /\ q \o <<h>> \in Seq(Handlers) /\ Core(d, q \o <<h>>, busy, told, u)
<1> DEFINE d == Done(c, "read")
           p == q \o <<h>>
<1> SUFFICES ClientOK(d) /\ Keeps(c, d, {"ops"}) /\ p \in Seq(Handlers) /\ Core(d, p, busy, told, u)
  OBVIOUS
<1>1. h \in Handlers /\ h \notin Early /\ h \notin Starts /\ h \notin Connects /\ h \notin Writes /\ h \notin Timeouts /\ h \notin Discs /\ h \notin Shuts /\ h \notin Closes /\ h \notin Finals /\ h \notin Rotates
  BY Members, AreHandlers
<1>2. /\ p \in Seq(Handlers)
      /\ \A S : NoneIn(p, S) <=> NoneIn(q, S) /\ h \notin S
      /\ \A S : Once(q, S) /\ (NoneIn(q, S) \/ h \notin S) => Once(p, S)
      /\ \A A, B : NoneBehind(q, A, B) /\ (NoneIn(q, A) \/ h \notin B) => NoneBehind(p, A, B)
  BY <1>1, Appended
<1>3. ClientOK(d) /\ Keeps(c, d, {"ops"}) /\ d.ops = [c.ops EXCEPT !["read"] = @ - 1]
  BY DoneIs DEF Ops
<1> HIDE DEF d, p
<1>4. /\ d.conn = c.conn /\ d.connecting = c.connecting /\ d.disconnecting = c.disconnecting
      /\ d.connected = c.connected /\ d.socket = c.socket /\ d.txPending = c.txPending
      /\ c.ops["read"] = 1 /\ d.ops["read"] = 0
      /\ \A o \in Ops \ {"read"} : d.ops[o] = c.ops[o]
      /\ NoneIn(q, Reads) /\ c.connected /\ ~c.connecting /\ ~c.disconnecting
  <2>1. c.ops \in [Ops -> Nat]
    BY DEF ClientOK
  <2>2. /\ d.conn = c.conn /\ d.connecting = c.connecting /\ d.disconnecting = c.disconnecting
        /\ d.connected = c.connected /\ d.socket = c.socket /\ d.txPending = c.txPending
    BY <1>3 DEF Keeps, Fields
  <2>3. c.ops["read"] = 1
    BY SMT DEF Core, OpsOK, AtMostOne
  <2>4. d.ops["read"] = 0 /\ \A o \in Ops \ {"read"} : d.ops[o] = c.ops[o]
    BY SMTT(30), <1>3, <2>1, <2>3 DEF Ops
  <2>5. NoneIn(q, Reads) /\ c.connected /\ ~c.connecting /\ ~c.disconnecting
    BY SMT, <2>3 DEF Core, OpsOK, AtMostOne, EarlyOK, ConnectingOK, UnlinkedOK, LinkedOK, ClosingOK, Nothing
  <2> QED BY <2>2, <2>3, <2>4, <2>5
<1>12. /\ d.ops["resolve"] = c.ops["resolve"] /\ d.ops["connect"] = c.ops["connect"] /\ d.ops["write"] = c.ops["write"] /\ d.ops["shutdown"] = c.ops["shutdown"]
  BY <1>4 DEF Ops
<1>5. OpsOK(d, p, busy)
  BY SMT, <1>1, <1>2, <1>4, <1>12 DEF Core, OpsOK, AtMostOne, Nothing
<1>6. EarlyOK(d, p, busy, told)
  BY <1>1, <1>2, <1>4, <1>12 DEF Core, EarlyOK, Nothing, Calm
<1>7. ConnectingOK(d, p, busy)
  BY <1>1, <1>2, <1>4, <1>12 DEF Core, ConnectingOK, Nothing
<1>8. LinkedOK(d, p) /\ UnlinkedOK(d, p)
  BY <1>1, <1>2, <1>4, <1>12 DEF Core, LinkedOK, UnlinkedOK, Nothing
<1>9. ClosingOK(d, p, busy, u.secure)
  BY <1>1, <1>2, <1>4, <1>12 DEF Core, ClosingOK, Nothing
<1>10. QuietOK(d, p, busy, told, u)
  BY <1>1, <1>2, <1>4, <1>12 DEF Core, QuietOK, Calm
<1>11. OwnerOK(d, p, told)
  BY <1>1, <1>2, <1>4, <1>12 DEF Core, OwnerOK
<1> QED BY <1>2, <1>3, <1>5, <1>6, <1>7, <1>8, <1>9, <1>10, <1>11 DEF Core

\* Data are sent, or the connection is lost.
LEMMA WriteCompleted ==
    ASSUME NEW c, ClientOK(c), NEW q \in Seq(Handlers), NEW busy, NEW told, NEW u,
           Core(c, q, busy, told, u), c.ops["write"] > 0, NEW h \in {"write_ok", "write_err"}
    PROVE  LET d == Done(c, "write")
           IN  /\ ClientOK(d) /\ Keeps(c, d, {"ops"})
               /\ q \o <<h>> \in Seq(Handlers) /\ Core(d, q \o <<h>>, busy, told, u)
<1> DEFINE d == Done(c, "write")
           p == q \o <<h>>
<1> SUFFICES ClientOK(d) /\ Keeps(c, d, {"ops"}) /\ p \in Seq(Handlers) /\ Core(d, p, busy, told, u)
  OBVIOUS
<1>1. h \in Handlers /\ h \notin Early /\ h \notin Starts /\ h \notin Connects /\ h \notin Reads /\ h \notin Timeouts /\ h \notin Discs /\ h \notin Shuts /\ h \notin Closes /\ h \notin Finals /\ h \notin Rotates
  BY Members, AreHandlers
<1>2. /\ p \in Seq(Handlers)
      /\ \A S : NoneIn(p, S) <=> NoneIn(q, S) /\ h \notin S
      /\ \A S : Once(q, S) /\ (NoneIn(q, S) \/ h \notin S) => Once(p, S)
      /\ \A A, B : NoneBehind(q, A, B) /\ (NoneIn(q, A) \/ h \notin B) => NoneBehind(p, A, B)
  BY <1>1, Appended
<1>3. ClientOK(d) /\ Keeps(c, d, {"ops"}) /\ d.ops = [c.ops EXCEPT !["write"] = @ - 1]
  BY DoneIs DEF Ops
<1> HIDE DEF d, p
<1>4. /\ d.conn = c.conn /\ d.connecting = c.connecting /\ d.disconnecting = c.disconnecting
      /\ d.connected = c.connected /\ d.socket = c.socket /\ d.txPending = c.txPending
      /\ c.ops["write"] = 1 /\ d.ops["write"] = 0
      /\ \A o \in Ops \ {"write"} : d.ops[o] = c.ops[o]
      /\ NoneIn(q, Writes) /\ c.connected /\ ~c.connecting /\ ~c.disconnecting /\ c.txPending
  <2>1. c.ops \in [Ops -> Nat]
    BY DEF ClientOK
  <2>2. /\ d.conn = c.conn /\ d.connecting = c.connecting /\ d.disconnecting = c.disconnecting
        /\ d.connected = c.connected /\ d.socket = c.socket /\ d.txPending = c.txPending
    BY <1>3 DEF Keeps, Fields
  <2>3. c.ops["write"] = 1
    BY SMT DEF Core, OpsOK, AtMostOne
  <2>4. d.ops["write"] = 0 /\ \A o \in Ops \ {"write"} : d.ops[o] = c.ops[o]
    BY SMTT(30), <1>3, <2>1, <2>3 DEF Ops
  <2>5. NoneIn(q, Writes) /\ c.connected /\ ~c.connecting /\ ~c.disconnecting /\ c.txPending
    BY SMT, <2>3 DEF Core, OpsOK, AtMostOne, EarlyOK, ConnectingOK, UnlinkedOK, LinkedOK, ClosingOK, Nothing
  <2> QED BY <2>2, <2>3, <2>4, <2>5
<1>12. /\ d.ops["resolve"] = c.ops["resolve"] /\ d.ops["connect"] = c.ops["connect"] /\ d.ops["read"] = c.ops["read"] /\ d.ops["shutdown"] = c.ops["shutdown"]
  BY <1>4 DEF Ops
<1>5. OpsOK(d, p, busy)
  BY SMT, <1>1, <1>2, <1>4, <1>12 DEF Core, OpsOK, AtMostOne, Nothing
<1>6. EarlyOK(d, p, busy, told)
  BY <1>1, <1>2, <1>4, <1>12 DEF Core, EarlyOK, Nothing, Calm
<1>7. ConnectingOK(d, p, busy)
  BY <1>1, <1>2, <1>4, <1>12 DEF Core, ConnectingOK, Nothing
<1>8. LinkedOK(d, p) /\ UnlinkedOK(d, p)
  BY <1>1, <1>2, <1>4, <1>12 DEF Core, LinkedOK, UnlinkedOK, Nothing
<1>9. ClosingOK(d, p, busy, u.secure)
  BY <1>1, <1>2, <1>4, <1>12 DEF Core, ClosingOK, Nothing
<1>10. QuietOK(d, p, busy, told, u)
  BY <1>1, <1>2, <1>4, <1>12 DEF Core, QuietOK, Calm
<1>11. OwnerOK(d, p, told)
  BY <1>1, <1>2, <1>4, <1>12 DEF Core, OwnerOK
<1> QED BY <1>2, <1>3, <1>5, <1>6, <1>7, <1>8, <1>9, <1>10, <1>11 DEF Core

\* The TLS stream is shut down.
LEMMA ShutdownCompleted ==
    ASSUME NEW c, ClientOK(c), NEW q \in Seq(Handlers), NEW busy, NEW told, NEW u,
           Core(c, q, busy, told, u), c.ops["shutdown"] > 0, NEW h \in {"shutdown"}
    PROVE  LET d == Done(c, "shutdown")
           IN  /\ ClientOK(d) /\ Keeps(c, d, {"ops"})
               /\ q \o <<h>> \in Seq(Handlers) /\ Core(d, q \o <<h>>, busy, told, u)
<1> DEFINE d == Done(c, "shutdown")
           p == q \o <<h>>
<1> SUFFICES ClientOK(d) /\ Keeps(c, d, {"ops"}) /\ p \in Seq(Handlers) /\ Core(d, p, busy, told, u)
  OBVIOUS
<1>1. h \in Handlers /\ h \notin Early /\ h \notin Starts /\ h \notin Connects /\ h \notin Reads /\ h \notin Writes /\ h \notin Timeouts /\ h \notin Discs /\ h \notin Finals /\ h \notin Rotates
  BY Members, AreHandlers
<1>2. /\ p \in Seq(Handlers)
      /\ \A S : NoneIn(p, S) <=> NoneIn(q, S) /\ h \notin S
      /\ \A S : Once(q, S) /\ (NoneIn(q, S) \/ h \notin S) => Once(p, S)
      /\ \A A, B : NoneBehind(q, A, B) /\ (NoneIn(q, A) \/ h \notin B) => NoneBehind(p, A, B)
  BY <1>1, Appended
<1>3. ClientOK(d) /\ Keeps(c, d, {"ops"}) /\ d.ops = [c.ops EXCEPT !["shutdown"] = @ - 1]
  BY DoneIs DEF Ops
<1> HIDE DEF d, p
<1>4. /\ d.conn = c.conn /\ d.connecting = c.connecting /\ d.disconnecting = c.disconnecting
      /\ d.connected = c.connected /\ d.socket = c.socket /\ d.txPending = c.txPending
      /\ c.ops["shutdown"] = 1 /\ d.ops["shutdown"] = 0
      /\ \A o \in Ops \ {"shutdown"} : d.ops[o] = c.ops[o]
      /\ NoneIn(q, Closes) /\ c.disconnecting
  <2>1. c.ops \in [Ops -> Nat]
    BY DEF ClientOK
  <2>2. /\ d.conn = c.conn /\ d.connecting = c.connecting /\ d.disconnecting = c.disconnecting
        /\ d.connected = c.connected /\ d.socket = c.socket /\ d.txPending = c.txPending
    BY <1>3 DEF Keeps, Fields
  <2>3. c.ops["shutdown"] = 1
    BY SMT DEF Core, OpsOK, AtMostOne
  <2>4. d.ops["shutdown"] = 0 /\ \A o \in Ops \ {"shutdown"} : d.ops[o] = c.ops[o]
    BY SMTT(30), <1>3, <2>1, <2>3 DEF Ops
  <2>5. NoneIn(q, Closes) /\ c.disconnecting
    BY SMT, <2>3 DEF Core, OpsOK, AtMostOne, EarlyOK, ConnectingOK, UnlinkedOK, LinkedOK, ClosingOK, Nothing
  <2> QED BY <2>2, <2>3, <2>4, <2>5
<1>12. /\ d.ops["resolve"] = c.ops["resolve"] /\ d.ops["connect"] = c.ops["connect"] /\ d.ops["read"] = c.ops["read"] /\ d.ops["write"] = c.ops["write"]
  BY <1>4 DEF Ops
<1>5. OpsOK(d, p, busy)
  BY SMT, <1>1, <1>2, <1>4, <1>12 DEF Core, OpsOK, AtMostOne, Nothing
<1>6. EarlyOK(d, p, busy, told)
  BY <1>1, <1>2, <1>4, <1>12 DEF Core, EarlyOK, Nothing, Calm
<1>7. ConnectingOK(d, p, busy)
  BY <1>1, <1>2, <1>4, <1>12 DEF Core, ConnectingOK, Nothing
<1>8. LinkedOK(d, p) /\ UnlinkedOK(d, p)
  BY <1>1, <1>2, <1>4, <1>12 DEF Core, LinkedOK, UnlinkedOK, Nothing
<1>9. ClosingOK(d, p, busy, u.secure)
  BY <1>1, <1>2, <1>4, <1>12 DEF Core, ClosingOK, Nothing
<1>10. QuietOK(d, p, busy, told, u)
  BY <1>1, <1>2, <1>4, <1>12 DEF Core, QuietOK, Calm
<1>11. OwnerOK(d, p, told)
  BY <1>1, <1>2, <1>4, <1>12 DEF Core, OwnerOK
<1> QED BY <1>2, <1>3, <1>5, <1>6, <1>7, <1>8, <1>9, <1>10, <1>11 DEF Core

\* A handler that brings no data is queued.
LEMMA QueuedHolds ==
    ASSUME NEW c, NEW q, NEW data, NEW lines, NEW busy, NEW told, NEW u,
           Holds(c, q, data, lines, busy, told, u), NEW d, ClientOK(d), NEW h \in Handlers \ Data,
           d.connected = c.connected, Awaited(d) <= Awaited(c), Pleas(d) >= Pleas(c),
           Core(d, q \o <<h>>, busy, told, u)
    PROVE  Holds(d, Append(q, h), data, lines, busy, told, u)
<1> DEFINE p == q \o <<h>>
<1>1. ClientOK(c) /\ q \in Seq(Handlers) /\ LinesOK(data, lines, q, busy) /\ TimedOK(c, q, data, lines)
  BY DEF Holds
<1>2. /\ p \in Seq(Handlers) /\ Append(q, h) = p
      /\ \A S : NoneIn(p, S) <=> NoneIn(q, S) /\ h \notin S
  BY <1>1, Appended
<1> HIDE DEF p
<1>3. LinesOK(data, lines, p, busy)
  BY <1>1, <1>2, LinesSame
<1>4. TimedOK(d, p, data, lines)
  BY <1>1, <1>2, TimedSame
<1> QED BY <1>2, <1>3, <1>4 DEF Holds, p

\* A pending operation completes.
LEMMA CompletedKeeps ==
    ASSUME IInv, NEW op \in Ops, NEW handlers, Complete(op, handlers),
           handlers \subseteq Handlers \ Data,
           \A h \in handlers :
               LET d == Done(cl, op)
               IN  /\ ClientOK(d) /\ Keeps(cl, d, {"ops"})
                   /\ Core(d, ioq \o <<h>>, reading, owner, uri)
    PROVE  IInv'
<1> DEFINE d == Done(cl, op)
<1>1. PICK h \in handlers : ioq' = Append(ioq, h)
  BY DEF Complete
<1>2. cl' = d /\ UNCHANGED <<uri, inbox, rx, reading, owner>>
  BY DEF Complete
<1>3. ClientOK(d) /\ Keeps(cl, d, {"ops"}) /\ Core(d, ioq \o <<h>>, reading, owner, uri)
  OBVIOUS
<1> HIDE DEF d
<1>4. d.connected = cl.connected /\ d.wire = cl.wire /\ d.txQueue = cl.txQueue /\ d.pleas = cl.pleas
  BY <1>3 DEF Keeps, Fields
<1>5. Awaited(d) = Awaited(cl) /\ Pleas(d) = Pleas(cl)
  BY <1>4 DEF Awaited, Pleas
<1>6. Awaited(cl) \in Nat /\ Pleas(cl) \in Nat
  BY Lengths DEF IInv, Holds
<1>7. Awaited(d) <= Awaited(cl) /\ Pleas(d) >= Pleas(cl)
  BY SMT, <1>5, <1>6
<1>8. Holds(d, Append(ioq, h), inbox, rx, reading, owner, uri)
  BY <1>3, <1>4, <1>7, QueuedHolds DEF IInv
<1> QED BY <1>1, <1>2, <1>8 DEF IInv

\* The resolver answers.
LEMMA resolverAnswersKeeps ==
    ASSUME IInv, resolverAnswers
    PROVE  IInv'
<1> DEFINE handlers == {"resolve_ok", "resolve_err"}
<1>1. Complete("resolve", handlers) /\ cl.ops["resolve"] > 0
  BY DEF resolverAnswers, Complete
<1>2. handlers \subseteq Handlers \ Data
  BY AreHandlers, Members
<1>3. ClientOK(cl) /\ ioq \in Seq(Handlers) /\ Core(cl, ioq, reading, owner, uri)
  BY DEF IInv, Holds
<1>4. ASSUME NEW h \in handlers
      PROVE  LET d == Done(cl, "resolve")
             IN  /\ ClientOK(d) /\ Keeps(cl, d, {"ops"})
                 /\ Core(d, ioq \o <<h>>, reading, owner, uri)
  BY <1>1, <1>3, ResolveCompleted
<1> HIDE DEF handlers
<1> QED BY <1>1, <1>2, <1>4, CompletedKeeps DEF Ops

\* The connection is made, or refused.
LEMMA peerConnectsKeeps ==
    ASSUME IInv, peerConnects
    PROVE  IInv'
<1> DEFINE handlers == {"connect_ok", "connect_err"}
<1>1. Complete("connect", handlers) /\ cl.ops["connect"] > 0
  BY DEF peerConnects, Complete
<1>2. handlers \subseteq Handlers \ Data
  BY AreHandlers, Members
<1>3. ClientOK(cl) /\ ioq \in Seq(Handlers) /\ Core(cl, ioq, reading, owner, uri)
  BY DEF IInv, Holds
<1>4. ASSUME NEW h \in handlers
      PROVE  LET d == Done(cl, "connect")
             IN  /\ ClientOK(d) /\ Keeps(cl, d, {"ops"})
                 /\ Core(d, ioq \o <<h>>, reading, owner, uri)
  BY <1>1, <1>3, ConnectCompleted
<1> HIDE DEF handlers
<1> QED BY <1>1, <1>2, <1>4, CompletedKeeps DEF Ops

\* The pool closes the connection.
LEMMA peerClosesKeeps ==
    ASSUME IInv, peerCloses
    PROVE  IInv'
<1> DEFINE handlers == {"read_err"}
<1>1. Complete("read", handlers) /\ cl.ops["read"] > 0
  BY DEF peerCloses, Complete
<1>2. handlers \subseteq Handlers \ Data
  BY AreHandlers, Members
<1>3. ClientOK(cl) /\ ioq \in Seq(Handlers) /\ Core(cl, ioq, reading, owner, uri)
  BY DEF IInv, Holds
<1>4. ASSUME NEW h \in handlers
      PROVE  LET d == Done(cl, "read")
             IN  /\ ClientOK(d) /\ Keeps(cl, d, {"ops"})
                 /\ Core(d, ioq \o <<h>>, reading, owner, uri)
  BY <1>1, <1>3, ReadCompleted
<1> HIDE DEF handlers
<1> QED BY <1>1, <1>2, <1>4, CompletedKeeps DEF Ops

\* A write completes.
LEMMA peerTakesKeeps ==
    ASSUME IInv, peerTakes
    PROVE  IInv'
<1> DEFINE handlers == {"write_ok", "write_err"}
<1>1. Complete("write", handlers) /\ cl.ops["write"] > 0
  BY DEF peerTakes, Complete
<1>2. handlers \subseteq Handlers \ Data
  BY AreHandlers, Members
<1>3. ClientOK(cl) /\ ioq \in Seq(Handlers) /\ Core(cl, ioq, reading, owner, uri)
  BY DEF IInv, Holds
<1>4. ASSUME NEW h \in handlers
      PROVE  LET d == Done(cl, "write")
             IN  /\ ClientOK(d) /\ Keeps(cl, d, {"ops"})
                 /\ Core(d, ioq \o <<h>>, reading, owner, uri)
  BY <1>1, <1>3, WriteCompleted
<1> HIDE DEF handlers
<1> QED BY <1>1, <1>2, <1>4, CompletedKeeps DEF Ops

\* A TLS stream is shut down.
LEMMA peerShutsDownKeeps ==
    ASSUME IInv, peerShutsDown
    PROVE  IInv'
<1> DEFINE handlers == {"shutdown"}
<1>1. Complete("shutdown", handlers) /\ cl.ops["shutdown"] > 0
  BY DEF peerShutsDown, Complete
<1>2. handlers \subseteq Handlers \ Data
  BY AreHandlers, Members
<1>3. ClientOK(cl) /\ ioq \in Seq(Handlers) /\ Core(cl, ioq, reading, owner, uri)
  BY DEF IInv, Holds
<1>4. ASSUME NEW h \in handlers
      PROVE  LET d == Done(cl, "shutdown")
             IN  /\ ClientOK(d) /\ Keeps(cl, d, {"ops"})
                 /\ Core(d, ioq \o <<h>>, reading, owner, uri)
  BY <1>1, <1>3, ShutdownCompleted
<1> HIDE DEF handlers
<1> QED BY <1>1, <1>2, <1>4, CompletedKeeps DEF Ops

\* An answered request is no longer outstanding.
LEMMA WithoutIs ==
    ASSUME NEW s \in Seq(Requests), NEW i \in 1..Len(s)
    PROVE  Without(s, i) \in Seq(Requests) /\ Len(Without(s, i)) = Len(s) - 1
<1> DEFINE a == SubSeq(s, 1, i - 1)
           b == SubSeq(s, i + 1, Len(s))
<1>1. Len(s) \in Nat /\ i \in Nat /\ 1 <= i /\ i <= Len(s)
  BY SMT
<1>2. \A j \in 1..Len(s) : s[j] \in Requests
  BY SMT
<1>3. a \in Seq(Requests) /\ Len(a) = i - 1
  BY SMT, <1>1, <1>2
<1>4. b \in Seq(Requests) /\ Len(b) = Len(s) - i
  BY SMT, <1>1, <1>2
<1> HIDE DEF a, b
<1>5. a \o b \in Seq(Requests) /\ Len(a \o b) = Len(a) + Len(b)
  BY SMTT(30), <1>3, <1>4
<1>6. Without(s, i) = a \o b
  BY DEF Without, a, b
<1>7. Len(a) + Len(b) = Len(s) - 1
  BY SMT, <1>1, <1>3, <1>4
<1> QED BY <1>5, <1>6, <1>7

\* Two sequences of one element.
LEMMA PairIs ==
    ASSUME NEW S, NEW a \in Seq(S), NEW b \in Seq(S), Len(a) = 1, Len(b) = 1
    PROVE  /\ a \o b \in Seq(S) /\ Len(a \o b) = 2
           /\ (a \o b)[1] = a[1] /\ (a \o b)[2] = b[1]
<1>1. a \o b \in Seq(S) /\ Len(a \o b) = Len(a) + Len(b)
  BY SMTT(30)
<1>2. (a \o b)[1] = a[1] /\ (a \o b)[2] = b[1]
  BY SMTT(30)
<1> QED BY SMT, <1>1, <1>2

\* A transmission of one line, and perhaps a notification behind it.
LEMMA SentIs ==
    ASSUME NEW x, NEW s, s = <<>> \/ \E y : s = <<y>> /\ y.line \in Unsolicited
    PROVE  LET t == <<x>> \o s
           IN  Transmission(t) /\ Owed(t) = IF x.line \in Unsolicited THEN 0 ELSE 1
<1> DEFINE a == <<x>>
           t == a \o s
<1> SUFFICES Transmission(t) /\ Owed(t) = IF x.line \in Unsolicited THEN 0 ELSE 1
  OBVIOUS
<1>1. CASE s = <<>>
  <2> DEFINE S == {x}
  <2>1. a \in Seq(S) /\ Len(a) = 1 /\ a[1] = x
    BY SMT
  <2> HIDE DEF a, S
  <2>2. t = a
    BY SMT, <1>1, <2>1
  <2>3. DOMAIN a = 1..1 /\ a # <<>>
    BY SMT, <2>1
  <2>4. \A i \in 1..1 : i = 1
    BY SMT
  <2> QED BY <2>1, <2>2, <2>3, <2>4 DEF Transmission, Owed
<1>2. CASE s # <<>>
  <2>1. PICK y : s = <<y>> /\ y.line \in Unsolicited
    BY <1>2
  <2> DEFINE S == {x, y}
             b == <<y>>
  <2>2. /\ a \in Seq(S) /\ Len(a) = 1 /\ a[1] = x
        /\ b \in Seq(S) /\ Len(b) = 1 /\ b[1] = y
    BY SMT
  <2>3. t = a \o b
    BY <2>1
  <2> HIDE DEF a, b, S, t
  <2>4. t \in Seq(S) /\ Len(t) = 2 /\ t[1] = x /\ t[2] = y
    BY SMTT(30), <2>2, <2>3, PairIs
  <2>5. DOMAIN t = 1..2 /\ t # <<>>
    BY SMT, <2>4
  <2>6. \A i \in 1..2 : i # 1 => i = 2
    BY SMT
  <2> QED BY <2>1, <2>4, <2>5, <2>6 DEF Transmission, Owed
<1> QED BY <1>1, <1>2

\* The pool sends a transmission.
LEMMA poolSendsKeeps ==
    ASSUME IInv, poolSends
    PROVE  IInv'
<1> DEFINE Sent(i, first, second) ==
               /\ inbox' = Append(inbox,
                     <<[line |-> first, mode |-> IF first = "login_ok" THEN cl.loginMode ELSE 0]>>
                         \o second)
               /\ cl' = Done([cl EXCEPT !.wire = IF i = 0 THEN @ ELSE Without(@, i)], "read")
           Second == {<<>>} \cup {<<[line |-> u, mode |-> 0]>> : u \in {"job", "hangup"}}
<1>a. PICK i \in 0..Len(cl.wire) :
          \E first \in IF i = 0 THEN Unsolicited ELSE Answers(cl.wire[i]) :
          \E second \in Second : Sent(i, first, second)
  BY DEF poolSends
<1>b. PICK first \in IF i = 0 THEN Unsolicited ELSE Answers(cl.wire[i]) :
          \E second \in Second : Sent(i, first, second)
  BY <1>a
<1>1. PICK second \in Second : Sent(i, first, second)
  BY <1>b
<1> DEFINE w == [cl EXCEPT !.wire = IF i = 0 THEN @ ELSE Without(@, i)]
           d == Done(w, "read")
           x == [line |-> first, mode |-> IF first = "login_ok" THEN cl.loginMode ELSE 0]
           t == <<x>> \o second
           p == ioq \o <<"read">>
<1>2. /\ cl.ops["read"] > 0 /\ ioq' = Append(ioq, "read")
      /\ UNCHANGED <<uri, rx, reading, owner, fault>>
  BY DEF poolSends
<1>3. cl' = d /\ inbox' = Append(inbox, t)
  BY <1>1
<1>4. /\ ClientOK(cl) /\ ioq \in Seq(Handlers) /\ Core(cl, ioq, reading, owner, uri)
      /\ LinesOK(inbox, rx, ioq, reading) /\ TimedOK(cl, ioq, inbox, rx) /\ UriOK(uri, owner)
      /\ reading \in BOOLEAN /\ cl.wire \in Seq(Requests)
  BY DEF IInv, Holds, ClientOK
<1>5. x.line = first
  OBVIOUS
<1>6. i = 0 => first \in Unsolicited
  OBVIOUS
<1>7. /\ Transmission(t) /\ Owed(t) \in {0, 1} /\ (i = 0 => Owed(t) = 0)
  <2>1. second = <<>> \/ \E y : second = <<y>> /\ y.line \in Unsolicited
    <3>1. CASE second # <<>>
      <4>1. PICK u \in {"job", "hangup"} : second = <<[line |-> u, mode |-> 0]>>
        BY <3>1
      <4>2. [line |-> u, mode |-> 0].line \in Unsolicited
        BY DEF Unsolicited
      <4> QED BY <4>1, <4>2
    <3> QED BY <3>1
  <2> HIDE DEF x, Second
  <2>2. Transmission(t) /\ Owed(t) = IF x.line \in Unsolicited THEN 0 ELSE 1
    BY <2>1, SentIs
  <2> QED BY <1>5, <1>6, <2>2
<1> HIDE DEF t
<1>8. /\ Shape(w) /\ Keeps(cl, w, {"wire"})
      /\ w.wire = IF i = 0 THEN cl.wire ELSE Without(cl.wire, i)
  BY <1>4 DEF ClientOK, Shape, Keeps, Fields
<1> HIDE DEF w
<1>9. /\ w.wire \in Seq(Requests) /\ Len(w.wire) \in Nat
      /\ Len(w.wire) + (IF i = 0 THEN 0 ELSE 1) = Len(cl.wire)
  <2>1. CASE i = 0
    BY SMTT(30), <1>4, <1>8, <2>1
  <2>2. CASE i # 0
    <3>1. i \in 1..Len(cl.wire) /\ Len(cl.wire) \in Nat
      BY SMTT(30), <1>4, <2>2
    <3>2. w.wire \in Seq(Requests) /\ Len(w.wire) = Len(cl.wire) - 1
      BY <1>4, <1>8, <2>2, <3>1, WithoutIs
    <3> QED BY SMTT(30), <2>2, <3>1, <3>2
  <2> QED BY <2>1, <2>2
<1>10. ClientOK(w) /\ SameCore(cl, w)
  BY <1>4, <1>8, <1>9 DEF ClientOK, Keeps, Fields, SameCore
<1>11. Core(w, ioq, reading, owner, uri) /\ w.ops["read"] > 0
  BY <1>2, <1>4, <1>10, CoreSame DEF SameCore
<1>12. /\ ClientOK(d) /\ Keeps(w, d, {"ops"})
       /\ p \in Seq(Handlers) /\ Core(d, p, reading, owner, uri)
  BY <1>4, <1>10, <1>11, ReadCompleted
<1> HIDE DEF d
<1>13. /\ Append(ioq, "read") = p /\ \A S : NoneIn(p, S) <=> NoneIn(ioq, S) /\ "read" \notin S
  BY <1>4, Appended, AreHandlers
<1> HIDE DEF p
<1>14. inbox = <<>>
  <2>1. NoneIn(ioq, Data)
    BY SMTT(30), <1>2, <1>4, Parts DEF Core, OpsOK, AtMostOne
  <2> QED BY <1>4, <2>1 DEF LinesOK
<1>15. inbox' = <<t>>
  BY SMTT(30), <1>3, <1>14
<1>16. LinesOK(<<t>>, rx, p, reading)
  <2>1. Transmission(rx) /\ (~reading => rx = <<>>)
    BY <1>4 DEF LinesOK
  <2>2. ~NoneIn(p, Data)
    BY <1>13, Members
  <2> QED BY <1>7, <2>1, <2>2 DEF LinesOK
<1>17. TimedOK(d, p, <<t>>, rx)
  <2>1. SUFFICES ASSUME d.connected, NoneIn(p, Discs), NoneIn(p, Timeouts)
                 PROVE  Awaited(d) + Owed(rx) + Received(<<t>>) <= Pleas(d)
    BY DEF TimedOK
  <2>2. d.connected = cl.connected /\ d.pleas = cl.pleas /\ d.wire = w.wire /\ d.txQueue = cl.txQueue
    BY <1>8, <1>12 DEF Keeps, Fields
  <2>3. NoneIn(ioq, Discs) /\ NoneIn(ioq, Timeouts)
    BY <1>13, <2>1
  <2>4. Awaited(cl) + Owed(rx) + Received(<<>>) <= Pleas(cl)
    BY <1>4, <1>14, <2>1, <2>2, <2>3 DEF TimedOK
  <2>5. Received(<<t>>) = Owed(t) /\ Received(<<>>) = 0
    BY Counts DEF Received
  <2>6. Pleas(d) = Pleas(cl) /\ Pleas(cl) \in Nat
    BY <1>4, <2>2, Lengths DEF Pleas
  <2>7. Awaited(d) + Owed(t) <= Awaited(cl) /\ Awaited(d) \in Nat /\ Awaited(cl) \in Nat
    <3> DEFINE m == Len(cl.wire)
               n == Len(cl.txQueue)
               k == Len(w.wire)
    <3>a. cl.wire \in Seq(Requests) /\ cl.txQueue \in Seq(Requests)
      BY <1>4 DEF ClientOK
    <3>b. k + (IF i = 0 THEN 0 ELSE 1) = m /\ k \in Nat
      BY <1>9
    <3>c. m \in Nat /\ n \in Nat
      BY SMT, <3>a
    <3>1. m \in Nat /\ n \in Nat /\ k \in Nat /\ k + (IF i = 0 THEN 0 ELSE 1) = m
      BY <3>b, <3>c
    <3>2. Awaited(d) = k + n /\ Awaited(cl) = m + n
      BY <2>2 DEF Awaited
    <3> HIDE DEF m, n, k
    <3> QED BY SMTT(30), <1>7, <3>1, <3>2
  <2>8. Owed(rx) \in {0, 1} /\ Owed(t) \in {0, 1}
    BY Counts
  <2> DEFINE a == Owed(rx)
             b == Owed(t)
             m == Awaited(d)
             n == Awaited(cl)
             k == Pleas(cl)
  <2>9. n + a + 0 <= k /\ m + b <= n /\ m \in Nat /\ n \in Nat /\ k \in Nat /\ a \in Nat /\ b \in Nat
    BY SMTT(30), <2>4, <2>5, <2>6, <2>7, <2>8
  <2>10. SUFFICES m + a + b <= k
    BY <2>5, <2>6
  <2> HIDE DEF a, b, m, n, k
  <2> QED BY SMT, <2>9
<1> QED BY <1>2, <1>3, <1>4, <1>12, <1>13, <1>15, <1>16, <1>17 DEF IInv, Holds

\* A handler of none of the kinds that matter is queued.
LEMMA CoreTick ==
    ASSUME NEW c, NEW q \in Seq(Handlers), NEW busy, NEW told, NEW u, Core(c, q, busy, told, u)
    PROVE  q \o <<"tick">> \in Seq(Handlers) /\ Core(c, q \o <<"tick">>, busy, told, u)
<1> DEFINE h == "tick"
           p == q \o <<h>>
<1> SUFFICES p \in Seq(Handlers) /\ Core(c, p, busy, told, u)
  OBVIOUS
<1>1. h \in Handlers /\ h \notin Early /\ h \notin Starts /\ h \notin Connects /\ h \notin Reads /\ h \notin Writes /\ h \notin Timeouts /\ h \notin Discs /\ h \notin Shuts /\ h \notin Closes /\ h \notin Finals /\ h \notin Rotates
  BY SMT, Members, AreHandlers
<1> HIDE DEF h
<1>2. /\ p \in Seq(Handlers)
      /\ \A S : NoneIn(p, S) <=> NoneIn(q, S) /\ h \notin S
      /\ \A S : Once(q, S) /\ (NoneIn(q, S) \/ h \notin S) => Once(p, S)
      /\ \A A, B : NoneBehind(q, A, B) /\ (NoneIn(q, A) \/ h \notin B) => NoneBehind(p, A, B)
  BY <1>1, Appended
<1> HIDE DEF p
<1>5. OpsOK(c, p, busy)
  BY <1>1, <1>2 DEF Core, OpsOK, AtMostOne, Nothing
<1>6. EarlyOK(c, p, busy, told)
  BY <1>1, <1>2 DEF Core, EarlyOK, Nothing, Calm
<1>7. ConnectingOK(c, p, busy)
  BY <1>1, <1>2 DEF Core, ConnectingOK, Nothing
<1>8. LinkedOK(c, p) /\ UnlinkedOK(c, p)
  BY <1>1, <1>2 DEF Core, LinkedOK, UnlinkedOK, Nothing
<1>9. ClosingOK(c, p, busy, u.secure)
  BY <1>1, <1>2 DEF Core, ClosingOK, Nothing
<1>10. QuietOK(c, p, busy, told, u)
  BY <1>1, <1>2 DEF Core, QuietOK, Calm
<1>11. OwnerOK(c, p, told)
  BY <1>1, <1>2 DEF Core, OwnerOK
<1> QED BY <1>2, <1>5, <1>6, <1>7, <1>8, <1>9, <1>10, <1>11 DEF Core

\* The workloop timer expires.
LEMMA timerFiresKeeps ==
    ASSUME IInv, timerFires
    PROVE  IInv'
<1> DEFINE d == [cl EXCEPT !.timer = FALSE]
<1>1. /\ cl' = d /\ ioq' = Append(ioq, "tick")
      /\ UNCHANGED <<uri, inbox, rx, reading, owner>>
  BY DEF timerFires
<1>2. ClientOK(cl) /\ ioq \in Seq(Handlers) /\ Core(cl, ioq, reading, owner, uri)
  BY DEF IInv, Holds
<1>3. Shape(d) /\ Keeps(cl, d, {"timer"})
  BY <1>2 DEF ClientOK, Shape, Keeps, Fields
<1> HIDE DEF d
<1>4. Keeps(cl, d, Loose)
  BY <1>3 DEF Keeps, Loose
<1>5. ClientOK(d) /\ SameCore(cl, d) /\ Awaited(d) = Awaited(cl) /\ Pleas(d) = Pleas(cl)
  BY <1>2, <1>3, <1>4, LooseIs
<1>6. Awaited(cl) \in Nat /\ Pleas(cl) \in Nat
  BY <1>2, Lengths
<1>7. Awaited(d) <= Awaited(cl) /\ Pleas(d) >= Pleas(cl) /\ d.connected = cl.connected
  BY SMT, <1>5, <1>6 DEF SameCore
<1>8. Core(d, ioq \o <<"tick">>, reading, owner, uri)
  <2>1. Core(d, ioq, reading, owner, uri)
    BY <1>2, <1>5, CoreSame
  <2> QED BY <1>2, <2>1, CoreTick
<1>9. "tick" \in Handlers \ Data
  BY AreHandlers, Members
<1>10. Holds(d, Append(ioq, "tick"), inbox, rx, reading, owner, uri)
  BY <1>5, <1>7, <1>8, <1>9, QueuedHolds DEF IInv
<1> QED BY <1>1, <1>10 DEF IInv

\* A solution is submitted.
LEMMA submitSolutionKeeps ==
    ASSUME IInv, submitSolution
    PROVE  IInv'
<1>1. Holds(send(enqueue_response_plea(cl), "submit"), ioq, inbox, rx, reading, owner, uri)
  BY SendHolds DEF IInv, Requests
<1>2. /\ cl' = send(enqueue_response_plea(cl), "submit")
      /\ UNCHANGED <<uri, ioq, inbox, rx, reading, owner>>
  BY DEF submitSolution
<1> QED BY <1>1, <1>2 DEF IInv

\* The hashrate is submitted.
LEMMA submitHashrateKeeps ==
    ASSUME IInv, submitHashrate
    PROVE  IInv'
<1>1. Holds(send(cl, "note"), ioq, inbox, rx, reading, owner, uri)
  BY NoteHolds DEF IInv
<1>2. cl' = send(cl, "note") /\ UNCHANGED <<uri, ioq, inbox, rx, reading, owner>>
  BY DEF submitHashrate
<1> QED BY <1>1, <1>2 DEF IInv

-----------------------------------------------------------------------------
(* The invariant *)

\* The invariant holds of the first client of a URI.
LEMMA InitHolds == Init => IInv
<1> SUFFICES ASSUME Init PROVE IInv
  OBVIOUS
<1>1. PICK s \in Schemes :
         uri = [version |-> s.version, secure |-> s.secure, mode |-> AutoDetect,
                confirmed |-> FALSE, unrecoverable |-> FALSE, responds |-> FALSE]
  BY DEF Init
<1>2. s.secure \in BOOLEAN
  BY ParametersAssumption
<1>3. UriOK(uri, "connecting")
  BY <1>1, <1>2 DEF UriOK, UriFields
<1>4. Holds(NewClient, <<"connect">>, <<>>, <<>>, FALSE, "connecting", uri)
  BY <1>3, NewHolds
<1>5. /\ cl = NewClient /\ ioq = <<"connect">> /\ inbox = <<>> /\ rx = <<>> /\ reading = FALSE
      /\ owner = "connecting"
  BY DEF Init
<1> QED BY <1>4, <1>5 DEF IInv

\* Every step keeps the invariant.
LEMMA NextKeeps ==
    ASSUME IInv, [Next]_vars
    PROVE  IInv'
<1>1. CASE IoThread
  <2>1. CASE processOrphan \/ processWithoutSession
    BY <2>1, CrashStep DEF processOrphan, processWithoutSession
  <2> QED
    BY <1>1, <2>1, connectKeeps, resolve_handlerKeeps, start_connectKeeps, connectFailedKeeps,
       connectedKeeps, workloop_timer_elapsedKeeps, onRecvSocketDataCompletedKeeps,
       endOfTransmissionKeeps, onRecvErrorKeeps, processHangupKeeps, processLoginKeeps,
       loginTimeoutKeeps, processError999Keeps, processSubscribeKeeps, processAuthorizeKeeps,
       processSubmittedKeeps, processNotifyKeeps, processSettingKeeps,
       onSendSocketDataCompletedKeeps, DisconnectKeeps, FinalizeKeeps,
       onSSLShutdownCompletedKeeps, rotateConnectKeeps DEF IoThread
<1>2. CASE Network
  BY <1>2, resolverAnswersKeeps, peerConnectsKeeps, peerClosesKeeps, peerTakesKeeps,
     peerShutsDownKeeps, poolSendsKeeps, timerFiresKeeps DEF Network
<1>3. CASE submitSolution \/ submitHashrate \/ ownerDisconnects
  BY <1>3, submitSolutionKeeps, submitHashrateKeeps, ownerDisconnectsKeeps
<1>4. CASE UNCHANGED vars
  BY <1>4 DEF vars, IInv
<1> QED BY <1>1, <1>2, <1>3, <1>4 DEF Next

\* The inductive invariant of the stratum client: what the order of the handlers in the io queue,
\* the flags of the client, its pending operations and its pleas have to do with each other.
THEOREM StratumInvariant == Spec => []IInv
BY InitHolds, NextKeeps, PTL DEF Spec

-----------------------------------------------------------------------------
(* The refinement: a step moves the phase of the client as PoolClient says *)

\* What the phase is made of.
Steadfast(c, d) == d.connected = c.connected /\ d.disconnecting = c.disconnecting
Steady == Steadfast(cl, cl') /\ owner' = owner /\ uri'.version = uri.version

Phase(c, told) ==
    IF told \in {"down", "gone"} THEN told
    ELSE IF c.disconnecting THEN "closing"
    ELSE IF ~c.connected THEN "trying"
    ELSE IF told = "up" THEN "up" ELSE "linked"

Moves(from, to) ==
    \/ to = from
    \/ from = "trying" /\ to \in {"linked", "up", "down"}
    \/ from = "linked" /\ to \in {"trying", "up", "closing", "down"}
    \/ from = "up" /\ to \in {"closing", "down"}
    \/ from = "closing" /\ to \in {"trying", "down"}
    \/ from = "down" /\ to \in {"trying", "gone"}

\* The URI of a client keeps its scheme, and with an explicit one the client moves as it should.
MoveOK ==
    /\ uri'.version = uri.version
    /\ uri.version # AutoDetect => Moves(Phase(cl, owner), Phase(cl', owner'))

\* A step that changes nothing the phase is made of.
LEMMA SteadyMoves == Steady => MoveOK
BY DEF Steady, Steadfast, MoveOK, Moves, Phase

\* The operations on a client that have nothing to do with its phase.
LEMMA SteadfastOps ==
    ASSUME NEW c, ClientOK(c)
    PROVE  /\ \A op \in Ops : ClientOK(Start(c, op)) /\ Steadfast(c, Start(c, op))
           /\ ClientOK(NoSocketOps(c)) /\ Steadfast(c, NoSocketOps(c))
           /\ ClientOK(enqueue_response_plea(c)) /\ Steadfast(c, enqueue_response_plea(c))
           /\ ClientOK(dequeue_response_plea(c)) /\ Steadfast(c, dequeue_response_plea(c))
           /\ ClientOK(clear_response_pleas(c)) /\ Steadfast(c, clear_response_pleas(c))
           /\ ClientOK(Aged(c)) /\ Steadfast(c, Aged(c))
           /\ ClientOK(Emptied(c)) /\ Steadfast(c, Emptied(c))
           /\ ClientOK(sendSocketData(c)) /\ Steadfast(c, sendSocketData(c))
           /\ \A r \in Requests \cup {"note"} : ClientOK(send(c, r)) /\ Steadfast(c, send(c, r))
<1>1. ASSUME NEW d, NEW changed, Keeps(c, d, changed),
             "connected" \notin changed, "disconnecting" \notin changed
      PROVE  Steadfast(c, d)
  BY <1>1 DEF Keeps, Fields, Steadfast
<1>2. ASSUME NEW op \in Ops PROVE ClientOK(Start(c, op)) /\ Steadfast(c, Start(c, op))
  <2>1. ClientOK(Start(c, op)) /\ Keeps(c, Start(c, op), {"ops"})
    BY StartIs
  <2> QED BY <1>1, <2>1
<1>3. ClientOK(NoSocketOps(c)) /\ Steadfast(c, NoSocketOps(c))
  <2>1. ClientOK(NoSocketOps(c)) /\ Keeps(c, NoSocketOps(c), {"ops"})
    BY NoSocketOpsIs
  <2> QED BY <1>1, <2>1
<1>4. ClientOK(enqueue_response_plea(c)) /\ Steadfast(c, enqueue_response_plea(c))
  <2>1. ClientOK(enqueue_response_plea(c)) /\ Keeps(c, enqueue_response_plea(c), {"pleas", "older"})
    BY EnqueueIs
  <2> QED BY <1>1, <2>1
<1>5. ClientOK(dequeue_response_plea(c)) /\ Steadfast(c, dequeue_response_plea(c))
  <2>1. ClientOK(dequeue_response_plea(c)) /\ Keeps(c, dequeue_response_plea(c), {"pleas", "older"})
    BY DequeueIs
  <2> QED BY <1>1, <2>1
<1>6. ClientOK(clear_response_pleas(c)) /\ Steadfast(c, clear_response_pleas(c))
  <2>1. ClientOK(clear_response_pleas(c)) /\ Keeps(c, clear_response_pleas(c), {"pleas", "older"})
    BY ClearIs
  <2> QED BY <1>1, <2>1
<1>7. ClientOK(Aged(c)) /\ Steadfast(c, Aged(c))
  <2>1. ClientOK(Aged(c)) /\ Keeps(c, Aged(c), {"pleas", "older", "workAge"})
    BY AgedIs
  <2> QED BY <1>1, <2>1
<1>8. ClientOK(Emptied(c)) /\ Steadfast(c, Emptied(c))
  <2>1. ClientOK(Emptied(c)) /\ Keeps(c, Emptied(c), {"txCount", "txQueue"})
    BY EmptiedIs
  <2> QED BY <1>1, <2>1
<1>9. ClientOK(sendSocketData(c)) /\ Steadfast(c, sendSocketData(c))
  <2>1. /\ ClientOK(sendSocketData(c))
        /\ Keeps(c, sendSocketData(c), {"txPending", "txCount", "txQueue", "ops", "wire"})
    BY SendSocketDataIs
  <2> QED BY <1>1, <2>1
<1>10. ASSUME NEW r \in Requests \cup {"note"} PROVE ClientOK(send(c, r)) /\ Steadfast(c, send(c, r))
  <2>1. /\ ClientOK(send(c, r))
        /\ Keeps(c, send(c, r), {"txPending", "txCount", "txQueue", "ops", "wire"})
    BY SendIs
  <2> QED BY <1>1, <2>1
<1> QED BY <1>2, <1>3, <1>4, <1>5, <1>6, <1>7, <1>8, <1>9, <1>10

\* A client that keeps both fields.
LEMMA KeepsSteadfast ==
    ASSUME NEW c, NEW d, NEW changed, Keeps(c, d, changed),
           "connected" \notin changed, "disconnecting" \notin changed
    PROVE  Steadfast(c, d)
BY DEF Keeps, Fields, Steadfast

\* Clients in between.
LEMMA SteadfastChain ==
    ASSUME NEW c, NEW d, NEW e, Steadfast(c, d), Steadfast(d, e)
    PROVE  Steadfast(c, e)
BY DEF Steadfast

\* A finalization makes a client with an explicit scheme down.
LEMMA FinalizeMoves ==
    ASSUME IInv, NEW c, c.conn = cl.conn, NEW q, disconnect_finalize(c, q)
    PROVE  MoveOK
<1>1. UriOK(uri, owner) /\ OwnerOK(cl, ioq, owner)
  BY DEF IInv, Holds, Core
<1>2. DOMAIN uri = UriFields /\ uri = [f \in DOMAIN uri |-> uri[f]]
  BY <1>1 DEF UriOK
<1>3. CASE Crash
  BY <1>3, SteadyMoves DEF Crash, Steady, Steadfast
<1>4. CASE c.conn /\ Detecting /\ uri' = [uri EXCEPT !.mode = @ - 1]
  <2>1. uri'.version = uri.version
    BY <1>2, <1>4 DEF UriFields
  <2>2. uri.version = AutoDetect
    BY <1>1, <1>4 DEF UriOK, Detecting
  <2> QED BY <2>1, <2>2 DEF MoveOK
<1>5. CASE c.conn /\ owner' = "down" /\ uri' = [uri EXCEPT !.unrecoverable = @ \/ Detecting]
  <2>1. uri'.version = uri.version
    BY <1>2, <1>5 DEF UriFields
  <2>2. owner \in {"connecting", "up"}
    BY <1>1, <1>5 DEF OwnerOK
  <2> QED BY <1>5, <2>1, <2>2 DEF MoveOK, Moves, Phase
<1> QED BY <1>3, <1>4, <1>5 DEF disconnect_finalize

\* A disconnection closes a client that is connected, if it has an explicit scheme.
LEMMA DisconnectMoves ==
    ASSUME IInv, NEW q, disconnect(q), ~GivenUp(cl, uri)
    PROVE  MoveOK
<1>1. ClientOK(cl) /\ OwnerOK(cl, ioq, owner)
  BY DEF IInv, Holds, Core
<1>2. CASE UNCHANGED <<uri, cl, owner>>
  BY <1>2, SteadyMoves DEF Steady, Steadfast
<1>3. CASE disconnect_finalize([cl EXCEPT !.connected = FALSE], q)
  <2>1. [cl EXCEPT !.connected = FALSE].conn = cl.conn
    BY <1>1 DEF ClientOK, Shape, Fields
  <2> QED BY <1>3, <2>1, FinalizeMoves
<1>4. CASE /\ cl.conn /\ ~cl.disconnecting /\ UNCHANGED <<uri, owner>>
           /\ cl' = enqueue_response_plea(
                        Start([NoSocketOps(cl) EXCEPT !.connected = FALSE,
                                                      !.disconnecting = TRUE], "shutdown"))
  <2> DEFINE a == NoSocketOps(cl)
             b == [a EXCEPT !.connected = FALSE, !.disconnecting = TRUE]
             d == Start(b, "shutdown")
  <2>1. ClientOK(a) /\ Shape(b) /\ Keeps(a, b, {"connected", "disconnecting"})
        /\ b.connected = FALSE /\ b.disconnecting = TRUE
    <3>1. ClientOK(a)
      BY <1>1, NoSocketOpsIs
    <3> HIDE DEF a
    <3> QED BY <3>1 DEF ClientOK, Shape, Keeps, Fields
  <2>2. cl' = enqueue_response_plea(d)
    BY <1>4
  <2> HIDE DEF a, b
  <2>3. ClientOK(b)
    <3>1. b.connected \in BOOLEAN /\ b.disconnecting \in BOOLEAN
      BY <2>1
    <3> QED BY <2>1, <3>1 DEF ClientOK, Keeps, Fields
  <2>4. ClientOK(d) /\ Steadfast(b, d)
    BY <2>3, SteadfastOps DEF Ops
  <2> HIDE DEF d
  <2>5. Steadfast(d, cl')
    BY <2>2, <2>4, SteadfastOps
  <2>6. cl'.connected = FALSE /\ cl'.disconnecting = TRUE
    BY <2>1, <2>4, <2>5 DEF Steadfast
  <2>7. owner \in {"connecting", "up"}
    BY <1>1, <1>4 DEF OwnerOK
  <2>8. uri.version # AutoDetect => cl.connected
    BY <1>4 DEF GivenUp
  <2> QED BY <1>4, <2>6, <2>7, <2>8 DEF MoveOK, Moves, Phase
<1> QED BY <1>2, <1>3, <1>4 DEF disconnect, Crash

\* The fields of a URI object.
LEMMA UriShape == IInv => DOMAIN uri = UriFields /\ uri = [f \in DOMAIN uri |-> uri[f]]
BY DEF IInv, Holds, UriOK

\* A step that replaces a client by a steadfast one.
LEMMA SteadfastMoves ==
    ASSUME NEW c, cl' = c, Steadfast(cl, c), owner' = owner, uri'.version = uri.version
    PROVE  MoveOK
BY SteadyMoves DEF Steady

\* A fault stops everything.
LEMMA CrashMoves == Crash => MoveOK
BY SteadyMoves DEF Crash, Steady, Steadfast

\* Resolving a host name, or taking an IP address.
LEMMA connectMoves ==
    ASSUME IInv, connect
    PROVE  MoveOK
<1>1. ClientOK(cl)
  BY DEF IInv, Holds
<1> DEFINE a == [cl EXCEPT !.timer = TRUE, !.authpending = FALSE,
                              !.socket = IF @ = "null" THEN "closed" ELSE @]
           b == [a EXCEPT !.endpoints = 0]
           d == [a EXCEPT !.endpoints = 1]
<1>2. /\ Shape(a) /\ Keeps(cl, a, {"timer", "authpending", "socket"})
      /\ a.socket = IF cl.socket = "null" THEN "closed" ELSE cl.socket
  BY <1>1 DEF ClientOK, Shape, Keeps, Fields
<1>3. (cl' = Start(b, "resolve") \/ cl' = d) /\ UNCHANGED <<uri, owner>>
  BY DEF connect
<1> HIDE DEF a
<1>4. ClientOK(a) /\ Steadfast(cl, a)
  <2>1. a.socket \in {"null", "closed", "open"}
    BY <1>1, <1>2 DEF ClientOK
  <2> QED BY <1>1, <1>2, <2>1 DEF ClientOK, Keeps, Fields, Steadfast
<1>a. Keeps(a, b, {"endpoints"}) /\ Keeps(a, d, {"endpoints"})
  BY <1>4 DEF ClientOK, Shape, Keeps, Fields
<1>5. Steadfast(a, b) /\ Steadfast(a, d)
  <2> HIDE DEF b, d
  <2> QED BY <1>a, KeepsSteadfast
<1>6. ClientOK(b)
  <2>1. Shape(b) /\ Keeps(a, b, {"endpoints"})
    BY <1>4 DEF ClientOK, Shape, Keeps, Fields
  <2> HIDE DEF b
  <2> QED BY <1>4, <2>1 DEF ClientOK, Keeps, Fields
<1> HIDE DEF b, d
<1>7. Steadfast(b, Start(b, "resolve"))
  BY <1>6, SteadfastOps DEF Ops
<1>8. Steadfast(cl, cl')
  BY SMTT(30), <1>3, <1>4, <1>5, <1>7, SteadfastChain
<1> QED BY <1>3, <1>8, SteadfastMoves

\* The host name is resolved.
LEMMA resolve_handlerMoves ==
    ASSUME IInv, resolve_handler
    PROVE  MoveOK
<1>1. ClientOK(cl)
  BY DEF IInv, Holds
<1>2. CASE /\ \E n \in 1..MaxEndpoints : cl' = [cl EXCEPT !.endpoints = n]
           /\ UNCHANGED <<uri, owner>>
  <2>1. PICK n \in 1..MaxEndpoints : cl' = [cl EXCEPT !.endpoints = n]
    BY <1>2
  <2> DEFINE d == [cl EXCEPT !.endpoints = n]
  <2>2. Keeps(cl, d, {"endpoints"})
    BY <1>1 DEF ClientOK, Shape, Keeps, Fields
  <2>3. cl' = d
    BY <2>1
  <2> HIDE DEF d
  <2>4. Steadfast(cl, d)
    BY <2>2, KeepsSteadfast
  <2> QED BY <1>2, <2>3, <2>4, SteadfastMoves
<1>3. CASE disconnect_finalize([cl EXCEPT !.connecting = FALSE], Rest)
  <2>1. [cl EXCEPT !.connecting = FALSE].conn = cl.conn
    BY <1>1 DEF ClientOK, Shape, Fields
  <2> QED BY <1>3, <2>1, FinalizeMoves
<1> QED BY <1>2, <1>3 DEF resolve_handler

\* An attempt to connect is begun, or there is no address left.
LEMMA start_connectMoves ==
    ASSUME IInv, start_connect
    PROVE  MoveOK
<1>1. ClientOK(cl)
  BY DEF IInv, Holds
<1>2. CASE UNCHANGED <<uri, cl, owner>>
  BY <1>2, SteadyMoves DEF Steady, Steadfast
<1>3. CASE cl' = Attempt(cl) /\ UNCHANGED <<uri, owner>>
  <2>1. Steadfast(cl, Attempt(cl))
    BY <1>1, AttemptIs DEF Steadfast
  <2> QED BY <1>3, <2>1, SteadfastMoves
<1>4. CASE disconnect_finalize(cl, Rest)
  BY <1>4, FinalizeMoves
<1> QED BY <1>2, <1>3, <1>4 DEF start_connect

\* An attempt to connect fails.
LEMMA connectFailedMoves ==
    ASSUME IInv, connectFailed
    PROVE  MoveOK
<1>1. ClientOK(cl)
  BY DEF IInv, Holds
<1>2. CASE Crash
  BY <1>2, CrashMoves
<1>3. CASE /\ cl' = [NoSocketOps(cl) EXCEPT !.connecting = FALSE, !.socket = "closed",
                                             !.endpoints = @ - 1]
           /\ UNCHANGED <<uri, owner>>
  <2> DEFINE a == NoSocketOps(cl)
             d == [a EXCEPT !.connecting = FALSE, !.socket = "closed", !.endpoints = @ - 1]
  <2>1. ClientOK(a) /\ Steadfast(cl, a)
    BY <1>1, SteadfastOps
  <2>2. cl' = d
    BY <1>3
  <2> HIDE DEF a
  <2>3. Keeps(a, d, {"connecting", "socket", "endpoints"})
    BY <2>1 DEF ClientOK, Shape, Keeps, Fields
  <2> HIDE DEF d
  <2>4. Steadfast(a, d)
    BY <2>3 DEF Keeps, Fields, Steadfast
  <2> QED BY <1>3, <2>1, <2>2, <2>4, SteadfastChain, SteadfastMoves
<1> QED BY <1>2, <1>3 DEF connectFailed

\* The connection is made: a client that was trying is linked.
LEMMA connectedMoves ==
    ASSUME IInv, connected
    PROVE  MoveOK
<1>1. ClientOK(cl)
  BY DEF IInv, Holds
<1> DEFINE up == [Emptied(cl) EXCEPT !.connecting = FALSE, !.connected = TRUE, !.wire = <<>>]
           a == clear_response_pleas(up)
           b == [a EXCEPT !.loginMode = LoginMode]
           e == Start(b, "read")
           f == enqueue_response_plea(e)
<1>2. ClientOK(up) /\ up.connected = TRUE /\ up.disconnecting = cl.disconnecting
  BY <1>1, UpIs
<1>3. \/ Crash
      \/ /\ cl.conn /\ cl' = up /\ owner' = owner
         /\ uri' = [uri EXCEPT !.responds = TRUE, !.unrecoverable = TRUE]
      \/ /\ cl.conn /\ cl' = send(f, "login") /\ owner' = owner
         /\ uri' = [uri EXCEPT !.responds = TRUE, !.mode = LoginMode,
                               !.confirmed = @ \/ uri.version # AutoDetect]
  BY DEF connected
<1> HIDE DEF up
<1>4. ClientOK(a) /\ Steadfast(up, a)
  BY <1>2, SteadfastOps
<1> HIDE DEF a
<1>5. Shape(b) /\ Keeps(a, b, {"loginMode"})
  BY <1>4 DEF ClientOK, Shape, Keeps, Fields
<1> HIDE DEF b
<1>6. ClientOK(b) /\ Steadfast(a, b)
  BY <1>4, <1>5 DEF ClientOK, Keeps, Fields, Steadfast
<1>7. ClientOK(e) /\ Steadfast(b, e)
  BY <1>6, SteadfastOps DEF Ops
<1> HIDE DEF e
<1>8. ClientOK(f) /\ Steadfast(e, f)
  BY <1>7, SteadfastOps
<1> HIDE DEF f
<1>9. Steadfast(f, send(f, "login"))
  BY <1>8, SteadfastOps DEF Requests
<1>10. Steadfast(up, send(f, "login"))
  BY <1>4, <1>6, <1>7, <1>8, <1>9, SteadfastChain
<1>11. CASE cl.conn /\ Steadfast(up, cl') /\ owner' = owner /\ uri'.version = uri.version
  <2>1. OwnerOK(cl, ioq, owner) /\ ConnectingOK(cl, ioq, reading)
    BY DEF IInv, Holds, Core
  <2>2. ~cl.connected /\ ~cl.disconnecting
    <3>1. ~NoneIn(ioq, Connects)
      <4>1. ioq \in Seq(Handlers) /\ ioq # <<>> /\ Head(ioq) \in Connects
        BY Members DEF connected, Run, IInv, Holds
      <4> QED BY <4>1, Popped
    <3> QED BY <2>1, <3>1 DEF ConnectingOK, Nothing
  <2>3. cl'.connected /\ ~cl'.disconnecting
    BY <1>2, <1>11, <2>2 DEF Steadfast
  <2>4. owner \in {"connecting", "up"}
    BY <1>11, <2>1 DEF OwnerOK
  <2> QED BY <1>11, <2>2, <2>3, <2>4 DEF MoveOK, Moves, Phase
<1>12. Steadfast(up, up)
  BY DEF Steadfast
<1>13. CASE uri' = [uri EXCEPT !.responds = TRUE, !.unrecoverable = TRUE] /\ cl.conn /\ cl' = up /\ owner' = owner
  <2>1. uri'.version = uri.version
    BY <1>13, UriShape DEF UriFields
  <2> QED BY <1>11, <1>12, <1>13, <2>1
<1>14. CASE /\ cl.conn /\ cl' = send(f, "login") /\ owner' = owner
            /\ uri' = [uri EXCEPT !.responds = TRUE, !.mode = LoginMode,
                                  !.confirmed = @ \/ uri.version # AutoDetect]
  <2>1. uri'.version = uri.version
    BY <1>14, UriShape DEF UriFields
  <2> QED BY <1>10, <1>11, <1>14, <2>1
<1> QED BY <1>3, <1>13, <1>14, CrashMoves

\* The timer leaves the phase alone; what it asks for comes later.
LEMMA workloop_timer_elapsedMoves ==
    ASSUME IInv, workloop_timer_elapsed
    PROVE  MoveOK
<1>1. ClientOK(cl)
  BY DEF IInv, Holds
<1>2. UNCHANGED <<uri, owner>>
  BY DEF workloop_timer_elapsed
<1>3. CASE cl' = cl
  BY <1>2, <1>3, SteadyMoves DEF Steady, Steadfast
<1>4. ASSUME NEW c \in {Aged(cl)} \cup KeptAlive(Aged(cl))
      PROVE  ClientOK(c) /\ Steadfast(cl, c)
  <2> DEFINE a == Aged(cl)
  <2>1. ClientOK(a) /\ Steadfast(cl, a)
    BY <1>1, SteadfastOps
  <2>2. c = a \/ c = send(a, "note")
    BY DEF KeptAlive
  <2> HIDE DEF a
  <2>3. ClientOK(send(a, "note")) /\ Steadfast(a, send(a, "note"))
    BY <2>1, SteadfastOps
  <2> QED BY SMTT(30), <2>1, <2>2, <2>3, SteadfastChain
<1>5. ASSUME NEW c, ClientOK(c), Steadfast(cl, c), cl' = [NoSocketOps(c) EXCEPT !.socket = "closed"]
      PROVE  MoveOK
  <2> DEFINE a == NoSocketOps(c)
             d == [a EXCEPT !.socket = "closed"]
  <2>1. ClientOK(a) /\ Steadfast(c, a)
    BY <1>5, SteadfastOps
  <2>2. cl' = d
    BY <1>5
  <2> HIDE DEF a
  <2>3. Keeps(a, d, {"socket"})
    BY <2>1 DEF ClientOK, Shape, Keeps, Fields
  <2> HIDE DEF d
  <2>4. Steadfast(a, d)
    BY <2>3, KeepsSteadfast
  <2> QED BY <1>2, <1>5, <2>1, <2>2, <2>4, SteadfastChain, SteadfastMoves
<1>6. ASSUME NEW c, ClientOK(c), Steadfast(cl, c), cl' = clear_response_pleas(c)
      PROVE  MoveOK
  <2>1. Steadfast(c, cl')
    BY <1>6, SteadfastOps
  <2> QED BY <1>2, <1>6, <2>1, SteadfastChain, SteadfastMoves
<1>7. ASSUME NEW c, ClientOK(c) PROVE ClientOK(Rearmed(c)) /\ Steadfast(c, Rearmed(c))
  <2> DEFINE d == Rearmed(c)
  <2>1. Shape(d) /\ Keeps(c, d, {"timer"})
    BY <1>7 DEF ClientOK, Shape, Keeps, Fields, Rearmed
  <2> HIDE DEF d
  <2>2. ClientOK(d) /\ Steadfast(c, d)
    BY <1>7, <2>1 DEF ClientOK, Keeps, Fields, Steadfast
  <2> QED BY <2>2 DEF d
<1>8. ASSUME NEW c, ClientOK(c), Steadfast(cl, c),
             cl' = clear_response_pleas([Rearmed(c) EXCEPT !.endpoints = @ - 1])
      PROVE  MoveOK
  <2> DEFINE a == Rearmed(c)
             b == [a EXCEPT !.endpoints = @ - 1]
  <2>1. ClientOK(a) /\ Steadfast(c, a)
    BY <1>7, <1>8
  <2>2. cl' = clear_response_pleas(b)
    BY <1>8
  <2> HIDE DEF a
  <2>3. Shape(b) /\ Keeps(a, b, {"endpoints"})
    BY <2>1 DEF ClientOK, Shape, Keeps, Fields
  <2> HIDE DEF b
  <2>4. ClientOK(b) /\ Steadfast(a, b)
    BY <2>1, <2>3 DEF ClientOK, Keeps, Fields, Steadfast
  <2>5. Steadfast(cl, b)
    BY <1>8, <2>1, <2>4, SteadfastChain
  <2> QED BY <1>6, <2>2, <2>4, <2>5
<1>9. ASSUME NEW c, ClientOK(c), Steadfast(cl, c), cl' = Rearmed(c) PROVE MoveOK
  BY <1>2, <1>7, <1>9, SteadfastChain, SteadfastMoves
<1>10. \/ cl' = cl
       \/ \E c \in {Aged(cl)} \cup KeptAlive(Aged(cl)) :
              \/ cl' = [NoSocketOps(c) EXCEPT !.socket = "closed"]
              \/ cl' = clear_response_pleas(c)
              \/ cl' = clear_response_pleas([Rearmed(c) EXCEPT !.endpoints = @ - 1])
              \/ cl' = Rearmed(c)
  BY DEF workloop_timer_elapsed
<1> QED BY <1>3, <1>4, <1>5, <1>6, <1>8, <1>9, <1>10

\* Data are received.
LEMMA onRecvSocketDataCompletedMoves ==
    ASSUME IInv, onRecvSocketDataCompleted
    PROVE  MoveOK
<1>1. ClientOK(cl)
  BY DEF IInv, Holds
<1> DEFINE d == [cl EXCEPT !.newjob = FALSE]
<1>2. cl' = d /\ UNCHANGED <<uri, owner>>
  BY DEF onRecvSocketDataCompleted, TakeLine
<1>3. Keeps(cl, d, {"newjob"})
  BY <1>1 DEF ClientOK, Shape, Keeps, Fields
<1> HIDE DEF d
<1> QED BY <1>2, <1>3, KeepsSteadfast, SteadfastMoves

\* Reading goes on.
LEMMA endOfTransmissionMoves ==
    ASSUME IInv, endOfTransmission
    PROVE  MoveOK
<1>1. ClientOK(cl)
  BY DEF IInv, Holds
<1>2. Steadfast(cl, Start(cl, "read")) /\ Steadfast(cl, cl)
  BY <1>1, SteadfastOps DEF Ops, Steadfast
<1> QED BY <1>2, SteadfastMoves DEF endOfTransmission

\* The connection is found to be lost.
LEMMA onRecvErrorMoves ==
    ASSUME IInv, onRecvError
    PROVE  MoveOK
<1>1. cl' = cl /\ owner' = owner
  BY DEF onRecvError
<1>2. uri'.version = uri.version
  <2>1. CASE uri' = [uri EXCEPT !.unrecoverable = @ \/ cl.authpending]
    BY <2>1, UriShape DEF UriFields
  <2> QED BY <2>1 DEF onRecvError
<1> QED BY <1>1, <1>2, SteadyMoves DEF Steady, Steadfast

\* The pool is to be left.
LEMMA processHangupMoves ==
    ASSUME IInv, processHangup
    PROVE  MoveOK
BY SteadyMoves DEF processHangup, Steady, Steadfast

\* The pool refuses the worker.
LEMMA processError999Moves ==
    ASSUME IInv, processError999
    PROVE  MoveOK
BY SteadyMoves DEF processError999, Steady, Steadfast

\* A refused login leaves the phase alone.
LEMMA RefusedMoves ==
    ASSUME IInv, loginRefused(dequeue_response_plea(cl))
    PROVE  MoveOK
<1>1. Steadfast(cl, dequeue_response_plea(cl))
  BY SteadfastOps DEF IInv, Holds
<1>2. uri'.version = uri.version
  <2>1. uri' = [uri EXCEPT !.unrecoverable = @ \/ uri.confirmed]
    BY DEF loginRefused
  <2> QED BY <2>1, UriShape DEF UriFields
<1> QED BY <1>1, <1>2, SteadfastMoves DEF loginRefused

\* A tentative login was not answered.
LEMMA loginTimeoutMoves ==
    ASSUME IInv, loginTimeout
    PROVE  MoveOK
BY RefusedMoves, CrashMoves DEF loginTimeout

\* A client whose login is accepted was linked to its pool.
LEMMA AcceptedMoves ==
    ASSUME IInv, reading, cl.conn, loginAccepted(dequeue_response_plea(cl))
    PROVE  MoveOK
<1> DEFINE c == dequeue_response_plea(cl)
           started(session) == [c EXCEPT !.session = session, !.workAge = 0]
<1>1. /\ ClientOK(cl) /\ OwnerOK(cl, ioq, owner) /\ QuietOK(cl, ioq, reading, owner, uri)
      /\ LinkedOK(cl, ioq)
  BY DEF IInv, Holds, Core
<1>2. ClientOK(c) /\ Steadfast(cl, c)
  BY <1>1, SteadfastOps
<1>3. /\ owner' = "up" /\ uri' = [uri EXCEPT !.confirmed = TRUE]
      /\ \/ cl' = send(enqueue_response_plea(started("open")), "subscribe")
         \/ cl' = send(enqueue_response_plea(
                          [send(started("subscribed"), "note") EXCEPT !.authpending = TRUE]),
                          "authorize")
         \/ cl' = send(enqueue_response_plea(
                          [started("subscribed") EXCEPT !.authpending = TRUE]), "authorize")
         \/ cl' = send(started("authorized"), "note")
  BY DEF loginAccepted
<1> HIDE DEF c
<1>4. ASSUME NEW session PROVE ClientOK(started(session)) /\ Steadfast(cl, started(session))
  <2> DEFINE d == started(session)
  <2>1. Shape(d) /\ Keeps(c, d, {"session", "workAge"})
    BY <1>2 DEF ClientOK, Shape, Keeps, Fields
  <2> SUFFICES ClientOK(d) /\ Steadfast(cl, d)
    OBVIOUS
  <2> HIDE DEF d
  <2>2. ClientOK(d) /\ Steadfast(c, d)
    BY <1>2, <2>1 DEF ClientOK, Keeps, Fields, Steadfast
  <2> QED BY <1>2, <2>2, SteadfastChain
<1>5. ASSUME NEW d, ClientOK(d), Steadfast(cl, d)
      PROVE  LET e == [d EXCEPT !.authpending = TRUE] IN ClientOK(e) /\ Steadfast(cl, e)
  <2> DEFINE e == [d EXCEPT !.authpending = TRUE]
  <2> SUFFICES ClientOK(e) /\ Steadfast(cl, e)
    OBVIOUS
  <2>1. Shape(e) /\ Keeps(d, e, {"authpending"})
    BY <1>5 DEF ClientOK, Shape, Keeps, Fields
  <2> HIDE DEF e
  <2>2. ClientOK(e) /\ Steadfast(d, e)
    BY <1>5, <2>1 DEF ClientOK, Keeps, Fields, Steadfast
  <2> QED BY <1>5, <2>2, SteadfastChain
<1>6. ASSUME NEW d, ClientOK(d), Steadfast(cl, d), NEW r \in Requests
      PROVE  Steadfast(cl, send(enqueue_response_plea(d), r))
  <2>1. ClientOK(enqueue_response_plea(d)) /\ Steadfast(d, enqueue_response_plea(d))
    BY <1>6, SteadfastOps
  <2>2. Steadfast(enqueue_response_plea(d), send(enqueue_response_plea(d), r))
    BY <2>1, SteadfastOps
  <2> QED BY <1>6, <2>1, <2>2, SteadfastChain
<1>7. ASSUME NEW d, ClientOK(d), Steadfast(cl, d)
      PROVE  ClientOK(send(d, "note")) /\ Steadfast(cl, send(d, "note"))
  BY <1>7, SteadfastOps, SteadfastChain
<1>8. Steadfast(cl, cl')
  <2> DEFINE a == started("open")
             b == started("subscribed")
             e == started("authorized")
  <2>1. ClientOK(a) /\ Steadfast(cl, a) /\ ClientOK(b) /\ Steadfast(cl, b)
        /\ ClientOK(e) /\ Steadfast(cl, e)
    BY <1>4
  <2>2. \/ cl' = send(enqueue_response_plea(a), "subscribe")
        \/ cl' = send(enqueue_response_plea([send(b, "note") EXCEPT !.authpending = TRUE]), "authorize")
        \/ cl' = send(enqueue_response_plea([b EXCEPT !.authpending = TRUE]), "authorize")
        \/ cl' = send(e, "note")
    BY <1>3
  <2> HIDE DEF a, b, e
  <2> DEFINE f == send(b, "note")
             g == [f EXCEPT !.authpending = TRUE]
             h == [b EXCEPT !.authpending = TRUE]
  <2>3. ClientOK(f) /\ Steadfast(cl, f) /\ Steadfast(cl, send(e, "note"))
    BY <1>7, <2>1
  <2> HIDE DEF f
  <2>4. ClientOK(g) /\ Steadfast(cl, g) /\ ClientOK(h) /\ Steadfast(cl, h)
    BY <1>5, <2>1, <2>3
  <2>5. \/ cl' = send(enqueue_response_plea(a), "subscribe")
        \/ cl' = send(enqueue_response_plea(g), "authorize")
        \/ cl' = send(enqueue_response_plea(h), "authorize")
        \/ cl' = send(e, "note")
    BY <2>2 DEF f
  <2> HIDE DEF g, h
  <2>6. /\ Steadfast(cl, send(enqueue_response_plea(a), "subscribe"))
        /\ Steadfast(cl, send(enqueue_response_plea(g), "authorize"))
        /\ Steadfast(cl, send(enqueue_response_plea(h), "authorize"))
    BY <1>6, <2>1, <2>4 DEF Requests
  <2> QED BY <2>3, <2>5, <2>6
<1>9. uri'.version = uri.version
  BY <1>3, UriShape DEF UriFields
<1>10. owner \in {"connecting", "up"}
  BY <1>1 DEF OwnerOK
<1>11. uri.version # AutoDetect => cl.connected \/ cl.disconnecting
  BY <1>1 DEF QuietOK
<1> QED BY <1>3, <1>8, <1>9, <1>10, <1>11 DEF MoveOK, Moves, Phase, Steadfast

\* The login is answered: a linked client is up, or stays linked.
LEMMA processLoginMoves ==
    ASSUME IInv, processLogin
    PROVE  MoveOK
BY RefusedMoves, AcceptedMoves DEF processLogin, TakeLine

\* The subscription is answered.
LEMMA processSubscribeMoves ==
    ASSUME IInv, processSubscribe
    PROVE  MoveOK
<1> DEFINE c == dequeue_response_plea(cl)
           d == [c EXCEPT !.session = "subscribed", !.authpending = TRUE]
<1>1. ClientOK(c) /\ Steadfast(cl, c)
  BY SteadfastOps DEF IInv, Holds
<1>2. CASE cl' = c /\ owner' = owner /\ uri' = [uri EXCEPT !.unrecoverable = TRUE]
  <2>1. uri'.version = uri.version
    BY <1>2, UriShape DEF UriFields
  <2> QED BY <1>1, <1>2, <2>1, SteadfastMoves
<1>3. CASE cl' = send(enqueue_response_plea(d), "authorize") /\ UNCHANGED <<uri, owner>>
  <2> HIDE DEF c
  <2>1. Shape(d) /\ Keeps(c, d, {"session", "authpending"})
    BY <1>1 DEF ClientOK, Shape, Keeps, Fields
  <2> HIDE DEF d
  <2>2. ClientOK(d) /\ Steadfast(c, d)
    BY <1>1, <2>1 DEF ClientOK, Keeps, Fields, Steadfast
  <2>3. ClientOK(enqueue_response_plea(d)) /\ Steadfast(d, enqueue_response_plea(d))
    BY <2>2, SteadfastOps
  <2>4. Steadfast(enqueue_response_plea(d), send(enqueue_response_plea(d), "authorize"))
    BY <2>3, SteadfastOps DEF Requests
  <2> QED BY <1>1, <1>3, <2>2, <2>3, <2>4, SteadfastChain, SteadfastMoves
<1> QED BY <1>2, <1>3 DEF processSubscribe

\* The authorization is answered.
LEMMA processAuthorizeMoves ==
    ASSUME IInv, processAuthorize
    PROVE  MoveOK
<1> DEFINE c == dequeue_response_plea(cl)
           a == [c EXCEPT !.authpending = FALSE, !.session = "authorized"]
           b == [c EXCEPT !.authpending = @ /\ uri.mode = 3]
<1>1. ClientOK(c) /\ Steadfast(cl, c)
  BY SteadfastOps DEF IInv, Holds
<1>2. /\ owner' = owner
      /\ \/ cl' = a /\ UNCHANGED uri
         \/ cl' = b /\ uri' = [uri EXCEPT !.unrecoverable = TRUE]
  BY DEF processAuthorize
<1> HIDE DEF c
<1>3. Keeps(c, a, {"session", "authpending"}) /\ Keeps(c, b, {"session", "authpending"})
  BY <1>1 DEF ClientOK, Shape, Keeps, Fields
<1> HIDE DEF a, b
<1>4. Steadfast(c, a) /\ Steadfast(c, b)
  BY <1>3, KeepsSteadfast
<1>5. uri'.version = uri.version
  BY <1>2, UriShape DEF UriFields
<1> QED BY <1>1, <1>2, <1>4, <1>5, SteadfastChain, SteadfastMoves

\* A solution is answered.
LEMMA processSubmittedMoves ==
    ASSUME IInv, processSubmitted
    PROVE  MoveOK
<1>1. Steadfast(cl, dequeue_response_plea(cl))
  BY SteadfastOps DEF IInv, Holds
<1> QED BY <1>1, SteadfastMoves DEF processSubmitted

\* A job is received.
LEMMA processNotifyMoves ==
    ASSUME IInv, processNotify
    PROVE  MoveOK
<1>1. ClientOK(cl)
  BY DEF IInv, Holds
<1> DEFINE d == [cl EXCEPT !.newjob = TRUE, !.workAge = 0]
<1>2. (cl' = d \/ cl' = cl) /\ UNCHANGED <<uri, owner>>
  BY DEF processNotify
<1>3. Keeps(cl, d, {"newjob", "workAge"})
  BY <1>1 DEF ClientOK, Shape, Keeps, Fields
<1> HIDE DEF d
<1>4. Steadfast(cl, d) /\ Steadfast(cl, cl)
  BY <1>3, KeepsSteadfast DEF Steadfast
<1> QED BY <1>2, <1>4, SteadfastMoves

\* The pool sets a parameter.
LEMMA processSettingMoves ==
    ASSUME IInv, processSetting
    PROVE  MoveOK
<1>1. ClientOK(cl)
  BY DEF IInv, Holds
<1> DEFINE d == [cl EXCEPT !.miningSet = @ \/ (uri.confirmed /\ uri.mode = 3)]
<1>2. cl' = d /\ UNCHANGED <<uri, owner>>
  BY DEF processSetting, TakeLine
<1>3. Keeps(cl, d, {"miningSet"})
  BY <1>1 DEF ClientOK, Shape, Keeps, Fields
<1> HIDE DEF d
<1> QED BY <1>2, <1>3, KeepsSteadfast, SteadfastMoves

\* A write is done, or fails.
LEMMA onSendSocketDataCompletedMoves ==
    ASSUME IInv, onSendSocketDataCompleted
    PROVE  MoveOK
<1>1. ClientOK(cl)
  BY DEF IInv, Holds
<1> DEFINE a == [cl EXCEPT !.txPending = FALSE]
           e == Emptied(cl)
           b == [e EXCEPT !.txPending = FALSE]
<1>2. (cl' = a \/ cl' = sendSocketData(cl) \/ cl' = b) /\ UNCHANGED <<uri, owner>>
  BY DEF onSendSocketDataCompleted
<1>3. ClientOK(e) /\ Steadfast(cl, e) /\ Steadfast(cl, sendSocketData(cl))
  BY <1>1, SteadfastOps
<1> HIDE DEF e
<1>4. Keeps(cl, a, {"txPending"}) /\ Keeps(e, b, {"txPending"})
  BY <1>1, <1>3 DEF ClientOK, Shape, Keeps, Fields
<1> HIDE DEF a, b
<1>5. Steadfast(cl, a) /\ Steadfast(cl, b)
  BY <1>3, <1>4, KeepsSteadfast, SteadfastChain
<1> QED BY <1>2, <1>3, <1>5, SteadfastMoves

\* The TLS stream is shut down.
LEMMA onSSLShutdownCompletedMoves ==
    ASSUME IInv, onSSLShutdownCompleted
    PROVE  MoveOK
<1>1. Steadfast(cl, clear_response_pleas(cl))
  BY SteadfastOps DEF IInv, Holds
<1> QED BY <1>1, SteadfastMoves DEF onSSLShutdownCompleted

\* A handler that runs is queued.
LEMMA RunsQueued ==
    ASSUME IInv, NEW h, Run(h), NEW S, h \in S
    PROVE  ~NoneIn(ioq, S)
<1>1. ioq \in Seq(Handlers) /\ ioq # <<>> /\ Head(ioq) = h
  BY DEF IInv, Holds, Run
<1> QED BY <1>1, Popped

\* A client that is down is replaced or given up.
LEMMA rotateConnectMoves ==
    ASSUME IInv, rotateConnect
    PROVE  MoveOK
<1>1. OwnerOK(cl, ioq, owner)
  BY DEF IInv, Holds, Core
<1>2. owner = "down"
  <2>1. ~NoneIn(ioq, Rotates)
    BY RunsQueued, Members DEF rotateConnect
  <2> QED BY <1>1, <2>1 DEF OwnerOK
<1>3. CASE Crash
  BY <1>3, CrashMoves
<1>4. CASE owner' = "gone" /\ UNCHANGED uri
  BY <1>2, <1>4 DEF MoveOK, Moves, Phase
<1>5. CASE owner' = "connecting" /\ cl' = NewClient /\ uri' = [uri EXCEPT !.responds = FALSE]
  <2>1. uri'.version = uri.version
    BY <1>5, UriShape DEF UriFields
  <2>2. cl'.connected = FALSE /\ cl'.disconnecting = FALSE
    BY <1>5 DEF NewClient
  <2> QED BY <1>2, <1>5, <2>1, <2>2 DEF MoveOK, Moves, Phase
<1> QED BY <1>3, <1>4, <1>5 DEF rotateConnect

\* A queued disconnection finds the client connected or closing.
LEMMA QueuedDisconnectMoves ==
    ASSUME IInv, Disconnect
    PROVE  MoveOK
<1>1. Core(cl, ioq, reading, owner, uri)
  BY DEF IInv, Holds
<1>2. ~NoneIn(ioq, Discs)
  BY RunsQueued, Members DEF Disconnect
<1>3. ~GivenUp(cl, uri)
  BY <1>1, <1>2 DEF Core, QuietOK, GivenUp, Calm
<1> QED BY <1>3, DisconnectMoves DEF Disconnect

\* So does one that the PoolManager asks for.
LEMMA ownerDisconnectsMoves ==
    ASSUME IInv, ownerDisconnects
    PROVE  MoveOK
<1>1. Core(cl, ioq, reading, owner, uri) /\ owner = "up"
  BY DEF IInv, Holds, ownerDisconnects
<1>2. ~GivenUp(cl, uri)
  BY <1>1 DEF Core, QuietOK, GivenUp
<1> QED BY <1>2, DisconnectMoves DEF ownerDisconnects

\* A disconnection is finalized.
LEMMA QueuedFinalizeMoves ==
    ASSUME IInv, Finalize
    PROVE  MoveOK
BY FinalizeMoves DEF Finalize

\* The network completes an operation.
LEMMA CompleteMoves ==
    ASSUME IInv, NEW op \in Ops, NEW handlers, Complete(op, handlers)
    PROVE  MoveOK
<1>1. ClientOK(cl) /\ cl.ops[op] > 0 /\ cl' = Done(cl, op) /\ UNCHANGED <<uri, owner>>
  BY DEF IInv, Holds, Complete
<1>2. Keeps(cl, Done(cl, op), {"ops"})
  BY <1>1, DoneIs
<1>3. Steadfast(cl, Done(cl, op))
  BY <1>2, KeepsSteadfast
<1> QED BY <1>1, <1>3, SteadfastMoves

\* The pool sends.
LEMMA poolSendsMoves ==
    ASSUME IInv, poolSends
    PROVE  MoveOK
<1>1. ClientOK(cl)
  BY DEF IInv, Holds
<1>2. cl.ops["read"] > 0 /\ UNCHANGED <<uri, owner>>
  BY DEF poolSends
<1>3. PICK x : cl' = Done([cl EXCEPT !.wire = x], "read") /\ x \in Seq(Requests)
  <2>1. PICK i \in 0..Len(cl.wire) :
             cl' = Done([cl EXCEPT !.wire = IF i = 0 THEN @ ELSE Without(@, i)], "read")
    BY DEF poolSends
  <2> DEFINE x == IF i = 0 THEN cl.wire ELSE Without(cl.wire, i)
  <2>2. x \in Seq(Requests)
    <3>1. cl.wire \in Seq(Requests)
      BY <1>1 DEF ClientOK
    <3>2. i # 0 => i \in 1..Len(cl.wire)
      BY SMT, <3>1
    <3> QED BY <3>1, <3>2, WithoutIs
  <2> QED BY <2>1, <2>2
<1> DEFINE w == [cl EXCEPT !.wire = x]
<1>4. Shape(w) /\ Keeps(cl, w, {"wire"}) /\ w.wire = x
  BY <1>1 DEF ClientOK, Shape, Keeps, Fields
<1>5. cl' = Done(w, "read")
  BY <1>3
<1> HIDE DEF w
<1>6. ClientOK(w) /\ Steadfast(cl, w) /\ w.ops["read"] > 0
  BY <1>1, <1>2, <1>3, <1>4 DEF ClientOK, Keeps, Fields, Steadfast
<1>7. Keeps(w, Done(w, "read"), {"ops"})
  BY <1>6, DoneIs DEF Ops
<1>8. Steadfast(w, Done(w, "read"))
  BY <1>7, KeepsSteadfast
<1> QED BY <1>2, <1>5, <1>6, <1>8, SteadfastChain, SteadfastMoves

\* The timer expires.
LEMMA timerFiresMoves ==
    ASSUME IInv, timerFires
    PROVE  MoveOK
<1>1. ClientOK(cl)
  BY DEF IInv, Holds
<1> DEFINE d == [cl EXCEPT !.timer = FALSE]
<1>2. cl' = d /\ UNCHANGED <<uri, owner>>
  BY DEF timerFires
<1>3. Keeps(cl, d, {"timer"})
  BY <1>1 DEF ClientOK, Shape, Keeps, Fields
<1> HIDE DEF d
<1> QED BY <1>2, <1>3, KeepsSteadfast, SteadfastMoves

\* A solution is submitted.
LEMMA submitSolutionMoves ==
    ASSUME IInv, submitSolution
    PROVE  MoveOK
<1>1. ClientOK(cl)
  BY DEF IInv, Holds
<1>2. ClientOK(enqueue_response_plea(cl)) /\ Steadfast(cl, enqueue_response_plea(cl))
  BY <1>1, SteadfastOps
<1>3. Steadfast(enqueue_response_plea(cl), send(enqueue_response_plea(cl), "submit"))
  BY <1>2, SteadfastOps DEF Requests
<1>4. cl' = send(enqueue_response_plea(cl), "submit") /\ UNCHANGED <<uri, owner>>
  BY DEF submitSolution
<1> QED BY <1>2, <1>3, <1>4, SteadfastChain, SteadfastMoves

\* The hashrate is submitted.
LEMMA submitHashrateMoves ==
    ASSUME IInv, submitHashrate
    PROVE  MoveOK
<1>1. ClientOK(cl)
  BY DEF IInv, Holds
<1>2. Steadfast(cl, send(cl, "note"))
  BY <1>1, SteadfastOps
<1> QED BY <1>2, SteadfastMoves DEF submitHashrate

\* Every step moves the client as PoolClient says.
LEMMA NextMoves ==
    ASSUME IInv, Next
    PROVE  MoveOK
<1>1. CASE IoThread
  <2>1. CASE processOrphan \/ processWithoutSession
    BY <2>1, CrashMoves DEF processOrphan, processWithoutSession
  <2> QED
    BY <1>1, <2>1, connectMoves, resolve_handlerMoves, start_connectMoves, connectFailedMoves,
       connectedMoves, workloop_timer_elapsedMoves, onRecvSocketDataCompletedMoves,
       endOfTransmissionMoves, onRecvErrorMoves, processHangupMoves, processLoginMoves,
       loginTimeoutMoves, processError999Moves, processSubscribeMoves, processAuthorizeMoves,
       processSubmittedMoves, processNotifyMoves, processSettingMoves,
       onSendSocketDataCompletedMoves, QueuedDisconnectMoves, QueuedFinalizeMoves,
       onSSLShutdownCompletedMoves, rotateConnectMoves DEF IoThread
<1>2. CASE resolverAnswers \/ peerConnects \/ peerCloses \/ peerTakes \/ peerShutsDown
  BY <1>2, CompleteMoves DEF Ops, resolverAnswers, peerConnects, peerCloses, peerTakes, peerShutsDown
<1>3. CASE poolSends \/ timerFires
  BY <1>3, poolSendsMoves, timerFiresMoves
<1>4. CASE submitSolution \/ submitHashrate \/ ownerDisconnects
  BY <1>4, submitSolutionMoves, submitHashrateMoves, ownerDisconnectsMoves
<1> QED BY <1>1, <1>2, <1>3, <1>4 DEF Next, Network

\* The phase, in a state of the invariant.
LEMMA PhaseIs ==
    IInv => clientPhase = IF uri.version = AutoDetect THEN "trying" ELSE Phase(cl, owner)
<1> SUFFICES ASSUME IInv
             PROVE  clientPhase = IF uri.version = AutoDetect THEN "trying" ELSE Phase(cl, owner)
  OBVIOUS
<1>1. isConnected(cl) <=> cl.connected
  BY LinkedIs DEF IInv, Holds
<1> QED BY <1>1 DEF clientPhase, Phase

\* A client with an explicit scheme is what the PoolManager relies on: it is linked before it is
\* up, up until it closes or is down, down once, and only a rotation replaces it or gives it up.
THEOREM StratumRefinement == Spec => ImplementsPoolClient
<1>1. Init => Client!Init
  <2> SUFFICES ASSUME Init PROVE clientPhase = "trying"
    BY DEF Client!Init
  <2>1. owner = "connecting" /\ cl = NewClient
    BY DEF Init
  <2>2. cl.connected = FALSE /\ cl.disconnecting = FALSE
    BY <2>1 DEF NewClient
  <2> QED BY <2>1, <2>2 DEF clientPhase, isConnected
<1>2. IInv /\ IInv' /\ [Next]_vars => [Client!Next]_clientPhase
  <2> SUFFICES ASSUME IInv, IInv', [Next]_vars PROVE [Client!Next]_clientPhase
    OBVIOUS
  <2>1. CASE UNCHANGED vars
    BY <2>1 DEF vars, clientPhase, isConnected, isPendingState
  <2>2. CASE Next
    <3>1. MoveOK
      BY <2>2, NextMoves
    <3>2. clientPhase = IF uri.version = AutoDetect THEN "trying" ELSE Phase(cl, owner)
      BY PhaseIs
    <3>3. clientPhase' = IF uri'.version = AutoDetect THEN "trying" ELSE Phase(cl', owner')
      <4>1. (IInv => clientPhase = IF uri.version = AutoDetect THEN "trying"
                                   ELSE Phase(cl, owner))'
        BY PhaseIs, PTL
      <4> QED BY <4>1 DEF Phase
    <3>4. Moves(clientPhase, clientPhase')
      <4>1. CASE uri.version = AutoDetect
        BY <3>1, <3>2, <3>3, <4>1 DEF MoveOK, Moves
      <4>2. CASE uri.version # AutoDetect
        BY <3>1, <3>2, <3>3, <4>2 DEF MoveOK
      <4> QED BY <4>1, <4>2
    <3> QED
      BY <3>4 DEF Moves, Client!Next, Client!Step, Client!Link, Client!Retry, Client!Login,
                  Client!Open, Client!Close, Client!Fail, Client!Replace, Client!GiveUp
  <2> QED BY <2>1, <2>2
<1> QED BY <1>1, <1>2, StratumInvariant, PTL DEF Spec, ImplementsPoolClient, Client!Spec

-----------------------------------------------------------------------------
(* The properties that count handlers *)

Finite == INSTANCE FiniteSetTheorems

\* The number of the queued handlers of a kind.
LEMMA QueuedIs ==
    ASSUME ioq \in Seq(Handlers), NEW S
    PROVE  /\ Queued(S) \in Nat
           /\ NoneIn(ioq, S) <=> Queued(S) = 0
           /\ Once(ioq, S) => Queued(S) <= 1
<1> DEFINE I == {i \in DOMAIN ioq : ioq[i] \in S}
<1>1. Finite!IsFiniteSet(I)
  <2>1. DOMAIN ioq = 1..Len(ioq) /\ Len(ioq) \in Nat
    BY SMTT(30)
  <2>2. Finite!IsFiniteSet(1..Len(ioq))
    BY SMTT(30), <2>1, Finite!FS_Interval
  <2> QED BY <2>1, <2>2, Finite!FS_Subset
<1>2. Queued(S) = Finite!Cardinality(I)
  BY DEF Queued, Cardinality, Finite!Cardinality
<1>3. NoneIn(ioq, S) <=> I = {}
  BY DEF NoneIn
<1>4. ASSUME Once(ioq, S), I # {} PROVE \E i : I = {i}
  <2>1. PICK i : i \in I
    BY <1>4
  <2>2. \A j \in I : j = i
    BY <1>4, <2>1 DEF Once
  <2> QED BY <2>1, <2>2
<1> HIDE DEF I
<1>5. Finite!Cardinality(I) \in Nat /\ (Finite!Cardinality(I) = 0 <=> I = {})
  BY <1>1, Finite!FS_CardinalityType, Finite!FS_EmptySet
<1>6. ASSUME Once(ioq, S) PROVE Finite!Cardinality(I) <= 1
  <2>1. CASE I = {}
    BY SMTT(30), <1>5, <2>1
  <2>2. CASE I # {}
    <3>1. PICK i : I = {i}
      BY <1>4, <1>6, <2>2
    <3>2. Finite!Cardinality({i}) = 1
      BY Finite!FS_Singleton
    <3> QED BY SMTT(30), <3>1, <3>2
  <2> QED BY <2>1, <2>2
<1> QED BY <1>2, <1>3, <1>5, <1>6

\* One read at most is pending, queued or being handled, and one write is pending or queued.
THEOREM ReadsAndWritesAlone == Spec => []IoDoesNotOverlap
<1>1. IInv => IoDoesNotOverlap
  <2> SUFFICES ASSUME IInv PROVE IoDoesNotOverlap
    OBVIOUS
  <2>1. ioq \in Seq(Handlers) /\ OpsOK(cl, ioq, reading)
    BY DEF IInv, Holds, Core
  <2> DEFINE r == Queued(Reads)
             w == Queued(Writes)
  <2>2. r \in Nat /\ (NoneIn(ioq, Reads) <=> r = 0) /\ (Once(ioq, Reads) => r <= 1)
    BY <2>1, QueuedIs
  <2>3. w \in Nat /\ (NoneIn(ioq, Writes) <=> w = 0) /\ (Once(ioq, Writes) => w <= 1)
    BY <2>1, QueuedIs
  <2>4. r = Queued({"read", "read_err"}) /\ w = Queued({"write_ok", "write_err"})
    BY DEF Reads, Writes
  <2> HIDE DEF r, w
  <2>5. cl.ops["read"] + r + (IF reading THEN 1 ELSE 0) <= 1
    BY SMTT(30), <2>1, <2>2 DEF OpsOK, AtMostOne, Nothing
  <2>6. cl.ops["write"] + w <= 1
    BY SMTT(30), <2>1, <2>3 DEF OpsOK, AtMostOne
  <2> QED BY <2>4, <2>5, <2>6 DEF IoDoesNotOverlap
<1> QED BY <1>1, StratumInvariant, PTL

\* The PoolManager is told once that a client is down, and replaces it once.
THEOREM RotatedOnce == Spec => []OneRotationPerClient
<1>1. IInv => OneRotationPerClient
  <2> SUFFICES ASSUME IInv PROVE Queued({"rotateConnect"}) = IF owner = "down" THEN 1 ELSE 0
    BY DEF OneRotationPerClient
  <2>1. ioq \in Seq(Handlers) /\ OwnerOK(cl, ioq, owner)
    BY DEF IInv, Holds, Core
  <2> DEFINE n == Queued(Rotates)
  <2>2. n \in Nat /\ (NoneIn(ioq, Rotates) <=> n = 0) /\ (Once(ioq, Rotates) => n <= 1)
    BY <2>1, QueuedIs
  <2>3. n = Queued({"rotateConnect"})
    BY DEF Rotates
  <2> HIDE DEF n
  <2>4. n = IF owner = "down" THEN 1 ELSE 0
    BY SMTT(30), <2>1, <2>2 DEF OwnerOK
  <2> QED BY <2>3, <2>4
<1> QED BY <1>1, StratumInvariant, PTL

\* Whatever the pool owes an answer to is timed, or the connection is about to be dropped.
THEOREM AnswersTimed == Spec => []AnswersAreTimed
<1>1. IInv => AnswersAreTimed
  <2> DEFINE S == {"disconnect", "login_timeout"}
  <2> SUFFICES ASSUME IInv, isConnected(cl), cl.wire # <<>>, cl.pleas = <<>>, ~(Queued(S) > 0)
               PROVE  FALSE
    BY DEF AnswersAreTimed
  <2>1. ioq \in Seq(Handlers) /\ ClientOK(cl) /\ TimedOK(cl, ioq, inbox, rx) /\ cl.connected
    BY DEF IInv, Holds, isConnected
  <2>2. Queued(S) \in Nat /\ (NoneIn(ioq, S) <=> Queued(S) = 0)
    <3> HIDE DEF S
    <3> QED BY <2>1, QueuedIs
  <2>3. NoneIn(ioq, S)
    <3> HIDE DEF S
    <3> QED BY SMTT(30), <2>2
  <2>4. NoneIn(ioq, Discs) /\ NoneIn(ioq, Timeouts)
    BY <2>3 DEF NoneIn, Discs, Timeouts
  <2>5. Awaited(cl) + Owed(rx) + Received(inbox) <= Pleas(cl)
    BY <2>1, <2>4 DEF TimedOK
  <2>6. Pleas(cl) = 0
    BY SMTT(30) DEF Pleas
  <2>7. Awaited(cl) \in Nat /\ Awaited(cl) > 0
    <3>1. cl.wire \in Seq(Requests) /\ cl.txQueue \in Seq(Requests)
      BY <2>1 DEF ClientOK
    <3> DEFINE m == Len(cl.wire)
               n == Len(cl.txQueue)
    <3>2. m \in Nat /\ m > 0 /\ n \in Nat
      BY SMTT(30), <3>1
    <3>3. Awaited(cl) = m + n
      BY DEF Awaited
    <3> HIDE DEF m, n
    <3> QED BY SMTT(30), <3>2, <3>3
  <2>8. Owed(rx) \in {0, 1} /\ Received(inbox) \in {0, 1}
    BY Counts
  <2> QED BY SMTT(30), <2>5, <2>6, <2>7, <2>8
<1> QED BY <1>1, StratumInvariant, PTL

=============================================================================
