---------------------------- MODULE ApiRequests ----------------------------
(***************************************************************************)
(* libapi/ApiServer.cpp: what a request of the API does.                   *)
(*                                                                         *)
(* A JSON value is [type, v]; the v of an object maps the names of its     *)
(* members to values.  The miner behind the API is one record:             *)
(*   paused       the miners with PauseDueToAPIRequest                     *)
(*   nonce, verbosity, restarts, reboots                                   *)
(*   connections, active, switches, pending, client      of PoolManager    *)
(*   rates        the hash rate of each miner, in m_telemetry of Farm      *)
(* client = FALSE: p_client is null.                                       *)
(***************************************************************************)
EXTENDS Integers, Sequences, FiniteSets, Functions

CONSTANTS
    LogNext,            \* LOG_NEXT
    Width,              \* the bits of the hash rates that are shown
    Hex,                \* the texts of hexadecimal digits
    Uris                \* the texts that URI::URI accepts

ASSUME ApiRequestsAssumption == LogNext \in Nat /\ Width \in Nat

Absent == [type |-> "absent"]
Object(members) == [type |-> "object", v |-> members]
String(s) == [type |-> "string", v |-> s]
UInt(n) == [type |-> "uint", v |-> n]
Bool(b) == [type |-> "bool", v |-> b]

\* Throws Json::LogicError on an array or a scalar: callers test the type of the root first.
Member(object, name) == IF name \in DOMAIN object.v THEN object.v[name] ELSE Absent

IsEmpty(value) == value.type \in {"null", "absent"} \/ (value.type = "object" /\ DOMAIN value.v = {})

\* The four overloads; every caller passes optional = false, and every error is -32602.
getRequestValue(type, name, object) ==
    LET value == Member(object, name)
    IN value.type = type /\ ~IsEmpty(value)

Value(name, object) == Member(object, name).v

-----------------------------------------------------------------------------
(* The statistics.  Each is read from one copy of the telemetry. *)

Sum(rates) == FoldFunction(+, 0, rates)

\* uint32_t of a hash rate
Shown(rate) == rate % 2^Width

getActiveConnection(miner) == miner.connections[miner.active + 1]

getMinerStat1(miner) ==
    [hashrate |-> Sum(miner.rates), detailed |-> miner.rates, pool |-> getActiveConnection(miner)]

\* mutant: a paused miner shows no hash rate
getMinerStatDetailPerMiner_Paused(miner, i) ==
    [hashrate |-> IF i \in miner.paused THEN 0 ELSE Shown(miner.rates[i]), paused |-> i \in miner.paused]
getMinerStatDetailPerMiner(miner, i) ==
    [hashrate |-> Shown(miner.rates[i]), paused |-> i \in miner.paused]

\* Needs the client: PoolManager::isConnected does not test p_client.
getMinerStatDetail(miner) ==
    [uri |-> getActiveConnection(miner), switches |-> miner.switches, hashrate |-> Shown(Sum(miner.rates)),
     devices |-> [i \in DOMAIN miner.rates |-> getMinerStatDetailPerMiner(miner, i)]]

\* The total of /metrics is the one of the statistics, the total of / adds up the rows.
getHttpMinerMetrics(miner) == getMinerStatDetail(miner).hashrate
getHttpMinerStatDetail(miner) ==
    LET devices == getMinerStatDetail(miner).devices
    IN Sum([i \in DOMAIN devices |-> devices[i].hashrate])

-----------------------------------------------------------------------------
(* The methods: [miner, error], where error = 0 is a result. *)

Done(miner) == [miner |-> miner, error |-> 0]
Refused(miner, code) == [miner |-> miner, error |-> code]

miner_addconnection(miner, p) ==
    IF Value("uri", p) \in Uris
    THEN Done([miner EXCEPT !.connections = Append(@, Value("uri", p))])
    ELSE Refused(miner, -422)

\* A null client is dereferenced: Crashes
setActiveConnectionCommon(miner, idx) ==
    IF miner.pending THEN Refused(miner, -422)
    ELSE IF idx = miner.active THEN Done(miner)
    ELSE Done([miner EXCEPT !.active = idx, !.switches = @ + 1, !.pending = TRUE])

Found(miner, uri) == {i \in DOMAIN miner.connections : miner.connections[i] = uri}

miner_setactiveconnection(miner, p) ==
    IF "index" \in DOMAIN p.v
    THEN IF getRequestValue("uint", "index", p) /\ Value("index", p) < Len(miner.connections)
         THEN setActiveConnectionCommon(miner, Value("index", p))
         ELSE Refused(miner, -422)
    ELSE IF getRequestValue("string", "URI", p) /\ Found(miner, Value("URI", p)) # {}
         THEN LET found == Found(miner, Value("URI", p))
              IN setActiveConnectionCommon(miner, (CHOOSE i \in found : \A j \in found : i <= j) - 1)
         ELSE Refused(miner, -422)

Without(s, i) == SubSeq(s, 1, i) \o SubSeq(s, i + 2, Len(s))

miner_removeconnection_Index(miner, p) == \* mutant: the index of the active one is left as it is
    LET idx == Value("index", p)
    IN IF miner.pending \/ idx >= Len(miner.connections) \/ idx = miner.active THEN Refused(miner, -422)
       ELSE Done([miner EXCEPT !.connections = Without(@, idx)])
miner_removeconnection(miner, p) ==
    LET idx == Value("index", p)
    IN IF miner.pending \/ idx >= Len(miner.connections) \/ idx = miner.active THEN Refused(miner, -422)
       ELSE Done([miner EXCEPT !.connections = Without(@, idx), !.active = IF @ > idx THEN @ - 1 ELSE @])

miner_pausegpu(miner, p) ==
    LET i == Value("index", p) + 1
    IN IF i \notin DOMAIN miner.rates THEN Refused(miner, -422)
       ELSE Done([miner EXCEPT !.paused = IF Value("pause", p) THEN @ \cup {i} ELSE @ \ {i}])

miner_setverbosity(miner, p) ==
    IF Value("verbosity", p) >= LogNext THEN Refused(miner, -422)
    ELSE Done([miner EXCEPT !.verbosity = Value("verbosity", p)])

miner_setnonce(miner, p) ==
    IF "nonce" \notin DOMAIN p.v THEN Done(miner)
    ELSE IF getRequestValue("string", "nonce", p) /\ Value("nonce", p) \in Hex
         THEN Done([miner EXCEPT !.nonce = Value("nonce", p)])
         ELSE Refused(miner, -422)

\* The methods that write, with the types of the members of params that each asks for first
Asks == [miner_restart |-> <<>>, miner_reboot |-> <<>>, miner_addconnection |-> [uri |-> "string"],
         miner_setactiveconnection |-> <<>>, miner_removeconnection |-> [index |-> "uint"],
         miner_pausegpu |-> [index |-> "uint", pause |-> "bool"],
         miner_setverbosity |-> [verbosity |-> "uint"], miner_setnonce |-> <<>>]
Writes == DOMAIN Asks
Reads == {"miner_getstat1", "miner_getstatdetail", "miner_ping", "miner_getconnections", "miner_getnonce"}

Write(miner, method, p) ==
    CASE method = "miner_addconnection" -> miner_addconnection(miner, p)
      [] method = "miner_setactiveconnection" -> miner_setactiveconnection(miner, p)
      [] method = "miner_removeconnection" -> miner_removeconnection(miner, p)
      [] method = "miner_pausegpu" -> miner_pausegpu(miner, p)
      [] method = "miner_setverbosity" -> miner_setverbosity(miner, p)
      [] method = "miner_setnonce" -> miner_setnonce(miner, p)

checkApiWriteAccess(readonly) == ~readonly

Execute(miner, readonly, method, request) ==
    LET p == Member(request, "params")
    IN IF method \in Reads THEN Done(miner)
       ELSE IF method \notin Writes \/ ~checkApiWriteAccess(readonly) THEN Refused(miner, -32601)
       ELSE IF method = "miner_restart" THEN Done([miner EXCEPT !.restarts = @ + 1])
       ELSE IF method = "miner_reboot" THEN Done([miner EXCEPT !.reboots = @ + 1])
       ELSE IF /\ getRequestValue("object", "params", request)
               /\ \A name \in DOMAIN Asks[method] : getRequestValue(Asks[method][name], name, p)
            THEN Write(miner, method, p)
            ELSE Refused(miner, -32602)

-----------------------------------------------------------------------------
(* processRequest.  A session is [authenticated, ...]. *)

parseRequestId(request) ==
    LET id == Member(request, "id") IN ~IsEmpty(id) /\ id.type \in {"uint", "string"}

WellFormed(request) ==
    /\ parseRequestId(request)
    /\ getRequestValue("string", "jsonrpc", request) /\ Value("jsonrpc", request) = "2.0"
    /\ getRequestValue("string", "method", request)

\* The first 500 characters of the passwords are compared.
HasPassword(request) ==
    /\ getRequestValue("object", "params", request)
    /\ getRequestValue("string", "psw", Member(request, "params"))
PasswordGiven(request, password) ==
    HasPassword(request) /\ Value("psw", Member(request, "params")) = password

Authorize_Keeps(session, request, password) == \* mutant: a wrong password leaves the session as it was
    session.authenticated \/ PasswordGiven(request, password)
Authorize(session, request, password) == PasswordGiven(request, password)

\* Json::Reader takes any value; isMember throws on one that is not an object (or null).
Throws(request) == request.type \notin {"object", "null"}

\* [miner, authenticated, error]
processRequest(miner, session, request, config) ==
    LET is == [miner |-> miner, authenticated |-> session.authenticated, error |-> 0]
    IN IF Throws(request) THEN [is EXCEPT !.error = 500]
       ELSE IF request.type = "null" \/ ~WellFormed(request) THEN [is EXCEPT !.error = -32600]
       ELSE LET method == Value("method", request)
            IN IF method = "api_authorize"
               THEN LET ok == Authorize(session, request, config.password)
                    IN [is EXCEPT !.authenticated = ok, 
                              !.error = IF ok THEN 0 ELSE IF HasPassword(request) THEN -401 ELSE -32602]
               ELSE IF ~session.authenticated THEN [is EXCEPT !.error = -403]
               ELSE LET e == Execute(miner, config.readonly, method, request)
                    IN [is EXCEPT !.miner = e.miner, !.error = e.error]

\* The request has PoolManager dereference a client that does not exist yet.
Crashes(miner, session, request, config) ==
    /\ ~miner.client
    /\ request.type = "object" /\ WellFormed(request)
    /\ session.authenticated /\ Value("method", request) # "api_authorize"
    /\ \/ Value("method", request) = "miner_getstatdetail"
       \/ processRequest(miner, session, request, config).miner.active # miner.active
          /\ Value("method", request) = "miner_setactiveconnection"
=============================================================================
