---------------------------- MODULE MCApiServer ----------------------------
(* Two clients.  Lines come whole, in two parts, several at a time; requests are right, refused *)
(* and malformed in each of the ways that are told apart.                                      *)
EXTENDS ApiServer

Request(method, params) ==
    Object([id |-> UInt(1), jsonrpc |-> String("2.0"), method |-> String(method), params |-> params])
NoParams == Absent
Json(value) == [kind |-> "json", size |-> 5, what |-> value]
Call(method, params) == Json(Request(method, params))
Half == [kind |-> "half", size |-> 4, what |-> Bad]
Blank == [kind |-> "blank", size |-> 1, what |-> Bad]
Http(method, path) == [kind |-> "http", size |-> 9, what |-> [method |-> method, path |-> path]]

Authorize1(psw) == Call("api_authorize", Object([psw |-> String(psw)]))
Pause(i, b) == Call("miner_pausegpu", Object([index |-> UInt(i), pause |-> Bool(b)]))
SetActive(i) == Call("miner_setactiveconnection", Object([index |-> UInt(i)]))
RemovePool(i) == Call("miner_removeconnection", Object([index |-> UInt(i)]))
Add(uri) == Call("miner_addconnection", Object([uri |-> String(uri)]))
Nonce(n) == Call("miner_setnonce", Object([nonce |-> String(n)]))

Case(port, password, one, two) == [port |-> port, password |-> password, sent |-> <<one, two>>]

\* The two clients meet at the pools, at the miners, at the end of a session, or at the answers.
MCCases == <<
    Case(3333, "pw", <<Authorize1("pw"), Half, Pause(1, TRUE)>>, <<Pause(0, TRUE), Authorize1("")>>),
    Case(3333, "pw", <<Authorize1("pw"), Authorize1("no"), Pause(0, TRUE)>>,
                     <<Call("api_authorize", NoParams)>>),
    Case(3333, "", <<Authorize1(""), Pause(0, FALSE)>>, <<Authorize1("pw"), Pause(1, TRUE)>>),
    Case(3333, "", <<RemovePool(0), SetActive(1)>>, <<SetActive(1), RemovePool(0)>>),
    Case(3333, "", <<Add("bad"), Half, Call("miner_setactiveconnection", Object([URI |-> String("b")]))>>,
                   <<Half, Call("miner_getstatdetail", NoParams), Blank>>),
    Case(3333, "", <<Half, Http("GET", "/metrics"), Half>>, <<Pause(0, TRUE), Half, Http("GET", "/")>>),
    Case(3333, "", <<Http("PUT", "/")>>, <<Half, Http("GET", "/x")>>),
    Case(3333, "", <<Blank, Blank, Blank, Call("miner_ping", NoParams)>>, <<Http("GET", "/getstat1")>>),
    Case(3333, "", <<Json(Bad), Json([type |-> "array"])>>,
                   <<Json([type |-> "null"]), Json(Object([id |-> Object(<<>>)]))>>),
    Case(3333, "", <<Call("miner_restart", NoParams), Nonce("f")>>, <<Call("miner_reboot", NoParams), Nonce("x")>>),
    Case(-3333, "", <<Call("miner_restart", NoParams), Pause(0, TRUE)>>, <<SetActive(1)>>),
    Case(3333, "", <<Call("miner_setnonce", Object([other |-> UInt(0)])),
                     Call("miner_setverbosity", Object([verbosity |-> UInt(4)]))>>,
                   <<Call("miner_setverbosity", Object([verbosity |-> UInt(3)])), Pause(7, TRUE)>>),
    Case(3333, "", <<Call("miner_setactiveconnection", Object([index |-> String("0")])), SetActive(9)>>,
                   <<Call("miner_setactiveconnection", Object([URI |-> String("z")])),
                     Call("miner_getstat1", NoParams)>>),
    Case(3333, "", <<Call("none", NoParams), Add("c")>>, <<Call("miner_setnonce", NoParams)>>),
    Case(0, "", <<>>, <<>>) >>

MCMiner == [paused |-> {}, nonce |-> "", verbosity |-> 0, restarts |-> 0, reboots |-> 0,
            connections |-> <<"a", "b", "d">>, active |-> 0, switches |-> 0, pending |-> FALSE, client |-> FALSE,
            rates |-> <<6, 5>>]
=============================================================================
