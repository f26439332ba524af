---------------------------- MODULE MCMinerCLI -----------------------------
(* Pools written in every way from the same parts; options one at a time; machines with cards   *)
(* of three makers that their libraries list in different orders.                              *)
EXTENDS MinerCLI

MCNumbers == [t \in {"0", "4444", "70000"} |-> CASE t = "0" -> 0 [] t = "4444" -> 4444 [] t = "70000" -> 70000]
MCLower == [t \in {"Pool", "STRATUM"} |-> IF t = "Pool" THEN "pool" ELSE "stratum"]
MCAddresses == <<"10", ".", "0", ".", "0", ".", "1">> :> "IPV4"

-----------------------------------------------------------------------------
(* Pools *)

Special == {".", ":", "@"}
Texts == {<<"bob">>, <<"b", ".", "c">>, <<"d", ":", "e">>, <<"f", "@", "g">>}

\* The ways to write a part: as it is, in backticks, encoded.
Ways(t) == {<<"plain", t>>, <<"ticks", Ticked(t)>>,
            <<"encoded", [i \in DOMAIN t |-> IF t[i] \in Special THEN Encoding[t[i]] ELSE t[i]]>>}
Written(t) ==
    IF t = <<>> THEN {<<>>} ELSE {w[2] : w \in {v \in Ways(t) : v[1] # "plain" \/ Range(t) \cap Special = {}}}

User(u, w, p) == u \o (IF w = <<>> THEN <<>> ELSE <<".">> \o w) \o (IF p = <<>> THEN <<>> ELSE <<":">> \o p)
Hosts == {[text |-> <<"Pool", ":", "4444">>, host |-> <<"pool">>, port |-> 4444],
          [text |-> <<"10", ".", "0", ".", "0", ".", "1">>, host |-> <<"10", ".", "0", ".", "0", ".", "1">>, port |-> 0]}
Paths == {[text |-> <<>>, path |-> <<>>, query |-> <<>>, fragment |-> <<>>],
          [text |-> <<"/", "x", "%2f", "y", "?", "q", "#", "r">>,
           path |-> <<"/", "x", "/", "y">>, query |-> <<"q">>, fragment |-> <<"r">>]}

\* Texts with the parts that they were written from.
PoolsOf(users, workers, passwords, hosts, paths) ==
    UNION {{[text |-> <<"STRATUM", "://">> \o User(x[1], x[2], x[3]) \o <<"@">> \o h.text \o f.text,
             user |-> u, worker |-> w, password |-> p, host |-> h, path |-> f] :
             x \in Written(u) \X Written(w) \X Written(p)} :
           u \in users, w \in workers, p \in passwords, h \in hosts, f \in paths}
MCPools == PoolsOf(Texts, Texts \cup {<<>>}, Texts \cup {<<>>}, {CHOOSE h \in Hosts : h.port > 0},
                   {CHOOSE f \in Paths : f.text = <<>>})
           \cup PoolsOf({<<"bob">>}, {<<>>, <<"b", ".", "c">>}, {<<>>}, Hosts, Paths)

\* The parts of a pool's URI are found in its text, whichever of them are in backticks or encoded
\* because they have separators in them (URI::URI, and the description of --pool).
PartsRecovered ==
    pc = "execute" =>
        \A r \in MCPools :
            args.pools = <<r.text>> /\ settings.connections # <<>> =>
                LET u == Head(settings.connections)
                IN /\ <<u.user, u.worker>> = <<r.user, r.worker>>
                   /\ u.password = IF r.password = <<>> THEN <<"X">> ELSE r.password
                   /\ <<u.host, u.port>> = <<r.host.host, r.host.port>>
                   /\ <<u.path, u.query, u.fragment>> = <<r.path.path, r.path.query, r.path.fragment>>

-----------------------------------------------------------------------------
(* Machines *)

\* A card with what its sensors measure, and what each library makes of it.
Card(name, amd, bus, device, sensors) ==
    [name |-> name, amd |-> amd, gpu |-> TRUE, answers |-> TRUE, domain |-> 0, bus |-> bus,
     device |-> device, id |-> bus, sensors |-> sensors, power |-> sensors.powerW,
     nvml |-> [temp |-> sensors.tempC, mem |-> IF sensors.memtempC = 0 THEN -1 ELSE sensors.memtempC,
               fan |-> sensors.fanP, power |-> sensors.powerW],
     adl |-> [temp |-> 1000 * sensors.tempC + 400, mem |-> 1000 * sensors.memtempC + 900,
              fan |-> sensors.fanP, power |-> (sensors.powerW * 32) \div 125],
     hwmon |-> (2 :> [temp1 |-> 1000 * sensors.tempC + 700, temp3 |-> 1000 * sensors.memtempC,
                      pwm |-> (sensors.fanP * 51) \div 20, max |-> IF sensors.fanP < 0 THEN 0 ELSE 255, min |-> 0])
               @@ (5 :> [temp1 |-> 99000, temp3 |-> 0, pwm |-> 0, max |-> 255, min |-> 0])]

N1 == Card("n1", FALSE, 1, 0, Sensors(61, 80, 40, 125000))
N2 == Card("n2", FALSE, 2, 0, Sensors(62, 0, 60, 130000))
N3 == Card("n3", FALSE, 3, 1, Sensors(63, 82, 60, 130000))
A1 == Card("a1", TRUE, 4, 0, Sensors(64, 84, 80, 150000))
A2 == Card("a2", TRUE, 5, 0, Sensors(65, 0, -1, 0))
A3 == Card("a3", TRUE, 130, 0, Sensors(66, 0, 100, 160000))
A4 == Card("a4", TRUE, 6, 0, Sensors(67, 87, 20, 170000))
I1 == [Card("i1", FALSE, 0, 2, NoSensors) EXCEPT !.hwmon = <<>>]
Accelerator == [Card("x1", FALSE, 9, 0, NoSensors) EXCEPT !.gpu = FALSE]
Silent(c) == [c EXCEPT !.answers = FALSE]
Far(c) == [c EXCEPT !.domain = 1]

NV(list) == [name |-> "NVIDIA CUDA", devices |-> list]
AMD(list) == [name |-> "AMD Accelerated Parallel Processing", devices |-> list]
Clover(list) == [name |-> "Clover", devices |-> list]
Intel(list) == [name |-> "Intel", devices |-> list]
Pocl == [name |-> "Portable Computing Language", devices |-> <<I1>>]

Machine(linux, platforms, cuda, nvml, drm, adl) ==
    [linux |-> linux, platforms |-> platforms, cuda |-> cuda, nvml |-> nvml, drm |-> drm, adl |-> adl,
     libraries |-> {"nvml", "sysfs", "adl"}, clFails |-> FALSE]

Rig == Machine(TRUE, <<NV(<<N2, N1>>)>>, <<N1, N2>>, <<N2, N1>>, <<I1>>, <<>>)
MCMachines ==
    {Machine(FALSE, <<>>, <<>>, <<>>, <<>>, <<>>),
     Rig, [Rig EXCEPT !.libraries = {"sysfs"}],
     Machine(TRUE, <<Pocl, NV(<<N3, Accelerator, N1>>), AMD(<<A2, A1>>)>>, <<N1, N3>>, <<N3, N1>>,
             <<I1, A2, N1, Silent(A3), A1>>, <<>>),
     Machine(TRUE, <<AMD(<<A1, A3>>), Clover(<<A3, A1>>), Intel(<<I1>>)>>, <<>>, <<>>, <<A3, I1, A1>>, <<>>),
     Machine(FALSE, <<AMD(<<A1, A4>>), NV(<<N1>>)>>, <<N1, Silent(N2)>>, <<N1, N2>>, <<>>,
             <<A4, A4, Silent(A3), A1, A1>>),
     [Machine(FALSE, <<AMD(<<A1, A4>>)>>, <<>>, <<>>, <<>>, <<A1, A4>>) EXCEPT !.libraries = {}],
     Machine(TRUE, <<AMD(<<Silent(A1), A2>>)>>, <<>>, <<>>, <<A2, A1>>, <<>>),
     Machine(TRUE, <<NV(<<Far(N1)>>)>>, <<Far(N1)>>, <<Far(N1)>>, <<>>, <<>>)}

-----------------------------------------------------------------------------
(* Command lines *)

Pool == <<"stratum+tcp", "://", "bob", "@", "Pool", ":", "4444">>
Args == [none |-> FALSE, parses |-> TRUE, hexNonce |-> TRUE, verbosity |-> 0, hwMon |-> 0, apiPort |-> 0,
         cuBlock |-> 128, cuStreams |-> 2, clWork |-> 128, help |-> FALSE, apiBind |-> {}, opencl |-> FALSE,
         cuda |-> FALSE, bench |-> FALSE, list |-> FALSE, pools |-> <<Pool>>, tempStop |-> 0, tempStart |-> 0,
         devices |-> {}]

MCArgs ==
    {Args,
     [Args EXCEPT !.none = TRUE], [Args EXCEPT !.parses = FALSE], [Args EXCEPT !.help = TRUE],
     [Args EXCEPT !.hexNonce = FALSE], [Args EXCEPT !.verbosity = 4], [Args EXCEPT !.hwMon = 3],
     [Args EXCEPT !.apiPort = -65536], [Args EXCEPT !.apiPort = -3333], [Args EXCEPT !.cuBlock = 96],
     [Args EXCEPT !.cuStreams = 3], [Args EXCEPT !.clWork = 32],
     [Args EXCEPT !.apiBind = {[address |-> FALSE, port |-> 3333]}],
     [Args EXCEPT !.apiBind = {[address |-> TRUE, port |-> 0]}, !.apiPort = 3333],
     [Args EXCEPT !.apiBind = {[address |-> TRUE, port |-> -3333]}],
     [Args EXCEPT !.bench = TRUE, !.pools = <<>>], [Args EXCEPT !.list = TRUE, !.pools = <<>>],
     [Args EXCEPT !.bench = TRUE, !.list = TRUE], [Args EXCEPT !.devices = {9}]}
    \cup {[Args EXCEPT !.tempStop = s, !.tempStart = t, !.hwMon = h] : s \in {0, 60, 70}, t \in {0, 60}, h \in {0, 2}}
    \cup {[Args EXCEPT !.pools = p] :
             p \in {<<>>, <<<<"exit">>>>, <<Pool, <<"exit">>>>, <<Pool, <<"ftp", "://", "x">>>>,
                    <<<<"simulation", "://", "x">>>>, <<<<"stratum", "://">>>>, <<<<"stratum", "://", "/", "x">>>>,
                    <<<<"stratum", "://", "x", ":", "70000">>>>, <<<<"http", "://", "u", "+", "v", "%", "@", "x">>>>}}

MCCases ==
    [args : MCArgs \cup {[Args EXCEPT !.pools = <<r.text>>] : r \in MCPools}, machine : {Rig}]
    \cup [args : {[Args EXCEPT !.opencl = g, !.cuda = u, !.devices = d, !.hwMon = h] :
                     g \in BOOLEAN, u \in BOOLEAN, d \in {{}, {1}}, h \in 0..2},
          machine : MCMachines]
    \cup [args : {Args, [Args EXCEPT !.cuda = TRUE]}, machine : {[Rig EXCEPT !.clFails = TRUE]}]
=============================================================================
