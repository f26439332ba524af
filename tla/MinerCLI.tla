------------------------------ MODULE MinerCLI ------------------------------
(***************************************************************************)
(* etcminer/main.cpp: the program from its command line to its end.        *)
(*                                                                         *)
(* The main thread reads the options, enumerates and subscribes the        *)
(* devices, starts Farm, PoolManager and ApiServer, and waits on a         *)
(* condition variable until a signal has cleared g_running.  The handler   *)
(* runs in whichever thread gets the signal, and does not take the mutex   *)
(* of the condition variable.                                              *)
(***************************************************************************)
EXTENDS Devices, PoolURI

CONSTANT Cases         \* the command lines, and the machines they are given on

ASSUME CasesAssumption == Cases # {}

VARIABLES
    pc,                \* the main thread
    args, machine,
    code,              \* what the program returns; -1 before it does
    settings,          \* m_FarmSettings, m_PoolSettings, m_minerType and the port of the API
    devices,           \* m_DevicesCollection
    g_running,
    installed,         \* the signal handler is
    handler,           \* what a running signal handler is about to do
    display,           \* m_cliDisplayTimer
    api, manager       \* ApiServer::isRunning, PoolManager::isRunning

vars == <<pc, args, machine, code, settings, devices, g_running, installed, handler, display, api, manager>>

NoSettings == [hwMon |-> 0, tempStop |-> 0, tempStart |-> 0, connections |-> <<>>, type |-> "Mixed", port |-> 0]

Init ==
    /\ \E c \in Cases : args = c.args /\ machine = c.machine
    /\ pc = "main" /\ code = -1
    /\ settings = NoSettings /\ devices = <<>>
    /\ g_running = FALSE /\ installed = FALSE /\ handler = "none"
    /\ display = "sleeps" /\ api = FALSE /\ manager = FALSE

-----------------------------------------------------------------------------
(* validateArgs *)

\* The notifiers, which throw program_options::error
on_verbosity(u) == u < 4
on_hwmon(u) == u < 3
on_api_port(i) == i >= -65535 /\ i <= 65535
on_cu_block_size(b) == b \in {32, 64, 128, 256}
on_cu_streams(s) == s \in {1, 2, 4}
on_cl_local_work(b) == b \in {64, 128, 256}

\* args.parses: the command line and the file of --config have no error and no unknown option
Accepted(a) ==
    /\ a.parses /\ a.hexNonce
    /\ on_verbosity(a.verbosity) /\ on_hwmon(a.hwMon) /\ on_api_port(a.apiPort)
    /\ on_cu_block_size(a.cuBlock) /\ on_cu_streams(a.cuStreams) /\ on_cl_local_work(a.clWork)

\* ParseBind: the port of --api-bind, which goes before --api-port
BindParses(bind) == bind.address /\ bind.port >= -65535 /\ bind.port <= 65535 /\ bind.port # 0
ParseBind(a) == IF a.apiBind = {} THEN a.apiPort ELSE (CHOOSE b \in a.apiBind : TRUE).port

MinerType(a) == IF a.opencl THEN "CL" ELSE IF a.cuda THEN "CUDA" ELSE "Mixed"

ExitPool == <<"stratum+tcp", "://", "-", ":", "x", "@", "exit", ":", "0">>
SimulationPool == <<"simulation", "://", "localhost", ":", "0">>

\* The URIs of all command lines, each parsed once
Uris == [t \in {ExitPool} \cup UNION {Range(c.args.pools) : c \in Cases} |-> URI(t, FALSE)]

Connections(a) ==
    IF a.bench THEN <<URI(SimulationPool, TRUE)>>
    ELSE IF a.list THEN <<>>
    ELSE [i \in DOMAIN a.pools |-> Uris[IF a.pools[i] = <<"exit">> THEN ExitPool ELSE a.pools[i]]]

\* --help, --version and --help-module
PrintsHelp(a) == a.help
NeedsPools(a) == ~a.list /\ ~a.bench

BadThresholds(a) == a.tempStop > 0 /\ a.tempStop <= a.tempStart

\* What the arguments end the program with, in the order in which they are looked at: 0 for
\* validateArgs returning false, 2 for a runtime_error, 3 for another exception; -1 for going on.
Refusal(a) ==
    IF ~Accepted(a) \/ PrintsHelp(a) \/ (\E b \in a.apiBind : ~BindParses(b)) THEN 0
    ELSE IF NeedsPools(a) /\ (a.pools = <<>> \/ Head(a.pools) = <<"exit">>) THEN 3
    ELSE IF NeedsPools(a) /\ Throws \in Range(Connections(a)) THEN 2
    ELSE IF BadThresholds(a) THEN 3 ELSE -1

Settings(a) ==
    [hwMon |-> IF a.tempStop > 0 /\ a.hwMon = 0 THEN 1 ELSE a.hwMon,
     tempStop |-> a.tempStop, tempStart |-> a.tempStart,
     connections |-> Connections(a), type |-> MinerType(a), port |-> ParseBind(a)]

Ends(c) == pc' = "ends" /\ code' = c

\* main: without arguments there is not even an io_service.
NoArguments ==
    /\ pc = "main" /\ args.none
    /\ pc' = "gone" /\ code' = 1
    /\ UNCHANGED <<args, machine, settings, devices, g_running, installed, handler, display, api, manager>>

ValidateArgs ==
    /\ pc = "main" /\ ~args.none
    /\ IF Refusal(args) >= 0
       THEN Ends(Refusal(args)) /\ UNCHANGED settings
       ELSE pc' = "execute" /\ settings' = Settings(args) /\ UNCHANGED code
    /\ UNCHANGED <<args, machine, devices, g_running, installed, handler, display, api, manager>>

-----------------------------------------------------------------------------
(* execute *)

\* The devices of all machines, each enumerated once
Found == [t \in {"CL", "CUDA", "Mixed"}, m \in {c.machine : c \in Cases} |-> Enumerated(t, m)]

OpenCLThrows == settings.type # "CUDA" /\ machine.clFails

\* A cl::Error is neither of the two errors that main tells apart.
EnumerationFails ==
    /\ pc = "execute" /\ OpenCLThrows
    /\ Ends(3)
    /\ UNCHANGED <<args, machine, settings, devices, g_running, installed, handler, display, api, manager>>

\* No device, or none that is chosen, is a runtime_error.
Execute ==
    /\ pc = "execute" /\ ~OpenCLThrows
    /\ \E found \in {Found[settings.type, machine]} :
       \E chosen \in {Subscribed(found, settings.type, args.devices)} :
          \/ DOMAIN found = {} /\ Ends(2) /\ UNCHANGED <<devices, g_running>>
          \/ DOMAIN found # {} /\ args.list /\ Ends(0) /\ devices' = found /\ UNCHANGED g_running
          \/ /\ DOMAIN found # {} /\ ~args.list /\ devices' = chosen
             /\ IF Miners(chosen) = {} THEN Ends(2) /\ UNCHANGED g_running
                ELSE pc' = "signals" /\ g_running' = TRUE /\ UNCHANGED code
    /\ UNCHANGED <<args, machine, settings, installed, handler, display, api, manager>>

\* The handler is there before Farm is.
InstallSignals ==
    /\ pc = "signals"
    /\ pc' = "doMiner" /\ installed' = TRUE
    /\ UNCHANGED <<args, machine, code, settings, devices, g_running, handler, display, api, manager>>

\* new PoolManager, the start of ApiServer, which may not get its port, and of PoolManager, and
\* the timer of the display in the place of the one that never ends
DoMiner ==
    /\ pc = "doMiner"
    /\ api' \in (IF settings.port = 0 THEN {FALSE} ELSE BOOLEAN)
    /\ manager' = TRUE /\ display' = "runs" /\ pc' = "checks"
    /\ UNCHANGED <<args, machine, code, settings, devices, g_running, installed, handler>>

\* while (g_running) g_shouldstop.wait(clilock)
Checks ==
    /\ pc = "checks"
    /\ pc' = IF g_running THEN "sleeps" ELSE "stops"
    /\ UNCHANGED <<args, machine, code, settings, devices, g_running, installed, handler, display, api, manager>>

Sleeps ==
    /\ pc = "sleeps"
    /\ pc' = "waits"
    /\ UNCHANGED <<args, machine, code, settings, devices, g_running, installed, handler, display, api, manager>>

\* A condition variable may wake for no reason.
WakesAnyway ==
    /\ pc = "waits"
    /\ pc' = "checks"
    /\ UNCHANGED <<args, machine, code, settings, devices, g_running, installed, handler, display, api, manager>>

StopAll ==
    /\ pc = "stops"
    /\ api' = FALSE /\ manager' = FALSE /\ Ends(0)
    /\ UNCHANGED <<args, machine, settings, devices, g_running, installed, handler, display>>

\* ~MinerCLI: the timer is cancelled, the io_service stopped and its thread joined.
Leave ==
    /\ pc = "ends"
    /\ pc' = "gone" /\ display' = "none"
    /\ UNCHANGED <<args, machine, code, settings, devices, g_running, installed, handler, api, manager>>

\* cliDisplayInterval_elapsed: it prints and starts again, while g_running is set.
DisplayElapsed ==
    /\ display = "runs" /\ ~g_running
    /\ display' = "none"
    /\ UNCHANGED <<pc, args, machine, code, settings, devices, g_running, installed, handler, api, manager>>

-----------------------------------------------------------------------------
(* Signals, from outside or by raise *)

\* mutant: the handler returns after g_running
SignalClears_NoNotify ==
    /\ handler = "clears"
    /\ g_running' = FALSE /\ handler' = "none"
    /\ UNCHANGED <<pc, args, machine, code, settings, devices, installed, display, api, manager>>
SignalClears ==
    /\ handler = "clears"
    /\ g_running' = FALSE /\ handler' = "notifies"
    /\ UNCHANGED <<pc, args, machine, code, settings, devices, installed, display, api, manager>>

SignalNotifies ==
    /\ handler = "notifies"
    /\ handler' = "none"
    /\ pc' = IF pc = "waits" THEN "checks" ELSE pc
    /\ UNCHANGED <<args, machine, code, settings, devices, g_running, installed, display, api, manager>>

\* SIGINT or SIGTERM.  Before its handler is installed it ends the program at once.
Interrupt ==
    /\ pc # "gone" /\ handler = "none"
    /\ IF installed THEN handler' = "clears" /\ UNCHANGED <<pc, code>>
       ELSE pc' = "gone" /\ code' = 130 /\ UNCHANGED handler
    /\ UNCHANGED <<args, machine, settings, devices, g_running, installed, display, api, manager>>

\* SIGSEGV: exit(128)
Crash ==
    /\ installed /\ pc # "gone"
    /\ pc' = "gone" /\ code' = 128
    /\ UNCHANGED <<args, machine, settings, devices, g_running, installed, handler, display, api, manager>>

\* Nothing is left to do.
Gone == pc = "gone" /\ UNCHANGED vars

Main ==
    NoArguments \/ ValidateArgs \/ EnumerationFails \/ Execute \/ InstallSignals
    \/ DoMiner \/ Checks \/ Sleeps \/ StopAll \/ Leave
Handler == SignalClears \/ SignalNotifies
Next == Main \/ Handler \/ DisplayElapsed \/ WakesAnyway \/ Interrupt \/ Crash \/ Gone

\* The main thread and the thread with the handler go on.  Nothing is said of signals.
Spec == Init /\ [][Next]_vars /\ WF_vars(Main) /\ WF_vars(Handler)

-----------------------------------------------------------------------------
(* Properties *)

\* What the libraries list of the machine's cards: no address in another domain, none unknown.
Listed == Range(machine.cuda) \cup
          UNION {{c \in Range(p.devices) : c.gpu} :
                 p \in {q \in Range(machine.platforms) : PlatformType(q.name) # "Unknown"}}
Ordinary == \A c \in Listed : c.answers /\ c.domain = 0

\* When mining begins, every card has one miner, however many libraries and platforms list it and in whatever order
\* (enumDevices of both, and the subscription in execute).  Subscriptions do not change later.
OneMinerPerGpu ==
    pc = "signals" /\ Ordinary /\ settings.type = "Mixed" /\ args.devices = {} =>
        /\ {Target(devices[id], machine) : id \in Miners(devices)} = {c.name : c \in Listed}
        /\ \A i, j \in Miners(devices) :
               Target(devices[i], machine) = Target(devices[j], machine) => i = j

\* The temperature that stops a miner, and the other readings, are those of its own card, where
\* each card has a bus of its own; they are missing (0) only without the library, or if the card is
\* not the first on its bus or the number of the bus is 128 or more (Farm's constructor,
\* collectData, libhwmon).
SensorsAreOwn ==
    pc = "signals" /\ Ordinary /\ (\A c, d \in Listed : c.bus = d.bus => c.name = d.name) =>
        \A id \in Miners(devices) :
            LET d == devices[id]
                card == CHOOSE c \in Listed : c.name = Target(d, machine)
                reading == Reading(d, id, machine, settings.hwMon)
            IN Library(d, machine) # "none" /\ settings.hwMon > 0 =>
                  \/ reading = [card.sensors EXCEPT !.powerW = IF settings.hwMon = 2 THEN @ ELSE 0]
                  \/ /\ reading = NoSensors
                     /\ \/ Library(d, machine) \notin machine.libraries
                        \/ card.device # 0 \/ card.bus >= 128

\* A program that mines and gets signals again and again ends.  One signal need not do: between
\* the test of g_running and the wait it is lost (doMiner, signalHandler).
SignalsEnd == []<>(handler = "clears") => <>(pc = "gone")

=============================================================================
