------------------------------ MODULE Devices -------------------------------
(***************************************************************************)
(* The devices of the machine: CLMiner::enumDevices and                    *)
(* CUDAMiner::enumDevices, their subscription in MinerCLI::execute, and    *)
(* the hardware monitors that the constructor of Farm opens (libhwmon).    *)
(*                                                                         *)
(* A machine is what its libraries list, each in an order of its own:      *)
(* OpenCL platforms with their devices, CUDA devices, NVML devices, AMD    *)
(* cards of /sys/class/drm and adapters of ADL.  A card is the record of   *)
(* its PCI address and of what the libraries know about it.                *)
(***************************************************************************)
EXTENDS Integers, Sequences, SequencesExt

\* A PCI address in hexadecimal digits of a fixed width: its order is that of the text.
PciId(domain, bus, device, function) == <<0, domain, bus, device, function>>
IntelId(platform, device) == <<1, platform, device, 0, 0>>    \* "Intel GPU p.d"
NoId == <<>>

\* An (unsigned) signed char: eight digits from 128 on.
Char(n) == IF n < 128 THEN n ELSE 65536 + n

\* The order of std::map<string, ...>
Less(a, b) ==
    \/ a = NoId /\ b # NoId
    \/ /\ a # NoId /\ b # NoId
       /\ \E i \in DOMAIN a : a[i] < b[i] /\ \A j \in 1..(i - 1) : a[j] = b[j]
\* distance(begin, it)
Position(collection, id) == Cardinality({other \in DOMAIN collection : Less(other, id)})

DeviceDescriptor == [cl |-> FALSE, platform |-> "Unknown", pIdx |-> 0, ordinal |-> 0,
                     cu |-> FALSE, cuIndex |-> 0, subscription |-> "None"]

\* deviceDescriptor = _DevicesCollection[uniqueId], or a new one
Descriptor(collection, id) == IF id \in DOMAIN collection THEN collection[id] ELSE DeviceDescriptor
\* Upsert Devices Collection
Upsert(collection, id, d) == (id :> d) @@ collection

-----------------------------------------------------------------------------
(* enumDevices *)

PlatformType(name) ==
    CASE name = "AMD Accelerated Parallel Processing" -> "Amd"
      [] name \in {"Clover", "Intel Gen OCL Driver"} -> "Clover"
      [] name = "NVIDIA CUDA" -> "Nvidia"
      [] name = "Intel" -> "Intel"
      [] OTHER -> "Unknown"

\* The domain is unknown to OpenCL.  A device that does not answer has the empty id.
CLId(type, card, pIdx, dIdx) ==
    CASE type = "Intel" -> IntelId(pIdx, dIdx)
      [] type # "Intel" /\ ~card.answers -> NoId
      [] type = "Nvidia" /\ card.answers -> PciId(0, card.bus, card.device, 0)
      [] type \in {"Amd", "Clover"} /\ card.answers -> PciId(0, Char(card.bus), Char(card.device), 0)

CLFill(d, type, pIdx, dIdx) ==
    [d EXCEPT !.cl = TRUE, !.platform = type, !.pIdx = pIdx, !.ordinal = dIdx]

\* Positions count from 1.  An accelerator is skipped, but counted.
CLPlatform(collection, type, pIdx, devices) ==
    FoldLeftDomain(
        LAMBDA c, i : IF ~devices[i].gpu THEN c
                      ELSE LET id == CLId(type, devices[i], pIdx, i)
                           IN Upsert(c, id, CLFill(Descriptor(c, id), type, pIdx, i)),
        collection, devices)

CLEnumDevices(collection, platforms) ==
    FoldLeftDomain(
        LAMBDA c, p : IF PlatformType(platforms[p].name) = "Unknown" THEN c
                      ELSE CLPlatform(c, PlatformType(platforms[p].name), p, platforms[p].devices),
        collection, platforms)

\* mutant: an id in the manner of OpenCL's slot
CUDAId_Slot(card) == PciId(card.domain, card.bus, card.device * 8, 0)
CUDAId(card) == PciId(card.domain, card.bus, card.device, 0)

\* A device whose properties or memory cannot be asked for is left out.
CUDAEnumDevices(collection, cards) ==
    FoldLeftDomain(
        LAMBDA c, i : IF ~cards[i].answers THEN c
                      ELSE LET id == CUDAId(cards[i])
                           IN Upsert(c, id, [Descriptor(c, id) EXCEPT !.cu = TRUE, !.cuIndex = i]),
        collection, cards)

-----------------------------------------------------------------------------
(* Subscription *)

Enumerated(type, machine) ==
    LET cl == IF type = "CUDA" THEN <<>> ELSE CLEnumDevices(<<>>, machine.platforms)
    IN IF type = "CL" THEN cl ELSE CUDAEnumDevices(cl, machine.cuda)

\* CUDA first, then OpenCL; --devices counts from 0 in the order of the ids.
Chosen(collection, id, devices) ==
    devices = {} \/ Position(collection, id) \in devices

Subscribed(collection, type, devices) ==
    [id \in DOMAIN collection |->
        LET d == collection[id]
        IN [d EXCEPT !.subscription =
               IF ~Chosen(collection, id, devices) THEN "None"
               ELSE IF type # "CL" /\ d.cu THEN "Cuda"
               ELSE IF type # "CUDA" /\ d.cl THEN "OpenCL" ELSE "None"]]

Miners(collection) == {id \in DOMAIN collection : collection[id].subscription # "None"}

-----------------------------------------------------------------------------
(* Hardware monitors *)

Index(ids) == FoldLeftDomain(LAMBDA m, i : (ids[i] :> i) @@ m, <<>>, ids)

\* mutant: the devices of the bus are not told apart
NvmlId_Bus(card) == PciId(card.domain, 0, card.device \div 8, 0)
\* The number of the device is shifted as a slot of OpenCL is.
NvmlId(card) == PciId(card.domain, card.bus, card.device \div 8, 0)
\* Without the library, or a function of it, there is no handle.
wrap_nvml_create(machine) == IF "nvml" \in machine.libraries THEN machine.nvml ELSE <<>>
map_nvml_handle(machine) ==
    LET cards == wrap_nvml_create(machine) IN Index([i \in DOMAIN cards |-> NvmlId(cards[i])])

\* wrap_amdsysfs_create: the cards of AMD that have a directory hwmonN and a PCI id; card.hwmon
\* has the values of the files in each directory.
SysfsCards(machine) == SelectSeq(machine.drm, LAMBDA card : card.amd /\ DOMAIN card.hwmon # {} /\ card.answers)
map_amdsysfs_handle(machine) ==
    LET cards == SysfsCards(machine)
    IN Index([i \in DOMAIN cards |-> PciId(cards[i].domain, cards[i].bus, cards[i].device, 0)])

\* wrap_adl_create: of the adapters of one card that follow each other, the first.  AdapterIDs
\* are not 0, which is where last_adapter starts.  Again there may be no handle.
AdlStep(a, adapter, i) ==
    IF ~adapter.answers \/ adapter.id = a.last THEN a
    ELSE [last |-> adapter.id, logical |-> Append(a.logical, i)]
phys_logi_device_id(machine) ==
    IF "adl" \notin machine.libraries THEN <<>>
    ELSE FoldLeftDomain(LAMBDA a, i : AdlStep(a, machine.adl[i], i), [last |-> 0, logical |-> <<>>],
                        machine.adl).logical
map_adl_handle(machine) ==
    LET logical == phys_logi_device_id(machine)
    IN Index([i \in DOMAIN logical |->
                 PciId(0, machine.adl[logical[i]].bus, machine.adl[logical[i]].device, 0)])

\* initDevice: the library of the miner's sensors
Library(d, machine) ==
    CASE d.subscription = "Cuda" \/ d.platform = "Nvidia" -> "nvml"
      [] d.subscription # "Cuda" /\ d.platform = "Amd" -> IF machine.linux THEN "sysfs" ELSE "adl"
      [] OTHER -> "none"

\* The position that collectData looks up at its first reading, -2 if it finds none, still -1 if
\* the library or the id is missing.
Lookup(map, id) ==
    IF DOMAIN map = {} \/ id = NoId THEN -1 ELSE IF id \in DOMAIN map THEN map[id] ELSE -2
SensorIndex(d, id, machine) ==
    CASE Library(d, machine) = "nvml" -> Lookup(map_nvml_handle(machine), id)
      [] Library(d, machine) = "sysfs" -> Lookup(map_amdsysfs_handle(machine), id)
      [] Library(d, machine) = "adl" -> Lookup(map_adl_handle(machine), id)
      [] OTHER -> -2

\* Degrees, degrees, percents, milliwatts.  A value that cannot be had is left at 0.
Sensors(tempC, memtempC, fanP, powerW) ==
    [tempC |-> tempC, memtempC |-> memtempC, fanP |-> fanP, powerW |-> powerW]
NoSensors == Sensors(0, 0, 0, 0)
Given(n) == IF n < 0 THEN 0 ELSE n

wrap_nvml_get(machine, i) ==
    LET n == wrap_nvml_create(machine)[i].nvml IN Sensors(Given(n.temp), Given(n.mem), Given(n.fan), Given(n.power))

\* The files of the lowest hwmonN; one that is missing reads 0.  Without a range of the fan a
\* quotient by 0 is converted to an integer: -1 stands for whatever comes out.
FanPercent(f) == IF f.max = f.min THEN -1 ELSE ((f.pwm - f.min) * 100) \div (f.max - f.min)
wrap_amdsysfs_get(machine, i) ==
    LET card == SysfsCards(machine)[i]
        f == card.hwmon[Min(DOMAIN card.hwmon)]
    IN Sensors(f.temp1 \div 1000, f.temp3 \div 1000, FanPercent(f), Given(card.power))

\* The power is in units of 3.90625 milliwatts.
wrap_adl_get(machine, i) ==
    LET a == machine.adl[phys_logi_device_id(machine)[i]].adl
    IN Sensors(Given(a.temp) \div 1000, Given(a.mem) \div 1000, Given(a.fan), (Given(a.power) * 125) \div 32)

\* What collectData knows of a device, and compares with the thresholds
Reading(d, id, machine, hwMon) ==
    LET i == SensorIndex(d, id, machine)
        sensors == CASE i < 0 -> NoSensors
                     [] i > 0 /\ Library(d, machine) = "nvml" -> wrap_nvml_get(machine, i)
                     [] i > 0 /\ Library(d, machine) = "sysfs" -> wrap_amdsysfs_get(machine, i)
                     [] i > 0 /\ Library(d, machine) = "adl" -> wrap_adl_get(machine, i)
    IN CASE hwMon = 0 -> NoSensors
         [] hwMon = 1 -> [sensors EXCEPT !.powerW = 0]
         [] hwMon = 2 -> sensors

\* CLMiner::initDevice and CUDAMiner::initDevice: the card that is used
Target(d, machine) ==
    IF d.subscription = "Cuda" THEN machine.cuda[d.cuIndex].name
    ELSE machine.platforms[d.pIdx].devices[d.ordinal].name

=============================================================================
