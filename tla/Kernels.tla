------------------------------- MODULE Kernels -------------------------------
(***************************************************************************)
(* What a GPU does for an epoch and a job: the launches that generate the  *)
(* DAG (the end of CLMiner::initEpoch, ethash_generate_dag), the kernels   *)
(* GenerateDAG and ethash_calculate_dag_item, the search kernels, and the  *)
(* results the host reads.                                                 *)
(*                                                                         *)
(* OpenCL work-items run from barrier to barrier, in any order in between: *)
(* at is the number of sections each lane has run.  The accesses of MIX,   *)
(* which have no barrier between them, and the shuffles of CUDA are those  *)
(* of lanes in lockstep (one wavefront, one warp).  A write past the end   *)
(* of a buffer has no effect on the DAG.                                   *)
(***************************************************************************)
EXTENDS Ethash, FiniteSetsExt

CONSTANTS
    EpochSeed, LightBound, DagBound,     \* of the epoch: the seed, and the bounds of the sizes
    Header,            \* of the job
    GroupSize,         \* clGroupSize, cuBlockSize
    Multiples,         \* values of m_block_multiple, per implementation
    StartNonce, Boundaries,
    MaxOutputs         \* MAX_OUTPUTS, MAX_SEARCH_RESULTS

VARIABLES
    lib,               \* what the ethash library computes: the light cache, the dataset, the mix
                       \* and the final hash of each nonce of the batch
    impl,              \* "cl", "split" (OpenCL with SPLIT_DAG) or "cuda"
    multiple,          \* m_block_multiple
    boundary,          \* of the job
    phase,
    base,              \* start, base
    quads,             \* of the launch, the first nodes of the quads that are left
    at,                \* sections run by each lane
    node, indexes,     \* the nodes and the parents of the lanes of a quad
    dag,               \* the nodes in each buffer
    tid, share, mix, init0,
    out,               \* the mix hash of each work-item, once it has it
    pc, slot,          \* of each work-item
    results,           \* the buffer of the results
    reported

generation == <<base, quads, node, indexes, dag>>
mixing == <<tid, share, mix, init0, out>>
searching == <<pc, slot, results, reported>>
config == <<lib, impl, multiple, boundary>>
vars == <<config, phase, at, generation, mixing, searching>>

Light == lib.light
DagItems == Len(lib.dataset)                 \* m_dagItems, d_dag_size

Opencl == impl \in {"cl", "split"}
WorkItems == 2 * DagItems
Quad == 0..3
Unset == <<>>

\* A launch of the search: a work-item per nonce.
Gids == 0..7
SeedSeq == Strict([k \in 1..8 |-> hash_seed(Header, (StartNonce + k - 1) % Radix)])
Seed(g) == SeedSeq[g + 1]

Uint(x) == x % Radix

-----------------------------------------------------------------------------
(* The launches *)

\* The groups of the last launch.
Rest(left) == ((left + GroupSize - 1) \div GroupSize) * GroupSize

Chunk == IF Opencl THEN Min({GroupSize * multiple, WorkItems}) ELSE GroupSize * multiple

\* The nodes of a launch, by quads.
QuadsOf(start, size) == {Uint(start + 4 * k) : k \in 0..((size - 1) \div 4)}

Generated == phase' = "mix" /\ UNCHANGED <<base, quads>>

\* OpenCL refuses a launch that is not a whole number of groups.
Launch ==
    /\ phase = "launch"
    /\ IF base <= Uint(WorkItems - Chunk)
       THEN IF Opencl /\ Chunk % GroupSize # 0
            THEN phase' = "failed" /\ UNCHANGED <<base, quads>>
            ELSE /\ phase' = "quads" /\ quads' = QuadsOf(base, Chunk)
                 /\ base' = Uint(base + Chunk)
       ELSE IF base < WorkItems
            THEN /\ phase' = "last" /\ quads' = QuadsOf(base, Rest(WorkItems - base))
                 /\ UNCHANGED base
            ELSE Generated
    /\ UNCHANGED <<config, at, node, indexes, dag, mixing, searching>>

InLaunch == phase \in {"quads", "last"}

LaunchEnds ==
    /\ InLaunch /\ quads = {}
    /\ IF phase = "quads" THEN phase' = "launch" /\ UNCHANGED <<base, quads>> ELSE Generated
    /\ UNCHANGED <<config, at, node, indexes, dag, mixing, searching>>

Quad1 == Min(quads)
NodeIdx(lane) == Uint(Quad1 + lane)

-----------------------------------------------------------------------------
(* The buffers of the DAG: with SPLIT_DAG, even items in the first *)

\* mutant: the bit that chose the buffer is left in the index
Place_KeepsBit(n) ==
    IF impl = "split" THEN <<(n \div 2) % 2, IF (n \div 2) % 2 = 1 THEN n \div 2 ELSE (n \div 2) + (n % 2)>>
    ELSE <<0, n>>
Place(n) == IF impl = "split" THEN <<(n \div 2) % 2, 2 * (n \div 4) + (n % 2)>> ELSE <<0, n>>

\* Nodes of the buffers: dagSize / 2 + delta and dagSize / 2 - delta.
Delta == IF DagItems % 2 = 1 THEN 1 ELSE 0
Capacity(b) ==
    IF impl = "split" THEN (IF b = 0 THEN DagItems + Delta ELSE DagItems - Delta)
    ELSE IF b = 0 THEN WorkItems ELSE 0

Stored(nodes) ==
    [p \in DOMAIN dag |->
        IF \E l \in DOMAIN nodes : Place(NodeIdx(l)) = p /\ p[2] < Capacity(p[1])
        THEN nodes[CHOOSE l \in DOMAIN nodes : Place(NodeIdx(l)) = p] ELSE dag[p]]

\* The item of the DAG as the search kernels read it.
ItemAt(idx) ==
    IF impl = "split" THEN dag[<<idx % 2, 2 * (idx \div 2)>>] \o dag[<<idx % 2, 2 * (idx \div 2) + 1>>]
    ELSE dag[<<0, 2 * idx>>] \o dag[<<0, 2 * idx + 1>>]

-----------------------------------------------------------------------------
(* GenerateDAG: the sections between its barriers.  Section 0 loads and    *)
(* hashes; then, for each parent, one that chooses the parents and four    *)
(* that mix them in, lane by lane a quarter of each node.                  *)

Sections == 1 + 5 * Parents
Round(section) == (section - 1) \div 5
Turn(section) == ((section - 1) % 5) - 1

\* The barrier before the next section of the lane.
Passed(lane) == \A l \in Quad : at[l] >= at[lane]

QuarterMixed(n, parent, lane) ==
    Strict([k \in 1..NodeWords |->
        IF (k - 1) \div 4 = lane THEN fnv1(n[k], Light[parent + 1][k]) ELSE n[k]])

GenerateDAG(lane) ==
    /\ InLaunch /\ Opencl /\ quads # {}
    /\ at[lane] < Sections /\ Passed(lane)
    /\ LET s == at[lane] IN
        CASE s = 0 ->
               node' = [node EXCEPT ![lane] = ItemStart(Light, NodeIdx(lane))] /\ UNCHANGED indexes
          [] s > 0 /\ Turn(s) = -1 ->
               /\ indexes' = [indexes EXCEPT ![lane] =
                    fnv1(XorWords(NodeIdx(lane), Round(s)), node[lane][(Round(s) % 16) + 1]) % Len(Light)]
               /\ UNCHANGED node
          [] OTHER ->
               /\ node' = [node EXCEPT ![Turn(s)] = QuarterMixed(@, indexes[Turn(s)], lane)]
               /\ UNCHANGED indexes
    /\ at' = [at EXCEPT ![lane] = @ + 1]
    /\ UNCHANGED <<config, phase, base, quads, dag, mixing, searching>>

\* Every lane hashes and stores its node.
QuadStored ==
    /\ InLaunch /\ Opencl /\ quads # {}
    /\ \A l \in Quad : at[l] = Sections
    /\ dag' = Stored([l \in Quad |-> keccak512(node[l])])
    /\ quads' = quads \ {Quad1}
    /\ at' = [l \in Quad |-> 0]
    /\ UNCHANGED <<config, phase, base, node, indexes, mixing, searching>>

-----------------------------------------------------------------------------
(* ethash_calculate_dag_item: lane w of four holds quarter w of the parent *)
(* of lane t, and all of them pass their quarters to lane t.               *)

\* (node_index >> 1) & ~1, the first item of the quad, against the size
PastEnd(n) == 2 * (n \div 4) >= DagItems

cudaReturns ==
    /\ InLaunch /\ ~Opencl /\ quads # {} /\ PastEnd(Quad1)
    /\ quads' = quads \ {Quad1}
    /\ UNCHANGED <<config, phase, base, at, node, indexes, dag, mixing, searching>>

cudaItem ==
    /\ InLaunch /\ ~Opencl /\ quads # {} /\ ~PastEnd(Quad1)
    /\ LET i == at[0] - 1
           parent == [t \in Quad |->
               fnv1(XorWords(NodeIdx(t), i), node[t][(i % NodeWords) + 1]) % Len(Light)]
           p4(t, lane) == SubSeq(Light[parent[t] + 1], 4 * lane + 1, 4 * lane + 4)
       IN IF at[0] = 0
          THEN node' = [t \in Quad |-> ItemStart(Light, NodeIdx(t))]
          ELSE node' = [t \in Quad |-> fnv1_512(node[t], p4(t, 0) \o p4(t, 1) \o p4(t, 2) \o p4(t, 3))]
    /\ at' = [l \in Quad |-> (at[l] + 1) % (Parents + 1)]
    /\ IF at[0] = Parents
       THEN dag' = Stored([t \in Quad |-> keccak512(node'[t])]) /\ quads' = quads \ {Quad1}
       ELSE UNCHANGED <<dag, quads>>
    /\ UNCHANGED <<config, phase, base, indexes, mixing, searching>>

-----------------------------------------------------------------------------
(* The OpenCL search: four lanes mix for each of them in turn, eight words *)
(* a lane.  tid counts the work-items of all the quads.                    *)

Lane(g) == g % 4
Own == Lane(tid)
ClShare == 0       \* the sections of a turn: the owner shares its seed,
ClTake == 1        \* each lane takes half of it,
ClMix == 2         \* and mixes in Accesses items,
ClReduce == ClMix + Accesses
ClGive == ClReduce + 1

Half(lane) == lane % 2

\* The lane of which the word chooses the item of access a.
ClChooser(a) == (a \div 8) % 4

Eighth(words, n) == SubSeq(words, 8 * n + 1, 8 * n + 8)
Reduced(m, n) == fnv_reduce(m[4 * n + 1], m[4 * n + 2], m[4 * n + 3], m[4 * n + 4])

ClSection(lane) ==
    /\ phase = "mix" /\ Opencl /\ tid < 8
    /\ at[lane] \notin ClMix..(ClReduce - 1) /\ at[lane] <= ClGive /\ Passed(lane)
    /\ CASE at[lane] = ClShare ->
              /\ share' = IF lane = Own THEN Seed(tid) ELSE share
              /\ UNCHANGED <<mix, init0, out>>
         [] at[lane] = ClTake ->
              /\ mix' = [mix EXCEPT ![lane] = Eighth(share, Half(lane))]
              /\ init0' = [init0 EXCEPT ![lane] = share[1]]
              /\ UNCHANGED <<share, out>>
         [] at[lane] = ClReduce ->
              /\ share' = [share EXCEPT ![2 * lane + 1] = Reduced(mix[lane], 0),
                                        ![2 * lane + 2] = Reduced(mix[lane], 1)]
              /\ UNCHANGED <<mix, init0, out>>
         [] at[lane] = ClGive ->
              /\ out' = IF lane = Own THEN [out EXCEPT ![tid] = Eighth(share, 0)] ELSE out
              /\ UNCHANGED <<share, mix, init0>>
    /\ at' = [at EXCEPT ![lane] = @ + 1]
    /\ UNCHANGED <<config, phase, generation, tid, searching>>

\* MIX(x), by the four lanes in lockstep: access a = 8k + x
ClMixes ==
    /\ phase = "mix" /\ Opencl
    /\ \A l \in Quad : at[l] = at[0]
    /\ at[0] \in ClMix..(ClReduce - 1)
    /\ LET a == at[0] - ClMix
           c == ClChooser(a)
           item == ItemAt(fnv1(XorWords(init0[c], a), mix[c][(a % 8) + 1]) % DagItems)
       IN mix' = [l \in Quad |-> fnv1_512(mix[l], Eighth(item, l))]
    /\ at' = [l \in Quad |-> at[l] + 1]
    /\ UNCHANGED <<config, phase, generation, tid, share, init0, out, searching>>

ClTurnEnds ==
    /\ phase = "mix" /\ Opencl /\ tid < 8
    /\ \A l \in Quad : at[l] = ClGive + 1
    /\ tid' = tid + 1
    /\ at' = [l \in Quad |-> 0]
    /\ UNCHANGED <<config, phase, generation, share, mix, init0, out, searching>>

-----------------------------------------------------------------------------
(* The CUDA search (compute_hash): eight lanes mix four hashes at a time,  *)
(* tid and the three after it, four words a lane.                          *)

Parallel == 4
Octet == 0..7

\* mutant: the chooser moves on with every access
Chooser_EveryAccess(a) == a % 8
\* bfe(a, 2, 3)
Chooser(a) == (a \div 4) % 8

Quarter(words, n) == SubSeq(words, 4 * n + 1, 4 * n + 4)

CudaMixes ==
    /\ phase = "mix" /\ ~Opencl /\ tid < 8
    /\ at[0] <= Accesses
    /\ IF at[0] = 0
       THEN /\ mix' = [p \in 0..(Parallel - 1) |-> [l \in Octet |-> Quarter(Seed(tid + p), l % 4)]]
            /\ init0' = [p \in 0..(Parallel - 1) |-> Seed(tid + p)[1]]
       ELSE LET a == at[0] - 1
                offset(p) == fnv1(XorWords(init0[p], a), mix[p][Chooser(a)][(a % 4) + 1]) % DagItems
            IN /\ mix' = [p \in 0..(Parallel - 1) |->
                            LET item == ItemAt(offset(p))
                            IN [l \in Octet |-> fnv1_512(mix[p][l], Quarter(item, l))]]
               /\ UNCHANGED init0
    /\ at' = [l \in Quad |-> at[l] + 1]
    /\ UNCHANGED <<config, phase, generation, tid, share, out, searching>>

CudaGives ==
    /\ phase = "mix" /\ ~Opencl /\ tid < 8
    /\ at[0] = Accesses + 1
    /\ out' = [g \in Gids |->
                 IF g - tid \in 0..(Parallel - 1)
                 THEN Strict([k \in 1..8 |-> Reduced(mix[g - tid][k - 1], 0)])
                 ELSE out[g]]
    /\ tid' = tid + Parallel
    /\ at' = [l \in Quad |-> 0]
    /\ UNCHANGED <<config, phase, generation, share, mix, init0, searching>>

MixEnds ==
    /\ phase = "mix" /\ tid = 8
    /\ phase' = "search"
    /\ pc' = [g \in Gids |-> "new"]
    /\ UNCHANGED <<config, at, generation, mixing, slot, results, reported>>

-----------------------------------------------------------------------------
(* The results: the kernel's work-items, group by group, and the host *)

Upper64(b) == be(b[1])                       \* (u256)boundary >> 192
swab(x) == ByteRadix * (x % ByteRadix) + (x \div ByteRadix)

\* The first word of the final hash, as the kernels compare it.
Found(g) == swab(le(hash_final(Seed(g), out[g])[1])) <= Upper64(boundary)

Group(q) == {g \in Gids : g \div (IF Opencl THEN 4 ELSE 8) = q}
Leader(g) == g % (IF Opencl THEN 4 ELSE 8) = 0

\* A group that finds the abort flag set does nothing.
GroupStarts(q) ==
    /\ phase = "search" /\ Group(q) # {}
    /\ \A g \in Group(q) : pc[g] = "new"
    /\ pc' = [g \in Gids |-> IF g \notin Group(q) THEN pc[g]
                             ELSE IF results.abort THEN "skipped"
                             ELSE IF Found(g) \/ Leader(g) THEN "count" ELSE "end"]
    /\ UNCHANGED <<config, phase, at, generation, mixing, slot, results, reported>>

\* hashCount counts groups; an OpenCL kernel then sets the abort flag, a CUDA kernel takes a slot.
HashCounted(g) ==
    /\ phase = "search" /\ pc[g] = "count"
    /\ pc' = [pc EXCEPT ![g] = IF ~Found(g) THEN "end" ELSE "slot"]
    /\ results' = [results EXCEPT !.hashCount = IF Leader(g) THEN @ + 1 ELSE @,
                                  !.abort = @ \/ (Opencl /\ Found(g))]
    /\ UNCHANGED <<config, phase, at, generation, mixing, slot, reported>>

\* mutant: the slot is the count after the increment
Slot_After(n) == IF Opencl THEN Min({MaxOutputs - 1, n + 1}) ELSE n
\* CUDA drops what does not fit, OpenCL writes it over the last one.
Slot(n) == IF Opencl THEN Min({MaxOutputs - 1, n}) ELSE n

SlotTaken(g) ==
    /\ phase = "search" /\ pc[g] = "slot"
    /\ results' = [results EXCEPT !.count = @ + 1]
    /\ pc' = [pc EXCEPT ![g] = IF ~Opencl /\ results.count >= MaxOutputs THEN "end" ELSE "write"]
    /\ slot' = [slot EXCEPT ![g] = Slot(results.count)]
    /\ UNCHANGED <<config, phase, at, generation, mixing, reported>>

GidWritten(g) ==
    /\ phase = "search" /\ pc[g] = "write"
    /\ results' = [results EXCEPT !.gid[slot[g]] = g, !.abort = TRUE]
    /\ pc' = [pc EXCEPT ![g] = "end"]
    /\ UNCHANGED <<config, phase, at, generation, mixing, slot, reported>>

\* kick_miner of the host
Kicked ==
    /\ phase = "search" /\ ~results.abort
    /\ results' = [results EXCEPT !.abort = TRUE]
    /\ UNCHANGED <<config, phase, at, generation, mixing, pc, slot, reported>>

Counted(n) == Min({n, MaxOutputs})

\* The host reads the results of the kernel and reports the nonces.
HostReads ==
    /\ phase = "search" /\ \A g \in Gids : pc[g] \in {"end", "skipped"}
    /\ reported' = {results.gid[i] : i \in 0..(Counted(results.count) - 1)}
    /\ results' = [results EXCEPT !.count = 0, !.hashCount = 0, !.abort = FALSE]
    /\ phase' = "done"
    /\ UNCHANGED <<config, at, generation, mixing, pc, slot>>

-----------------------------------------------------------------------------
NoGid == 99

\* The library, against which Farm::submitProofAsync checks every solution.
Library ==
    LET light == build_light_cache(find_largest_prime(LightBound), EpochSeed)
        dataset == Strict([i \in 1..find_largest_prime(DagBound) |-> calculate_dataset_item_1024(light, i - 1)])
        mixes == Strict([k \in 1..8 |-> hash_kernel(dataset, Seed(k - 1))])
    IN [light |-> light, dataset |-> dataset, mixes |-> mixes,
        hashes |-> Strict([k \in 1..8 |-> hash_final(Seed(k - 1), mixes[k])])]

Init ==
    /\ lib = Library
    /\ impl \in {"cl", "split", "cuda"}
    /\ multiple \in Multiples[impl]
    /\ boundary \in Boundaries
    /\ phase = "launch" /\ base = 0 /\ quads = {}
    /\ at = [l \in Quad |-> 0]
    /\ node = [l \in Quad |-> Unset] /\ indexes = [l \in Quad |-> 0]
    /\ dag = [p \in {0, 1} \X (0..(WorkItems - 1)) |-> Unset]
    /\ tid = 0 /\ share = Unset
    /\ mix = [l \in Quad |-> Unset] /\ init0 = [l \in Quad |-> 0]
    /\ out = [g \in Gids |-> Unset]
    /\ pc = [g \in Gids |-> "end"] /\ slot = [g \in Gids |-> 0]
    /\ results = [count |-> 0, hashCount |-> 0, abort |-> FALSE, gid |-> [i \in 0..(MaxOutputs - 1) |-> NoGid]]
    /\ reported = {}

Next ==
    \/ Launch \/ LaunchEnds \/ QuadStored \/ cudaReturns \/ cudaItem
    \/ \E lane \in Quad : GenerateDAG(lane) \/ ClSection(lane)
    \/ ClMixes \/ ClTurnEnds \/ CudaMixes \/ CudaGives \/ MixEnds
    \/ \E q \in 0..1 : GroupStarts(q)
    \/ \E g \in Gids : HashCounted(g) \/ SlotTaken(g) \/ GidWritten(g)
    \/ Kicked \/ HostReads

Spec == Init /\ [][Next]_vars

-----------------------------------------------------------------------------
(* Properties *)

\* The DAG that a kernel generates, however the launches divide it, the lanes of a group
\* interleave and its buffers are split, has in each of its items the item that the ethash
\* library computes.
DagIsDataset ==
    phase = "mix" /\ tid = 0 => \A i \in 0..(DagItems - 1) : ItemAt(i) = lib.dataset[i + 1]

\* The mix hash that the lanes of a search kernel compute together for each of them is that of
\* the library, and with it the final hash.
MixIsLibrarys ==
    \A g \in Gids : out[g] # Unset => out[g] = lib.mixes[g + 1]

\* What the host reports is a solution of the batch, but for the words of the boundary that the
\* kernels do not compare; and no solution of a group that was not aborted is lost, unless the
\* buffer is full.
ReportedAreSolutions ==
    /\ \A g \in reported : g \in Gids /\ be(lib.hashes[g + 1][1]) <= Upper64(boundary)
    /\ phase = "done" =>
         \A g \in Gids : pc[g] = "end" /\ is_less_or_equal(lib.hashes[g + 1], boundary) =>
             g \in reported \/ Cardinality(reported) = MaxOutputs

=============================================================================
