--------------------------- MODULE EpochContexts ---------------------------
(***************************************************************************)
(* The epoch of a job and the contexts of epochs: the epoch that the       *)
(* handler of new work derives from a block number or a seed (find_epoch_  *)
(* number), the sizes and the seed of a context (create_epoch_context) and *)
(* the contexts that threads share (managed.cpp).  A miner's thread takes  *)
(* a context to copy its light cache (Miner::setEpoch); the io thread      *)
(* takes one to check a solution (EthashAux::eval).                        *)
(*                                                                         *)
(* A context is a record; a shared pointer holds one, and an allocation    *)
(* makes a new one, told apart by its id.                                  *)
(***************************************************************************)
EXTENDS Primes, FiniteSets

CONSTANTS
    Miners,            \* the threads of the miners
    Io,                \* the io thread
    Null,
    EpochLength,       \* 30000
    ActivationEpoch,   \* ecip_1099_activation_epoch (390)
    LightInit, LightGrowth, DagInit, DagGrowth,   \* items, not bytes
    Hashes,            \* hash256
    keccak256(_),      \* of a seed
    ZeroSeed,          \* the hash256 of zeros
    NumTries,          \* num_tries (30000)
    Blocks,            \* block numbers of jobs
    OtherSeeds,        \* seeds of jobs that are of no epoch
    MaxJobs, MaxContexts   \* bounds on what is modelled

VARIABLES
    carries,           \* whether the pools in use send block numbers: a set of Booleans
    job,               \* m_currentWp
    jobs,              \* the number of jobs so far
    cache,             \* cached_epoch_number and cached_seed of the io thread
    held,              \* the epoch of each miner's DAG
    pc, want,          \* of each thread
    local,             \* thread_local_context of each thread
    shared,            \* shared_context
    owner,             \* of shared_context_mutex
    got,               \* what get_global_epoch_context returned
    created            \* the number of contexts created

jobVars == <<carries, job, jobs, cache>>
vars == <<jobVars, held, pc, want, local, shared, owner, got, created>>

Threads == Miners \cup {Io}

ASSUME ThreadsAssumption == IsFiniteSet(Miners) /\ Io \notin Miners /\ Null \notin Threads

\* The constants of ethash.hpp and ethash.cpp, and hashes are hashed to hashes.
ASSUME EthashAssumption ==
    /\ EpochLength \in Nat /\ EpochLength > 0
    /\ ActivationEpoch \in Nat /\ ActivationEpoch % 2 = 0
    /\ LightInit \in Nat /\ LightInit > 1 /\ LightGrowth \in Nat
    /\ DagInit \in Nat /\ DagInit > 1 /\ DagGrowth \in Nat
    /\ ZeroSeed \in Hashes /\ \A s \in Hashes : keccak256(s) \in Hashes
    /\ NumTries \in Nat /\ MaxJobs \in Nat /\ Blocks \subseteq Nat

-----------------------------------------------------------------------------
(* ethash.cpp, ethash.hpp *)

\* The seed of an epoch: ZeroSeed, hashed as many times.
Seeds[e \in Nat] == IF e = 0 THEN ZeroSeed ELSE keccak256(Seeds[e - 1])
calculate_epoch_seed(e) == Seeds[IF e < 0 THEN 0 ELSE e]

calculate_light_cache_num_items(e) == find_largest_prime(LightInit + e * LightGrowth)
calculate_full_dataset_num_items(e) == find_largest_prime(DagInit + e * DagGrowth)

\* mutant: the epoch of the activation is not halved
epoch_ecip1099_After(e) == IF e > ActivationEpoch THEN e \div 2 ELSE e
epoch_ecip1099(e) == IF e >= ActivationEpoch THEN e \div 2 ELSE e

create_epoch_context(e, id) ==
    [id |-> id, epoch |-> e, seed |-> calculate_epoch_seed(e),
     light |-> calculate_light_cache_num_items(epoch_ecip1099(e)),
     dag |-> calculate_full_dataset_num_items(epoch_ecip1099(e))]

\* Of a block, the epoch of its DAG.
get_epoch_number(block) ==
    IF block >= ActivationEpoch * EpochLength THEN block \div (2 * EpochLength) ELSE block \div EpochLength

\* mutant: the cached number is not that of the cached seed
CacheHit_Number(c) == [epoch |-> c.epoch, seed |-> keccak256(c.seed)]
\* The seed after the cached one.
CacheHit(c) == [epoch |-> c.epoch + 1, seed |-> keccak256(c.seed)]

\* The first epoch tried whose seed this is.
Matches(seed) == {e \in 0..(NumTries - 1) : Seeds[e] = seed}
FirstMatch(seed) ==
    IF Matches(seed) = {} THEN -1 ELSE CHOOSE e \in Matches(seed) : \A d \in Matches(seed) : e <= d

\* The epoch of a seed, with the cache that is left.
find_epoch_number(seed, c) ==
    IF seed = c.seed THEN c
    ELSE IF seed = keccak256(c.seed) THEN CacheHit(c)
    ELSE [epoch |-> FirstMatch(seed), seed |-> seed]

-----------------------------------------------------------------------------
(* The handler of new work, on the io thread *)

\* The seed a pool sends: as the DAG's, it changes every two epochs after the activation.
SeedEpoch(block) ==
    IF block >= ActivationEpoch * EpochLength THEN 2 * get_epoch_number(block) ELSE get_epoch_number(block)
PoolSeed(block) == Seeds[SeedEpoch(block)]

\* The seeds of the epochs in use, and of those find_epoch_number can meet, are distinct.
ASSUME SeedsAssumption ==
    /\ \A e, f \in 0..(NumTries + MaxJobs) : Seeds[e] = Seeds[f] => e = f
    /\ \A b \in Blocks : SeedEpoch(b) <= NumTries + MaxJobs

NoJob == [seed |-> Null, block |-> -1, epoch |-> -1]

\* Stratum modes other than EthereumStratum/2: the job says no epoch.
onWorkReceived(seed, block) ==
    LET newEpoch == job.epoch = -1 \/ seed # job.seed
        found == find_epoch_number(seed, cache)
    IN /\ job' = [seed |-> seed, block |-> block,
                  epoch |-> IF ~newEpoch THEN job.epoch
                            ELSE IF block >= 0 THEN block \div EpochLength ELSE found.epoch]
       /\ cache' = IF newEpoch /\ block < 0 /\ found.epoch >= 0 THEN found ELSE cache

Work ==
    /\ pc[Io] = "idle" /\ jobs < MaxJobs
    /\ jobs' = jobs + 1
    /\ \/ \E b \in Blocks, sent \in carries : onWorkReceived(PoolSeed(b), IF sent THEN b ELSE -1)
       \/ FALSE \in carries /\ \E s \in OtherSeeds : onWorkReceived(s, -1)
    /\ UNCHANGED <<carries, held, pc, want, local, shared, owner, got, created>>

-----------------------------------------------------------------------------
(* managed.cpp *)

IsOf(context, e) == context # Null /\ context.epoch = e

Goto(t, label) == pc' = [pc EXCEPT ![t] = label]

Asks(t, e) ==
    /\ pc[t] = "idle"
    /\ want' = [want EXCEPT ![t] = e]
    /\ Goto(t, "get")
    /\ UNCHANGED <<jobVars, held, local, shared, owner, got, created>>

\* A miner's thread finds a job of another epoch.
MinerAsks(t) == job # NoJob /\ held[t] # job.epoch /\ Asks(t, job.epoch)

\* The io thread has a solution of the epoch of some miner.
Solution(t) == held[t] # Null /\ Asks(Io, held[t])

\* A thread that has another context than it wants gives it up.
get_global_epoch_context(t) ==
    /\ pc[t] = "get"
    /\ IF IsOf(local[t], want[t])
       THEN got' = [got EXCEPT ![t] = local[t]] /\ Goto(t, "use") /\ UNCHANGED local
       ELSE local' = [local EXCEPT ![t] = Null] /\ Goto(t, "lock") /\ UNCHANGED got
    /\ UNCHANGED <<jobVars, held, want, shared, owner, created>>

\* update_local_context, after the reset
Locks(t) ==
    /\ pc[t] = "lock" /\ owner = Null
    /\ owner' = t
    /\ IF IsOf(shared, want[t]) THEN Goto(t, "assign") /\ UNCHANGED shared
       ELSE Goto(t, "build") /\ shared' = Null
    /\ UNCHANGED <<jobVars, held, want, local, got, created>>

\* calloc may fail.
Builds(t) ==
    /\ pc[t] = "build" /\ created < MaxContexts
    /\ \/ shared' = create_epoch_context(want[t], created) /\ created' = created + 1
       \/ UNCHANGED <<shared, created>>
    /\ Goto(t, "assign")
    /\ UNCHANGED <<jobVars, held, want, local, owner, got>>

\* mutant: the thread does not hold what it returns
Assigns_SharedOnly(t) ==
    /\ pc[t] = "assign"
    /\ got' = [got EXCEPT ![t] = shared]
    /\ owner' = Null
    /\ Goto(t, IF shared = Null THEN "crashed" ELSE "use")
    /\ UNCHANGED <<jobVars, held, want, local, shared, created>>
\* The lock is released, and the pointer dereferenced.
Assigns(t) ==
    /\ pc[t] = "assign"
    /\ local' = [local EXCEPT ![t] = shared]
    /\ got' = [got EXCEPT ![t] = shared]
    /\ owner' = Null
    /\ Goto(t, IF shared = Null THEN "crashed" ELSE "use")
    /\ UNCHANGED <<jobVars, held, want, shared, created>>

\* Miner::setEpoch has copied the light cache, EthashAux::eval has hashed.
Used(t) ==
    /\ pc[t] = "use"
    /\ held' = IF t \in Miners THEN [held EXCEPT ![t] = want[t]] ELSE held
    /\ want' = [want EXCEPT ![t] = -1] /\ got' = [got EXCEPT ![t] = Null]
    /\ Goto(t, "idle")
    /\ UNCHANGED <<jobVars, local, shared, owner, created>>

-----------------------------------------------------------------------------
Init ==
    /\ carries \in SUBSET BOOLEAN \ {{}}
    /\ job = NoJob /\ jobs = 0
    /\ cache = [epoch |-> 0, seed |-> ZeroSeed]
    /\ held = [t \in Miners |-> Null]
    /\ pc = [t \in Threads |-> "idle"] /\ want = [t \in Threads |-> -1]
    /\ local = [t \in Threads |-> Null] /\ got = [t \in Threads |-> Null]
    /\ shared = Null /\ owner = Null /\ created = 0

Crashed == \E t \in Threads : pc[t] = "crashed"

Next ==
    /\ ~Crashed
    /\ \/ Work
       \/ \E t \in Miners : MinerAsks(t) \/ Solution(t)
       \/ \E t \in Threads : get_global_epoch_context(t) \/ Locks(t) \/ Builds(t) \/ Assigns(t) \/ Used(t)

Spec == Init /\ [][Next]_vars

-----------------------------------------------------------------------------
(* Properties *)

\* The contexts that are not destroyed.
Alive == ({local[t] : t \in Threads} \cup {shared}) \ {Null}

\* What a thread reads, a light cache or its sizes, is of a context that some pointer keeps from
\* being destroyed, of the epoch it asked for, whatever other threads do to the shared one.
UsesLiveContext ==
    \A t \in Threads : pc[t] = "use" => got[t] \in Alive /\ got[t].epoch = want[t]

\* There are never more contexts in memory than threads, the one under construction included: a
\* thread releases its own, and the shared one, before it builds another.
ContextsBounded == Cardinality({c.id : c \in Alive}) <= Cardinality(Threads)

\* The epoch of a job that says only its seed is the one the seed is of, whatever the search has
\* cached; it is -1 only for a seed of none of the epochs tried.
EpochOfSeed ==
    carries = {FALSE} /\ job # NoJob =>
        IF job.epoch = -1 THEN Matches(job.seed) = {} ELSE calculate_epoch_seed(job.epoch) = job.seed

\* The largest prime, by its definition.
LargestPrime(n, bound) ==
    LET prime(k) == k > 1 /\ \A d \in 2..(k - 1) : k % d # 0
    IN prime(n) /\ n <= bound /\ \A k \in (n + 1)..bound : ~prime(k)

OfJob(t) == pc[t] = "use" /\ job.block >= 0 /\ want[t] = job.epoch

\* The sizes for a job that says its block are those of the block's DAG: of the halved epoch from
\* the activation on, including the jobs of an odd epoch and the ones that keep the epoch before.
SizesOfBlock ==
    \A t \in Threads : OfJob(t) =>
        /\ LargestPrime(got[t].dag, DagInit + get_epoch_number(job.block) * DagGrowth)
        /\ LargestPrime(got[t].light, LightInit + get_epoch_number(job.block) * LightGrowth)

=============================================================================
