------------------------ MODULE EpochContextsProofs ------------------------
(***************************************************************************)
(* Proofs about EpochContexts, for any miners, jobs and number of contexts *)
(* created.                                                                *)
(***************************************************************************)
EXTENDS EpochContexts, FiniteSetTheorems, TLAPS

IsFcn(f, S) == f = [x \in S |-> f[x]]
ShapeInv == IsFcn(pc, Threads) /\ IsFcn(want, Threads) /\ IsFcn(local, Threads) /\ IsFcn(got, Threads)

\* The thread that is to build or to take the shared context owns the mutex; the shared context
\* it is to take is the one it wants, or none. Until it takes one it holds none.
LockInv ==
    \A t \in Threads :
        /\ pc[t] \in {"build", "assign"} => owner = t
        /\ pc[t] = "build" => shared = Null
        /\ pc[t] \in {"lock", "build"} => local[t] = Null
        /\ pc[t] = "assign" => shared = Null \/ shared.epoch = want[t]

\* A thread uses the context that it holds itself.
UseInv ==
    \A t \in Threads :
        pc[t] = "use" => got[t] = local[t] /\ local[t] # Null /\ local[t].epoch = want[t]

\* The shared context is held by a thread, or some thread holds none.
HeldInv ==
    \/ shared = Null
    \/ \E t \in Threads : local[t] = shared
    \/ \E t \in Threads : local[t] = Null

IInv == ShapeInv /\ LockInv /\ UseInv /\ HeldInv

-----------------------------------------------------------------------------
\* No thread holds a context and none is shared at the start.
LEMMA InitInv == Init => IInv
  BY DEF Init, IInv, ShapeInv, IsFcn, LockInv, UseInv, HeldInv

\* Every step of a thread, and every job, preserves the inductive invariant.
LEMMA StepInv == IInv /\ [Next]_vars => IInv'
  <1> SUFFICES ASSUME IInv, [Next]_vars PROVE IInv'
    OBVIOUS
  <1> USE ThreadsAssumption DEF IInv, Goto
  <1>1. CASE Work
    BY <1>1 DEF Work, ShapeInv, IsFcn, LockInv, UseInv, HeldInv
  <1>2. ASSUME NEW t \in Threads, NEW e, Asks(t, e) PROVE IInv'
    <2>1. ShapeInv'
      BY <1>2 DEF Asks, ShapeInv, IsFcn
    <2>2. LockInv'
      BY <1>2 DEF Asks, ShapeInv, IsFcn, LockInv
    <2>3. UseInv' /\ HeldInv'
      BY <1>2 DEF Asks, ShapeInv, IsFcn, UseInv, HeldInv
    <2> QED BY <2>1, <2>2, <2>3
  <1>3. ASSUME NEW t \in Threads, get_global_epoch_context(t) PROVE IInv'
    <2>1. ShapeInv'
      BY <1>3 DEF get_global_epoch_context, ShapeInv, IsFcn
    <2>2. LockInv'
      BY <1>3 DEF get_global_epoch_context, ShapeInv, IsFcn, LockInv
    <2>3. UseInv'
      BY <1>3 DEF get_global_epoch_context, ShapeInv, IsFcn, UseInv, IsOf
    <2>4. HeldInv'
      BY <1>3 DEF get_global_epoch_context, ShapeInv, IsFcn, HeldInv
    <2> QED BY <2>1, <2>2, <2>3, <2>4
  <1>4. ASSUME NEW t \in Threads, Locks(t) PROVE IInv'
    <2>1. ShapeInv'
      BY <1>4 DEF Locks, ShapeInv, IsFcn
    <2>2. LockInv'
      BY <1>4 DEF Locks, ShapeInv, IsFcn, LockInv, IsOf
    <2>3. UseInv' /\ HeldInv'
      BY <1>4 DEF Locks, ShapeInv, IsFcn, UseInv, HeldInv
    <2> QED BY <2>1, <2>2, <2>3
  <1>5. ASSUME NEW t \in Threads, Builds(t) PROVE IInv'
    <2>1. ShapeInv'
      BY <1>5 DEF Builds, ShapeInv, IsFcn
    <2>2. LockInv'
      BY <1>5 DEF Builds, ShapeInv, IsFcn, LockInv, create_epoch_context
    <2>3. UseInv'
      BY <1>5 DEF Builds, ShapeInv, IsFcn, UseInv
    <2>4. HeldInv'
      BY <1>5 DEF Builds, ShapeInv, IsFcn, LockInv, HeldInv
    <2> QED BY <2>1, <2>2, <2>3, <2>4
  <1>6. ASSUME NEW t \in Threads, Assigns(t) PROVE IInv'
    <2>1. ShapeInv'
      BY <1>6 DEF Assigns, ShapeInv, IsFcn
    <2>2. LockInv'
      BY <1>6 DEF Assigns, ShapeInv, IsFcn, LockInv
    <2>3. UseInv'
      BY <1>6 DEF Assigns, ShapeInv, IsFcn, UseInv, LockInv
    <2>4. HeldInv'
      BY <1>6 DEF Assigns, ShapeInv, IsFcn, HeldInv
    <2> QED BY <2>1, <2>2, <2>3, <2>4
  <1>7. ASSUME NEW t \in Threads, Used(t) PROVE IInv'
    <2>1. ShapeInv'
      BY <1>7 DEF Used, ShapeInv, IsFcn
    <2>2. LockInv'
      BY <1>7 DEF Used, ShapeInv, IsFcn, LockInv
    <2>3. UseInv' /\ HeldInv'
      BY <1>7 DEF Used, ShapeInv, IsFcn, UseInv, HeldInv
    <2> QED BY <2>1, <2>2, <2>3
  <1>8. CASE UNCHANGED vars
    BY <1>8 DEF vars, jobVars, ShapeInv, IsFcn, LockInv, UseInv, HeldInv
  <1>9. Miners \subseteq Threads /\ Io \in Threads
    BY DEF Threads
  <1> QED
    BY <1>1, <1>2, <1>3, <1>4, <1>5, <1>6, <1>7, <1>8, <1>9 DEF Next, MinerAsks, Solution

\* The inductive invariant holds in every state.
LEMMA Inductive == Spec => []IInv
  BY InitInv, StepInv, PTL DEF Spec

-----------------------------------------------------------------------------
\* What a thread reads is of a context that is not destroyed, of the epoch it asked for
\* (get_global_epoch_context and its callers), for any number of threads and epochs.
THEOREM LiveContexts == Spec => []UsesLiveContext
  <1>1. IInv => UsesLiveContext
    BY DEF IInv, UseInv, UsesLiveContext, Alive
  <1> QED
    BY <1>1, Inductive, PTL

\* As many contexts as threads, at most: one that only shared_context holds takes the place of a
\* thread that holds none.
LEMMA Bounded == IInv => ContextsBounded
  <1> SUFFICES ASSUME IInv PROVE ContextsBounded
    OBVIOUS
  <1> DEFINE Ids == {c.id : c \in Alive}
  <1>1. IsFiniteSet(Threads)
    BY ThreadsAssumption, FS_AddElement DEF Threads
  <1>2. PICK h \in [Threads -> {local[t] : t \in Threads} \cup {shared}] : \A c \in Alive : \E t \in Threads : h[t] = c
    <2>1. CASE shared = Null \/ \E t \in Threads : local[t] = shared
      <3>1. WITNESS [t \in Threads |-> local[t]] \in [Threads -> {local[t] : t \in Threads} \cup {shared}]
      <3> QED BY <2>1 DEF Alive
    <2>2. CASE \E t \in Threads : local[t] = Null
      <3>1. PICK u \in Threads : local[u] = Null
        BY <2>2
      <3>2. WITNESS [t \in Threads |-> IF t = u THEN shared ELSE local[t]]
                     \in [Threads -> {local[t] : t \in Threads} \cup {shared}]
      <3> QED BY <3>1 DEF Alive
    <2> QED BY <2>1, <2>2 DEF IInv, HeldInv
  <1> DEFINE S == {t \in Threads : h[t] \in Alive}
             f == [t \in S |-> h[t].id]
  <1>3. f \in Surjection(S, Ids)
    BY <1>2 DEF Surjection
  <1>4. IsFiniteSet(S) /\ Cardinality(S) <= Cardinality(Threads)
    BY <1>1, FS_Subset
  <1>5. Cardinality(Ids) <= Cardinality(S) /\ IsFiniteSet(Ids)
    BY <1>3, <1>4, FS_Surjection
  <1>6. Cardinality(Ids) \in Nat /\ Cardinality(S) \in Nat /\ Cardinality(Threads) \in Nat
    BY <1>1, <1>4, <1>5, FS_CardinalityType
  <1> HIDE DEF S, Ids
  <1>7. Cardinality(Ids) <= Cardinality(Threads)
    BY <1>4, <1>5, <1>6
  <1> QED
    BY <1>7 DEF ContextsBounded, Ids

\* There are never more contexts than threads (update_local_context), for any number of threads.
THEOREM BoundedContexts == Spec => []ContextsBounded
  BY Inductive, Bounded, PTL

-----------------------------------------------------------------------------
(* Induction over the natural numbers, about a set instead of a predicate *)

\* A set of natural numbers that is not empty has a least one: < is well-founded.
LEMMA LeastNatural ==
    ASSUME NEW S \in SUBSET Nat, S # {}
    PROVE  \E m \in S : \A k \in S : m <= k
<1>1. PICK m \in S : \A k \in S : <<k, m>> \notin OpToRel(<, Nat)
  BY NatLessThanWellFounded, WFMin, Zenon
<1>2. ASSUME NEW k \in S PROVE m <= k
  <2>1. <<k, m>> \in Nat \X Nat /\ <<k, m>>[1] = k /\ <<k, m>>[2] = m
    OBVIOUS
  <2>2. ~(k < m)
    BY <1>1, <2>1 DEF OpToRel
  <2> QED BY <2>2
<1> QED BY <1>2

\* Induction: a set with 0 and with the successor of each of its numbers has every number,
\* for the least number missing would have a predecessor in it.
THEOREM SetInduction ==
    ASSUME NEW S, 0 \in S, \A n \in Nat : n \in S => n + 1 \in S
    PROVE  Nat \subseteq S
<1> SUFFICES ASSUME Nat \ S # {} PROVE FALSE
  OBVIOUS
<1>1. PICK m \in Nat \ S : \A k \in Nat \ S : m <= k
  BY LeastNatural, (Nat \ S) \in SUBSET Nat, Zenon
<1>2. m - 1 \in Nat /\ (m - 1) + 1 = m /\ ~(m <= m - 1)
  OBVIOUS
<1> QED BY <1>1, <1>2

\* There is a function that iterates step from base for ever, so that a recursive function
\* of this shape is what its equation says.
THEOREM IterationExists ==
    ASSUME NEW T, NEW base \in T, NEW step \in [T -> T]
    PROVE  \E g \in [Nat -> T] : g[0] = base /\ \A n \in Nat : g[n + 1] = step[g[n]]
<1> DEFINE Goes(h, n) == h[0] = base /\ \A i \in 0..(n - 1) : h[i + 1] = step[h[i]]
           Has == {n \in Nat : \E h \in [Nat -> T] : Goes(h, n)}
           h(n) == CHOOSE f \in [Nat -> T] : Goes(f, n)
           g == [n \in Nat |-> h(n)[n]]
<1>1. Nat \subseteq Has
  <2>1. 0 \in Has
    <3>1. [i \in Nat |-> base] \in [Nat -> T] /\ Goes([i \in Nat |-> base], 0)
      OBVIOUS
    <3> QED BY <3>1
  <2>2. ASSUME NEW n \in Nat, n \in Has PROVE n + 1 \in Has
    <3>1. PICK f \in [Nat -> T] : Goes(f, n)
      BY <2>2
    <3> DEFINE k == [i \in Nat |-> IF i <= n THEN f[i] ELSE step[f[n]]]
    <3>2. k \in [Nat -> T] /\ k[0] = base
      BY <3>1
    <3>3. ASSUME NEW i \in 0..n PROVE k[i + 1] = step[k[i]]
      BY <3>1, i < n \/ i = n
    <3> HIDE DEF k
    <3> QED BY <3>2, <3>3
  <2> HIDE DEF Has
  <2> QED BY <2>1, <2>2, SetInduction
<1>2. ASSUME NEW n \in Nat PROVE h(n) \in [Nat -> T] /\ Goes(h(n), n)
  BY <1>1
<1> HIDE DEF h
\* Two iterations agree as far as both go.
<1>3. ASSUME NEW n \in Nat PROVE h(n + 1)[n] = h(n)[n]
  <2> DEFINE Same == {i \in Nat : i <= n => h(n + 1)[i] = h(n)[i]}
  <2>1. Goes(h(n + 1), n + 1) /\ Goes(h(n), n)
    BY <1>2
  <2>2. 0 \in Same
    BY <2>1
  <2>3. ASSUME NEW i \in Nat, i \in Same PROVE i + 1 \in Same
    BY <2>1, <2>3
  <2>4. Nat \subseteq Same
    <3> HIDE DEF Same
    <3> QED BY <2>2, <2>3, SetInduction
  <2> QED BY <2>4
<1>4. g \in [Nat -> T] /\ g[0] = base
  BY <1>2
<1>5. ASSUME NEW n \in Nat PROVE g[n + 1] = step[g[n]]
  <2>1. h(n + 1)[n + 1] = step[h(n + 1)[n]]
    BY <1>2
  <2> QED BY <1>3, <2>1
<1> QED BY <1>4, <1>5

-----------------------------------------------------------------------------
(* The seeds of epochs *)

\* Seeds is what its equation says.
LEMMA SeedsUnfold == Seeds = [e \in Nat |-> IF e = 0 THEN ZeroSeed ELSE keccak256(Seeds[e - 1])]
  <1> DEFINE F(g) == [e \in Nat |-> IF e = 0 THEN ZeroSeed ELSE keccak256(g[e - 1])]
             step == [s \in Hashes |-> keccak256(s)]
  <1>1. ZeroSeed \in Hashes /\ step \in [Hashes -> Hashes]
    BY EthashAssumption
  <1>2. PICK g \in [Nat -> Hashes] : g[0] = ZeroSeed /\ \A n \in Nat : g[n + 1] = step[g[n]]
    <2> HIDE DEF step
    <2> QED BY <1>1, IterationExists
  <1>3. ASSUME NEW n \in Nat PROVE g[n] = F(g)[n]
    <2>1. CASE n = 0
      BY <2>1, <1>2
    <2>2. CASE n # 0
      <3>1. n - 1 \in Nat /\ (n - 1) + 1 = n
        BY <2>2
      <3>2. g[n] = step[g[n - 1]]
        BY <3>1, <1>2
      <3>3. g[n - 1] \in Hashes
        BY <3>1
      <3> QED BY <3>2, <3>3, <2>2
    <2> QED BY <2>1, <2>2
  <1>4. g = F(g)
    BY <1>3
  <1> QED BY <1>4 DEF Seeds

\* The recurrence of the seeds.
LEMMA SeedsStep == Seeds[0] = ZeroSeed /\ \A e \in Nat : Seeds[e + 1] = keccak256(Seeds[e])
  <1>1. Seeds[0] = ZeroSeed
    BY SeedsUnfold
  <1>2. ASSUME NEW e \in Nat PROVE Seeds[e + 1] = keccak256(Seeds[e])
    <2>1. e + 1 \in Nat /\ e + 1 # 0 /\ (e + 1) - 1 = e
      OBVIOUS
    <2> QED BY <2>1, SeedsUnfold
  <1> QED BY <1>1, <1>2

\* A cached epoch is that of the cached seed.
CacheOK(c, bound) == c.epoch \in Nat /\ c.epoch <= bound /\ c.seed = Seeds[c.epoch]

\* find_epoch_number finds the epoch of the seed, by the cache or by the search, or there is none.
LEMMA FindEpoch ==
  ASSUME NEW seed, NEW c, NEW bound \in Nat, CacheOK(c, bound), NumTries <= bound
  PROVE  LET f == find_epoch_number(seed, c)
         IN  \/ f.epoch = -1 /\ Matches(seed) = {}
             \/ CacheOK(f, bound + 1) /\ f.seed = seed
  <1> DEFINE f == find_epoch_number(seed, c)
  <1> SUFFICES \/ f.epoch = -1 /\ Matches(seed) = {}
               \/ CacheOK(f, bound + 1) /\ f.seed = seed
    OBVIOUS
  <1>1. CASE seed = c.seed
    <2>1. f = c
      BY <1>1 DEF find_epoch_number
    <2> QED BY <1>1, <2>1 DEF CacheOK
  <1>2. CASE seed # c.seed /\ seed = keccak256(c.seed)
    <2>1. f = [epoch |-> c.epoch + 1, seed |-> keccak256(c.seed)]
      BY <1>2 DEF find_epoch_number, CacheHit
    <2>2. Seeds[c.epoch + 1] = keccak256(c.seed)
      BY SeedsStep DEF CacheOK
    <2>3. f.epoch = c.epoch + 1 /\ f.seed = keccak256(c.seed)
      BY <2>1
    <2> HIDE DEF f
    <2> QED BY <1>2, <2>2, <2>3 DEF CacheOK
  <1>3. CASE seed # c.seed /\ seed # keccak256(c.seed)
    <2>1. f.epoch = FirstMatch(seed) /\ f.seed = seed
      BY <1>3 DEF find_epoch_number
    <2>2. Matches(seed) \in SUBSET Nat
      BY EthashAssumption DEF Matches
    <2> HIDE DEF f
    <2>3. CASE Matches(seed) = {}
      BY <2>1, <2>3 DEF FirstMatch
    <2>4. CASE Matches(seed) # {}
      <3>1. \E e \in Matches(seed) : \A d \in Matches(seed) : e <= d
        BY <2>2, <2>4, LeastNatural
      <3>2. FirstMatch(seed) \in Matches(seed)
        BY <2>4, <3>1, Zenon DEF FirstMatch
      <3>3. FirstMatch(seed) \in Nat /\ FirstMatch(seed) <= NumTries /\ Seeds[FirstMatch(seed)] = seed
        BY <3>2, EthashAssumption DEF Matches
      <3> QED BY <2>1, <3>3, EthashAssumption DEF CacheOK
    <2> QED BY <2>3, <2>4
  <1> QED BY <1>1, <1>2, <1>3

-----------------------------------------------------------------------------
(* The epoch of a job *)

\* Halving the epoch of a block is dividing by epochs of twice the length.
LEMMA HalvedQuotient ==
  ASSUME NEW b \in Nat, NEW L \in Nat, L > 0
  PROVE  /\ b \div L \in Nat /\ b \div (2 * L) \in Nat
         /\ (b \div L) \div 2 = b \div (2 * L)
  <1> DEFINE q == b \div L
             k == b \div (2 * L)
  <1>1. q \in Nat /\ q * L <= b /\ b < q * L + L
    OBVIOUS
  <1>2. 2 * L \in Nat /\ 2 * L > 0
    OBVIOUS
  <1>3. k \in Nat /\ k * (2 * L) <= b /\ b < k * (2 * L) + 2 * L
    BY <1>2
  <1> HIDE DEF q, k
  <1>4. 2 * k <= q
    <2> SUFFICES ASSUME q + 1 <= 2 * k PROVE FALSE
      BY <1>1, <1>3
    <2>1. (q + 1) * L <= (2 * k) * L
      BY <1>1, <1>3
    <2>2. (q + 1) * L = q * L + L /\ (2 * k) * L = k * (2 * L)
      BY <1>1, <1>3
    <2> QED BY <1>1, <1>3, <2>1, <2>2
  <1>5. q <= 2 * k + 1
    <2> SUFFICES ASSUME 2 * k + 2 <= q PROVE FALSE
      BY <1>1, <1>3
    <2>1. (2 * k + 2) * L <= q * L
      BY <1>1, <1>3
    <2>2. (2 * k + 2) * L = k * (2 * L) + 2 * L
      BY <1>3
    <2> QED BY <1>1, <1>3, <2>1, <2>2
  <1>6. q \div 2 = k
    BY <1>1, <1>3, <1>4, <1>5
  <1> QED BY <1>1, <1>3, <1>6 DEF q, k

\* A quotient compares with a number as the dividend with the multiple.
LEMMA QuotientBound ==
  ASSUME NEW b \in Nat, NEW L \in Nat, L > 0, NEW a \in Nat
  PROVE  b >= a * L <=> b \div L >= a
  <1> DEFINE q == b \div L
  <1>1. q \in Nat /\ q * L <= b /\ b < q * L + L
    OBVIOUS
  <1> HIDE DEF q
  <1>2. ASSUME q >= a PROVE b >= a * L
    <2>1. a * L <= q * L
      BY <1>1, <1>2
    <2> QED BY <1>1, <2>1
  <1>3. ASSUME q + 1 <= a PROVE ~(b >= a * L)
    <2>1. (q + 1) * L <= a * L /\ (q + 1) * L = q * L + L
      BY <1>1, <1>3
    <2> QED BY <1>1, <2>1
  <1> QED BY <1>1, <1>2, <1>3 DEF q

\* The epoch of a block, and the epoch of the seed a pool sends with it, give the same sizes:
\* those of the epoch of its DAG.
LEMMA SeedEpochIs ==
  ASSUME NEW b \in Nat
  PROVE  /\ SeedEpoch(b) \in Nat /\ b \div EpochLength \in Nat
         /\ epoch_ecip1099(SeedEpoch(b)) = get_epoch_number(b)
         /\ epoch_ecip1099(b \div EpochLength) = get_epoch_number(b)
  <1> DEFINE L == EpochLength
             A == ActivationEpoch
             q == b \div L
             k == b \div (2 * L)
  <1>1. L \in Nat /\ L > 0 /\ A \in Nat /\ A % 2 = 0
    BY EthashAssumption
  <1>2. q \in Nat /\ k \in Nat /\ q \div 2 = k
    BY <1>1, HalvedQuotient
  <1>3. b >= A * L <=> q >= A
    BY <1>1, QuotientBound
  <1>4. /\ get_epoch_number(b) = IF q >= A THEN k ELSE q
        /\ SeedEpoch(b) = IF q >= A THEN 2 * k ELSE q
    BY <1>3 DEF get_epoch_number, SeedEpoch
  <1> HIDE DEF q, k, L, A
  <1>5. q >= A => 2 * k >= A /\ (2 * k) \div 2 = k
    BY <1>1, <1>2
  <1>6. \A e : epoch_ecip1099(e) = IF e >= A THEN e \div 2 ELSE e
    BY DEF epoch_ecip1099, A
  <1>7. SeedEpoch(b) \in Nat
    BY <1>2, <1>4
  <1>8. epoch_ecip1099(SeedEpoch(b)) = get_epoch_number(b)
    BY <1>1, <1>2, <1>4, <1>5, <1>6
  <1>9. epoch_ecip1099(q) = get_epoch_number(b)
    BY <1>2, <1>4, <1>6
  <1> QED BY <1>2, <1>7, <1>8, <1>9 DEF q, L

\* The last epoch that is met.
Horizon == NumTries + MaxJobs

\* The cached epoch is that of the cached seed; the epoch of a job has the sizes of an epoch of
\* its seed; a job that says its block has the seed of the block and an epoch.
JobInv ==
  /\ jobs \in Nat /\ jobs <= MaxJobs
  /\ CacheOK(cache, NumTries + jobs)
  /\ job.epoch \in Nat \cup {-1}
  /\ job.epoch # -1 =>
        \E e \in 0..Horizon : Seeds[e] = job.seed /\ epoch_ecip1099(e) = epoch_ecip1099(job.epoch)
  /\ job.block >= 0 => job.block \in Blocks /\ job.seed = PoolSeed(job.block) /\ job.epoch # -1
  /\ job.block \in Nat \cup {-1}

\* There is no job, and the seed of epoch 0 is cached, at the start.
LEMMA InitJob == Init => JobInv /\ EpochOfSeed
  <1> SUFFICES ASSUME Init PROVE JobInv /\ EpochOfSeed
    OBVIOUS
  <1>1. job.epoch = -1 /\ job.block = -1 /\ job = NoJob
    BY DEF Init, NoJob
  <1>2. cache.epoch = 0 /\ cache.seed = Seeds[0]
    BY SeedsStep DEF Init
  <1> QED BY <1>1, <1>2, EthashAssumption DEF Init, JobInv, CacheOK, EpochOfSeed

\* The job and the cache that the handler of new work leaves.
LEMMA ReceivedOK ==
  ASSUME JobInv, EpochOfSeed, jobs < MaxJobs, jobs' = jobs + 1, carries' = carries,
         NEW seed, NEW block \in Nat \cup {-1}, onWorkReceived(seed, block),
         block >= 0 => block \in Blocks /\ seed = PoolSeed(block),
         carries = {FALSE} => block = -1
  PROVE  JobInv' /\ EpochOfSeed'
  <1> DEFINE newEpoch == job.epoch = -1 \/ seed # job.seed
             found == find_epoch_number(seed, cache)
  <1>1. /\ job'.seed = seed /\ job'.block = block
        /\ job'.epoch = IF ~newEpoch THEN job.epoch
                        ELSE IF block >= 0 THEN block \div EpochLength ELSE found.epoch
        /\ cache' = IF newEpoch /\ block < 0 /\ found.epoch >= 0 THEN found ELSE cache
    BY DEF onWorkReceived
  <1>2. NumTries + jobs \in Nat /\ NumTries <= NumTries + jobs /\ NumTries \in Nat /\ MaxJobs \in Nat
    BY EthashAssumption DEF JobInv
  <1>3. \/ found.epoch = -1 /\ Matches(seed) = {}
        \/ CacheOK(found, (NumTries + jobs) + 1) /\ found.seed = seed
    <2> DEFINE bound == NumTries + jobs
    <2>1. bound \in Nat /\ NumTries <= bound /\ CacheOK(cache, bound)
      BY <1>2 DEF JobInv
    <2> HIDE DEF bound
    <2>2. \/ found.epoch = -1 /\ Matches(seed) = {}
          \/ CacheOK(found, bound + 1) /\ found.seed = seed
      BY <2>1, FindEpoch
    <2> QED BY <2>2 DEF bound
  <1> HIDE DEF found
  <1>4. jobs' \in Nat /\ jobs' <= MaxJobs /\ (NumTries + jobs) + 1 = NumTries + jobs'
    BY <1>2 DEF JobInv
  <1>5. CacheOK(cache', NumTries + jobs')
    <2>1. CacheOK(cache, NumTries + jobs) => CacheOK(cache, NumTries + jobs')
      BY <1>2, <1>4 DEF CacheOK, JobInv
    <2>2. found.epoch >= 0 => CacheOK(found, NumTries + jobs')
      BY <1>3, <1>4
    <2> QED BY <1>1, <2>1, <2>2 DEF JobInv
  <1>6. CASE ~newEpoch
    <2>1. job'.epoch = job.epoch /\ job'.seed = job.seed /\ job.epoch # -1
      BY <1>1, <1>6
    <2>2. JobInv'
      BY <1>1, <1>4, <1>5, <2>1 DEF JobInv
    <2>3. job # NoJob
      BY <2>1 DEF NoJob
    <2>4. EpochOfSeed'
      BY <2>1, <2>3 DEF EpochOfSeed, Matches
    <2> QED BY <2>2, <2>4
  <1>7. CASE newEpoch /\ block >= 0
    <2>1. job'.epoch = block \div EpochLength /\ block \in Nat /\ block \in Blocks
      BY <1>1, <1>7
    <2>2. /\ SeedEpoch(block) \in Nat /\ job'.epoch \in Nat
          /\ epoch_ecip1099(SeedEpoch(block)) = epoch_ecip1099(job'.epoch)
      BY <2>1, SeedEpochIs
    <2>3. SeedEpoch(block) \in 0..Horizon
      BY <1>2, <2>1, <2>2, SeedsAssumption DEF Horizon
    <2>4. Seeds[SeedEpoch(block)] = job'.seed
      BY <1>1, <1>7 DEF PoolSeed
    <2>5. JobInv'
      BY <1>1, <1>4, <1>5, <1>7, <2>1, <2>2, <2>3, <2>4 DEF JobInv
    <2>6. EpochOfSeed'
      BY <1>7 DEF EpochOfSeed
    <2> QED BY <2>5, <2>6
  <1>8. CASE newEpoch /\ block = -1
    <2>1. job'.epoch = found.epoch
      BY <1>1, <1>8
    <2>2. CASE found.epoch = -1 /\ Matches(seed) = {}
      <3>1. JobInv'
        BY <1>1, <1>4, <1>5, <1>8, <2>1, <2>2 DEF JobInv
      <3>2. EpochOfSeed'
        BY <1>1, <2>1, <2>2 DEF EpochOfSeed, Matches
      <3> QED BY <3>1, <3>2
    <2>3. CASE CacheOK(found, NumTries + jobs') /\ found.seed = seed
      <3>1. found.epoch \in Nat /\ found.epoch <= Horizon /\ Seeds[found.epoch] = seed
        BY <1>2, <1>4, <2>3 DEF CacheOK, Horizon
      <3>2. found.epoch \in 0..Horizon
        BY <1>2, <3>1 DEF Horizon
      <3>3. JobInv'
        BY <1>1, <1>4, <1>5, <1>8, <2>1, <3>1, <3>2 DEF JobInv
      <3>4. EpochOfSeed'
        BY <1>1, <2>1, <3>1 DEF EpochOfSeed, calculate_epoch_seed
      <3> QED BY <3>3, <3>4
    <2> QED BY <1>3, <1>4, <2>2, <2>3
  <1> QED BY <1>6, <1>7, <1>8

\* Every step keeps the job, its epoch and the cached epoch as they are to be.
LEMMA StepJob == JobInv /\ EpochOfSeed /\ [Next]_vars => JobInv' /\ EpochOfSeed'
  <1> SUFFICES ASSUME JobInv, EpochOfSeed, [Next]_vars PROVE JobInv' /\ EpochOfSeed'
    OBVIOUS
  <1>1. CASE Work
    <2>1. jobs < MaxJobs /\ jobs' = jobs + 1 /\ carries' = carries
      BY <1>1 DEF Work
    <2>2. ASSUME NEW b \in Blocks, NEW sent \in carries, onWorkReceived(PoolSeed(b), IF sent THEN b ELSE -1)
          PROVE  JobInv' /\ EpochOfSeed'
      <3> DEFINE block == IF sent THEN b ELSE -1
      <3>1. block \in Nat \cup {-1} /\ (block >= 0 => block = b)
        BY EthashAssumption
      <3>2. carries = {FALSE} => block = -1
        OBVIOUS
      <3>3. onWorkReceived(PoolSeed(b), block)
        BY <2>2
      <3>4. block >= 0 => block \in Blocks /\ PoolSeed(b) = PoolSeed(block)
        BY <3>1
      <3> HIDE DEF block
      <3> QED BY <2>1, <3>1, <3>2, <3>3, <3>4, ReceivedOK
    <2>3. ASSUME NEW s \in OtherSeeds, onWorkReceived(s, -1) PROVE JobInv' /\ EpochOfSeed'
      <3>1. -1 \in Nat \cup {-1} /\ ~(-1 >= 0)
        OBVIOUS
      <3> QED BY <2>1, <2>3, <3>1, ReceivedOK
    <2> QED BY <1>1, <2>2, <2>3 DEF Work
  <1>2. CASE UNCHANGED jobVars
    BY <1>2 DEF jobVars, JobInv, CacheOK, EpochOfSeed, Matches
  <1>3. Work \/ UNCHANGED jobVars
    BY DEF Next, vars, MinerAsks, Solution, Asks, get_global_epoch_context, Locks, Builds, Assigns, Used
  <1> QED BY <1>1, <1>2, <1>3

\* The invariant of the job holds in every state.
LEMMA JobInductive == Spec => [](JobInv /\ EpochOfSeed)
  BY InitJob, StepJob, PTL DEF Spec

\* The epoch of a job that says only its seed is the one of the seed (find_epoch_number and its
\* caller), for any hash function whose chain does not repeat within the epochs that are met.
THEOREM EpochIsOfSeed == Spec => []EpochOfSeed
  BY JobInductive, PTL

-----------------------------------------------------------------------------
(* The search for a prime *)

\* The numbers that the search from n can stop at.
Stops(n) == {m \in Nat : m <= n /\ (n - m) % 2 = 0 /\ is_odd_prime(m)}
IsLast(n, v) == v \in Stops(n) /\ \A k \in Stops(n) : k <= v

\* The search stops at once, or goes on from n - 2.
LEMMA StopsStep ==
  ASSUME NEW n \in Nat
  PROVE  /\ is_odd_prime(n) => IsLast(n, n)
         /\ ~is_odd_prime(n) => n - 2 \in Nat /\ Stops(n) = Stops(n - 2)
  <1>1. ASSUME is_odd_prime(n) PROVE IsLast(n, n)
    BY <1>1 DEF IsLast, Stops
  <1>2. ASSUME ~is_odd_prime(n) PROVE n - 2 \in Nat /\ Stops(n) = Stops(n - 2)
    <2>1. n - 2 \in Nat
      BY <1>2 DEF is_odd_prime
    <2>2. ASSUME NEW m \in Nat PROVE m \in Stops(n) <=> m \in Stops(n - 2)
      <3>1. m # n => (m <= n /\ (n - m) % 2 = 0 <=> m <= n - 2 /\ ((n - 2) - m) % 2 = 0)
        BY <2>1
      <3>2. m = n => m \notin Stops(n) /\ m \notin Stops(n - 2)
        BY <1>2, <2>1 DEF Stops
      <3> QED BY <3>1, <3>2 DEF Stops
    <2>3. Stops(n) \subseteq Nat /\ Stops(n - 2) \subseteq Nat
      BY DEF Stops
    <2> QED BY <2>1, <2>2, <2>3
  <1> QED BY <1>1, <1>2

\* OddPrimeFrom is what its equation says.
LEMMA OddPrimeUnfold ==
  OddPrimeFrom = [n \in Nat |-> IF is_odd_prime(n) THEN n ELSE OddPrimeFrom[n - 2]]
  <1> DEFINE g == [n \in Nat |-> CHOOSE v : IsLast(n, v)]
             F(h) == [n \in Nat |-> IF is_odd_prime(n) THEN n ELSE h[n - 2]]
  <1>1. ASSUME NEW n \in Nat PROVE g[n] = F(g)[n]
    <2>1. CASE is_odd_prime(n)
      <3>1. IsLast(n, n)
        BY <2>1, StopsStep
      <3>2. ASSUME NEW v, IsLast(n, v) PROVE v = n
        BY <3>1, <3>2 DEF IsLast, Stops
      <3>3. (CHOOSE v : IsLast(n, v)) = n
        BY <3>1, <3>2, Zenon
      <3> QED BY <2>1, <3>3
    <2>2. CASE ~is_odd_prime(n)
      <3>1. n - 2 \in Nat /\ Stops(n) = Stops(n - 2)
        BY <2>2, StopsStep
      <3>2. \A v : IsLast(n, v) <=> IsLast(n - 2, v)
        BY <3>1, Zenon DEF IsLast
      <3>3. (CHOOSE v : IsLast(n, v)) = (CHOOSE v : IsLast(n - 2, v))
        BY <3>2, Zenon
      <3>4. g[n] = (CHOOSE v : IsLast(n, v)) /\ g[n - 2] = (CHOOSE v : IsLast(n - 2, v))
        BY <3>1, Zenon
      <3> QED BY <2>2, <3>3, <3>4
    <2> QED BY <2>1, <2>2
  <1>2. g = F(g)
    <2>1. F(g) = [n \in Nat |-> F(g)[n]] /\ g = [n \in Nat |-> g[n]]
      OBVIOUS
    <2> HIDE DEF g, F
    <2> QED BY <1>1, <2>1
  <1> HIDE DEF g
  <1>3. \E h : h = F(h)
    BY <1>2
  <1> QED BY <1>3, Zenon DEF OddPrimeFrom

\* The search ends at the last number it can stop at.
LEMMA OddPrimeLast == \A n \in Nat : IsLast(n, OddPrimeFrom[n])
  <1> DEFINE Bad == {n \in Nat : ~IsLast(n, OddPrimeFrom[n])}
  <1> SUFFICES ASSUME Bad # {} PROVE FALSE
    OBVIOUS
  <1>1. Bad \in SUBSET Nat
    OBVIOUS
  <1> HIDE DEF Bad
  <1>2. PICK n \in Bad : \A k \in Bad : n <= k
    BY <1>1, LeastNatural
  <1>3. n \in Nat /\ ~IsLast(n, OddPrimeFrom[n])
    BY <1>2 DEF Bad
  <1>4. CASE is_odd_prime(n)
    <2>1. OddPrimeFrom[n] = n
      BY <1>3, <1>4, OddPrimeUnfold
    <2> QED BY <1>3, <1>4, <2>1, StopsStep
  <1>5. CASE ~is_odd_prime(n)
    <2>1. n - 2 \in Nat /\ Stops(n) = Stops(n - 2)
      BY <1>3, <1>5, StopsStep
    <2>2. OddPrimeFrom[n] = OddPrimeFrom[n - 2]
      BY <1>3, <1>5, OddPrimeUnfold
    <2>3. n - 2 \notin Bad
      BY <1>2, <1>3, <2>1
    <2>4. IsLast(n - 2, OddPrimeFrom[n - 2])
      BY <2>1, <2>3 DEF Bad
    <2> QED BY <1>3, <2>1, <2>2, <2>4 DEF IsLast
  <1> QED BY <1>4, <1>5

\* A multiple leaves no remainder.
LEMMA MultipleMod ==
  ASSUME NEW n \in Nat, NEW d \in Nat, NEW q \in Nat, q > 0, n = d * q
  PROVE  n % q = 0
  <1> DEFINE k == n \div q
             r == n % q
  <1>1. k \in Nat /\ r \in Nat /\ r < q /\ n = k * q + r
    OBVIOUS
  <1> HIDE DEF k, r
  <1>2. CASE d + 1 <= k
    <2>1. (d + 1) * q <= k * q /\ (d + 1) * q = d * q + q
      BY <1>1, <1>2
    <2> QED BY <1>1, <2>1
  <1>3. CASE k + 1 <= d
    <2>1. (k + 1) * q <= d * q /\ (k + 1) * q = k * q + q
      BY <1>1, <1>3
    <2> QED BY <1>1, <2>1
  <1>4. CASE d = k
    <2>1. r = 0
      BY <1>1, <1>4
    <2> QED BY <2>1 DEF r
  <1> QED BY <1>1, <1>2, <1>3, <1>4

Prime(k) == k > 1 /\ \A d \in 2..(k - 1) : k % d # 0

\* Trial division by the odd numbers up to the square root is enough for an odd number.
LEMMA OddPrimeIs ==
  ASSUME NEW n \in Nat, n % 2 = 1, n >= 3
  PROVE  is_odd_prime(n) <=> Prime(n)
  <1>1. ASSUME Prime(n) PROVE is_odd_prime(n)
    BY <1>1 DEF Prime, is_odd_prime
  <1>2. ASSUME is_odd_prime(n), NEW d \in 2..(n - 1), n % d = 0 PROVE FALSE
    <2> DEFINE q == n \div d
    <2>1. d \in Nat /\ d >= 2 /\ d < n
      OBVIOUS
    <2>2. q \in Nat /\ n = d * q
      BY <1>2, <2>1
    <2> HIDE DEF q
    <2>3. \A a, b \in Nat : n = a * b => a % 2 = 1
      <3> SUFFICES ASSUME NEW a \in Nat, NEW b \in Nat, n = a * b, (a % 2) # 1 PROVE FALSE
        BY Zenon
      <3>0. a % 2 = 0
        OBVIOUS
      <3>1. PICK e \in Nat : a = 2 * e
        BY <3>0
      <3>2. e * b \in Nat /\ n = 2 * (e * b)
        BY <3>1
      <3> DEFINE p == e * b
      <3>3. p \in Nat /\ n = 2 * p
        BY <3>2
      <3> HIDE DEF p
      <3> QED BY <3>3
    <2>4. n = q * d
      BY <2>1, <2>2
    <2>5. d % 2 = 1 /\ q % 2 = 1
      BY <2>1, <2>2, <2>3, <2>4
    <2>6. q # 1 /\ q # 0
      BY <2>1, <2>2
    <2>7. d >= 3 /\ q >= 3
      BY <2>1, <2>2, <2>5, <2>6
    <2>8. q < n
      <3>1. 2 * q <= d * q
        BY <2>1, <2>2
      <3> QED BY <2>2, <2>7, <3>1
    <2>9. CASE d <= q
      <3>1. d * d <= d * q
        BY <2>1, <2>2, <2>9
      <3>2. d \in 3..(n - 1)
        BY <2>1, <2>7
      <3> QED BY <1>2, <2>2, <2>5, <3>1, <3>2 DEF is_odd_prime
    <2>10. CASE q <= d
      <3>1. q * q <= d * q
        BY <2>1, <2>2, <2>10
      <3>2. q \in 3..(n - 1)
        BY <2>2, <2>7, <2>8
      <3>3. n % q = 0
        <4>1. q > 0
          BY <2>2, <2>7
        <4> QED BY <2>1, <2>2, <4>1, MultipleMod, Zenon
      <3> QED BY <1>2, <2>2, <2>5, <3>1, <3>2, <3>3 DEF is_odd_prime
    <2> QED BY <2>1, <2>2, <2>9, <2>10
  <1>3. is_odd_prime(n) => \A d \in 2..(n - 1) : n % d # 0
    BY <1>2, Zenon
  <1>4. n > 1
    OBVIOUS
  <1> QED BY <1>1, <1>3, <1>4, Zenon DEF Prime

\* find_largest_prime returns the largest prime that is not above its bound, for every bound from
\* 2 on: the search over the odd numbers with trial division up to the square root misses none.
THEOREM LargestPrimeFound ==
  ASSUME NEW u \in Nat, u >= 2
  PROVE  LargestPrime(find_largest_prime(u), u)
  <1> DEFINE v == find_largest_prime(u)
  <1> SUFFICES Prime(v) /\ v <= u /\ \A k \in (v + 1)..u : ~Prime(k)
    BY DEF LargestPrime, Prime
  <1>1. CASE u = 2
    <2>1. v = 2
      BY <1>1 DEF find_largest_prime
    <2> HIDE DEF v
    <2> QED BY <1>1, <2>1 DEF Prime
  <1>2. CASE u >= 3
    <2> DEFINE m == IF u % 2 = 0 THEN u - 1 ELSE u
    <2>1. m \in Nat /\ m >= 3 /\ m % 2 = 1 /\ m <= u /\ (u = m \/ u = m + 1)
      BY <1>2
    <2>2. v = OddPrimeFrom[m]
      BY <1>2 DEF find_largest_prime
    <2> HIDE DEF m, v
    <2>3. IsLast(m, v)
      BY <2>1, <2>2, OddPrimeLast
    <2>4. v \in Nat /\ v <= m /\ (m - v) % 2 = 0 /\ is_odd_prime(v)
      BY <2>3 DEF IsLast, Stops
    <2>5. 3 \in Stops(m)
      BY <2>1 DEF Stops, is_odd_prime
    <2>6. v >= 3 /\ v % 2 = 1
      BY <2>1, <2>3, <2>4, <2>5 DEF IsLast
    <2>7. Prime(v)
      BY <2>4, <2>6, OddPrimeIs
    <2>8. ASSUME NEW k \in (v + 1)..u, Prime(k) PROVE FALSE
      <3>1. k \in Nat /\ k > 3 /\ k > v /\ k <= u
        BY <2>4, <2>6
      <3>2. CASE k % 2 = 0
        <4>1. 2 \in 2..(k - 1)
          BY <3>1
        <4> QED BY <2>8, <3>2, <4>1 DEF Prime
      <3>3. CASE k % 2 = 1
        <4>1. is_odd_prime(k)
          BY <2>8, <3>1, <3>3, OddPrimeIs
        <4>2. k <= m /\ (m - k) % 2 = 0
          BY <2>1, <3>1, <3>3
        <4>3. k \in Stops(m)
          BY <3>1, <4>1, <4>2 DEF Stops
        <4> QED BY <2>3, <2>4, <3>1, <4>3 DEF IsLast
      <3> QED BY <3>1, <3>2, <3>3
    <2> QED BY <2>1, <2>4, <2>7, <2>8
  <1> QED BY <1>1, <1>2

-----------------------------------------------------------------------------
(* The sizes of a context *)

\* A context has the sizes of its epoch.
SizesOK(c) ==
  /\ c.light = calculate_light_cache_num_items(epoch_ecip1099(c.epoch))
  /\ c.dag = calculate_full_dataset_num_items(epoch_ecip1099(c.epoch))
SizeInv == (shared = Null \/ SizesOK(shared)) /\ \A t \in Threads : local[t] = Null \/ SizesOK(local[t])

\* There are no contexts at the start.
LEMMA InitSizes == Init => SizeInv
  BY DEF Init, SizeInv

\* Every step leaves only contexts with the sizes of their epochs.
LEMMA StepSizes == ShapeInv /\ SizeInv /\ [Next]_vars => SizeInv'
  <1> SUFFICES ASSUME ShapeInv, SizeInv, [Next]_vars PROVE SizeInv'
    OBVIOUS
  <1> USE DEF SizeInv
  <1>1. CASE UNCHANGED <<shared, local>>
    BY <1>1, Zenon DEF SizesOK
  <1>2. ASSUME NEW t \in Threads, get_global_epoch_context(t) PROVE SizeInv'
    <2>1. shared' = shared /\ \A u \in Threads : local'[u] = local[u] \/ local'[u] = Null
      BY <1>2 DEF get_global_epoch_context, ShapeInv, IsFcn
    <2> QED BY <2>1, Zenon DEF SizesOK
  <1>3. ASSUME NEW t \in Threads, Locks(t) PROVE SizeInv'
    <2>1. local' = local /\ (shared' = shared \/ shared' = Null)
      BY <1>3 DEF Locks
    <2> QED BY <2>1, Zenon DEF SizesOK
  <1>4. ASSUME NEW t \in Threads, Builds(t) PROVE SizeInv'
    <2>1. local' = local /\ (shared' = shared \/ shared' = create_epoch_context(want[t], created))
      BY <1>4, Zenon DEF Builds
    <2>2. ASSUME shared' = create_epoch_context(want[t], created) PROVE SizesOK(shared)'
      BY <2>2 DEF create_epoch_context, SizesOK, calculate_light_cache_num_items,
                  calculate_full_dataset_num_items, epoch_ecip1099
    <2>3. ASSUME shared' = shared PROVE (shared = Null \/ SizesOK(shared))'
      BY <2>3, Zenon DEF SizesOK
    <2>4. \A u \in Threads : (local[u] = Null \/ SizesOK(local[u]))'
      BY <2>1, Zenon DEF SizesOK
    <2> QED BY <2>1, <2>2, <2>3, <2>4, Zenon
  <1>5. ASSUME NEW t \in Threads, Assigns(t) PROVE SizeInv'
    <2>1. shared' = shared /\ \A u \in Threads : local'[u] = local[u] \/ local'[u] = shared
      BY <1>5 DEF Assigns, ShapeInv, IsFcn
    <2> QED BY <2>1, Zenon DEF SizesOK
  <1>6. \/ UNCHANGED <<shared, local>>
        \/ \E t \in Threads : get_global_epoch_context(t) \/ Locks(t) \/ Builds(t) \/ Assigns(t)
    BY DEF Next, vars, Work, MinerAsks, Solution, Asks, Used
  <1> QED BY <1>1, <1>2, <1>3, <1>4, <1>5, <1>6

\* The epoch of a job that says its block has the sizes of the epoch of the block's DAG: the seeds
\* tell the epochs apart.
LEMMA EpochOfBlock ==
  ASSUME JobInv, job.block >= 0, job.epoch # -1
  PROVE  /\ epoch_ecip1099(job.epoch) = get_epoch_number(job.block)
         /\ get_epoch_number(job.block) \in Nat
  <1>1. PICK e \in 0..Horizon : Seeds[e] = job.seed /\ epoch_ecip1099(e) = epoch_ecip1099(job.epoch)
    BY DEF JobInv
  <1>2. job.block \in Blocks /\ job.block \in Nat /\ job.seed = Seeds[SeedEpoch(job.block)]
    BY EthashAssumption DEF JobInv, PoolSeed
  <1>3. SeedEpoch(job.block) \in Nat /\ SeedEpoch(job.block) <= Horizon
    BY <1>2, SeedEpochIs, SeedsAssumption DEF Horizon
  <1>4. SeedEpoch(job.block) \in 0..Horizon
    BY <1>3, EthashAssumption DEF Horizon
  <1>5. e = SeedEpoch(job.block)
    BY <1>1, <1>2, <1>4, SeedsAssumption, Zenon DEF Horizon
  <1>6. get_epoch_number(job.block) \in Nat
    BY <1>2, EthashAssumption, HalvedQuotient DEF get_epoch_number
  <1> QED BY <1>1, <1>2, <1>5, <1>6, SeedEpochIs

\* The size of the DAG and of the light cache of an epoch are the largest primes there are.
LEMMA SizesArePrimes ==
  ASSUME NEW e \in Nat
  PROVE  /\ LargestPrime(calculate_full_dataset_num_items(e), DagInit + e * DagGrowth)
         /\ LargestPrime(calculate_light_cache_num_items(e), LightInit + e * LightGrowth)
  <1> DEFINE d == DagInit + e * DagGrowth
             l == LightInit + e * LightGrowth
  <1>1. e * DagGrowth \in Nat /\ e * LightGrowth \in Nat
    BY EthashAssumption
  <1>2. d \in Nat /\ d >= 2 /\ l \in Nat /\ l >= 2
    BY <1>1, EthashAssumption
  <1> HIDE DEF d, l
  <1>3. LargestPrime(find_largest_prime(d), d) /\ LargestPrime(find_largest_prime(l), l)
    BY <1>2, LargestPrimeFound
  <1> QED BY <1>3, Zenon DEF d, l, calculate_full_dataset_num_items, calculate_light_cache_num_items

\* What a thread uses for the job in hand has the sizes of the DAG of the job's block.
LEMMA Sizes == IInv /\ JobInv /\ SizeInv => SizesOfBlock
  <1> SUFFICES ASSUME IInv, JobInv, SizeInv, NEW t \in Threads, OfJob(t)
               PROVE  /\ LargestPrime(got[t].dag, DagInit + get_epoch_number(job.block) * DagGrowth)
                      /\ LargestPrime(got[t].light, LightInit + get_epoch_number(job.block) * LightGrowth)
    BY Zenon DEF SizesOfBlock
  <1>1. got[t] = local[t] /\ local[t] # Null /\ got[t].epoch = job.epoch
    BY DEF IInv, UseInv, OfJob
  <1>2. SizesOK(got[t])
    BY <1>1, Zenon DEF SizeInv
  <1>3. job.block >= 0 /\ job.epoch # -1
    BY DEF OfJob, JobInv
  <1>4. epoch_ecip1099(job.epoch) = get_epoch_number(job.block) /\ get_epoch_number(job.block) \in Nat
    BY <1>3, EpochOfBlock
  <1>5. /\ got[t].dag = calculate_full_dataset_num_items(get_epoch_number(job.block))
        /\ got[t].light = calculate_light_cache_num_items(get_epoch_number(job.block))
    BY <1>1, <1>2, <1>4, Zenon DEF SizesOK
  <1> QED BY <1>4, <1>5, SizesArePrimes

\* The sizes for a job that says its block are those of the DAG of its block (onWorkReceived,
\* create_epoch_context, get_global_epoch_context), for any length of an epoch, any even epoch of
\* the activation and any sizes of the first epoch that are above 1.
THEOREM SizesAreOfBlock == Spec => []SizesOfBlock
  <1>1. Spec => [](IInv /\ SizeInv)
    <2>1. Init => IInv /\ SizeInv
      BY InitInv, InitSizes
    <2>2. (IInv /\ SizeInv) /\ [Next]_vars => (IInv /\ SizeInv)'
      BY StepInv, StepSizes DEF IInv
    <2> QED BY <2>1, <2>2, PTL DEF Spec
  <1> QED BY <1>1, JobInductive, Sizes, PTL

=============================================================================
