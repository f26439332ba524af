------------------------- MODULE PoolManagerProofs -------------------------
(***************************************************************************)
(* Proofs of the safety invariants of PoolManager, for every list of pools *)
(* and every limit of retries.  None of them is inductive alone: they rest *)
(* on which phases of the client exclude a queued rotation, on when the    *)
(* failover timer can be live, and on where in the list the pool that was  *)
(* tried last can be.                                                      *)
(***************************************************************************)
EXTENDS PoolManager, SequenceTheorems, TLAPS

-----------------------------------------------------------------------------
(* The inductive invariant, in layers: each is inductive relative to those   *)
(* before it.                                                                *)

\* The index is 0 once the list is empty.
EmptyInv == connections = <<>> => active = 0

ListInv ==
    /\ TypeOK
    /\ ActiveInBounds /\ EmptyInv
    /\ IsInjection(connections)

\* The main thread has set m_stopping once it has left its wait to stop the PoolManager.
MainInv ==
    /\ main \in {"stopping", "disconnects", "spins"} => stopping
    /\ main = "waits" => ~stopping

\* A client that has a connection excludes a queued rotation, and a queued rotation comes
\* with m_async_pending.
RotationInv ==
    /\ client.phase \in {"linked", "unlinking", "up", "closing"} => rotations = 0
    /\ rotations > 0 /\ ~stopping => pending
    /\ ~pending /\ ~stopping => client.phase \in {"up", "closing"}

\* The failover timer is live during a session, its handler until the next rotation; at
\* both times no attempt has failed since the last login.
FailoverInv ==
    /\ failover = "armed" /\ main # "done" => client.phase \in {"up", "closing"}
    /\ failover = "queued" => client.phase \in {"up", "closing", "down", "none"}
    /\ failover # "off" => streak.n = 0
    /\ client.phase \in {"up", "closing"} => streak.n = 0

ControlInv == MainInv /\ RotationInv /\ FailoverInv

\* A client that is on its way to a session is for the active pool.
TowardsActive ==
    running /\ client.phase \in {"idle", "trying", "linked", "unlinking"} =>
        connections # <<>> /\ client.uri = connections[active + 1]

ActiveInv == TowardsActive /\ ConnectedToActive

FarmInv == (farm.minersPaused => farm.paused) /\ MinersRunWhenConnected

\* No client is made for an exit pool, so none becomes unrecoverable.
ExitInv ==
    /\ client.phase # "none" => client.uri \notin ExitPools
    /\ unrecoverable \cap ExitPools = {}

\* Where the pool that was tried last is, if it is still in the list: it is the active one
\* and its attempts are counted, or an exit pool was hit.
StreakInv ==
    streak.n > 0 /\ (\E i \in 1..Len(connections) : connections[i] = streak.uri) =>
        \/ connections[active + 1] = streak.uri /\ streak.n <= attempt
        \/ connections[active + 1] \in ExitPools /\ attempt = 0

RetryInv == ExitInv /\ StreakInv /\ RetryBound

EpochInv ==
    /\ wp.epoch = job
    /\ wp.seed = NoSeed \/ wp.seed = wp.epoch

-----------------------------------------------------------------------------
(* Lists of pools *)

\* What push_back does to a list (addConnection).
LEMMA AppendedPool ==
    ASSUME NEW S, NEW s \in Seq(S), NEW p \in S
    PROVE  /\ Append(s, p) # <<>>
           /\ Len(Append(s, p)) = Len(s) + 1
           /\ \A j \in 1..Len(s) : Append(s, p)[j] = s[j]
           /\ Append(s, p)[Len(s) + 1] = p
  BY AppendProperties

\* What Erase (vector::erase) leaves of a list.
LEMMA EraseProperties ==
    ASSUME NEW S, NEW s \in Seq(S), NEW i \in 1..Len(s)
    PROVE  /\ Erase(s, i) \in Seq(S)
           /\ Len(Erase(s, i)) = Len(s) - 1
           /\ \A j \in 1..(Len(s) - 1) :
                /\ j < i => Erase(s, i)[j] = s[j]
                /\ j >= i => Erase(s, i)[j] = s[j + 1]
<1> DEFINE a == SubSeq(s, 1, i - 1)
           b == SubSeq(s, i + 1, Len(s))
<1>1. Len(s) \in Nat /\ s \in [1..Len(s) -> S]
  BY LenProperties
<1>2. /\ a \in Seq(S) /\ Len(a) = i - 1
      /\ \A j \in 1..(i - 1) : a[j] = s[j]
  <2>1. CASE i = 1
    BY <1>1, <2>1, SubSeqEmpty
  <2>2. CASE i > 1
    BY <1>1, <2>2, SubSeqProperties
  <2>3. QED BY <1>1, <2>1, <2>2
<1>3. /\ b \in Seq(S) /\ Len(b) = Len(s) - i
      /\ \A j \in 1..(Len(s) - i) : b[j] = s[i + j]
  <2>1. \A j \in (i + 1)..Len(s) : s[j] \in S
    BY <1>1
  <2>2. /\ b \in Seq(S)
        /\ Len(b) = IF i + 1 <= Len(s) THEN Len(s) - (i + 1) + 1 ELSE 0
        /\ \A j \in 1..(Len(s) - (i + 1) + 1) : b[j] = s[(i + 1) + j - 1]
    BY <1>1, <2>1, SubSeqProperties
  <2> HIDE DEF b
  <2>3. Len(b) = Len(s) - i
    <3>1. /\ i + 1 <= Len(s) => Len(s) - (i + 1) + 1 = Len(s) - i
          /\ ~(i + 1 <= Len(s)) => Len(s) - i = 0
      <4>1. \A n \in Nat : \A k \in 1..n :
              /\ k + 1 <= n => n - (k + 1) + 1 = n - k
              /\ ~(k + 1 <= n) => n - k = 0
        OBVIOUS
      <4>2. QED BY <1>1, <4>1, Zenon
    <3>2. CASE i + 1 <= Len(s)
      <4>1. Len(b) = Len(s) - (i + 1) + 1
        BY <2>2, <3>2, Zenon
      <4>2. QED BY <3>1, <3>2, <4>1, Zenon
    <3>3. CASE ~(i + 1 <= Len(s))
      <4>1. Len(b) = 0
        BY <2>2, <3>3, Zenon
      <4>2. QED BY <3>1, <3>3, <4>1, Zenon
    <3>4. QED BY <3>2, <3>3, Zenon
  <2>4. ASSUME NEW j \in 1..(Len(s) - i) PROVE b[j] = s[i + j]
    <3>1. j \in 1..(Len(s) - (i + 1) + 1) /\ (i + 1) + j - 1 = i + j
      BY <1>1
    <3>2. QED BY <2>2, <3>1
  <2>5. QED BY <2>2, <2>3, <2>4
<1>4. /\ a \o b \in Seq(S) /\ Len(a \o b) = Len(a) + Len(b)
      /\ \A j \in 1..(Len(a) + Len(b)) : (a \o b)[j] = IF j <= Len(a) THEN a[j] ELSE b[j - Len(a)]
  BY <1>2, <1>3, ConcatProperties, ZenonT(40)
<1>5. Erase(s, i) = a \o b
  BY DEF Erase
<1> HIDE DEF a, b
<1>6. ASSUME NEW j \in 1..(Len(s) - 1), j < i
      PROVE  (a \o b)[j] = s[j]
  BY <1>1, <1>2, <1>3, <1>4, <1>6
<1>7. ASSUME NEW j \in 1..(Len(s) - 1), j >= i
      PROVE  (a \o b)[j] = s[j + 1]
  <2>1. (a \o b)[j] = b[j - (i - 1)]
    BY <1>1, <1>2, <1>3, <1>4, <1>7
  <2>2. j - (i - 1) \in 1..(Len(s) - i) /\ i + (j - (i - 1)) = j + 1
    BY <1>1, <1>7
  <2>3. b[j - (i - 1)] = s[i + (j - (i - 1))]
    BY <1>3, <2>2
  <2>4. QED BY <2>1, <2>2, <2>3
<1>8. Len(a) + Len(b) = Len(s) - 1
  BY <1>1, <1>2, <1>3
<1>9. QED BY <1>4, <1>5, <1>6, <1>7, <1>8

\* A list without repetitions keeps none when an element is erased, and loses that element.
LEMMA EraseInjection ==
    ASSUME NEW S, NEW s \in Seq(S), NEW i \in 1..Len(s), IsInjection(s)
    PROVE  /\ IsInjection(Erase(s, i))
           /\ \A j \in 1..Len(Erase(s, i)) : Erase(s, i)[j] # s[i]
           /\ \A j \in 1..Len(Erase(s, i)) :
                \E k \in 1..Len(s) : k # i /\ Erase(s, i)[j] = s[k]
<1> DEFINE r == Erase(s, i)
<1>1. /\ Len(s) \in Nat /\ Len(r) = Len(s) - 1
      /\ \A j \in 1..(Len(s) - 1) :
            (j < i => r[j] = s[j]) /\ (j >= i => r[j] = s[j + 1])
  BY EraseProperties, LenProperties
<1> HIDE DEF r
<1>2. IsInjection(r)
  <2> SUFFICES ASSUME NEW j \in 1..Len(r), NEW k \in 1..Len(r), r[j] = r[k] PROVE j = k
    BY DEF IsInjection
  <2>1. CASE j < i /\ k < i
    BY <1>1, <2>1 DEF IsInjection
  <2>2. CASE j < i /\ k >= i
    BY <1>1, <2>2 DEF IsInjection
  <2>3. CASE j >= i /\ k < i
    BY <1>1, <2>3 DEF IsInjection
  <2>4. CASE j >= i /\ k >= i
    BY <1>1, <2>4, SMTT(30) DEF IsInjection
  <2>5. QED BY <1>1, <2>1, <2>2, <2>3, <2>4
<1>3. ASSUME NEW j \in 1..Len(r)
      PROVE  \E k \in 1..Len(s) : k # i /\ r[j] = s[k]
  <2>1. CASE j < i
    BY <1>1, <2>1
  <2>2. CASE j >= i
    <3>1. j + 1 \in 1..Len(s) /\ j + 1 # i /\ r[j] = s[j + 1]
      BY <1>1, <2>2
    <3>2. QED BY <3>1
  <2>3. QED BY <1>1, <2>1, <2>2
<1>4. ASSUME NEW j \in 1..Len(r) PROVE r[j] # s[i]
  BY <1>3, <1>4 DEF IsInjection
<1>5. QED BY <1>2, <1>3, <1>4 DEF r

-----------------------------------------------------------------------------
(* rotateConnect's selection *)

\* The active pool is kept, or erased, or left for the next one of a longer list.
LEMMA SelectionCases ==
    ASSUME ListInv, connections # <<>>
    PROVE  \/ /\ Selection = [list |-> connections, index |-> active, attempt |-> attempt]
              /\ ~Tired
              /\ connections[active + 1] \notin unrecoverable
           \/ /\ Selection.list = Erase(connections, active + 1)
              /\ Selection.index = Wrapped(active, Erase(connections, active + 1))
              /\ Selection.attempt \in {0, attempt}
              /\ Selection.attempt = 0 \/ Selection.list = <<>>
              /\ connections[active + 1] \in unrecoverable \/ Tired
           \/ /\ Selection = [list |-> connections, index |-> Rotated(active, connections),
                              attempt |-> 0]
              /\ Tired
              /\ Len(connections) > 1
              /\ connections[active + 1] \notin unrecoverable
<1> DEFINE dead == connections[active + 1] \in unrecoverable
           less == Erase(connections, active + 1)
<1>1. /\ connections \in Seq(Pools) /\ Len(connections) \in Nat /\ active \in Nat
      /\ active < Len(connections) /\ attempt \in Nat
  BY LenProperties DEF ListInv, TypeOK, ActiveInBounds
<1>2. Wrapped(active, connections) = active
  BY <1>1 DEF Wrapped
<1>3. active + 1 \in 1..Len(connections)
  BY <1>1
<1>4. less \in Seq(Pools) /\ Len(less) = Len(connections) - 1
  BY <1>1, <1>3, EraseProperties
<1>5. CASE dead
  BY <1>2, <1>5, Zenon DEF Selection
<1>6. CASE ~dead /\ ~Tired
  BY <1>2, <1>6, Zenon DEF Selection
<1>7. CASE ~dead /\ Tired /\ Len(connections) = 1
  <2>1. active = 0 /\ Len(less) = 0
    BY <1>1, <1>4, <1>7
  <2>2. less = <<>>
    BY <1>4, <2>1, EmptySeq
  <2>3. Wrapped(active, less) = active
    BY <2>1 DEF Wrapped
  <2>4. QED BY <1>2, <1>7, <2>2, <2>3, Zenon DEF Selection
<1>8. CASE ~dead /\ Tired /\ Len(connections) # 1
  <2>1. Len(connections) > 1
    <3>1. \A n, k \in Nat : k < n /\ n # 1 => n > 1
      OBVIOUS
    <3>2. QED BY <1>1, <1>8, <3>1, Zenon
  <2>2. QED BY <1>2, <1>8, <2>1, Zenon DEF Selection
<1>9. QED BY <1>5, <1>6, <1>7, <1>8

\* The list that is left has no repetition, and the index selects one of its pools.
LEMMA SelectionProperties ==
    ASSUME ListInv, connections # <<>>
    PROVE  /\ Selection.list \in Seq(Pools)
           /\ IsInjection(Selection.list)
           /\ Selection.index \in Nat
           /\ Selection.list # <<>> => Selection.index < Len(Selection.list)
           /\ Selection.list = <<>> => Selection.index = 0
           /\ Selection.attempt \in Nat
<1>1. /\ connections \in Seq(Pools) /\ Len(connections) \in Nat /\ active \in Nat
      /\ active < Len(connections) /\ attempt \in Nat /\ IsInjection(connections)
  BY LenProperties DEF ListInv, TypeOK, ActiveInBounds
<1>2. active + 1 \in 1..Len(connections)
  BY <1>1
<1> DEFINE less == Erase(connections, active + 1)
<1>3. /\ less \in Seq(Pools) /\ Len(less) \in Nat /\ IsInjection(less)
      /\ (less # <<>> => Len(less) > 0) /\ (less = <<>> => Len(less) = 0)
  <2>1. less \in Seq(Pools) /\ Len(less) \in Nat
    BY <1>1, <1>2, EraseProperties, LenProperties
  <2>2. IsInjection(less)
    BY <1>1, <1>2, EraseInjection
  <2> HIDE DEF less
  <2>3. (less # <<>> => Len(less) > 0) /\ (less = <<>> => Len(less) = 0)
    BY <2>1, EmptySeq
  <2>4. QED BY <2>1, <2>2, <2>3
<1> HIDE DEF less
<1>4. /\ Wrapped(active, less) \in Nat
      /\ less # <<>> => Wrapped(active, less) < Len(less)
      /\ less = <<>> => Wrapped(active, less) = 0
  BY <1>1, <1>3 DEF Wrapped
<1>5. Rotated(active, connections) \in Nat /\ Rotated(active, connections) < Len(connections)
  BY <1>1 DEF Rotated, Wrapped
<1>6. CASE Selection = [list |-> connections, index |-> active, attempt |-> attempt]
  BY <1>1, <1>6
<1>7. CASE /\ Selection.list = less
           /\ Selection.index = Wrapped(active, less)
           /\ Selection.attempt \in {0, attempt}
  BY <1>1, <1>3, <1>4, <1>7
<1>8. CASE Selection = [list |-> connections, index |-> Rotated(active, connections),
                        attempt |-> 0]
  BY <1>1, <1>5, <1>8
<1>9. QED BY <1>6, <1>7, <1>8, SelectionCases DEF less

-----------------------------------------------------------------------------
(* The first layer: types, bounds and the absence of repetitions *)

\* The configured list has no repetition and the first pool is active.
LEMMA ListInit == Init => ListInv
<1> SUFFICES ASSUME Init PROVE ListInv
  OBVIOUS
<1> USE ConstantsAssumption
<1>1. Configured \in Seq(Pools) /\ Len(Configured) \in Nat /\ Len(Configured) > 0
  BY LenProperties, EmptySeq
<1>2. Configured[1] \in Pools
  BY <1>1, ElementOfSeq
<1>3. TypeOK
  BY <1>1, <1>2, Zenon DEF Init, TypeOK, Phases, TimerStates, NoEpoch, NoSeed
<1>4. ActiveInBounds /\ EmptyInv
  BY <1>1 DEF Init, ActiveInBounds, EmptyInv
<1>5. QED BY <1>3, <1>4 DEF ListInv, Init

\* A client of the right type keeps it when its phase changes.
LEMMA EnterType ==
    ASSUME TypeOK, NEW p \in Phases, Enter(p)
    PROVE  client' \in [uri : Pools, phase : Phases] /\ client'.phase = p /\ client'.uri = client.uri
BY DEF TypeOK, Enter

\* The types of the four states the farm is put in.
LEMMA FarmType ==
    ASSUME TypeOK
    PROVE  /\ FarmStarted \in [mining : BOOLEAN, paused : BOOLEAN, minersPaused : BOOLEAN]
           /\ FarmStopped \in [mining : BOOLEAN, paused : BOOLEAN, minersPaused : BOOLEAN]
           /\ FarmPaused \in [mining : BOOLEAN, paused : BOOLEAN, minersPaused : BOOLEAN]
           /\ FarmResumed \in [mining : BOOLEAN, paused : BOOLEAN, minersPaused : BOOLEAN]
BY Zenon DEF TypeOK, FarmStarted, FarmStopped, FarmPaused, FarmResumed

\* The variables that onDisconnected and disconnect() write.
Written ==
    /\ running \in BOOLEAN /\ stopping \in BOOLEAN /\ pending \in BOOLEAN
    /\ client \in [uri : Pools, phase : Phases]
    /\ rotations \in Nat
    /\ failover \in TimerStates
    /\ farm \in [mining : BOOLEAN, paused : BOOLEAN, minersPaused : BOOLEAN]
    /\ fault \in BOOLEAN

\* onDisconnected keeps the types of what it writes.
LEMMA DisconnectedType ==
    ASSUME TypeOK, NEW t \in TimerStates, NEW o \in BOOLEAN, onDisconnected(t, o)
    PROVE  Written'
<1>1. client' \in [uri : Pools, phase : Phases]
  BY EnterType DEF onDisconnected, Phases
<1>2. failover' \in TimerStates
  BY DEF onDisconnected, Cancelled, TimerStates
<1>3. /\ running' \in BOOLEAN /\ stopping' \in BOOLEAN /\ pending' \in BOOLEAN
      /\ rotations' \in Nat /\ fault' \in BOOLEAN
  <2>1. stopping' \in BOOLEAN /\ fault' \in BOOLEAN
    BY Zenon DEF TypeOK, onDisconnected
  <2>2. running' \in BOOLEAN /\ pending' \in BOOLEAN
    BY Zenon DEF TypeOK, onDisconnected, Shutdown, Suspend
  <2>3. rotations' \in Nat
    BY DEF TypeOK, onDisconnected, Shutdown, Suspend
  <2>4. QED BY <2>1, <2>2, <2>3
<1>4. farm' \in [mining : BOOLEAN, paused : BOOLEAN, minersPaused : BOOLEAN]
  BY FarmType DEF onDisconnected, Shutdown, Suspend
<1>5. QED BY <1>1, <1>2, <1>3, <1>4 DEF Written

\* disconnect() keeps the types of what it writes.
LEMMA DisconnectType ==
    ASSUME TypeOK, NEW t \in TimerStates, NEW o \in BOOLEAN, disconnect(t, o)
    PROVE  Written'
<1>1. CASE onDisconnected(t, o)
  BY <1>1, DisconnectedType
<1>2. CASE /\ \/ UNCHANGED client \/ Enter("unlinking") \/ Enter("closing")
              \/ Enter("trying")
           /\ failover' = t /\ pending' = o
           /\ UNCHANGED <<running, stopping, rotations, farm, fault>>
  <2>1. client' \in [uri : Pools, phase : Phases]
    BY <1>2, EnterType DEF Phases, TypeOK
  <2>2. QED BY <1>2, <2>1 DEF TypeOK, Written
<1>3. CASE /\ fault' = TRUE /\ failover' = t /\ pending' = o
           /\ UNCHANGED <<running, stopping, client, rotations, farm>>
  BY <1>3 DEF TypeOK, Written
<1>4. QED BY <1>1, <1>2, <1>3, Zenon DEF disconnect

\* The list of pools is only changed by rotateConnect and through the API; the other steps
\* keep its layer of the invariant if they keep the types and the index.
LEMMA ListKept ==
    ASSUME ListInv, TypeOK', connections' = connections, active' \in {active, 0}
    PROVE  ListInv'
<1>1. Len(connections) \in Nat /\ (connections # <<>> => Len(connections) > 0)
  BY LenProperties, EmptySeq DEF ListInv, TypeOK
<1>2. ActiveInBounds' /\ EmptyInv'
  BY <1>1 DEF ListInv, ActiveInBounds, EmptyInv
<1>3. QED BY <1>2 DEF ListInv

\* Every step keeps the types, the index of the active pool in bounds, and the list free of
\* repetitions.
LEMMA ListStep == ListInv /\ [Next]_vars => ListInv'
<1> SUFFICES ASSUME ListInv, [Next]_vars PROVE ListInv'
  OBVIOUS
<1>0. TypeOK
  BY DEF ListInv
<1> USE ConstantsAssumption
<1>1. CASE rotateConnect
  <2>1. CASE connections = <<>>
    <3>1. TypeOK'
      <4>1. rotations' \in Nat
        BY <1>0, <1>1 DEF rotateConnect, TypeOK
      <4>2. QED BY <1>0, <1>1, <2>1, <4>1, ZenonT(40) DEF rotateConnect, TypeOK, selection
    <3>2. QED BY <1>1, <2>1, <3>1, ListKept DEF rotateConnect, selection
  <2>2. CASE connections # <<>>
    <3>1. /\ connections' = Selection.list /\ active' = Selection.index
          /\ rotations' \in Nat /\ fault' \in BOOLEAN
          /\ UNCHANGED <<unrecoverable, stopping, pending, failover, wp, main, job>>
      <4>1. rotations' \in Nat
        BY <1>0, <1>1 DEF rotateConnect, TypeOK
      <4>2. fault' \in BOOLEAN
        BY <1>1, <2>2, Zenon DEF rotateConnect
      <4>3. QED BY <1>1, <2>2, <4>1, <4>2, Zenon DEF rotateConnect
    <3>2. /\ attempt' \in Nat /\ running' \in BOOLEAN /\ reconnect' \in TimerStates
          /\ client' \in [uri : Pools, phase : Phases]
          /\ farm' \in [mining : BOOLEAN, paused : BOOLEAN, minersPaused : BOOLEAN]
          /\ streak' \in [uri : Pools, n : Nat]
      <4>1. CASE \E u \in Selected : TRUE
        <5>1. PICK u \in Selected :
                LET n == Selection.attempt + 1
                    waits == n > 1 /\ RetryDelay
                IN  /\ attempt' = n
                    /\ client' = [uri |-> u, phase |-> IF waits THEN "idle" ELSE "trying"]
                    /\ reconnect' = IF waits THEN "armed" ELSE reconnect
                    /\ streak' = [uri |-> u, n |-> IF streak.uri = u THEN Counted(streak.n) ELSE 1]
                    /\ UNCHANGED <<running, farm>>
          BY <1>1, <2>2, <4>1, Zenon DEF rotateConnect
        <5>2. u \in Pools
          <6>1. Selection.list # <<>> /\ u = Selection.list[Selection.index + 1]
            BY Zenon DEF Selected
          <6>2. /\ Selection.list \in Seq(Pools) /\ Selection.index \in Nat
                /\ Selection.index < Len(Selection.list) /\ Len(Selection.list) \in Nat
            BY <2>2, <6>1, SelectionProperties, LenProperties
          <6>3. Selection.index + 1 \in 1..Len(Selection.list)
            BY <6>2
          <6>4. QED BY <6>1, <6>2, <6>3, ElementOfSeq
        <5>3. Selection.attempt \in Nat /\ streak \in [uri : Pools, n : Nat]
          BY <1>0, <2>2, SelectionProperties DEF TypeOK
        <5>4. attempt' \in Nat /\ streak' \in [uri : Pools, n : Nat]
          BY <5>1, <5>2, <5>3 DEF Counted
        <5>5. client' \in [uri : Pools, phase : Phases] /\ reconnect' \in TimerStates
          BY <1>0, <5>1, <5>2 DEF Phases, TimerStates, TypeOK
        <5>6. QED BY <1>0, <5>1, <5>4, <5>5 DEF TypeOK
      <4>2. CASE Selected = {}
        <5>1. /\ attempt' = Selection.attempt /\ farm' = FarmStopped /\ running' = FALSE
              /\ UNCHANGED <<client, reconnect, streak>>
          BY <1>1, <2>2, <4>2, Zenon DEF rotateConnect
        <5>2. QED BY <1>0, <2>2, <5>1, SelectionProperties, FarmType, Zenon DEF TypeOK
      <4>3. QED BY <4>1, <4>2
    <3>3. TypeOK'
      BY <1>0, <2>2, <3>1, <3>2, SelectionProperties DEF TypeOK
    <3>4. ActiveInBounds' /\ EmptyInv' /\ IsInjection(connections')
      BY <2>2, <3>1, SelectionProperties DEF ActiveInBounds, EmptyInv
    <3>5. QED BY <3>3, <3>4 DEF ListInv
  <2>3. QED BY <2>1, <2>2
<1>2. CASE Client
  <2>1. ASSUME NEW from, NEW to \in Phases, ClientMoves(from, to)
        PROVE  ListInv'
    <3>1. client' \in [uri : Pools, phase : Phases]
      BY <1>0, <2>1, EnterType DEF ClientMoves
    <3>2. TypeOK'
      BY <1>0, <2>1, <3>1 DEF ClientMoves, TypeOK, selection, flags, timers
    <3>3. QED BY <2>1, <3>2, ListKept DEF ClientMoves, selection
  <2>2. CASE clientLogsIn
    <3>1. client' \in [uri : Pools, phase : Phases]
      BY <1>0, <2>2, EnterType DEF clientLogsIn, onConnected, Phases
    <3>2. failover' \in TimerStates /\ streak' \in [uri : Pools, n : Nat]
      BY <1>0, <2>2, SMTT(30)
         DEF clientLogsIn, onConnected, FailoverArmed, Cancelled, TimerStates, TypeOK
    <3>3. farm' \in [mining : BOOLEAN, paused : BOOLEAN, minersPaused : BOOLEAN]
      BY <1>0, <2>2, FarmType DEF clientLogsIn, onConnected, FarmConnected, TypeOK
    <3>4. TypeOK'
      BY <1>0, <2>2, <3>1, <3>2, <3>3, ZenonT(40) DEF clientLogsIn, onConnected, TypeOK
    <3>5. QED BY <2>2, <3>4, ListKept DEF clientLogsIn
  <2>3. CASE clientRefused
    <3>1. TypeOK'
      BY <1>0, <2>3 DEF clientRefused, TypeOK, selection, flags, timers
    <3>2. QED BY <2>3, <3>1, ListKept DEF clientRefused, selection
  <2>4. CASE clientGetsWork
    <3>1. PICK e \in Epochs : onWorkReceived(e)
      BY <2>4 DEF clientGetsWork
    <3>2. /\ wp' \in [seed : Epochs \cup {NoSeed}, epoch : Epochs \cup {NoEpoch}]
          /\ job' \in Epochs \cup {NoEpoch}
      BY <1>0, <3>1 DEF onWorkReceived, TypeOK
    <3>3. TypeOK'
      BY <1>0, <2>4, <3>2 DEF clientGetsWork, TypeOK, selection, flags, timers
    <3>4. QED BY <2>4, <3>3, ListKept DEF clientGetsWork, selection
  <2>5. CASE clientFails
    <3>1. Written'
      BY <1>0, <2>5, DisconnectedType DEF clientFails, TypeOK
    <3>2. TypeOK'
      BY <1>0, <2>5, <3>1 DEF clientFails, TypeOK, Written, selection
    <3>3. QED BY <2>5, <3>2, ListKept DEF clientFails, selection
  <2>6. QED
    BY <1>2, <2>1, <2>2, <2>3, <2>4, <2>5
       DEF Client, clientLinks, clientRetries, clientCloses, Phases
<1>3. CASE Api
  <2>1. CASE minerRestart
    <3>1. TypeOK'
      BY <1>0, <2>1, FarmType DEF minerRestart, TypeOK, selection, flags, timers
    <3>2. QED BY <2>1, <3>1, ListKept DEF minerRestart, selection
  <2>2. ASSUME NEW p \in Pools, addConnection(p)
        PROVE  ListInv'
    <3>1. /\ connections \in Seq(Pools) /\ Len(connections) \in Nat /\ active \in Nat
          /\ connections = <<>> => Len(connections) = 0
      BY <1>0, LenProperties, EmptySeq DEF TypeOK
    <3>2. /\ connections' \in Seq(Pools)
          /\ Len(connections') = Len(connections) + 1
          /\ \A i \in 1..Len(connections) : connections'[i] = connections[i]
          /\ connections'[Len(connections) + 1] = p
      BY <2>2, <3>1, AppendProperties DEF addConnection
    <3>3. TypeOK'
      BY <1>0, <2>2, <3>2, SMTT(30) DEF addConnection, TypeOK, flags, timers
    <3>4. ASSUME NEW i \in 1..Len(connections) PROVE connections[i] # p
      <4>1. connections \in [1..Len(connections) -> Pools] /\ DOMAIN connections = 1..Len(connections)
        BY <3>1, LenProperties
      <4>2. connections[i] \in Range(connections)
        BY <4>1 DEF Range
      <4>3. QED BY <2>2, <4>2 DEF addConnection, InUse
    <3>5. IsInjection(connections')
      <4> SUFFICES ASSUME NEW i \in 1..Len(connections'), NEW j \in 1..Len(connections'),
                          connections'[i] = connections'[j]
                   PROVE  i = j
        BY DEF IsInjection
      <4>1. CASE i \in 1..Len(connections) /\ j \in 1..Len(connections)
        BY <3>2, <4>1 DEF ListInv, IsInjection
      <4>2. CASE i = Len(connections) + 1 /\ j \in 1..Len(connections)
        BY <3>2, <3>4, <4>2
      <4>3. CASE i \in 1..Len(connections) /\ j = Len(connections) + 1
        BY <3>2, <3>4, <4>3
      <4>4. QED BY <3>1, <3>2, <4>1, <4>2, <4>3
    <3>6. ActiveInBounds'
      <4>1. connections = <<>> => active = 0
        BY DEF ListInv, EmptyInv
      <4>2. QED BY <2>2, <3>1, <3>2, <4>1 DEF addConnection, ActiveInBounds, ListInv
    <3>7. EmptyInv'
      BY <3>1, <3>2, EmptySeq DEF EmptyInv
    <3>8. QED BY <3>3, <3>5, <3>6, <3>7 DEF ListInv
  <2>3. ASSUME NEW i \in 0..Len(connections), removeConnection(i)
        PROVE  ListInv'
    <3>1. /\ connections \in Seq(Pools) /\ Len(connections) \in Nat /\ active \in Nat
          /\ IsInjection(connections)
          /\ i < Len(connections) /\ i # active
          /\ connections' = Erase(connections, i + 1) /\ active' = IndexWithout(i)
      BY <1>0, <2>3, LenProperties DEF TypeOK, ListInv, removeConnection
    <3>2. i + 1 \in 1..Len(connections)
      BY <3>1
    <3>3. /\ connections' \in Seq(Pools) /\ Len(connections') = Len(connections) - 1
          /\ IsInjection(connections')
      BY <3>1, <3>2, EraseProperties, EraseInjection
    <3>4. connections # <<>>
      BY <3>1, EmptySeq
    <3>5. active' \in Nat /\ active' < Len(connections')
      BY <3>1, <3>3, <3>4 DEF IndexWithout, ListInv, ActiveInBounds
    <3>6. TypeOK'
      BY <1>0, <2>3, <3>3, <3>5 DEF removeConnection, TypeOK, flags, timers
    <3>7. ActiveInBounds' /\ EmptyInv'
      <4>1. connections' # <<>>
        BY <3>3, <3>5, EmptySeq
      <4>2. QED BY <3>5, <4>1 DEF ActiveInBounds, EmptyInv
    <3>8. QED BY <3>3, <3>6, <3>7 DEF ListInv
  <2>4. ASSUME NEW i \in 0..Len(connections), setActiveConnection(i)
        PROVE  ListInv'
    <3>1. Written'
      BY <1>0, <2>4, DisconnectType, Zenon DEF setActiveConnection, TypeOK
    <3>2. TypeOK'
      BY <1>0, <2>4, <3>1 DEF setActiveConnection, TypeOK, Written
    <3>3. connections # <<>>
      BY <1>0, <2>4, EmptySeq DEF setActiveConnection
    <3>4. ActiveInBounds' /\ EmptyInv'
      BY <2>4, <3>3 DEF setActiveConnection, ActiveInBounds, EmptyInv
    <3>5. QED BY <2>4, <3>2, <3>4 DEF setActiveConnection, ListInv
  <2>5. QED BY <1>3, <2>1, <2>2, <2>3, <2>4 DEF Api
<1>4. CASE Timers
  <2>1. CASE failoverFires
    <3>1. TypeOK'
      BY <1>0, <2>1 DEF failoverFires, TypeOK, TimerStates, selection, flags
    <3>2. QED BY <2>1, <3>1, ListKept DEF failoverFires, selection
  <2>2. CASE reconnectFires
    <3>1. TypeOK'
      BY <1>0, <2>2 DEF reconnectFires, TypeOK, TimerStates, selection, flags
    <3>2. QED BY <2>2, <3>1, ListKept DEF reconnectFires, selection
  <2>3. CASE failovertimer_elapsed
    <3>1. CASE ~running \/ active = 0
      <4>1. CASE BackToPrimary
        <5>1. Written'
          BY <1>0, <4>1, DisconnectType DEF BackToPrimary, TypeOK, TimerStates
        <5>2. TypeOK'
          BY <1>0, <2>3, <4>1, <5>1 DEF failovertimer_elapsed, BackToPrimary, TypeOK, Written
        <5>3. QED BY <4>1, <5>2, ListKept DEF BackToPrimary
      <4>2. CASE /\ failover' = "off"
                 /\ UNCHANGED <<selection, flags, client, rotations, farm, fault>>
        <5>1. TypeOK'
          BY <1>0, <2>3, <4>2 DEF failovertimer_elapsed, TypeOK, TimerStates, selection, flags
        <5>2. QED BY <4>2, <5>1, ListKept DEF selection
      <4>3. QED BY <2>3, <4>1, <4>2 DEF failovertimer_elapsed
    <3>2. CASE running /\ active # 0
      <4>1. BackToPrimary
        BY <2>3, <3>2 DEF failovertimer_elapsed
      <4>2. Written'
        BY <1>0, <4>1, DisconnectType DEF BackToPrimary, TypeOK, TimerStates
      <4>3. TypeOK'
        BY <1>0, <2>3, <4>1, <4>2 DEF failovertimer_elapsed, BackToPrimary, TypeOK, Written
      <4>4. QED BY <4>1, <4>3, ListKept DEF BackToPrimary
    <3>3. QED BY <3>1, <3>2
  <2>4. CASE reconnecttimer_elapsed
    <3>1. client' \in [uri : Pools, phase : Phases]
      BY <1>0, <2>4, Zenon DEF reconnecttimer_elapsed, Reconnected, TypeOK, Phases
    <3>2. fault' \in BOOLEAN
      BY <2>4, Zenon DEF reconnecttimer_elapsed
    <3>3. TypeOK'
      BY <1>0, <2>4, <3>1, <3>2 DEF reconnecttimer_elapsed, TypeOK, TimerStates, selection, flags
    <3>4. QED BY <2>4, <3>3, ListKept DEF reconnecttimer_elapsed, selection
  <2>5. QED BY <1>4, <2>1, <2>2, <2>3, <2>4 DEF Timers
<1>5. CASE Main
  <2>1. CASE mainWakes
    <3>1. pending' \in BOOLEAN /\ stopping' \in BOOLEAN
      BY <1>0, <2>1, Zenon DEF mainWakes, TypeOK
    <3>2. TypeOK'
      BY <1>0, <2>1, <3>1 DEF mainWakes, TypeOK, selection, timers
    <3>3. QED BY <2>1, <3>2, ListKept DEF mainWakes, selection
  <2>2. CASE mainTests
    <3>1. failover' \in TimerStates /\ reconnect' \in TimerStates
      BY <1>0, <2>2 DEF mainTests, Cancelled, TypeOK, TimerStates, timers
    <3>2. farm' \in [mining : BOOLEAN, paused : BOOLEAN, minersPaused : BOOLEAN]
      BY <1>0, <2>2, FarmType DEF mainTests, TypeOK
    <3>3. TypeOK'
      BY <1>0, <2>2, <3>1, <3>2 DEF mainTests, TypeOK, selection, flags
    <3>4. QED BY <2>2, <3>3, ListKept DEF mainTests, selection
  <2>3. CASE mainDisconnects
    <3>1. Written'
      BY <1>0, <2>3, DisconnectType DEF mainDisconnects, TypeOK
    <3>2. TypeOK'
      BY <1>0, <2>3, <3>1 DEF mainDisconnects, TypeOK, Written, selection
    <3>3. QED BY <2>3, <3>2, ListKept DEF mainDisconnects, selection
  <2>4. CASE mainSpins
    <3>1. client' \in [uri : Pools, phase : Phases]
      BY <1>0, <2>4, Zenon DEF mainSpins, TypeOK, Phases
    <3>2. TypeOK'
      BY <1>0, <2>4, <3>1 DEF mainSpins, TypeOK, selection, flags, timers
    <3>3. QED BY <2>4, <3>2, ListKept DEF mainSpins, selection
  <2>5. QED BY <1>5, <2>1, <2>2, <2>3, <2>4 DEF Main
<1>6. CASE UNCHANGED vars
  <2>1. TypeOK'
    BY <1>0, <1>6 DEF vars, TypeOK, selection, flags, timers
  <2>2. QED BY <1>6, <2>1, ListKept DEF vars, selection
<1>7. QED BY <1>1, <1>2, <1>3, <1>4, <1>5, <1>6 DEF Next

-----------------------------------------------------------------------------
(* The second layer: rotations, the failover timer and the main thread *)

\* The control layer holds when the PoolManager has been started.
LEMMA ControlInit == Init => ControlInv
BY DEF Init, ControlInv, MainInv, RotationInv, FailoverInv

\* A step that changes none of the variables of the control layer keeps it.
LEMMA ControlKept ==
    ASSUME ControlInv,
           UNCHANGED <<main, stopping, pending, client, rotations, failover, streak>>
    PROVE  ControlInv'
BY DEF ControlInv, MainInv, RotationInv, FailoverInv

\* onDisconnected keeps the control layer, on the io thread and on the main thread.
LEMMA ControlDisconnected ==
    ASSUME TypeOK, ControlInv, NEW t \in TimerStates, NEW o \in BOOLEAN, onDisconnected(t, o),
           UNCHANGED streak,
           main # "done", main' = main \/ (stopping /\ main' = "spins"),
           t \in {"off", failover}
    PROVE  ControlInv'
<1>1. client'.phase = "down" /\ stopping' = stopping
  BY EnterType DEF onDisconnected, Phases
<1>2. failover' = Cancelled(t) /\ failover' # "armed" /\ (failover' # "off" => streak.n = 0)
  BY DEF onDisconnected, Cancelled, TimerStates, ControlInv, FailoverInv
<1>3. ~stopping => pending' = TRUE
  BY Zenon DEF onDisconnected, Shutdown, Suspend
<1>4. MainInv'
  BY <1>1 DEF ControlInv, MainInv
<1>5. RotationInv'
  BY <1>1, <1>3 DEF RotationInv
<1>6. FailoverInv'
  BY <1>1, <1>2 DEF FailoverInv
<1>7. QED BY <1>4, <1>5, <1>6 DEF ControlInv

\* disconnect() keeps the control layer, and so does setting the flag for pending operations
\* before it.
LEMMA ControlDisconnect ==
    ASSUME TypeOK, ControlInv, NEW t \in TimerStates, NEW o \in BOOLEAN, disconnect(t, o),
           UNCHANGED streak,
           main # "done", main' = main \/ (stopping /\ main' = "spins"),
           t \in {"off", failover},
           o = pending \/ o = TRUE
    PROVE  ControlInv'
<1>1. stopping' = stopping /\ MainInv'
  BY DEF disconnect, onDisconnected, ControlInv, MainInv
<1>2. CASE onDisconnected(t, o)
  BY <1>2, ControlDisconnected
<1>3. CASE /\ \/ client.phase \in {"unlinking", "closing"} /\ UNCHANGED client
              \/ client.phase = "linked" /\ Enter("unlinking")
              \/ client.phase = "up" /\ Enter("closing")
              \/ client.phase \in {"linked", "trying"} /\ Enter("trying")
           /\ failover' = t /\ pending' = o
           /\ UNCHANGED <<running, stopping, rotations, farm, fault>>
  <2>1. \/ client.phase \in {"unlinking", "closing"} /\ client'.phase = client.phase
        \/ client.phase = "linked" /\ client'.phase = "unlinking"
        \/ client.phase = "up" /\ client'.phase = "closing"
        \/ client.phase \in {"linked", "trying"} /\ client'.phase = "trying"
    BY <1>3, EnterType DEF Phases
  <2>2. RotationInv'
    BY <1>3, <2>1 DEF ControlInv, RotationInv
  <2>3. FailoverInv'
    BY <1>3, <2>1 DEF ControlInv, FailoverInv
  <2>4. QED BY <1>1, <2>2, <2>3 DEF ControlInv
<1>4. CASE /\ fault' = TRUE /\ failover' = t /\ pending' = o
           /\ UNCHANGED <<running, stopping, client, rotations, farm>>
  <2>1. RotationInv'
    BY <1>4 DEF ControlInv, RotationInv
  <2>2. FailoverInv'
    BY <1>4 DEF ControlInv, FailoverInv
  <2>3. QED BY <1>1, <2>1, <2>2 DEF ControlInv
<1>5. QED BY <1>2, <1>3, <1>4, ZenonT(40) DEF disconnect

\* What rotateConnect does, as far as the later layers need it: it fails, it makes a client
\* for the pool selected, or it ends the PoolManager.
LEMMA RotateEffect ==
    ASSUME rotateConnect
    PROVE  /\ Alive /\ rotations > 0 /\ failover # "queued" /\ ~isConnected
           /\ rotations' = rotations - 1
           /\ UNCHANGED <<unrecoverable, stopping, pending, failover, wp, main, job>>
           /\ \/ UNCHANGED <<selection, running, client, farm, streak>>
              \/ /\ connections # <<>>
                 /\ connections' = Selection.list /\ active' = Selection.index
                 /\ \E u \in Selected :
                      /\ attempt' = Selection.attempt + 1
                      /\ client'.uri = u /\ client'.phase \in {"idle", "trying"}
                      /\ streak' = [uri |-> u, n |-> IF streak.uri = u THEN Counted(streak.n) ELSE 1]
                      /\ UNCHANGED <<running, farm>>
              \/ /\ connections # <<>>
                 /\ connections' = Selection.list /\ active' = Selection.index
                 /\ Selected = {}
                 /\ attempt' = Selection.attempt
                 /\ farm' = FarmStopped /\ running' = FALSE
                 /\ UNCHANGED <<client, streak>>
<1>1. /\ Alive /\ rotations > 0 /\ failover # "queued" /\ ~isConnected
      /\ rotations' = rotations - 1
      /\ UNCHANGED <<unrecoverable, stopping, pending, failover, wp, main, job>>
  BY Zenon DEF rotateConnect
<1>2. CASE connections = <<>>
  BY <1>1, <1>2, Zenon DEF rotateConnect
<1>3. CASE connections # <<>> /\ Selected = {}
  BY <1>1, <1>3, Zenon DEF rotateConnect
<1>4. CASE connections # <<>> /\ Selected # {}
  <2>1. PICK u \in Selected :
          LET n == Selection.attempt + 1
              waits == n > 1 /\ RetryDelay
          IN  /\ attempt' = n
              /\ client' = [uri |-> u, phase |-> IF waits THEN "idle" ELSE "trying"]
              /\ reconnect' = IF waits THEN "armed" ELSE reconnect
              /\ streak' = [uri |-> u, n |-> IF streak.uri = u THEN Counted(streak.n) ELSE 1]
              /\ UNCHANGED <<running, farm>>
    BY <1>4, Zenon DEF rotateConnect
  <2>2. client'.uri = u /\ client'.phase \in {"idle", "trying"}
    BY <2>1
  <2>3. connections' = Selection.list /\ active' = Selection.index
    BY <1>4, Zenon DEF rotateConnect
  <2>4. QED BY <1>1, <1>4, <2>1, <2>2, <2>3, Zenon
<1>5. QED BY <1>2, <1>3, <1>4, Zenon

\* The moves of the client that the PoolManager does not see.
LEMMA MovesEffect ==
    ASSUME TypeOK, clientLinks \/ clientRetries \/ clientCloses
    PROVE  /\ Alive /\ rotations = 0 /\ main # "done"
           /\ \/ client.phase \in {"trying", "linked", "unlinking"}
                 /\ client'.phase \in {"trying", "linked", "unlinking"}
              \/ client.phase = "up" /\ client'.phase = "closing"
           /\ client'.uri = client.uri
           /\ UNCHANGED <<selection, unrecoverable, flags, rotations, timers, farm, wp, main, job,
                          streak, fault>>
           /\ UNCHANGED <<stopping, pending, failover>>
BY DEF clientLinks, clientRetries, clientCloses, ClientMoves, ClientRuns, Alive, Enter, TypeOK,
       flags, timers

\* Every step keeps the control layer.
LEMMA ControlStep == ListInv /\ ControlInv /\ [Next]_vars => ControlInv'
<1> SUFFICES ASSUME ListInv, ControlInv, [Next]_vars PROVE ControlInv'
  OBVIOUS
<1>0. TypeOK
  BY DEF ListInv
<1>1. CASE rotateConnect
  <2>1. /\ main # "done" /\ rotations > 0 /\ failover # "queued" /\ rotations' = rotations - 1
        /\ UNCHANGED <<stopping, pending, failover, main>>
    BY <1>1, RotateEffect DEF Alive
  <2>2. client.phase \notin {"linked", "unlinking", "up", "closing"}
    BY <1>0, <2>1 DEF ControlInv, RotationInv, TypeOK
  <2>3. client'.phase \in {"idle", "trying"} \/ client' = client
    BY <1>1, RotateEffect, ZenonT(40)
  <2>4. failover = "off"
    BY <1>0, <2>1, <2>2 DEF ControlInv, FailoverInv, TypeOK, TimerStates
  <2>5. MainInv'
    BY <2>1 DEF ControlInv, MainInv
  <2>6. RotationInv'
    BY <1>0, <2>1, <2>2, <2>3 DEF ControlInv, RotationInv, TypeOK
  <2>7. FailoverInv'
    BY <2>1, <2>2, <2>3, <2>4 DEF FailoverInv
  <2>8. QED BY <2>5, <2>6, <2>7 DEF ControlInv
<1>2. CASE Client
  <2>1. ASSUME clientLinks \/ clientRetries \/ clientCloses PROVE ControlInv'
    <3>1. /\ rotations = 0 /\ main # "done"
          /\ \/ client.phase \in {"trying", "linked", "unlinking"}
                /\ client'.phase \in {"trying", "linked", "unlinking"}
             \/ client.phase = "up" /\ client'.phase = "closing"
          /\ UNCHANGED <<stopping, pending, main, rotations, failover, streak>>
      BY <1>0, <2>1, MovesEffect
    <3>2. QED BY <3>1 DEF ControlInv, MainInv, RotationInv, FailoverInv
  <2>2. CASE clientLogsIn
    <3>1. /\ client'.phase = "up" /\ rotations' = 0 /\ pending' = FALSE
          /\ streak'.n = 0
          /\ UNCHANGED <<stopping, main>>
      BY <1>0, <2>2, EnterType DEF clientLogsIn, onConnected, ClientRuns, Phases, TypeOK
    <3>2. QED BY <3>1 DEF ControlInv, MainInv, RotationInv, FailoverInv
  <2>3. CASE clientRefused
    BY <2>3, ControlKept DEF clientRefused, flags, timers
  <2>4. CASE clientGetsWork
    BY <2>4, ControlKept DEF clientGetsWork, flags, timers
  <2>5. CASE clientFails
    BY <1>0, <2>5, ControlDisconnected DEF clientFails, ClientRuns, Alive, TypeOK
  <2>6. QED BY <1>2, <2>1, <2>2, <2>3, <2>4, <2>5 DEF Client
<1>3. CASE Api
  <2>1. CASE minerRestart
    BY <2>1, ControlKept DEF minerRestart, flags, timers
  <2>2. ASSUME NEW p \in Pools, addConnection(p) PROVE ControlInv'
    BY <2>2, ControlKept DEF addConnection, flags, timers
  <2>3. ASSUME NEW i \in 0..Len(connections), removeConnection(i) PROVE ControlInv'
    BY <2>3, ControlKept DEF removeConnection, flags, timers
  <2>4. ASSUME NEW i \in 0..Len(connections), setActiveConnection(i) PROVE ControlInv'
    BY <1>0, <2>4, ControlDisconnect, Zenon DEF setActiveConnection, Alive, TypeOK
  <2>5. QED BY <1>3, <2>1, <2>2, <2>3, <2>4 DEF Api
<1>4. CASE Timers
  <2>1. CASE failoverFires
    <3>1. /\ failover = "armed" /\ failover' = "queued" /\ main # "done"
          /\ UNCHANGED <<main, stopping, pending, client, rotations, streak>>
      BY <2>1 DEF failoverFires, Alive, flags
    <3>2. QED BY <3>1 DEF ControlInv, MainInv, RotationInv, FailoverInv
  <2>2. CASE reconnectFires
    BY <2>2, ControlKept DEF reconnectFires, flags, timers
  <2>3. CASE failovertimer_elapsed
    <3>1. CASE BackToPrimary
      BY <1>0, <2>3, <3>1, ControlDisconnect, Zenon
         DEF failovertimer_elapsed, BackToPrimary, Alive, TypeOK, TimerStates
    <3>2. CASE /\ failover' = "off"
               /\ UNCHANGED <<selection, flags, client, rotations, farm, fault>>
      BY <2>3, <3>2 DEF failovertimer_elapsed, flags, ControlInv, MainInv, RotationInv, FailoverInv
    <3>3. QED BY <2>3, <3>1, <3>2 DEF failovertimer_elapsed
  <2>4. CASE reconnecttimer_elapsed
    <3>1. /\ client' = client \/ (client.phase = "idle" /\ client'.phase = "trying")
          /\ UNCHANGED <<main, stopping, pending, rotations, failover, streak>>
      BY <1>0, <2>4 DEF reconnecttimer_elapsed, Reconnected, flags, TypeOK
    <3>2. QED BY <3>1 DEF ControlInv, MainInv, RotationInv, FailoverInv
  <2>5. QED BY <1>4, <2>1, <2>2, <2>3, <2>4 DEF Timers
<1>5. CASE Main
  <2>1. CASE mainWakes
    <3>1. /\ main = "waits"
          /\ \/ main' = "stopping" /\ stopping' = TRUE /\ pending' = TRUE
             \/ main' = "done" /\ UNCHANGED <<stopping, pending>>
          /\ UNCHANGED <<client, rotations, failover, streak>>
      BY <2>1, Zenon DEF mainWakes, timers
    <3>2. QED BY <3>1 DEF ControlInv, MainInv, RotationInv, FailoverInv
  <2>2. CASE mainTests
    <3>1. /\ main = "stopping" /\ main' \in {"disconnects", "done"}
          /\ failover' = failover \/ (main' = "done" /\ failover' = Cancelled(failover))
          /\ UNCHANGED <<stopping, pending, client, rotations, streak>>
      BY <2>2 DEF mainTests, flags, timers
    <3>2. QED BY <3>1 DEF ControlInv, MainInv, RotationInv, FailoverInv, Cancelled
  <2>3. CASE mainDisconnects
    <3>1. main = "disconnects" /\ main' = "spins" /\ stopping
      BY <2>3 DEF mainDisconnects, ControlInv, MainInv
    <3>2. QED BY <1>0, <2>3, <3>1, ControlDisconnect, ZenonT(40) DEF mainDisconnects, TypeOK
  <2>4. CASE mainSpins
    <3>1. /\ main = "spins" /\ main' = "done" /\ stopping /\ client'.phase = "none"
          /\ UNCHANGED <<stopping, pending, rotations, failover, streak>>
      BY <1>0, <2>4 DEF mainSpins, flags, timers, TypeOK, ControlInv, MainInv
    <3>2. QED BY <3>1 DEF ControlInv, MainInv, RotationInv, FailoverInv
  <2>5. QED BY <1>5, <2>1, <2>2, <2>3, <2>4 DEF Main
<1>6. CASE UNCHANGED vars
  BY <1>6, ControlKept DEF vars, flags, timers
<1>7. QED BY <1>1, <1>2, <1>3, <1>4, <1>5, <1>6 DEF Next

-----------------------------------------------------------------------------
(* The third layer: the client and the active pool *)

\* What disconnect() does to the client, as far as the later layers need it.
LEMMA DisconnectEffect ==
    ASSUME TypeOK, NEW t, NEW o, disconnect(t, o)
    PROVE  /\ UNCHANGED stopping /\ client'.uri = client.uri
           /\ (running' => running)
           /\ \/ client'.phase = "down" /\ (farm' = FarmPaused \/ stopping)
              \/ /\ \/ client' = client /\ client.phase \in {"idle", "trying", "down", "unlinking", "closing"}
                    \/ client.phase = "linked" /\ client'.phase = "unlinking"
                    \/ client.phase = "up" /\ client'.phase = "closing"
                    \/ client.phase \in {"linked", "trying"} /\ client'.phase = "trying"
                 /\ UNCHANGED <<running, farm>>
<1>1. CASE onDisconnected(t, o)
  <2>1. client'.phase = "down" /\ client'.uri = client.uri /\ UNCHANGED stopping
    BY <1>1, EnterType DEF onDisconnected, Phases
  <2>2. (running' = FALSE \/ running' = running) /\ (farm' = FarmPaused \/ stopping)
    BY <1>1, Zenon DEF onDisconnected, Shutdown, Suspend
  <2>3. QED BY <2>1, <2>2
<1>2. CASE /\ client.phase \in {"unlinking", "closing", "linked", "up", "trying"}
           /\ \/ client.phase \in {"unlinking", "closing"} /\ UNCHANGED client
              \/ client.phase = "linked" /\ Enter("unlinking")
              \/ client.phase = "up" /\ Enter("closing")
              \/ client.phase \in {"linked", "trying"} /\ Enter("trying")
           /\ UNCHANGED <<running, stopping, farm>>
  <2>1. /\ client'.uri = client.uri
        /\ \/ client.phase \in {"unlinking", "closing"} /\ client' = client
           \/ client.phase = "linked" /\ client'.phase = "unlinking"
           \/ client.phase = "up" /\ client'.phase = "closing"
           \/ client.phase \in {"linked", "trying"} /\ client'.phase = "trying"
    BY <1>2, EnterType DEF Phases
  <2>2. QED BY <1>2, <2>1
<1>3. CASE /\ client.phase \in {"idle", "trying", "down"}
           /\ UNCHANGED <<running, stopping, client, farm>>
  BY <1>3
<1>4. QED BY <1>1, <1>2, <1>3 DEF disconnect

\* A step that turns neither the list nor the client to another pool keeps the layer, if it
\* begins no session.
LEMMA ActiveKept ==
    ASSUME ActiveInv, UNCHANGED <<connections, active>>,
           client'.uri = client.uri, running' => running,
           client'.phase \in {"idle", "trying", "linked", "unlinking"} =>
               client.phase \in {"idle", "trying", "linked", "unlinking"},
           client'.phase = "up" =>
               client.phase = "up" /\ (UNCHANGED <<stopping, pending>> \/ stopping')
    PROVE  ActiveInv'
BY DEF ActiveInv, TowardsActive, ConnectedToActive, Operating

\* Initially there is no client.
LEMMA ActiveInit == Init => ActiveInv
BY DEF Init, ActiveInv, TowardsActive, ConnectedToActive

\* Every step keeps the client with the active pool, or the switch pending.
LEMMA ActiveStep == ListInv /\ ControlInv /\ ActiveInv /\ [Next]_vars => ActiveInv'
<1> SUFFICES ASSUME ListInv, ControlInv, ActiveInv, [Next]_vars PROVE ActiveInv'
  OBVIOUS
<1>0. TypeOK /\ connections \in Seq(Pools) /\ Len(connections) \in Nat /\ active \in Nat
  BY LenProperties DEF ListInv, TypeOK
<1>1. CASE rotateConnect
  <2>1. CASE UNCHANGED <<selection, running, client>>
    BY <1>1, <2>1, RotateEffect, ActiveKept DEF selection
  <2>2. CASE running' = FALSE
    BY <2>2 DEF ActiveInv, TowardsActive, ConnectedToActive, Operating
  <2>3. ASSUME NEW u \in Selected, client'.uri = u, client'.phase \in {"idle", "trying"},
               connections' = Selection.list, active' = Selection.index
        PROVE  ActiveInv'
    <3>1. connections' # <<>> /\ u = connections'[active' + 1]
      BY <2>3 DEF Selected
    <3>2. QED BY <2>3, <3>1 DEF ActiveInv, TowardsActive, ConnectedToActive
  <2>4. QED BY <1>1, <2>1, <2>2, <2>3, RotateEffect, Zenon
<1>2. CASE Client
  <2>1. CASE clientLinks \/ clientRetries \/ clientCloses
    BY <1>0, <2>1, MovesEffect, ActiveKept DEF selection, flags
  <2>2. CASE clientLogsIn
    <3>1. /\ client'.phase = "up" /\ client'.uri = client.uri /\ client.phase = "linked"
          /\ UNCHANGED <<connections, active, running>>
      BY <1>0, <2>2, EnterType DEF clientLogsIn, onConnected, ClientRuns, Phases
    <3>2. QED BY <3>1 DEF ActiveInv, TowardsActive, ConnectedToActive, Operating
  <2>3. CASE clientRefused
    BY <2>3, ActiveKept DEF clientRefused, selection, flags
  <2>4. CASE clientGetsWork
    BY <2>4, ActiveKept DEF clientGetsWork, selection, flags
  <2>5. CASE clientFails
    <3>1. client'.phase = "down"
      BY <1>0, <2>5, EnterType DEF clientFails, onDisconnected, Phases
    <3>2. QED BY <3>1 DEF ActiveInv, TowardsActive, ConnectedToActive
  <2>6. QED BY <1>2, <2>1, <2>2, <2>3, <2>4, <2>5, SMTT(30) DEF Client
<1>3. CASE Api
  <2>1. CASE minerRestart
    BY <2>1, ActiveKept DEF minerRestart, selection, flags
  <2>2. ASSUME NEW p \in Pools, addConnection(p) PROVE ActiveInv'
    <3>1. /\ connections' = Append(connections, p)
          /\ UNCHANGED <<active, running, stopping, pending, client>>
      BY <2>2 DEF addConnection, flags
    <3>2. connections # <<>> =>
             /\ connections' # <<>>
             /\ connections'[active' + 1] = connections[active + 1]
      <4>1. connections # <<>> => active < Len(connections)
        BY DEF ListInv, ActiveInBounds
      <4>2. connections # <<>> => active + 1 \in 1..Len(connections)
        BY <1>0, <4>1
      <4>3. /\ Len(Append(connections, p)) = Len(connections) + 1
            /\ \A i \in 1..Len(connections) : Append(connections, p)[i] = connections[i]
            /\ Append(connections, p) # <<>>
        BY <1>0, <2>2, AppendedPool
      <4>4. QED BY <3>1, <4>2, <4>3
    <3>3. QED BY <3>1, <3>2, Zenon DEF ActiveInv, TowardsActive, ConnectedToActive, Operating
  <2>3. ASSUME NEW i \in 0..Len(connections), removeConnection(i), main = "waits"
        PROVE  ActiveInv'
    <3>1. /\ ~pending /\ i < Len(connections) /\ i # active
          /\ connections' = Erase(connections, i + 1) /\ active' = IndexWithout(i)
          /\ UNCHANGED <<running, stopping, pending, client>>
      BY <2>3 DEF removeConnection, flags
    <3>2. client.phase \in {"up", "closing"}
      BY <2>3, <3>1 DEF ControlInv, MainInv, RotationInv
    <3>3. connections # <<>> =>
             /\ connections' # <<>>
             /\ connections'[active' + 1] = connections[active + 1]
      <4> SUFFICES ASSUME connections # <<>>
                   PROVE  /\ connections' # <<>>
                          /\ connections'[active' + 1] = connections[active + 1]
        OBVIOUS
      <4>1. active < Len(connections)
        BY DEF ListInv, ActiveInBounds
      <4>2. i + 1 \in 1..Len(connections)
        BY <1>0, <3>1
      <4>3. /\ Len(connections') = Len(connections) - 1 /\ connections' \in Seq(Pools)
            /\ \A j \in 1..(Len(connections) - 1) :
                 /\ j < i + 1 => connections'[j] = connections[j]
                 /\ j >= i + 1 => connections'[j] = connections[j + 1]
        BY <1>0, <3>1, <4>2, EraseProperties
      <4>4. connections' # <<>>
        <5>1. \A n, k, l \in Nat : k < n /\ l < n /\ k # l => n - 1 # 0
          OBVIOUS
        <5>2. i \in Nat
          BY <1>0
        <5>3. Len(connections) - 1 # 0
          BY <1>0, <3>1, <4>1, <5>1, <5>2, Zenon
        <5>4. QED BY <4>3, <5>3
      <4>5. CASE active < i
        <5>1. active' = active
          BY <1>0, <3>1, <4>5 DEF IndexWithout
        <5>2. active + 1 \in 1..(Len(connections) - 1) /\ active + 1 < i + 1
          BY <1>0, <3>1, <4>5
        <5>3. QED BY <4>3, <4>4, <5>1, <5>2
      <4>6. CASE active > i
        <5>1. active' = active - 1
          BY <1>0, <3>1, <4>6 DEF IndexWithout
        <5>2. active \in 1..(Len(connections) - 1) /\ active >= i + 1
          BY <1>0, <4>1, <4>6
        <5>3. connections'[active] = connections[active + 1]
          BY <4>3, <5>2
        <5>4. QED BY <1>0, <4>4, <5>1, <5>3
      <4>7. QED BY <1>0, <3>1, <4>5, <4>6
    <3>4. QED BY <3>1, <3>2, <3>3 DEF ActiveInv, TowardsActive, ConnectedToActive, Operating
  <2>4. ASSUME NEW i \in 0..Len(connections), setActiveConnection(i), main = "waits"
        PROVE  ActiveInv'
    <3>1. ~pending /\ disconnect(failover, TRUE)
      BY <2>4, Zenon DEF setActiveConnection
    <3>2. client.phase \in {"up", "closing"}
      BY <2>4, <3>1 DEF ControlInv, MainInv, RotationInv
    <3>3. client'.phase \in {"closing", "down"}
      BY <1>0, <3>1, <3>2, DisconnectEffect, Zenon
    <3>4. QED BY <3>3 DEF ActiveInv, TowardsActive, ConnectedToActive
  <2>5. QED BY <1>3, <2>1, <2>2, <2>3, <2>4 DEF Api
<1>4. CASE Timers
  <2>1. CASE failoverFires
    BY <2>1, ActiveKept DEF failoverFires, selection, flags
  <2>2. CASE reconnectFires
    BY <2>2, ActiveKept DEF reconnectFires, selection, flags
  <2>3. CASE failovertimer_elapsed
    <3>1. CASE BackToPrimary
      <4>1. client.phase \in {"up", "closing", "down", "none"} /\ disconnect("off", pending)
        BY <2>3, <3>1 DEF failovertimer_elapsed, BackToPrimary, ControlInv, FailoverInv
      <4>2. client'.phase \in {"closing", "down"}
        BY <1>0, <4>1, DisconnectEffect
      <4>3. QED BY <4>2 DEF ActiveInv, TowardsActive, ConnectedToActive
    <3>2. CASE UNCHANGED <<selection, flags, client>>
      BY <3>2, ActiveKept DEF selection, flags
    <3>3. QED BY <2>3, <3>1, <3>2 DEF failovertimer_elapsed
  <2>4. CASE reconnecttimer_elapsed
    <3>1. /\ client'.uri = client.uri
          /\ client' = client \/ (client.phase = "idle" /\ client'.phase = "trying")
          /\ UNCHANGED <<selection, flags>>
      BY <1>0, <2>4 DEF reconnecttimer_elapsed, Reconnected, TypeOK
    <3>2. QED BY <3>1, ActiveKept DEF selection, flags
  <2>5. QED BY <1>4, <2>1, <2>2, <2>3, <2>4 DEF Timers
<1>5. CASE Main
  <2>1. CASE mainWakes
    BY <2>1, ActiveKept DEF mainWakes, selection
  <2>2. CASE mainTests
    BY <2>2, ActiveKept DEF mainTests, selection, flags
  <2>3. CASE mainDisconnects
    <3>1. disconnect(failover, pending) /\ stopping /\ UNCHANGED selection
      BY <2>3 DEF mainDisconnects, ControlInv, MainInv
    <3>2. /\ client'.uri = client.uri /\ (running' => running)
          /\ client'.phase \in {"idle", "trying", "linked", "unlinking"} =>
               client.phase \in {"idle", "trying", "linked", "unlinking"}
          /\ client'.phase # "up"
      BY <1>0, <3>1, DisconnectEffect, Zenon DEF TypeOK, Phases
    <3>3. QED BY <3>1, <3>2, ActiveKept, Zenon DEF selection
  <2>4. CASE mainSpins
    <3>1. client'.phase = "none"
      BY <1>0, <2>4 DEF mainSpins, TypeOK
    <3>2. QED BY <3>1 DEF ActiveInv, TowardsActive, ConnectedToActive
  <2>5. QED BY <1>5, <2>1, <2>2, <2>3, <2>4 DEF Main
<1>6. CASE UNCHANGED vars
  BY <1>6, ActiveKept DEF vars, selection, flags
<1>7. QED BY <1>1, <1>2, <1>3, <1>4, <1>5, <1>6 DEF Next

-----------------------------------------------------------------------------
(* The fourth layer: the farm *)

\* What the states the farm is put in say about the pause of its miners.
LEMMA FarmFields ==
    ASSUME TypeOK
    PROVE  /\ FarmStarted.mining /\ ~FarmStarted.minersPaused
           /\ ~FarmStopped.minersPaused
           /\ FarmPaused.paused
           /\ ~FarmResumed.minersPaused /\ (farm.mining => FarmResumed.mining)
BY DEF TypeOK, FarmStarted, FarmStopped, FarmPaused, FarmResumed

\* A step that leaves the farm alone keeps the layer, if it begins no session.
LEMMA FarmKept ==
    ASSUME FarmInv, UNCHANGED farm, running' => running, stopping => stopping',
           client'.phase = "up" => client.phase = "up"
    PROVE  FarmInv'
BY DEF FarmInv, MinersRunWhenConnected, Operating

\* disconnect() ends the session or leaves the farm alone.
LEMMA FarmDisconnect ==
    ASSUME TypeOK, FarmInv, NEW t, NEW o, disconnect(t, o)
    PROVE  FarmInv'
<1>1. CASE onDisconnected(t, o)
  <2>1. client'.phase = "down" /\ farm' \in {FarmPaused, FarmStopped}
    BY <1>1, EnterType DEF onDisconnected, Shutdown, Suspend, Phases
  <2>2. farm'.minersPaused => farm'.paused
    BY <2>1, FarmFields
  <2>3. QED BY <2>1, <2>2 DEF FarmInv, MinersRunWhenConnected
<1>2. CASE /\ \/ UNCHANGED client \/ Enter("unlinking") \/ Enter("closing")
              \/ Enter("trying")
           /\ UNCHANGED <<running, stopping, farm>>
  <2>1. client'.phase = "up" => client.phase = "up"
    BY <1>2, EnterType, SMTT(30) DEF Phases
  <2>2. QED BY <1>2, <2>1, FarmKept
<1>3. QED BY <1>1, <1>2 DEF disconnect

\* Initially the farm neither mines nor pauses.
LEMMA FarmInit == Init => FarmInv
BY DEF Init, FarmInv, MinersRunWhenConnected

\* Every step keeps the miners running during a session.
LEMMA FarmStep == ListInv /\ ControlInv /\ FarmInv /\ [Next]_vars => FarmInv'
<1> SUFFICES ASSUME ListInv, ControlInv, FarmInv, [Next]_vars PROVE FarmInv'
  OBVIOUS
<1>0. TypeOK
  BY DEF ListInv
<1>1. CASE rotateConnect
  <2>1. CASE UNCHANGED <<running, client, farm>>
    BY <1>1, <2>1, RotateEffect, FarmKept
  <2>2. CASE running' = FALSE /\ farm' = FarmStopped
    BY <1>0, <2>2, FarmFields DEF FarmInv, MinersRunWhenConnected, Operating
  <2>3. CASE client'.phase \in {"idle", "trying"} /\ UNCHANGED <<running, farm>>
    BY <1>1, <2>3, RotateEffect, FarmKept
  <2>4. QED BY <1>1, <2>1, <2>2, <2>3, RotateEffect, Zenon
<1>2. CASE Client
  <2>1. CASE clientLinks \/ clientRetries \/ clientCloses
    <3>1. client'.phase = "up" => client.phase = "up"
      BY <1>0, <2>1, MovesEffect
    <3>2. UNCHANGED <<flags, farm>>
      BY <1>0, <2>1, MovesEffect, Zenon
    <3>3. QED BY <3>1, <3>2, FarmKept, SMTT(30) DEF flags
  <2>2. CASE clientLogsIn
    <3>1. farm' = FarmConnected
      BY <2>2 DEF clientLogsIn, onConnected
    <3>2. farm'.mining /\ ~farm'.minersPaused
      <4>1. CASE ~farm.mining
        BY <1>0, <3>1, <4>1, FarmFields DEF FarmConnected
      <4>2. CASE farm.mining /\ farm.paused
        BY <1>0, <3>1, <4>2, FarmFields DEF FarmConnected
      <4>3. CASE farm.mining /\ ~farm.paused
        BY <3>1, <4>3 DEF FarmConnected, FarmInv
      <4>4. QED BY <4>1, <4>2, <4>3
    <3>3. QED BY <3>2 DEF FarmInv, MinersRunWhenConnected
  <2>3. CASE clientRefused
    BY <2>3, FarmKept DEF clientRefused, flags
  <2>4. CASE clientGetsWork
    BY <2>4, FarmKept DEF clientGetsWork, flags
  <2>5. CASE clientFails
    <3>1. client'.phase = "down" /\ farm' \in {FarmPaused, FarmStopped}
      BY <1>0, <2>5, EnterType DEF clientFails, onDisconnected, Shutdown, Suspend, Phases
    <3>2. farm'.minersPaused => farm'.paused
      BY <1>0, <3>1, FarmFields
    <3>3. QED BY <3>1, <3>2 DEF FarmInv, MinersRunWhenConnected
  <2>6. QED BY <1>2, <2>1, <2>2, <2>3, <2>4, <2>5 DEF Client
<1>3. CASE Api
  <2>1. CASE minerRestart
    BY <1>0, <2>1, FarmFields DEF minerRestart, FarmInv, MinersRunWhenConnected
  <2>2. ASSUME NEW p \in Pools, addConnection(p) PROVE FarmInv'
    BY <2>2, FarmKept DEF addConnection, flags
  <2>3. ASSUME NEW i \in 0..Len(connections), removeConnection(i) PROVE FarmInv'
    BY <2>3, FarmKept DEF removeConnection, flags
  <2>4. ASSUME NEW i \in 0..Len(connections), setActiveConnection(i) PROVE FarmInv'
    BY <1>0, <2>4, FarmDisconnect, Zenon DEF setActiveConnection
  <2>5. QED BY <1>3, <2>1, <2>2, <2>3, <2>4 DEF Api
<1>4. CASE Timers
  <2>1. CASE failoverFires
    BY <2>1, FarmKept DEF failoverFires, flags
  <2>2. CASE reconnectFires
    BY <2>2, FarmKept DEF reconnectFires, flags
  <2>3. CASE failovertimer_elapsed
    <3>1. CASE BackToPrimary
      BY <1>0, <3>1, FarmDisconnect DEF BackToPrimary
    <3>2. CASE UNCHANGED <<flags, client, farm>>
      BY <3>2, FarmKept DEF flags
    <3>3. QED BY <2>3, <3>1, <3>2 DEF failovertimer_elapsed
  <2>4. CASE reconnecttimer_elapsed
    <3>1. client' = client \/ client'.phase = "trying"
      BY <1>0, <2>4 DEF reconnecttimer_elapsed, Reconnected, TypeOK
    <3>2. QED BY <2>4, <3>1, FarmKept DEF reconnecttimer_elapsed, flags
  <2>5. QED BY <1>4, <2>1, <2>2, <2>3, <2>4 DEF Timers
<1>5. CASE Main
  <2>1. CASE mainWakes
    BY <2>1, FarmKept DEF mainWakes
  <2>2. CASE mainTests
    <3>1. stopping' /\ (farm' = farm \/ farm' = FarmStopped)
      BY <2>2 DEF mainTests, flags, ControlInv, MainInv
    <3>2. farm'.minersPaused => farm'.paused
      BY <1>0, <3>1, FarmFields DEF FarmInv
    <3>3. QED BY <3>1, <3>2 DEF FarmInv, MinersRunWhenConnected, Operating
  <2>3. CASE mainDisconnects
    BY <1>0, <2>3, FarmDisconnect DEF mainDisconnects
  <2>4. CASE mainSpins
    <3>1. client'.phase = "none"
      BY <1>0, <2>4 DEF mainSpins, TypeOK
    <3>2. QED BY <2>4, <3>1, FarmKept DEF mainSpins, flags
  <2>5. QED BY <1>5, <2>1, <2>2, <2>3, <2>4 DEF Main
<1>6. CASE UNCHANGED vars
  BY <1>6, FarmKept, SMTT(30) DEF vars, flags
<1>7. QED BY <1>1, <1>2, <1>3, <1>4, <1>5, <1>6 DEF Next

-----------------------------------------------------------------------------
(* The fifth layer: the epoch of the work *)

\* Initially there is neither work nor a job.
LEMMA EpochInit == Init => EpochInv
BY DEF Init, EpochInv

\* Only a job changes the work, and its epoch is computed again whenever the work could
\* be of another one.
LEMMA EpochStep == ListInv /\ EpochInv /\ [Next]_vars => EpochInv'
<1> SUFFICES ASSUME ListInv, EpochInv, [Next]_vars PROVE EpochInv'
  OBVIOUS
<1>1. ASSUME NEW e \in Epochs, onWorkReceived(e) PROVE EpochInv'
  <2>1. e # NoEpoch /\ e # NoSeed
    BY ConstantsAssumption DEF NoEpoch, NoSeed
  <2>2. job' = e
    BY <1>1, SMTT(30) DEF onWorkReceived
  <2>3. CASE client.uri \in ES2Pools
    <3>1. wp' = [seed |-> NoSeed, epoch |-> IF ~NewEpoch(NoSeed, e) THEN wp.epoch ELSE e]
      BY <1>1, <2>1, <2>3 DEF onWorkReceived
    <3>2. ~NewEpoch(NoSeed, e) => wp.epoch = e
      BY <2>3, SMTT(30) DEF NewEpoch
    <3>3. QED BY <2>2, <3>1, <3>2 DEF EpochInv
  <2>4. CASE client.uri \notin ES2Pools
    <3>1. wp' = [seed |-> e, epoch |-> IF ~NewEpoch(e, NoEpoch) THEN wp.epoch ELSE e]
      BY <1>1, <2>4 DEF onWorkReceived
    <3>2. ~NewEpoch(e, NoEpoch) => wp.seed = e
      BY <2>4, SMTT(30) DEF NewEpoch
    <3>3. QED BY <2>1, <2>2, <3>1, <3>2, SMTT(30) DEF EpochInv
  <2>5. QED BY <2>3, <2>4
<1>2. CASE UNCHANGED <<wp, job>>
  BY <1>2, SMTT(30) DEF EpochInv
<1>3. CASE rotateConnect
  BY <1>2, <1>3, SMTT(30) DEF rotateConnect
<1>4. CASE Client
  BY <1>1, <1>2, <1>4, SMTT(30) DEF Client, clientLinks, clientRetries, clientCloses, ClientMoves,
     clientLogsIn, clientRefused, clientGetsWork, clientFails
<1>5. CASE Api
  BY <1>2, <1>5, Zenon DEF Api, minerRestart, addConnection, removeConnection, setActiveConnection
<1>6. CASE Timers
  BY <1>2, <1>6 DEF Timers, failoverFires, reconnectFires, failovertimer_elapsed,
     reconnecttimer_elapsed
<1>7. CASE Main
  BY <1>2, <1>7 DEF Main, mainWakes, mainTests, mainDisconnects, mainSpins
<1>8. CASE UNCHANGED vars
  BY <1>2, <1>8 DEF vars
<1>9. QED BY <1>3, <1>4, <1>5, <1>6, <1>7, <1>8 DEF Next

-----------------------------------------------------------------------------
(* The sixth layer: the limit of retries *)

\* A pool that is selected once more in a row is the active one, its attempts are counted,
\* and it has attempts left: rotation and erasure lead to other pools, and a selection that
\* hits an exit pool ends the program.
LEMMA SelectedAgain ==
    ASSUME ListInv, RetryInv, connections # <<>>,
           NEW u \in Selected, streak.uri = u, streak.n > 0
    PROVE  Selection.attempt = attempt /\ streak.n <= attempt /\ ~Tired
<1>1. /\ connections \in Seq(Pools) /\ Len(connections) \in Nat /\ active \in Nat
      /\ active < Len(connections) /\ attempt \in Nat /\ IsInjection(connections)
  BY LenProperties DEF ListInv, TypeOK, ActiveInBounds
<1>2. /\ Selection.list # <<>> /\ u = Selection.list[Selection.index + 1] /\ u \notin ExitPools
  BY DEF Selected
<1>3. Selection.index + 1 \in 1..Len(Selection.list)
  <2>1. /\ Selection.list \in Seq(Pools) /\ Selection.index \in Nat
        /\ Selection.index < Len(Selection.list)
    BY <1>2, SelectionProperties
  <2>2. Len(Selection.list) \in Nat
    BY <2>1, LenProperties
  <2>3. \A n, k \in Nat : k < n => k + 1 \in 1..n
    OBVIOUS
  <2>4. QED BY <2>1, <2>2, <2>3, ZenonT(40)
<1>4. active + 1 \in 1..Len(connections)
  BY <1>1
<1>5. ASSUME NEW k \in 1..Len(connections), u = connections[k], k # active + 1
      PROVE  connections[active + 1] \notin unrecoverable /\ ~Tired
  <2>1. connections[active + 1] # u
    BY <1>1, <1>4, <1>5 DEF IsInjection
  <2>2. \E i \in 1..Len(connections) : connections[i] = streak.uri
    BY <1>5
  <2>3. connections[active + 1] \in ExitPools /\ attempt = 0
    BY <2>1, <2>2 DEF RetryInv, StreakInv
  <2>4. ~Tired
    BY <2>3, ConstantsAssumption DEF Tired
  <2>5. QED BY <2>3, <2>4 DEF RetryInv, ExitInv
<1>6. CASE /\ Selection = [list |-> connections, index |-> active, attempt |-> attempt]
           /\ ~Tired
  <2>1. u = connections[active + 1]
    BY <1>2, <1>6, SMTT(30)
  <2>2. connections[active + 1] = streak.uri /\ streak.n <= attempt
    BY <1>2, <1>4, <2>1 DEF RetryInv, StreakInv
  <2>3. QED BY <1>6, <2>2
<1>7. CASE /\ Selection.list = Erase(connections, active + 1)
           /\ connections[active + 1] \in unrecoverable \/ Tired
  <2>1. \E k \in 1..Len(connections) : k # active + 1 /\ u = connections[k]
    BY <1>1, <1>2, <1>3, <1>4, <1>7, EraseInjection, SMTT(30)
  <2>2. QED BY <1>5, <1>7, <2>1, SMTT(30)
<1>8. CASE /\ Selection = [list |-> connections, index |-> Rotated(active, connections),
                           attempt |-> 0]
           /\ Tired /\ Len(connections) > 1
  <2>1. Rotated(active, connections) # active
    BY <1>1, <1>8 DEF Rotated, Wrapped
  <2>2. Rotated(active, connections) \in Nat
    BY <1>1 DEF Rotated, Wrapped
  <2>3. /\ u = connections[Rotated(active, connections) + 1]
        /\ Rotated(active, connections) + 1 \in 1..Len(connections)
    BY <1>2, <1>3, <1>8
  <2>4. Rotated(active, connections) + 1 # active + 1
    BY <1>1, <2>1, <2>2, SMTT(30)
  <2>5. QED BY <1>5, <1>8, <2>3, <2>4
<1>9. QED BY <1>6, <1>7, <1>8, SelectionCases

\* A step that leaves the selection and the marks alone keeps the layer, if it makes no
\* client.
LEMMA RetryKept ==
    ASSUME RetryInv, UNCHANGED <<selection, unrecoverable, streak>>,
           client'.uri = client.uri, client'.phase # "none" => client.phase # "none"
    PROVE  RetryInv'
BY DEF RetryInv, ExitInv, StreakInv, RetryBound, selection

\* So does every step that leaves no attempt counted.
LEMMA RetryQuiet ==
    ASSUME RetryInv, UNCHANGED unrecoverable, streak'.n = 0,
           client'.uri = client.uri, client'.phase # "none" => client.phase # "none"
    PROVE  RetryInv'
<1>1. ExitInv'
  BY DEF RetryInv, ExitInv
<1>2. StreakInv' /\ RetryBound'
  BY ConstantsAssumption DEF StreakInv, RetryBound
<1>3. QED BY <1>1, <1>2 DEF RetryInv

\* disconnect() finds a client and makes none.
LEMMA RetryDisconnect ==
    ASSUME TypeOK, NEW t, NEW o, disconnect(t, o)
    PROVE  client'.uri = client.uri /\ client.phase # "none"
<1>1. client'.uri = client.uri
  BY DisconnectEffect
<1>2. client.phase # "none"
  BY SMTT(30) DEF disconnect
<1>3. QED BY <1>1, <1>2

\* Initially no pool was tried.
LEMMA RetryInit == Init => RetryInv
BY ConstantsAssumption, SMTT(30) DEF Init, RetryInv, ExitInv, StreakInv, RetryBound

\* Every step keeps the limit of retries.
LEMMA RetryStep == ListInv /\ ControlInv /\ RetryInv /\ [Next]_vars => RetryInv'
<1> SUFFICES ASSUME ListInv, ControlInv, RetryInv, [Next]_vars PROVE RetryInv'
  OBVIOUS
<1>0. /\ TypeOK /\ connections \in Seq(Pools) /\ Len(connections) \in Nat /\ active \in Nat
      /\ attempt \in Nat /\ streak.n \in Nat /\ MaxRetries \in Nat
  BY LenProperties, ConstantsAssumption, SMTT(30) DEF ListInv, TypeOK
<1>1. CASE rotateConnect
  <2>0. UNCHANGED unrecoverable
    BY <1>1, RotateEffect
  <2>1. CASE UNCHANGED <<selection, client, streak>>
    BY <2>0, <2>1, RetryKept
  <2>2. ASSUME connections # <<>>, connections' = Selection.list, active' = Selection.index,
               NEW u \in Selected, attempt' = Selection.attempt + 1, client'.uri = u,
               streak' = [uri |-> u, n |-> IF streak.uri = u THEN Counted(streak.n) ELSE 1]
        PROVE  RetryInv'
    <3>1. u \notin ExitPools /\ u = connections'[active' + 1]
      BY <2>2 DEF Selected
    <3>2. ExitInv'
      BY <2>0, <2>2, <3>1, SMTT(30) DEF RetryInv, ExitInv
    <3>3. Selection.attempt \in Nat
      BY <2>2, SelectionProperties, SMTT(30)
    <3>4. CASE streak.uri = u /\ streak.n > 0
      <4>1. Selection.attempt = attempt /\ streak.n <= attempt /\ ~Tired
        BY <2>2, <3>4, SelectedAgain, SMTT(30)
      <4>2. streak'.uri = u /\ streak'.n \in Nat /\ streak'.n <= streak.n + 1
        BY <1>0, <2>2, <3>4, SMTT(30) DEF Counted
      <4>3. streak'.n <= attempt' /\ (MaxRetries # 0 => streak'.n <= MaxRetries)
        BY <1>0, <2>2, <4>1, <4>2, SMTT(30) DEF Tired
      <4>4. QED BY <3>1, <3>2, <4>2, <4>3, SMTT(30) DEF RetryInv, StreakInv, RetryBound
    <3>5. CASE ~(streak.uri = u /\ streak.n > 0)
      <4>0. Counted(0) = 1
        BY ConstantsAssumption, SMTT(30) DEF Counted
      <4>1. streak'.uri = u /\ streak'.n = 1
        BY <1>0, <2>2, <3>5, <4>0, SMTT(30)
      <4>2. streak'.n <= attempt' /\ (MaxRetries # 0 => streak'.n <= MaxRetries)
        BY <1>0, <2>2, <3>3, <4>1
      <4>3. QED BY <3>1, <3>2, <4>1, <4>2 DEF RetryInv, StreakInv, RetryBound
    <3>6. QED BY <3>4, <3>5
  <2>3. ASSUME connections # <<>>, connections' = Selection.list, active' = Selection.index,
               Selected = {}, attempt' = Selection.attempt, UNCHANGED <<client, streak>>
        PROVE  RetryInv'
    <3>1. ExitInv' /\ RetryBound'
      BY <2>0, <2>3, SMTT(30) DEF RetryInv, ExitInv, RetryBound
    <3>2. CASE Selection = [list |-> connections, index |-> active, attempt |-> attempt]
      BY <2>0, <2>3, <3>2, RetryKept, SMTT(30) DEF selection
    <3>3. CASE Selection.list = <<>>
      <4>1. 1..Len(connections') = {}
        BY <2>3, <3>3, SMTT(30)
      <4>2. QED BY <3>1, <4>1 DEF RetryInv, StreakInv
    <3>4. CASE Selection.list # <<>> /\ Selection.attempt = 0
      <4>1. connections'[active' + 1] \in ExitPools /\ attempt' = 0
        BY <2>3, <3>4, SMTT(30) DEF Selected
      <4>2. QED BY <3>1, <4>1 DEF RetryInv, StreakInv
    <3>5. Selection.attempt = 0 \/ Selection.list = <<>>
             \/ Selection = [list |-> connections, index |-> active, attempt |-> attempt]
      BY <2>3, SelectionCases, SMTT(30)
    <3>6. QED BY <3>2, <3>3, <3>4, <3>5
  <2>4. QED BY <1>1, <2>1, <2>2, <2>3, RotateEffect, ZenonT(40)
<1>2. CASE Client
  <2>1. CASE clientLinks \/ clientRetries \/ clientCloses
    BY <1>0, <2>1, MovesEffect, RetryKept
  <2>2. CASE clientLogsIn
    <3>1. /\ client'.uri = client.uri /\ client.phase = "linked" /\ streak'.n = 0
          /\ UNCHANGED unrecoverable
      BY <1>0, <2>2, EnterType, SMTT(30) DEF clientLogsIn, onConnected, ClientRuns, Phases, TypeOK
    <3>2. QED BY <3>1, RetryQuiet
  <2>3. CASE clientRefused
    <3>1. /\ client.phase # "none" /\ unrecoverable' = unrecoverable \cup {client.uri}
          /\ UNCHANGED <<selection, client, streak>>
      BY <2>3 DEF clientRefused, ClientRuns
    <3>2. ExitInv'
      BY <3>1 DEF RetryInv, ExitInv
    <3>3. QED BY <3>1, <3>2 DEF RetryInv, StreakInv, RetryBound, selection
  <2>4. CASE clientGetsWork
    BY <2>4, RetryKept, SMTT(30) DEF clientGetsWork
  <2>5. CASE clientFails
    <3>1. client'.uri = client.uri /\ client.phase # "none"
      BY <1>0, <2>5, EnterType DEF clientFails, onDisconnected, ClientRuns, Phases
    <3>2. QED BY <2>5, <3>1, RetryKept DEF clientFails
  <2>6. QED BY <1>2, <2>1, <2>2, <2>3, <2>4, <2>5 DEF Client
<1>3. CASE Api
  <2>1. CASE minerRestart
    BY <2>1, RetryKept DEF minerRestart
  <2>2. ASSUME NEW p \in Pools, addConnection(p) PROVE RetryInv'
    <3>1. /\ connections' = Append(connections, p)
          /\ unrecoverable' = unrecoverable \ {p}
          /\ UNCHANGED <<active, attempt, client, streak>>
          /\ p # streak.uri
      BY <2>2 DEF addConnection, InUse
    <3>2. ExitInv' /\ RetryBound'
      BY <3>1, SMTT(30) DEF RetryInv, ExitInv, RetryBound
    <3>3. StreakInv'
      <4> SUFFICES ASSUME streak.n > 0,
                          NEW i \in 1..Len(connections'), connections'[i] = streak.uri
                   PROVE  \/ connections'[active + 1] = streak.uri /\ streak.n <= attempt
                          \/ connections'[active + 1] \in ExitPools /\ attempt = 0
        BY <3>1, Zenon DEF StreakInv
      <4>1. /\ Len(connections') = Len(connections) + 1
            /\ \A j \in 1..Len(connections) : connections'[j] = connections[j]
            /\ connections'[Len(connections) + 1] = p
        <5>1. connections \in Seq(Pools) /\ p \in Pools
          BY <1>0, <2>2
        <5>2. /\ Len(Append(connections, p)) = Len(connections) + 1
              /\ \A j \in 1..Len(connections) : Append(connections, p)[j] = connections[j]
              /\ Append(connections, p)[Len(connections) + 1] = p
          BY <5>1, AppendedPool
        <5>3. QED BY <3>1, <5>2, Zenon
      <4>2. i \in 1..Len(connections) /\ connections[i] = streak.uri
        BY <1>0, <3>1, <4>1
      <4>3. connections # <<>>
        BY <4>2
      <4>4. active + 1 \in 1..Len(connections)
        BY <1>0, <4>3 DEF ListInv, ActiveInBounds
      <4>5. connections'[active + 1] = connections[active + 1]
        BY <4>1, <4>4
      <4>6. QED BY <4>2, <4>5, SMTT(30) DEF RetryInv, StreakInv
    <3>4. QED BY <3>2, <3>3, SMTT(30) DEF RetryInv
  <2>3. ASSUME NEW i \in 0..Len(connections), removeConnection(i), main = "waits"
        PROVE  RetryInv'
    <3>1. ~pending /\ UNCHANGED <<unrecoverable, client, streak>>
      BY <2>3 DEF removeConnection
    <3>2. streak.n = 0
      BY <2>3, <3>1 DEF ControlInv, MainInv, RotationInv, FailoverInv
    <3>3. QED BY <3>1, <3>2, RetryQuiet
  <2>4. ASSUME NEW i \in 0..Len(connections), setActiveConnection(i), main = "waits"
        PROVE  RetryInv'
    <3>1. ~pending /\ disconnect(failover, TRUE) /\ UNCHANGED <<unrecoverable, streak>>
      BY <2>4, Zenon DEF setActiveConnection
    <3>2. streak.n = 0
      BY <2>4, <3>1 DEF ControlInv, MainInv, RotationInv, FailoverInv
    <3>3. QED BY <1>0, <3>1, <3>2, RetryDisconnect, RetryQuiet, Zenon
  <2>5. QED BY <1>3, <2>1, <2>2, <2>3, <2>4 DEF Api
<1>4. CASE Timers
  <2>1. CASE failoverFires
    BY <2>1, RetryKept DEF failoverFires
  <2>2. CASE reconnectFires
    BY <2>2, RetryKept DEF reconnectFires
  <2>3. CASE failovertimer_elapsed
    <3>1. CASE BackToPrimary
      <4>1. streak.n = 0 /\ UNCHANGED <<unrecoverable, streak>> /\ disconnect("off", pending)
        BY <2>3, <3>1 DEF failovertimer_elapsed, BackToPrimary, ControlInv, FailoverInv
      <4>2. QED BY <1>0, <4>1, RetryDisconnect, RetryQuiet, SMTT(30)
    <3>2. CASE UNCHANGED <<selection, client>>
      BY <2>3, <3>2, RetryKept DEF failovertimer_elapsed
    <3>3. QED BY <2>3, <3>1, <3>2, SMTT(30) DEF failovertimer_elapsed
  <2>4. CASE reconnecttimer_elapsed
    <3>1. client'.uri = client.uri /\ (client' = client \/ client.phase = "idle")
      BY <1>0, <2>4, SMTT(30) DEF reconnecttimer_elapsed, Reconnected, TypeOK
    <3>2. QED BY <2>4, <3>1, RetryKept DEF reconnecttimer_elapsed
  <2>5. QED BY <1>4, <2>1, <2>2, <2>3, <2>4 DEF Timers
<1>5. CASE Main
  <2>1. CASE mainWakes
    BY <2>1, RetryKept DEF mainWakes
  <2>2. CASE mainTests
    BY <2>2, RetryKept, SMTT(30) DEF mainTests
  <2>3. CASE mainDisconnects
    <3>1. disconnect(failover, pending) /\ UNCHANGED <<selection, unrecoverable, streak>>
      BY <2>3 DEF mainDisconnects
    <3>2. QED BY <1>0, <3>1, RetryDisconnect, RetryKept
  <2>4. CASE mainSpins
    <3>1. client'.phase = "none" /\ client'.uri = client.uri
      BY <1>0, <2>4 DEF mainSpins, TypeOK
    <3>2. QED BY <2>4, <3>1, RetryKept DEF mainSpins
  <2>5. QED BY <1>5, <2>1, <2>2, <2>3, <2>4 DEF Main
<1>6. CASE UNCHANGED vars
  BY <1>6, RetryKept DEF vars
<1>7. QED BY <1>1, <1>2, <1>3, <1>4, <1>5, <1>6 DEF Next

-----------------------------------------------------------------------------
(* The theorems *)

\* All layers together: the inductive invariant.
IInv == ListInv /\ ControlInv /\ ActiveInv /\ FarmInv /\ EpochInv /\ RetryInv

\* The inductive invariant holds in every state that PoolManager can reach.
THEOREM InductiveInvariant == Spec => []IInv
<1>1. Init => IInv
  BY ListInit, ControlInit, ActiveInit, FarmInit, EpochInit, RetryInit DEF IInv
<1>2. IInv /\ [Next]_vars => IInv'
  BY ListStep, ControlStep, ActiveStep, FarmStep, EpochStep, RetryStep DEF IInv
<1>3. QED BY <1>1, <1>2, PTL DEF Spec

\* The variables have the values that the code can give them.
THEOREM TypeCorrect == Spec => []TypeOK
<1>1. IInv => TypeOK
  BY DEF IInv, ListInv
<1>2. QED BY <1>1, InductiveInvariant, PTL

\* The index of the active pool never leaves the list, whatever rotateConnect erases and
\* the API removes.
THEOREM BoundsSafe == Spec => []ActiveInBounds
<1>1. IInv => ActiveInBounds
  BY DEF IInv, ListInv
<1>2. QED BY <1>1, InductiveInvariant, PTL

\* setActiveConnection and removeConnection act only while a client has a session to end.
THEOREM SwitchSafe == Spec => []SwitchHasClient
<1>1. IInv => SwitchHasClient
  BY DEF IInv, ControlInv, RotationInv, SwitchHasClient, Operating
<1>2. QED BY <1>1, InductiveInvariant, PTL

\* A session with no switch pending is with the pool the index names.
THEOREM ConnectedSafe == Spec => []ConnectedToActive
<1>1. IInv => ConnectedToActive
  BY DEF IInv, ActiveInv
<1>2. QED BY <1>1, InductiveInvariant, PTL

\* onConnected starts or resumes the miners in every state that the farm can be left in.
THEOREM MinersSafe == Spec => []MinersRunWhenConnected
<1>1. IInv => MinersRunWhenConnected
  BY DEF IInv, FarmInv
<1>2. QED BY <1>1, InductiveInvariant, PTL

\* onWorkReceived gives every job its epoch, however seeds and epochs are mixed.
THEOREM EpochSafe == Spec => []EpochOfWork
<1>1. IInv => EpochOfWork
  BY DEF IInv, EpochInv, EpochOfWork
<1>2. QED BY <1>1, InductiveInvariant, PTL

\* No pool is tried more than m_Settings.connectionMaxRetries times in a row.
THEOREM RetrySafe == Spec => []RetryBound
<1>1. IInv => RetryBound
  BY DEF IInv, RetryInv
<1>2. QED BY <1>1, InductiveInvariant, PTL

=============================================================================
