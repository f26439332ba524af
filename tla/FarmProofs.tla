----------------------------- MODULE FarmProofs -----------------------------
(***************************************************************************)
(* The safety properties of the farm, for any number of devices, any       *)
(* nonces, any width of a nonce, any readings of the sensors and any       *)
(* number of solutions and handlers, and that it is what FarmFlags says.   *)
(***************************************************************************)
EXTENDS Farm, FiniteSetTheorems, TLAPS

-----------------------------------------------------------------------------
(* Induction over the natural numbers, about a set instead of a predicate *)

\* A set of natural numbers that is not empty has a least one: < is well-founded.
LEMMA LeastNatural ==
    ASSUME NEW S \in SUBSET Nat, S # {}
    PROVE  \E m \in S : \A k \in S : m <= k
<1>1. PICK m \in S : \A k \in S : <<k, m>> \notin OpToRel(<, Nat)
  BY NatLessThanWellFounded, WFMin, Zenon
<1>2. ASSUME NEW k \in S PROVE m <= k
  <2>1. <<k, m>> \in Nat \X Nat /\ <<k, m>>[1] = k /\ <<k, m>>[2] = m
    OBVIOUS
  <2>2. ~(k < m)
    BY <1>1, <2>1 DEF OpToRel
  <2> QED BY <2>2
<1> QED BY <1>2

\* Induction: a set with 0 and with the successor of each of its numbers has every number,
\* for the least number missing would have a predecessor in it.
THEOREM SetInduction ==
    ASSUME NEW S, 0 \in S, \A n \in Nat : n \in S => n + 1 \in S
    PROVE  Nat \subseteq S
<1> SUFFICES ASSUME Nat \ S # {} PROVE FALSE
  OBVIOUS
<1>1. PICK m \in Nat \ S : \A k \in Nat \ S : m <= k
  BY LeastNatural, (Nat \ S) \in SUBSET Nat, Zenon
<1>2. m - 1 \in Nat /\ (m - 1) + 1 = m /\ ~(m <= m - 1)
  OBVIOUS
<1> QED BY <1>1, <1>2

\* There is a function that iterates step from base for ever, so that a recursive function
\* of this shape is what its equation says.
THEOREM IterationExists ==
    ASSUME NEW T, NEW base \in T, NEW step \in [T -> T]
    PROVE  \E g \in [Nat -> T] : g[0] = base /\ \A n \in Nat : g[n + 1] = step[g[n]]
<1> DEFINE Goes(h, n) == h[0] = base /\ \A i \in 0..(n - 1) : h[i + 1] = step[h[i]]
           Has == {n \in Nat : \E h \in [Nat -> T] : Goes(h, n)}
           h(n) == CHOOSE f \in [Nat -> T] : Goes(f, n)
           g == [n \in Nat |-> h(n)[n]]
<1>1. Nat \subseteq Has
  <2>1. 0 \in Has
    <3>1. [i \in Nat |-> base] \in [Nat -> T] /\ Goes([i \in Nat |-> base], 0)
      OBVIOUS
    <3> QED BY <3>1
  <2>2. ASSUME NEW n \in Nat, n \in Has PROVE n + 1 \in Has
    <3>1. PICK f \in [Nat -> T] : Goes(f, n)
      BY <2>2
    <3> DEFINE k == [i \in Nat |-> IF i <= n THEN f[i] ELSE step[f[n]]]
    <3>2. k \in [Nat -> T] /\ k[0] = base
      BY <3>1
    <3>3. ASSUME NEW i \in 0..n PROVE k[i + 1] = step[k[i]]
      BY <3>1, i < n \/ i = n
    <3> HIDE DEF k
    <3> QED BY <3>2, <3>3
  <2> HIDE DEF Has
  <2> QED BY <2>1, <2>2, SetInduction
<1>2. ASSUME NEW n \in Nat PROVE h(n) \in [Nat -> T] /\ Goes(h(n), n)
  BY <1>1
<1> HIDE DEF h
\* Two iterations agree as far as both go.
<1>3. ASSUME NEW n \in Nat PROVE h(n + 1)[n] = h(n)[n]
  <2> DEFINE Same == {i \in Nat : i <= n => h(n + 1)[i] = h(n)[i]}
  <2>1. Goes(h(n + 1), n + 1) /\ Goes(h(n), n)
    BY <1>2
  <2>2. 0 \in Same
    BY <2>1
  <2>3. ASSUME NEW i \in Nat, i \in Same PROVE i + 1 \in Same
    BY <2>1, <2>3
  <2>4. Nat \subseteq Same
    <3> HIDE DEF Same
    <3> QED BY <2>2, <2>3, SetInduction
  <2> QED BY <2>4
<1>4. g \in [Nat -> T] /\ g[0] = base
  BY <1>2
<1>5. ASSUME NEW n \in Nat PROVE g[n + 1] = step[g[n]]
  <2>1. h(n + 1)[n + 1] = step[h(n + 1)[n]]
    BY <1>2
  <2> QED BY <1>3, <2>1
<1> QED BY <1>4, <1>5

-----------------------------------------------------------------------------
(* Powers of two, and the arithmetic of segments *)

\* Pow2 is what its equation says.
LEMMA Pow2Unfolds == Pow2 = [n \in Nat |-> IF n = 0 THEN 1 ELSE 2 * Pow2[n - 1]]
<1> DEFINE F(g) == [n \in Nat |-> IF n = 0 THEN 1 ELSE 2 * g[n - 1]]
           double == [x \in Nat |-> 2 * x]
<1>1. double \in [Nat -> Nat] /\ 1 \in Nat
  OBVIOUS
<1>2. PICK g \in [Nat -> Nat] : g[0] = 1 /\ \A n \in Nat : g[n + 1] = double[g[n]]
  <2> DEFINE T == Nat  one == 1
  <2>1. one \in T /\ double \in [T -> T]
    BY <1>1
  <2> HIDE DEF double, T, one
  <2>2. \E g \in [Nat -> T] : g[0] = one /\ \A n \in Nat : g[n + 1] = double[g[n]]
    BY <2>1, IterationExists
  <2> QED BY <2>2 DEF T, one
<1>3. ASSUME NEW n \in Nat PROVE g[n] = F(g)[n]
  <2>1. CASE n = 0
    BY <2>1, <1>2
  <2>2. CASE n # 0
    <3>1. n - 1 \in Nat /\ (n - 1) + 1 = n
      BY <2>2
    <3>2. g[n] = double[g[n - 1]]
      BY <3>1, <1>2
    <3> QED BY <3>1, <3>2, <2>2
  <2> QED BY <2>1, <2>2
<1>4. g = F(g)
  BY <1>3
<1> QED BY <1>4 DEF Pow2

\* The recurrence of Pow2.
LEMMA Pow2Step == Pow2[0] = 1 /\ \A n \in Nat : Pow2[n + 1] = 2 * Pow2[n]
<1>1. Pow2[0] = 1
  BY Pow2Unfolds
<1>2. ASSUME NEW n \in Nat PROVE Pow2[n + 1] = 2 * Pow2[n]
  BY Pow2Unfolds
<1> QED BY <1>1, <1>2

\* A power of two is a natural number above its exponent.
LEMMA Pow2Exceeds == \A n \in Nat : Pow2[n] \in Nat /\ Pow2[n] > n
<1> DEFINE S == {n \in Nat : Pow2[n] \in Nat /\ Pow2[n] > n}
<1>1. 0 \in S
  BY Pow2Step
<1>2. ASSUME NEW n \in Nat, n \in S PROVE n + 1 \in S
  BY <1>2, Pow2Step
<1>3. Nat \subseteq S
  <2> HIDE DEF S
  <2> QED BY <1>1, <1>2, SetInduction
<1> QED BY <1>3

\* The power of a sum is the product of the powers.
LEMMA Pow2Sum == \A a, b \in Nat : Pow2[a + b] = Pow2[a] * Pow2[b]
<1> SUFFICES ASSUME NEW a \in Nat PROVE \A b \in Nat : Pow2[a + b] = Pow2[a] * Pow2[b]
  OBVIOUS
<1> DEFINE S == {b \in Nat : Pow2[a + b] = Pow2[a] * Pow2[b]}
<1>1. 0 \in S
  BY Pow2Step, Pow2Exceeds
<1>2. ASSUME NEW b \in Nat, b \in S PROVE b + 1 \in S
  <2>1. Pow2[a + (b + 1)] = 2 * Pow2[a + b]
    <3>1. a + (b + 1) = (a + b) + 1 /\ a + b \in Nat
      OBVIOUS
    <3> QED BY <3>1, Pow2Step
  <2>2. Pow2[a + b] = Pow2[a] * Pow2[b]
    BY <1>2
  <2>3. Pow2[b + 1] = 2 * Pow2[b]
    BY Pow2Step
  <2>4. Pow2[a] \in Nat /\ Pow2[b] \in Nat
    BY Pow2Exceeds
  <2>5. 2 * (Pow2[a] * Pow2[b]) = Pow2[a] * (2 * Pow2[b])
    BY <2>4
  <2> QED BY <2>1, <2>2, <2>3, <2>5
<1>3. Nat \subseteq S
  <2> HIDE DEF S
  <2> QED BY <1>1, <1>2, SetInduction
<1> QED BY <1>3

\* ceil(log2(n)) bits tell n miners apart (Farm.cpp 153).
LEMMA EnoughBits ==
    ASSUME NEW n \in Nat
    PROVE  CeilLog2(n) \in Nat /\ Pow2[CeilLog2(n)] >= n
<1> DEFINE S == {k \in 0..n : Pow2[k] >= n}
<1>1. n \in S /\ S \in SUBSET Nat
  BY Pow2Exceeds
<1>2. PICK m \in S : \A k \in S : m <= k
  <2> HIDE DEF S
  <2> QED BY <1>1, LeastNatural
<1>3. ASSUME NEW j \in 0..(m - 1) PROVE Pow2[j] < n
  <2>1. j \in 0..n /\ j < m /\ Pow2[j] \in Nat
    BY Pow2Exceeds
  <2> QED BY <1>2, <2>1
<1>4. \E k \in 0..n : Pow2[k] >= n /\ \A j \in 0..(k - 1) : Pow2[j] < n
  BY <1>2, <1>3
<1> QED BY <1>4 DEF CeilLog2

\* The remainder is the number, less a multiple of the modulus.
LEMMA Remainder ==
    ASSUME NEW M \in Nat \ {0}, NEW x \in Int
    PROVE  x % M \in 0..(M - 1) /\ \E k \in Int : x % M = x - k * M
<1>1. x % M \in 0..(M - 1)
  OBVIOUS
<1>2. x = (x \div M) * M + (x % M) /\ x \div M \in Int
  OBVIOUS
<1>3. x % M = x - (x \div M) * M
  BY <1>1, <1>2
<1> QED BY <1>1, <1>2, <1>3

\* A remainder is a natural number.
LEMMA RemainderTyped == ASSUME NEW M \in Nat \ {0}, NEW x \in Int PROVE x % M \in Nat
OBVIOUS

\* Adding multiples of the modulus changes no remainder.
LEMMA AddMultiple ==
    ASSUME NEW M \in Nat \ {0}, NEW k \in Int, NEW r \in 0..(M - 1)
    PROVE  (r + k * M) % M = r /\ (r + k * M) \div M = k
OBVIOUS

\* A number below the modulus is its own remainder.
LEMMA SmallRemainder == ASSUME NEW M \in Nat \ {0}, NEW r \in 0..(M - 1) PROVE r % M = r
OBVIOUS

\* The remainder of a multiple of P modulo a multiple of P is a multiple of P.
LEMMA MultipleRemainder ==
    ASSUME NEW v \in Nat, NEW P \in Nat \ {0}, NEW D \in Nat \ {0}
    PROVE  (v * P) % (P * D) < P * D /\ ((v * P) % (P * D)) % P = 0
<1> DEFINE x == (v * P) % (P * D)
<1>1. P * D \in Nat \ {0} /\ v * P \in Int
  OBVIOUS
<1>2. x \in 0..(P * D - 1) /\ \E k \in Int : x = v * P - k * (P * D)
  BY <1>1, Remainder, Zenon
<1>3. PICK k \in Int : x = v * P - k * (P * D)
  BY <1>2
<1>4. x = 0 + (v - k * D) * P
  BY <1>3
<1>5. (0 + (v - k * D) * P) % P = 0
  <2>1. v - k * D \in Int /\ 0 \in 0..(P - 1)
    OBVIOUS
  <2> QED BY <2>1, AddMultiple, Zenon
<1> HIDE DEF x
<1>6. x < P * D /\ x % P = 0
  BY <1>1, <1>2, <1>4, <1>5
<1> QED BY <1>6 DEF x

\* A factor of a product below a multiple is below the multiplier.
LEMMA SmallFactor ==
    ASSUME NEW c \in Nat, NEW P \in Nat \ {0}, NEW D \in Nat \ {0}, c * P < P * D
    PROVE  c < D
<1> SUFFICES ASSUME c >= D PROVE FALSE
  OBVIOUS
<1>1. c * P >= D * P
  OBVIOUS
<1> QED BY <1>1

\* So many whole segments of B nonces lie between one of them and all but one.
LEMMA SegmentCount ==
    ASSUME NEW B \in Nat \ {0}, NEW Q \in Nat \ {0}, NEW d \in 1..(Q - 1)
    PROVE  d * B >= B /\ d * B <= (Q - 1) * B /\ (Q - 1) * B = Q * B - B
OBVIOUS

\* The start nonces of two of the Q segments of B nonces that divide M nonces are at least
\* a segment apart, counted modulo M.
LEMMA SegmentsApart ==
    ASSUME NEW M \in Nat \ {0}, NEW B \in Nat \ {0}, NEW Q \in Nat \ {0}, M = Q * B,
           NEW base \in Nat, NEW i \in Nat, NEW j \in Nat, i # j, i - j < Q, j - i < Q
    PROVE  (((base + (i - 1) * B) % M) - ((base + (j - 1) * B) % M)) % M \in B..(M - 1)
<1> DEFINE x == base + (i - 1) * B
           y == base + (j - 1) * B
<1>1. x \in Int /\ y \in Int /\ x - y = (i - j) * B
  OBVIOUS
<1> HIDE DEF x, y
<1>2. PICK p \in Int : x % M = x - p * M
  BY <1>1, Remainder, Zenon
<1>3. PICK q \in Int : y % M = y - q * M
  BY <1>1, Remainder
<1>4. (x % M) - (y % M) = (i - j) * B + (q - p) * M
  <2>1. (q - p) * M = q * M - p * M /\ q * M \in Int /\ p * M \in Int
    OBVIOUS
  <2>2. (x - p * M) - (y - q * M) = (x - y) + (q * M - p * M)
    BY <1>1, <2>1
  <2> QED BY <1>1, <1>2, <1>3, <2>1, <2>2
<1>5. CASE i > j
  <2> DEFINE r == (i - j) * B
  <2>1. i - j \in 1..(Q - 1)
    BY <1>5
  <2>2. r \in B..(M - B) /\ r \in 0..(M - 1)
    BY <2>1, SegmentCount
  <2>3. (r + (q - p) * M) % M = r
    <3>1. q - p \in Int
      OBVIOUS
    <3> HIDE DEF r
    <3> QED BY <2>2, <3>1, AddMultiple, Zenon
  <2> QED BY <1>4, <2>2, <2>3 DEF x, y
<1>6. CASE i < j
  <2> DEFINE r == (Q - (j - i)) * B
  <2>1. Q - (j - i) \in 1..(Q - 1)
    BY <1>6
  <2>2. r \in B..(M - B) /\ r \in 0..(M - 1)
    BY <2>1, SegmentCount
  <2>3. (i - j) * B + (q - p) * M = r + (q - p - 1) * M
    OBVIOUS
  <2>4. (r + (q - p - 1) * M) % M = r
    <3>1. q - p - 1 \in Int
      OBVIOUS
    <3> HIDE DEF r
    <3> QED BY <2>2, <3>1, AddMultiple, Zenon
  <2> QED BY <1>4, <2>2, <2>3, <2>4 DEF x, y
<1> QED BY <1>5, <1>6

\* The j-th segment of an aligned range of P nonces, and the end of the segment, have the
\* digits of the range in front.
LEMMA SegmentsInRange ==
    ASSUME NEW P \in Nat \ {0}, NEW B \in Nat \ {0}, NEW Q \in Nat \ {0}, P = Q * B,
           NEW c \in Nat, NEW D \in Nat \ {0}, c < D, NEW j \in 1..Q
    PROVE  /\ ((c * P + (j - 1) * B) % (D * P)) \div P = c
           /\ (((c * P + (j - 1) * B) % (D * P)) + B - 1) \div P = c
<1> DEFINE o == (j - 1) * B
           M == D * P
<1>1. o \in 0..(P - B)
  <2>1. j - 1 \in 0..(Q - 1)
    OBVIOUS
  <2>2. o >= 0 /\ o <= (Q - 1) * B
    BY <2>1
  <2>3. (Q - 1) * B = P - B
    OBVIOUS
  <2> QED BY <2>2, <2>3
<1> HIDE DEF o
<1>2. c * P + P <= M /\ c * P >= 0 /\ M \in Nat \ {0}
  <2>1. (c + 1) * P <= D * P
    OBVIOUS
  <2> QED BY <2>1
<1> HIDE DEF M
<1>3. c * P + o \in 0..(M - 1)
  BY <1>1, <1>2
<1>4. (c * P + o) % M = c * P + o
  <2>1. ((c * P + o) + 0 * M) % M = c * P + o
    BY <1>2, <1>3, AddMultiple
  <2> QED BY <2>1, <1>2, <1>3
<1>5. o \in 0..(P - 1) /\ o + B - 1 \in 0..(P - 1)
  BY <1>1
<1>6. (o + c * P) \div P = c /\ ((o + B - 1) + c * P) \div P = c
  BY <1>5, AddMultiple
<1>7. o + c * P = c * P + o /\ (o + B - 1) + c * P = (c * P + o) + B - 1
  BY <1>1
<1> QED BY <1>4, <1>6, <1>7 DEF o, M

-----------------------------------------------------------------------------
(* The invariant *)

Reasons == {"farm", "api", "hot"}
Works == [start : Nat, bits : Int, reserved : Nat]
MinerStates == [work : Works, pauses : SUBSET Reasons, initialized : BOOLEAN, hung : BOOLEAN,
                gpu : {"waits", "builds", "runs", "hangs"}]
Accounts == [solutions : Nat, tempC : Nat]

\* A miner and an account for each device while the farm mines, and none otherwise.
MinersOK ==
    /\ devices \in Counts /\ mining \in BOOLEAN
    /\ miners \in Seq(MinerStates) /\ accounts \in Seq(Accounts)
    /\ (mining => Len(miners) = devices) /\ (~mining => Len(miners) = 0)
    /\ Len(accounts) = Len(miners)

CountersOK ==
    /\ total \in Nat /\ found \in Nat /\ dropped \in Nat
    /\ posts \in Seq(Nat) /\ sent \in Seq(Nat)
    /\ nonce \in Nonces

\* The work that a job with this first nonce and these reserved digits gives to miner i.
Segment(base, reserved, i) ==
    [start |-> (base + (i - 1) * One(SegmentBits(reserved))) % Pow2[WordBits],
     bits |-> SegmentBits(reserved), reserved |-> reserved]

\* The first nonce of a job begins with the reserved digits, and has zeros after them.
Aligned(base, reserved) ==
    0 < reserved /\ 4 * reserved <= WordBits =>
        base < Pow2[WordBits] /\ base % Pow2[WordBits - 4 * reserved] = 0

\* The miners that work have segments of one job: a miner that a later job found paused has
\* no work at all.
OneJob ==
    \E base, reserved \in Nat :
        /\ Aligned(base, reserved)
        /\ \A i \in Working : miners[i].work = Segment(base, reserved, i)

IInv == MinersOK /\ CountersOK /\ OneJob /\ SolutionsAccountedOnce /\ TemperatureControl

-----------------------------------------------------------------------------
(* Segments of one job are disjoint *)

\* A nonce has some bits, and no more than a uint16_t counts.
LEMMA WidthOfNonce == WordBits \in Nat /\ WordBits > 0 /\ WordBits < 65536
BY FarmAssumption

\* The widths of the reserved digits, the miner's number and the segment add up.
LEMMA Widths ==
    ASSUME NEW r \in Nat, Len(miners) \in Nat, 4 * r + CeilLog2(Len(miners)) <= WordBits
    PROVE  LET L == CeilLog2(Len(miners))
               b == SegmentBits(r)
           IN  /\ L \in Nat /\ b \in Nat
               /\ b = WordBits - L - 4 * r
               /\ (L > 0 \/ r > 0) => One(b) = Pow2[b]
<1>1. CeilLog2(Len(miners)) \in Nat
  BY EnoughBits
<1>2. WordBits - CeilLog2(Len(miners)) - 4 * r \in Nat /\ WordBits - CeilLog2(Len(miners)) - 4 * r < 65536
  BY <1>1, WidthOfNonce
<1>3. SegmentBits(r) = WordBits - CeilLog2(Len(miners)) - 4 * r
  BY <1>2 DEF SegmentBits
<1>4. ASSUME CeilLog2(Len(miners)) > 0 \/ r > 0
      PROVE  SegmentBits(r) % WordBits = SegmentBits(r)
  <2>1. SegmentBits(r) \in 0..(WordBits - 1)
    BY <1>1, <1>2, <1>3, <1>4, WidthOfNonce
  <2> QED BY <2>1, WidthOfNonce, SmallRemainder
<1> QED BY <1>1, <1>2, <1>3, <1>4 DEF One

\* Farm::setWork: where the segments fit, a miner's first nonce is in no other's segment.
LEMMA JobDisjoint ==
    ASSUME NEW r \in Nat, NEW base \in Nat, Len(miners) \in Nat,
           4 * r + CeilLog2(Len(miners)) <= WordBits,
           NEW i \in Idx, NEW j \in Idx, i # j
    PROVE  ~ ((Segment(base, r, i).start - Segment(base, r, j).start) % Pow2[WordBits]
                < One(SegmentBits(r)))
<1> DEFINE L == CeilLog2(Len(miners))
           b == SegmentBits(r)
<1>1. L \in Nat /\ b \in Nat /\ b = WordBits - L - 4 * r
  BY Widths
<1>2. Pow2[L] \in Nat /\ Pow2[L] >= Len(miners)
  BY EnoughBits, Pow2Exceeds, <1>1
<1>3. L > 0
  <2>1. Len(miners) > 1
    BY DEF Idx
  <2>2. ASSUME L = 0 PROVE FALSE
    <3>1. Pow2[L] = 1
      BY <2>2, Pow2Step
    <3> QED BY <3>1, <1>2, <2>1
  <2> QED BY <1>1, <2>2
<1>4. One(b) = Pow2[b]
  BY <1>3, Widths
<1> HIDE DEF L, b
<1> DEFINE Q == Pow2[L + 4 * r]
<1>5. L + 4 * r \in Nat /\ (L + 4 * r) + b = WordBits
  BY <1>1, WidthOfNonce
<1>6. Q \in Nat \ {0} /\ Pow2[b] \in Nat \ {0} /\ Pow2[WordBits] \in Nat \ {0}
  BY <1>1, <1>5, WidthOfNonce, Pow2Exceeds
<1>7. Pow2[WordBits] = Q * Pow2[b]
  BY <1>1, <1>5, Pow2Sum, Zenon
<1>8. i - j < Q /\ j - i < Q
  <2> DEFINE f == 4 * r
  <2>1. f \in Nat
    OBVIOUS
  <2> HIDE DEF f
  <2>a. Pow2[L + f] = Pow2[L] * Pow2[f] /\ Pow2[f] \in Nat \ {0}
    <3>1. Pow2[L + f] = Pow2[L] * Pow2[f]
      BY <1>1, <2>1, Pow2Sum, Zenon
    <3>2. Pow2[f] \in Nat /\ Pow2[f] > f
      BY <2>1, Pow2Exceeds
    <3> QED BY <2>1, <3>1, <3>2
  <2>b. Pow2[L + f] >= Pow2[L]
    BY <2>a, <1>2
  <2>2. Q >= Pow2[L]
    BY <2>b DEF f
  <2> HIDE DEF Q
  <2> QED BY <2>2, <1>2, <1>6 DEF Idx
<1>9. i \in Nat /\ j \in Nat
  BY DEF Idx
<1> HIDE DEF Q
<1>10. (((base + (i - 1) * Pow2[b]) % Pow2[WordBits]) - ((base + (j - 1) * Pow2[b]) % Pow2[WordBits]))
          % Pow2[WordBits] \in Pow2[b]..(Pow2[WordBits] - 1)
  BY <1>6, <1>7, <1>8, <1>9, SegmentsApart, Zenon
<1>11. Segment(base, r, i).start = (base + (i - 1) * Pow2[b]) % Pow2[WordBits]
       /\ Segment(base, r, j).start = (base + (j - 1) * Pow2[b]) % Pow2[WordBits]
  BY <1>4 DEF Segment, b
<1> QED BY <1>4, <1>6, <1>10, <1>11 DEF b

\* Farm::setWork: where the segments fit, they lie in the range of the reserved digits.
LEMMA JobInRange ==
    ASSUME NEW r \in Nat, r > 0, NEW base \in Nat, Aligned(base, r), Len(miners) \in Nat,
           4 * r + CeilLog2(Len(miners)) <= WordBits, NEW i \in Idx
    PROVE  LET s == Segment(base, r, i).start
               P == Pow2[WordBits - 4 * r]
           IN  s \div P = base \div P /\ (s + One(SegmentBits(r)) - 1) \div P = base \div P
<1> DEFINE L == CeilLog2(Len(miners))
           b == SegmentBits(r)
           P == Pow2[WordBits - 4 * r]
           Q == Pow2[L]
           D == Pow2[4 * r]
           c == base \div P
<1>1. L \in Nat /\ b \in Nat /\ b = WordBits - L - 4 * r /\ One(b) = Pow2[b]
  BY Widths
<1>2. Q >= Len(miners)
  BY EnoughBits
<1> HIDE DEF L, b
<1>3. WordBits - 4 * r \in Nat /\ WordBits - 4 * r = L + b /\ (WordBits - 4 * r) + 4 * r = WordBits
      /\ 4 * r \in Nat /\ WordBits \in Nat
  BY <1>1, WidthOfNonce
<1>4. P \in Nat \ {0} /\ Q \in Nat \ {0} /\ D \in Nat \ {0} /\ Pow2[b] \in Nat \ {0}
  BY <1>1, <1>3, Pow2Exceeds
<1>5. P = Q * Pow2[b] /\ Pow2[WordBits] = P * D
  <2>1. Pow2[L + b] = Pow2[L] * Pow2[b]
    BY <1>1, Pow2Sum
  <2>2. Pow2[(WordBits - 4 * r) + 4 * r] = Pow2[WordBits - 4 * r] * Pow2[4 * r]
    BY <1>3, Pow2Sum, Zenon
  <2> QED BY <1>3, <2>1, <2>2
<1>6. base < Pow2[WordBits] /\ base % P = 0
  BY <1>3 DEF Aligned
<1> HIDE DEF P, Q, D
<1>7. base = c * P /\ c \in Nat
  BY <1>4, <1>6
<1> HIDE DEF c
<1>8. c < D /\ Pow2[WordBits] = D * P
  <2>1. c * P < P * D
    BY <1>5, <1>6, <1>7
  <2>2. c < D
    BY <1>4, <1>7, <2>1, SmallFactor
  <2> QED BY <1>4, <1>5, <2>2
<1>9. i \in 1..Q
  BY <1>2, <1>4 DEF Idx
<1>10. /\ ((c * P + (i - 1) * Pow2[b]) % (D * P)) \div P = c
       /\ (((c * P + (i - 1) * Pow2[b]) % (D * P)) + Pow2[b] - 1) \div P = c
  <2> DEFINE B == Pow2[b]
  <2>1. P \in Nat \ {0} /\ B \in Nat \ {0} /\ Q \in Nat \ {0} /\ P = Q * B
    BY <1>4, <1>5
  <2>2. c \in Nat /\ D \in Nat \ {0} /\ c < D /\ i \in 1..Q
    BY <1>4, <1>7, <1>8, <1>9
  <2> HIDE DEF B
  <2>3. /\ ((c * P + (i - 1) * B) % (D * P)) \div P = c
        /\ (((c * P + (i - 1) * B) % (D * P)) + B - 1) \div P = c
    BY <2>1, <2>2, SegmentsInRange
  <2> QED BY <2>3 DEF B
<1>11. Segment(base, r, i).start = (c * P + (i - 1) * Pow2[b]) % (D * P)
  BY <1>1, <1>7, <1>8 DEF Segment, b
<1> QED BY <1>1, <1>10, <1>11 DEF b, c, P

-----------------------------------------------------------------------------
(* What a step does to the miners and their accounts *)

\* No miner gets work, and the temperature pauses stay.
Kept ==
    /\ miners' \in Seq(MinerStates) /\ Len(miners') = Len(miners)
    /\ \A i \in Idx : /\ miners'[i].work \in {miners[i].work, NoWork}
                      /\ "hot" \in miners'[i].pauses <=> "hot" \in miners[i].pauses

SameReadings ==
    /\ accounts' \in Seq(Accounts) /\ Len(accounts') = Len(accounts)
    /\ \A i \in DOMAIN accounts : accounts'[i].tempC = accounts[i].tempC

\* The miners are processed with new readings.
Measured ==
    \E t \in [Idx -> Temps] :
        /\ miners' = [i \in Idx |-> Controlled(miners[i], t[i])]
        /\ accounts' = [i \in Idx |-> [accounts[i] EXCEPT !.tempC = t[i]]]

Moves ==
    /\ UNCHANGED devices
    /\ \/ start
       \/ stop
       \/ Kept /\ SameReadings /\ UNCHANGED mining
       \/ Measured /\ UNCHANGED mining
       \/ /\ \E extra \in ExtraNonces, r \in Randoms : setWork(extra, r)
          /\ UNCHANGED <<mining, accounts>>

\* A table over the numbers up to n is a sequence of length n.
LEMMA TableIsSeq ==
    ASSUME NEW n \in Nat, NEW S, NEW f \in [1..n -> S]
    PROVE  f \in Seq(S) /\ Len(f) = n
OBVIOUS

\* A new value for each miner that keeps its temperature pause and gives it no work.
LEMMA TableKept ==
    ASSUME MinersOK, NEW f, miners' = [i \in Idx |-> f[i]],
           \A i \in Idx : /\ f[i] \in MinerStates
                          /\ f[i].work \in {miners[i].work, NoWork}
                          /\ "hot" \in f[i].pauses <=> "hot" \in miners[i].pauses
    PROVE  Kept
<1>1. miners' \in [1..Len(miners) -> MinerStates] /\ Len(miners) \in Nat
  BY DEF Idx, MinersOK
<1>2. miners' \in Seq(MinerStates) /\ Len(miners') = Len(miners)
  BY <1>1, TableIsSeq
<1> QED BY <1>2 DEF Kept

\* The same for one miner.
LEMMA OneKept ==
    ASSUME MinersOK, NEW i \in Idx, NEW m \in MinerStates, Sets(i, m),
           m.work \in {miners[i].work, NoWork},
           "hot" \in m.pauses <=> "hot" \in miners[i].pauses
    PROVE  Kept
BY DEF MinersOK, Sets, Kept, Idx

\* Nothing happens to the miners.
LEMMA AllKept == ASSUME MinersOK, UNCHANGED miners PROVE Kept
BY DEF MinersOK, Kept, Idx

\* Nothing happens to the accounts.
LEMMA ReadingsKept == ASSUME MinersOK, UNCHANGED accounts PROVE SameReadings
BY DEF MinersOK, SameReadings

\* Miner::pause and Miner::resume keep the types, and the pauses for other reasons.
LEMMA PausedTyped ==
    ASSUME NEW m \in MinerStates, NEW why \in Reasons
    PROVE  /\ Paused(m, why) \in MinerStates /\ Resumed(m, why) \in MinerStates
           /\ Paused(m, why).work = NoWork /\ Resumed(m, why).work = m.work
           /\ Paused(m, why).pauses = m.pauses \cup {why}
           /\ Resumed(m, why).pauses = m.pauses \ {why}
<1>1. NoWork \in Works
  BY DEF NoWork, Works
<1> QED BY <1>1 DEF Paused, Resumed, MinerStates

\* The miner n has the work and the pauses of m.
SameOrders(m, n) == n \in MinerStates /\ n.work = m.work /\ n.pauses = m.pauses

\* The loops of the miners and the watchdog touch neither work nor pauses.
LEMMA UpdatesTyped ==
    ASSUME NEW m \in MinerStates
    PROVE  /\ SameOrders(m, [m EXCEPT !.gpu = "waits", !.hung = FALSE])
           /\ SameOrders(m, [m EXCEPT !.gpu = "builds", !.initialized = FALSE])
           /\ SameOrders(m, [m EXCEPT !.gpu = "runs", !.initialized = TRUE])
           /\ SameOrders(m, [m EXCEPT !.gpu = "hangs"])
           /\ SameOrders(m, [m EXCEPT !.gpu = "runs", !.hung = FALSE])
           /\ SameOrders(m, [m EXCEPT !.hung = TRUE])
BY DEF MinerStates, SameOrders

\* Farm::pause and Farm::resume (Farm.cpp 251-274).
LEMMA PauseKeeps == ASSUME MinersOK, pause \/ resume PROVE Kept
<1> DEFINE f == [i \in Idx |-> Paused(miners[i], "farm")]
           g == [i \in Idx |-> Resumed(miners[i], "farm")]
<1>1. ASSUME NEW i \in Idx
      PROVE  /\ miners[i] \in MinerStates /\ "farm" \in Reasons /\ "farm" # "hot"
             /\ f[i] = Paused(miners[i], "farm") /\ g[i] = Resumed(miners[i], "farm")
  BY DEF MinersOK, Idx, Reasons
<1>2. ASSUME NEW i \in Idx
      PROVE  /\ f[i] \in MinerStates /\ f[i].work \in {miners[i].work, NoWork}
             /\ "hot" \in f[i].pauses <=> "hot" \in miners[i].pauses
             /\ g[i] \in MinerStates /\ g[i].work \in {miners[i].work, NoWork}
             /\ "hot" \in g[i].pauses <=> "hot" \in miners[i].pauses
  BY <1>1, PausedTyped
<1>3. miners' = f \/ miners' = g
  BY DEF pause, resume
<1>4. CASE miners' = f
  <2>1. miners' = [i \in Idx |-> f[i]]
    BY <1>4
  <2> HIDE DEF f
  <2> QED BY <1>2, <2>1, TableKept
<1>5. CASE miners' = g
  <2>1. miners' = [i \in Idx |-> g[i]]
    BY <1>5
  <2> HIDE DEF g
  <2> QED BY <1>2, <2>1, TableKept
<1> QED BY <1>3, <1>4, <1>5

\* miner_pausegpu (ApiServer.cpp 480-497).
LEMMA PauseGpuKeeps == ASSUME MinersOK, PauseGpu PROVE Kept
<1>1. PICK i \in Idx \cap ApiMiners : \E m \in {Paused(miners[i], "api"), Resumed(miners[i], "api")} : Sets(i, m)
  BY DEF PauseGpu, Sets
<1>2. miners[i] \in MinerStates /\ "api" \in Reasons /\ "api" # "hot"
  BY DEF MinersOK, Idx, Reasons
<1>3. ASSUME NEW m \in {Paused(miners[i], "api"), Resumed(miners[i], "api")}
      PROVE  /\ m \in MinerStates /\ m.work \in {miners[i].work, NoWork}
             /\ "hot" \in m.pauses <=> "hot" \in miners[i].pauses
  BY <1>2, PausedTyped
<1> QED BY <1>1, <1>3, OneKept

\* The loop of a miner (CLMiner.cpp 279-350).
LEMMA MinerStepKeeps == ASSUME MinersOK, MinerStep PROVE Kept
<1>1. PICK i \in Idx \cap Movers : Waits(i) \/ Builds(i) \/ Built(i) \/ Hangs(i) \/ Passes(i)
  BY DEF MinerStep
<1>2. miners[i] \in MinerStates
  BY DEF MinersOK, Idx
<1>3. \E m : SameOrders(miners[i], m) /\ Sets(i, m)
  BY <1>1, <1>2, UpdatesTyped, Zenon DEF Waits, Builds, Built, Hangs, Passes
<1> QED BY <1>3, OneKept DEF SameOrders

\* The watchdog marks miners (Farm.cpp 378-388).
LEMMA MarkedKeeps == ASSUME MinersOK, NEW last, miners' = Marked(last) PROVE Kept
<1> DEFINE f == Marked(last)
<1>1. ASSUME NEW i \in Idx
      PROVE  f[i] = miners[i] \/ f[i] = [miners[i] EXCEPT !.hung = TRUE]
  BY DEF Marked
<1>2. ASSUME NEW i \in Idx
      PROVE  f[i] \in MinerStates /\ f[i].work = miners[i].work /\ f[i].pauses = miners[i].pauses
  <2>1. miners[i] \in MinerStates
    BY DEF MinersOK, Idx
  <2>2. SameOrders(miners[i], [miners[i] EXCEPT !.hung = TRUE])
    BY <2>1, UpdatesTyped, Zenon
  <2> QED BY <1>1, <2>1, <2>2 DEF SameOrders
<1>3. miners' = [i \in Idx |-> f[i]]
  BY DEF Marked
<1> HIDE DEF f
<1> QED BY <1>2, <1>3, TableKept

\* Farm::accountSolution touches no reading (Farm.cpp 306-324).
LEMMA AccountingKeeps ==
    ASSUME MinersOK, NEW midx, accountSolution(midx)
    PROVE  SameReadings
<1>1. CASE midx \in DOMAIN accounts
  <2>1. accounts[midx] \in Accounts /\ DOMAIN accounts = 1..Len(accounts)
    BY <1>1 DEF MinersOK
  <2>2. [accounts[midx] EXCEPT !.solutions = @ + 1] \in Accounts
        /\ [accounts[midx] EXCEPT !.solutions = @ + 1].tempC = accounts[midx].tempC
    BY <2>1 DEF Accounts
  <2>3. accounts' = [accounts EXCEPT ![midx] = [accounts[midx] EXCEPT !.solutions = @ + 1]]
    BY <1>1 DEF accountSolution
  <2> QED BY <1>1, <2>1, <2>2, <2>3 DEF MinersOK, SameReadings
<1>2. CASE midx \notin DOMAIN accounts
  BY <1>2, ReadingsKept DEF accountSolution
<1> QED BY <1>1, <1>2

\* Every step of the farm is one of the moves.
LEMMA NextMoves == ASSUME MinersOK, Next PROVE Moves
<1> USE DEF Moves
<1>1. CASE Posted
  <2>1. UNCHANGED devices
    BY <1>1 DEF Posted
  <2>2. CASE Head(posts) = Restart
    BY <1>1, <2>1, <2>2 DEF Posted
  <2>3. CASE Head(posts) # Restart
    <3>1. UNCHANGED <<mining, miners>> /\ submitProofAsync(Head(posts))
      BY <1>1, <2>3 DEF Posted
    <3>2. SameReadings
      BY <3>1, AccountingKeeps, ReadingsKept DEF submitProofAsync
    <3> QED BY <2>1, <3>1, <3>2, AllKept
  <2> QED BY <2>2, <2>3
<1>2. CASE Answered
  <2>1. UNCHANGED <<mining, miners, devices>> /\ accountSolution(Head(sent))
    BY <1>2 DEF Answered, lifecycle
  <2> QED BY <2>1, AccountingKeeps, AllKept
<1>3. CASE onConnected
  <2>1. UNCHANGED devices /\ (start \/ ((resume \/ UNCHANGED miners) /\ UNCHANGED <<mining, accounts>>))
    BY <1>3 DEF onConnected
  <2> QED BY <2>1, PauseKeeps, AllKept, ReadingsKept
<1>4. CASE onDisconnected
  <2>1. UNCHANGED devices /\ (stop \/ (pause /\ UNCHANGED <<mining, accounts>>))
    BY <1>4 DEF onDisconnected
  <2> QED BY <2>1, PauseKeeps, ReadingsKept
<1>5. CASE onWorkReceived
  BY <1>5 DEF onWorkReceived, lifecycle
<1>6. CASE restart_async \/ set_nonce \/ MainEnds
  <2>1. UNCHANGED <<devices, mining, miners, accounts>>
    BY <1>6 DEF restart_async, set_nonce, MainEnds, lifecycle
  <2> QED BY <2>1, AllKept, ReadingsKept
<1>7. CASE PauseGpu
  <2>1. UNCHANGED <<devices, mining, accounts>>
    BY <1>7 DEF PauseGpu, lifecycle
  <2> QED BY <1>7, <2>1, PauseGpuKeeps, ReadingsKept
<1>8. CASE Hung \/ NotHung
  <2>1. UNCHANGED <<devices, mining, accounts>> /\ \E last : miners' = Marked(last)
    BY <1>8 DEF Hung, NotHung, lifecycle
  <2> QED BY <2>1, MarkedKeeps, ReadingsKept
<1>9. CASE Collect
  <2>1. UNCHANGED <<devices, mining>> /\ (UNCHANGED <<miners, accounts>> \/ Measured)
    BY <1>9 DEF Collect, lifecycle, Measured
  <2> QED BY <2>1, AllKept, ReadingsKept
<1>10. CASE MinerStep
  <2>1. UNCHANGED <<devices, mining, accounts>>
    BY <1>10 DEF MinerStep, lifecycle
  <2> QED BY <1>10, <2>1, MinerStepKeeps, ReadingsKept
<1>11. CASE Exhausted \/ MainStops
  <2>1. UNCHANGED devices /\ (stop \/ UNCHANGED <<mining, miners, accounts>>)
    BY <1>11 DEF Exhausted, MainStops
  <2> QED BY <2>1, AllKept, ReadingsKept
<1> QED BY <1>1, <1>2, <1>3, <1>4, <1>5, <1>6, <1>7, <1>8, <1>9, <1>10, <1>11 DEF Next

-----------------------------------------------------------------------------
(* The moves keep the miners in order *)

\* setWork gives each miner its segment of one job, or no work (Farm.cpp 146-170).
LEMMA SetWorkHolds ==
    ASSUME MinersOK, CountersOK, NEW extra \in ExtraNonces, NEW random \in Randoms,
           setWork(extra, random)
    PROVE  /\ miners' \in Seq(MinerStates) /\ Len(miners') = Len(miners)
           /\ \A i \in Idx : miners'[i].pauses = miners[i].pauses
           /\ OneJob'
<1> DEFINE own == nonce.digits > 0
           reserved == IF own THEN nonce.digits ELSE extra.digits
           base == IF own THEN (nonce.value * One(WordBits - 4 * nonce.digits)) % Pow2[WordBits]
                   ELSE IF extra.digits > 0 THEN extra.value ELSE random
           given == [i \in Idx |-> IF miners[i].pauses = {} THEN Segment(base, reserved, i) ELSE NoWork]
<1>1. miners' = [i \in Idx |-> [miners[i] EXCEPT !.work = given[i]]]
  BY DEF setWork, Segment
<1>2. /\ nonce.digits \in Nat /\ nonce.value \in Nat /\ extra.digits \in Nat /\ extra.value \in Nat
      /\ random \in Nat
  BY FarmAssumption DEF CountersOK
<1>3. Pow2[WordBits] \in Nat \ {0} /\ WordBits \in Nat \ {0}
  BY WidthOfNonce, Pow2Exceeds
<1>4. ASSUME NEW x \in Int PROVE One(x) \in Nat \ {0}
  <2>1. x % WordBits \in Nat
    BY <1>3, Remainder
  <2> QED BY <2>1, Pow2Exceeds DEF One
<1>5. reserved \in Nat
  BY <1>2
<1>6. nonce.value * One(WordBits - 4 * nonce.digits) \in Nat
  <2>1. WordBits - 4 * nonce.digits \in Int
    BY <1>2, <1>3
  <2> QED BY <1>2, <1>4, <2>1
<1>7. base \in Nat
  <2>1. (nonce.value * One(WordBits - 4 * nonce.digits)) % Pow2[WordBits] \in Nat
    BY <1>3, <1>6, RemainderTyped
  <2> QED BY <1>2, <2>1
<1>8. Aligned(base, reserved)
  <2> SUFFICES ASSUME 0 < reserved, 4 * reserved <= WordBits
               PROVE  base < Pow2[WordBits] /\ base % Pow2[WordBits - 4 * reserved] = 0
    BY DEF Aligned
  <2>1. CASE ~own
    <3>1. base = extra.value /\ reserved = extra.digits /\ 0 < extra.digits
      BY <2>1
    <3> QED BY <3>1, FarmAssumption
  <2>2. CASE own
    <3> DEFINE P == Pow2[WordBits - 4 * reserved]
               D == Pow2[4 * reserved]
    <3>1. reserved = nonce.digits /\ base = (nonce.value * One(WordBits - 4 * reserved)) % Pow2[WordBits]
      BY <2>2
    <3> HIDE DEF reserved, base
    <3>2. WordBits - 4 * reserved \in Nat /\ WordBits - 4 * reserved \in 0..(WordBits - 1)
      BY <1>3, <1>5
    <3>3. (WordBits - 4 * reserved) % WordBits = WordBits - 4 * reserved
      BY <1>3, <3>2, SmallRemainder
    <3>4. One(WordBits - 4 * reserved) = P
      BY <3>3 DEF One
    <3>5. P \in Nat \ {0} /\ D \in Nat \ {0}
      BY <1>5, <3>2, Pow2Exceeds
    <3>6. Pow2[WordBits] = P * D
      <4>1. (WordBits - 4 * reserved) + 4 * reserved = WordBits /\ 4 * reserved \in Nat
        BY <1>3, <1>5
      <4>2. Pow2[(WordBits - 4 * reserved) + 4 * reserved] = P * D
        BY <3>2, <4>1, Pow2Sum, Zenon
      <4> QED BY <4>1, <4>2
    <3> HIDE DEF P, D
    <3>7. base = (nonce.value * P) % (P * D)
      BY <3>1, <3>4, <3>6
    <3>8. base < P * D /\ base % P = 0
      BY <1>2, <3>5, <3>7, MultipleRemainder
    <3> QED BY <3>6, <3>8 DEF P
  <2> QED BY <2>1, <2>2
<1> HIDE DEF base, reserved
<1>9. ASSUME NEW i \in Idx PROVE given[i] \in Works /\ given[i] \in {Segment(base, reserved, i), NoWork}
  <2>1. NoWork \in Works
    BY DEF NoWork, Works
  <2>2. SegmentBits(reserved) \in Int
    <3>1. Len(miners) \in Nat
      BY DEF MinersOK
    <3>2. CeilLog2(Len(miners)) \in Nat
      BY <3>1, EnoughBits
    <3> QED BY <1>3, <1>5, <3>2 DEF SegmentBits
  <2>3. i \in Nat /\ i >= 1
    BY DEF Idx
  <2>4. base + (i - 1) * One(SegmentBits(reserved)) \in Int
    BY <1>4, <1>7, <2>2, <2>3
  <2>5. Segment(base, reserved, i).start \in Nat
    BY <1>3, <2>4, RemainderTyped DEF Segment
  <2>6. Segment(base, reserved, i) \in Works
    BY <1>5, <2>2, <2>5 DEF Segment, Works
  <2> QED BY <2>1, <2>6
<1> HIDE DEF given
<1>10. ASSUME NEW i \in Idx
       PROVE  /\ [miners[i] EXCEPT !.work = given[i]] \in MinerStates
              /\ [miners[i] EXCEPT !.work = given[i]].work = given[i]
              /\ [miners[i] EXCEPT !.work = given[i]].pauses = miners[i].pauses
  <2>1. miners[i] \in MinerStates
    BY DEF MinersOK, Idx
  <2> QED BY <1>9, <2>1 DEF MinerStates
<1>11. miners' \in Seq(MinerStates) /\ Len(miners') = Len(miners)
  <2>1. miners' \in [1..Len(miners) -> MinerStates] /\ Len(miners) \in Nat
    BY <1>1, <1>10 DEF Idx, MinersOK
  <2> QED BY <2>1, TableIsSeq
<1>12. ASSUME NEW i \in Idx PROVE miners'[i].work = given[i] /\ miners'[i].pauses = miners[i].pauses
  BY <1>1, <1>10
<1>13. OneJob'
  <2>1. PICK b, r \in Nat : b = base /\ r = reserved
    BY <1>5, <1>7
  <2>2. Idx' = Idx /\ \A i \in Idx : Segment(b, r, i)' = Segment(b, r, i)
    BY <1>11 DEF Idx, Segment, SegmentBits
  <2>3. \A i \in Working' : miners'[i].work = Segment(b, r, i)'
    BY <1>9, <1>12, <2>1, <2>2 DEF Working
  <2>4. Aligned(b, r)
    BY <1>8, <2>1
  <2> QED BY <2>3, <2>4 DEF OneJob, Aligned
<1> QED BY <1>11, <1>12, <1>13

\* Farm::start (Farm.cpp 175-226): a miner without work or pauses and an empty account for
\* each device.
LEMMA StartHolds ==
    ASSUME MinersOK, UNCHANGED devices, start
    PROVE  MinersOK' /\ OneJob' /\ TemperatureControl'
<1>1. devices \in Nat \ {0}
  BY FarmAssumption DEF MinersOK
<1>2. NewMiner \in MinerStates /\ NewMiner.work = NoWork /\ NewMiner.pauses = {}
  BY DEF NewMiner, NoWork, MinerStates, Works
<1>3. NewAccount \in Accounts /\ NewAccount.tempC = 0
  BY DEF NewAccount, Accounts
<1>4. miners' = [i \in 1..devices |-> NewMiner] /\ accounts' = [i \in 1..devices |-> NewAccount]
  BY DEF start
<1>5. miners' \in Seq(MinerStates) /\ Len(miners') = devices
  <2>1. miners' \in [1..devices -> MinerStates]
    BY <1>2, <1>4
  <2> QED BY <1>1, <2>1, TableIsSeq
<1>6. accounts' \in Seq(Accounts) /\ Len(accounts') = devices
  <2>1. accounts' \in [1..devices -> Accounts]
    BY <1>3, <1>4
  <2> QED BY <1>1, <2>1, TableIsSeq
<1>7. MinersOK'
  <2>1. mining' = TRUE /\ devices' \in Counts /\ devices' = devices
    BY DEF start, MinersOK
  <2> QED BY <1>5, <1>6, <2>1 DEF MinersOK
<1>8. ASSUME NEW i \in Idx' PROVE miners'[i] = NewMiner /\ accounts'[i] = NewAccount
  BY <1>4, <1>5 DEF Idx
<1>9. OneJob'
  <2>1. Working' = {}
    BY <1>2, <1>8 DEF Working
  <2>2. Aligned(0, 0) /\ 0 \in Nat
    BY DEF Aligned
  <2> QED BY <2>1, <2>2 DEF OneJob, Aligned
<1>10. TemperatureControl'
  <2>1. 0 <= TempStart /\ ~(0 >= TempStop)
    BY FarmAssumption
  <2> QED BY <1>2, <1>3, <1>8, <2>1 DEF TemperatureControl
<1> QED BY <1>7, <1>9, <1>10

\* Farm::stop (Farm.cpp 231-246).
LEMMA StopHolds ==
    ASSUME MinersOK, UNCHANGED devices, stop
    PROVE  MinersOK' /\ OneJob' /\ TemperatureControl'
<1>1. mining' = FALSE /\ miners' = <<>> /\ accounts' = <<>> /\ devices' \in Counts
  BY DEF stop, MinersOK
<1>2. MinersOK'
  <2>1. miners' \in Seq(MinerStates) /\ accounts' \in Seq(Accounts)
    BY <1>1
  <2>2. Len(miners') = 0 /\ Len(accounts') = 0
    BY <1>1
  <2>3. mining' \in BOOLEAN /\ ~mining'
    BY <1>1
  <2> QED BY <1>1, <2>1, <2>2, <2>3 DEF MinersOK
<1>3. Idx' = {}
  BY <1>1 DEF Idx
<1>4. OneJob'
  <2>1. Working' = {}
    BY <1>3 DEF Working
  <2>2. Aligned(0, 0) /\ 0 \in Nat
    BY DEF Aligned
  <2> QED BY <2>1, <2>2 DEF OneJob, Aligned
<1> QED BY <1>2, <1>3, <1>4 DEF TemperatureControl

\* Steps that give no work and take no reading.
LEMMA KeptHolds ==
    ASSUME MinersOK, OneJob, TemperatureControl,
           Kept, SameReadings, UNCHANGED <<mining, devices>>
    PROVE  MinersOK' /\ OneJob' /\ TemperatureControl'
<1>1. MinersOK'
  BY DEF MinersOK, Kept, SameReadings
<1>2. Idx' = Idx
  BY DEF Kept, Idx
<1>3. OneJob'
  <2>1. PICK b, r \in Nat : Aligned(b, r) /\ \A i \in Working : miners[i].work = Segment(b, r, i)
    BY DEF OneJob
  <2>2. \A i \in Idx : Segment(b, r, i)' = Segment(b, r, i)
    BY DEF Kept, Segment, SegmentBits
  <2>3. ASSUME NEW i \in Working' PROVE miners'[i].work = Segment(b, r, i)'
    <3>1. i \in Idx /\ miners'[i].work # NoWork
      BY <1>2 DEF Working
    <3>2. miners'[i].work = miners[i].work
      BY <3>1 DEF Kept
    <3> QED BY <2>1, <2>2, <3>1, <3>2 DEF Working
  <2> QED BY <2>1, <2>3 DEF OneJob, Aligned
<1>4. TemperatureControl'
  <2> SUFFICES ASSUME NEW i \in (Idx \cap DOMAIN accounts)'
               PROVE  /\ accounts'[i].tempC >= TempStop => "hot" \in miners'[i].pauses
                      /\ accounts'[i].tempC <= TempStart => "hot" \notin miners'[i].pauses
    BY DEF TemperatureControl
  <2>1. i \in Idx /\ i \in DOMAIN accounts
    BY <1>2 DEF MinersOK, SameReadings
  <2>2. accounts'[i].tempC = accounts[i].tempC
    BY <2>1 DEF SameReadings
  <2>3. "hot" \in miners'[i].pauses <=> "hot" \in miners[i].pauses
    BY <2>1 DEF Kept
  <2> QED BY <2>1, <2>2, <2>3 DEF TemperatureControl
<1> QED BY <1>1, <1>3, <1>4

\* Readings and limits are natural numbers, and the limits are apart.
LEMMA TempsTyped == Temps \subseteq Nat /\ TempStart \in Nat /\ TempStop \in Nat /\ TempStart < TempStop
BY FarmAssumption

\* The temperature control of collectData (Farm.cpp 476-484).
LEMMA ControlledHolds ==
    ASSUME NEW m \in MinerStates, NEW t \in Temps
    PROVE  /\ Controlled(m, t) \in MinerStates
           /\ Controlled(m, t).work \in {m.work, NoWork}
           /\ t >= TempStop => "hot" \in Controlled(m, t).pauses
           /\ t <= TempStart => "hot" \notin Controlled(m, t).pauses
<1>1. t \in Nat /\ TempStart \in Nat /\ TempStop \in Nat /\ TempStart < TempStop
  BY TempsTyped
<1>2. "hot" \in Reasons
  BY DEF Reasons
<1>3. CASE "hot" \notin m.pauses /\ t >= TempStop
  BY <1>1, <1>2, <1>3, PausedTyped DEF Controlled
<1>4. CASE "hot" \in m.pauses /\ t <= TempStart
  BY <1>1, <1>2, <1>4, PausedTyped DEF Controlled
<1>5. CASE ~("hot" \notin m.pauses /\ t >= TempStop) /\ ~("hot" \in m.pauses /\ t <= TempStart)
  <2>1. Controlled(m, t) = m
    BY <1>5 DEF Controlled
  <2> QED BY <1>5, <2>1
<1> QED BY <1>3, <1>4, <1>5

\* collectData, when it goes through (Farm.cpp 390-498).
LEMMA MeasuredHolds ==
    ASSUME MinersOK, OneJob, Measured, UNCHANGED <<mining, devices>>
    PROVE  MinersOK' /\ OneJob' /\ TemperatureControl'
<1>1. PICK t \in [Idx -> Temps] :
         /\ miners' = [i \in Idx |-> Controlled(miners[i], t[i])]
         /\ accounts' = [i \in Idx |-> [accounts[i] EXCEPT !.tempC = t[i]]]
  BY Zenon DEF Measured
<1>2. ASSUME NEW i \in Idx
      PROVE  /\ miners[i] \in MinerStates /\ accounts[i] \in Accounts /\ t[i] \in Temps /\ t[i] \in Nat
  <2>1. t[i] \in Temps /\ t[i] \in Nat
    BY TempsTyped
  <2>2. miners[i] \in MinerStates
    BY DEF MinersOK, Idx
  <2>3. accounts[i] \in Accounts
    BY DEF MinersOK, Idx
  <2> QED BY <2>1, <2>2, <2>3
<1>3. ASSUME NEW i \in Idx
      PROVE  /\ [accounts[i] EXCEPT !.tempC = t[i]] \in Accounts
             /\ [accounts[i] EXCEPT !.tempC = t[i]].tempC = t[i]
  BY <1>2 DEF Accounts
<1>4. Idx = 1..Len(miners) /\ Len(miners) \in Nat
  BY DEF Idx, MinersOK
<1>5. miners' \in Seq(MinerStates) /\ Len(miners') = Len(miners)
  <2>1. miners' \in [1..Len(miners) -> MinerStates]
    BY <1>1, <1>2, <1>4, ControlledHolds
  <2> QED BY <1>4, <2>1, TableIsSeq
<1>6. accounts' \in Seq(Accounts) /\ Len(accounts') = Len(miners)
  <2>1. accounts' \in [1..Len(miners) -> Accounts]
    BY <1>1, <1>3, <1>4
  <2> QED BY <1>4, <2>1, TableIsSeq
<1>7. MinersOK'
  BY <1>5, <1>6 DEF MinersOK
<1>8. Idx' = Idx
  BY <1>5 DEF Idx
<1>9. OneJob'
  <2>1. PICK b, r \in Nat : Aligned(b, r) /\ \A i \in Working : miners[i].work = Segment(b, r, i)
    BY DEF OneJob
  <2>2. \A i \in Idx : Segment(b, r, i)' = Segment(b, r, i)
    BY <1>5 DEF Segment, SegmentBits
  <2>3. ASSUME NEW i \in Working' PROVE miners'[i].work = Segment(b, r, i)'
    <3>1. i \in Idx /\ miners'[i].work # NoWork
      BY <1>8 DEF Working
    <3>2. miners'[i].work = miners[i].work
      BY <1>1, <1>2, <3>1, ControlledHolds
    <3> QED BY <2>1, <2>2, <3>1, <3>2 DEF Working
  <2> QED BY <2>1, <2>3 DEF OneJob, Aligned
<1>10. TemperatureControl'
  <2> SUFFICES ASSUME NEW i \in Idx
               PROVE  /\ accounts'[i].tempC >= TempStop => "hot" \in miners'[i].pauses
                      /\ accounts'[i].tempC <= TempStart => "hot" \notin miners'[i].pauses
    BY <1>8 DEF TemperatureControl
  <2>1. accounts'[i].tempC = t[i] /\ miners'[i] = Controlled(miners[i], t[i])
    BY <1>1, <1>3, Zenon
  <2> QED BY <1>2, <2>1, ControlledHolds
<1> QED BY <1>7, <1>9, <1>10

\* Every move keeps the miners in order.
LEMMA MovesHold ==
    ASSUME MinersOK, CountersOK, OneJob, TemperatureControl, Moves
    PROVE  MinersOK' /\ OneJob' /\ TemperatureControl'
<1>1. CASE start
  BY <1>1, StartHolds DEF Moves
<1>2. CASE stop
  BY <1>2, StopHolds DEF Moves
<1>3. CASE Kept /\ SameReadings /\ UNCHANGED mining
  BY <1>3, KeptHolds DEF Moves
<1>4. CASE Measured /\ UNCHANGED mining
  BY <1>4, MeasuredHolds DEF Moves
<1>5. ASSUME NEW extra \in ExtraNonces, NEW r \in Randoms, setWork(extra, r), UNCHANGED <<mining, accounts>>
      PROVE  MinersOK' /\ OneJob' /\ TemperatureControl'
  <2>1. /\ miners' \in Seq(MinerStates) /\ Len(miners') = Len(miners)
        /\ \A i \in Idx : miners'[i].pauses = miners[i].pauses
        /\ OneJob'
    BY <1>5, SetWorkHolds
  <2>2. MinersOK'
    BY <1>5, <2>1 DEF MinersOK, Moves
  <2>3. Idx' = Idx
    BY <2>1 DEF Idx
  <2> QED BY <1>5, <2>1, <2>2, <2>3 DEF TemperatureControl
<1> QED BY <1>1, <1>2, <1>3, <1>4, <1>5 DEF Moves

-----------------------------------------------------------------------------
(* Solutions *)

\* The posted solutions.
Posts(s) == {p \in 1..Len(s) : s[p] # Restart}

\* Their number is a natural number.
LEMMA PostsFinite ==
    ASSUME NEW s \in Seq(Nat)
    PROVE  IsFiniteSet(Posts(s)) /\ Cardinality(Posts(s)) \in Nat
<1>1. IsFiniteSet(1..Len(s))
  BY FS_Interval, Len(s) \in Nat
<1>2. Posts(s) \in SUBSET (1..Len(s))
  BY DEF Posts
<1>3. IsFiniteSet(Posts(s))
  BY <1>1, <1>2, FS_Subset
<1> QED BY <1>3, FS_CardinalityType

\* A post at the end of the queue: Miner's submitProof, or a restart (Farm.cpp 279-289, 349-352).
LEMMA PostsAppend ==
    ASSUME NEW s \in Seq(Nat), NEW x \in Nat
    PROVE  Cardinality(Posts(Append(s, x))) = Cardinality(Posts(s)) + (IF x = Restart THEN 0 ELSE 1)
<1> DEFINE n == Len(s) + 1
<1>1. CASE x = Restart
  <2>1. Posts(Append(s, x)) = Posts(s)
    BY <1>1 DEF Posts
  <2> QED BY <1>1, <2>1, PostsFinite
<1>2. CASE x # Restart
  <2>1. Posts(Append(s, x)) = Posts(s) \cup {n} /\ n \notin Posts(s)
    BY <1>2 DEF Posts
  <2>2. Cardinality(Posts(s) \cup {n}) = Cardinality(Posts(s)) + 1
    BY <2>1, PostsFinite, FS_AddElement, Zenon
  <2> QED BY <1>2, <2>1, <2>2
<1> QED BY <1>1, <1>2

\* The first post is taken from the queue: the others move up.
LEMMA PostsTail ==
    ASSUME NEW s \in Seq(Nat), s # <<>>
    PROVE  Cardinality(Posts(s)) = Cardinality(Posts(Tail(s))) + (IF Head(s) = Restart THEN 0 ELSE 1)
<1> DEFINE A == Posts(s) \ {1}
           B == Posts(Tail(s))
           down == [p \in A |-> p - 1]
<1>1. Tail(s) \in Seq(Nat) /\ Len(Tail(s)) = Len(s) - 1 /\ Head(s) = s[1] /\ Len(s) >= 1
      /\ \A p \in 1..(Len(s) - 1) : Tail(s)[p] = s[p + 1]
  OBVIOUS
<1>2. IsFiniteSet(A) /\ Cardinality(A) = IF 1 \in Posts(s) THEN Cardinality(Posts(s)) - 1 ELSE Cardinality(Posts(s))
  BY PostsFinite, FS_RemoveElement
<1>3. 1 \in Posts(s) <=> Head(s) # Restart
  BY <1>1 DEF Posts
<1>4. IsFiniteSet(B) /\ Cardinality(B) \in Nat
  BY <1>1, PostsFinite
<1>5. down \in [A -> B]
  BY <1>1 DEF Posts
<1>6. ASSUME NEW p \in A, NEW q \in A, down[p] = down[q] PROVE p = q
  BY <1>6 DEF Posts
<1>7. ASSUME NEW q \in B PROVE \E p \in A : down[p] = q
  <2>1. q + 1 \in A /\ (q + 1) - 1 = q
    BY <1>1 DEF Posts
  <2> QED BY <2>1
<1>8. down \in Bijection(A, B)
  <2> HIDE DEF A, B, down
  <2> QED BY <1>5, <1>6, <1>7 DEF Bijection, Injection, Surjection, IsInjective
<1> HIDE DEF A, B, down
<1>9. Cardinality(A) = Cardinality(B)
  <2>1. ExistsBijection(A, B)
    BY <1>8 DEF ExistsBijection
  <2> QED BY <1>2, <2>1, FS_Bijection
<1>10. Cardinality(Posts(s)) \in Nat
  BY PostsFinite
<1> QED BY <1>2, <1>3, <1>4, <1>9, <1>10 DEF B

\* What a step does to the solutions: the counters, the queues and the accounts.
Sum == found = total + dropped + Len(sent) + Cardinality(Posts(posts))
InAccounts == \A i \in DOMAIN accounts : accounts[i].solutions <= total

\* The property is the sum and the bound of the accounts.
LEMMA AccountedOnce == SolutionsAccountedOnce <=> Sum /\ InAccounts
BY DEF SolutionsAccountedOnce, Sum, InAccounts, Posts

\* The accounts are typed.
LEMMA AccountTyped ==
    ASSUME MinersOK, NEW i \in DOMAIN accounts
    PROVE  accounts[i] \in Accounts /\ accounts[i].solutions \in Nat
<1>1. accounts[i] \in Accounts
  BY DEF MinersOK
<1> QED BY <1>1 DEF Accounts

\* Farm::accountSolution (Farm.cpp 306-324): the farm's counter and one account go up.
LEMMA AccountingHolds ==
    ASSUME MinersOK, CountersOK, InAccounts, NEW midx, accountSolution(midx)
    PROVE  total' = total + 1 /\ InAccounts'
<1>1. total' = total + 1 /\ total \in Nat
  BY DEF accountSolution, CountersOK
<1>2. CASE midx \in DOMAIN accounts
  <2>1. accounts[midx] \in Accounts /\ accounts[midx].solutions \in Nat
    BY <1>2, AccountTyped
  <2>2. accounts' = [accounts EXCEPT ![midx] = [accounts[midx] EXCEPT !.solutions = @ + 1]]
    BY <1>2 DEF accountSolution
  <2>3. [accounts[midx] EXCEPT !.solutions = @ + 1].solutions = accounts[midx].solutions + 1
    BY <2>1 DEF Accounts
  <2>4. ASSUME NEW i \in DOMAIN accounts PROVE accounts'[i].solutions <= total + 1
    <3>1. accounts[i].solutions <= total /\ accounts[i].solutions \in Nat
      BY AccountTyped DEF InAccounts
    <3>2. CASE i = midx
      <4>1. accounts'[i] = [accounts[midx] EXCEPT !.solutions = @ + 1]
        BY <2>2, <3>2
      <4>2. accounts'[i].solutions = accounts[i].solutions + 1
        BY <2>3, <3>2, <4>1
      <4> QED BY <1>1, <3>1, <4>2
    <3>3. CASE i # midx
      BY <1>1, <2>2, <3>1, <3>3
    <3> QED BY <3>2, <3>3
  <2> QED BY <1>1, <2>2, <2>4 DEF InAccounts
<1>3. CASE midx \notin DOMAIN accounts
  <2>1. UNCHANGED accounts
    BY <1>3 DEF accountSolution
  <2>2. ASSUME NEW i \in DOMAIN accounts PROVE accounts[i].solutions <= total + 1
    <3>1. accounts[i].solutions <= total /\ accounts[i].solutions \in Nat
      BY AccountTyped DEF InAccounts
    <3> QED BY <1>1, <3>1
  <2> QED BY <1>1, <2>1, <2>2 DEF InAccounts
<1> QED BY <1>1, <1>2, <1>3

\* New accounts hold no solution.
LEMMA FreshAccounts ==
    ASSUME MinersOK, CountersOK, start \/ stop, UNCHANGED total
    PROVE  InAccounts'
<1>1. total' \in Nat
  BY DEF CountersOK
<1>2. \A i \in DOMAIN accounts' : accounts'[i].solutions = 0
  <2>1. CASE start
    BY <2>1 DEF start, NewAccount
  <2>2. CASE stop
    BY <2>2 DEF stop
  <2> QED BY <2>1, <2>2
<1> QED BY <1>1, <1>2 DEF InAccounts

\* The handlers posted by submitProof and restart_async (Farm.cpp 279-289, 349-370).
LEMMA PostedSolutions ==
    ASSUME MinersOK, CountersOK, Sum, InAccounts, Posted
    PROVE  CountersOK' /\ Sum' /\ InAccounts'
<1>1. posts # <<>> /\ posts' = Tail(posts) /\ UNCHANGED <<found, nonce>>
  BY DEF Posted
<1>2. /\ posts \in Seq(Nat) /\ Head(posts) \in Nat /\ posts' \in Seq(Nat)
      /\ sent \in Seq(Nat) /\ Len(sent) \in Nat
      /\ total \in Nat /\ dropped \in Nat /\ found \in Nat /\ nonce \in Nonces
  BY <1>1 DEF CountersOK
<1>3. Cardinality(Posts(posts)) = Cardinality(Posts(posts')) + (IF Head(posts) = Restart THEN 0 ELSE 1)
  BY <1>1, <1>2, PostsTail
<1>4. Cardinality(Posts(posts')) \in Nat
  BY <1>2, PostsFinite
<1>5. CASE Head(posts) = Restart
  <2>1. start /\ UNCHANGED <<total, sent, dropped>>
    BY <1>5 DEF Posted
  <2>2. InAccounts'
    BY <2>1, FreshAccounts
  <2>3. Sum'
    BY <1>1, <1>2, <1>3, <1>4, <1>5, <2>1 DEF Sum
  <2> QED BY <1>1, <1>2, <2>1, <2>2, <2>3 DEF CountersOK
<1>6. CASE Head(posts) # Restart
  <2>1. submitProofAsync(Head(posts))
    BY <1>6 DEF Posted
  <2>2. CASE accountSolution(Head(posts)) /\ UNCHANGED <<sent, dropped>>
    <3>1. total' = total + 1 /\ InAccounts'
      BY <2>2, AccountingHolds
    <3>2. Sum'
      BY <1>1, <1>2, <1>3, <1>4, <1>6, <2>2, <3>1 DEF Sum
    <3> QED BY <1>1, <1>2, <2>2, <3>1, <3>2 DEF CountersOK
  <2>3. CASE UNCHANGED <<total, accounts>> /\ sent' = Append(sent, Head(posts)) /\ UNCHANGED dropped
    <3>1. sent' \in Seq(Nat) /\ Len(sent') = Len(sent) + 1
      BY <1>2, <2>3
    <3>2. Sum'
      BY <1>1, <1>2, <1>3, <1>4, <1>6, <2>3, <3>1 DEF Sum
    <3> QED BY <1>1, <1>2, <2>3, <3>1, <3>2 DEF CountersOK, InAccounts
  <2>4. CASE UNCHANGED <<total, accounts>> /\ dropped' = dropped + 1 /\ UNCHANGED sent
    <3>1. Sum'
      BY <1>1, <1>2, <1>3, <1>4, <1>6, <2>4 DEF Sum
    <3> QED BY <1>1, <1>2, <2>4, <3>1 DEF CountersOK, InAccounts
  <2> QED BY <2>1, <2>2, <2>3, <2>4 DEF submitProofAsync
<1> QED BY <1>5, <1>6

\* onSolutionAccepted and onSolutionRejected (PoolManager.cpp 168-181).
LEMMA AnsweredSolutions ==
    ASSUME MinersOK, CountersOK, Sum, InAccounts, Answered
    PROVE  CountersOK' /\ Sum' /\ InAccounts'
<1>1. sent # <<>> /\ sent' = Tail(sent) /\ accountSolution(Head(sent)) /\ UNCHANGED <<posts, found, dropped, nonce>>
  BY DEF Answered
<1>2. /\ sent' \in Seq(Nat) /\ Len(sent') = Len(sent) - 1 /\ Len(sent) \in Nat
      /\ total \in Nat /\ dropped \in Nat /\ found \in Nat /\ posts \in Seq(Nat)
  BY <1>1 DEF CountersOK
<1>3. total' = total + 1 /\ InAccounts'
  BY <1>1, AccountingHolds
<1>4. Cardinality(Posts(posts)) \in Nat
  BY <1>2, PostsFinite
<1>5. Sum'
  BY <1>1, <1>2, <1>3, <1>4 DEF Sum
<1> QED BY <1>1, <1>2, <1>3, <1>5 DEF CountersOK

\* A disconnection gives up the solutions the pool has not answered (PoolManager.cpp 94-120).
LEMMA DisconnectedSolutions ==
    ASSUME MinersOK, CountersOK, Sum, InAccounts, onDisconnected
    PROVE  CountersOK' /\ Sum' /\ InAccounts'
<1>1. sent' = <<>> /\ dropped' = dropped + Len(sent) /\ UNCHANGED <<posts, found, total, nonce>>
  BY DEF onDisconnected
<1>2. /\ Len(sent) \in Nat /\ sent' \in Seq(Nat) /\ Len(sent') = 0
      /\ total \in Nat /\ dropped \in Nat /\ found \in Nat /\ posts \in Seq(Nat)
  BY <1>1 DEF CountersOK
<1>3. Cardinality(Posts(posts)) \in Nat
  BY <1>2, PostsFinite
<1>4. Sum'
  BY <1>1, <1>2, <1>3 DEF Sum
<1>5. InAccounts'
  <2>1. stop \/ UNCHANGED accounts
    BY DEF onDisconnected
  <2> QED BY <1>1, <2>1, FreshAccounts DEF InAccounts
<1> QED BY <1>1, <1>2, <1>4, <1>5 DEF CountersOK

\* A miner posts a solution (CLMiner.cpp 318-350), or restart_async a restart.
LEMMA PostingSolutions ==
    ASSUME MinersOK, CountersOK, Sum, InAccounts, MinerStep \/ restart_async
    PROVE  CountersOK' /\ Sum' /\ InAccounts'
<1>1. UNCHANGED <<accounts, total, sent, dropped, nonce>>
  BY DEF MinerStep, restart_async
<1>2. \/ UNCHANGED <<posts, found>>
      \/ posts' = Append(posts, Restart) /\ UNCHANGED found
      \/ \E i \in Idx : posts' = Append(posts, i) /\ found' = found + 1
  BY Zenon DEF MinerStep, restart_async, Waits, Builds, Built, Hangs, Passes
<1>3. /\ Len(sent) \in Nat /\ posts \in Seq(Nat)
      /\ total \in Nat /\ dropped \in Nat /\ found \in Nat
  BY DEF CountersOK
<1>4. Cardinality(Posts(posts)) \in Nat
  BY <1>3, PostsFinite
<1>5. CASE UNCHANGED <<posts, found>>
  BY <1>1, <1>5 DEF CountersOK, Sum, InAccounts
<1>6. CASE posts' = Append(posts, Restart) /\ UNCHANGED found
  <2>1. Restart \in Nat /\ posts' \in Seq(Nat)
    BY <1>3, <1>6 DEF Restart
  <2>2. Cardinality(Posts(posts')) = Cardinality(Posts(posts))
    BY <1>3, <1>4, <1>6, <2>1, PostsAppend
  <2> QED BY <1>1, <1>6, <2>1, <2>2 DEF CountersOK, Sum, InAccounts
<1>7. ASSUME NEW i \in Idx, posts' = Append(posts, i), found' = found + 1
      PROVE  CountersOK' /\ Sum' /\ InAccounts'
  <2>1. i \in Nat /\ i # Restart
    BY DEF Idx, Restart
  <2>2. Cardinality(Posts(posts')) = Cardinality(Posts(posts)) + 1
    BY <1>3, <1>7, <2>1, PostsAppend
  <2>3. posts' \in Seq(Nat)
    BY <1>3, <1>7, <2>1
  <2>4. Sum'
    BY <1>1, <1>3, <1>4, <1>7, <2>2 DEF Sum
  <2> QED BY <1>1, <1>3, <1>7, <2>3, <2>4 DEF CountersOK, InAccounts
<1> QED BY <1>2, <1>5, <1>6, <1>7

\* collectData changes readings, not solutions (Farm.cpp 390-498).
LEMMA CollectSolutions ==
    ASSUME MinersOK, CountersOK, Sum, InAccounts, Collect
    PROVE  CountersOK' /\ Sum' /\ InAccounts'
<1>1. UNCHANGED <<total, sent, dropped, posts, found, nonce>>
  BY DEF Collect, outside
<1>2. UNCHANGED accounts \/ \E t : accounts' = [i \in Idx |-> [accounts[i] EXCEPT !.tempC = t[i]]]
  BY DEF Collect
<1>3. ASSUME NEW t, accounts' = [i \in Idx |-> [accounts[i] EXCEPT !.tempC = t[i]]]
      PROVE  InAccounts'
  <2>1. ASSUME NEW i \in Idx PROVE accounts'[i].solutions = accounts[i].solutions /\ i \in DOMAIN accounts
    <3>1. accounts[i] \in Accounts /\ i \in DOMAIN accounts
      BY DEF MinersOK, Idx
    <3> QED BY <1>3, <3>1 DEF Accounts
  <2> QED BY <1>1, <1>3, <2>1 DEF InAccounts
<1> QED BY <1>1, <1>2, <1>3 DEF CountersOK, Sum, InAccounts

\* Every step keeps the sum of the solutions and the bound of the accounts.
LEMMA NextSolutions ==
    ASSUME MinersOK, CountersOK, Sum, InAccounts, Next
    PROVE  CountersOK' /\ Sum' /\ InAccounts'
<1>1. CASE onConnected
  <2>1. UNCHANGED <<total, sent, dropped, posts, found, nonce>> /\ (start \/ UNCHANGED accounts)
    BY <1>1 DEF onConnected
  <2> QED BY <2>1, FreshAccounts DEF CountersOK, Sum, InAccounts
<1>2. CASE Exhausted \/ MainStops
  <2>1. UNCHANGED <<total, sent, dropped, posts, found, nonce>> /\ (stop \/ UNCHANGED accounts)
    BY <1>2 DEF Exhausted, MainStops
  <2> QED BY <2>1, FreshAccounts DEF CountersOK, Sum, InAccounts
<1>3. CASE onWorkReceived \/ PauseGpu \/ Hung \/ NotHung \/ MainEnds
  <2>1. UNCHANGED <<total, sent, dropped, posts, found, nonce, accounts>>
    BY <1>3 DEF onWorkReceived, PauseGpu, Hung, NotHung, MainEnds, outside
  <2> QED BY <2>1 DEF CountersOK, Sum, InAccounts
<1>4. CASE set_nonce
  <2>1. UNCHANGED <<total, sent, dropped, posts, found, accounts>> /\ nonce' \in Nonces
    BY <1>4 DEF set_nonce, outside
  <2> QED BY <2>1 DEF CountersOK, Sum, InAccounts
<1> QED BY <1>1, <1>2, <1>3, <1>4, PostedSolutions, AnsweredSolutions, DisconnectedSolutions,
           PostingSolutions, CollectSolutions DEF Next

-----------------------------------------------------------------------------
(* Theorems *)

\* The farm begins without miners and solutions (Farm::Farm).
LEMMA InitHolds == Init => IInv
<1> SUFFICES ASSUME Init PROVE IInv
  OBVIOUS
<1>1. MinersOK
  <2>1. miners \in Seq(MinerStates) /\ accounts \in Seq(Accounts) /\ Len(miners) = 0 /\ Len(accounts) = 0
    BY DEF Init
  <2>2. mining \in BOOLEAN /\ ~mining /\ devices \in Counts
    BY DEF Init
  <2> QED BY <2>1, <2>2 DEF MinersOK
<1>2. CountersOK
  BY DEF Init, CountersOK
<1>3. Idx = {}
  BY DEF Init, Idx
<1>4. OneJob
  <2>1. Working = {}
    BY <1>3 DEF Working
  <2>2. Aligned(0, 0) /\ 0 \in Nat
    BY DEF Aligned
  <2> QED BY <2>1, <2>2 DEF OneJob
<1>5. SolutionsAccountedOnce
  <2>1. Posts(posts) = {}
    BY DEF Init, Posts
  <2>2. Cardinality(Posts(posts)) = 0
    BY <2>1, FS_EmptySet
  <2>3. Sum /\ InAccounts
    BY <2>2 DEF Init, Sum, InAccounts
  <2> QED BY <2>3, AccountedOnce
<1>6. TemperatureControl
  BY <1>3 DEF TemperatureControl
<1> QED BY <1>1, <1>2, <1>4, <1>5, <1>6 DEF IInv

\* Every step of the farm keeps the invariant.
LEMMA NextHolds == IInv /\ [Next]_vars => IInv'
<1> SUFFICES ASSUME IInv, [Next]_vars PROVE IInv'
  OBVIOUS
<1>1. CASE Next
  <2>1. MinersOK' /\ OneJob' /\ TemperatureControl'
    BY <1>1, NextMoves, MovesHold DEF IInv
  <2>2. CountersOK' /\ Sum' /\ InAccounts'
    BY <1>1, NextSolutions, AccountedOnce DEF IInv
  <2>3. SolutionsAccountedOnce'
    BY <2>2 DEF SolutionsAccountedOnce, Sum, InAccounts, Posts
  <2> QED BY <2>1, <2>2, <2>3 DEF IInv
<1>2. CASE UNCHANGED vars
  <2> USE <1>2 DEF vars, lifecycle, watch, outside
  <2>1. MinersOK' /\ CountersOK'
    BY DEF IInv, MinersOK, CountersOK
  <2>2. SolutionsAccountedOnce' /\ TemperatureControl'
    BY DEF IInv, SolutionsAccountedOnce, TemperatureControl, Idx
  <2>3. OneJob'
    BY DEF IInv, OneJob, Working, Idx, Segment, SegmentBits
  <2> QED BY <2>1, <2>2, <2>3 DEF IInv
<1> QED BY <1>1, <1>2

\* The invariant holds of every behaviour of the farm.
THEOREM FarmInvariant == Spec => []IInv
BY InitHolds, NextHolds, PTL DEF Spec

\* Farm::submitProof, submitProofAsync, accountSolution and the pool's answers: every solution
\* is in one place, however many there are and whatever the pool and the API do.
THEOREM SolutionsCounted == Spec => []SolutionsAccountedOnce
<1>1. IInv => SolutionsAccountedOnce
  BY DEF IInv
<1> QED BY <1>1, FarmInvariant, PTL

\* Farm::collectData: temperature control survives every other pause, restart and resume.
THEOREM TemperatureControlled == Spec => []TemperatureControl
<1>1. IInv => TemperatureControl
  BY Zenon DEF IInv
<1> QED BY <1>1, FarmInvariant, PTL

\* The segments of one job are disjoint and in the range that is reserved.
LEMMA OneJobDisjoint == ASSUME MinersOK, OneJob PROVE SegmentsDisjoint
<1>1. PICK b, r \in Nat : Aligned(b, r) /\ \A i \in Working : miners[i].work = Segment(b, r, i)
  BY DEF OneJob
<1> SUFFICES ASSUME NEW i \in Working, Fits(miners[i].work)
             PROVE  /\ \A j \in Working \ {i} : ~In(miners[i].work.start, j)
                    /\ miners[i].work.reserved > 0 =>
                         \A j \in Working :
                            Prefix(miners[j].work.start + One(miners[j].work.bits) - 1, miners[j].work)
                                = Prefix(miners[i].work.start, miners[i].work)
  BY DEF SegmentsDisjoint
<1>2. ASSUME NEW j \in Working
      PROVE  /\ miners[j].work.start = Segment(b, r, j).start
             /\ miners[j].work.bits = SegmentBits(r) /\ miners[j].work.reserved = r
             /\ j \in Idx
  <2>1. miners[j].work = Segment(b, r, j)
    BY <1>1
  <2>2. Segment(b, r, j).bits = SegmentBits(r) /\ Segment(b, r, j).reserved = r
    BY DEF Segment
  <2> QED BY <2>1, <2>2 DEF Working
<1>3. Len(miners) \in Nat /\ 4 * r + CeilLog2(Len(miners)) <= WordBits
  BY <1>2 DEF MinersOK, Fits
<1>4. ASSUME NEW j \in Working \ {i} PROVE ~In(miners[i].work.start, j)
  BY <1>2, <1>3, JobDisjoint DEF In
<1>5. ASSUME NEW j \in Working, r > 0
      PROVE  Prefix(miners[j].work.start + One(miners[j].work.bits) - 1, miners[j].work)
                = Prefix(miners[i].work.start, miners[i].work)
  <2> DEFINE P == Pow2[WordBits - 4 * r]
  <2>1. (Segment(b, r, j).start + One(SegmentBits(r)) - 1) \div P = b \div P
    BY <1>1, <1>2, <1>3, <1>5, JobInRange
  <2>2. Segment(b, r, i).start \div P = b \div P
    BY <1>1, <1>2, <1>3, <1>5, JobInRange
  <2> HIDE DEF P
  <2>3. /\ Prefix(miners[j].work.start + One(miners[j].work.bits) - 1, miners[j].work)
             = (Segment(b, r, j).start + One(SegmentBits(r)) - 1) \div P
        /\ Prefix(miners[i].work.start, miners[i].work) = Segment(b, r, i).start \div P
    BY <1>2 DEF Prefix, P
  <2> QED BY <2>1, <2>2, <2>3
<1> QED BY <1>2, <1>4, <1>5

\* Farm::setWork: no two miners that work search the same nonce, and none leaves the reserved
\* range, for any number of miners, any reserved digits and any sequence of jobs, pauses and
\* restarts.
THEOREM SegmentsStayDisjoint == Spec => []SegmentsDisjoint
<1>1. IInv => SegmentsDisjoint
  BY OneJobDisjoint DEF IInv
<1> QED BY <1>1, FarmInvariant, PTL

-----------------------------------------------------------------------------
(* The farm is what FarmFlags says *)

\* The farm has miners, and pause() reached all of them.
AllPaused == miners # <<>> /\ \A i \in Idx : "farm" \in miners[i].pauses

\* What FarmFlags sees of the farm.
flags == [mining |-> mining, paused |-> paused, minersPaused |-> AllPaused]

\* Each change of the flags that a step makes is a step of FarmFlags.
FlagsMove ==
    \/ UNCHANGED <<mining, paused>> /\ (AllPaused' <=> AllPaused)
    \/ mining' = TRUE /\ UNCHANGED paused /\ ~AllPaused'
    \/ mining' = FALSE /\ UNCHANGED paused /\ ~AllPaused'
    \/ UNCHANGED mining /\ paused' = TRUE /\ (AllPaused' <=> mining)
    \/ UNCHANGED mining /\ paused' = FALSE /\ ~AllPaused'

\* The fields of the flags.
LEMMA FlagsFields ==
    /\ DOMAIN flags = {"mining", "paused", "minersPaused"} /\ flags = [z \in DOMAIN flags |-> flags[z]]
    /\ flags["mining"] = mining /\ flags["paused"] = paused
BY DEF flags

\* Assigning two of the three flags.
LEMMA FlagsExcept ==
    ASSUME NEW x, NEW y
    PROVE  /\ [flags EXCEPT !.mining = x, !.minersPaused = y]
                = [mining |-> x, paused |-> paused, minersPaused |-> y]
           /\ [flags EXCEPT !.paused = x, !.minersPaused = y]
                = [mining |-> mining, paused |-> x, minersPaused |-> y]
<1> DEFINE g == [flags EXCEPT !.mining = x, !.minersPaused = y]
           h == [flags EXCEPT !.paused = x, !.minersPaused = y]
<1>1. DOMAIN g = {"mining", "paused", "minersPaused"} /\ g = [z \in DOMAIN g |-> g[z]]
      /\ g["mining"] = x /\ g["paused"] = paused /\ g["minersPaused"] = y
  BY FlagsFields, Zenon
<1>2. DOMAIN h = {"mining", "paused", "minersPaused"} /\ h = [z \in DOMAIN h |-> h[z]]
      /\ h["mining"] = mining /\ h["paused"] = x /\ h["minersPaused"] = y
  BY FlagsFields
<1> HIDE DEF g, h
<1>3. g = [mining |-> x, paused |-> paused, minersPaused |-> y]
  BY <1>1
<1>4. h = [mining |-> mining, paused |-> x, minersPaused |-> y]
  BY <1>2
<1> QED BY <1>3, <1>4 DEF g, h

\* A move of the flags is a step of FarmFlags, or a stutter.
LEMMA FlagsMoveRefines ==
    ASSUME mining \in BOOLEAN, FlagsMove
    PROVE  [FarmView!Next]_flags
<1>1. AllPaused \in BOOLEAN /\ AllPaused' \in BOOLEAN
  BY Zenon DEF AllPaused
<1>2. flags' = [mining |-> mining', paused |-> paused', minersPaused |-> AllPaused']
  BY DEF flags
<1>3. CASE UNCHANGED <<mining, paused>> /\ (AllPaused' <=> AllPaused)
  <2>1. AllPaused' = AllPaused
    BY <1>1, <1>3, Zenon
  <2>2. flags' = flags
    BY <1>2, <1>3, <2>1, Zenon DEF flags
  <2> QED BY <2>2
<1>4. CASE mining' = TRUE /\ UNCHANGED paused /\ ~AllPaused'
  <2>1. AllPaused' = FALSE
    BY <1>1, <1>4, Zenon
  <2>2. flags' = [flags EXCEPT !.mining = TRUE, !.minersPaused = FALSE]
    <3>1. flags' = [mining |-> TRUE, paused |-> paused, minersPaused |-> FALSE]
      BY <1>2, <1>4, <2>1, Zenon
    <3>2. [flags EXCEPT !.mining = TRUE, !.minersPaused = FALSE] = [mining |-> TRUE, paused |-> paused, minersPaused |-> FALSE]
      BY FlagsExcept, Zenon
    <3> QED BY <3>1, <3>2, Zenon
  <2> QED BY <2>2 DEF flags, AllPaused, FarmView!Next, FarmView!Start
<1>5. CASE mining' = FALSE /\ UNCHANGED paused /\ ~AllPaused'
  <2>1. AllPaused' = FALSE
    BY <1>1, <1>5, Zenon
  <2>2. flags' = [flags EXCEPT !.mining = FALSE, !.minersPaused = FALSE]
    <3>1. flags' = [mining |-> FALSE, paused |-> paused, minersPaused |-> FALSE]
      BY <1>2, <1>5, <2>1, Zenon
    <3>2. [flags EXCEPT !.mining = FALSE, !.minersPaused = FALSE] = [mining |-> FALSE, paused |-> paused, minersPaused |-> FALSE]
      BY FlagsExcept, Zenon
    <3> QED BY <3>1, <3>2, Zenon
  <2> QED BY <2>2 DEF flags, AllPaused, FarmView!Next, FarmView!Stop
<1>6. CASE UNCHANGED mining /\ paused' = TRUE /\ (AllPaused' <=> mining)
  <2>1. AllPaused' = mining
    BY <1>1, <1>6, Zenon
  <2>2. flags' = [flags EXCEPT !.paused = TRUE, !.minersPaused = mining]
    <3>1. flags' = [mining |-> mining, paused |-> TRUE, minersPaused |-> mining]
      BY <1>2, <1>6, <2>1, Zenon
    <3>2. [flags EXCEPT !.paused = TRUE, !.minersPaused = mining] = [mining |-> mining, paused |-> TRUE, minersPaused |-> mining]
      BY FlagsExcept, Zenon
    <3> QED BY <3>1, <3>2, Zenon
  <2> QED BY <2>2 DEF flags, AllPaused, FarmView!Next, FarmView!Pause
<1>7. CASE UNCHANGED mining /\ paused' = FALSE /\ ~AllPaused'
  <2>1. AllPaused' = FALSE
    BY <1>1, <1>7, Zenon
  <2>2. flags' = [flags EXCEPT !.paused = FALSE, !.minersPaused = FALSE]
    <3>1. flags' = [mining |-> mining, paused |-> FALSE, minersPaused |-> FALSE]
      BY <1>2, <1>7, <2>1, Zenon
    <3>2. [flags EXCEPT !.paused = FALSE, !.minersPaused = FALSE] = [mining |-> mining, paused |-> FALSE, minersPaused |-> FALSE]
      BY FlagsExcept, Zenon
    <3> QED BY <3>1, <3>2, Zenon
  <2> QED BY <2>2 DEF flags, AllPaused, FarmView!Next, FarmView!Resume
<1> QED BY <1>3, <1>4, <1>5, <1>6, <1>7 DEF FlagsMove

\* A step that keeps every miner's "farm" pause.
LEMMA SamePauses ==
    ASSUME MinersOK, UNCHANGED <<mining, paused>>, miners' \in Seq(MinerStates), Len(miners') = Len(miners),
           \A i \in Idx : "farm" \in miners'[i].pauses <=> "farm" \in miners[i].pauses
    PROVE  FlagsMove
<1>1. Idx' = Idx /\ (miners' = <<>> <=> miners = <<>>)
  BY DEF MinersOK, Idx
<1>2. AllPaused' <=> AllPaused
  BY <1>1 DEF AllPaused
<1> QED BY <1>2 DEF FlagsMove

\* The same when nothing happens to the miners.
LEMMA UnchangedFlags == ASSUME UNCHANGED <<mining, paused, miners>> PROVE FlagsMove
BY DEF FlagsMove, AllPaused, Idx

\* Farm::start (Farm.cpp 175-226), Farm::stop (231-246).
LEMMA StartFlags ==
    ASSUME MinersOK, UNCHANGED <<devices, paused>>, start \/ stop
    PROVE  FlagsMove
<1>1. CASE start
  <2>1. MinersOK' /\ mining' = TRUE
    BY <1>1, StartHolds DEF start
  <2>2. devices \in Nat \ {0} /\ Len(miners') = devices
    BY <2>1, FarmAssumption DEF MinersOK
  <2>3. 1 \in Idx' /\ miners'[1].pauses = {}
    BY <1>1, <2>2 DEF start, Idx, NewMiner
  <2> QED BY <2>1, <2>3, Zenon DEF FlagsMove, AllPaused
<1>2. CASE stop
  BY <1>2 DEF stop, FlagsMove, AllPaused
<1> QED BY <1>1, <1>2

\* Farm::pause (Farm.cpp 251-257): all miners, if there are any.
LEMMA PauseFlags == ASSUME MinersOK, pause, UNCHANGED mining PROVE FlagsMove
<1>1. devices \in Nat \ {0}
  BY FarmAssumption DEF MinersOK
<1>2. Kept
  BY PauseKeeps
<1>3. Idx' = Idx /\ Len(miners') = Len(miners) /\ miners' \in Seq(MinerStates)
  BY <1>2 DEF Kept, Idx
<1>4. ASSUME NEW i \in Idx PROVE "farm" \in miners'[i].pauses
  <2>1. miners'[i] = Paused(miners[i], "farm") /\ miners[i] \in MinerStates /\ "farm" \in Reasons
    BY DEF pause, MinersOK, Idx, Reasons
  <2> QED BY <2>1, PausedTyped
<1>5. miners' # <<>> <=> mining
  BY <1>1, <1>3 DEF MinersOK
<1>6. AllPaused' <=> mining
  BY <1>3, <1>4, <1>5 DEF AllPaused
<1> QED BY <1>6 DEF FlagsMove, pause

\* Farm::resume (Farm.cpp 267-274).
LEMMA ResumeFlags == ASSUME MinersOK, resume, UNCHANGED mining PROVE FlagsMove
<1>1. Kept
  BY PauseKeeps
<1>2. Idx' = Idx /\ Len(miners') = Len(miners) /\ miners' \in Seq(MinerStates)
  BY <1>1 DEF Kept, Idx
<1>3. ASSUME NEW i \in Idx PROVE "farm" \notin miners'[i].pauses
  <2>1. miners'[i] = Resumed(miners[i], "farm") /\ miners[i] \in MinerStates /\ "farm" \in Reasons
    BY DEF resume, MinersOK, Idx, Reasons
  <2> QED BY <2>1, PausedTyped
<1>4. ASSUME miners' # <<>> PROVE 1 \in Idx
  BY <1>2, <1>4 DEF Idx
<1>5. ~AllPaused'
  BY <1>2, <1>3, <1>4 DEF AllPaused
<1> QED BY <1>5 DEF FlagsMove, resume

\* Every step is a move of the flags.
LEMMA NextFlags == ASSUME MinersOK, CountersOK, Next PROVE FlagsMove
<1>1. CASE Posted
  <2>1. UNCHANGED <<devices, paused>> /\ (start \/ UNCHANGED <<mining, miners>>)
    BY <1>1 DEF Posted
  <2> QED BY <2>1, StartFlags, UnchangedFlags
<1>2. CASE onConnected
  <2>1. \/ start /\ UNCHANGED <<devices, paused>>
        \/ resume /\ UNCHANGED mining
        \/ UNCHANGED <<mining, paused, miners>>
    BY <1>2 DEF onConnected
  <2> QED BY <2>1, StartFlags, ResumeFlags, UnchangedFlags
<1>3. CASE onDisconnected
  <2>1. \/ stop /\ UNCHANGED <<devices, paused>>
        \/ pause /\ UNCHANGED mining
    BY <1>3 DEF onDisconnected
  <2> QED BY <2>1, StartFlags, PauseFlags
<1>4. CASE Answered \/ restart_async \/ set_nonce \/ MainEnds
  <2>1. UNCHANGED <<mining, paused, miners>>
    BY <1>4 DEF Answered, restart_async, set_nonce, MainEnds, lifecycle
  <2> QED BY <2>1, UnchangedFlags
<1>5. CASE Exhausted \/ MainStops
  <2>1. \/ stop /\ UNCHANGED <<devices, paused>>
        \/ UNCHANGED <<mining, paused, miners>>
    BY <1>5 DEF Exhausted, MainStops
  <2> QED BY <2>1, StartFlags, UnchangedFlags
<1>6. CASE onWorkReceived
  <2>1. PICK extra \in ExtraNonces, r \in Randoms : setWork(extra, r)
    BY <1>6 DEF onWorkReceived
  <2>2. UNCHANGED <<mining, paused>>
    BY <1>6 DEF onWorkReceived, lifecycle
  <2> QED BY <2>1, <2>2, SetWorkHolds, SamePauses
<1>7. CASE PauseGpu
  <2>1. UNCHANGED <<mining, paused>> /\ Kept
    BY <1>7, PauseGpuKeeps, Zenon DEF PauseGpu, lifecycle
  <2>2. PICK k \in Idx : \E m \in {Paused(miners[k], "api"), Resumed(miners[k], "api")} : miners' = [miners EXCEPT ![k] = m]
    BY <1>7, Zenon DEF PauseGpu
  <2>3. miners[k] \in MinerStates /\ "api" \in Reasons /\ "api" # "farm"
    BY DEF MinersOK, Idx, Reasons
  <2>4. \A i \in Idx : "farm" \in miners'[i].pauses <=> "farm" \in miners[i].pauses
    BY <2>2, <2>3, PausedTyped DEF MinersOK, Idx
  <2> QED BY <2>1, <2>4, SamePauses DEF Kept
<1>8. CASE Hung \/ NotHung
  <2>1. UNCHANGED <<mining, paused>> /\ \E last : miners' = Marked(last)
    BY <1>8 DEF Hung, NotHung, lifecycle
  <2>2. PICK last : miners' = Marked(last)
    BY <2>1
  <2>3. Kept
    BY <2>2, MarkedKeeps
  <2>4. ASSUME NEW i \in Idx PROVE miners'[i].pauses = miners[i].pauses
    <3>1. miners[i] \in MinerStates
      BY DEF MinersOK, Idx
    <3>2. SameOrders(miners[i], [miners[i] EXCEPT !.hung = TRUE])
      BY <3>1, UpdatesTyped, Zenon
    <3> QED BY <2>2, <3>2 DEF Marked, SameOrders
  <2> QED BY <2>1, <2>3, <2>4, SamePauses DEF Kept
<1>9. CASE Collect
  <2>1. UNCHANGED <<mining, paused>> /\ (UNCHANGED miners \/ Measured)
    BY <1>9 DEF Collect, lifecycle, Measured
  <2>2. CASE UNCHANGED miners
    BY <2>1, <2>2, UnchangedFlags
  <2>3. ASSUME NEW t \in [Idx -> Temps], miners' = [i \in Idx |-> Controlled(miners[i], t[i])]
        PROVE  FlagsMove
    <3>1. ASSUME NEW i \in Idx
          PROVE  /\ Controlled(miners[i], t[i]) \in MinerStates
                 /\ "farm" \in Controlled(miners[i], t[i]).pauses <=> "farm" \in miners[i].pauses
      <4>1. miners[i] \in MinerStates /\ t[i] \in Temps /\ "hot" \in Reasons /\ "hot" # "farm"
        BY DEF MinersOK, Idx, Reasons
      <4>2. Controlled(miners[i], t[i]) \in {miners[i], Paused(miners[i], "hot"), Resumed(miners[i], "hot")}
        BY DEF Controlled
      <4> QED BY <4>1, <4>2, PausedTyped
    <3>2. miners' \in [1..Len(miners) -> MinerStates] /\ Len(miners) \in Nat
      BY <2>3, <3>1 DEF Idx, MinersOK
    <3>3. miners' \in Seq(MinerStates) /\ Len(miners') = Len(miners)
      BY <3>2, TableIsSeq
    <3> QED BY <2>1, <2>3, <3>1, <3>3, SamePauses, Zenon
  <2> QED BY <2>1, <2>2, <2>3 DEF Measured
<1>10. CASE MinerStep
  <2>1. UNCHANGED <<mining, paused>> /\ Kept
    BY <1>10, MinerStepKeeps DEF MinerStep, lifecycle
  <2>2. PICK k \in Idx \cap Movers : Waits(k) \/ Builds(k) \/ Built(k) \/ Hangs(k) \/ Passes(k)
    BY <1>10 DEF MinerStep
  <2>3. miners[k] \in MinerStates
    BY DEF MinersOK, Idx
  <2>4. \E m : SameOrders(miners[k], m) /\ Sets(k, m)
    BY <2>2, <2>3, UpdatesTyped, Zenon DEF Waits, Builds, Built, Hangs, Passes
  <2>5. \A i \in Idx : miners'[i].pauses = miners[i].pauses
    BY <2>4 DEF SameOrders, Sets, MinersOK, Idx
  <2> QED BY <2>1, <2>5, SamePauses DEF Kept
<1> QED BY <1>1, <1>2, <1>3, <1>4, <1>5, <1>6, <1>7, <1>8, <1>9, <1>10 DEF Next

\* Farm implements FarmFlags, the view of it that the PoolManager relies on: after every
\* sequence of calls, jobs, restarts and stops, on either thread, the flags are those that
\* start, stop, pause and resume would have set one after the other.
THEOREM FlagsRefinement == Spec => ImplementsFarmFlags
<1>1. Init => FarmView!Init
  <2> SUFFICES ASSUME Init PROVE FarmView!Init
    OBVIOUS
  <2>1. AllPaused = FALSE
    BY Zenon DEF Init, AllPaused
  <2> QED BY <2>1, Zenon DEF Init, AllPaused, FarmView!Init
<1>2. IInv /\ [Next]_vars => [FarmView!Next]_flags
  <2> SUFFICES ASSUME IInv, [Next]_vars PROVE [FarmView!Next]_flags
    OBVIOUS
  <2>1. mining \in BOOLEAN
    BY DEF IInv, MinersOK
  <2>2. CASE Next
    BY <2>1, <2>2, NextFlags, FlagsMoveRefines DEF IInv
  <2>3. CASE UNCHANGED vars
    <3>1. UNCHANGED <<mining, paused, miners>>
      BY <2>3 DEF vars, lifecycle
    <3> QED BY <2>1, <3>1, UnchangedFlags, FlagsMoveRefines
  <2> QED BY <2>2, <2>3
<1> QED BY <1>1, <1>2, FarmInvariant, PTL DEF Spec, ImplementsFarmFlags, FarmView!Spec, flags, AllPaused

=============================================================================
