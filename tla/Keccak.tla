------------------------------- MODULE Keccak -------------------------------
(***************************************************************************)
(* The implementations of Keccak in the repository: keccak.c and           *)
(* keccakf800.c of the ethash library, the three of the CUDA kernels       *)
(* (libcuda/keccak.cuh, with zero lanes left out of the first round and    *)
(* unused lanes out of the last) and the macro of the OpenCL kernels.      *)
(* Each is run beside the definition of Keccak-f, a round a step.          *)
(*                                                                         *)
(* A lane is the set of its bits that are 1; a state is a function from    *)
(* 0..24 to lanes, lane x + 5y being the one in column x and row y.        *)
(***************************************************************************)
EXTENDS Integers, Sequences, FiniteSetsExt

CONSTANTS
    Words,             \* lanes the inputs are made of
    Sizes              \* sizes of messages, in bytes

VARIABLES
    impl,              \* the implementation
    input,             \* its input: a sequence of lanes, or of bytes
    round,
    s,                 \* the state of the implementation
    ref                \* the state of the definition

vars == <<impl, input, round, s, ref>>

Lanes == 0..24
Zero == {}
Xor3(a, b, c) == SymDiff(SymDiff(a, b), c)
Xor5(a, b, c, d, e) == SymDiff(Xor3(a, b, c), SymDiff(d, e))

-----------------------------------------------------------------------------
(* The definition (FIPS 202): theta, rho, pi, chi, iota on lanes of w bits *)

Rot(w, a, n) == {(b + n) % w : b \in a}

RefTheta(w, a) ==
    LET C == [x \in 0..4 |-> Xor5(a[x], a[x + 5], a[x + 10], a[x + 15], a[x + 20])]
        D == [x \in 0..4 |-> SymDiff(C[(x + 4) % 5], Rot(w, C[(x + 1) % 5], 1))]
    IN [i \in Lanes |-> SymDiff(a[i], D[i % 5])]

\* The t-th lane rho visits, which it rotates by (t + 1)(t + 2) / 2.
Walk[t \in 0..23] ==
    IF t = 0 THEN 1
    ELSE LET l == Walk[t - 1]  x == l % 5  y == l \div 5 IN y + 5 * ((2 * x + 3 * y) % 5)
Offset == [i \in Lanes |->
    IF i = 0 THEN 0 ELSE LET t == CHOOSE u \in 0..23 : Walk[u] = i IN ((t + 1) * (t + 2)) \div 2]

\* Lane (x, y) moves to (y, 2x + 3y).
PiSource == [i \in Lanes |-> CHOOSE j \in Lanes :
    i = (j \div 5) + 5 * ((2 * (j % 5) + 3 * (j \div 5)) % 5)]
RefRhoPi(w, a) == [i \in Lanes |-> Rot(w, a[PiSource[i]], Offset[PiSource[i]])]

\* The lane n columns to the right in its row.
Next5(i, n) == 5 * (i \div 5) + ((i + n) % 5)
RefChi(a) == [i \in Lanes |-> SymDiff(a[i], a[Next5(i, 2)] \ a[Next5(i, 1)])]

\* The register whose lowest bit, shift by shift, is the next bit of the round constants: seven
\* bits a round, at 2^j - 1.
Shift(r) == LET q == {b + 1 : b \in r} IN IF 8 \in q THEN SymDiff(q, {0, 4, 5, 6, 8}) ELSE q
Shifted(r, n) == LET After[k \in 0..n] == IF k = 0 THEN r ELSE Shift(After[k - 1]) IN After[n]
Register[n \in 0..23] ==
    IF n = 0 THEN {0} ELSE LET r == Register[n - 1] IN IF r = {} THEN {} ELSE Shifted(r, 7)
RefConstant == [n \in 0..23 |-> {2^j - 1 : j \in {k \in 0..6 : 0 \in Shifted(Register[n], k)}}]

Bits(w) == 0..(w - 1)
RefRound(w, n, a) ==
    LET c == RefChi(RefRhoPi(w, RefTheta(w, a)))
    IN [c EXCEPT ![0] = SymDiff(@, RefConstant[n] \cap Bits(w))]

-----------------------------------------------------------------------------
(* ethash/lib/keccak: keccak.c and keccakf800.c *)

rol(w, x, n) == {b + n : b \in {c \in x : c + n < w}} \cup {b - (w - n) : b \in {c \in x : c >= w - n}}

round_constants == <<
    {0}, {1, 7, 15}, {1, 3, 7, 15, 63}, {15, 31, 63},
    {0, 1, 3, 7, 15}, {0, 31}, {0, 7, 15, 31, 63}, {0, 3, 15, 63},
    {1, 3, 7}, {3, 7}, {0, 3, 15, 31}, {1, 3, 31},
    {0, 1, 3, 7, 15, 31}, {0, 1, 3, 7, 63}, {0, 3, 7, 15, 63}, {0, 1, 15, 63},
    {1, 15, 63}, {7, 63}, {1, 3, 15}, {1, 3, 31, 63},
    {0, 7, 15, 31, 63}, {7, 15, 63}, {0, 31}, {3, 15, 31, 63}>>

round_constants_800 == <<
    {0}, {1, 7, 15}, {1, 3, 7, 15}, {15, 31},
    {0, 1, 3, 7, 15}, {0, 31}, {0, 7, 15, 31}, {0, 3, 15},
    {1, 3, 7}, {3, 7}, {0, 3, 15, 31}, {1, 3, 31},
    {0, 1, 3, 7, 15, 31}, {0, 1, 3, 7}, {0, 3, 7, 15}, {0, 1, 15},
    {1, 15}, {7}, {1, 3, 15}, {1, 3, 31},
    {0, 7, 15, 31}, {7, 15}>>

\* Row by row, the lane that Ba, Be, Bi, Bo, Bu are made of, and its rotation.
B1600 == <<
    <<0, 0>>, <<6, 44>>, <<12, 43>>, <<18, 21>>, <<24, 14>>,
    <<3, 28>>, <<9, 20>>, <<10, 3>>, <<16, 45>>, <<22, 61>>,
    <<1, 1>>, <<7, 6>>, <<13, 25>>, <<19, 8>>, <<20, 18>>,
    <<4, 27>>, <<5, 36>>, <<11, 10>>, <<17, 15>>, <<23, 56>>,
    <<2, 62>>, <<8, 55>>, <<14, 39>>, <<15, 41>>, <<21, 2>>>>

B800 == <<
    <<0, 0>>, <<6, 12>>, <<12, 11>>, <<18, 21>>, <<24, 14>>,
    <<3, 28>>, <<9, 20>>, <<10, 3>>, <<16, 13>>, <<22, 29>>,
    <<1, 1>>, <<7, 6>>, <<13, 25>>, <<19, 8>>, <<20, 18>>,
    <<4, 27>>, <<5, 4>>, <<11, 10>>, <<17, 15>>, <<23, 24>>,
    <<2, 30>>, <<8, 23>>, <<14, 7>>, <<15, 9>>, <<21, 2>>>>

\* Axx -> Exx: the sums B and D of the columns, then for each row its B's and its new lanes.
\* Exx -> Axx, every second round, is the same with the names exchanged.
RoundOf(w, table, constant, A) ==
    LET Bs == [x \in 0..4 |-> Xor5(A[x], A[x + 5], A[x + 10], A[x + 15], A[x + 20])]
        Ds == [x \in 0..4 |-> SymDiff(Bs[(x + 4) % 5], rol(w, Bs[(x + 1) % 5], 1))]
        B(i) == LET lane == table[i + 1][1] IN rol(w, SymDiff(A[lane], Ds[lane % 5]), table[i + 1][2])
        E == [i \in Lanes |-> B(i)]
    IN [i \in Lanes |-> Xor3(E[i], (Bits(w) \ E[Next5(i, 1)]) \cap E[Next5(i, 2)],
                             IF i = 0 THEN constant ELSE Zero)]

keccakf1600_round(n, A) == RoundOf(64, B1600, round_constants[n + 1], A)
keccakf800_round(n, A) == RoundOf(32, B800, round_constants_800[n + 1], A)

\* Eight bytes, each the set of its bits, the first one lowest.
load_le(data, at) == UNION {{8 * k + b : b \in data[at + k + 1]} : k \in 0..7}

\* while (size >= block_size)
Blocks(size, block) == size \div block

Block(bits) == (1600 - bits * 2) \div 8

\* Before its k-th permutation, k from 0: a whole block, or the words and the bytes that are
\* left, with the padding.
keccak(bits, data, k, a) ==
    LET block == Block(bits)
        words == block \div 8
        rest == Len(data) - k * block
        last == rest \div 8
        word(i) == load_le(data, k * block + 8 * i)
        tail == UNION {{8 * j + b : b \in data[k * block + 8 * last + j + 1]} : j \in 0..((rest % 8) - 1)}
    IN IF k < Blocks(Len(data), block)
       THEN [i \in Lanes |-> IF i < words THEN SymDiff(a[i], word(i)) ELSE a[i]]
       ELSE [i \in Lanes |->
               Xor3(a[i], IF i < last THEN word(i) ELSE IF i = last THEN tail \cup {8 * (rest % 8)} ELSE Zero,
                    IF i = words - 1 THEN {63} ELSE Zero)]

\* The definition: the message is padded to whole blocks with 01 00 .. 00 80.
RefAbsorb(bits, data, k, a) ==
    LET block == Block(bits)
        byte(j) == IF j <= Len(data) THEN data[j]
                   ELSE (IF j = Len(data) + 1 THEN {0} ELSE {}) \cup (IF j % block = 0 THEN {7} ELSE {})
        lane(i) == {b \in 0..63 : b % 8 \in byte(k * block + 8 * i + (b \div 8) + 1)}
    IN [i \in Lanes |-> IF 8 * i < block THEN SymDiff(a[i], lane(i)) ELSE a[i]]

-----------------------------------------------------------------------------
(* GPU lanes: uint2, the halves x and y *)

Lo(a) == a \cap (0..31)
Hi(a) == {b - 32 : b \in a \ (0..31)}
Uint2(x, y) == x \cup {b + 32 : b \in y}

\* The upper word of hi:lo shifted left by n % 32 (shf.l.wrap)
Shf(lo, hi, n) == LET k == n % 32 IN {b + k : b \in {c \in hi : c + k < 32}}
                                     \cup {b + k - 32 : b \in {c \in lo : c + k >= 32}}

ROL2(a, n) ==
    IF n >= 32 THEN Uint2(Shf(Lo(a), Hi(a), n), Shf(Hi(a), Lo(a), n))
    ELSE Uint2(Shf(Hi(a), Lo(a), n), Shf(Lo(a), Hi(a), n))

\* __byte_perm(a.y, a.x, selector): bytes 0..3 are of y and 4..7 of x
BytePerm(a, sel) ==
    UNION {{8 * (k - 1) + b : b \in {c \in 0..7 :
              8 * (sel[k] % 4) + c \in (IF sel[k] < 4 THEN Hi(a) ELSE Lo(a))}} : k \in 1..4}
ROL8(a) == Uint2(BytePerm(a, <<3, 4, 5, 6>>), BytePerm(a, <<7, 0, 1, 2>>))
ROR8(a) == Uint2(BytePerm(a, <<5, 6, 7, 0>>), BytePerm(a, <<1, 2, 3, 4>>))

\* The lower word of hi:lo shifted right by n % 32
amd_bitalign(hi, lo, n) == LET k == n % 32 IN {b - k : b \in {c \in lo : c >= k}}
                                              \cup {b + 32 - k : b \in {c \in hi : c < k}}
ROTL64_1(a, n) == Uint2(amd_bitalign(Lo(a), Hi(a), 32 - n), amd_bitalign(Hi(a), Lo(a), 32 - n))
ROTL64_2(a, n) == Uint2(amd_bitalign(Hi(a), Lo(a), 32 - n), amd_bitalign(Lo(a), Hi(a), 32 - n))

-----------------------------------------------------------------------------
(* libcuda/keccak.cuh *)

keccak_round_constants == <<
    Uint2({0}, {}), Uint2({1, 7, 15}, {}), Uint2({1, 3, 7, 15}, {31}), Uint2({15, 31}, {31}),
    Uint2({0, 1, 3, 7, 15}, {}), Uint2({0, 31}, {}), Uint2({0, 7, 15, 31}, {31}), Uint2({0, 3, 15}, {31}),
    Uint2({1, 3, 7}, {}), Uint2({3, 7}, {}), Uint2({0, 3, 15, 31}, {}), Uint2({1, 3, 31}, {}),
    Uint2({0, 1, 3, 7, 15, 31}, {}), Uint2({0, 1, 3, 7}, {31}), Uint2({0, 3, 7, 15}, {31}), Uint2({0, 1, 15}, {31}),
    Uint2({1, 15}, {31}), Uint2({7}, {31}), Uint2({1, 3, 15}, {}), Uint2({1, 3, 31}, {31}),
    Uint2({0, 7, 15, 31}, {31}), Uint2({7, 15}, {31}), Uint2({0, 31}, {}), Uint2({3, 15, 31}, {31})>>

\* lop3 with 0xD2: a ^ (~b & c)
chi(a, b, c) == SymDiff(a, c \ b)

\* theta, with the sums t of the columns, on the lanes of some
CudaTheta(a, t, some) ==
    [i \in Lanes |-> IF i \in some THEN Xor3(a[i], t[(i + 4) % 5], ROL2(t[(i + 1) % 5], 1)) ELSE a[i]]
Columns(a) == [x \in 0..4 |-> Xor5(a[x], a[x + 5], a[x + 10], a[x + 15], a[x + 20])]

\* rho and pi in place: lane to = lane from, rotated; u is what s[1] was.
Move(to, from, rot) == [to |-> to, from |-> from, rot |-> rot]
U == 25
CudaMoves == <<
    Move(1, 6, 44), Move(6, 9, 20), Move(9, 22, 61), Move(22, 14, 39), Move(14, 20, 18), Move(20, 2, 62),
    Move(2, 12, 43), Move(12, 13, 25), Move(13, 19, 8), Move(19, 23, 56), Move(23, 15, 41), Move(15, 4, 27),
    Move(4, 24, 14), Move(24, 21, 2), Move(21, 8, 55), Move(8, 16, 45), Move(16, 5, 36), Move(5, 3, 28),
    Move(3, 18, 21), Move(18, 17, 15), Move(17, 11, 10), Move(11, 7, 6), Move(7, 10, 3), Move(10, U, 1)>>
LastMoves == <<
    Move(1, 6, 44), Move(6, 9, 20), Move(9, 22, 61), Move(2, 12, 43), Move(4, 24, 14), Move(8, 16, 45),
    Move(5, 3, 28), Move(3, 18, 21), Move(7, 10, 3)>>

CudaRot(a, n) == IF n = 8 THEN ROL8(a) ELSE IF n = 56 THEN ROR8(a) ELSE ROL2(a, n)
\* A rotation above 32 is written ROTL64_2.
ClRot(a, n) == IF n > 32 THEN ROTL64_2(a, n - 32) ELSE ROTL64_1(a, n)

\* A move reads what the last move before it has written to its lane, if there is one.
Moved(a, moves, rotate) ==
    LET Rotate(x, n) == IF rotate = "cuda" THEN CudaRot(x, n) ELSE ClRot(x, n)
        Writes(lane, n) == {k \in 1..n : moves[k].to = lane}
        Val[k \in 1..Len(moves)] ==
            LET from == moves[k].from  w == Writes(from, k - 1)
            IN Rotate(IF from = U THEN a[1] ELSE IF w = {} THEN a[from] ELSE Val[Max(w)], moves[k].rot)
    IN [i \in Lanes |-> LET w == Writes(i, Len(moves)) IN IF w = {} THEN a[i] ELSE Val[Max(w)]]

\* chi on the lanes of some: u and v keep the first two lanes of the row.
CudaChi(a, some) ==
    [i \in Lanes |-> IF i \in some THEN chi(a[i], a[Next5(i, 1)], a[Next5(i, 2)]) ELSE a[i]]
Iota(a, constant) == [a EXCEPT ![0] = SymDiff(@, constant)]

\* A whole round, which is written out in each of the three functions.
CudaRound(n, a) ==
    Iota(CudaChi(Moved(CudaTheta(a, Columns(a), Lanes), CudaMoves, "cuda"), Lanes),
         keccak_round_constants[n + 1])
InitInner(n, a) == CudaRound(n, a)
FinalInner(n, a) == CudaRound(n, a)
ShaInner(n, a) == CudaRound(n, a)

\* The first round of keccak_f1600_init: lanes 6, 7 and 9..24 are zero, lane 5 has only a
\* lower and lane 8 only an upper word.
InitFirst(a) ==
    LET t == [x \in 0..4 |-> IF x = 0 THEN Uint2(SymDiff(Lo(a[0]), Lo(a[5])), Hi(a[0]))
                             ELSE IF x = 3 THEN Uint2(Lo(a[3]), SymDiff(Hi(a[3]), Hi(a[8])))
                             ELSE a[x]]
    IN Iota(CudaChi(Moved(CudaTheta(a, t, Lanes), CudaMoves, "cuda"), Lanes), keccak_round_constants[1])

\* mutant: lane 16, the end of the padding, is not summed
FinalFirst_No16(a) ==
    LET t == [x \in 0..4 |-> IF x <= 2 THEN Xor3(a[x], a[x + 5], a[x + 10]) ELSE SymDiff(a[x], a[x + 5])]
    IN Iota(CudaChi(Moved(CudaTheta(a, t, Lanes), CudaMoves, "cuda"), Lanes), keccak_round_constants[1])

\* The first round of keccak_f1600_final: lanes 13..15 and 17..24 are zero.
FinalFirst(a) ==
    LET t == [x \in 0..4 |->
                CASE x = 1 -> SymDiff(Xor3(a[1], a[6], a[11]), a[16])
                  [] x \in {0, 2} -> Xor3(a[x], a[x + 5], a[x + 10])
                  [] OTHER -> SymDiff(a[x], a[x + 5])]
    IN Iota(CudaChi(Moved(CudaTheta(a, t, Lanes), CudaMoves, "cuda"), Lanes), keccak_round_constants[1])

\* The last round of keccak_f1600_init and of SHA3_512, for the first eight lanes.
LastOf8(a) ==
    LET b == CudaTheta(a, Columns(a), {0, 10, 6, 16, 12, 22, 3, 18, 9, 24})
    IN Iota(CudaChi(Moved(b, LastMoves, "cuda"), 0..7), keccak_round_constants[24])
InitLast(a) == LastOf8(a)
ShaLast(a) == LastOf8(a)

\* The last round of keccak_f1600_final, for the first lane.
FinalLast(a) ==
    LET b == CudaTheta(a, Columns(a), {0, 6, 12})
    IN Iota(CudaChi(Moved(b, <<Move(1, 6, 44), Move(2, 12, 43)>>, "cuda"), {0}), keccak_round_constants[24])

-----------------------------------------------------------------------------
(* libcl/ethash.cl *)

Keccak_f1600_RC == keccak_round_constants

ClMoves == <<
    Move(1, 6, 32 + 12), Move(6, 9, 20), Move(9, 22, 32 + 29), Move(22, 14, 32 + 7), Move(14, 20, 18),
    Move(20, 2, 32 + 30), Move(2, 12, 32 + 11), Move(12, 13, 25), Move(13, 19, 8), Move(19, 23, 32 + 24),
    Move(23, 15, 32 + 9), Move(15, 4, 27), Move(4, 24, 14), Move(24, 21, 2), Move(21, 8, 32 + 23),
    Move(8, 16, 32 + 13), Move(16, 5, 32 + 4), Move(5, 3, 28), Move(3, 18, 21), Move(18, 17, 15),
    Move(17, 11, 10), Move(11, 7, 6), Move(7, 10, 3), Move(10, U, 1)>>

bitselect(a, b, c) == (a \ c) \cup (b \cap c)

\* The lanes chi is applied to.
ClRows(outsz) == IF outsz > 8 THEN Lanes ELSE IF outsz > 4 THEN 0..9 ELSE IF outsz > 1 THEN 0..4 ELSE {0}

\* m0..m4 are summed before any lane is changed; tmp is lane 1 after theta.
KECCAKF_1600_RND(a, n, outsz) ==
    LET c == Columns(a)
        m == [x \in 0..4 |-> SymDiff(c[x], ROTL64_1(c[(x + 2) % 5], 1))]
        b == [i \in Lanes |-> SymDiff(a[i], m[(i + 4) % 5])]
        d == Moved(b, ClMoves, "cl")
        e == [i \in Lanes |-> IF i \in ClRows(outsz)
                THEN bitselect(SymDiff(d[i], d[Next5(i, 2)]), d[i], d[Next5(i, 1)]) ELSE d[i]]
    IN Iota(e, Keccak_f1600_RC[n + 1])

-----------------------------------------------------------------------------
(* What each implementation is given, its rounds, and the lanes it yields *)

\* The implementation: lanes of input, rounds, lanes of output, padding
Impls == [
    c1600    |-> [in |-> 25, rounds |-> 24, out |-> 25, w |-> 64],
    c800     |-> [in |-> 25, rounds |-> 22, out |-> 25, w |-> 32],
    cudaInit  |-> [in |-> 5, rounds |-> 24, out |-> 8, w |-> 64],
    cudaFinal |-> [in |-> 12, rounds |-> 24, out |-> 1, w |-> 64],
    cudaSha  |-> [in |-> 8, rounds |-> 24, out |-> 8, w |-> 64],
    clInit   |-> [in |-> 5, rounds |-> 24, out |-> 8, w |-> 64],
    clFinal  |-> [in |-> 12, rounds |-> 24, out |-> 1, w |-> 64],
    clSha    |-> [in |-> 8, rounds |-> 24, out |-> 8, w |-> 64]]
Sponges == [keccak256 |-> 256, keccak512 |-> 512]

\* The lane after the input begins the padding; the last lane of the block (lane 8 for 512 bits
\* of output, 16 for 256) ends it.
Padded(i, lanes, end) ==
    IF i < Len(lanes) THEN lanes[i + 1]
    ELSE (IF i = Len(lanes) THEN {0} ELSE Zero) \cup (IF i = end THEN {63} ELSE Zero)
Prepared(name, lanes) ==
    [i \in Lanes |-> IF Len(lanes) = 25 THEN lanes[i + 1] \cap Bits(Impls[name].w)
                     ELSE Padded(i, lanes, IF Len(lanes) = 12 THEN 16 ELSE 8)]

RoundFor(name, n, a) ==
    CASE name = "c1600" -> keccakf1600_round(n, a)
      [] name = "c800" -> keccakf800_round(n, a)
      [] name = "cudaInit" /\ n = 0 -> InitFirst(a)
      [] name = "cudaFinal" /\ n = 0 -> FinalFirst(a)
      [] name = "cudaInit" /\ n = 23 -> InitLast(a)
      [] name = "cudaFinal" /\ n = 23 -> FinalLast(a)
      [] name = "cudaSha" /\ n = 23 -> ShaLast(a)
      [] name = "cudaInit" -> InitInner(n, a)
      [] name = "cudaFinal" -> FinalInner(n, a)
      [] name = "cudaSha" -> ShaInner(n, a)
      [] name \in {"clInit", "clFinal", "clSha"} ->
            KECCAKF_1600_RND(a, n, IF n < 23 THEN 25 ELSE Impls[name].out)
      [] name \in DOMAIN Sponges ->
            keccakf1600_round(n % 24, IF n % 24 = 0 THEN keccak(Sponges[name], input, n \div 24, a) ELSE a)

RefFor(name, n, a) ==
    IF name \in DOMAIN Sponges
    THEN RefRound(64, n % 24, IF n % 24 = 0 THEN RefAbsorb(Sponges[name], input, n \div 24, a) ELSE a)
    ELSE RefRound(Impls[name].w, n, a)

Rounds == IF impl \in DOMAIN Sponges THEN 24 * (1 + Len(input) \div Block(Sponges[impl]))
          ELSE Impls[impl].rounds
Out == IF impl \in DOMAIN Sponges THEN Sponges[impl] \div 64 ELSE Impls[impl].out

\* Lane i of an input is one of Words, rotated by some multiple of i.
Init ==
    /\ impl \in DOMAIN Impls \cup DOMAIN Sponges
    /\ IF impl \in DOMAIN Sponges
       THEN \E n \in Sizes : input = [i \in 1..n |-> {b \in 0..7 : (i + b * b) % 3 = 0}]
       ELSE \E w \in Words : input = [i \in 1..Impls[impl].in |-> Rot(64, w, 7 * i)]
    /\ round = 0
    /\ s = IF impl \in DOMAIN Sponges THEN [i \in Lanes |-> Zero] ELSE Prepared(impl, input)
    /\ ref = s

Next ==
    /\ round < Rounds
    /\ round' = round + 1
    /\ s' = RoundFor(impl, round, s)
    /\ ref' = RefFor(impl, round, ref)
    /\ UNCHANGED <<impl, input>>

Spec == Init /\ [][Next]_vars

-----------------------------------------------------------------------------
(* Properties *)

\* Every implementation computes Keccak: after each round its state is that of the definition,
\* and after the last the lanes it yields are, whatever lanes it left out on the way.
ComputesKeccak ==
    IF round < Rounds THEN s = ref
    ELSE \A i \in 0..(Out - 1) : s[i] = ref[i]

=============================================================================
