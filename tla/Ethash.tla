------------------------------- MODULE Ethash -------------------------------
(***************************************************************************)
(* The Ethash functions of ethash/lib/ethash: the light cache, the items   *)
(* of the dataset and the hash of a nonce.                                 *)
(*                                                                         *)
(* Words have Radix values (2^32 in the code); a hash512 is a sequence of  *)
(* 16 words and an item of the dataset one of 32.  keccak512 and keccak256 *)
(* are parameters (module Keccak is about them).  The le:: conversions are *)
(* the identity on the little-endian hosts that are built.                 *)
(***************************************************************************)
EXTENDS Integers, Sequences, Bitwise, Primes

CONSTANTS
    Radix,             \* the number of words
    Parents,           \* full_dataset_item_parents (256)
    Accesses,          \* num_dataset_accesses (64)
    keccak512(_),      \* of a sequence of words: 16 words
    keccak256(_)       \* of a sequence of words: words of a hash256, each a pair of bytes

FNV_PRIME == 16777619 % Radix
NodeWords == 16
ItemWords == 32

\* The sequence s, with its elements evaluated.  (The recursions below test the length of the mix
\* to have it evaluated at each round.)
Strict(s) == s \o <<>>

-----------------------------------------------------------------------------
(* Words *)

XorTable == Strict([x \in 1..Radix |-> Strict([y \in 1..Radix |-> (x - 1) ^^ (y - 1)])])
XorWords(x, y) == XorTable[x + 1][y + 1]

fnv1(u, v) == XorWords((u * FNV_PRIME) % Radix, v)

fnv1_512(u, v) == Strict([i \in 1..Len(u) |-> fnv1(u[i], v[i])])

bitwise_xor(x, y) == Strict([i \in 1..Len(x) |-> XorWords(x[i], y[i])])

-----------------------------------------------------------------------------
(* The light cache: a sequence of hash512 *)

light_cache_rounds == 3

RECURSIVE HashChain(_, _)
HashChain(chain, num_items) ==
    IF Len(chain) = num_items THEN chain
    ELSE HashChain(Append(chain, keccak512(chain[Len(chain)])), num_items)

RECURSIVE CacheRounds(_, _)
\* step counts the items of all the rounds.
CacheRounds(cache, step) ==
    LET n == Len(cache)
        i == step % n
        v == cache[i + 1][1] % n
        w == (n + (i - 1)) % n
    IN IF step = light_cache_rounds * n THEN cache
       ELSE CacheRounds([cache EXCEPT ![i + 1] = keccak512(bitwise_xor(cache[v + 1], cache[w + 1]))], step + 1)

build_light_cache(num_items, seed) == CacheRounds(HashChain(<<keccak512(seed)>>, num_items), 0)

-----------------------------------------------------------------------------
(* The items of the dataset, of light cache c *)

\* The constructor of item_state
ItemStart(c, index) ==
    LET item == c[(index % Len(c)) + 1]
    IN keccak512([item EXCEPT ![1] = XorWords(@, index % Radix)])

ItemUpdate(c, index, mix, round) ==
    LET t == fnv1(XorWords(index % Radix, round), mix[(round % NodeWords) + 1])
    IN fnv1_512(mix, c[(t % Len(c)) + 1])

RECURSIVE ItemRounds(_, _, _, _)
ItemRounds(c, index, mix, round) ==
    IF Len(mix) = 0 \/ round = Parents THEN mix ELSE ItemRounds(c, index, ItemUpdate(c, index, mix, round), round + 1)

calculate_dataset_item_512(c, index) == keccak512(ItemRounds(c, index, ItemStart(c, index), 0))

calculate_dataset_item_1024(c, index) ==
    calculate_dataset_item_512(c, 2 * index) \o calculate_dataset_item_512(c, 2 * index + 1)

-----------------------------------------------------------------------------
(* The hash of a nonce, of a dataset: a sequence of items *)

hash_seed(header, nonce) == keccak512(header \o <<nonce>>)

KernelUpdate(items, seed, mix, i) ==
    LET p == fnv1(XorWords(i, seed[1]), mix[(i % ItemWords) + 1]) % Len(items)
    IN fnv1_512(mix, items[p + 1])

RECURSIVE KernelRounds(_, _, _, _)
KernelRounds(items, seed, mix, i) ==
    IF Len(mix) = 0 \/ i = Accesses THEN mix ELSE KernelRounds(items, seed, KernelUpdate(items, seed, mix, i), i + 1)

fnv_reduce(a, b, c, d) == fnv1(fnv1(fnv1(a, b), c), d)
MixHash(mix) == Strict([k \in 1..(Len(mix) \div 4) |->
    fnv_reduce(mix[4 * k - 3], mix[4 * k - 2], mix[4 * k - 1], mix[4 * k])])

hash_kernel(items, seed) == MixHash(KernelRounds(items, seed, seed \o seed, 0))

hash_final(seed, mix_hash) == keccak256(seed \o mix_hash)

hash(items, header, nonce) ==
    LET seed == hash_seed(header, nonce) IN hash_final(seed, hash_kernel(items, seed))

-----------------------------------------------------------------------------
(* The boundary: words of bytes, compared as big-endian numbers *)

ByteRadix == 16                               \* 2^8 in the code
be(word) == ByteRadix * word[1] + word[2]
le(word) == word[1] + ByteRadix * word[2]

is_less_or_equal(a, b) ==
    \A i \in DOMAIN a : be(a[i]) > be(b[i]) => \E j \in 1..(i - 1) : be(a[j]) < be(b[j])

=============================================================================
