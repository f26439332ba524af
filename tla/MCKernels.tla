----------------------------- MODULE MCKernels -----------------------------
(* Words of 8 bits, five items in the DAG (ten nodes: the last quad is half used), a light      *)
(* cache of five, 20 parents (more than the words of a node), a launch of eight nonces.        *)
EXTENDS Kernels

Sum(words) == LET f[k \in 0..Len(words)] == IF k = 0 THEN 1 ELSE (5 * f[k - 1] + words[k]) % 251
              IN f[Len(words)]

MCkeccak512(words) ==
    LET h == Sum(words)
    IN Strict([k \in 1..16 |-> (h * (2 * k + 1) + 3 * words[((k - 1) % Len(words)) + 1] + 11 * k * k) % 256])
MCkeccak256(words) == LET h == Sum(words) IN <<<<h % 16, h \div 16>>, <<(h \div 3) % 16, (h \div 7) % 16>>>>

MCHeader == <<17, 4, 99, 200>>
MCSeed == <<7, 2, 3, 4>>
\* The items of the light cache differ, so that a wrong parent shows.
ASSUME LightItemsDiffer ==
    LET light == build_light_cache(find_largest_prime(LightBound), EpochSeed)
    IN \A i, j \in DOMAIN light : light[i] = light[j] => i = j

MCMultiples == [cl |-> {1, 2, 3}, split |-> {1, 2}, cuda |-> {1, 2, 5}]

\* One that no hash meets, one that has the upper word of a hash and lower words below it, one
\* that four of the eight nonces meet.
MCBoundaries == {<<<<0, 0>>, <<0, 0>>>>, <<<<1, 2>>, <<0, 0>>>>, <<<<2, 15>>, <<3, 3>>>>}
=============================================================================
