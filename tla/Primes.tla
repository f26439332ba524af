------------------------------- MODULE Primes -------------------------------
(* The search for a prime of ethash/lib/ethash/primes.c. *)
EXTENDS Integers

is_odd_prime(number) == \A d \in 3..(number - 1) : d % 2 = 1 /\ d * d <= number => number % d # 0

\* Descending from an odd number.
OddPrimeFrom[n \in Nat] == IF is_odd_prime(n) THEN n ELSE OddPrimeFrom[n - 2]

find_largest_prime(upper_bound) ==
    CASE upper_bound < 2 -> 0
      [] upper_bound = 2 -> 2
      [] OTHER -> OddPrimeFrom[IF upper_bound % 2 = 0 THEN upper_bound - 1 ELSE upper_bound]

=============================================================================
