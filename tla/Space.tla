------------------------------- MODULE Space -------------------------------
(* logger::space (space.h): sizes as a count of a unit, after the pattern of  *)
(* std::chrono.  A count is a size_t, so all arithmetic on it is modulo the   *)
(* size of the word.                                                          *)
EXTENDS Naturals

CONSTANTS Word,   \* 2^64 in the code
          Kilo    \* 1024 in the code

ASSUME SpaceAssumption == Word \in Nat \ {0} /\ Kilo \in Nat \ {0}

\* The periods of the units: the bytes one of them stands for.
B == 1
KB == Kilo
MB == Kilo * Kilo

Count(n) == n % Word

\* The reduced ratio of two periods, one of which divides the other.
Multiplies(from, to) == IF from >= to THEN from \div to ELSE 1
Divides(from, to) == IF from >= to THEN 1 ELSE to \div from

\* The product is taken before the quotient, in a word.
space_cast(n, from, to) == Count(n * Multiplies(from, to)) \div Divides(from, to)
=============================================================================
