------------------------------- MODULE Uint64 -------------------------------
(* The arithmetic of uint64_t, with a smaller word.                        *)
EXTENDS Integers

CONSTANT Word  \* 2^64 in the code

ASSUME WordAssumption == Word \in Nat \ {0}

Wrap(n) == n % Word
=============================================================================
