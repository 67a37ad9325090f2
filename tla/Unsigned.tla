------------------------------- MODULE Unsigned -------------------------------
(***************************************************************************)
(* The width of the counters, sums and sizes the readers work with: all    *)
(* are uint64_t, and arithmetic on them is modulo 2^64.                    *)
(***************************************************************************)
EXTENDS Integers

CONSTANT Word   \* uint64_t is 0 .. Word - 1
=============================================================================
