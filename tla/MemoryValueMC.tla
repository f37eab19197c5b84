--------------------------- MODULE MemoryValueMC ----------------------------
(* An instance of MemoryValue for TLC: strings of up to half of a small     *)
(* address space, in which sums and capacities overflow.                    *)
EXTENDS MemoryValue, TLC

CONSTANTS x, y, m, s, v, u

MCChars     == {x, y}
MCLiterals  == {<<y, x>>}
MCTypeNames == {<<y, x>>}
MCMuts      == {m}
MCStrs      == {s}
MCVals      == {v, u}
MCBlocks    == 1 .. 2

ValueSymmetry == Permutations(MCVals)
=============================================================================
