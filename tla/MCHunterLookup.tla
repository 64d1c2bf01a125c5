--------------------------- MODULE MCHunterLookup ---------------------------
(***************************************************************************)
(* Small instances of the contact lookups.                                 *)
(***************************************************************************)
EXTENDS HunterProperties

CONSTANTS c1, c2, d1, d2

Swaps == Permutations(Caller) \cup Permutations(Key)
=============================================================================
