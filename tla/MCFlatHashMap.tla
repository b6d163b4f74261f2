---------------------------- MODULE MCFlatHashMap ----------------------------
(* FlatHashMap for TLC: keys and values are interchangeable, because every   *)
(* hash function is an initial state.                                        *)
EXTENDS FlatHashMap, TLC

Symmetry == Permutations(Keys) \cup Permutations(Values)
==============================================================================
