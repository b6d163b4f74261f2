---------------------------- MODULE MCOrderEntry -----------------------------
(***************************************************************************)
(* OrderEntry for TLC: the posters that meet no fault are interchangeable, *)
(* and bid and offer at either price, for one contract or for two.         *)
(***************************************************************************)
EXTENDS OrderEntry, TLC

MCOffers ==
    {ByHand([side |-> "YES", price |-> 1, qty |-> 2]), ByHand([side |-> "YES", price |-> 2, qty |-> 1]),
     ByHand([side |-> "NO", price |-> 1, qty |-> 1]), ByHand([side |-> "NO", price |-> 2, qty |-> 2])}

Symmetry == Permutations(Posters \ Faulty)
==============================================================================
