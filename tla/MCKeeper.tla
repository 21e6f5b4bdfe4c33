------------------------------ MODULE MCKeeper ------------------------------
(* Small instances of Keeper for TLC.                                       *)
EXTENDS Keeper, TLC

\* Keepers (and menus) are interchangeable: no definition tells them apart.
Symmetry == Permutations(Keepers) \union Permutations(Menus)
=============================================================================
