------------------------------- MODULE MCHost -------------------------------
(***************************************************************************)
(* Instances of Host for TLC.  Keys and items are interchangeable.         *)
(***************************************************************************)
EXTENDS Host, TLC

Symmetry == Permutations(Keys) \union Permutations(Items)

=============================================================================
