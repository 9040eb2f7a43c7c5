----------------------------- MODULE MCJobQueue -----------------------------
(***************************************************************************)
(* Instances of JobQueue for TLC.  Devices, accounts and identities are    *)
(* model values; devices and identities are interchangeable in the runs    *)
(* that check no liveness.                                                 *)
(***************************************************************************)
EXTENDS JobQueue, TLC

Symmetry == Permutations(Devices) \union Permutations(Idents)

=============================================================================
