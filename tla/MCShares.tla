------------------------------ MODULE MCShares ------------------------------
(* Instances of Shares for TLC. *)
EXTENDS Shares, TLC

\* Folders are interchangeable.
Symmetry == Permutations(Folder)
=============================================================================
