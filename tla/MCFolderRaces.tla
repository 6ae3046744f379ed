--------------------------- MODULE MCFolderRaces ----------------------------
(* Instances of FolderRaces for TLC. *)
EXTENDS FolderRaces, TLC

\* Folders, files and request slots are interchangeable.
Symmetry == Permutations(Folder) \cup Permutations(File) \cup Permutations(Req)
=============================================================================
