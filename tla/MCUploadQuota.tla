--------------------------- MODULE MCUploadQuota ----------------------------
(* Instances of UploadQuota for TLC. *)
EXTENDS UploadQuota, TLC

\* Rows and request slots are interchangeable.
Symmetry == Permutations(File) \cup Permutations(Req)
=============================================================================
