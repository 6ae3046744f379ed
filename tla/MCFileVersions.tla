--------------------------- MODULE MCFileVersions ---------------------------
(* Instances of FileVersions for TLC. *)
EXTENDS FileVersions, TLC

\* Files, versions and request slots are interchangeable.
Symmetry == Permutations(File) \cup Permutations(Version) \cup Permutations(Req)

\* Everything but bulk uploads, with restores of unfinished uploads, day-long uploads and
\* stray PUTs.
AllFeatures == Features \ {"bulk"}

\* The background sweep beside uploads that finish within its 24 hours.
Sweeping == {"create_version", "cancel_upload", "age", "crash"}

\* New and restored versions, with the one removal that locks the file row and records every key.
LockedPurge == {"create_version", "verify_chunk", "restore_version", "trash",
                "permanently_delete_file", "crash"}

\* Files with one version, created one by one or in bulk, cancelled or purged.
CancelAndPurge == {"bulk", "cancel_upload", "trash", "permanently_delete_file", "crash"}

CancelOnly == {"cancel_upload"}
=============================================================================
