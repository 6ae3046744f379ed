---------------------------- MODULE FileVersions ----------------------------
(***************************************************************************)
(* The life of a file's versions and of the R2 objects that hold their     *)
(* chunks: FileService (features/files/service.rs), ChunkService           *)
(* (features/chunks/service.rs) and the background CleanupService          *)
(* (features/files/cleanup.rs), for the files of one user.                 *)
(*                                                                         *)
(* A request is a process with at most one database transaction.           *)
(* PostgreSQL runs READ COMMITTED: an unlocked SELECT reads committed rows *)
(* and promises nothing about them afterwards, so it is a step of its own; *)
(* SELECT ... FOR UPDATE is a step that takes row locks held until the     *)
(* commit; the writes of a transaction become visible in one step, its     *)
(* commit, which waits for every row it writes that another transaction    *)
(* has locked.  Between the steps of one request, other requests, the      *)
(* client's PUTs, the background worker and a crash may happen.            *)
(***************************************************************************)
EXTENDS Naturals, FiniteSets

CONSTANTS
    File,      \* file ids; each is used by at most one INSERT (UUID v4)
    Version,   \* version ids, likewise
    Chunk,     \* the chunk indexes of every upload; validation refuses one without chunks
    Content,   \* plaintext BLAKE3 hashes
    Req,       \* slots for requests in flight at the same time
    Null,      \* SQL NULL, and "nobody" for a lock
    Batch,     \* how many pending deletions the worker takes (500 in the code)
    Feature    \* which operations and environment events this instance has

Features ==
    {"create_version", "verify_chunk", "restore_version", "restore_unfinished",
     "delete_version", "cancel_upload", "trash", "permanently_delete_file",
     "bulk_purge", "empty_trash", "cleanup_endpoint", "age", "slow_upload",
     "late_put", "crash", "bulk"}

ASSUME ConstantsAssumption ==
    /\ File \cap Version = {}
    /\ Null \notin File \cup Version \cup Content \cup Req
    /\ Chunk # {}
    /\ Batch \in Nat \ {0}
    /\ Feature \subseteq Features

VARIABLES
    fileSt,      \* row of files: "none" (not yet inserted), "live", "trashed" (deleted_at set), "gone"
    fileHash,    \* files.plaintext_blake3
    current,     \* files.current_version_id
    verSt,       \* row of file_versions: "none", "inactive", "active", "gone"
    fileOf,      \* file_versions.file_id
    verHash,     \* file_versions.plaintext_blake3
    aged,        \* versions whose created_at is before the 24 h cutoff
    chunkRows,   \* keys with a row in file_chunks
    uploadedAt,  \* keys whose chunk row has uploaded_at set
    pending,     \* rows of pending_storage_deletions
    objects,     \* objects in the R2 bucket
    spawned,     \* keys held by best-effort deletions still to run
    locks,       \* row locks on files and file_versions
    req,         \* the requests in flight
    worker       \* the periodic cleanup task

dbVars == <<fileSt, fileHash, current, verSt, fileOf, verHash, chunkRows, uploadedAt, pending>>
vars == <<dbVars, aged, objects, spawned, locks, req, worker>>

\* The r2_key of a chunk: StorageService::chunk_key is injective in the version and the chunk.
Key == Version \X Chunk

KeysOf(V) == V \X Chunk
RowKeys(V) == {k \in chunkRows : k[1] \in V}
VersionsOf(F) == {v \in Version : fileOf[v] \in F}

FileExists(f) == fileSt[f] \in {"live", "trashed"}
VersionExists(v) == verSt[v] \in {"inactive", "active"}

\* Every chunk of v has uploaded_at set.
FullyUploaded(v) == KeysOf({v}) \subseteq uploadedAt

-----------------------------------------------------------------------------
(* Requests and locks *)

IdleReq == [at |-> "idle", file |-> Null, version |-> Null, hash |-> Null,
            keys |-> {}, stale |-> {}, files |-> {}]

Points == {"idle", "create_head", "create_insert", "version_insert", "verify_mark",
           "bulk_file_hash", "bulk_complete", "complete", "restore", "delete_version",
           "cancel_keys", "cancel_commit", "purge", "cleanup"}

Request == [at : Points, file : File \cup {Null}, version : Version \cup {Null},
            hash : Content \cup {Null}, keys : SUBSET Key,
            stale : SUBSET Version, files : SUBSET File]

Idle(r) == req[r].at = "idle"
Goto(r, q) == req' = [req EXCEPT ![r] = q]

\* No row in rows is locked by a transaction other than r's.
Available(r, rows) == \A x \in rows : locks[x] \in {Null, r}
Lock(r, rows) ==
    /\ Available(r, rows)
    /\ locks' = [x \in File \cup Version |-> IF x \in rows THEN r ELSE locks[x]]

\* The end of r's transaction, committed or not: its locks go and the handler returns.
Finish(r) ==
    /\ locks' = [x \in File \cup Version |-> IF locks[x] = r THEN Null ELSE locks[x]]
    /\ Goto(r, IdleReq)

(***************************************************************************)
(* DELETE of the rows of files F, of versions V and of the chunks of the   *)
(* versions C.  file_versions and file_chunks cascade; the foreign key on  *)
(* files.current_version_id is ON DELETE SET NULL.                         *)
(***************************************************************************)
DeleteRows(F, V, C) ==
    LET dead == V \cup VersionsOf(F)
    IN  /\ fileSt' = [f \in File |-> IF f \in F THEN "gone" ELSE fileSt[f]]
        /\ current' = [f \in File |-> IF current[f] \in dead THEN Null ELSE current[f]]
        /\ verSt' = [v \in Version |-> IF v \in dead THEN "gone" ELSE verSt[v]]
        /\ chunkRows' = {k \in chunkRows : k[1] \notin dead \cup C}
        /\ uploadedAt' = {k \in uploadedAt : k[1] \notin dead \cup C}
        /\ UNCHANGED <<fileHash, fileOf, verHash>>

-----------------------------------------------------------------------------
Init ==
    /\ fileSt = [f \in File |-> "none"]
    /\ fileHash = [f \in File |-> Null]
    /\ current = [f \in File |-> Null]
    /\ verSt = [v \in Version |-> "none"]
    /\ fileOf = [v \in Version |-> Null]
    /\ verHash = [v \in Version |-> Null]
    /\ aged = {} /\ chunkRows = {} /\ uploadedAt = {} /\ pending = {}
    /\ objects = {} /\ spawned = {}
    /\ locks = [x \in File \cup Version |-> Null]
    /\ req = [r \in Req |-> IdleReq]
    /\ worker = [at |-> "tick", keys |-> {}]

-----------------------------------------------------------------------------
(* create_file *)

\* The dedup query: a live file whose own hash is c and whose current version is active.
DedupCandidates(c) ==
    {f \in File : /\ fileSt[f] = "live" /\ fileHash[f] = c
                  /\ current[f] # Null /\ verSt[current[f]] = "active"}

CreateFileCheck(r, c) ==
    /\ Idle(r)
    /\ \/ /\ DedupCandidates(c) = {}
          /\ Goto(r, [IdleReq EXCEPT !.at = "create_insert", !.hash = c])
       \/ \E f \in DedupCandidates(c) :
             Goto(r, [IdleReq EXCEPT !.at = "create_head", !.hash = c,
                                     !.file = f, !.version = current[f]])
    /\ UNCHANGED <<dbVars, aged, objects, spawned, locks, worker>>

\* The dedup hit is believed: the response is the existing version, deduplicated.
CreateFileDedup(r) ==
    /\ req[r].at = "create_head"
    /\ \/ RowKeys({req[r].version}) = {}
       \/ RowKeys({req[r].version}) \cap objects # {}
    /\ Finish(r)
    /\ UNCHANGED <<dbVars, aged, objects, spawned, worker>>

\* Ghost dedup: HEAD finds the one chunk it tries missing, so the file row is deleted.
CreateFileGhost(r) ==
    LET f == req[r].file
    IN  /\ req[r].at = "create_head"
        /\ RowKeys({req[r].version}) \ objects # {}
        /\ Available(r, {f} \cup VersionsOf({f}))
        /\ DeleteRows({f}, {}, {})
        /\ Goto(r, [IdleReq EXCEPT !.at = "create_insert", !.hash = req[r].hash])
        /\ UNCHANGED <<pending, aged, objects, spawned, locks, worker>>

InsertVersion(v, f, c) ==
    /\ verSt[v] = "none"
    /\ verSt' = [verSt EXCEPT ![v] = "inactive"]
    /\ fileOf' = [fileOf EXCEPT ![v] = f]
    /\ verHash' = [verHash EXCEPT ![v] = c]
    /\ chunkRows' = chunkRows \cup KeysOf({v})

\* INSERT of the file, its first version and the chunks, in one transaction.
InsertFile(f, v, c) ==
    /\ fileSt[f] = "none"
    /\ fileSt' = [fileSt EXCEPT ![f] = "live"]
    /\ fileHash' = [fileHash EXCEPT ![f] = c]
    /\ current' = [current EXCEPT ![f] = v]
    /\ InsertVersion(v, f, c)
    /\ UNCHANGED <<uploadedAt, pending>>

CreateFileInsert(r, f, v) ==
    /\ req[r].at = "create_insert"
    /\ InsertFile(f, v, req[r].hash)
    /\ Finish(r)
    /\ UNCHANGED <<aged, objects, spawned, worker>>

(* bulk_init_uploads and bulk_complete_uploads, one item of the batch *)

\* No dedup, and a placeholder for the hash the client has not computed yet.
BulkInitUploads(r, f, v) ==
    /\ "bulk" \in Feature
    /\ Idle(r)
    /\ InsertFile(f, v, Null)
    /\ Finish(r)
    /\ UNCHANGED <<aged, objects, spawned, worker>>

\* Mutant: the first statement updates the file's hash, not the version's.
BulkCompleteFileFirst(r, v, c) ==
    /\ "bulk" \in Feature
    /\ Idle(r)
    /\ VersionExists(v) /\ Available(r, {v})
    /\ verHash[v] \in {Null, c}
    /\ fileHash' = [f \in File |-> IF current[f] = v THEN c ELSE fileHash[f]]
    /\ Goto(r, [IdleReq EXCEPT !.at = "bulk_file_hash", !.version = v, !.hash = c])
    /\ UNCHANGED <<fileSt, current, verSt, fileOf, verHash, chunkRows, uploadedAt, pending,
                   aged, objects, spawned, locks, worker>>

\* UPDATE file_versions in a statement of its own, whatever the state and owner of the version;
\* an honest client that repeats the request repeats the hash.
BulkCompleteHash(r, v, c) ==
    /\ "bulk" \in Feature
    /\ Idle(r)
    /\ VersionExists(v) /\ Available(r, {v})
    /\ verHash[v] \in {Null, c}
    /\ verHash' = [verHash EXCEPT ![v] = c]
    /\ Goto(r, [IdleReq EXCEPT !.at = "bulk_file_hash", !.version = v, !.hash = c])
    /\ UNCHANGED <<fileSt, fileHash, current, verSt, fileOf, chunkRows, uploadedAt, pending,
                   aged, objects, spawned, locks, worker>>

\* UPDATE files, in the next; then complete_upload is called, in a transaction.
BulkCompleteFileHash(r) ==
    LET F == {f \in File : current[f] = req[r].version}
    IN  /\ req[r].at = "bulk_file_hash"
        /\ Available(r, F)
        /\ fileHash' = [f \in File |-> IF f \in F THEN req[r].hash ELSE fileHash[f]]
        /\ Goto(r, [req[r] EXCEPT !.at = "bulk_complete"])
        /\ UNCHANGED <<fileSt, current, verSt, fileOf, verHash, chunkRows, uploadedAt, pending,
                       aged, objects, spawned, locks, worker>>

(* create_version: a second upload into an existing file *)

CreateVersionCheck(r, f, c) ==
    /\ "create_version" \in Feature
    /\ Idle(r)
    /\ fileSt[f] = "live"
    /\ ~ \E v \in VersionsOf({f}) : verSt[v] = "active" /\ verHash[v] = c
    /\ Goto(r, [IdleReq EXCEPT !.at = "version_insert", !.file = f, !.hash = c])
    /\ UNCHANGED <<dbVars, aged, objects, spawned, locks, worker>>

\* Mutant: no foreign key, so the file may have gone since the check.
CreateVersionUnowned(r, v) ==
    /\ req[r].at = "version_insert"
    /\ InsertVersion(v, req[r].file, req[r].hash)
    /\ Finish(r)
    /\ UNCHANGED <<fileSt, fileHash, current, uploadedAt, pending, aged, objects, spawned, worker>>

\* The foreign key takes a share lock on the file row, which FOR UPDATE excludes.
CreateVersionInsert(r, v) ==
    LET f == req[r].file
    IN  /\ req[r].at = "version_insert"
        /\ FileExists(f)
        /\ Available(r, {f})
        /\ InsertVersion(v, f, req[r].hash)
        /\ Finish(r)
        /\ UNCHANGED <<fileSt, fileHash, current, uploadedAt, pending, aged, objects, spawned, worker>>

-----------------------------------------------------------------------------
(* Uploading chunks *)

\* The client PUTs a chunk with its presigned URL.  "late_put": the URL outlives the chunk row.
PutChunk(k) ==
    /\ verSt[k[1]] # "none"
    /\ k \notin objects
    /\ k \in chunkRows \/ "late_put" \in Feature
    /\ objects' = objects \cup {k}
    /\ UNCHANGED <<dbVars, aged, spawned, locks, req, worker>>

\* Mutant: the client's etag is taken for the object.
VerifyChunkTrusting(r, k) ==
    /\ "verify_chunk" \in Feature
    /\ Idle(r)
    /\ k \in chunkRows \ uploadedAt
    /\ fileSt[fileOf[k[1]]] = "live"
    /\ Goto(r, [IdleReq EXCEPT !.at = "verify_mark", !.keys = {k}])
    /\ UNCHANGED <<dbVars, aged, objects, spawned, locks, worker>>

\* verify_chunk up to the HEAD that finds the object.
VerifyChunkHead(r, k) ==
    /\ "verify_chunk" \in Feature
    /\ Idle(r)
    /\ k \in chunkRows \ uploadedAt
    /\ fileSt[fileOf[k[1]]] = "live"
    /\ k \in objects
    /\ Goto(r, [IdleReq EXCEPT !.at = "verify_mark", !.keys = {k}])
    /\ UNCHANGED <<dbVars, aged, objects, spawned, locks, worker>>

\* Mutant: the mark is an upsert, so it survives the row.
VerifyChunkUpsert(r) ==
    /\ req[r].at = "verify_mark"
    /\ uploadedAt' = uploadedAt \cup req[r].keys
    /\ Finish(r)
    /\ UNCHANGED <<fileSt, fileHash, current, verSt, fileOf, verHash, chunkRows, pending,
                   aged, objects, spawned, worker>>

\* Mutant: the UPDATE is by version_id.
VerifyChunkMarkVersion(r) ==
    LET V == {k[1] : k \in req[r].keys}
    IN  /\ req[r].at = "verify_mark"
        /\ uploadedAt' = uploadedAt \cup RowKeys(V)
        /\ Finish(r)
        /\ UNCHANGED <<fileSt, fileHash, current, verSt, fileOf, verHash, chunkRows, pending,
                       aged, objects, spawned, worker>>

\* ... and the UPDATE by chunk_id, which touches nothing when the row has gone.
VerifyChunkMark(r) ==
    /\ req[r].at = "verify_mark"
    /\ uploadedAt' = uploadedAt \cup (req[r].keys \cap chunkRows)
    /\ Finish(r)
    /\ UNCHANGED <<fileSt, fileHash, current, verSt, fileOf, verHash, chunkRows, pending,
                   aged, objects, spawned, worker>>

\* What get_resume_info calls missing, and presigns a PUT for.
MissingChunks(v) == RowKeys({v}) \ uploadedAt

\* is_complete of precheck_version_completeness, and the answer of verify_download_completeness;
\* both ask only about versions of files that are not in the trash.
IsComplete(v) ==
    /\ VersionExists(v)
    /\ fileSt[fileOf[v]] = "live"
    /\ MissingChunks(v) = {}

\* The chunks get_download_manifest lists for v, active or not, in the trash or not.
DownloadManifest(v) == RowKeys({v})

-----------------------------------------------------------------------------
(* The pointer swap: complete_upload and restore_version *)

\* Mutant: the same SELECT without FOR UPDATE.
LookupVersion(r, v) ==
    /\ VersionExists(v)
    /\ fileSt[fileOf[v]] = "live"
    /\ UNCHANGED locks

\* SELECT v JOIN f ... FOR UPDATE, shared by complete_upload, restore_version and delete_version.
LockVersion(r, v) ==
    /\ VersionExists(v)
    /\ fileSt[fileOf[v]] = "live"
    /\ Lock(r, {fileOf[v], v})

\* The versions the transaction's UPDATE is_active = false will match.
ActiveSiblings(v) == {w \in VersionsOf({fileOf[v]}) : verSt[w] = "active" /\ w # v}

\* complete_upload, called by its handler or by bulk_complete_uploads.  An honest client sends
\* the etags of chunks it has PUT.
CompleteUploadLock(r, v, etags) ==
    /\ Idle(r) \/ (req[r].at = "bulk_complete" /\ req[r].version = v)
    /\ LockVersion(r, v)
    /\ verSt[v] = "inactive"
    /\ v \notin aged \/ "slow_upload" \in Feature
    /\ etags \subseteq objects
    /\ Goto(r, [IdleReq EXCEPT !.at = "complete", !.file = fileOf[v], !.version = v,
                               !.keys = etags, !.stale = ActiveSiblings(v)])
    /\ UNCHANGED <<dbVars, aged, objects, spawned, worker>>

RestoreVersionLock(r, v) ==
    /\ "restore_version" \in Feature
    /\ Idle(r)
    /\ LockVersion(r, v)
    /\ verSt[v] = "inactive"
    /\ FullyUploaded(v) \/ "restore_unfinished" \in Feature
    /\ Goto(r, [IdleReq EXCEPT !.at = "restore", !.file = fileOf[v], !.version = v,
                               !.stale = ActiveSiblings(v)])
    /\ UNCHANGED <<dbVars, aged, objects, spawned, worker>>

\* The UPDATEs that make v the one active version and the file's current one.
Activate(r) ==
    /\ verSt' = [w \in Version |-> IF w = req[r].version THEN "active"
                                   ELSE IF w \in req[r].stale THEN "inactive" ELSE verSt[w]]
    /\ current' = [current EXCEPT ![req[r].file] = req[r].version]

\* Mutant: the count of chunks not uploaded is not looked at.
CompleteUploadUncounted(r) ==
    /\ req[r].at = "complete"
    /\ Activate(r)
    /\ uploadedAt' = uploadedAt \cup (req[r].keys \cap chunkRows)
    /\ Finish(r)
    /\ UNCHANGED <<fileSt, fileHash, fileOf, verHash, chunkRows, pending,
                   aged, objects, spawned, worker>>

\* The etags mark their chunks; with chunks missing that alone is committed.
CompleteUploadCommit(r) ==
    LET marked == uploadedAt \cup (req[r].keys \cap chunkRows)
        rows   == RowKeys({req[r].version})
    IN  /\ req[r].at = "complete"
        /\ \/ /\ rows # {} /\ rows \subseteq marked
              /\ Activate(r)
           \/ /\ ~ (rows # {} /\ rows \subseteq marked)
              /\ UNCHANGED <<verSt, current>>
        /\ uploadedAt' = marked
        /\ Finish(r)
        /\ UNCHANGED <<fileSt, fileHash, fileOf, verHash, chunkRows, pending,
                       aged, objects, spawned, worker>>

RestoreVersionCommit(r) ==
    /\ req[r].at = "restore"
    /\ Activate(r)
    /\ Finish(r)
    /\ UNCHANGED <<fileSt, fileHash, fileOf, verHash, chunkRows, uploadedAt, pending,
                   aged, objects, spawned, worker>>

-----------------------------------------------------------------------------
(* Deleting one version: delete_version and cancel_upload *)

DeleteVersionLock(r, v) ==
    /\ "delete_version" \in Feature
    /\ Idle(r)
    /\ LockVersion(r, v)
    /\ verSt[v] = "inactive"
    /\ Goto(r, [IdleReq EXCEPT !.at = "delete_version", !.version = v])
    /\ UNCHANGED <<dbVars, aged, objects, spawned, worker>>

\* The keys go to a best-effort deletion after the commit, and to no table.
DeleteVersionCommit(r) ==
    LET v == req[r].version
    IN  /\ req[r].at = "delete_version"
        /\ spawned' = spawned \cup RowKeys({v})
        /\ DeleteRows({}, {v}, {})
        /\ Finish(r)
        /\ UNCHANGED <<pending, aged, objects, worker>>

\* The ownership and is_active check of cancel_upload takes no lock.
CancelUploadCheck(r, v) ==
    /\ "cancel_upload" \in Feature
    /\ Idle(r)
    /\ verSt[v] = "inactive"
    /\ Goto(r, [IdleReq EXCEPT !.at = "cancel_keys", !.file = fileOf[v], !.version = v])
    /\ UNCHANGED <<dbVars, aged, objects, spawned, locks, worker>>

CancelUploadKeys(r) ==
    /\ req[r].at = "cancel_keys"
    /\ Goto(r, [req[r] EXCEPT !.at = "cancel_commit", !.keys = RowKeys({req[r].version})])
    /\ UNCHANGED <<dbVars, aged, objects, spawned, locks, worker>>

\* Mutant: the deletes spare a version completed meanwhile, the pending rows are written anyway.
CancelUploadHalf(r) ==
    LET v == req[r].version
    IN  /\ req[r].at = "cancel_commit"
        /\ Available(r, {v, req[r].file})
        /\ DeleteRows({}, {w \in {v} : verSt[w] = "inactive"}, {})
        /\ pending' = pending \cup req[r].keys
        /\ spawned' = spawned \cup req[r].keys
        /\ Finish(r)
        /\ UNCHANGED <<aged, objects, worker>>

\* Mutant: cancel relies on the spawned deletion alone.
CancelUploadUnrecorded(r) ==
    LET v == req[r].version
    IN  /\ req[r].at = "cancel_commit"
        /\ Available(r, {v, req[r].file})
        /\ DeleteRows({}, {v}, {})
        /\ spawned' = spawned \cup req[r].keys
        /\ Finish(r)
        /\ UNCHANGED <<pending, aged, objects, worker>>

\* Mutant: the transaction commits after the DELETE of the chunks.
CancelUploadChunks(r) ==
    LET v == req[r].version
    IN  /\ req[r].at = "cancel_commit"
        /\ Available(r, {v, req[r].file})
        /\ DeleteRows({}, {}, {v})
        /\ pending' = pending \cup req[r].keys
        /\ spawned' = spawned \cup req[r].keys
        /\ Finish(r)
        /\ UNCHANGED <<aged, objects, worker>>

(***************************************************************************)
(* DELETE the chunks; DELETE the version if inactive, which sets the       *)
(* file's current_version_id to NULL if it was this version; DELETE the    *)
(* file if its current_version_id is (still) this version.                 *)
(***************************************************************************)
CancelUploadCommit(r) ==
    LET v == req[r].version
        f == req[r].file
        deadVersions == IF verSt[v] = "inactive" THEN {v} ELSE {}
        deadFiles == IF current[f] = v /\ v \notin deadVersions THEN {f} ELSE {}
    IN  /\ req[r].at = "cancel_commit"
        /\ Available(r, {v} \cup VersionsOf(deadFiles))
        /\ current[f] = v => Available(r, {f})
        /\ DeleteRows(deadFiles, deadVersions, {v})
        /\ pending' = pending \cup req[r].keys
        /\ spawned' = spawned \cup req[r].keys
        /\ Finish(r)
        /\ UNCHANGED <<aged, objects, worker>>

-----------------------------------------------------------------------------
(* Trash and permanent deletion *)

TrashFile(f) ==
    /\ "trash" \in Feature
    /\ fileSt[f] = "live" /\ locks[f] = Null
    /\ fileSt' = [fileSt EXCEPT ![f] = "trashed"]
    /\ UNCHANGED <<fileHash, current, verSt, fileOf, verHash, chunkRows, uploadedAt, pending,
                   aged, objects, spawned, locks, req, worker>>

RestoreFile(f) ==
    /\ "trash" \in Feature
    /\ fileSt[f] = "trashed" /\ locks[f] = Null
    /\ fileSt' = [fileSt EXCEPT ![f] = "live"]
    /\ UNCHANGED <<fileHash, current, verSt, fileOf, verHash, chunkRows, uploadedAt, pending,
                   aged, objects, spawned, locks, req, worker>>

PurgeRequest(point, F) ==
    [IdleReq EXCEPT !.at = point, !.files = F, !.keys = RowKeys(VersionsOf(F))]

\* Mutant: the file row is read without FOR UPDATE.
PermanentlyDeleteLookup(r, f) ==
    /\ "permanently_delete_file" \in Feature
    /\ Idle(r)
    /\ FileExists(f)
    /\ Goto(r, PurgeRequest("purge", {f}))
    /\ UNCHANGED <<dbVars, aged, objects, spawned, locks, worker>>

\* permanently_delete_file locks the file row before hard_delete_files collects the keys.
PermanentlyDeleteLock(r, f) ==
    /\ "permanently_delete_file" \in Feature
    /\ Idle(r)
    /\ FileExists(f)
    /\ Lock(r, {f})
    /\ Goto(r, PurgeRequest("purge", {f}))
    /\ UNCHANGED <<dbVars, aged, objects, spawned, worker>>

\* bulk_delete with permanent: the files are counted as owned, not locked.
BulkPurgeSelect(r, F) ==
    /\ "bulk_purge" \in Feature
    /\ Idle(r)
    /\ F # {} /\ \A f \in F : FileExists(f)
    /\ Goto(r, PurgeRequest("purge", F))
    /\ UNCHANGED <<dbVars, aged, objects, spawned, locks, worker>>

EmptyTrashSelect(r) ==
    LET F == {f \in File : fileSt[f] = "trashed"}
    IN  /\ "empty_trash" \in Feature
        /\ Idle(r)
        /\ F # {}
        /\ Goto(r, PurgeRequest("purge", F))
        /\ UNCHANGED <<dbVars, aged, objects, spawned, locks, worker>>

\* The user's cleanup endpoint: F are the files trashed before the cutoff it is given.
CleanupEndpointSelect(r, F) ==
    /\ "cleanup_endpoint" \in Feature
    /\ Idle(r)
    /\ \A f \in F : fileSt[f] = "trashed"
    /\ Goto(r, PurgeRequest("cleanup", F))
    /\ UNCHANGED <<dbVars, aged, objects, spawned, locks, worker>>

\* Mutant: the cutoff is forgotten.
OrphanedAtAnyAge == {v \in Version : verSt[v] = "inactive" /\ \A f \in File : current[f] # v}

\* What both sweeps call orphaned: inactive, older than the cutoff and no file's current version.
Orphaned == {v \in aged : verSt[v] = "inactive" /\ \A f \in File : current[f] # v}

(***************************************************************************)
(* hard_delete_files and the commit: every row of the files as they are    *)
(* now, but the keys as they were read.  The cleanup endpoint also deletes *)
(* the orphaned versions, whose keys its DELETE returns.                   *)
(***************************************************************************)
PurgeCommit(r) ==
    LET F == req[r].files
        V == IF req[r].at = "cleanup" THEN Orphaned \ VersionsOf(F) ELSE {}
        keys == req[r].keys \cup RowKeys(V)
    IN  /\ req[r].at \in {"purge", "cleanup"}
        /\ Available(r, F \cup VersionsOf(F) \cup V)
        /\ DeleteRows(F, V, {})
        /\ pending' = pending \cup keys
        /\ spawned' = spawned \cup keys
        /\ Finish(r)
        /\ UNCHANGED <<aged, objects, worker>>

-----------------------------------------------------------------------------
(* Storage deletions after the commit, the background task, failures *)

\* delete_objects_best_effort: an object is deleted, or the failure is only logged.
BestEffortDelete(k) ==
    /\ k \in spawned
    /\ spawned' = spawned \ {k}
    /\ objects' \in {objects, objects \ {k}}
    /\ UNCHANGED <<dbVars, aged, locks, req, worker>>

\* Twenty-four hours pass for v.  A sweep's cutoff is fixed when the sweep starts.
Age(v) ==
    /\ "age" \in Feature
    /\ VersionExists(v) /\ v \notin aged
    /\ worker.at \notin {"sweep_objects", "sweep_rows"}
    /\ locks[v] = Null \/ "slow_upload" \in Feature
    /\ aged' = aged \cup {v}
    /\ UNCHANGED <<dbVars, objects, spawned, locks, req, worker>>

\* CleanupService::cleanup_orphaned_versions: three statements, no transaction.
SweepScan ==
    /\ worker.at = "tick"
    /\ worker' = [at |-> "sweep_objects", keys |-> RowKeys(Orphaned)]
    /\ UNCHANGED <<dbVars, aged, objects, spawned, locks, req>>

SweepObjects ==
    /\ worker.at = "sweep_objects"
    /\ \E D \in SUBSET worker.keys : objects' = objects \ D
    /\ worker' = [at |-> "sweep_rows", keys |-> {}]
    /\ UNCHANGED <<dbVars, aged, spawned, locks, req>>

SweepRows ==
    /\ worker.at = "sweep_rows"
    /\ \A v \in Orphaned : locks[v] = Null
    /\ DeleteRows({}, Orphaned, {})
    /\ worker' = [at |-> "retry", keys |-> {}]
    /\ UNCHANGED <<pending, aged, objects, spawned, locks, req>>

\* Mutant: off by one, LIMIT excludes the last row of the batch.
RetryFetchFewer ==
    /\ worker.at = "retry"
    /\ \E B \in SUBSET pending :
          /\ Cardinality(B) = Batch - 1 \/ (B = pending /\ Cardinality(B) < Batch)
          /\ worker' = [at |-> IF B = {} THEN "tick" ELSE "retry_delete", keys |-> B]
    /\ UNCHANGED <<dbVars, aged, objects, spawned, locks, req>>

\* retry_pending_storage_deletions: the oldest Batch rows (rows of one commit are equally old).
RetryFetch ==
    /\ worker.at = "retry"
    /\ \E B \in SUBSET pending :
          /\ Cardinality(B) = Batch \/ (B = pending /\ Cardinality(B) < Batch)
          /\ worker' = [at |-> IF B = {} THEN "tick" ELSE "retry_delete", keys |-> B]
    /\ UNCHANGED <<dbVars, aged, objects, spawned, locks, req>>

RetryDelete ==
    /\ worker.at = "retry_delete"
    /\ objects' = objects \ worker.keys
    /\ worker' = [worker EXCEPT !.at = "retry_head"]
    /\ UNCHANGED <<dbVars, aged, spawned, locks, req>>

\* Mutant: the rows of a batch are deleted although its delete failed.
RetryDeleteForgets ==
    /\ worker.at = "retry_delete"
    /\ \E D \in SUBSET worker.keys : objects' = objects \ D
    /\ pending' = pending \ worker.keys
    /\ worker' = [at |-> "tick", keys |-> {}]
    /\ UNCHANGED <<fileSt, fileHash, current, verSt, fileOf, verHash, chunkRows, uploadedAt,
                   aged, spawned, locks, req>>

\* The batch delete reports an error; some of its objects may be gone all the same.
RetryDeleteFails ==
    /\ worker.at = "retry_delete"
    /\ \E D \in SUBSET worker.keys : objects' = objects \ D
    /\ worker' = [at |-> "tick", keys |-> {}]
    /\ UNCHANGED <<dbVars, aged, spawned, locks, req>>

\* HEAD found the keys of gone missing (a HEAD that fails says nothing): their rows are deleted.
RetryConfirm(gone) ==
    /\ worker.at = "retry_head"
    /\ pending' = pending \ gone
    /\ worker' = [at |-> "tick", keys |-> {}]
    /\ UNCHANGED <<fileSt, fileHash, current, verSt, fileOf, verHash, chunkRows, uploadedAt,
                   aged, objects, spawned, locks, req>>

\* A request dies with its transaction: deadlock victim, lost connection, constraint error.
Abort(r) ==
    /\ ~ Idle(r)
    /\ Finish(r)
    /\ UNCHANGED <<dbVars, aged, objects, spawned, worker>>

\* The server process dies: requests, spawned tasks and the worker's progress are lost.
Crash ==
    /\ "crash" \in Feature
    /\ req' = [r \in Req |-> IdleReq]
    /\ locks' = [x \in File \cup Version |-> Null]
    /\ spawned' = {}
    /\ worker' = [at |-> "tick", keys |-> {}]
    /\ UNCHANGED <<dbVars, aged, objects>>

-----------------------------------------------------------------------------
Upload(r) ==
    \/ \E c \in Content : CreateFileCheck(r, c)
    \/ CreateFileDedup(r)
    \/ CreateFileGhost(r)
    \/ \E f \in File, v \in Version : CreateFileInsert(r, f, v) \/ BulkInitUploads(r, f, v)
    \/ \E v \in Version, c \in Content : BulkCompleteHash(r, v, c)
    \/ BulkCompleteFileHash(r)
    \/ \E f \in File, c \in Content : CreateVersionCheck(r, f, c)
    \/ \E v \in Version : CreateVersionInsert(r, v)
    \/ \E k \in Key : VerifyChunkHead(r, k)
    \/ VerifyChunkMark(r)
    \/ \E v \in Version : \E etags \in SUBSET KeysOf({v}) : CompleteUploadLock(r, v, etags)
    \/ CompleteUploadCommit(r)
    \/ \E v \in Version : RestoreVersionLock(r, v)
    \/ RestoreVersionCommit(r)

Removal(r) ==
    \/ \E v \in Version : DeleteVersionLock(r, v)
    \/ DeleteVersionCommit(r)
    \/ \E v \in Version : CancelUploadCheck(r, v)
    \/ CancelUploadKeys(r)
    \/ CancelUploadCommit(r)
    \/ \E f \in File : PermanentlyDeleteLock(r, f)
    \/ \E F \in SUBSET File : BulkPurgeSelect(r, F)
    \/ EmptyTrashSelect(r)
    \/ \E F \in SUBSET File : CleanupEndpointSelect(r, F)
    \/ PurgeCommit(r)
    \/ Abort(r)

Environment ==
    \/ \E k \in Key : PutChunk(k)
    \/ \E f \in File : TrashFile(f)
    \/ \E f \in File : RestoreFile(f)
    \/ \E k \in Key : BestEffortDelete(k)
    \/ \E v \in Version : Age(v)
    \/ Crash

Background ==
    \/ SweepScan \/ SweepObjects \/ SweepRows
    \/ RetryFetch \/ RetryDelete \/ RetryDeleteFails
    \/ \E gone \in SUBSET (worker.keys \ objects) : RetryConfirm(gone)

Next == (\E r \in Req : Upload(r) \/ Removal(r)) \/ Environment \/ Background

Spec == Init /\ [][Next]_vars

(***************************************************************************)
(* run_periodic_cleanup loops for ever.  Strong fairness: however often    *)
(* the server crashes it keeps coming back and lives long enough for each  *)
(* step in turn, R2 is not down for ever (a batch delete tried again and   *)
(* again succeeds) and a cycle in which every HEAD answers comes round.    *)
(* Nothing is assumed of clients, requests or spawned tasks.               *)
(***************************************************************************)
Fairness ==
    /\ SF_vars(SweepScan) /\ SF_vars(SweepObjects) /\ SF_vars(SweepRows)
    /\ SF_vars(RetryFetch) /\ SF_vars(RetryDelete)
    /\ SF_vars(RetryConfirm(worker.keys \ objects))

FairSpec == Spec /\ Fairness

-----------------------------------------------------------------------------
(* Properties *)

\* Every row, lock and request is well formed, a chunk marked uploaded has its row, and a
\* request holds the locks it took until it ends (the FOR UPDATE of its first statement).
TypeOK ==
    /\ fileSt \in [File -> {"none", "live", "trashed", "gone"}]
    /\ fileHash \in [File -> Content \cup {Null}]
    /\ current \in [File -> Version \cup {Null}]
    /\ verSt \in [Version -> {"none", "inactive", "active", "gone"}]
    /\ fileOf \in [Version -> File \cup {Null}]
    /\ verHash \in [Version -> Content \cup {Null}]
    /\ aged \subseteq Version
    /\ chunkRows \subseteq Key /\ uploadedAt \subseteq chunkRows
    /\ pending \subseteq Key /\ objects \subseteq Key /\ spawned \subseteq Key
    /\ locks \in [File \cup Version -> Req \cup {Null}]
    /\ req \in [Req -> Request]
    /\ worker \in [at : {"tick", "sweep_objects", "sweep_rows", "retry", "retry_delete", "retry_head"},
                   keys : SUBSET Key]

\* complete_upload and restore_version swap the pointer atomically whatever runs beside them:
\* an active version is the current version of an existing file, so no file has two of them.
ActiveIsCurrent ==
    \A v \in Version : verSt[v] = "active" =>
        \E f \in File : fileOf[v] = f /\ FileExists(f) /\ current[f] = v

\* No deletion path queues an object that a chunk row still names: what the worker and the
\* spawned tasks delete from R2 can no longer be downloaded by anyone.
QueuedUnreferenced == (pending \cup spawned) \cap chunkRows = {}

\* A file whose upload was completed can be downloaded: its active version has all its chunk
\* rows (get_download_manifest) and all their objects.
ActiveIntact ==
    \A v \in Version : verSt[v] = "active" => KeysOf({v}) \subseteq chunkRows \cap objects

\* A client that is told a version is complete gets a manifest with every chunk of it, and
\* every object, whoever marked the chunks as uploaded and whatever was purged since.  A version
\* older than a day may be in the hands of the sweep, objects first.
CompleteIsDownloadable ==
    \A v \in Version \ aged : IsComplete(v) =>
        DownloadManifest(v) = KeysOf({v}) /\ DownloadManifest(v) \subseteq objects

\* The "100%" guarantee of pending_storage_deletions: an object no chunk row names is
\* recorded for deletion.
Accounted == objects \subseteq chunkRows \cup pending

\* ... and "a worker retries until HEAD confirms the object is gone".
PendingDrained ==
    \A k \in Key : (k \in pending) ~> (k \notin pending /\ k \notin objects)

\* The version a download of f gets, in or out of the trash.
ShownVersion(f) == IF \E v \in Version : verSt[v] = "active" /\ FileExists(f) /\ current[f] = v
                   THEN current[f] ELSE Null

Promise == INSTANCE Vault WITH
    gone     <- {f \in File : fileSt[f] = "gone"},
    shown    <- [f \in File |-> ShownVersion(f)],
    readable <- {v \in Version : KeysOf({v}) \subseteq chunkRows \cap objects}

\* The requests, their locks and their commits implement the promise of Vault: only a version
\* that can be read is published, the swap leaves no moment without a version, and a published
\* version goes only when another replaces it or its file is purged.
ImplementsVault == Promise!Spec

\* cancel_upload: "cannot cancel a completed upload": its commit leaves every active version.
CancelSparesCompleted ==
    [][\A r \in Req : CancelUploadCommit(r) =>
          \A v \in Version : verSt[v] = "active" => verSt'[v] = "active"]_vars

\* A create_file answered with "deduplicated" names a version with the content that was asked
\* for, although the hashes of file and version are written apart and can be left half written.
DedupMatchesContent ==
    \A r \in Req : req[r].at = "create_head" => verHash[req[r].version] = req[r].hash

-----------------------------------------------------------------------------
(* The inductive strengthening of ActiveIsCurrent and QueuedUnreferenced *)

\* Foreign keys: a version belongs to an existing file, a chunk to an existing version, and a
\* file points at one of its own versions.
RowInv ==
    /\ \A v \in Version : VersionExists(v) => fileOf[v] \in File /\ FileExists(fileOf[v])
    /\ \A v \in Version : verSt[v] = "none" => fileOf[v] = Null
    /\ \A k \in chunkRows : VersionExists(k[1])
    /\ \A f \in File : current[f] # Null => /\ VersionExists(current[f])
                                            /\ fileOf[current[f]] = f

\* Under FOR UPDATE, the version a request is about to swap in or delete stays inactive.
HoldsVersion(r) ==
    req[r].at \in {"complete", "restore", "delete_version"} =>
        /\ req[r].version \in Version
        /\ locks[req[r].version] = r
        /\ verSt[req[r].version] = "inactive"

\* ... and the versions it is about to deactivate are all the active ones of its file.
HoldsFile(r) ==
    req[r].at \in {"complete", "restore"} =>
        /\ req[r].file \in File
        /\ locks[req[r].file] = r
        /\ fileOf[req[r].version] = req[r].file
        /\ req[r].stale = {w \in Version : fileOf[w] = req[r].file /\ verSt[w] = "active"}

\* Without a lock, cancel_upload knows only what never changes.
KnowsUpload(r) ==
    req[r].at \in {"cancel_keys", "cancel_commit"} =>
        /\ req[r].version \in Version /\ verSt[req[r].version] # "none"
        /\ req[r].file \in File /\ fileOf[req[r].version] = req[r].file
        /\ req[r].keys \subseteq KeysOf({req[r].version})

KnowsFiles(r) ==
    /\ req[r].at \in {"purge", "cleanup"} => req[r].keys \subseteq KeysOf(VersionsOf(req[r].files))
    /\ req[r].at \in {"version_insert", "create_head"} => req[r].file \in File

\* What each request read before its commit and may still rely on.
RequestInv == \A r \in Req : HoldsVersion(r) /\ HoldsFile(r) /\ KnowsUpload(r) /\ KnowsFiles(r)

\* A queued key has lost its row, and its version id is not one a later INSERT could take.
QueueInv ==
    \A k \in pending \cup spawned : k \notin chunkRows /\ verSt[k[1]] # "none"

\* Checked by TLC as an invariant and proved inductive in FileVersionsProofs.
IndInv == RowInv /\ RequestInv /\ QueueInv /\ ActiveIsCurrent

-----------------------------------------------------------------------------
(* The inductive strengthening of the properties of content, proved in ContentProofs *)

\* No deletion takes chunk rows and leaves their version.
WholeRows == \A v \in Version : VersionExists(v) => KeysOf({v}) \subseteq chunkRows

\* A chunk that a request is about to mark as uploaded has its object, or has lost its row.
Marks(r) ==
    req[r].at \in {"verify_mark", "complete"} =>
        \A k \in req[r].keys : /\ verSt[k[1]] # "none"
                               /\ k \in objects \/ k \notin chunkRows \/ k[1] \in aged

\* The sweep deletes objects of aged versions only, the retry those that have lost their row.
WorkerInv ==
    /\ worker.at = "sweep_objects" => \A k \in worker.keys : k[1] \in aged
    /\ worker.at \in {"retry_delete", "retry_head"} =>
          \A k \in worker.keys : k \notin chunkRows /\ verSt[k[1]] # "none"

\* Whatever was marked as uploaded is stored, unless the sweep may have taken it.
StoredInv ==
    /\ WholeRows /\ WorkerInv
    /\ \A k \in uploadedAt : k \in objects \/ k[1] \in aged
    /\ \A k \in objects : verSt[k[1]] # "none"
    /\ \A r \in Req : Marks(r)

\* A request is where it is by an operation that this instance has.
FeatureInv ==
    /\ aged # {} => "age" \in Feature
    /\ \A r \in Req :
          /\ req[r].at = "version_insert" => "create_version" \in Feature
          /\ req[r].at = "restore" => "restore_version" \in Feature
          /\ req[r].at = "delete_version" => "delete_version" \in Feature
          /\ req[r].at \in {"cancel_keys", "cancel_commit"} => "cancel_upload" \in Feature
          /\ req[r].at = "cleanup" => "cleanup_endpoint" \in Feature
          /\ req[r].at = "purge" => \/ Feature \cap {"bulk_purge", "empty_trash"} # {}
                                    \/ \A f \in req[r].files : locks[f] = r

(***************************************************************************)
(* What ActiveIntact takes: no version is restored that was never          *)
(* completed, and where versions age an upload is completed on its first   *)
(* day and a superseded version stays superseded.                          *)
(***************************************************************************)
ContentSafe ==
    /\ "restore_unfinished" \notin Feature
    /\ "age" \in Feature => Feature \cap {"slow_upload", "restore_version"} = {}

ActiveInv ==
    /\ \A v \in Version : verSt[v] = "active" => KeysOf({v}) \subseteq uploadedAt \cap objects
    /\ \A r \in Req : req[r].at = "complete" /\ "age" \in Feature => req[r].version \notin aged
    /\ \A r \in Req : req[r].at = "restore" => FullyUploaded(req[r].version)
    /\ worker.at = "sweep_objects" => \A k \in worker.keys : verSt[k[1]] # "active"

(***************************************************************************)
(* What Accounted takes: none of the removals that record no key, and no   *)
(* new version between a removal's reading of the keys and its commit.     *)
(***************************************************************************)
KeysRecorded ==
    /\ Feature \cap {"restore_unfinished", "delete_version", "age", "late_put"} = {}
    /\ "create_version" \in Feature =>
          Feature \cap {"cancel_upload", "bulk_purge", "empty_trash", "cleanup_endpoint"} = {}

\* A file has no other version than its current one.
OneVersion == \A v \in Version : VersionExists(v) => current[fileOf[v]] = v

\* A removal has read every key it is about to lose the row of, and the version that dedup found
\* lacks no object, so that the ghost check deletes nothing.
KnowsKeys(r) ==
    /\ req[r].at \in {"purge", "cleanup"} =>
          /\ \A f \in req[r].files : fileSt[f] # "none"
          /\ RowKeys(VersionsOf(req[r].files)) \subseteq req[r].keys
    /\ req[r].at = "cancel_commit" => RowKeys({req[r].version}) \subseteq req[r].keys
    /\ req[r].at = "create_head" => /\ req[r].version \in Version
                                    /\ verSt[req[r].version] # "none"
                                    /\ RowKeys({req[r].version}) \subseteq uploadedAt

RecordInv ==
    /\ "create_version" \notin Feature => OneVersion
    /\ \A r \in Req : KnowsKeys(r)
    /\ Accounted

\* A request that has read or written the hash of a version still has it right.
KnowsHash(r) ==
    req[r].at \in {"bulk_file_hash", "create_head"} =>
        /\ req[r].version \in Version /\ verSt[req[r].version] # "none"
        /\ req[r].hash \in Content /\ verHash[req[r].version] = req[r].hash

\* For files with one version: the hash of a file is that of its current version, or not written
\* yet.  (create_version leaves the file the hash of its first version.)
HashInv ==
    /\ OneVersion
    /\ \A f \in File : current[f] # Null /\ fileHash[f] # Null => verHash[current[f]] = fileHash[f]
    /\ \A r \in Req : KnowsHash(r)

\* The bytes behind the rows: a chunk marked by verify_chunk has its object until its version is a
\* day old, and, of the operations this instance has, what completing, removing and hashing rely
\* on between their statements still holds when they commit.  Inductive with IndInv.
ContentInv ==
    /\ StoredInv /\ FeatureInv
    /\ ContentSafe => ActiveInv
    /\ KeysRecorded => RecordInv
    /\ "create_version" \notin Feature => HashInv
=============================================================================
