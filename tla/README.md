# Uoozer Vault backend: TLA+ specifications

Uoozer Vault is an end-to-end encrypted file store. The server (Rust, axum, sqlx) keeps
accounts, devices, sessions, folders, files, versions and chunk records in PostgreSQL, and the
ciphertext of each chunk as one object in an R2 (S3) bucket. Clients upload and download the
objects themselves with presigned URLs. What can go wrong is therefore less in any one handler
than between them: PostgreSQL runs READ COMMITTED, most handlers read first and write later,
rows and objects are deleted by different systems, and the process may die between the two.

These modules model that: which rows a request reads, which it locks, what it writes and when,
what other requests and the background task may do in between, and what survives a crash.

Paths below are relative to the repository; `files/service.rs` stands for
`src/features/files/service.rs`, and likewise for the others.

## Inventory

| Part | State | Operations | Hard because | Correct when |
|---|---|---|---|---|
| File versions and uploads (`files/service.rs`, `chunks/service.rs`) | `files`, `file_versions`, `file_chunks` | create_file (with dedup), bulk_init_uploads, bulk_complete_uploads, create_version, verify_chunk, complete_upload, restore_version, delete_version, cancel_upload, trash, restore, permanent deletion one by one, in bulk, by emptying the trash, by the cleanup endpoint | concurrent swaps of the current version; unlocked reads before deletes; foreign keys that clear or cascade | one active version per file, and it is the current one; what is called complete can be downloaded; dedup answers with the right content |
| Storage deletion and cleanup (`files/cleanup.rs`, `storage/`) | `pending_storage_deletions`, the bucket, spawned tasks, the worker | best-effort deletion, hourly sweep of orphaned versions, hourly retry of recorded deletions | crashes between commit and deletion; failing deletes; a sweep without a transaction | no object in use is deleted; no object is forgotten; recorded deletions happen |
| Folder tree and trash (`folders/service.rs`, parts of `files/service.rs`) | `folders`, `files.folder_id`, `deleted_at` | create, bulk create, move, update, trash, restore, purge, empty trash | recursive queries over unlocked rows; a restore that matches trash times | a tree without cycles; contents of a trashed folder are trashed; nothing live is hidden; nothing goes by cascade |
| Sessions and devices (`auth/service.rs`, `devices/service.rs`, `core/middleware.rs`) | `devices`, `sessions` | login, refresh, logout, revoke_device, require_auth | rotation racing rotation, revocation racing rotation | one usable token per login; revocation is final |
| Accounts (`auth/service.rs`) | in-memory `pending_signups`, `users` | signup_init, signup_complete, the credentials of login, change_password | get and remove of a pending signup are two steps; keys are compared outside the transaction; memory is lost at a restart | one account per e-mail; a replaced key opens few sessions and soon none |
| Live sync (`app_state.rs`, `sync/handlers.rs`) | broadcast channels | subscribe, broadcast, lag | a subscription, a listing, a commit and an announcement in any order; a bounded ring | no change falls between a listing and the stream; gaps are announced |
| Shares (`files/service.rs`) | `item_shares` | create, read, revoke; purges revoke | no foreign key: a share can outlive its item | a folder share opens exactly what is live below the folder |
| Quota and validation (`files/service.rs`) | sum of `files.total_size` | check before insert | check-then-act; 64-bit sums | the overshoot is bounded; declared sizes add up |
| Profile, keys, avatar, audit, rate limits, configuration, errors, routing | single rows, append-only rows, none | single statements | little | out of scope |

The parts meet in the database and the bucket. Handlers call no other handler; FolderService and
FileService share `hard_delete_files` and `verify_folder_ownership`; the background task shares
only tables with the requests; `require_auth` runs before every handler but login, refresh,
signup and shared links.

## Modules

| Module | What it is |
|---|---|
| `FileVersions` | versions, chunks, objects, deletions, the background task; requests interleave |
| `Vault` | what the file service promises about content; `FileVersions` implements it |
| `MCFileVersions`, `FileVersionsProofs` | feature sets and symmetry for TLC; type correctness, the inductive invariant of rows and locks, two safety theorems |
| `ContentProofs` | what the rows promise about the bytes: downloads, the refinement of `Vault`, recorded deletions, dedup |
| `Sessions`, `MCSessions` | devices and sessions, requests interleave |
| `Accounts`, `MCAccounts`, `AccountsProofs` | signup, credentials and change of password composed with `Sessions`; proofs about both, the refinement of `Sessions` among them |
| `Folders`, `FoldersProofs` | the tree and the trash, whole requests; proofs |
| `FolderRaces`, `MCFolderRaces`, `FolderRacesProofs` | the same requests as reads followed by a commit; with one slot it implements `Folders`, proved |
| `Shares`, `MCShares`, `SharesProofs` | links to files and folders composed with `Folders`; the refinement of `Folders` and two theorems |
| `SyncStream`, `MCSyncStream`, `SyncStreamProofs` | one user's broadcast channel, the requests that announce, clients that list; proofs |
| `EventFeed` | what a sync stream promises a client; `SyncStream` implements it |
| `UploadQuota`, `MCUploadQuota`, `UploadQuotaProofs` | the checks before an upload is inserted: sizes and quota; proofs |

### How a request is modelled

In `FileVersions` and `Sessions` a request is a slot of `req` with a program point. An unlocked
`SELECT` is a step that stores what it read; `SELECT ... FOR UPDATE` is a step that also takes row
locks; the writes of a transaction become visible in one step, the commit, which waits for rows
locked by others and evaluates its `WHERE` clauses on the rows as they are then, as READ COMMITTED
does. Between steps anything else may happen. `Abort` (`End`, `Fail`) ends a request without
writing: a refusal, a constraint error, a deadlock victim, a lost connection. Early returns that
change nothing are not steps of their own.

Identifiers are opaque and fresh (UUID v4), hashes are members of a small set, and everything the
server only stores (names, encrypted metadata, nonces) is left out. Audit rows are left out;
sizes are in `UploadQuota` only and broadcasts in `SyncStream` only.

### FileVersions

| Variable | Code |
|---|---|
| `fileSt`, `fileHash`, `current` | rows of `files`: live, trashed (`deleted_at`) or gone; `plaintext_blake3`; `current_version_id` |
| `verSt`, `fileOf`, `verHash`, `aged` | rows of `file_versions`: `is_active`, `file_id`, `plaintext_blake3`, older than the sweep's cutoff |
| `chunkRows`, `uploadedAt` | rows of `file_chunks`, and those with `uploaded_at` |
| `pending` | rows of `pending_storage_deletions` |
| `objects`, `spawned` | the bucket; keys held by `delete_objects_best_effort` tasks that have not run |
| `locks`, `req`, `worker` | row locks, requests in flight, where `run_periodic_cleanup` is |

`DeleteRows` is the one place where foreign keys act: versions and chunks cascade, and
`files.current_version_id` is set to NULL. `CancelUploadCommit` follows the order of the three
DELETEs through it. `CONSTANT Feature` says which operations and events an instance has, so that a
run can ask a question of a part of the system; no action is changed by it, only enabled.
`late_put` is a PUT that arrives after the chunk's row has gone, `slow_upload` an upload that
takes longer than the sweep's 24 hours, `restore_unfinished` a restore of a version that was
never completed.

A few steps are coarser than the code: the ghost check's read of a key, its HEAD and its DELETE are
one step (`CreateFileGhost`; the hazard it has is that the file was looked up a step earlier), the
HEADs of `retry_pending_storage_deletions` and the
DELETE that follows are one step (`RetryConfirm`), and so is the loop of a bulk handler. An honest
client sends etags of chunks it has uploaded (`complete_upload` does not ask R2).

`bulk_init_uploads` and `bulk_complete_uploads` are modelled per item of the batch: the handler's
loop runs them one after the other, and completion writes the version's hash, then the file's,
then calls `complete_upload`, in three separate transactions. The placeholder hash of a file
initialised in bulk is `Null`. An honest client sends the same hash when it repeats a completion.

`MissingChunks`, `IsComplete` and `DownloadManifest` are what `get_resume_info`,
`precheck_version_completeness`, `verify_download_completeness` and `get_download_manifest` answer.

`Vault` has three variables: the version a file shows, the files that are gone for good, the
versions that can be read in full. Under the mapping `Promise`, a version is shown when it is
active and current, and readable when it has all chunk rows and objects.

### Sessions and Accounts

`deviceOf`, `revoked` and `rotatedTo` are columns of `sessions`, `devSt` that of `devices`; `root`
is a history variable, the login from which a session descends, which no column records. Refresh
tokens are named by their session. `RevokeScan` and `RevokeCommit` separate the snapshot of
`UPDATE sessions ... WHERE device_id` from its commit, which is what lets a session slip through.

`Accounts` adds `pendingSignups` (`AppState.pending_signups`), `authKey` (`users.auth_key_hash`)
and, per request, the key a login was accepted with and the pending signup it holds, for one
e-mail address. `signup_complete` is a `LoginCheck` and a `LoginCommit` of a new device to the
tables of `Sessions`, so its actions are conjunctions with those. Restarts happen when no request
is under way; a crash in the middle of one is `EndRequest` followed by `Restart`.

### Folders and FolderRaces

Folders and files are items with a `parent`; `deletedAt` is the commit's `now()` as a counter,
because restore_folder compares those times. The recursive queries are written as least closed
sets (`Subtree`, `Ancestors`, `LiveDescendants`). `UNION ALL` in the cycle check does not end on a
cycle, so `CycleCheck` is not enabled there. `cascaded` is a history variable: files that only the
foreign key deleted. `CheckedSpec` has the requests that check the parent they use; `Spec` adds
`create_folders_bulk` and `bulk_init_uploads`, which do not.

`FolderRaces` splits the requests into reads and a commit that uses what was read, with the
`FOR UPDATE` locks the code takes. With one slot it implements `Folders`: the abstract
specification is what a request promises, and the run shows that the split adds no behaviour.

`FileTree` and `FolderPath` are the two recursive listings, `get_folder_file_tree` and
`get_folder_path`. The first also joins the files with their current versions
(`folders/service.rs:685` and `741`), so a file that a cancelled upload has left without versions
is not listed; versions are in `FileVersions`, and here every file has one.

### Shares

`Shares` extends `Folders` with `item` and `dead` (`item_shares.item_id`, and `revoked_at` or
`expires_at`), and one `create_share` between its lookup and its INSERT. Each purge of `Folders`
is taken together with the revocations of the same transaction: `hard_delete_files` revokes the
shares of the files it was given, `permanent_delete_folder` and `bulk_delete` also those of the
folders. What a viewer gets (`GetShare`, `GetSharedFileManifest`) is computed from the state, as
the handlers do on every read. Chunks and presigned URLs are left out.

### SyncStream and EventFeed

One user, one channel. `log` is every event sent since the channel exists, of which the ring holds
the last `Cap`; each open stream has a cursor `next`. A change passes through the stages of the
request that makes it: committed, then announced (`create_folders_bulk` the other way round,
`Early`). The client is the environment: it lists once the stream has said "connected", and again
after "lagged"; the listing is one snapshot, although the endpoints are paged and per folder. `EventFeed` knows no ring and no cursors, only the events each client has not had
yet; the mapping takes them to be the part of `log` from the cursor on.

### UploadQuota

Sizes are from `-Top` to `Top - 1` and wrap; `Top` is 2^63 in the code. A sum of natural numbers is
the number of elements of a set with that many units for each of them (`Units`, `Sum`), which TLC
evaluates and which can be reasoned about without induction. A chunk loop that wraps every partial
sum ends with the wrapped sum (`WrappedSum`). `Acceptable` is the set of uploads that `Validate` lets through,
each with whether the integers really add up; requests check against the usage of that moment
(`Check`) and insert later. Rows are kept only as sizes.

## Runs

| Run | Instance | Checks | States |
|---|---|---|---|
| `files_races` | 1 file, 2 versions, 2 requests, every feature but bulk | `TypeOK`, `ActiveIsCurrent`, `QueuedUnreferenced`, `IndInv` | 1.03 M |
| `files_purge` | 1 file, 2 versions, 2 chunks, 2 requests; create, verify, restore, trash, permanently delete, crash | `Accounted`, `CompleteIsDownloadable`, `ContentInv`, `ImplementsVault` | 112 k |
| `files_sweep` | 1 file, 3 versions, 2 requests; new versions, cancel, ageing, crash | `ActiveIntact`, `ContentInv` | 724 k |
| `files_drain` | 1 file, 1 version, 2 chunks, 2 requests, batch of 1; bulk, cancel, purge, crash; fair | `Accounted`, `DedupMatchesContent`, `ContentInv`, `PendingDrained` | 69 k |
| `accounts_races` | 2 devices, 3 sessions, 3 requests, 1 signup token, 2 auth keys | `TypeOK`, `OneUsableToken`, `SessionsInv`, `SignupOnce`, `LateLoginsBounded`, `RotateOnce`, `RevocationSilences` | 468 k |
| `shares_tree` | 3 folders, 1 file, 1 share, 2 trash times; parents checked | `TypeOK`, `TrashClosed`, `Acyclic`, `NothingHidden`, `FolderShareExact`, `PurgeRevokesFileShares` | 37 k |
| `folder_requests` | 3 folders, 1 file, 2 trash times, 1 request, bulk creation included | `NoFileCascaded`, `ImplementsFolders` | 127 k |
| `sync_stream` | 2 clients, 3 changes (1 early), ring of 1; fair | `TypeOK`, `NothingSlips`, `Converges`, `ImplementsFeed` | 106 k |
| `quota` | 3 rows, 3 requests, batches of 2, quota 3, sizes from -8 to 7, up to 3 chunks | `OvershootBounded`, `ChunksAddUp`, `QuotaInv` | 155 k |

What they show, beyond the names:

- `ImplementsVault`: whatever requests interleave and wherever the server dies, a file shows at
  most one version, only one that can be read, there is no moment without one during a swap, and
  what is shown goes only with its file. `CompleteIsDownloadable` is the same promise for a client
  that asks before it downloads, and holds whatever the operations, for versions that the
  sweep's cutoff has not reached (`aged`).
- `ContentInv` is the inductive invariant behind these, with one conjunct for every set of
  operations; the three runs are the three sets, so that none of its implications is empty.
- `DedupMatchesContent`: an answer "deduplicated" names a version with the content asked for,
  although bulk completion writes the hash of the version and of the file in two statements. The
  order of the two matters (its mutant is the other order).
- `SignupOnce`: the UNIQUE e-mail, and nothing else, makes concurrent signups safe.
- `LateLoginsBounded`: a login that was checked with the old key may commit after the change of
  password, and its session stays. There are fewer such sessions than requests in flight, and the
  bound is reached (two of three requests). It takes a comparison with the row of that moment:
  if logins shared what one of them has read (the mutant), old keys would be good for ever.
- `FolderShareExact`: a folder share gives exactly the live files below a live folder, although
  the handler walks up from the file, skips the walk for direct children and purges of the trash
  leave the share row.
- `NothingSlips`, `Converges`: the order subscribe, "connected", list on one side and commit,
  announce on the other leaves no gap, with the "lagged" notice closing the one the ring opens.
- `OvershootBounded`: the quota is not a limit but a limit per concurrent request; the bound
  (requests in flight times the quota) is reached. `ChunksAddUp`: validation is exact for one or two
  chunks and modulo 2^64 beyond.

Three runs find a disagreement between the code and what the repository says of it:

| Run | Property | The repository says | What happens |
|---|---|---|---|
| `bug_cancel_race` | `CancelSparesCompleted` | "cannot cancel a completed upload" (`files/service.rs:1258`) | the check takes no lock; a completion in between loses its chunks and its file |
| `bug_reuse_chain` | `ReuseRevokesChain` | "Revoke the entire chain" (`auth/service.rs:455`) | only the reused session and the next are revoked |
| `bug_purge_cascade` | `NoFileCascaded` | folder rows only deleted after their files (migration 20250103, lines 2-3) | a file created between the purge's read and its DELETE goes by cascade, unrecorded |

The same models show more, and the hazards in `PROJECT.json` say where. `Accounted` (the "100%
guarantee" of migration 20250103) fails once `Feature` has `delete_version` or `late_put`, or
`create_version` together with `cancel_upload`, `bulk_purge`, `empty_trash`, `cleanup_endpoint`,
`age` or `restore_unfinished` (whose version the ghost check deletes unrecorded): `files_purge`
and `files_drain` have two sets of operations for which it holds, and `ObjectsAccounted` proves it
for more. `Acyclic` fails in `FolderRaces` with two slots (two moves that both passed the check),
and under `Spec` of `Folders`, where a folder created in bulk under a trashed one is not seen by
the cycle check. `ActiveIntact` fails with `slow_upload`, with `restore_unfinished`, and with
`restore_version` together with `age`, because the sweep deletes objects before it looks at the
rows again. Further:

- `cancel_upload` deletes the version before the file; the foreign key clears
  `current_version_id`, the DELETE of the file matches nothing and a file without versions stays,
  where `tests/cancel_cleanup.rs:68` asserts `file_count` is 0 (`CancelUploadCommit`).
- A refresh or login that commits after the scan of a device revocation leaves a session that is
  not revoked, where migration 2 says "kills all sessions for that device instantly"; `require_auth`
  still refuses it (`RevocationSilences`).
- `DedupMatchesContent` fails with `create_version`: `complete_upload` and `restore_version` leave
  `files.plaintext_blake3` at the first version's hash, which is what `create_file` compares;
  `precheck_upload` compares the version's.
- Two concurrent `create_file` of the same content both insert a file. Dedup looks for a version
  that is active (`files/service.rs:75`), which neither is before it is completed, and even the
  second of two requests in a row is not deduplicated; `tests/upload_validation.rs:482` and
  `tests/upload_edge_cases.rs:163` (`concurrent_dedup_safe`) assert "Exactly one request should be
  deduplicated". Without `RUN_E2E_STORAGE_TESTS` these tests return at once. `CreateFileCheck` and
  `CreateFileInsert` have the two steps; the instances have one file, so no run shows it.
- The sweep removes superseded versions after a day; the migration of `file_versions` says that
  all versions are retained.
- `TrashClosed`, `Acyclic`, `NothingHidden` and `FolderShareExact` fail under bulk creation in
  trashed folders.
- A share of one trashed file is refused by `get_share` ("paused until restored",
  `files/service.rs:1769`) and served by `get_shared_file_manifest`, which asks only for the id.
- `create_folders_bulk` announces before it commits: events of a transaction that is rolled back
  reach clients, and with `Early` changes included `NothingSlips` fails. `delete_file`,
  `bulk_delete`, `empty_trash`, `cancel_upload`, `delete_version`, the cleanup endpoint and the sweep
  announce nothing, and neither do `create_file`, `create_version` and `bulk_init_uploads`, whose
  uploads are announced when they complete; a client learns of these at its next listing, and
  `SyncStream` has no change for them. `seq` is 0 in file events and restarts at 0 with the
  server, so it orders nothing; the model leaves it out.

### Bounds

- One file and two versions are enough for every race on a pointer swap (one version replaces
  another); the sweep has three, so that an orphan, the current version and a third being
  uploaded exist together. Two chunks where partial uploads and batches matter, one elsewhere.
- Two request slots: every check-then-act race on files is between two requests, with the worker,
  the spawned deletions and the client's PUTs as further actors. Accounts has three, so that a
  refresh, another refresh and a revocation, or two signups and a login, overlap; one token is
  enough because two tokens of one e-mail race on nothing but the UNIQUE constraint.
- Three folders give a folder, its child and a target, and the shortest chain on which a trash
  time in the middle matters; `MaxTrash` bounds the number of trashings, two so
  that a subtree can be trashed in parts and restored in part, and the theorems cover any number.
  The invariants relate
  an item to its parent, and a share to one item, so one file and one share are enough.
- A ring of one slot and three changes make a reader lag, lag again and catch up; a second client
  keeps the channel alive while the first is away. `sync_stream` ends when the changes are used up
  and no client is left to act, but a client can always disconnect and connect, so deadlock is
  checked.
- Sizes below 8 (four-bit integers) with up to three chunks are the smallest instance in which a
  sum wraps all the way round to a valid value. Three requests and a batch of two reach the
  overshoot bound.
- Ids are never reused, so behaviours end when they run out. The worker, a crash or an empty
  `empty_trash` can always take a step, so no instance deadlocks and deadlock is checked.
- Symmetry is used in the safety runs only, over sets whose members no action tells apart.

### Fairness

`files_drain`: only the background task gets fairness. `run_periodic_cleanup` loops for ever and is
started with the server. It is strong fairness because a crash disables each step for a while: the
server comes back often enough, R2 is not down for ever, and the HEADs of a cycle eventually all
answer. Nothing is assumed of clients, of requests or of spawned deletions, which may be lost. A
key whose deletion always fails ("poison key") breaks the assumption, and then it really does
block its batch.

`sync_stream`: weak fairness of a handler that has committed and goes on to its broadcast (the
model lets it die instead, `Forget`), of the task that polls an open stream, and of the client's
listing when it has been told to list. Nothing makes a request start, a client connect, or the
transaction of `create_folders_bulk` end. `EventFeed` asks for weak fairness of delivery, which
follows.

## Proofs

TLAPS proves the following for every value of the constants allowed by the `ASSUME` of each
module (sets are disjoint where the code has separate tables, `Null` is not an id, bounds are
natural numbers, a version has at least one chunk, which both validations of an upload ask:
`total_chunks <= 0` is refused at `files/service.rs:683` and `749`). Finiteness is assumed only of
the rows and the requests of `UploadQuota`, whose sizes are added up, and of the requests of
`Accounts`, which are counted. `UploadQuota` also assumes what keeps two sums from wrapping: the
largest file with the overhead of the most chunks fits an i64 (500 GiB and 50 000 times 17 bytes
do, with room), and so do the sizes of a whole batch, which has at most 100 files
(`length(max = 100)` at `files/dto.rs:240`, applied at `files/handlers.rs:243`).

**FileVersionsProofs.** `TypeCorrect`, `IndInvCorrect`, `PointerSwapSafe` (`ActiveIsCurrent`) and
`QueueSafe` (`QueuedUnreferenced`). `ActiveIsCurrent` is not inductive: a request that is about
to activate a version must know that no other version of its file has become active since it read
them. The strengthening `IndInv` says so. `RowInv` has the foreign keys; `RequestInv` says that a
request between its `FOR UPDATE` and its commit holds the locks, that its version is still
inactive and that the versions it will deactivate are exactly the active ones; `cancel_upload` and
the purges hold no locks, and all that is left of what they read is which ids it was about.
`QueueInv` says that a queued key has lost its row and belongs to an id that no INSERT will use
again. The proof goes action by action; the actions that leave the rows alone share one lemma.

**ContentProofs.** What the rows say about the bucket. `StoredCorrect` and `CompleteDownloadable`
(`CompleteIsDownloadable`) hold of every instance. `CompleteIsDownloadable` is not inductive:
`verify_chunk` marks a row after a HEAD that it made earlier, and everything that deletes an
object does so long after it decided to. `StoredInv` says that a marked chunk has its object, that
a key which `verify_chunk` or `complete_upload` has found and not yet marked has it too or has
lost its row, that rows of a version come and go together, and that the worker only holds keys
whose rows are gone or whose version is a day old. That is why aged versions are left out, and
nothing else.

The other theorems have a hypothesis on `Feature`. Each is satisfied by an instance that TLC
explores, and the list of disagreements above says what happens without it.

| Theorem | Property | Hypothesis | Instances |
|---|---|---|---|
| `ActiveReadable`, `VaultImplemented` | `ActiveIntact`, `ImplementsVault` | `ContentSafe`: no restore of an unfinished version; if versions age, no upload longer than a day and no restore | `files_sweep`, `files_purge`, `files_drain` |
| `ObjectsAccounted` | `Accounted` | `KeysRecorded`: no removal that records nothing, no stray PUT; if there are new versions, only the removal that locks the file row | `files_purge`, `files_drain` |
| `DedupRight` | `DedupMatchesContent` | no `create_version` | `files_drain` |

`ContentCorrect` proves `ContentInv`, their conjunction, each part under its hypothesis.
`ActiveInv` says that a completing or restoring request has all marks, that it is not about an
aged version, and that the sweep holds no key of an active version: the sweep's scan and its
deletions are far apart, and only the age of the version keeps a completion from coming between.
`RecordInv` says that a removal has read every key whose row it is about to lose; it stays true
until the commit because the file row is locked (`permanently_delete_file`) or because there are
no new versions, and then the file has one version only (`OneVersion`). `HashInv` says that the
hash of a file is that of its only version or not written yet, and that a request between the two
statements of `bulk_complete_uploads` still has the version's. `FeatureInv` ties program points to
features, so that a hypothesis on `Feature` excludes the steps it is meant to exclude.
`VaultImplemented` goes action by action: the PUT or INSERT that makes a version whole is
`Vault`'s `Store`, a completion or restore its `Publish`, the deletion of rows or objects a
`Remove` (of no file, when only versions that nobody sees become unreadable), and the rest are
stutters.

**AccountsProofs**, about `Sessions`. `SessionsInvCorrect`, `RotationNeverForks` (`OneUsableToken`),
`RotationRespectsRevocation` (`RotateOnce`) and `RevocationIsFinal` (`RevocationSilences`). The
invariant says that a login has exactly one session that was not rotated (`LeafInv`), which is
stronger than one usable session and, unlike it, does not depend on revocations, and that a refresh
holds the lock on the row it read. `SessionsTypeCorrect` is its type invariant.

**AccountsProofs**, about `Accounts`. `AccountsImplementSessions` is a refinement: the initial states of the
composition are initial states of `Sessions` and every step is one of its steps or a stutter, so
`AccountsNeverFork` follows from the theorem about `Sessions`. `AccountCreatedOnce` (`SignupOnce`)
needs `AccountInv`: the account exists exactly when a signup has founded it, a session exists only
after the account, and a login is accepted only for an account that exists.
`LateLoginsAreBounded` (`LateLoginsBounded`) needs that and `LoginInv`: a request holds an accepted
key or a pending signup only while it is logging in, so the request that changes the password is
none of the logins it makes stale, and at most all the others are. From then on a stale login only
ends or becomes a late session, one for one, and while there is no account nobody holds a key that
its first one could make stale.

**SyncStreamProofs.** `SyncTypeCorrect` and `NothingSlipsBetween` (`NothingSlips`), for any ring
size. `NothingSlips` is inductive together with the type invariant, which says where cursors can
be and that only early changes are ever announced before they commit; without that last part the
commit of an announced change would break it. `FeedImplemented` is the safety half of
`ImplementsFeed`, `Spec => Feed!FeedSafety`: the part of the log from a client's cursor on is its
sequence of unread events. A broadcast appends to it (`UnreadGrows`), a receive takes its head,
and a lagged receive drops a prefix of exactly the length that the notice tells (`UnreadSuffix`);
a broadcast that nobody is subscribed to is a stutter.

**FoldersProofs.** `FoldersTypeCorrect` of the whole `Spec`; `TreeInvCorrect`, `TrashStaysClosed`,
`TreeStaysAcyclic` and `NothingIsHidden` of `CheckedSpec`. The three conjuncts of `TreeInv` need
each other: the cycle check walks live folders only, and is enough because nothing live is below a
trashed folder; restore_folder brings back rows with the folder's own trash time, and leaves no
gap because trash times do not decrease towards the root. The lemmas on `Subtree`,
`LiveDescendants` and `Ancestors` replace induction: a least closed set is contained in every
closed set. `NothingHidden` follows from `TreeInv`: what is above a live row is live and meets it
on the way down, and the set of folders above a row has, by `Acyclic`, one without a parent.
`PurgesAreExplicit` (`NoFileCascaded`) is of the whole `Spec`, unchecked bulk creation included.

**FolderRacesProofs.** `AloneImplementsFolders` (`ImplementsFolders`) and `AlonePurgesExplicitly`
(`NoFileCascaded`), for one request at a time (`OneSlot`; with two, `bug_purge_cascade` violates
the second). A read maps to a stutter and a commit to the whole request of `Folders`, which is
right only if what was read is what the request would read now. `RaceInv` says so for each program
point: the target of a move passed the check on the tree as it is, the folders and files a purge
has read are those of the subtree or of the trash. With one slot no other request's step comes
between a read and its commit, and the one remaining difference, that commits repeat a `WHERE`
clause on rows as they are, changes nothing.

**SharesProofs.** `SharesImplementFolders` is a refinement: a step of the composition is a step of
the tree with checked parents or leaves the tree alone, so `TreeInv` holds of the composition.
`FolderSharesExact` (`FolderShareExact`) needs it: the walk up from a file meets live folders only,
and reaches every live folder the file is below because nothing above a live row is trashed; two
lemmas, one for each direction, use that the walk and the subtree are least closed sets.
`PurgesRevokeFileShares` (`PurgeRevokesFileShares`) follows from `NoFileCascaded`: what a purge
deletes of files is what it names, and it revokes the shares of what it names.

**UploadQuotaProofs.** `QuotaInvCorrect` (`QuotaInv`), `OvershootIsBounded` (`OvershootBounded`)
and `UploadsAddUp` (`ChunksAddUp`), for any quota, limits, width of the integers, rows and number
of requests in flight. `OvershootBounded` is not inductive: a request that passes the check fits
in the quota together with what is kept in rows, but nothing in the bound says what the other
requests hold. `QuotaInv` adds that each holds at most a quota. Then a check takes no more than
the one quota that the others leave; an insertion moves what the request was granted to rows that
had none (`InsertKeeps`); every other step only gives back (`RowKeeps`). The lemmas on sums
replace induction: a sum is a cardinality, so that smaller sums are subsets (`SumMonotone`),
bounded ones are within a product (`SumBound`), parts are disjoint sets of units (`SumOfParts`),
and numbers that move to other places are the image of a surjection (`SumMoved`). For
`ChunksAddUp`, a wrapped sum differs from the sum by whole turns (`WrapTurns`); there are none
below zero since the expected size is less than `Top`, and fewer than half as many as chunks since
each chunk is less than `Top` (`ValidAddUp`). One or two chunks therefore add up exactly. The
sizes in a batch add up without wrapping (`NoWrap`).

Model-checked only:

- liveness and everything under fairness (`PendingDrained`, `Converges`, the fairness half of
  `ImplementsFeed`): out of the prover's reach;
- the three violations, which are counterexamples.

## Not modelled, and the plan

Every safety property that a passing run checks is a theorem. What is left to prove is what fails under weaker hypotheses today and would hold of
a corrected program, for example `Accounted` with purges that lock the file rows before they read
the keys.

Not modelled:

- Cryptography and token signing: library calls. A token stands for the session it names, a hash
  for the content.
- Rate limiting: refuses requests and changes no row. Audit rows: append-only, nothing reads them.
- Configuration, error mapping, routing, request and response types, base64 and length checks.
- Profile, avatar and device name: single statements on one row that nothing else reads.
- Paged listings of single tables (`list_files`, `list_folders`, `list_versions`, `list_shares`,
  `list_devices`, `list_sessions`), `access_type` of shares, presigned URLs.
- `maybe_cleanup_sse_channel`, `soft_delete_many` and `get_descendant_folder_ids`, which nothing
  calls.
- Users other than one. Most queries are restricted to the user's own rows. The UPDATEs of
  `bulk_complete_uploads` and the ghost deletion of `create_file` are not, and the model has them as
  they are (any version id, the file id that was read). Neither is the DELETE of orphaned versions
  in the cleanup endpoint (`files/service.rs:1399`), which like the sweep takes those of all users.
  `create_folders_bulk` (`folders/service.rs:605`) and `bulk_init_uploads` (`files/service.rs:1542`)
  leave the check of the parent to the foreign key, so it may be a folder of another user. A purge
  of that folder reads only the files of its owner (`files/service.rs:1112`), and the file of the
  other user goes by cascade, unrecorded. `NoFileCascaded`, its theorems `PurgesAreExplicit` and
  `AlonePurgesExplicitly`, and everything else about the tree are claims about one user's items.
