---------------------------- MODULE UploadQuota -----------------------------
(***************************************************************************)
(* The checks an upload passes before its rows are inserted, in create_file *)
(* and bulk_init_uploads (features/files/service.rs): the sizes the client *)
(* declares must add up, and with them the user must stay in the quota.    *)
(* The usage is read in one statement, compared in the server and acted on *)
(* in a later transaction.                                                 *)
(*                                                                         *)
(* Sizes are i64.  The release build has no overflow checks, so sums wrap. *)
(* Only sizes are kept of a file: its id is free again once its row goes.  *)
(***************************************************************************)
EXTENDS Integers, Sequences, FiniteSets, Functions

CONSTANTS
    File,         \* room for rows of files: a bound
    Req,          \* slots for requests in flight at the same time
    Quota,        \* USER_STORAGE_QUOTA_BYTES (10 GiB)
    MaxFileSize,  \* MAX_FILE_SIZE (500 GiB)
    MaxChunks,    \* MAX_CHUNKS_PER_FILE (50 000)
    MaxBatch,     \* bound: files in one bulk_init_uploads
    Overhead,     \* bytes that encryption adds to each chunk (17)
    Top           \* 2^63: an i64 is from -Top to Top - 1

ASSUME QuotaAssumption ==
    /\ {Quota, MaxFileSize, Overhead} \subseteq Nat
    /\ {MaxChunks, MaxBatch, Top} \subseteq Nat \ {0}
    /\ MaxFileSize + Overhead * MaxChunks < Top
    /\ MaxBatch * MaxFileSize < Top  \* a batch has at most 100 files
    /\ IsFiniteSet(File) /\ IsFiniteSet(Req)

VARIABLES
    fileSt,    \* "none", "live", "trashed" (deleted_at set)
    size,      \* files.total_size
    restored,  \* files brought back by restore_file (history)
    req        \* per request: the uploads it has accepted and not yet inserted

vars == <<fileSt, size, restored, req>>

Live == {f \in File : fileSt[f] = "live"}

\* The sum of the values of f, natural numbers: f[x] units for each x, counted.
Units(f) == UNION {{x} \X (1..f[x]) : x \in DOMAIN f}
Sum(f) == Cardinality(Units(f))

SizesOf(F) == [f \in F |-> size[f]]

\* Mutant: the files in the trash are counted instead.
UsageTrashed == Sum(SizesOf({f \in File : fileSt[f] = "trashed"}))

Usage == Sum(SizesOf(Live))

\* i64 addition wraps.  To wrap every partial sum is to wrap the sum.
Wrap(n) == ((n + Top) % (2 * Top)) - Top
WrappedSum(s) == Wrap(Sum(s))

\* What a client may declare: the size of the file and the sizes of its chunks, all i64.
Declared == 0..MaxFileSize
ChunkSizes == UNION {[1..n -> 1..(Top - 1)] : n \in 1..MaxChunks}
Expected(total, chunks) == total + Overhead * Len(chunks)

\* Mutant: the sum is kept in a narrower integer.
ValidateNarrow(total, chunks) == (Sum(chunks) - Expected(total, chunks)) % Top = 0

\* validate_create_request and validate_bulk_init_request.
Validate(total, chunks) == WrappedSum(chunks) = Expected(total, chunks)

\* The reference: the integers add up, or are too large by a number of whole turns of an i64, fewer
\* than half as many as there are chunks: one or two chunks add up exactly.
AddUp(total, chunks) ==
    \E turns \in 0..Len(chunks) :
        /\ Sum(chunks) = Expected(total, chunks) + turns * (2 * Top)
        /\ 2 * turns < Len(chunks)

\* What is kept of an upload that was accepted.
Upload(total, chunks) == [size |-> total, addsUp |-> AddUp(total, chunks)]

Acceptable ==
    {Upload(u[1], u[2]) : u \in {v \in Declared \X ChunkSizes : Validate(v[1], v[2])}}

Sizes(uploads) == [i \in DOMAIN uploads |-> uploads[i].size]

Init ==
    /\ fileSt = [f \in File |-> "none"]
    /\ size = [f \in File |-> 0]
    /\ restored = {}
    /\ req = [r \in Req |-> <<>>]

-----------------------------------------------------------------------------
\* Mutant: the usage alone is compared.
WithinQuotaBefore(bytes) == Usage < Quota

WithinQuota(bytes) == Usage + bytes <= Quota

\* The checks: one upload in create_file, a batch in bulk_init_uploads.
Check(r, uploads) ==
    /\ req[r] = <<>>
    /\ WithinQuota(WrappedSum(Sizes(uploads)))
    /\ req' = [req EXCEPT ![r] = uploads]
    /\ UNCHANGED <<fileSt, size, restored>>

\* The transaction that inserts them; the usage is not looked at again.
Insert(r, place) ==
    /\ req[r] # <<>>
    /\ \A i \in DOMAIN req[r] : fileSt[place[i]] = "none"
    /\ fileSt' = [f \in File |-> IF f \in Range(place) THEN "live" ELSE fileSt[f]]
    /\ size' = [f \in File |-> IF f \in Range(place)
                               THEN req[r][CHOOSE i \in DOMAIN place : place[i] = f].size
                               ELSE size[f]]
    /\ req' = [req EXCEPT ![r] = <<>>]
    /\ UNCHANGED restored

\* A dedup hit, a decoding error, a rollback, a lost connection.
Abandon(r) ==
    /\ req[r] # <<>>
    /\ req' = [req EXCEPT ![r] = <<>>]
    /\ UNCHANGED <<fileSt, size, restored>>

\* Trashed files do not count ...
TrashFile(f) ==
    /\ fileSt[f] = "live"
    /\ fileSt' = [fileSt EXCEPT ![f] = "trashed"]
    /\ UNCHANGED <<size, restored, req>>

\* ... and restore_file does not ask whether they fit.
RestoreFile(f) ==
    /\ fileSt[f] = "trashed"
    /\ fileSt' = [fileSt EXCEPT ![f] = "live"]
    /\ restored' = restored \cup {f}
    /\ UNCHANGED <<size, req>>

\* Every way a row of files is deleted.
RemoveFile(f) ==
    /\ fileSt[f] # "none"
    /\ fileSt' = [fileSt EXCEPT ![f] = "none"]
    /\ size' = [size EXCEPT ![f] = 0]
    /\ restored' = restored \ {f}
    /\ UNCHANGED req

Places(n) == {p \in [1..n -> File] : IsInjective(p)}

Next ==
    \/ \E r \in Req, n \in 1..MaxBatch : \E uploads \in [1..n -> Acceptable] : Check(r, uploads)
    \/ \E r \in Req : \E place \in Places(Len(req[r])) : Insert(r, place)
    \/ \E r \in Req : Abandon(r)
    \/ \E f \in File : TrashFile(f) \/ RestoreFile(f) \/ RemoveFile(f)

Spec == Init /\ [][Next]_vars

-----------------------------------------------------------------------------
(* Properties *)

\* Bytes that a request has been granted.
Granted(r) == Sum(Sizes(req[r]))

\* The quota is exceeded by no more than the requests in flight were granted: with n requests at
\* a time a user fills at most n quotas, not counting what is brought back from the trash.
OvershootBounded ==
    Sum(SizesOf(Live \ restored)) + Sum([r \in Req |-> Granted(r)]) <= Quota * Cardinality(Req)

\* What the client declared of an accepted upload adds up, although the sum of the chunk sizes
\* may have wrapped.
ChunksAddUp == \A r \in Req : \A i \in DOMAIN req[r] : req[r][i].addsUp

\* Rows and requests are well formed, and only a file that has a row was restored.
TypeOK ==
    /\ fileSt \in [File -> {"none", "live", "trashed"}]
    /\ size \in [File -> Declared]
    /\ restored \subseteq {f \in File : fileSt[f] # "none"}
    /\ req \in [Req -> UNION {[1..n -> Acceptable] : n \in 0..MaxBatch}]

(***************************************************************************)
(* The inductive strengthening of OvershootBounded, proved in              *)
(* UploadQuotaProofs: what one request was granted is within the quota, so *)
(* that the others leave a quota for the one that is checked.              *)
(***************************************************************************)
QuotaInv ==
    /\ TypeOK
    /\ \A r \in Req : Granted(r) <= Quota
    /\ OvershootBounded
=============================================================================
