------------------------------ MODULE Folders -------------------------------
(***************************************************************************)
(* One user's folder tree and its trash: FolderService                     *)
(* (features/folders/service.rs) and the operations of FileService that    *)
(* move, trash, restore and purge files (features/files/service.rs).       *)
(*                                                                         *)
(* Each action is a whole request with nothing running beside it;          *)
(* FolderRaces lets requests interleave.  Folders and files are items: the *)
(* parent of a folder is its parent_folder_id, of a file its folder_id.    *)
(* The recursive queries (WITH RECURSIVE ... UNION) compute the smallest   *)
(* set that has the base rows and is closed under the join, and are        *)
(* written as that.                                                        *)
(***************************************************************************)
EXTENDS Naturals

CONSTANTS
    Folder,    \* folder ids; each is used by at most one INSERT
    File,      \* file ids, likewise
    Null,      \* SQL NULL, the parent of a root
    MaxTrash   \* bound: how many operations trash something

ASSUME FoldersAssumption ==
    /\ Folder \cap File = {}
    /\ Null \notin Folder \cup File
    /\ MaxTrash \in Nat

Item == Folder \cup File

VARIABLES
    rows,       \* items with a row in folders or files
    used,       \* ids that an INSERT has used
    parent,     \* parent_folder_id, folder_id
    deletedAt,  \* deleted_at: 0 for NULL, otherwise the now() of the transaction that trashed it
    clock,      \* the latest of these
    cascaded    \* files deleted by ON DELETE CASCADE and not by hard_delete_files (history)

vars == <<rows, used, parent, deletedAt, clock, cascaded>>

Live(x) == x \in rows /\ deletedAt[x] = 0
Trashed(x) == x \in rows /\ deletedAt[x] # 0

\* Rows reachable from the rows of D by parent_folder_id and folder_id.
Subtree(D) ==
    {x \in rows : \A S \in SUBSET rows :
        D \cap rows \subseteq S /\ (\A y \in rows : parent[y] \in S => y \in S) => x \in S}

\* is_descendant_or_self walks down through live folders only.
LiveDescendants(d) ==
    {x \in rows : \A S \in SUBSET rows :
        ({d} \cap rows \subseteq S) /\ (\A y \in rows : Live(y) /\ parent[y] \in S => y \in S)
        => x \in S}

\* The folders above x: the chain of the two restores.
Ancestors(x) ==
    {p \in Folder : \A S \in SUBSET Folder :
        parent[x] \in S \cup {Null} /\ (\A y \in S : parent[y] \in S \cup {Null}) => p \in S}

\* verify_folder_ownership, for an optional folder.
Target(p) == p = Null \/ Live(p)

Init ==
    /\ rows = {} /\ used = {}
    /\ parent = [x \in Item |-> Null]
    /\ deletedAt = [x \in Item |-> 0]
    /\ clock = 0
    /\ cascaded = {}

-----------------------------------------------------------------------------
(* Creating and moving *)

Insert(x, p) ==
    /\ x \notin used
    /\ rows' = rows \cup {x}
    /\ used' = used \cup {x}
    /\ parent' = [parent EXCEPT ![x] = p]
    /\ UNCHANGED <<deletedAt, clock, cascaded>>

\* create_folder and create_file.
Create(x, p) == Target(p) /\ Insert(x, p)

\* create_folders_bulk: the client chooses the id and the foreign key is the only check of the
\* parent, which may be trashed, the folder itself or (outside this model) another user's.
CreateFoldersBulk(d, p) == p \in rows \cup {d} /\ Insert(d, p)

\* bulk_init_uploads: likewise, the folder may be trashed or another user's.
BulkInitUploads(f, p) == p \in rows /\ Insert(f, p)

Reparent(x, p) ==
    /\ parent' = [parent EXCEPT ![x] = p]
    /\ UNCHANGED <<rows, used, deletedAt, clock, cascaded>>

\* Mutant: only the immediate children are looked at.
MoveFolderShallow(d, p) ==
    /\ Live(d) /\ Target(p)
    /\ p # d /\ (p # Null => parent[p] # d)
    /\ Reparent(d, p)

\* The walk must end without meeting p; on a cycle through d its UNION ALL never ends.
CycleCheck(d, p) == p # Null => p # d /\ {p, parent[d]} \cap LiveDescendants(d) = {}

\* move_folder, and update_folder when it changes the parent.
MoveFolder(d, p) ==
    /\ Live(d) /\ Target(p)
    /\ CycleCheck(d, p)
    /\ Reparent(d, p)

\* move_file, and update_file when it changes the folder.
MoveFile(f, p) ==
    /\ Live(f) /\ Target(p)
    /\ Reparent(f, p)

-----------------------------------------------------------------------------
(* Trash and restore *)

\* Mutant: deleted_at is set whatever it was.
TrashAgain(X) ==
    /\ clock < MaxTrash
    /\ clock' = clock + 1
    /\ deletedAt' = [x \in Item |-> IF x \in X THEN clock + 1 ELSE deletedAt[x]]
    /\ UNCHANGED <<rows, used, parent, cascaded>>

\* UPDATE ... SET deleted_at = now() ... AND deleted_at IS NULL.  One that finds nothing live is
\* no step.
Trash(X) ==
    /\ clock < MaxTrash
    /\ \E x \in X : Live(x)
    /\ clock' = clock + 1
    /\ deletedAt' = [x \in Item |-> IF x \in X /\ Live(x) THEN clock + 1 ELSE deletedAt[x]]
    /\ UNCHANGED <<rows, used, parent, cascaded>>

DeleteFile(f) == Live(f) /\ Trash({f})

DeleteFolder(d) == Live(d) /\ Trash(Subtree({d}))

\* bulk_delete without permanent: folders trashed before are accepted, and walked again.
BulkTrash(D, F) ==
    /\ D \subseteq rows
    /\ Trash(Subtree(D) \cup F)

Untrash(X) ==
    /\ deletedAt' = [x \in Item |-> IF x \in X THEN 0 ELSE deletedAt[x]]
    /\ UNCHANGED <<rows, used, parent, clock, cascaded>>

\* Mutant: the file comes back alone.
RestoreFileAlone(f) == Trashed(f) /\ Untrash({f})

RestoreFile(f) == Trashed(f) /\ Untrash({f} \cup Ancestors(f))

\* Mutant: the ancestors are not brought back.
RestoreFolderAlone(d) ==
    Trashed(d) /\ Untrash({x \in Subtree({d}) : deletedAt[x] = deletedAt[d]})

\* What was trashed together with the folder, and every folder above it.
RestoreFolder(d) ==
    Trashed(d) /\ Untrash({x \in Subtree({d}) : deletedAt[x] = deletedAt[d]} \cup Ancestors(d))

-----------------------------------------------------------------------------
(* Purging *)

\* hard_delete_files(F), then DELETE of the folders D, which cascades below them.
Purge(F, D) ==
    LET gone == (F \cap rows) \cup Subtree(D)
    IN  /\ rows' = rows \ gone
        /\ parent' = [x \in Item |-> IF x \in gone THEN Null ELSE parent[x]]
        /\ deletedAt' = [x \in Item |-> IF x \in gone THEN 0 ELSE deletedAt[x]]
        /\ cascaded' = cascaded \cup ((Subtree(D) \cap File) \ F)
        /\ UNCHANGED <<used, clock>>

\* permanently_delete_file.
PurgeFile(f) == f \in rows /\ Purge({f}, {})

\* Mutant: the files of the folders alone, not those of their subfolders.
PurgeFoldersFlat(D, F) ==
    /\ D \cup F # {} /\ D \cup F \subseteq rows
    /\ Purge({f \in File : parent[f] \in D} \cup F, D)

\* permanent_delete_folder, and bulk_delete with permanent: live or trashed alike.
PurgeFolders(D, F) ==
    /\ D \cup F # {} /\ D \cup F \subseteq rows
    /\ Purge((Subtree(D) \cap File) \cup F, Subtree(D) \cap Folder)

EmptyTrash ==
    LET D == {d \in Folder : Trashed(d)}
    IN  Purge({f \in File : Trashed(f)} \cup (Subtree(D) \cap File), D)

\* The folder and file part of the cleanup endpoint: what was trashed before the cutoff.
CleanupTrash(cutoff) ==
    LET Old(x) == Trashed(x) /\ deletedAt[x] <= cutoff
        tree == Subtree({d \in Folder : Old(d)})
    IN  Purge({f \in File : Old(f)} \cup (tree \cap File), tree \cap Folder)

-----------------------------------------------------------------------------
(* Browsing *)

\* get_folder_file_tree: everything live, or what its walk down from a live folder meets.
FileTree(d) ==
    IF d = Null THEN {x \in rows : Live(x)} ELSE {x \in LiveDescendants(d) : Live(d)}

\* get_folder_path: the folder and every folder above it, in the trash or not.
FolderPath(d) == {d} \cup Ancestors(d)

-----------------------------------------------------------------------------
\* The requests that put items somewhere, trash them or bring them back, and look at the parent
\* before they use it.
Arrange ==
    \/ \E x \in Item, p \in Folder \cup {Null} : Create(x, p)
    \/ \E d \in Folder, p \in Folder \cup {Null} : MoveFolder(d, p)
    \/ \E f \in File, p \in Folder \cup {Null} : MoveFile(f, p)
    \/ \E f \in File : DeleteFile(f) \/ RestoreFile(f)
    \/ \E d \in Folder : DeleteFolder(d) \/ RestoreFolder(d)
    \/ \E D \in SUBSET Folder, F \in SUBSET File : BulkTrash(D, F)

\* The two that remove what is in the trash.
PurgeTrash == EmptyTrash \/ \E cutoff \in 1..clock : CleanupTrash(cutoff)

CheckedNext ==
    \/ Arrange
    \/ PurgeTrash
    \/ \E f \in File : PurgeFile(f)
    \/ \E D \in SUBSET Folder, F \in SUBSET File : PurgeFolders(D, F)

Next ==
    \/ CheckedNext
    \/ \E d \in Folder, p \in Folder : CreateFoldersBulk(d, p)
    \/ \E f \in File, p \in Folder : BulkInitUploads(f, p)

Spec == Init /\ [][Next]_vars

\* A user who does not create in bulk.
CheckedSpec == Init /\ [][CheckedNext]_vars

-----------------------------------------------------------------------------
(* Properties *)

\* Every row is well formed, and only items that exist have a parent or a trash
\* time, which is past.
TypeOK ==
    /\ rows \subseteq used /\ used \subseteq Item
    /\ parent \in [Item -> Folder \cup {Null}]
    /\ deletedAt \in [Item -> Nat]
    /\ clock \in Nat /\ \A x \in Item : deletedAt[x] <= clock
    /\ cascaded \subseteq File
    /\ \A x \in Item \ rows : parent[x] = Null /\ deletedAt[x] = 0

\* What is trashed is trashed all the way down: the contents of a trashed folder are in the
\* trash, since no later than the folder itself.  So nothing live is hidden in the trash,
\* where empty_trash would purge it, and restore_folder's match on deleted_at finds the
\* folders between it and what it brings back.
TrashClosed ==
    \A x \in rows : parent[x] # Null =>
        /\ parent[x] \in rows
        /\ Trashed(parent[x]) => deletedAt[x] \in 1..deletedAt[parent[x]]

\* "Prevents cycles": every set of folders has one whose parent is not in the set, so that
\* the recursive queries of the service terminate.
Acyclic == \A S \in SUBSET (rows \cap Folder) : S # {} => \E d \in S : parent[d] \notin S

\* Inductive as long as every parent is checked: the cycle check of move_folder walks live
\* folders only, which is enough because the tree is closed under trash.
TreeInv == TypeOK /\ TrashClosed /\ Acyclic

\* Nothing live is hidden: whatever the listing of everything shows is met again by a walk down
\* from a folder at the top, and the walk down (live folders only) and the walk up (any folder)
\* agree on what is inside what.
NothingHidden ==
    \A x \in FileTree(Null) :
        /\ parent[x] # Null => \E d \in Folder : parent[d] = Null /\ x \in FileTree(d)
        /\ x \in Folder => \A d \in Folder : x \in FileTree(d) <=> d \in FolderPath(x)

\* "Folder rows must only ever be deleted AFTER their files were explicitly deleted by the
\* service": no file of the user goes by cascade, with its object keys unrecorded.
NoFileCascaded == cascaded = {}
=============================================================================
