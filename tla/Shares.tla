------------------------------- MODULE Shares -------------------------------
(***************************************************************************)
(* Links to one user's files and folders: create_share, get_share,         *)
(* get_shared_file_manifest and revoke_share (features/files/service.rs),  *)
(* beside the folder tree they point into.                                 *)
(*                                                                         *)
(* item_shares has no foreign key to files or folders: what a share gives  *)
(* is found out whenever it is opened.  access_type only refuses viewers   *)
(* who are not logged in, and is left out.                                 *)
(***************************************************************************)
EXTENDS Folders

CONSTANT Share   \* share ids; each is used by at most one INSERT

VARIABLES
    item,   \* item_shares.item_id, Null before the INSERT
    dead,   \* shares with revoked_at set or expires_at past
    asked   \* the item that a create_share in flight has found live

shareVars == <<item, dead, asked>>
allVars == <<vars, shareVars>>

SharesInit ==
    /\ Init
    /\ item = [s \in Share |-> Null]
    /\ dead = {}
    /\ asked = Null

-----------------------------------------------------------------------------
(* The owner's requests *)

\* create_share looks the item up ...
CreateShareCheck(x) ==
    /\ asked = Null
    /\ Live(x)
    /\ asked' = x
    /\ UNCHANGED <<vars, item, dead>>

\* ... and inserts in a statement of its own, whatever became of the item; or the payload does
\* not decode and nothing is inserted.
CreateShareInsert(s) ==
    /\ asked # Null /\ item[s] = Null
    /\ asked' = Null
    /\ item' \in {item, [item EXCEPT ![s] = asked]}
    /\ UNCHANGED <<vars, dead>>

\* revoke_share, and expires_at passing.
RevokeShare(s) ==
    /\ item[s] # Null /\ s \notin dead
    /\ dead' = dead \cup {s}
    /\ UNCHANGED <<vars, item, asked>>

RevokeSharesOf(X) ==
    /\ dead' = dead \cup {s \in Share : item[s] \in X}
    /\ UNCHANGED <<item, asked>>

\* The files whose ids hard_delete_files was given: the ones that did not go by cascade.
HardDeleted == ((rows \ rows') \cap File) \ (cascaded' \ cascaded)

\* empty_trash and the cleanup endpoint: hard_delete_files revokes the shares of the files;
\* those of the folders stay.
PurgeTrashShares == PurgeTrash /\ RevokeSharesOf(HardDeleted)

PurgeFileShares(f) == PurgeFile(f) /\ RevokeSharesOf(HardDeleted)

\* permanent_delete_folder and bulk_delete revoke the shares of the folders of the subtree too.
PurgeFoldersShares(D, F) ==
    PurgeFolders(D, F) /\ RevokeSharesOf(HardDeleted \cup (Subtree(D) \cap Folder))

SharesNext ==
    \/ \E x \in Item : CreateShareCheck(x)
    \/ \E s \in Share : CreateShareInsert(s)
    \/ \E s \in Share : RevokeShare(s)
    \/ Arrange /\ UNCHANGED shareVars
    \/ PurgeTrashShares
    \/ \E f \in File : PurgeFileShares(f)
    \/ \E D \in SUBSET Folder, F \in SUBSET File : PurgeFoldersShares(D, F)

SharesSpec == SharesInit /\ [][SharesNext]_allVars

-----------------------------------------------------------------------------
(* What a viewer gets *)

\* get_share: the files whose chunks it lists.  A folder share gives its payload only, and only
\* while the folder is live.
GetShare(s) == {f \in File : s \notin dead /\ item[s] = f /\ Live(f)}

\* The folder_chain of verify_file_in_shared_folder: upwards from p, through live folders.
FolderChain(p) ==
    {d \in Folder : \A S \in SUBSET Folder :
        (Live(p) => p \in S) /\ (\A y \in S : Live(parent[y]) => parent[y] \in S) => d \in S}

\* Mutant: the files of the folder alone.
VerifyFileInFolder(s, f) ==
    \/ item[s] = f
    \/ item[s] \in Folder /\ Live(f) /\ parent[f] = item[s]

\* verify_file_in_shared_folder: of a file share it asks the id only; in a folder share the file
\* is live and the shared folder is its folder or in the chain above.
VerifyFile(s, f) ==
    \/ item[s] = f
    \/ /\ item[s] \in Folder /\ Live(f) /\ parent[f] # Null
       /\ parent[f] = item[s] \/ item[s] \in FolderChain(parent[f])

\* get_shared_file_manifest: the files whose chunks it lists.
GetSharedFileManifest(s) == {f \in File \cap rows : s \notin dead /\ VerifyFile(s, f)}

-----------------------------------------------------------------------------
(* Properties *)

\* A folder share gives exactly the live files below the folder, and nothing while the folder
\* is trashed or after it is purged, although verify_file_in_shared_folder walks up from the
\* file, accepts a file of the shared folder without looking at the folder, and the purge of
\* the trash leaves the share behind.
FolderShareExact ==
    \A s \in Share \ dead : item[s] \in Folder =>
        GetSharedFileManifest(s) =
            {f \in File : Live(item[s]) /\ Live(f) /\ f \in Subtree({item[s]})}

\* No purge leaves a share of a file it removes, however it comes to remove the file:
\* item_shares has no foreign key, so hard_delete_files must have been given the file.
PurgeRevokesFileShares ==
    [][\A s \in Share : item[s] \in (rows \ rows') \cap File => s \in dead']_allVars
=============================================================================
