-------------------------------- MODULE Vault --------------------------------
(***************************************************************************)
(* What the file service promises about content, abstracted from requests, *)
(* locks, chunk rows and objects: a file shows at most one version, what   *)
(* it shows can be read, a new version replaces the shown one in one step, *)
(* and a version that is shown is only ever given up with its file.        *)
(***************************************************************************)
EXTENDS Naturals

CONSTANTS File, Version, Null

VARIABLES
    shown,      \* the version a download of the file gets, or Null
    gone,       \* files that were removed for good
    readable    \* versions all of whose chunks can be fetched

vars == <<shown, gone, readable>>

Shown == {v \in Version : \E f \in File : shown[f] = v}

Init ==
    /\ shown = [f \in File |-> Null]
    /\ gone = {} /\ readable = {}

\* The last chunk of a version arrives.
Store(v) ==
    /\ readable' = readable \cup {v}
    /\ UNCHANGED <<shown, gone>>

\* An upload is completed, or an older version restored: no state in between shows nothing.
Publish(f, v) ==
    /\ f \notin gone
    /\ v \in readable \ Shown
    /\ shown' = [shown EXCEPT ![f] = v]
    /\ UNCHANGED <<gone, readable>>

\* Files are removed, with what they show.  Versions that no file shows (any more) may be
\* reclaimed, then or at any other time (F = {}).
Remove(F) ==
    /\ gone' = gone \cup F
    /\ shown' = [f \in File |-> IF f \in F THEN Null ELSE shown[f]]
    /\ readable' \subseteq readable
    /\ Shown' \subseteq readable'

Next ==
    \/ \E v \in Version : Store(v)
    \/ \E f \in File, v \in Version : Publish(f, v)
    \/ \E F \in SUBSET File : Remove(F)

Spec == Init /\ [][Next]_vars
=============================================================================
