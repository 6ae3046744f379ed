----------------------------- MODULE SyncStream -----------------------------
(***************************************************************************)
(* The live sync stream of one user: AppState::{sse_channel,               *)
(* broadcast_sync} (app_state.rs), FileService::broadcast                  *)
(* (features/files/service.rs) and the sync_stream handler                 *)
(* (features/sync/handlers.rs), with the requests that change rows and     *)
(* then announce the change, and clients that list the rows when they      *)
(* connect and whenever the stream says they have lagged.                  *)
(*                                                                         *)
(* The channel is tokio's broadcast: a ring of Cap slots, one cursor per   *)
(* receiver; a value sent while there is no receiver is dropped.  Its      *)
(* entry in sse_channels is made by the first subscriber and never removed *)
(* (nothing calls maybe_cleanup_sse_channel).                              *)
(***************************************************************************)
EXTENDS Naturals, Sequences

CONSTANTS
    Client,   \* clients of the user; each has at most one stream open
    Change,   \* changes of rows, each with its event
    Early,    \* those of create_folders_bulk, announced before the commit
    Cap       \* slots of the ring (100 in the code, which tokio rounds up to 128)

ASSUME SyncAssumption == Early \subseteq Change /\ Cap \in Nat \ {0}

VARIABLES
    stage,   \* per change: "new", "announced" (early, not committed), "committed" (not yet
             \* announced), "done", "lost" (committed, will not be announced), "undone"
    log,     \* the events sent on the channel; the ring has the last Cap of them
    open,    \* the clients with a stream
    next,    \* per client: the index in log of the event its receiver reads next
    out,     \* per client: the last SSE event yielded
    knows,   \* per client: the changes it has seen, in a listing or on its stream
    fresh    \* the clients that have listed since they connected or lagged

vars == <<stage, log, open, next, out, knows, fresh>>
clientVars == <<open, next, out, knows, fresh>>

Feed == INSTANCE EventFeed WITH
    Event <- Change,
    unread <- [k \in Client |-> IF k \in open THEN SubSeq(log, next[k], Len(log)) ELSE <<>>]

\* The rows are there for everyone to read.
Committed(c) == stage[c] \in {"committed", "done", "lost"}

Init ==
    /\ stage = [c \in Change |-> "new"]
    /\ log = <<>>
    /\ open = {}
    /\ next = [k \in Client |-> 1]
    /\ out = [k \in Client |-> Feed!Connected]
    /\ knows = [k \in Client |-> {}]
    /\ fresh = {}

-----------------------------------------------------------------------------
(* Requests that change rows *)

\* Mutant: off by one in the count of receivers.
BroadcastToOthers(c) == log' = IF \A j, k \in open : j = k THEN log ELSE Append(log, c)

\* tx.send: without an entry in sse_channels or without a receiver the event is dropped.
Broadcast(c) == log' = IF open = {} THEN log ELSE Append(log, c)

\* A request that announces what it does commits; the silent ones (create_file, delete_file,
\* bulk_delete, empty_trash, cancel_upload, ...) are no changes here.
Commit(c) ==
    /\ stage[c] = "new" /\ c \notin Early
    /\ stage' = [stage EXCEPT ![c] = "committed"]
    /\ UNCHANGED <<log, clientVars>>

\* broadcast_sync and FileService::broadcast, the last thing the handler does.
Announce(c) ==
    /\ stage[c] = "committed"
    /\ stage' = [stage EXCEPT ![c] = "done"]
    /\ Broadcast(c)
    /\ UNCHANGED clientVars

\* The handler ends between the two: its connection is lost, or complete_upload's SELECT of the
\* file id after the commit fails.
Forget(c) ==
    /\ stage[c] = "committed"
    /\ stage' = [stage EXCEPT ![c] = "lost"]
    /\ UNCHANGED <<log, clientVars>>

\* create_folders_bulk announces each folder as it inserts it ...
AnnounceEarly(c) ==
    /\ stage[c] = "new" /\ c \in Early
    /\ stage' = [stage EXCEPT ![c] = "announced"]
    /\ Broadcast(c)
    /\ UNCHANGED clientVars

\* ... and commits at the end, or fails at a later folder and rolls back.
CommitEarly(c) ==
    /\ stage[c] = "announced"
    /\ \E s \in {"done", "undone"} : stage' = [stage EXCEPT ![c] = s]
    /\ UNCHANGED <<log, clientVars>>

-----------------------------------------------------------------------------
(* Streams *)

\* sync_stream subscribes before it returns the stream that begins with "connected".
Connect(k) ==
    /\ k \notin open
    /\ open' = open \cup {k}
    /\ next' = [next EXCEPT ![k] = Len(log) + 1]
    /\ UNCHANGED <<stage, log, out, knows, fresh>>

\* rx.recv() returns the event.
Recv(k) ==
    /\ k \in open
    /\ next[k] <= Len(log) /\ next[k] + Cap > Len(log)
    /\ out' = [out EXCEPT ![k] = Feed!EventNotice(log[next[k]])]
    /\ knows' = [knows EXCEPT ![k] = @ \cup {log[next[k]]}]
    /\ next' = [next EXCEPT ![k] = @ + 1]
    /\ UNCHANGED <<stage, log, open, fresh>>

\* Mutant: Err(Lagged(_)) => continue.
RecvLaggedSilent(k) ==
    /\ k \in open
    /\ next[k] + Cap <= Len(log)
    /\ next' = [next EXCEPT ![k] = Len(log) - Cap + 1]
    /\ UNCHANGED <<stage, log, open, out, knows, fresh>>

\* Mutant: the receiver is replaced by a new one, at the end of the log.
RecvLaggedResubscribe(k) ==
    LET oldest == Len(log) - Cap + 1
    IN  /\ k \in open
        /\ next[k] < oldest
        /\ out' = [out EXCEPT ![k] = Feed!LaggedNotice(oldest - next[k])]
        /\ next' = [next EXCEPT ![k] = Len(log) + 1]
        /\ fresh' = fresh \ {k}
        /\ UNCHANGED <<stage, log, open, knows>>

\* The slot was overwritten: Lagged, the cursor goes to the oldest event still there, and the
\* client is told how many it missed.
RecvLagged(k) ==
    LET oldest == Len(log) - Cap + 1
    IN  /\ k \in open
        /\ next[k] + Cap <= Len(log)
        /\ out' = [out EXCEPT ![k] = Feed!LaggedNotice(oldest - next[k])]
        /\ next' = [next EXCEPT ![k] = oldest]
        /\ fresh' = fresh \ {k}
        /\ UNCHANGED <<stage, log, open, knows>>

\* The client lists the user's rows.
List(k) ==
    /\ k \in open \ fresh
    /\ knows' = [knows EXCEPT ![k] = @ \cup {c \in Change : Committed(c)}]
    /\ fresh' = fresh \cup {k}
    /\ UNCHANGED <<stage, log, open, next, out>>

\* Mutant: the client takes its old listing for a fresh one.
EndStreamsStale(K) ==
    /\ open' = open \ K
    /\ next' = [k \in Client |-> IF k \in K THEN 1 ELSE next[k]]
    /\ out' = [k \in Client |-> IF k \in K THEN Feed!Connected ELSE out[k]]
    /\ UNCHANGED <<knows, fresh>>

\* The streams of K end; a client that comes back starts from nothing.
EndStreams(K) ==
    /\ open' = open \ K
    /\ fresh' = fresh \ K
    /\ next' = [k \in Client |-> IF k \in K THEN 1 ELSE next[k]]
    /\ out' = [k \in Client |-> IF k \in K THEN Feed!Connected ELSE out[k]]
    /\ knows' = [k \in Client |-> IF k \in K THEN {} ELSE knows[k]]

Disconnect(k) ==
    /\ k \in open
    /\ EndStreams({k})
    /\ UNCHANGED <<stage, log>>

\* The server dies: streams and channels go, requests end where they are.
Restart ==
    /\ EndStreams(open)
    /\ log' = <<>>
    /\ stage' = [c \in Change |-> CASE stage[c] = "committed" -> "lost"
                                    [] stage[c] = "announced" -> "undone"
                                    [] OTHER -> stage[c]]

-----------------------------------------------------------------------------
Next ==
    \/ \E c \in Change : Commit(c) \/ Announce(c) \/ Forget(c) \/ AnnounceEarly(c) \/ CommitEarly(c)
    \/ \E k \in Client : Connect(k) \/ Recv(k) \/ RecvLagged(k) \/ List(k) \/ Disconnect(k)
    \/ Restart

(***************************************************************************)
(* A handler goes on to its broadcast, with no await but a query in        *)
(* between; the task of a stream is polled while its client reads; the     *)
(* client lists when it is told to.  Nothing makes a request start, a      *)
(* client connect or a transaction of create_folders_bulk end.             *)
(***************************************************************************)
Fairness ==
    /\ \A c \in Change : WF_vars(Announce(c))
    /\ \A k \in Client : WF_vars(Recv(k) \/ RecvLagged(k)) /\ WF_vars(List(k))

Spec == Init /\ [][Next]_vars
FairSpec == Spec /\ Fairness

-----------------------------------------------------------------------------
(* Properties *)

\* Every change and every stream is well formed.
TypeOK ==
    /\ stage \in [Change -> {"new", "announced", "committed", "done", "lost", "undone"}]
    /\ \A c \in Change : stage[c] = "announced" => c \in Early
    /\ log \in Seq(Change)
    /\ open \subseteq Client /\ fresh \subseteq open
    /\ next \in [Client -> Nat \ {0}] /\ \A k \in open : next[k] <= Len(log) + 1
    /\ knows \in [Client -> SUBSET Change]

\* The events that wait for k, overwritten ones included.
Waiting(k) == {log[i] : i \in next[k]..Len(log)}

\* No change falls between the listing and the stream: what a client that has listed does not
\* know is on its way to it, or the request is about to announce it or died before it could.
\* It takes the subscription before "connected", the commit before the announcement and the
\* lagged notice; a change that create_folders_bulk announces early can fall through.
NothingSlips ==
    \A k \in fresh, c \in Change \ Early :
        Committed(c) => c \in knows[k] \cup Waiting(k) \/ stage[c] \in {"committed", "lost"}

\* A client that stays connected comes to know every change that is announced after its commit.
Converges ==
    \A k \in Client, c \in Change \ Early :
        (k \in open /\ stage[c] = "committed") ~>
            (c \in knows[k] \/ k \notin open \/ stage[c] = "lost")

\* The stream is a feed: in order, once, and never a gap without its exact count.
ImplementsFeed == Feed!FeedSpec
=============================================================================
