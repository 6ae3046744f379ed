----------------------------- MODULE EventFeed ------------------------------
(***************************************************************************)
(* What a sync stream promises its clients, whatever it is made of: every  *)
(* event published while a client is connected comes to it, in order and   *)
(* once, unless the client falls more than Cap events behind; then it is   *)
(* told exactly how many of the oldest it will not get.                    *)
(***************************************************************************)
EXTENDS Naturals, Sequences

CONSTANTS
    Client,  \* connections
    Event,
    Cap      \* how far behind a client may be

VARIABLES
    open,    \* the clients that are connected
    unread,  \* per client: the events published and not yet delivered
    out      \* per client: the last thing its connection sent, "connected" at first

feedVars == <<open, unread, out>>

Connected == [type |-> "connected"]
EventNotice(e) == [type |-> "event", event |-> e]
LaggedNotice(n) == [type |-> "lagged", missed |-> n]

FeedInit ==
    /\ open = {}
    /\ unread = [k \in Client |-> <<>>]
    /\ out = [k \in Client |-> Connected]

Open(k) ==
    /\ k \notin open
    /\ open' = open \cup {k}
    /\ UNCHANGED <<unread, out>>

Publish(e) ==
    /\ unread' = [k \in Client |-> IF k \in open THEN Append(unread[k], e) ELSE unread[k]]
    /\ UNCHANGED <<open, out>>

Deliver(k) ==
    /\ k \in open
    /\ Len(unread[k]) \in 1..Cap
    /\ out' = [out EXCEPT ![k] = EventNotice(Head(unread[k]))]
    /\ unread' = [unread EXCEPT ![k] = Tail(@)]
    /\ UNCHANGED open

Skip(k) ==
    LET missed == Len(unread[k]) - Cap
    IN  /\ k \in open
        /\ Len(unread[k]) > Cap
        /\ out' = [out EXCEPT ![k] = LaggedNotice(missed)]
        /\ unread' = [unread EXCEPT ![k] = SubSeq(@, missed + 1, Len(@))]
        /\ UNCHANGED open

Close(K) ==
    /\ open' = open \ K
    /\ unread' = [k \in Client |-> IF k \in K THEN <<>> ELSE unread[k]]
    /\ out' = [k \in Client |-> IF k \in K THEN Connected ELSE out[k]]

FeedNext ==
    \/ \E k \in Client : Open(k) \/ Deliver(k) \/ Skip(k)
    \/ \E e \in Event : Publish(e)
    \/ \E K \in SUBSET open : Close(K)

\* What may happen, and with fairness what must: a client that reads gets to the end of its feed.
FeedSafety == FeedInit /\ [][FeedNext]_feedVars

FeedSpec ==
    /\ FeedSafety
    /\ \A k \in Client : WF_feedVars(Deliver(k) \/ Skip(k))
=============================================================================
