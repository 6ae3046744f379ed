-------------------------- MODULE SyncStreamProofs --------------------------
(* Proofs about SyncStream, for every number of clients and changes and every ring size. *)
EXTENDS SyncStream, SequenceTheorems, TLAPS

\* A broadcast appends to the log or leaves it.
LEMMA BroadcastType ==
  ASSUME TypeOK, NEW c \in Change, Broadcast(c)
  PROVE  /\ log' \in Seq(Change)
         /\ Len(log') >= Len(log)
         /\ \A i \in 1..Len(log) : log'[i] = log[i]
         /\ open # {} => Len(log') = Len(log) + 1 /\ log'[Len(log) + 1] = c
  BY DEF TypeOK, Broadcast

\* The end of streams keeps the cursors of the others.
LEMMA EndStreamsType ==
  ASSUME TypeOK, NEW K, EndStreams(K)
  PROVE  /\ open' \subseteq Client /\ fresh' \subseteq open'
         /\ next' \in [Client -> Nat \ {0}]
         /\ knows' \in [Client -> SUBSET Change]
         /\ \A k \in open' : k \in open /\ next'[k] = next[k] /\ knows'[k] = knows[k]
         /\ fresh' \subseteq fresh
  BY DEF TypeOK, EndStreams

\* Every step keeps changes, log and cursors well formed.
LEMMA TypeStep ==
  ASSUME TypeOK, [Next]_vars
  PROVE  TypeOK'
<1>1. ASSUME NEW c \in Change, Commit(c) \/ Forget(c) \/ CommitEarly(c) PROVE TypeOK'
  BY <1>1 DEF TypeOK, Commit, Forget, CommitEarly, clientVars
<1>2. ASSUME NEW c \in Change, Announce(c) \/ AnnounceEarly(c) PROVE TypeOK'
  <2>1. /\ Broadcast(c) /\ UNCHANGED clientVars
        /\ stage' \in [Change -> {"new", "announced", "committed", "done", "lost", "undone"}]
        /\ \A d \in Change : stage'[d] = "announced" => d \in Early
    BY <1>2 DEF TypeOK, Announce, AnnounceEarly
  <2> QED
    BY <2>1, BroadcastType DEF TypeOK, clientVars
<1>3. ASSUME NEW k \in Client, Connect(k) PROVE TypeOK'
  BY <1>3 DEF TypeOK, Connect
<1>4. ASSUME NEW k \in Client, Recv(k) PROVE TypeOK'
  <2>1. log[next[k]] \in Change
    BY <1>4 DEF TypeOK, Recv
  <2> QED
    BY <1>4, <2>1 DEF TypeOK, Recv
<1>5. ASSUME NEW k \in Client, RecvLagged(k) PROVE TypeOK'
  BY <1>5, SyncAssumption DEF TypeOK, RecvLagged
<1>6. ASSUME NEW k \in Client, List(k) PROVE TypeOK'
  BY <1>6 DEF TypeOK, List
<1>7. ASSUME NEW k \in Client, Disconnect(k) PROVE TypeOK'
  BY <1>7, EndStreamsType DEF TypeOK, Disconnect
<1>8. CASE Restart
  <2>1. open' = {}
    BY <1>8 DEF Restart, EndStreams
  <2>2. /\ stage' \in [Change -> {"new", "announced", "committed", "done", "lost", "undone"}]
        /\ \A d \in Change : stage'[d] # "announced"
    BY <1>8 DEF TypeOK, Restart
  <2>3. log' \in Seq(Change)
    BY <1>8 DEF Restart
  <2> QED
    BY <1>8, <2>1, <2>2, <2>3, EndStreamsType DEF TypeOK, Restart
<1>9. CASE UNCHANGED vars
  BY <1>9 DEF TypeOK, vars
<1> QED
  BY <1>1, <1>2, <1>3, <1>4, <1>5, <1>6, <1>7, <1>8, <1>9 DEF Next

\* The events that wait for a client whose cursor stays are still waiting when the log grows.
LEMMA WaitingGrows ==
  ASSUME TypeOK, NEW k \in open, NEW c \in Change, Broadcast(c), next' = next
  PROVE  Waiting(k) \cup {c} \subseteq Waiting(k)'
<1>1. next[k] \in Nat \ {0} /\ next[k] <= Len(log) + 1 /\ Len(log) \in Nat
  BY DEF TypeOK
<1>2. /\ \A i \in next[k]..Len(log) : log'[i] = log[i] /\ i \in next'[k]..Len(log')
      /\ Len(log) + 1 \in next'[k]..Len(log') /\ log'[Len(log) + 1] = c
  BY <1>1, BroadcastType
<1> QED
  BY <1>2 DEF Waiting

\* NothingSlips is inductive together with TypeOK.
LEMMA NothingSlipsStep ==
  ASSUME TypeOK, NothingSlips, [Next]_vars
  PROVE  NothingSlips'
<1> SUFFICES ASSUME NEW k \in fresh', NEW c \in Change \ Early, Committed(c)',
                    ~ (stage'[c] \in {"committed", "lost"})
             PROVE  c \in knows'[k] \cup Waiting(k)'
  BY DEF NothingSlips
<1>1. stage'[c] = "done" /\ fresh \subseteq open /\ open \subseteq Client
  BY DEF Committed, TypeOK
<1>2. ASSUME NEW d \in Change, Commit(d) \/ Forget(d) \/ CommitEarly(d)
      PROVE  c \in knows'[k] \cup Waiting(k)'
  <2>1. UNCHANGED <<log, clientVars>>
    BY <1>2 DEF Commit, Forget, CommitEarly
  <2>2. stage[c] = "done"
    BY <1>1, <1>2 DEF TypeOK, Commit, Forget, CommitEarly
  <2> QED
    BY <2>1, <2>2 DEF NothingSlips, Committed, clientVars, Waiting
<1>3. ASSUME NEW d \in Change, Announce(d) \/ AnnounceEarly(d)
      PROVE  c \in knows'[k] \cup Waiting(k)'
  <2>1. Broadcast(d) /\ UNCHANGED clientVars /\ (stage[c] = "done" \/ d = c)
    BY <1>1, <1>3 DEF TypeOK, Announce, AnnounceEarly
  <2>2. Waiting(k) \cup {d} \subseteq Waiting(k)' /\ k \in fresh /\ knows' = knows
    BY <1>1, <2>1, WaitingGrows DEF clientVars
  <2> QED
    BY <2>1, <2>2 DEF NothingSlips, Committed
<1>4. ASSUME NEW j \in Client, Connect(j) PROVE c \in knows'[k] \cup Waiting(k)'
  <2>1. /\ stage' = stage /\ log' = log /\ knows' = knows /\ k \in fresh
        /\ k # j /\ next'[k] = next[k]
    BY <1>1, <1>4 DEF TypeOK, Connect
  <2> QED
    BY <1>1, <2>1 DEF NothingSlips, Committed, Waiting
<1>5. ASSUME NEW j \in Client, Recv(j) PROVE c \in knows'[k] \cup Waiting(k)'
  <2>1. stage' = stage /\ log' = log /\ k \in fresh /\ k \in Client
    BY <1>1, <1>5 DEF Recv
  <2>2. c \in knows[k] \cup Waiting(k)
    BY <1>1, <2>1 DEF NothingSlips, Committed
  <2>3. CASE k # j
    BY <1>5, <2>1, <2>2, <2>3 DEF TypeOK, Recv, Waiting
  <2>4. CASE k = j
    <3>1. knows'[k] = knows[k] \cup {log[next[k]]} /\ next'[k] = next[k] + 1
      BY <1>5, <2>1, <2>4 DEF TypeOK, Recv
    <3>2. Waiting(k) \subseteq {log[next[k]]} \cup Waiting(k)'
      BY <2>1, <3>1 DEF TypeOK, Waiting
    <3> QED
      BY <2>2, <3>1, <3>2
  <2> QED
    BY <2>3, <2>4
<1>6. ASSUME NEW j \in Client, RecvLagged(j) PROVE c \in knows'[k] \cup Waiting(k)'
  <2>1. /\ stage' = stage /\ log' = log /\ knows' = knows /\ k \in fresh
        /\ k # j /\ next'[k] = next[k]
    BY <1>1, <1>6 DEF TypeOK, RecvLagged
  <2> QED
    BY <1>1, <2>1 DEF NothingSlips, Committed, Waiting
<1>7. ASSUME NEW j \in Client, List(j) PROVE c \in knows'[k] \cup Waiting(k)'
  <2>1. stage' = stage /\ log' = log /\ next' = next /\ Committed(c)
    BY <1>1, <1>7 DEF List, Committed
  <2>2. CASE k = j
    BY <1>1, <1>7, <2>1, <2>2 DEF TypeOK, List
  <2>3. CASE k # j
    <3>1. k \in fresh /\ knows'[k] = knows[k]
      BY <1>1, <1>7, <2>3 DEF TypeOK, List
    <3> QED
      BY <1>1, <2>1, <3>1 DEF NothingSlips, Waiting
  <2> QED
    BY <2>2, <2>3
<1>8. ASSUME NEW j \in Client, Disconnect(j) PROVE c \in knows'[k] \cup Waiting(k)'
  <2>1. /\ stage' = stage /\ log' = log /\ k \in fresh
        /\ next'[k] = next[k] /\ knows'[k] = knows[k]
    BY <1>8, EndStreamsType DEF Disconnect
  <2> QED
    BY <1>1, <2>1 DEF NothingSlips, Committed, Waiting
<1>9. CASE Restart
  BY <1>1, <1>9 DEF Restart, EndStreams
<1>10. CASE UNCHANGED vars
  BY <1>1, <1>10 DEF vars, NothingSlips, Committed, Waiting
<1> QED
  BY <1>2, <1>3, <1>4, <1>5, <1>6, <1>7, <1>8, <1>9, <1>10 DEF Next

\* The stream's cursors never leave its log.
THEOREM SyncTypeCorrect == Spec => []TypeOK
<1>1. Init => TypeOK
  BY DEF Init, TypeOK
<1> QED
  BY <1>1, TypeStep, PTL DEF Spec

\* Subscribing before listing, committing before announcing and saying when events were lost
\* together leave no change between a client's listing and its stream.
THEOREM NothingSlipsBetween == Spec => []NothingSlips
<1>1. Init => NothingSlips
  BY DEF Init, NothingSlips
<1> QED
  BY <1>1, SyncTypeCorrect, NothingSlipsStep, PTL DEF Spec

-----------------------------------------------------------------------------
(***************************************************************************)
(* The stream is a feed (its safety half): the ring with its cursors is,   *)
(* for each client, the sequence of the events it has not read.            *)
(***************************************************************************)

\* What the refinement mapping makes of the ring.
Unread == [k \in Client |-> IF k \in open THEN SubSeq(log, next[k], Len(log)) ELSE <<>>]

\* The unread part of a log that grows grows by the same event.
LEMMA UnreadGrows ==
  ASSUME NEW S, NEW s \in Seq(S), NEW c \in S, NEW n \in 1..Len(s) + 1
  PROVE  SubSeq(Append(s, c), n, Len(s) + 1) = Append(SubSeq(s, n, Len(s)), c)
<1> DEFINE t == Append(s, c)
           old == SubSeq(s, n, Len(s))
           new == SubSeq(t, n, Len(s) + 1)
<1>1. /\ t \in Seq(S) /\ Len(t) = Len(s) + 1 /\ t[Len(s) + 1] = c
      /\ \A i \in 1..Len(s) : t[i] = s[i]
  BY AppendProperties
<1>2. Len(s) \in Nat
  OBVIOUS
<1>3. /\ old \in Seq(S) /\ Len(old) = Len(s) - n + 1
      /\ \A i \in 1..Len(s) - n + 1 : old[i] = s[n + i - 1]
  <2>1. \A i \in n..Len(s) : s[i] \in S
    BY <1>2, ElementOfSeq
  <2> HIDE DEF t
  <2> QED
    BY <1>2, <2>1, SubSeqProperties
<1>4. /\ new \in Seq(S) /\ Len(new) = Len(s) - n + 2
      /\ \A i \in 1..Len(s) - n + 2 : new[i] = t[n + i - 1]
  <2> HIDE DEF t
  <2>1. \A i \in n..Len(s) + 1 : t[i] \in S
    BY <1>1, <1>2, ElementOfSeq
  <2>2. n \in Int /\ Len(s) + 1 \in Int
    BY <1>2
  <2> QED
    BY <1>2, <2>1, <2>2, SubSeqProperties
<1> HIDE DEF t, old, new
<1>5. /\ Append(old, c) \in Seq(S) /\ Len(Append(old, c)) = Len(old) + 1
      /\ \A i \in 1..Len(old) : Append(old, c)[i] = old[i]
      /\ Append(old, c)[Len(old) + 1] = c
  BY <1>3, AppendProperties
<1>6. ASSUME NEW i \in 1..Len(new) PROVE new[i] = Append(old, c)[i]
  <2>1. CASE i = Len(new)
    <3>1. i \in 1..Len(s) - n + 2 /\ n + i - 1 = Len(s) + 1 /\ i = Len(old) + 1
      BY <1>2, <1>3, <1>4, <2>1
    <3> QED
      BY <1>1, <1>4, <1>5, <3>1
  <2>2. CASE i # Len(new)
    <3>1. i \in 1..Len(s) - n + 1 /\ n + i - 1 \in 1..Len(s)
      BY <1>2, <1>4, <2>2
    <3> QED
      BY <1>1, <1>2, <1>3, <1>4, <1>5, <3>1
  <2> QED
    BY <2>1, <2>2
<1>7. new = Append(old, c)
  <2>1. Len(new) = Len(Append(old, c))
    BY <1>2, <1>3, <1>4, <1>5
  <2> QED
    BY <1>4, <1>5, <1>6, <2>1, SeqEqual
<1> QED
  BY <1>7 DEF new, old, t

\* The end of an unread part is the unread part of a later cursor.
LEMMA UnreadSuffix ==
  ASSUME NEW S, NEW s \in Seq(S), NEW p \in 1..Len(s), NEW q \in p..Len(s)
  PROVE  SubSeq(SubSeq(s, p, Len(s)), q - p + 1, Len(s) - p + 1) = SubSeq(s, q, Len(s))
<1> DEFINE L == Len(s)
           u == SubSeq(s, p, L)
           v == SubSeq(s, q, L)
           w == SubSeq(u, q - p + 1, L - p + 1)
<1>1. L \in Nat /\ \A i \in 1..L : s[i] \in S
  BY ElementOfSeq
<1> HIDE DEF L
<1>2. p \in Nat /\ q \in Nat /\ 1 <= p /\ p <= q /\ q <= L
  BY <1>1 DEF L
<1>3. /\ u \in Seq(S) /\ Len(u) = L - p + 1
      /\ \A i \in 1..L - p + 1 : u[i] = s[p + i - 1]
  BY <1>1, <1>2, SubSeqProperties
<1>4. /\ v \in Seq(S) /\ Len(v) = L - q + 1
      /\ \A i \in 1..L - q + 1 : v[i] = s[q + i - 1]
  BY <1>1, <1>2, SubSeqProperties
<1> HIDE DEF u, v
<1>5. /\ w \in Seq(S) /\ Len(w) = L - q + 1
      /\ \A i \in 1..L - q + 1 : w[i] = u[q - p + i]
  <2> DEFINE a == q - p + 1
             b == L - p + 1
  <2>1. a \in Int /\ b \in Int /\ a <= b /\ b - a + 1 = L - q + 1 /\ 1 <= a
        /\ \A i \in 1..L - q + 1 : a + i - 1 = q - p + i
    BY <1>1, <1>2
  <2>2. \A i \in a..b : u[i] \in S
    <3>1. \A i \in a..b : i \in 1..Len(u)
      BY <1>1, <1>2, <1>3
    <3> QED
      BY <1>3, <3>1, ElementOfSeq
  <2> HIDE DEF a, b
  <2>3. /\ SubSeq(u, a, b) \in Seq(S)
        /\ Len(SubSeq(u, a, b)) = b - a + 1
        /\ \A i \in 1..b - a + 1 : SubSeq(u, a, b)[i] = u[a + i - 1]
    BY <2>1, <2>2, SubSeqProperties
  <2> QED
    BY <2>1, <2>3 DEF a, b
<1> HIDE DEF w
<1>6. ASSUME NEW i \in 1..Len(w) PROVE w[i] = v[i]
  <2>1. i \in 1..L - q + 1 /\ q - p + i \in 1..L - p + 1 /\ p + (q - p + i) - 1 = q + i - 1
    BY <1>1, <1>2, <1>5
  <2> QED
    BY <1>3, <1>4, <1>5, <2>1
<1>7. w = v
  BY <1>4, <1>5, <1>6, SeqEqual
<1> QED
  BY <1>7 DEF w, u, v, L

\* Before anything is sent there is nothing to read.
LEMMA FeedInitial ==
  ASSUME Init
  PROVE  Feed!FeedInit
  BY DEF Init, Feed!FeedInit

\* An announcement publishes the event, or nobody is there to read it.
LEMMA BroadcastPublishes ==
  ASSUME TypeOK, NEW c \in Change, Broadcast(c), UNCHANGED clientVars
  PROVE  Feed!Publish(c) \/ UNCHANGED Feed!feedVars
<1>1. CASE open = {}
  <2>1. log' = log
    BY <1>1 DEF Broadcast
  <2> QED
    BY <2>1 DEF Feed!feedVars, clientVars
<1>2. CASE open # {}
  <2>1. log' = Append(log, c) /\ Len(log') = Len(log) + 1
    BY <1>2 DEF Broadcast, TypeOK
  <2>2. ASSUME NEW k \in Client
        PROVE  Unread'[k] = IF k \in open THEN Append(Unread[k], c) ELSE Unread[k]
    <3>1. CASE k \in open
      <4>1. next[k] \in 1..Len(log) + 1
        BY <3>1 DEF TypeOK
      <4>2. SubSeq(log', next[k], Len(log')) = Append(SubSeq(log, next[k], Len(log)), c)
        BY <2>1, <4>1, UnreadGrows DEF TypeOK
      <4> QED
        BY <3>1, <4>2 DEF Unread, clientVars
    <3>2. CASE k \notin open
      BY <3>2 DEF Unread, clientVars
    <3> QED
      BY <3>1, <3>2
  <2>3. Unread' = [k \in Client |-> IF k \in open THEN Append(Unread[k], c) ELSE Unread[k]]
    BY <2>2 DEF Unread
  <2> QED
    BY <2>3 DEF Feed!Publish, Unread, clientVars
<1> QED
  BY <1>1, <1>2

\* A receiver starts with nothing to read.
LEMMA ConnectOpens ==
  ASSUME TypeOK, NEW k \in Client, Connect(k)
  PROVE  Feed!Open(k)
<1>1. SubSeq(log, Len(log) + 1, Len(log)) = <<>>
  <2>1. Len(log) \in Nat
    BY DEF TypeOK
  <2> QED
    BY <2>1, SubSeqEmpty
<1>2. ASSUME NEW j \in Client PROVE Unread'[j] = Unread[j]
  <2>1. CASE j = k
    BY <1>1, <2>1 DEF TypeOK, Connect, Unread
  <2>2. CASE j # k
    BY <2>2 DEF TypeOK, Connect, Unread
  <2> QED
    BY <2>1, <2>2
<1>3. Unread' = Unread
  BY <1>2 DEF Unread
<1> QED
  BY <1>3 DEF Feed!Open, Connect, Unread

\* The event recv() returns is the oldest one unread.
LEMMA RecvDelivers ==
  ASSUME TypeOK, NEW k \in Client, Recv(k)
  PROVE  Feed!Deliver(k)
<1>1. /\ k \in open /\ log \in Seq(Change) /\ Len(log) \in Nat
      /\ next[k] \in 1..Len(log) /\ Len(log) \in next[k]..Len(log)
      /\ Len(log) < next[k] + Cap
  BY DEF TypeOK, Recv
<1>2. /\ Head(SubSeq(log, next[k], Len(log))) = log[next[k]]
      /\ Tail(SubSeq(log, next[k], Len(log))) = SubSeq(log, next[k] + 1, Len(log))
  BY <1>1, HeadTailOfSubSeq
<1>3. Len(SubSeq(log, next[k], Len(log))) = Len(log) - next[k] + 1
  <2>1. \A i \in next[k]..Len(log) : log[i] \in Change
    BY <1>1, ElementOfSeq
  <2> QED
    BY <1>1, <2>1, SubSeqProperties
<1>4. Unread[k] = SubSeq(log, next[k], Len(log))
  BY <1>1 DEF Unread
<1>5. Len(Unread[k]) \in 1..Cap
  BY <1>1, <1>3, <1>4, SyncAssumption
<1>6. ASSUME NEW j \in Client PROVE Unread'[j] = [Unread EXCEPT ![k] = Tail(@)][j]
  <2>1. CASE j = k
    BY <1>1, <1>2, <1>4, <2>1 DEF TypeOK, Recv, Unread
  <2>2. CASE j # k
    BY <2>2 DEF TypeOK, Recv, Unread
  <2> QED
    BY <2>1, <2>2
<1>7. Unread' = [Unread EXCEPT ![k] = Tail(@)]
  BY <1>6 DEF Unread
<1>8. out' = [out EXCEPT ![k] = Feed!EventNotice(Head(Unread[k]))]
  BY <1>2, <1>4 DEF Recv
<1> QED
  BY <1>1, <1>5, <1>7, <1>8 DEF Feed!Deliver, Recv, Unread

\* Lagged tells the number of the events that were overwritten, and the others are still to come.
LEMMA LaggedSkips ==
  ASSUME TypeOK, NEW k \in Client, RecvLagged(k)
  PROVE  Feed!Skip(k)
<1> DEFINE oldest == Len(log) - Cap + 1
           missed == Len(Unread[k]) - Cap
<1>1. /\ k \in open /\ log \in Seq(Change) /\ Len(log) \in Nat /\ Cap \in Nat \ {0}
      /\ next[k] \in 1..Len(log) /\ next[k] + Cap <= Len(log)
  BY SyncAssumption DEF TypeOK, RecvLagged
<1>2. Unread[k] = SubSeq(log, next[k], Len(log))
  BY <1>1 DEF Unread
<1>3. Len(Unread[k]) = Len(log) - next[k] + 1
  <2>1. \A i \in next[k]..Len(log) : log[i] \in Change
    BY <1>1, ElementOfSeq
  <2> QED
    BY <1>1, <1>2, <2>1, SubSeqProperties
<1>4. missed = oldest - next[k]
  BY <1>1, <1>3
<1>5. SubSeq(Unread[k], missed + 1, Len(Unread[k])) = SubSeq(log, oldest, Len(log))
  <2>1. next[k] \in 1..Len(log) /\ oldest \in next[k]..Len(log)
    BY <1>1
  <2>2. missed + 1 = oldest - next[k] + 1
    BY <1>4
  <2> HIDE DEF missed, oldest
  <2> QED
    BY <1>1, <1>2, <1>3, <2>1, <2>2, UnreadSuffix
<1>6. ASSUME NEW j \in Client
      PROVE  Unread'[j] = [Unread EXCEPT ![k] = SubSeq(@, missed + 1, Len(@))][j]
  <2>1. CASE j = k
    <3>1. Unread'[k] = SubSeq(log, oldest, Len(log))
      BY <1>1 DEF TypeOK, RecvLagged, Unread
    <3>2. [Unread EXCEPT ![k] = SubSeq(@, missed + 1, Len(@))][k]
            = SubSeq(Unread[k], missed + 1, Len(Unread[k]))
      BY DEF Unread
    <3> QED
      BY <1>5, <2>1, <3>1, <3>2
  <2>2. CASE j # k
    BY <2>2 DEF TypeOK, RecvLagged, Unread
  <2> QED
    BY <2>1, <2>2
<1>7. Unread' = [Unread EXCEPT ![k] = SubSeq(@, missed + 1, Len(@))]
  BY <1>6 DEF Unread
<1>8. out' = [out EXCEPT ![k] = Feed!LaggedNotice(missed)]
  BY <1>4 DEF RecvLagged
<1>9. Len(Unread[k]) > Cap
  BY <1>1, <1>3
<1> QED
  BY <1>1, <1>7, <1>8, <1>9 DEF Feed!Skip, RecvLagged, Unread

\* A stream that ends takes what its client had not read with it.
LEMMA EndStreamsCloses ==
  ASSUME TypeOK, NEW K \in SUBSET open, EndStreams(K), log' = log \/ K = open
  PROVE  Feed!Close(K)
<1>1. ASSUME NEW j \in Client PROVE Unread'[j] = IF j \in K THEN <<>> ELSE Unread[j]
  BY DEF TypeOK, EndStreams, Unread
<1>2. Unread' = [k \in Client |-> IF k \in K THEN <<>> ELSE Unread[k]]
  BY <1>1 DEF Unread
<1> QED
  BY <1>2 DEF Feed!Close, EndStreams, Unread, Feed!Connected

\* Every step of the stream is a step of the feed or changes nothing the feed shows.
LEMMA FeedStep ==
  ASSUME TypeOK, [Next]_vars
  PROVE  [Feed!FeedNext]_(Feed!feedVars)
<1>1. ASSUME NEW c \in Change, Commit(c) \/ Forget(c) \/ CommitEarly(c)
      PROVE  UNCHANGED Feed!feedVars
  BY <1>1 DEF Commit, Forget, CommitEarly, clientVars, Feed!feedVars
<1>2. ASSUME NEW c \in Change, Announce(c) \/ AnnounceEarly(c)
      PROVE  Feed!Publish(c) \/ UNCHANGED Feed!feedVars
  BY <1>2, BroadcastPublishes DEF Announce, AnnounceEarly
<1>3. ASSUME NEW k \in Client, List(k) PROVE UNCHANGED Feed!feedVars
  BY <1>3 DEF List, Feed!feedVars
<1>4. ASSUME NEW k \in Client, Disconnect(k) PROVE \E K \in SUBSET open : Feed!Close(K)
  BY <1>4, EndStreamsCloses DEF Disconnect
<1>5. ASSUME Restart PROVE \E K \in SUBSET open : Feed!Close(K)
  BY <1>5, EndStreamsCloses DEF Restart
<1>6. CASE UNCHANGED vars
  BY <1>6 DEF vars, Feed!feedVars
<1> QED
  BY <1>1, <1>2, <1>3, <1>4, <1>5, <1>6, ConnectOpens, RecvDelivers, LaggedSkips
     DEF Next, Feed!FeedNext

\* Every behaviour of the stream is, for its clients, one of the feed: what is sent while a client
\* is connected comes to it once and in the order of the broadcasts, and what the ring has
\* overwritten is replaced by a "lagged" event with its exact number.  (That a client which reads
\* gets to the end is the fairness half of ImplementsFeed, which sync_stream checks.)
THEOREM FeedImplemented == Spec => Feed!FeedSafety
<1>1. Init => Feed!FeedInit
  BY FeedInitial
<1>2. TypeOK /\ [Next]_vars => [Feed!FeedNext]_(Feed!feedVars)
  BY FeedStep
<1> QED
  BY <1>1, <1>2, SyncTypeCorrect, PTL DEF Spec, Feed!FeedSafety
=============================================================================
