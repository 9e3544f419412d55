------------------------------ MODULE Discovery ------------------------------
(***************************************************************************)
(* The DiscoveryManager (src/discovery.rs): the peers a node knows of with *)
(* the time it last heard of each, the set of connected ids, and the calls *)
(* that tasks make on them at the same time.                               *)
(*                                                                         *)
(* Each of the two collections has a tokio RwLock, which hands the lock to *)
(* its waiters in the order they came: a request is granted when it is the *)
(* oldest one and compatible with those who hold the lock.  A call runs    *)
(* from one lock acquisition to the next without another task noticing,    *)
(* and gives all its guards back when it returns; so a task that waits for *)
(* its second lock is exactly one that holds its first.                    *)
(***************************************************************************)
EXTENDS Naturals, FiniteSets, Sequences

CONSTANTS
    Tasks,        \* tasks that share the manager
    Ids,          \* peer ids
    Calls,        \* the calls these tasks make
    MaxPeers,     \* config.max_peers
    PeerTimeout,  \* config.peer_timeout
    MaxClock      \* bound: the time at which the clock stops

AllCalls == {"add_peer", "remove_peer", "mark_connected", "mark_disconnected",
             "cleanup_old_peers", "get_stats"}

ASSUME CallsAssumption == Calls \subseteq AllCalls
ASSUME NumbersAssumption == /\ MaxPeers \in Nat /\ PeerTimeout \in Nat
                            /\ MaxClock \in Nat

VARIABLES
    known,      \* ids in the peers map
    lastSeen,   \* lastSeen[i]: the last_seen of a known id, 0 otherwise
    connected,  \* connected_peers
    call,       \* call[t]: the call task t is in, and the lock it waits for
    queue,      \* queue[l]: the tasks waiting for lock l, oldest first
    now         \* the clock, in seconds

vars == <<known, lastSeen, connected, call, queue, now>>

Locks == {"peers", "connected"}

Idle == [op |-> "none", id |-> {}, at |-> 0, step |-> 0]

Init ==
    /\ known = {}
    /\ lastSeen = [i \in Ids |-> 0]
    /\ connected = {}
    /\ call = [t \in Tasks |-> Idle]
    /\ queue = [l \in Locks |-> <<>>]
    /\ now = 1

-----------------------------------------------------------------------------
(* Locks *)

\* Mutant of LockOrder: cleanup_old_peers takes the connected set first.
CleanupFirst(op) ==
    CASE op \in {"mark_connected", "cleanup_old_peers"} -> <<"connected", "peers">>
      [] op = "mark_disconnected" -> <<"connected">>
      [] op = "add_peer" -> <<"peers">>
      [] OTHER -> <<"peers", "connected">>

\* The locks a call takes, in its order.
LockOrder(op) ==
    CASE op = "mark_connected" -> <<"connected", "peers">>
      [] op = "mark_disconnected" -> <<"connected">>
      [] op = "add_peer" -> <<"peers">>
      [] OTHER -> <<"peers", "connected">>

\* get_stats and get_peers_for_discovery take read guards, the others write.
Reads(t) == call[t].op = "get_stats"

WaitsFor(t) == LockOrder(call[t].op)[call[t].step]

Holders(l) ==
    {t \in Tasks : call[t].step = 2 /\ LockOrder(call[t].op)[1] = l}

Grantable(t) ==
    /\ call[t].step # 0
    /\ LET l == WaitsFor(t)
       IN  /\ Head(queue[l]) = t
           /\ \A u \in Holders(l) : Reads(t) /\ Reads(u)

\* t gets its first lock and queues for the second, remembering the time.
TakeFirst(t, at) ==
    LET l == WaitsFor(t)
        next == LockOrder(call[t].op)[2]
    IN  /\ call' = [call EXCEPT ![t] = [call[t] EXCEPT !.step = 2, !.at = at]]
        /\ queue' = [queue EXCEPT ![l] = Tail(@), ![next] = Append(@, t)]

\* t gets its last lock, does its work and gives back all its guards.
Return(t) ==
    /\ call' = [call EXCEPT ![t] = Idle]
    /\ queue' = [queue EXCEPT ![WaitsFor(t)] = Tail(@)]

-----------------------------------------------------------------------------
(* The calls *)

\* A call starts and asks for its first lock.  add_peer and cleanup_old_peers
\* have read the clock by then.
Begin(t, op, i) ==
    /\ call[t] = Idle
    /\ call' = [call EXCEPT ![t] =
          [op |-> op, step |-> 1,
           id |-> IF op \in {"cleanup_old_peers", "get_stats"} THEN {} ELSE {i},
           at |-> IF op \in {"add_peer", "cleanup_old_peers"} THEN now ELSE 0]]
    /\ queue' = [queue EXCEPT ![LockOrder(op)[1]] = Append(@, t)]
    /\ UNCHANGED <<known, lastSeen, connected, now>>

Granted(t, op, step) ==
    /\ call[t].op = op /\ call[t].step = step
    /\ Grantable(t)

\* Mutant of Oldest: one peer too few is evicted.
OneTooFew(ids, seen) ==
    {old \in SUBSET ids :
        /\ Cardinality(old) = Cardinality(ids) - MaxPeers - 1
        /\ \A o \in old, k \in ids \ old : seen[o] <= seen[k]}

\* The peers to evict: as many as are too many, those seen longest ago.  Ties
\* fall as the iteration order of the map has them.
Oldest(ids, seen) ==
    {old \in SUBSET ids :
        /\ Cardinality(old) = Cardinality(ids) - MaxPeers
        /\ \A o \in old, k \in ids \ old : seen[o] <= seen[k]}

Forget(seen, ids) == [i \in Ids |-> IF i \in ids THEN 0 ELSE seen[i]]

\* Also what Announce and each entry of PeerResponse do.
AddPeer(t) ==
    /\ Granted(t, "add_peer", 1)
    /\ LET all == known \cup call[t].id
           seen == [i \in Ids |-> IF i \in call[t].id THEN call[t].at
                                                      ELSE lastSeen[i]]
       IN  IF Cardinality(all) > MaxPeers
           THEN \E old \in Oldest(all, seen) :
                   known' = all \ old /\ lastSeen' = Forget(seen, old)
           ELSE known' = all /\ lastSeen' = seen
    /\ Return(t)
    /\ UNCHANGED <<connected, now>>

RemoveKnown(t) ==
    /\ Granted(t, "remove_peer", 1)
    /\ known' = known \ call[t].id
    /\ lastSeen' = Forget(lastSeen, call[t].id)
    /\ TakeFirst(t, 0)
    /\ UNCHANGED <<connected, now>>

RemoveConnected(t) ==
    /\ Granted(t, "remove_peer", 2)
    /\ connected' = connected \ call[t].id
    /\ Return(t)
    /\ UNCHANGED <<known, lastSeen, now>>

\* Also what a Pong does.  The id need not be a known one.
MarkConnected(t) ==
    /\ Granted(t, "mark_connected", 1)
    /\ connected' = connected \cup call[t].id
    /\ TakeFirst(t, now)
    /\ UNCHANGED <<known, lastSeen, now>>

\* Mutant of MarkSeen: an unknown id gets a last_seen.
MarkSeenInserts(t) ==
    /\ Granted(t, "mark_connected", 2)
    /\ lastSeen' = [i \in Ids |-> IF i \in call[t].id THEN call[t].at ELSE lastSeen[i]]
    /\ Return(t)
    /\ UNCHANGED <<known, connected, now>>

MarkSeen(t) ==
    /\ Granted(t, "mark_connected", 2)
    /\ lastSeen' = [i \in Ids |-> IF i \in call[t].id \cap known THEN call[t].at
                                                                 ELSE lastSeen[i]]
    /\ Return(t)
    /\ UNCHANGED <<known, connected, now>>

MarkDisconnected(t) ==
    /\ Granted(t, "mark_disconnected", 1)
    /\ connected' = connected \ call[t].id
    /\ Return(t)
    /\ UNCHANGED <<known, lastSeen, now>>

CleanupLocks(t) ==
    /\ Granted(t, "cleanup_old_peers", 1)
    /\ TakeFirst(t, call[t].at)
    /\ UNCHANGED <<known, lastSeen, connected, now>>

\* last_seen < now - peer_timeout, with the time the call started at.
CleanupOldPeers(t) ==
    /\ Granted(t, "cleanup_old_peers", 2)
    /\ LET old == {i \in known : lastSeen[i] + PeerTimeout < call[t].at}
       IN  /\ known' = known \ old
           /\ connected' = connected \ old
           /\ lastSeen' = Forget(lastSeen, old)
    /\ Return(t)
    /\ UNCHANGED now

\* get_stats and get_peers_for_discovery read both collections.
ReadPeers(t) ==
    /\ Granted(t, "get_stats", 1)
    /\ TakeFirst(t, 0)
    /\ UNCHANGED <<known, lastSeen, connected, now>>

ReadConnected(t) ==
    /\ Granted(t, "get_stats", 2)
    /\ Return(t)
    /\ UNCHANGED <<known, lastSeen, connected, now>>

Tick ==
    /\ now < MaxClock
    /\ now' = now + 1
    /\ UNCHANGED <<known, lastSeen, connected, call, queue>>

Grant(t) ==
    \/ AddPeer(t) \/ RemoveKnown(t) \/ RemoveConnected(t) \/ MarkConnected(t)
    \/ MarkSeen(t) \/ MarkDisconnected(t) \/ CleanupLocks(t)
    \/ CleanupOldPeers(t) \/ ReadPeers(t) \/ ReadConnected(t)

Next ==
    \/ \E t \in Tasks : \/ \E op \in Calls, i \in Ids : Begin(t, op, i)
                        \/ Grant(t)
    \/ Tick

Spec == Init /\ [][Next]_vars

\* The runtime polls every task whose lock was handed to it.
FairSpec == Spec /\ \A t \in Tasks : WF_vars(Grant(t))

-----------------------------------------------------------------------------
(* Properties *)

\* Every variable has its type, and only known ids have a last_seen.
TypeOK ==
    /\ known \in SUBSET Ids
    /\ lastSeen \in [Ids -> Nat]
    /\ \A i \in Ids \ known : lastSeen[i] = 0
    /\ connected \in SUBSET Ids
    /\ call \in [Tasks -> [op : AllCalls, id : SUBSET Ids, at : Nat, step : 1..2]
                            \cup {Idle}]
    /\ queue \in [Locks -> Seq(Tasks)]
    /\ now \in Nat

\* The map never grows beyond max_peers, whichever calls add to it.
NeverOverfull == Cardinality(known) <= MaxPeers

\* The locks are taken in two orders, so that calls can wait for each other in
\* a circle.  Whenever nobody who waits can be granted a lock, one of them is in
\* mark_connected, holding the connected set, and another holds the peers map:
\* no set of calls without mark_connected blocks, in whatever order they queue.
BlockedOnlyByMarkConnected ==
    (\E t \in Tasks : call[t].step # 0) =>
        \/ \E t \in Tasks : Grantable(t)
        \/ \E t, u \in Tasks :
              /\ call[t].op = "mark_connected" /\ call[t].step = 2
              /\ u \in Holders("peers")

\* A mark_connected holds the connected set and waits for the peers map, whose
\* holder waits for the connected set.
Circle ==
    \E t, u \in Tasks :
        /\ call[t].op = "mark_connected" /\ call[t].step = 2
        /\ u \in Holders("peers") /\ WaitsFor(u) = "connected"

\* Every call returns, or such a circle stands from some point on for ever: the
\* queues of both locks advance past every other mix of readers and writers, and
\* no stream of new calls, mark_connected among them, starves an old one.
CallsReturn ==
    \A t \in Tasks :
        call[t].step # 0 ~> (call[t].step = 0 \/ []Circle)
=============================================================================
