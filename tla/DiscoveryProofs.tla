--------------------------- MODULE DiscoveryProofs ---------------------------
(***************************************************************************)
(* Proofs about Discovery: the peers map keeps its bound, and calls block  *)
(* each other only through mark_connected.  The second needs what the lock *)
(* queues hold: exactly the tasks that wait, each once and in one queue.   *)
(***************************************************************************)
EXTENDS Discovery, FiniteSetTheorems, SequenceTheorems, TLAPS

\* The lock that a task in call c waits for.
Asks(c) == LockOrder(c.op)[c.step]

\* A task in a call waits for a lock of that call, in that lock's queue.
WaitersQueue ==
    \A t \in Tasks : call[t].step # 0 =>
        /\ Asks(call[t]) \in Locks
        /\ \E k \in DOMAIN queue[Asks(call[t])] : queue[Asks(call[t])][k] = t

\* Who is in a queue waits for its lock.
QueuedWait ==
    \A l \in Locks : \A k \in DOMAIN queue[l] :
        call[queue[l][k]].step # 0 /\ Asks(call[queue[l][k]]) = l

\* Nobody is twice in a queue.
QueuedOnce ==
    \A l \in Locks : \A j, k \in DOMAIN queue[l] :
        queue[l][j] = queue[l][k] => j = k

\* Only calls with two locks take a second one.
SecondLock ==
    \A t \in Tasks : call[t].step = 2 =>
        call[t].op \in {"remove_peer", "mark_connected", "cleanup_old_peers",
                        "get_stats"}

QInv == TypeOK /\ WaitersQueue /\ QueuedWait /\ QueuedOnce /\ SecondLock

\* The map is finite, and a call names at most one peer.
Small ==
    /\ IsFiniteSet(known)
    /\ \A t \in Tasks : IsFiniteSet(call[t].id)

-----------------------------------------------------------------------------
(* The operators of the model *)

LEMMA LockOrderIs ==
    /\ LockOrder("mark_connected") = <<"connected", "peers">>
    /\ LockOrder("mark_disconnected") = <<"connected">>
    /\ LockOrder("add_peer") = <<"peers">>
    /\ LockOrder("remove_peer") = <<"peers", "connected">>
    /\ LockOrder("cleanup_old_peers") = <<"peers", "connected">>
    /\ LockOrder("get_stats") = <<"peers", "connected">>
BY DEF LockOrder

\* The first lock of a call is a lock, and the second one is another.
LEMMA TwoLocks ==
    /\ \A op \in AllCalls : LockOrder(op)[1] \in Locks
    /\ \A op \in AllCalls \ {"add_peer", "mark_disconnected"} :
          LockOrder(op)[2] \in Locks /\ LockOrder(op)[2] # LockOrder(op)[1]
BY LockOrderIs DEF AllCalls, Locks

\* Who is granted a lock waits for it, first in its queue.
LEMMA GrantedIsHead ==
    ASSUME QInv, NEW t \in Tasks, NEW op \in AllCalls, NEW step \in 1..2,
           Granted(t, op, step)
    PROVE  /\ call[t].op = op /\ call[t].step = step
           /\ WaitsFor(t) = LockOrder(op)[step] /\ WaitsFor(t) \in Locks
           /\ queue[WaitsFor(t)] \in Seq(Tasks)
           /\ queue[WaitsFor(t)] # <<>> /\ queue[WaitsFor(t)][1] = t
           /\ call[t] \in [op : AllCalls, id : SUBSET Ids, at : Nat, step : 1..2]
<1>1. /\ call[t].op = op /\ call[t].step = step
      /\ WaitsFor(t) = LockOrder(op)[step] /\ WaitsFor(t) \in Locks
      /\ \E k \in DOMAIN queue[WaitsFor(t)] : queue[WaitsFor(t)][k] = t
      /\ Head(queue[WaitsFor(t)]) = t
      BY DEF Granted, Grantable, QInv, WaitersQueue, WaitsFor, Asks
<1>2. queue[WaitsFor(t)] \in Seq(Tasks)
      BY <1>1 DEF QInv, TypeOK
<1>3. queue[WaitsFor(t)] # <<>> /\ queue[WaitsFor(t)][1] = t
      BY <1>1, <1>2
<1>4. call[t] \in [op : AllCalls, id : SUBSET Ids, at : Nat, step : 1..2]
      BY <1>1 DEF QInv, TypeOK, Idle
<1> QED BY <1>1, <1>2, <1>3, <1>4

\* What Tail and Append do to a sequence of tasks, index by index.
LEMMA TailIs ==
    ASSUME NEW s \in Seq(Tasks), s # <<>>
    PROVE  /\ Tail(s) \in Seq(Tasks)
           /\ \A k \in DOMAIN Tail(s) : k + 1 \in DOMAIN s /\ Tail(s)[k] = s[k + 1]
           /\ \A k \in DOMAIN s : k # 1 => k - 1 \in DOMAIN Tail(s)
           /\ DOMAIN Tail(s) \subseteq Nat /\ DOMAIN s \subseteq Nat
           /\ 1 \in DOMAIN s
BY HeadTailProperties

LEMMA AppendIs ==
    ASSUME NEW s \in Seq(Tasks), NEW t \in Tasks
    PROVE  /\ Append(s, t) \in Seq(Tasks)
           /\ DOMAIN s \subseteq DOMAIN Append(s, t)
           /\ \A k \in DOMAIN s : Append(s, t)[k] = s[k]
           /\ \E k \in DOMAIN Append(s, t) :
                 /\ Append(s, t)[k] = t
                 /\ DOMAIN Append(s, t) = DOMAIN s \cup {k}
BY AppendProperties

\* A call that takes its second lock is still that call.
LEMMA SecondStep ==
    ASSUME NEW c \in [op : AllCalls, id : SUBSET Ids, at : Nat, step : 1..2],
           NEW at \in Nat
    PROVE  LET d == [c EXCEPT !.step = 2, !.at = at]
           IN  /\ d \in [op : AllCalls, id : SUBSET Ids, at : Nat, step : 1..2]
               /\ d.step = 2 /\ d.op = c.op /\ d.id = c.id /\ d.at = at
<1> DEFINE b == [c EXCEPT !.step = 2]
           d == [b EXCEPT !.at = at]
<1>1. /\ b \in [op : AllCalls, id : SUBSET Ids, at : Nat, step : 1..2]
      /\ b.step = 2 /\ b.op = c.op /\ b.id = c.id
      OBVIOUS
<1> HIDE DEF b
<1>2. /\ d \in [op : AllCalls, id : SUBSET Ids, at : Nat, step : 1..2]
      /\ d.step = b.step /\ d.op = b.op /\ d.id = b.id /\ d.at = at
      BY <1>1
<1> QED BY <1>1, <1>2 DEF b

-----------------------------------------------------------------------------
(* What a step does to the queues *)

\* A call begins: its task is the last in the queue of the first lock.
LEMMA BeginQueues ==
    ASSUME QInv, NEW t \in Tasks, NEW op \in Calls, NEW i \in Ids, Begin(t, op, i)
    PROVE  /\ call' \in [Tasks -> [op : AllCalls, id : SUBSET Ids, at : Nat,
                                   step : 1..2] \cup {Idle}]
           /\ queue' \in [Locks -> Seq(Tasks)]
           /\ WaitersQueue' /\ QueuedWait' /\ QueuedOnce' /\ SecondLock'
<1> DEFINE l == LockOrder(op)[1]
           c == [op |-> op, step |-> 1,
                 id |-> IF op \in {"cleanup_old_peers", "get_stats"} THEN {} ELSE {i},
                 at |-> IF op \in {"add_peer", "cleanup_old_peers"} THEN now ELSE 0]
           q == Append(queue[l], t)
<1>1. op \in AllCalls /\ l \in Locks
      BY CallsAssumption, TwoLocks
<1>2. /\ call \in [Tasks -> [op : AllCalls, id : SUBSET Ids, at : Nat, step : 1..2]
                            \cup {Idle}]
      /\ queue \in [Locks -> Seq(Tasks)] /\ now \in Nat
      BY DEF QInv, TypeOK
<1>3. c \in [op : AllCalls, id : SUBSET Ids, at : Nat, step : 1..2]
      BY <1>1, <1>2
<1>4. /\ call[t].step = 0
      /\ call' = [call EXCEPT ![t] = c] /\ queue' = [queue EXCEPT ![l] = q]
      BY DEF Begin, Idle
<1>5. /\ c.step = 1 /\ c.op = op
      OBVIOUS
<1>6. /\ queue[l] \in Seq(Tasks) /\ q \in Seq(Tasks)
      /\ DOMAIN queue[l] \subseteq DOMAIN q
      /\ \A k \in DOMAIN queue[l] : q[k] = queue[l][k]
      /\ \E k \in DOMAIN q : q[k] = t /\ DOMAIN q = DOMAIN queue[l] \cup {k}
      BY <1>1, <1>2, AppendIs
<1> HIDE DEF c, q
<1>7. /\ call' \in [Tasks -> [op : AllCalls, id : SUBSET Ids, at : Nat, step : 1..2]
                             \cup {Idle}]
      /\ queue' \in [Locks -> Seq(Tasks)]
      BY <1>2, <1>3, <1>4, <1>6
<1>8. /\ call'[t] = c /\ \A u \in Tasks : u # t => call'[u] = call[u]
      /\ queue'[l] = q /\ \A m \in Locks : m # l => queue'[m] = queue[m]
      BY <1>1, <1>2, <1>4
<1>9. Asks(c) = l
      BY <1>5 DEF Asks
<1>10. \A m \in Locks : \A k \in DOMAIN queue[m] : queue[m][k] # t
       BY <1>4 DEF QInv, QueuedWait
<1> HIDE DEF l
<1>11. WaitersQueue'
  <2> SUFFICES ASSUME NEW u \in Tasks, call'[u].step # 0
               PROVE  /\ Asks(call'[u]) \in Locks
                      /\ \E k \in DOMAIN queue'[Asks(call'[u])] :
                            queue'[Asks(call'[u])][k] = u
      BY DEF WaitersQueue
  <2>1. CASE u = t
        BY <2>1, <1>1, <1>6, <1>8, <1>9
  <2>2. CASE u # t
    <3>1. /\ Asks(call[u]) \in Locks
          /\ \E k \in DOMAIN queue[Asks(call[u])] : queue[Asks(call[u])][k] = u
          BY <2>2, <1>8 DEF QInv, WaitersQueue
    <3> QED BY <3>1, <2>2, <1>6, <1>8, <1>9
  <2> QED BY <2>1, <2>2
<1>12. QueuedWait'
  <2> SUFFICES ASSUME NEW m \in Locks, NEW k \in DOMAIN queue'[m]
               PROVE  call'[queue'[m][k]].step # 0 /\ Asks(call'[queue'[m][k]]) = m
      BY DEF QueuedWait
  <2>1. CASE queue'[m][k] = t
    <3>1. m = l
          BY <2>1, <1>8, <1>10
    <3> QED BY <3>1, <2>1, <1>5, <1>8, <1>9
  <2>2. CASE queue'[m][k] # t
    <3>1. k \in DOMAIN queue[m] /\ queue'[m][k] = queue[m][k]
          BY <2>2, <1>6, <1>8
    <3>2. queue[m][k] \in Tasks /\ call[queue[m][k]].step # 0
          /\ Asks(call[queue[m][k]]) = m
          BY <3>1, <1>2, ElementOfSeq DEF QInv, QueuedWait
    <3> QED BY <3>1, <3>2, <2>2, <1>8, <1>9
  <2> QED BY <2>1, <2>2
<1>13. QueuedOnce'
  <2> SUFFICES ASSUME NEW m \in Locks, NEW j \in DOMAIN queue'[m],
                      NEW k \in DOMAIN queue'[m], queue'[m][j] = queue'[m][k]
               PROVE  j = k
      BY DEF QueuedOnce
  <2>1. CASE m # l
        BY <2>1, <1>8 DEF QInv, QueuedOnce
  <2>2. CASE m = l
        BY <2>2, <1>1, <1>6, <1>8, <1>10 DEF QInv, QueuedOnce
  <2> QED BY <2>1, <2>2
<1>14. SecondLock'
       BY <1>5, <1>8 DEF QInv, SecondLock
<1> QED BY <1>7, <1>11, <1>12, <1>13, <1>14

\* A call gets its first lock: its task moves from the head of one queue to the
\* end of the other.
LEMMA TakeFirstQueues ==
    ASSUME QInv, NEW t \in Tasks, NEW at \in Nat,
           NEW op \in AllCalls \ {"add_peer", "mark_disconnected"},
           Granted(t, op, 1), TakeFirst(t, at)
    PROVE  /\ call' \in [Tasks -> [op : AllCalls, id : SUBSET Ids, at : Nat,
                                   step : 1..2] \cup {Idle}]
           /\ queue' \in [Locks -> Seq(Tasks)]
           /\ WaitersQueue' /\ QueuedWait' /\ QueuedOnce' /\ SecondLock'
<1> DEFINE l == LockOrder(op)[1]
           next == LockOrder(op)[2]
           c == [call[t] EXCEPT !.step = 2, !.at = at]
           q == Append(queue[next], t)
           rest == Tail(queue[l])
<1>1. l \in Locks /\ next \in Locks /\ l # next
      BY TwoLocks
<1>2. /\ call[t].op = op /\ call[t].step = 1 /\ WaitsFor(t) = l
      /\ queue[l] # <<>> /\ queue[l][1] = t
      /\ call[t] \in [op : AllCalls, id : SUBSET Ids, at : Nat, step : 1..2]
      BY GrantedIsHead
<1>3. /\ call \in [Tasks -> [op : AllCalls, id : SUBSET Ids, at : Nat, step : 1..2]
                            \cup {Idle}]
      /\ queue \in [Locks -> Seq(Tasks)]
      BY DEF QInv, TypeOK
<1>4. /\ c \in [op : AllCalls, id : SUBSET Ids, at : Nat, step : 1..2]
      /\ c.step = 2 /\ c.op = op
      BY <1>2, SecondStep
<1>5. /\ call' = [call EXCEPT ![t] = c]
      /\ queue' = [queue EXCEPT ![l] = rest, ![next] = q]
      BY <1>1, <1>2, <1>3 DEF TakeFirst
<1>6. /\ queue[next] \in Seq(Tasks) /\ q \in Seq(Tasks)
      /\ DOMAIN queue[next] \subseteq DOMAIN q
      /\ \A k \in DOMAIN queue[next] : q[k] = queue[next][k]
      /\ \E k \in DOMAIN q : q[k] = t /\ DOMAIN q = DOMAIN queue[next] \cup {k}
  <2>1. queue[next] \in Seq(Tasks)
        BY <1>1, <1>3
  <2> HIDE DEF next
  <2> QED BY <2>1, AppendIs
<1>7. /\ queue[l] \in Seq(Tasks) /\ rest \in Seq(Tasks)
      /\ \A k \in DOMAIN rest : k + 1 \in DOMAIN queue[l] /\ rest[k] = queue[l][k + 1]
      /\ \A k \in DOMAIN queue[l] : k # 1 => k - 1 \in DOMAIN rest
      /\ DOMAIN rest \subseteq Nat /\ DOMAIN queue[l] \subseteq Nat
      /\ 1 \in DOMAIN queue[l]
      BY <1>1, <1>2, <1>3, TailIs
<1> HIDE DEF c, q, rest
<1>8. /\ call' \in [Tasks -> [op : AllCalls, id : SUBSET Ids, at : Nat, step : 1..2]
                             \cup {Idle}]
      /\ queue' \in [Locks -> Seq(Tasks)]
      BY <1>3, <1>4, <1>5, <1>6, <1>7
<1>9. /\ call'[t] = c /\ \A u \in Tasks : u # t => call'[u] = call[u]
      /\ queue'[l] = rest /\ queue'[next] = q
      /\ \A m \in Locks : m \in {l, next}
      BY <1>1, <1>3, <1>5 DEF Locks
<1>10. Asks(call[t]) = l /\ Asks(c) = next
       BY <1>2, <1>4 DEF Asks
<1>11. /\ \A k \in DOMAIN queue[next] : queue[next][k] # t
       /\ \A k \in DOMAIN queue[l] : queue[l][k] = t => k = 1
  <2> HIDE DEF l, next
  <2>1. \A k \in DOMAIN queue[next] : queue[next][k] # t
        BY <1>1, <1>10 DEF QInv, QueuedWait
  <2>2. \A k \in DOMAIN queue[l] : queue[l][k] = t => k = 1
        BY <1>1, <1>2, <1>7 DEF QInv, QueuedOnce
  <2> QED BY <2>1, <2>2
<1> HIDE DEF l, next
<1>12. \A k \in DOMAIN rest : rest[k] # t
       BY <1>7, <1>11
<1>13. WaitersQueue'
  <2> SUFFICES ASSUME NEW u \in Tasks, call'[u].step # 0
               PROVE  /\ Asks(call'[u]) \in Locks
                      /\ \E k \in DOMAIN queue'[Asks(call'[u])] :
                            queue'[Asks(call'[u])][k] = u
      BY DEF WaitersQueue
  <2>1. CASE u = t
        BY <2>1, <1>1, <1>6, <1>9, <1>10
  <2>2. CASE u # t
    <3>1. /\ call'[u] = call[u] /\ Asks(call[u]) \in Locks
          /\ \E k \in DOMAIN queue[Asks(call[u])] : queue[Asks(call[u])][k] = u
          BY <2>2, <1>9 DEF QInv, WaitersQueue
    <3>2. CASE Asks(call[u]) = next
          BY <3>1, <3>2, <2>2, <1>6, <1>9
    <3>3. CASE Asks(call[u]) = l
      <4>1. PICK k \in DOMAIN queue[l] : queue[l][k] = u
            BY <3>1, <3>3
      <4>2. k - 1 \in DOMAIN rest /\ rest[k - 1] = u
            BY <4>1, <2>2, <1>2, <1>7
      <4> QED BY <4>2, <3>1, <3>3, <1>9
    <3> QED BY <3>1, <3>2, <3>3, <1>9
  <2> QED BY <2>1, <2>2
<1>14. QueuedWait'
  <2> SUFFICES ASSUME NEW m \in Locks, NEW k \in DOMAIN queue'[m]
               PROVE  call'[queue'[m][k]].step # 0 /\ Asks(call'[queue'[m][k]]) = m
      BY DEF QueuedWait
  <2>1. CASE queue'[m][k] = t
    <3>1. m = next
          BY <2>1, <1>9, <1>12
    <3> QED BY <3>1, <2>1, <1>4, <1>9, <1>10
  <2>2. CASE queue'[m][k] # t
    <3>1. \E j \in DOMAIN queue[m] : queue'[m][k] = queue[m][j]
      <4>1. CASE m = l
        <5>1. k + 1 \in DOMAIN queue[l] /\ rest[k] = queue[l][k + 1]
              BY <4>1, <1>7, <1>9
        <5> QED BY <5>1, <4>1, <1>9
      <4>2. CASE m = next
        <5>1. k \in DOMAIN queue[next] /\ q[k] = queue[next][k]
              BY <4>2, <2>2, <1>6, <1>9
        <5> QED BY <5>1, <4>2, <1>9
      <4> QED BY <4>1, <4>2, <1>9
    <3>2. /\ queue'[m][k] \in Tasks /\ call[queue'[m][k]].step # 0
          /\ Asks(call[queue'[m][k]]) = m
          BY <3>1, <1>3, ElementOfSeq DEF QInv, QueuedWait
    <3> QED BY <3>2, <2>2, <1>9
  <2> QED BY <2>1, <2>2
<1>15. QueuedOnce'
  <2> SUFFICES ASSUME NEW m \in Locks, NEW j \in DOMAIN queue'[m],
                      NEW k \in DOMAIN queue'[m], queue'[m][j] = queue'[m][k]
               PROVE  j = k
      BY DEF QueuedOnce
  <2>1. CASE m = l
    <3>1. /\ j \in Nat /\ k \in Nat
          /\ j + 1 \in DOMAIN queue[l] /\ k + 1 \in DOMAIN queue[l]
          /\ queue[l][j + 1] = queue[l][k + 1]
          BY <2>1, <1>7, <1>9
    <3>2. j + 1 = k + 1
          BY <3>1, <1>1 DEF QInv, QueuedOnce
    <3> QED BY <3>1, <3>2
  <2>2. CASE m = next
        BY <2>2, <1>1, <1>6, <1>9, <1>11 DEF QInv, QueuedOnce
  <2> QED BY <2>1, <2>2, <1>9
<1>16. SecondLock'
       BY <1>4, <1>9 DEF QInv, SecondLock, AllCalls
<1> QED BY <1>8, <1>13, <1>14, <1>15, <1>16

\* A call returns: its task leaves the queue it was the head of.
LEMMA ReturnQueues ==
    ASSUME QInv, NEW t \in Tasks, NEW op \in AllCalls, NEW step \in 1..2,
           Granted(t, op, step), Return(t)
    PROVE  /\ call' \in [Tasks -> [op : AllCalls, id : SUBSET Ids, at : Nat,
                                   step : 1..2] \cup {Idle}]
           /\ queue' \in [Locks -> Seq(Tasks)]
           /\ WaitersQueue' /\ QueuedWait' /\ QueuedOnce' /\ SecondLock'
<1> DEFINE l == WaitsFor(t)
           rest == Tail(queue[l])
<1>1. /\ l \in Locks /\ Asks(call[t]) = l
      /\ queue[l] # <<>> /\ queue[l][1] = t
      BY GrantedIsHead DEF WaitsFor, Asks
<1>2. /\ call \in [Tasks -> [op : AllCalls, id : SUBSET Ids, at : Nat, step : 1..2]
                            \cup {Idle}]
      /\ queue \in [Locks -> Seq(Tasks)]
      BY DEF QInv, TypeOK
<1>3. /\ call' = [call EXCEPT ![t] = Idle]
      /\ queue' = [queue EXCEPT ![l] = rest]
      BY DEF Return
<1>4. /\ queue[l] \in Seq(Tasks) /\ rest \in Seq(Tasks)
      /\ \A k \in DOMAIN rest : k + 1 \in DOMAIN queue[l] /\ rest[k] = queue[l][k + 1]
      /\ \A k \in DOMAIN queue[l] : k # 1 => k - 1 \in DOMAIN rest
      /\ DOMAIN rest \subseteq Nat /\ DOMAIN queue[l] \subseteq Nat
      /\ 1 \in DOMAIN queue[l]
      BY <1>1, <1>2, TailIs
<1> HIDE DEF l, rest
<1>5. /\ call' \in [Tasks -> [op : AllCalls, id : SUBSET Ids, at : Nat, step : 1..2]
                             \cup {Idle}]
      /\ queue' \in [Locks -> Seq(Tasks)]
      BY <1>2, <1>3, <1>4
<1>6. /\ call'[t] = Idle /\ \A u \in Tasks : u # t => call'[u] = call[u]
      /\ queue'[l] = rest /\ \A m \in Locks : m # l => queue'[m] = queue[m]
      BY <1>1, <1>2, <1>3
<1>7. \A m \in Locks : \A k \in DOMAIN queue[m] : queue[m][k] = t => m = l /\ k = 1
      BY <1>1, <1>4 DEF QInv, QueuedWait, QueuedOnce
<1>8. \A m \in Locks : \A k \in DOMAIN queue'[m] :
          \E j \in DOMAIN queue[m] : queue'[m][k] = queue[m][j] /\ queue[m][j] # t
  <2> SUFFICES ASSUME NEW m \in Locks, NEW k \in DOMAIN queue'[m]
               PROVE  \E j \in DOMAIN queue[m] :
                          queue'[m][k] = queue[m][j] /\ queue[m][j] # t
      OBVIOUS
  <2>1. CASE m = l
    <3>1. /\ k \in Nat /\ k + 1 \in DOMAIN queue[l] /\ rest[k] = queue[l][k + 1]
          /\ queue[l][k + 1] # t
          BY <2>1, <1>4, <1>6, <1>7
    <3> QED BY <3>1, <2>1, <1>6
  <2>2. CASE m # l
        BY <2>2, <1>6, <1>7
  <2> QED BY <2>1, <2>2
<1>9. WaitersQueue'
  <2> SUFFICES ASSUME NEW u \in Tasks, call'[u].step # 0
               PROVE  /\ Asks(call'[u]) \in Locks
                      /\ \E k \in DOMAIN queue'[Asks(call'[u])] :
                            queue'[Asks(call'[u])][k] = u
      BY DEF WaitersQueue
  <2>1. u # t /\ call'[u] = call[u]
        BY <1>6 DEF Idle
  <2>2. /\ Asks(call[u]) \in Locks
        /\ \E k \in DOMAIN queue[Asks(call[u])] : queue[Asks(call[u])][k] = u
        BY <2>1 DEF QInv, WaitersQueue
  <2>3. CASE Asks(call[u]) # l
        BY <2>1, <2>2, <2>3, <1>6
  <2>4. CASE Asks(call[u]) = l
    <3>1. PICK k \in DOMAIN queue[l] : queue[l][k] = u
          BY <2>2, <2>4
    <3>2. k - 1 \in DOMAIN rest /\ rest[k - 1] = u
          BY <3>1, <2>1, <1>1, <1>4
    <3> QED BY <3>2, <2>1, <2>2, <2>4, <1>6
  <2> QED BY <2>3, <2>4
<1>10. QueuedWait'
  <2> SUFFICES ASSUME NEW m \in Locks, NEW k \in DOMAIN queue'[m]
               PROVE  call'[queue'[m][k]].step # 0 /\ Asks(call'[queue'[m][k]]) = m
      BY DEF QueuedWait
  <2>1. PICK j \in DOMAIN queue[m] : queue'[m][k] = queue[m][j] /\ queue[m][j] # t
        BY <1>8
  <2>2. /\ queue[m][j] \in Tasks /\ call[queue[m][j]].step # 0
        /\ Asks(call[queue[m][j]]) = m
        BY <1>2, ElementOfSeq DEF QInv, QueuedWait
  <2> QED BY <2>1, <2>2, <1>6
<1>11. QueuedOnce'
  <2> SUFFICES ASSUME NEW m \in Locks, NEW j \in DOMAIN queue'[m],
                      NEW k \in DOMAIN queue'[m], queue'[m][j] = queue'[m][k]
               PROVE  j = k
      BY DEF QueuedOnce
  <2>1. CASE m = l
    <3>1. /\ j \in Nat /\ k \in Nat
          /\ j + 1 \in DOMAIN queue[l] /\ k + 1 \in DOMAIN queue[l]
          /\ queue[l][j + 1] = queue[l][k + 1]
          BY <2>1, <1>4, <1>6
    <3>2. j + 1 = k + 1
          BY <3>1, <1>1 DEF QInv, QueuedOnce
    <3> QED BY <3>1, <3>2
  <2>2. CASE m # l
        BY <2>2, <1>6 DEF QInv, QueuedOnce
  <2> QED BY <2>1, <2>2
<1>12. SecondLock'
       BY <1>6 DEF QInv, SecondLock, Idle
<1> QED BY <1>5, <1>9, <1>10, <1>11, <1>12

-----------------------------------------------------------------------------
(* The invariant of the queues *)

LEMMA QInvInit == Init => QInv
<1> SUFFICES ASSUME Init PROVE QInv
    OBVIOUS
<1>1. /\ \A t \in Tasks : call[t] = Idle /\ Idle.step = 0
      /\ \A l \in Locks : queue[l] = <<>> /\ DOMAIN queue[l] = {}
      BY DEF Init, Idle
<1>2. TypeOK
      BY DEF Init, TypeOK
<1> QED BY <1>1, <1>2 DEF QInv, WaitersQueue, QueuedWait, QueuedOnce, SecondLock

\* Forgetting peers keeps the times of the others.
LEMMA ForgetIs ==
    ASSUME NEW seen \in [Ids -> Nat], NEW ids
    PROVE  /\ Forget(seen, ids) \in [Ids -> Nat]
           /\ \A i \in Ids : Forget(seen, ids)[i] = IF i \in ids THEN 0 ELSE seen[i]
BY DEF Forget

\* What a granted call does to the peers: each has its type, unknown ids have no
\* last_seen.
LEMMA GrantPeers ==
    ASSUME QInv, NEW t \in Tasks, Grant(t)
    PROVE  /\ known' \in SUBSET Ids /\ connected' \in SUBSET Ids /\ now' \in Nat
           /\ lastSeen' \in [Ids -> Nat]
           /\ \A i \in Ids \ known' : lastSeen'[i] = 0
<1>1. /\ known \in SUBSET Ids /\ connected \in SUBSET Ids /\ now \in Nat
      /\ lastSeen \in [Ids -> Nat] /\ \A i \in Ids \ known : lastSeen[i] = 0
      BY DEF QInv, TypeOK
<1>2. call[t].id \in SUBSET Ids /\ call[t].at \in Nat
      BY DEF QInv, TypeOK, Idle
<1> DEFINE id == call[t].id
           at == call[t].at
<1> HIDE DEF id, at
<1>3. CASE AddPeer(t)
  <2> DEFINE all == known \cup id
             seen == [i \in Ids |-> IF i \in id THEN at ELSE lastSeen[i]]
  <2>1. /\ all \in SUBSET Ids /\ seen \in [Ids -> Nat]
        /\ \A i \in Ids \ all : seen[i] = 0
        BY <1>1, <1>2 DEF id, at
  <2>2. /\ connected' = connected /\ now' = now
        /\ \/ \E old \in SUBSET all :
                 known' = all \ old /\ lastSeen' = Forget(seen, old)
           \/ known' = all /\ lastSeen' = seen
        BY <1>3 DEF AddPeer, Oldest, id, at
  <2> HIDE DEF all, seen
  <2>3. CASE known' = all /\ lastSeen' = seen
        BY <2>1, <2>2, <2>3, <1>1
  <2>4. CASE \E old \in SUBSET all :
                 known' = all \ old /\ lastSeen' = Forget(seen, old)
        BY <2>1, <2>2, <2>4, <1>1, ForgetIs
  <2> QED BY <2>2, <2>3, <2>4
<1>4. CASE RemoveKnown(t)
      BY <1>1, <1>2, <1>4, ForgetIs DEF RemoveKnown
<1>5. CASE MarkSeen(t)
      BY <1>1, <1>2, <1>5 DEF MarkSeen
<1>6. CASE CleanupOldPeers(t)
      BY <1>1, <1>6, ForgetIs DEF CleanupOldPeers
<1>7. CASE \/ RemoveConnected(t) \/ MarkConnected(t) \/ MarkDisconnected(t)
           \/ CleanupLocks(t) \/ ReadPeers(t) \/ ReadConnected(t)
      BY <1>1, <1>2, <1>7 DEF RemoveConnected, MarkConnected, MarkDisconnected,
         CleanupLocks, ReadPeers, ReadConnected
<1> QED BY <1>3, <1>4, <1>5, <1>6, <1>7 DEF Grant

\* What a granted call does to the calls and the queues.
LEMMA GrantQueues ==
    ASSUME QInv, NEW t \in Tasks, Grant(t)
    PROVE  /\ call' \in [Tasks -> [op : AllCalls, id : SUBSET Ids, at : Nat,
                                   step : 1..2] \cup {Idle}]
           /\ queue' \in [Locks -> Seq(Tasks)]
           /\ WaitersQueue' /\ QueuedWait' /\ QueuedOnce' /\ SecondLock'
<1>1. now \in Nat /\ call[t].at \in Nat
      BY DEF QInv, TypeOK, Idle
<1>2. CASE \/ RemoveKnown(t) \/ MarkConnected(t) \/ CleanupLocks(t) \/ ReadPeers(t)
  <2>1. PICK op \in AllCalls \ {"add_peer", "mark_disconnected"}, at \in Nat :
            Granted(t, op, 1) /\ TakeFirst(t, at)
        BY <1>1, <1>2 DEF RemoveKnown, MarkConnected, CleanupLocks, ReadPeers, AllCalls
  <2> QED BY <2>1, TakeFirstQueues
<1>3. CASE ~(RemoveKnown(t) \/ MarkConnected(t) \/ CleanupLocks(t) \/ ReadPeers(t))
  <2>1. PICK op \in AllCalls, step \in 1..2 : Granted(t, op, step) /\ Return(t)
        BY <1>3 DEF Grant, AddPeer, RemoveConnected, MarkSeen, MarkDisconnected,
           CleanupOldPeers, ReadConnected, AllCalls
  <2> QED BY <2>1, ReturnQueues
<1> QED BY <1>2, <1>3

LEMMA QInvNext == QInv /\ [Next]_vars => QInv'
<1> SUFFICES ASSUME QInv, [Next]_vars PROVE QInv'
    OBVIOUS
<1>1. ASSUME NEW t \in Tasks, NEW op \in Calls, NEW i \in Ids, Begin(t, op, i)
      PROVE  QInv'
  <2>1. known' = known /\ lastSeen' = lastSeen /\ connected' = connected /\ now' = now
        BY <1>1 DEF Begin
  <2>2. /\ call' \in [Tasks -> [op : AllCalls, id : SUBSET Ids, at : Nat,
                                step : 1..2] \cup {Idle}]
        /\ queue' \in [Locks -> Seq(Tasks)]
        /\ WaitersQueue' /\ QueuedWait' /\ QueuedOnce' /\ SecondLock'
        BY <1>1, BeginQueues
  <2>3. TypeOK'
        BY <2>1, <2>2 DEF QInv, TypeOK
  <2> QED BY <2>2, <2>3 DEF QInv
<1>2. ASSUME NEW t \in Tasks, Grant(t)
      PROVE  QInv'
  <2>1. TypeOK'
        BY <1>2, GrantPeers, GrantQueues DEF TypeOK
  <2> QED BY <1>2, <2>1, GrantQueues DEF QInv
<1>3. CASE Tick \/ UNCHANGED vars
  <2>1. /\ call' = call /\ queue' = queue /\ known' = known
        /\ lastSeen' = lastSeen /\ connected' = connected /\ now' \in Nat
        BY <1>3 DEF Tick, vars, QInv, TypeOK
  <2>2. TypeOK'
        BY <2>1 DEF QInv, TypeOK
  <2>3. WaitersQueue' /\ QueuedWait' /\ QueuedOnce' /\ SecondLock'
        BY <2>1 DEF QInv, WaitersQueue, QueuedWait, QueuedOnce, SecondLock
  <2> QED BY <2>2, <2>3 DEF QInv
<1> QED BY <1>1, <1>2, <1>3 DEF Next

\* Every variable keeps its type; who waits for a lock is in its queue once.
THEOREM QueuesMatchCalls == Spec => [](TypeOK /\ QInv)
<1>1. QInv => TypeOK
      BY DEF QInv
<1> QED BY <1>1, QInvInit, QInvNext, PTL DEF Spec

-----------------------------------------------------------------------------
(* Who blocks whom *)

\* Somebody who waits for a lock and is not granted it has somebody in front,
\* or a holder of the lock in the way: so if nobody in the queue is granted the
\* lock, somebody holds it.
LEMMA HeldLock ==
    ASSUME QInv, NEW l \in Locks, NEW t \in Tasks, call[t].step # 0, WaitsFor(t) = l,
           \A u \in Tasks : ~Grantable(u)
    PROVE  \E u \in Tasks : u \in Holders(l)
<1>1. queue[l] \in Seq(Tasks) /\ \E k \in DOMAIN queue[l] : queue[l][k] = t
      BY DEF QInv, TypeOK, WaitersQueue, WaitsFor, Asks
<1>2. 1 \in DOMAIN queue[l] /\ Head(queue[l]) = queue[l][1] /\ queue[l][1] \in Tasks
      BY <1>1
<1>3. call[queue[l][1]].step # 0 /\ WaitsFor(queue[l][1]) = l
      BY <1>2 DEF QInv, QueuedWait, WaitsFor, Asks
<1>4. \E u \in Holders(l) : ~(Reads(queue[l][1]) /\ Reads(u))
      BY <1>2, <1>3 DEF Grantable
<1> QED BY <1>4 DEF Holders

\* Holding the first lock of a call is waiting for its second one.
LEMMA HoldersWait ==
    ASSUME QInv, NEW l \in Locks, NEW t \in Holders(l)
    PROVE  /\ t \in Tasks /\ call[t].step # 0
           /\ l = "connected" => /\ call[t].op = "mark_connected" /\ call[t].step = 2
                                 /\ WaitsFor(t) = "peers"
           /\ l = "peers" => WaitsFor(t) = "connected"
<1>1. t \in Tasks /\ call[t].step = 2 /\ LockOrder(call[t].op)[1] = l
      BY DEF Holders
<1>2. call[t].op \in {"remove_peer", "mark_connected", "cleanup_old_peers", "get_stats"}
      BY <1>1 DEF QInv, SecondLock
<1> QED BY <1>1, <1>2, LockOrderIs DEF WaitsFor

LEMMA QInvBlocked == QInv => BlockedOnlyByMarkConnected
<1> SUFFICES ASSUME QInv, NEW t \in Tasks, call[t].step # 0,
                    \A u \in Tasks : ~Grantable(u)
             PROVE  \E v, u \in Tasks :
                       /\ call[v].op = "mark_connected" /\ call[v].step = 2
                       /\ u \in Holders("peers")
    BY DEF BlockedOnlyByMarkConnected
<1>1. "peers" \in Locks /\ "connected" \in Locks
      BY DEF Locks
<1>2. ASSUME NEW w \in Tasks, call[w].step # 0, WaitsFor(w) = "connected"
      PROVE  \E v, u \in Tasks :
                 /\ call[v].op = "mark_connected" /\ call[v].step = 2
                 /\ u \in Holders("peers")
  <2>1. PICK v \in Tasks : v \in Holders("connected")
        BY <1>1, <1>2, HeldLock
  <2>2. /\ call[v].step # 0 /\ WaitsFor(v) = "peers"
        /\ call[v].op = "mark_connected" /\ call[v].step = 2
        BY <1>1, <2>1, HoldersWait
  <2>3. \E u \in Tasks : u \in Holders("peers")
        BY <1>1, <2>2, HeldLock
  <2> QED BY <2>2, <2>3
<1>3. CASE WaitsFor(t) = "connected"
      BY <1>2, <1>3
<1>4. CASE WaitsFor(t) = "peers"
  <2>1. PICK u \in Tasks : u \in Holders("peers")
        BY <1>1, <1>4, HeldLock
  <2>2. call[u].step # 0 /\ WaitsFor(u) = "connected"
        BY <1>1, <2>1, HoldersWait
  <2> QED BY <1>2, <2>2
<1>5. WaitsFor(t) \in Locks
      BY DEF QInv, WaitersQueue, WaitsFor, Asks
<1> QED BY <1>3, <1>4, <1>5 DEF Locks

\* Whatever calls how many tasks make in whatever order: when nobody who waits
\* for a lock can be granted it, one of them is in the middle of mark_connected
\* and another holds the peers map.
THEOREM OnlyMarkConnectedBlocks == Spec => []BlockedOnlyByMarkConnected
BY QueuesMatchCalls, QInvBlocked, PTL

-----------------------------------------------------------------------------
(* The bound of the peers map *)

\* Evicting the oldest of a finite set leaves as many as the bound allows.
LEMMA EvictedToBound ==
    ASSUME NEW all, IsFiniteSet(all), Cardinality(all) > MaxPeers,
           NEW seen, NEW old \in Oldest(all, seen)
    PROVE  IsFiniteSet(all \ old) /\ Cardinality(all \ old) = MaxPeers
<1>1. old \subseteq all /\ Cardinality(old) = Cardinality(all) - MaxPeers
      BY DEF Oldest
<1>2. all \cap old = old
      BY <1>1
<1>3. Cardinality(all) \in Nat
      BY FS_CardinalityType
<1>4. /\ IsFiniteSet(all \ old)
      /\ Cardinality(all \ old) = Cardinality(all) - Cardinality(old)
      BY <1>2, FS_Difference
<1> QED BY <1>1, <1>3, <1>4, NumbersAssumption

LEMMA SmallInit == Init => Small /\ NeverOverfull
<1> SUFFICES ASSUME Init PROVE Small /\ NeverOverfull
    OBVIOUS
<1>1. known = {} /\ \A t \in Tasks : call[t].id = {}
      BY DEF Init, Idle
<1> QED BY <1>1, FS_EmptySet, NumbersAssumption DEF Small, NeverOverfull

LEMMA SmallNext == QInv /\ Small /\ NeverOverfull /\ [Next]_vars => (Small /\ NeverOverfull)'
<1> SUFFICES ASSUME QInv, Small, NeverOverfull, [Next]_vars
             PROVE  (Small /\ NeverOverfull)'
    OBVIOUS
<1>1. /\ IsFiniteSet(known) /\ Cardinality(known) <= MaxPeers
      /\ Cardinality(known) \in Nat
      BY FS_CardinalityType DEF Small, NeverOverfull
<1>2. ASSUME known' \in SUBSET known
      PROVE  IsFiniteSet(known') /\ Cardinality(known') <= MaxPeers
  <2>1. /\ IsFiniteSet(known') /\ Cardinality(known') <= Cardinality(known)
        /\ Cardinality(known') \in Nat
        BY <1>1, <1>2, FS_Subset, FS_CardinalityType
  <2> QED BY <1>1, <2>1, NumbersAssumption
<1>3. IsFiniteSet(known') /\ Cardinality(known') <= MaxPeers
  <2>1. CASE \E t \in Tasks : AddPeer(t)
    <3>1. PICK t \in Tasks : AddPeer(t)
          BY <2>1
    <3> DEFINE all == known \cup call[t].id
               seen == [i \in Ids |-> IF i \in call[t].id THEN call[t].at
                                                          ELSE lastSeen[i]]
    <3>2. IsFiniteSet(all)
          BY <1>1, FS_Union DEF Small
    <3>3. IF Cardinality(all) > MaxPeers
          THEN \E old \in Oldest(all, seen) : known' = all \ old
          ELSE known' = all
          BY <3>1 DEF AddPeer
    <3>4. Cardinality(all) \in Nat
          BY <3>2, FS_CardinalityType
    <3> HIDE DEF all, seen
    <3>5. CASE Cardinality(all) > MaxPeers
      <4>1. PICK old \in Oldest(all, seen) : known' = all \ old
            BY <3>3, <3>5
      <4>2. IsFiniteSet(all \ old) /\ Cardinality(all \ old) = MaxPeers
            BY <3>2, <3>5, EvictedToBound
      <4> QED BY <4>1, <4>2, NumbersAssumption
    <3> QED BY <3>2, <3>3, <3>4, <3>5, NumbersAssumption
  <2>2. CASE ~\E t \in Tasks : AddPeer(t)
    <3>1. ASSUME NEW t \in Tasks, Grant(t)
          PROVE  known' \in SUBSET known
      <4>1. CASE RemoveKnown(t)
            BY <4>1 DEF RemoveKnown
      <4>2. CASE CleanupOldPeers(t)
            BY <4>2 DEF CleanupOldPeers
      <4>3. CASE AddPeer(t)
            BY <2>2, <4>3
      <4>4. CASE \/ RemoveConnected(t) \/ MarkConnected(t) \/ MarkSeen(t)
                 \/ MarkDisconnected(t) \/ CleanupLocks(t) \/ ReadPeers(t)
                 \/ ReadConnected(t)
        <5>1. known' = known
              BY <4>4 DEF RemoveConnected, MarkConnected, MarkSeen,
                 MarkDisconnected, CleanupLocks, ReadPeers, ReadConnected
        <5> QED BY <5>1
      <4> QED BY <3>1, <4>1, <4>2, <4>3, <4>4 DEF Grant
    <3>2. ASSUME NEW t \in Tasks, NEW op \in Calls, NEW i \in Ids, Begin(t, op, i)
          PROVE  known' \in SUBSET known
      <4>1. known' = known
            BY <3>2 DEF Begin
      <4> QED BY <4>1
    <3>3. ASSUME Tick \/ UNCHANGED vars
          PROVE  known' \in SUBSET known
      <4>1. known' = known
            BY <3>3 DEF Tick, vars
      <4> QED BY <4>1
    <3>4. known' \in SUBSET known
          BY <3>1, <3>2, <3>3 DEF Next
    <3> QED BY <3>4, <1>2
  <2> QED BY <2>1, <2>2
<1>4. \A t \in Tasks : IsFiniteSet(call'[t].id)
  <2>1. call \in [Tasks -> [op : AllCalls, id : SUBSET Ids, at : Nat, step : 1..2]
                            \cup {Idle}]
        BY DEF QInv, TypeOK
  <2>2. ASSUME NEW t \in Tasks, NEW op \in Calls, NEW i \in Ids, Begin(t, op, i)
        PROVE  \A u \in Tasks : call'[u].id = call[u].id \/ call'[u].id \in {{}, {i}}
        BY <2>1, <2>2 DEF Begin
  <2>3. ASSUME NEW t \in Tasks, NEW at \in Nat, call[t].step # 0, TakeFirst(t, at)
        PROVE  \A u \in Tasks : call'[u].id = call[u].id
    <3>1. call[t] \in [op : AllCalls, id : SUBSET Ids, at : Nat, step : 1..2]
          BY <2>1, <2>3 DEF Idle
    <3> DEFINE c == [call[t] EXCEPT !.step = 2, !.at = at]
    <3>2. c.id = call[t].id
          BY <3>1, SecondStep
    <3>3. call' = [call EXCEPT ![t] = c]
          BY <2>3 DEF TakeFirst
    <3> HIDE DEF c
    <3> QED BY <2>1, <3>2, <3>3
  <2>4. ASSUME NEW t \in Tasks, Return(t)
        PROVE  \A u \in Tasks : call'[u].id = call[u].id \/ call'[u].id = {}
        BY <2>1, <2>4 DEF Return, Idle
  <2>5. ASSUME NEW t \in Tasks, Grant(t)
        PROVE  \A u \in Tasks : call'[u].id = call[u].id \/ call'[u].id = {}
    <3>1. now \in Nat /\ call[t].at \in Nat
          BY DEF QInv, TypeOK, Idle
    <3>2. Return(t) \/ \E at \in Nat : call[t].step # 0 /\ TakeFirst(t, at)
          BY <2>5, <3>1 DEF Grant, AddPeer, RemoveKnown, RemoveConnected,
             MarkConnected, MarkSeen, MarkDisconnected, CleanupLocks,
             CleanupOldPeers, ReadPeers, ReadConnected, Granted
    <3> QED BY <3>2, <2>3, <2>4
  <2>6. CASE Tick \/ UNCHANGED vars
        BY <2>6 DEF Tick, vars, Small
  <2>7. ASSUME NEW t \in Tasks, NEW op \in Calls, NEW i \in Ids, Begin(t, op, i)
        PROVE  \A u \in Tasks : IsFiniteSet(call'[u].id)
    <3>1. IsFiniteSet({}) /\ IsFiniteSet({i})
          BY FS_EmptySet, FS_Singleton
    <3>2. \A u \in Tasks : call'[u].id = call[u].id \/ call'[u].id \in {{}, {i}}
          BY <2>2, <2>7
    <3> QED BY <3>1, <3>2 DEF Small
  <2>8. ASSUME NEW t \in Tasks, Grant(t)
        PROVE  \A u \in Tasks : IsFiniteSet(call'[u].id)
        BY <2>5, <2>8, FS_EmptySet DEF Small
  <2> QED BY <2>6, <2>7, <2>8 DEF Next
<1> QED BY <1>3, <1>4 DEF Small, NeverOverfull

\* The map never holds more than max_peers, whatever calls add to it.
THEOREM PeersMapBounded == Spec => []NeverOverfull
BY SmallInit, SmallNext, QueuesMatchCalls, PTL DEF Spec
=============================================================================
