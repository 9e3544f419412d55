-------------------------- MODULE NodeGossipProofs --------------------------
(***************************************************************************)
(* Proofs about NodeGossip, for every set of nodes, messages, every peer   *)
(* topology and every outcome the application objects may produce.         *)
(***************************************************************************)
EXTENDS NodeGossip, TLAPS

\* The types hold initially.
LEMMA TypeInit == Init => TypeOK
  BY BootstrapAssumption DEF Init, TypeOK, Unborn, Created, Idle, Asleep, AppState, RxState,
     GossipState

\* broadcast_bytes sends datagrams of the right type.
LEMMA BroadcastType ==
    ASSUME TypeOK, NEW n \in Nodes, NEW m \in Messages
    PROVE  Broadcast(n, m) \subseteq Datagram
  BY DEF TypeOK, Broadcast, Datagram

\* Control datagrams have the right type, sent or lost at the bound.
LEMMA SendControlType ==
    ASSUME NEW flight \in SUBSET Datagram, NEW n \in Nodes, NEW p \in Nodes,
           NEW type \in {"REQUEST_DIGEST", "DIGEST_RESPONSE"}
    PROVE  SendControl(flight, type, n, p) \subseteq Datagram
  BY DEF SendControl, Datagram

\* A run that is counted as unpaid keeps the counters natural numbers.
LEMMA UnpaidType ==
    ASSUME TypeOK, NEW n \in Nodes, NEW m \in Messages, Unpaid(n, m)
    PROVE  unpaid' \in [Nodes -> [Messages -> Nat]]
  BY DEF TypeOK, Unpaid

\* So does a run of the pipeline.
LEMMA PipelineType ==
    ASSUME TypeOK, NEW n \in Nodes, NEW m \in Messages, NEW verdict \in Verdict,
           Pipeline(n, m, verdict)
    PROVE  /\ applied' \in [Nodes -> [Messages -> Nat]]
           /\ passed' \in [Nodes -> SUBSET Messages]
           /\ unpaid' \in [Nodes -> [Messages -> Nat]]
<1>1. applied' \in [Nodes -> [Messages -> Nat]]
  BY DEF TypeOK, Pipeline
<1>2. passed' \in [Nodes -> SUBSET Messages]
  BY DEF TypeOK, Pipeline
<1>3. unpaid' \in [Nodes -> [Messages -> Nat]]
  BY UnpaidType DEF TypeOK, Pipeline
<1> QED
  BY <1>1, <1>2, <1>3

\* One of the outcomes of storage.put.
PutReturns(n, m) == Put(n, m) \/ \E inserted \in BOOLEAN : PutFails(n, m, inserted)

\* A function to sets keeps its type when one set grows.
LEMMA GrowType ==
    ASSUME NEW S, NEW f \in [Nodes -> SUBSET S], NEW n \in Nodes,
           NEW X \in SUBSET S,
           NEW g, g = f \/ g = [f EXCEPT ![n] = f[n] \cup X]
    PROVE  g \in [Nodes -> SUBSET S]
<1>1. CASE g = f
  BY <1>1
<1>2. CASE g = [f EXCEPT ![n] = f[n] \cup X]
  BY <1>2
<1> QED
  BY <1>1, <1>2

\* A put, and one that fails, keep the types of the storage.
LEMMA PutType ==
    ASSUME TypeOK, NEW n \in Nodes, NEW m \in Messages, PutReturns(n, m)
    PROVE  /\ storage' \in [Nodes -> SUBSET Messages]
           /\ unflushed' \in [Nodes -> SUBSET Messages]
           /\ failures' \in [Nodes -> Nat]
<1>1. CASE Put(n, m)
  BY <1>1 DEF TypeOK, Put
<1>2. ASSUME NEW inserted \in BOOLEAN, PutFails(n, m, inserted)
      PROVE  /\ storage' \in [Nodes -> SUBSET Messages]
             /\ unflushed' \in [Nodes -> SUBSET Messages]
             /\ failures' \in [Nodes -> Nat]
  <2>1. failures' \in [Nodes -> Nat]
    BY <1>2 DEF TypeOK, PutFails, Fails
  <2>2. /\ storage' = storage \/ storage' = [storage EXCEPT ![n] = storage[n] \cup {m}]
        /\ \/ unflushed' = unflushed
           \/ unflushed' = [unflushed EXCEPT ![n] = unflushed[n] \cup ({m} \ storage[n])]
    BY <1>2 DEF PutFails
  <2>3. storage \in [Nodes -> SUBSET Messages] /\ unflushed \in [Nodes -> SUBSET Messages]
    BY DEF TypeOK
  <2>4. storage' \in [Nodes -> SUBSET Messages]
    BY {m} \in SUBSET Messages, <2>2, <2>3, GrowType
  <2>5. unflushed' \in [Nodes -> SUBSET Messages]
    BY ({m} \ storage[n]) \in SUBSET Messages, <2>2, <2>3, GrowType
  <2> QED
    BY <2>1, <2>4, <2>5
<1> QED
  BY <1>1, <1>2 DEF PutReturns

\* Moving a busy task to another program point changes nothing else of it.
LEMMA RxMove ==
    ASSUME NEW r \in RxState, r.pc # "idle",
           NEW pc \in {"dedup", "pipeline", "put", "relay"}
    PROVE  /\ [r EXCEPT !.pc = pc] \in RxState
           /\ [r EXCEPT !.pc = pc].pc = pc
           /\ [r EXCEPT !.pc = pc].msg = r.msg
           /\ [r EXCEPT !.pc = pc].src = r.src
           /\ r.msg \in Messages /\ r.src \in Nodes
<1>1. r \in [pc : {"dedup", "pipeline", "put", "relay"}, src : Nodes,
             msg : Messages]
  BY DEF RxState, Idle
<1> QED
  BY <1>1 DEF RxState

\* The same for the application task.
LEMMA AppMove ==
    ASSUME NEW r \in AppState, r.pc # "idle",
           NEW pc \in {"pipeline", "put", "track"}
    PROVE  /\ [r EXCEPT !.pc = pc] \in AppState
           /\ [r EXCEPT !.pc = pc].pc = pc
           /\ [r EXCEPT !.pc = pc].msg = r.msg
           /\ r.msg \in Messages
<1>1. r \in [pc : {"pipeline", "put", "track"}, msg : Messages]
  BY DEF AppState, Idle
<1> QED
  BY <1>1 DEF AppState

\* Every action keeps the types: datagrams are made of nodes and messages, and
\* every task stays at one of its program points.
LEMMA TypeStep == TypeOK /\ [Next]_vars => TypeOK'
<1> SUFFICES ASSUME TypeOK, [Next]_vars PROVE TypeOK'
  OBVIOUS
<1> USE DEF TypeOK
<1>1. CASE UNCHANGED vars
  BY <1>1 DEF vars, store, objects
<1>2. ASSUME NEW n \in Nodes, NEW m \in Messages, CreateSharedMessage(n, m)
      PROVE  TypeOK'
  BY <1>2 DEF CreateSharedMessage, Created, AppState, store, objects
<1>3. ASSUME NEW n \in Nodes, NEW m \in Messages,
             CreateSharedMessageWithData(n, m)
      PROVE  TypeOK'
  BY <1>3 DEF CreateSharedMessageWithData, Created, AppState, store, objects
<1>4. ASSUME NEW n \in Nodes, AppPipeline(n) PROVE TypeOK'
  <2>1. PICK verdict \in Verdict :
           /\ Pipeline(n, app[n].msg, verdict)
           /\ app' = [app EXCEPT ![n] =
                        IF verdict = "apply" THEN [@ EXCEPT !.pc = "put"]
                                             ELSE Idle]
    BY <1>4 DEF AppPipeline
  <2>2. app[n].msg \in Messages
    BY <1>4 DEF AppPipeline, AppState, Idle
  <2>3. /\ applied' \in [Nodes -> [Messages -> Nat]]
        /\ passed' \in [Nodes -> SUBSET Messages]
        /\ unpaid' \in [Nodes -> [Messages -> Nat]]
    BY <2>1, <2>2, PipelineType
  <2>4. app' \in [Nodes -> AppState]
    <3>1. Idle \in AppState /\ [app[n] EXCEPT !.pc = "put"] \in AppState
      BY <1>4, AppMove DEF AppPipeline, AppState
    <3> QED BY <3>1, <2>1
  <2> QED BY <2>3, <2>4, <1>4 DEF AppPipeline, store
<1>5. ASSUME NEW n \in Nodes, AppPut(n) PROVE TypeOK'
  <2>1. app[n].msg \in Messages
    BY <1>5 DEF AppPut, AppState, Idle
  <2>2. app' \in [Nodes -> AppState]
    <3>1. Idle \in AppState /\ [app[n] EXCEPT !.pc = "track"] \in AppState
      BY <1>5, AppMove DEF AppPut, AppState
    <3> QED BY <3>1, <1>5 DEF AppPut
  <2>3. /\ storage' \in [Nodes -> SUBSET Messages]
        /\ unflushed' \in [Nodes -> SUBSET Messages]
        /\ failures' \in [Nodes -> Nat]
    BY <2>1, <1>5, PutType DEF AppPut, PutReturns
  <2>4. casts' \in [Nodes -> SUBSET Messages]
    <3>1. \/ casts' = casts
          \/ casts' = [casts EXCEPT ![n] = casts[n] \cup {app[n].msg}]
      BY <1>5 DEF AppPut
    <3>2. casts \in [Nodes -> SUBSET Messages]
      OBVIOUS
    <3>3. {app[n].msg} \in SUBSET Messages
      BY <2>1
    <3> HIDE DEF TypeOK
    <3> QED BY <3>1, <3>2, <3>3, GrowType
  <2> QED BY <2>2, <2>3, <2>4, <1>5 DEF AppPut, objects
<1>6. ASSUME NEW n \in Nodes, AppTrack(n) PROVE TypeOK'
  <2>1. app[n].msg \in Messages
    BY <1>6 DEF AppTrack, AppState, Idle
  <2> QED BY <2>1, <1>6 DEF AppTrack, AppState, store, objects
<1>7. ASSUME NEW n \in Nodes, NEW p \in Nodes, BanPeer(n, p) \/ UnbanPeer(n, p)
      PROVE  TypeOK'
  <2>1. banned' \in [Nodes -> SUBSET Nodes]
    <3>1. CASE BanPeer(n, p)
      BY <3>1 DEF BanPeer
    <3>2. CASE UnbanPeer(n, p)
      BY <3>2 DEF UnbanPeer
    <3> QED BY <3>1, <3>2, <1>7
  <2>2. UNCHANGED <<storage, unflushed, failures, known, applied, passed, app,
                    rx, gossip, casts, unpaid, peers, created, net, restarts>>
    BY <1>7 DEF BanPeer, UnbanPeer, local, store, objects
  <2> QED BY <2>1, <2>2
<1>8. ASSUME NEW n \in Nodes, NEW d \in net, RxBanned(n, d) PROVE TypeOK'
  BY <1>8 DEF RxBanned, local, store, objects
<1>9. ASSUME NEW n \in Nodes, NEW d \in net, RxControl(n, d) PROVE TypeOK'
  <2>1. d.src \in Nodes
    BY DEF Datagram
  <2>2. net' \in SUBSET Datagram
    BY <2>1, <1>9, SendControlType DEF RxControl
  <2>3. peers' \in [Nodes -> SUBSET Nodes]
    BY <2>1, <1>9 DEF RxControl, RecordPeer
  <2> QED BY <2>2, <2>3, <1>9 DEF RxControl, local, store, objects
<1>10. ASSUME NEW n \in Nodes, NEW d \in net, RxTake(n, d) PROVE TypeOK'
  <2>1. d.src \in Nodes /\ d.msg \in Messages
    BY <1>10 DEF Datagram, RxTake
  <2>2. rx' \in [Nodes -> RxState]
    BY <2>1, <1>10 DEF RxTake, RxState
  <2> QED BY <2>2, <1>10 DEF RxTake, store, objects
<1>11. ASSUME NEW n \in Nodes, RxDedup(n) PROVE TypeOK'
  <2>1. rx[n].src \in Nodes /\ rx[n].msg \in Messages
    BY <1>11 DEF RxDedup, RxState, Idle
  <2>2. rx' \in [Nodes -> RxState]
    <3>1. Idle \in RxState /\ [rx[n] EXCEPT !.pc = "pipeline"] \in RxState
      BY <1>11, RxMove DEF RxDedup, RxState
    <3> QED BY <3>1, <1>11 DEF RxDedup
  <2>3. peers' \in [Nodes -> SUBSET Nodes]
    <3>1. \/ peers' = peers
          \/ peers' = [peers EXCEPT ![n] = peers[n] \cup {rx[n].src}]
      BY <1>11 DEF RxDedup, RecordPeer
    <3>2. peers \in [Nodes -> SUBSET Nodes]
      OBVIOUS
    <3>3. {rx[n].src} \in SUBSET Nodes
      BY <2>1
    <3> HIDE DEF TypeOK
    <3> QED BY <3>1, <3>2, <3>3, GrowType
  <2> QED BY <2>2, <2>3, <1>11 DEF RxDedup, store, objects
<1>12. ASSUME NEW n \in Nodes, RxPipeline(n) PROVE TypeOK'
  <2>1. PICK verdict \in Verdict :
           /\ Pipeline(n, rx[n].msg, verdict)
           /\ rx' = [rx EXCEPT ![n] =
                       IF verdict = "apply" THEN [@ EXCEPT !.pc = "put"]
                                            ELSE Idle]
    BY <1>12 DEF RxPipeline
  <2>2. rx[n].msg \in Messages
    BY <1>12 DEF RxPipeline, RxState, Idle
  <2>3. /\ applied' \in [Nodes -> [Messages -> Nat]]
        /\ passed' \in [Nodes -> SUBSET Messages]
        /\ unpaid' \in [Nodes -> [Messages -> Nat]]
    BY <2>1, <2>2, PipelineType
  <2>4. rx' \in [Nodes -> RxState]
    <3>1. Idle \in RxState /\ [rx[n] EXCEPT !.pc = "put"] \in RxState
      BY <1>12, RxMove DEF RxPipeline, RxState
    <3> QED BY <3>1, <2>1
  <2> QED BY <2>3, <2>4, <1>12 DEF RxPipeline, store
<1>13. ASSUME NEW n \in Nodes, RxPut(n) PROVE TypeOK'
  <2>1. rx[n].msg \in Messages
    BY <1>13 DEF RxPut, RxState, Idle
  <2>2. rx' \in [Nodes -> RxState]
    <3>1. [rx[n] EXCEPT !.pc = "relay"] \in RxState
      BY <1>13, RxMove DEF RxPut
    <3> QED BY <3>1, <1>13 DEF RxPut
  <2>3. /\ storage' \in [Nodes -> SUBSET Messages]
        /\ unflushed' \in [Nodes -> SUBSET Messages]
        /\ failures' \in [Nodes -> Nat]
    BY <2>1, <1>13, PutType DEF RxPut, PutReturns
  <2> QED BY <2>2, <2>3, <1>13 DEF RxPut, objects
<1>14. ASSUME NEW n \in Nodes, RxRelay(n) PROVE TypeOK'
  <2>1. rx[n].msg \in Messages
    BY <1>14 DEF RxRelay, RxState, Idle
  <2>2. Broadcast(n, rx[n].msg) \subseteq Datagram
    BY <2>1, BroadcastType
  <2> QED BY <2>1, <2>2, <1>14 DEF RxRelay, RxState, store, objects
<1>15. ASSUME NEW n \in Nodes, GossipBegin(n) PROVE TypeOK'
  BY <1>15, LocalAssumption DEF GossipBegin, GossipState, store, objects
<1>16. ASSUME NEW n \in Nodes, NEW m \in Messages, GossipSend(n, m)
       PROVE  TypeOK'
  <2>1. gossip' \in [Nodes -> GossipState]
    BY <1>16 DEF GossipSend, GossipState
  <2> QED BY <2>1, <1>16, BroadcastType DEF GossipSend, store, objects
<1>17. ASSUME NEW n \in Nodes, GossipEnd(n) PROVE TypeOK'
  <2>1. net' \in SUBSET Datagram
    <3>1. CASE UNCHANGED net
      BY <3>1
    <3>2. CASE \E p \in peers[n] : net' = SendControl(net, "REQUEST_DIGEST", n, p)
      BY <3>2, SendControlType
    <3> QED BY <3>1, <3>2, <1>17 DEF GossipEnd
  <2> QED BY <2>1, <1>17 DEF GossipEnd, GossipState, Asleep, store, objects
<1>18. ASSUME NEW n \in Nodes, Restart(n) PROVE TypeOK'
  <2>1. Idle \in AppState /\ Idle \in RxState /\ Asleep \in GossipState
    BY DEF AppState, RxState, GossipState, Asleep
  <2>2. peers' \in [Nodes -> SUBSET Nodes]
    BY <1>18, BootstrapAssumption DEF Restart
  <2>3. /\ applied' \in [Nodes -> [Messages -> Nat]]
        /\ unpaid' \in [Nodes -> [Messages -> Nat]]
        /\ storage' \in [Nodes -> SUBSET Messages]
        /\ unflushed' \in [Nodes -> SUBSET Messages]
    BY <1>18 DEF Restart
  <2> QED BY <2>1, <2>2, <2>3, <1>18 DEF Restart
<1>19. ASSUME NEW n \in Nodes, NEW m \in Messages, SpawnedBroadcast(n, m)
       PROVE  TypeOK'
  BY <1>19, BroadcastType DEF SpawnedBroadcast, store, objects
<1>20. ASSUME NEW d \in net, Lose(d) PROVE TypeOK'
  BY <1>20 DEF Lose, local, store, objects
<1>21. ASSUME NEW n \in Nodes, AppPutFails(n) PROVE TypeOK'
  <2>1. app[n].msg \in Messages
    BY <1>21 DEF AppPutFails, AppState, Idle
  <2>2. app' \in [Nodes -> AppState]
    BY <1>21 DEF AppPutFails, AppState
  <2>3. /\ storage' \in [Nodes -> SUBSET Messages]
        /\ unflushed' \in [Nodes -> SUBSET Messages]
        /\ failures' \in [Nodes -> Nat]
    BY <2>1, <1>21, PutType DEF AppPutFails, PutReturns
  <2>4. unpaid' \in [Nodes -> [Messages -> Nat]]
    <3>1. UNCHANGED unpaid \/ Unpaid(n, app[n].msg)
      BY <1>21 DEF AppPutFails
    <3> QED BY <2>1, <3>1, UnpaidType
  <2> QED BY <2>2, <2>3, <2>4, <1>21 DEF AppPutFails, objects
<1>22. ASSUME NEW n \in Nodes, RxPutFails(n) PROVE TypeOK'
  <2>1. rx[n].msg \in Messages
    BY <1>22 DEF RxPutFails, RxState, Idle
  <2>2. rx' \in [Nodes -> RxState]
    BY <1>22 DEF RxPutFails, RxState
  <2>3. /\ storage' \in [Nodes -> SUBSET Messages]
        /\ unflushed' \in [Nodes -> SUBSET Messages]
        /\ failures' \in [Nodes -> Nat]
    BY <2>1, <1>22, PutType DEF RxPutFails, PutReturns
  <2>4. unpaid' \in [Nodes -> [Messages -> Nat]]
    <3>1. UNCHANGED unpaid \/ Unpaid(n, rx[n].msg)
      BY <1>22 DEF RxPutFails
    <3> QED BY <2>1, <3>1, UnpaidType
  <2> QED BY <2>2, <2>3, <2>4, <1>22 DEF RxPutFails, objects
<1>23. ASSUME NEW n \in Nodes, RxExistsFails(n) PROVE TypeOK'
  BY <1>23 DEF RxExistsFails, Fails, RxState, objects
<1> QED
  BY <1>1, <1>2, <1>3, <1>4, <1>5, <1>6, <1>7, <1>8, <1>9, <1>10, <1>11,
     <1>12, <1>13, <1>14, <1>15, <1>16, <1>17, <1>18, <1>19, <1>20, <1>21,
     <1>22, <1>23
     DEF Next, AppStep, RxStep, GossipStep

\* Type correctness of the gossip layer.
THEOREM TypeCorrect == Spec => []TypeOK
  BY TypeInit, TypeStep, PTL DEF Spec

-----------------------------------------------------------------------------
(***************************************************************************)
(* The safety properties.  Core is the part of IInv that speaks of what    *)
(* tasks and storage agree on; WireIsDurable and PendingIsStored are kept  *)
(* by every step because what is durable only grows.                       *)
(***************************************************************************)

Core == StoredAtCreator /\ RxInv /\ AppInv /\ AppliedAccounted
          /\ RepeatsFollowErrors /\ StoredWentThroughPipeline

coreVars == <<storage, unflushed, created, applied, passed, unpaid, rx, app>>

\* A step that leaves the core variables alone keeps Core.
LEMMA CoreFrame == Core /\ UNCHANGED coreVars => Core'
  BY DEF Core, coreVars, StoredAtCreator, RxInv, RxHolds, AppInv, AppHolds,
         AppliedAccounted, RepeatsFollowErrors, StoredWentThroughPipeline,
         Durable, Idle

\* Broadcasting a durable message keeps the wire durable.
LEMMA BroadcastDurable ==
    ASSUME StoredAtCreator, NEW n \in Nodes, NEW m \in Durable(n),
           NEW d \in Broadcast(n, m)
    PROVE  /\ d.type = "GOSSIP" /\ d.msg = m /\ d.src = n
           /\ d.msg \in Durable(d.src)
           /\ created[d.msg] # Unborn
           /\ d.msg \in Durable(created[d.msg].node)
<1>1. d.type = "GOSSIP" /\ d.msg = m /\ d.src = n
  BY DEF Broadcast
<1>2. m \in storage[n]
  BY DEF Durable
<1>3. created[m] # Unborn /\ (n = created[m].node \/ m \in Durable(created[m].node))
  BY <1>2 DEF StoredAtCreator
<1> QED
  BY <1>1, <1>3

\* A control datagram adds nothing that WireIsDurable speaks of.
LEMMA SendControlGossip ==
    ASSUME NEW flight, NEW n, NEW p,
           NEW type \in {"REQUEST_DIGEST", "DIGEST_RESPONSE"},
           NEW d \in SendControl(flight, type, n, p), d.type = "GOSSIP"
    PROVE  d \in flight
  BY DEF SendControl

\* Initially nothing is stored, sent, created or running.
LEMMA SafetyInit == Init => IInv
<1> SUFFICES ASSUME Init PROVE IInv
  OBVIOUS
<1>1. TypeOK
  BY TypeInit
<1>2. Core
  BY DEF Init, Core, StoredAtCreator, RxInv, RxHolds, AppInv, AppHolds,
         AppliedAccounted, RepeatsFollowErrors, StoredWentThroughPipeline, Idle
<1>3. WireIsDurable /\ PendingIsStored
  BY DEF Init, WireIsDurable, PendingIsStored, Asleep
<1> QED
  BY <1>1, <1>2, <1>3 DEF IInv, Core

-----------------------------------------------------------------------------
(* What a step may do to the storage of the nodes. *)

\* Node n may have stored m, nobody stored anything else, and what was durable
\* still is.
StoresAtMost(n, m) ==
    /\ \A k \in Nodes : /\ storage[k] \subseteq storage'[k]
                        /\ Durable(k) \subseteq Durable(k)'
    /\ \A k \in Nodes : k # n => storage'[k] = storage[k]
    /\ storage'[n] \subseteq storage[n] \cup {m}

\* Every outcome of storage.put is such a step; a put that succeeds makes the
\* message durable.
LEMMA PutEffect ==
    ASSUME TypeOK, NEW n \in Nodes, NEW m \in Messages, PutReturns(n, m)
    PROVE  /\ StoresAtMost(n, m)
           /\ Put(n, m) => m \in Durable(n)'
<1>1. CASE Put(n, m)
  BY <1>1 DEF TypeOK, Put, StoresAtMost, Durable
<1>2. ASSUME NEW inserted \in BOOLEAN, PutFails(n, m, inserted)
      PROVE  StoresAtMost(n, m)
  <2>1. CASE UNCHANGED <<storage, unflushed>>
    BY <2>1 DEF StoresAtMost, Durable
  <2>2. CASE /\ storage' = [storage EXCEPT ![n] = @ \cup {m}]
             /\ unflushed' = [unflushed EXCEPT ![n] = @ \cup ({m} \ storage[n])]
    <3>1. storage'[n] = storage[n] \cup {m} /\ unflushed'[n] = unflushed[n] \cup ({m} \ storage[n])
      BY <2>2 DEF TypeOK
    <3>2. \A k \in Nodes \ {n} :
             storage'[k] = storage[k] /\ unflushed'[k] = unflushed[k]
      BY <2>2 DEF TypeOK
    <3>3. ASSUME NEW k \in Nodes
          PROVE  storage[k] \subseteq storage'[k] /\ Durable(k) \subseteq Durable(k)'
      <4>1. CASE k = n
        BY <3>1, <4>1 DEF Durable
      <4>2. CASE k # n
        BY <3>2, <4>2 DEF Durable
      <4> QED
        BY <4>1, <4>2
    <3> QED
      BY <3>1, <3>2, <3>3 DEF StoresAtMost
  <2> QED
    BY <1>2, <2>1, <2>2 DEF PutFails
<1>3. ASSUME NEW inserted \in BOOLEAN, PutFails(n, m, inserted), Put(n, m)
      PROVE  m \in Durable(n)'
  BY <1>3 DEF Fails, PutFails, Put, TypeOK, Durable
<1> QED
  BY <1>1, <1>2 DEF PutReturns, Put, Durable, TypeOK

\* A message that is stored by its creator, or is durable there, keeps
\* StoredAtCreator; what tasks hold of other messages is untouched.
LEMMA StoresKeeps ==
    ASSUME TypeOK, Core, NEW n \in Nodes, NEW m \in Messages, StoresAtMost(n, m),
           UNCHANGED created, created[m] # Unborn,
           n = created[m].node \/ m \in Durable(created[m].node)
    PROVE  StoredAtCreator'
<1> SUFFICES ASSUME NEW k \in Nodes, NEW x \in storage'[k]
             PROVE  /\ created[x] # Unborn
                    /\ k = created[x].node \/ x \in Durable(created[x].node)'
  BY DEF StoredAtCreator
<1>1. \A y \in Messages : created[y] # Unborn => created[y].node \in Nodes
  BY DEF TypeOK, Created
<1>2. CASE x \in storage[k]
  <2>1. x \in Messages
    BY <1>2 DEF TypeOK
  <2>2. /\ created[x] # Unborn
        /\ k = created[x].node \/ x \in Durable(created[x].node)
    BY <1>2 DEF Core, StoredAtCreator
  <2> QED
    BY <2>1, <2>2, <1>1 DEF StoresAtMost
<1>3. CASE x \notin storage[k]
  <2>1. k = n /\ x = m
    BY <1>3 DEF StoresAtMost
  <2> QED
    BY <2>1, <1>1 DEF StoresAtMost
<1> QED
  BY <1>2, <1>3

\* A receive loop that a step leaves alone holds what it held, if no storage of
\* its node takes its message.
LEMMA RxKeeps ==
    ASSUME TypeOK, Core, NEW n \in Nodes, NEW m \in Messages, StoresAtMost(n, m),
           NEW k \in Nodes, rx'[k] = rx[k], rx[k].pc # "idle",
           k # n \/ rx[k].msg # m \/ UNCHANGED storage,
           created'[rx[k].msg] = created[rx[k].msg],
           passed[k] \subseteq passed'[k]
    PROVE  RxHolds(k, rx[k].msg)'
<1>1. RxHolds(k, rx[k].msg) /\ rx[k].msg \in Messages
  BY RxMove DEF Core, RxInv, TypeOK
<1>2. created[rx[k].msg].node \in Nodes
  BY <1>1 DEF RxHolds, TypeOK, Created
<1>3. rx[k].msg \notin storage[k] => rx[k].msg \notin storage'[k]
  BY DEF StoresAtMost
<1>4. \A x \in Nodes : Durable(x) \subseteq Durable(x)'
  BY DEF StoresAtMost
<1> DEFINE r == rx[k]
           c == created[rx[k].msg]
<1>5. /\ c # Unborn /\ r.msg \in Durable(c.node)'
      /\ r.pc \in {"pipeline", "put"} => r.msg \notin storage'[k]
      /\ r.pc = "put" => r.msg \in passed'[k]
      /\ r.pc = "relay" => r.msg \in Durable(k)'
  BY <1>1, <1>2, <1>3, <1>4 DEF RxHolds
<1> QED
  BY <1>5 DEF RxHolds

\* An application task that a step leaves alone holds what it held, if no
\* storage takes its message.
LEMMA AppKeeps ==
    ASSUME TypeOK, Core, NEW n \in Nodes, NEW m \in Messages, StoresAtMost(n, m),
           NEW k \in Nodes, app'[k] = app[k], app[k].pc # "idle",
           app[k].msg # m \/ UNCHANGED storage,
           created'[app[k].msg] = created[app[k].msg],
           passed[k] \subseteq passed'[k]
    PROVE  AppHolds(k, app[k].msg)'
<1>1. AppHolds(k, app[k].msg) /\ app[k].msg \in Messages
  BY AppMove DEF Core, AppInv, TypeOK
<1>2. \A x \in Nodes : app[k].msg \notin storage[x] => app[k].msg \notin storage'[x]
  BY DEF StoresAtMost
<1>3. Durable(k) \subseteq Durable(k)'
  BY DEF StoresAtMost
<1> DEFINE r == app[k]
           c == created[app[k].msg]
<1>4. /\ c # Unborn /\ c.node = k
      /\ r.pc = "pipeline" => c.api = "data"
      /\ r.pc \in {"pipeline", "put"} => \A x \in Nodes : r.msg \notin storage'[x]
      /\ r.pc = "put" /\ c.api = "data" => r.msg \in passed'[k]
      /\ c.api = "data" => r.pc # "track"
      /\ r.pc = "track" => r.msg \in Durable(k)'
  BY <1>1, <1>2, <1>3 DEF AppHolds
<1> QED
  BY <1>4 DEF AppHolds

\* A step that leaves the storage alone stores nothing.
LEMMA StoresNothing ==
    ASSUME UNCHANGED <<storage, unflushed>>, NEW n \in Nodes, NEW m \in Messages
    PROVE  StoresAtMost(n, m)
  BY DEF StoresAtMost, Durable

-----------------------------------------------------------------------------
(* The create calls *)

\* create_shared_message and its sibling take a fresh hash, which no storage,
\* no task and no datagram can hold.
LEMMA CreateStep ==
    ASSUME TypeOK, Core, NEW n \in Nodes, NEW m \in Messages,
           NEW api \in {"string", "data"}, NEW pc \in {"pipeline", "put"},
           pc = "put" <=> api = "string",
           app[n] = Idle, created[m] = Unborn,
           created' = [created EXCEPT ![m] = [node |-> n, api |-> api]],
           app' = [app EXCEPT ![n] = [pc |-> pc, msg |-> m]],
           UNCHANGED <<storage, unflushed, applied, passed, unpaid, rx>>
    PROVE  Core'
<1> USE DEF Core
<1>1. \A k \in Nodes : m \notin storage[k]
  BY DEF StoredAtCreator
<1>2. \A x \in Messages \ {m} : created'[x] = created[x]
  BY DEF TypeOK
<1>3. created'[m] = [node |-> n, api |-> api] /\ created'[m] # Unborn
  BY NoNodeAssumption DEF TypeOK, Unborn
<1>4. \A k \in Nodes : Durable(k)' = Durable(k)
  BY DEF Durable
<1>5. \A x \in Messages : created[x] # Unborn => created[x].node \in Nodes
  BY DEF TypeOK, Created
<1>6. StoresAtMost(n, m)
  BY StoresNothing
<1>7. StoredAtCreator'
  <2> SUFFICES ASSUME NEW k \in Nodes, NEW x \in storage'[k]
               PROVE  /\ created'[x] # Unborn
                      /\ k = created'[x].node \/ x \in Durable(created[x].node)'
    BY DEF StoredAtCreator
  <2>1. x \in storage[k] /\ x \in Messages \ {m}
    BY <1>1 DEF TypeOK
  <2>2. /\ created[x] # Unborn
        /\ k = created[x].node \/ x \in Durable(created[x].node)
    BY <2>1 DEF StoredAtCreator
  <2>3. created'[x] = created[x] /\ created[x].node \in Nodes
    BY <2>1, <2>2, <1>2, <1>5
  <2>4. storage'[created'[x].node] \ unflushed'[created'[x].node]
           = Durable(created[x].node)
    BY <2>3 DEF Durable
  <2> QED
    BY <2>2, <2>3, <2>4 DEF Durable
<1>8. RxInv'
  <2> SUFFICES ASSUME NEW k \in Nodes, rx[k].pc # "idle"
               PROVE  RxHolds(k, rx[k].msg)'
    BY DEF RxInv
  <2>1. RxHolds(k, rx[k].msg) /\ rx[k].msg \in Messages
    BY RxMove DEF RxInv, TypeOK
  <2>2. rx[k].msg # m
    BY <2>1 DEF RxHolds
  <2>3. created'[rx[k].msg] = created[rx[k].msg]
    BY <2>1, <2>2, <1>2
  <2> QED
    BY <1>6, <2>3, RxKeeps
<1>9. AppInv'
  <2> SUFFICES ASSUME NEW k \in Nodes, app'[k].pc # "idle"
               PROVE  AppHolds(k, app[k].msg)'
    BY DEF AppInv
  <2>1. CASE k = n
    <3>1. app'[k].pc = pc /\ app'[k].msg = m
      BY <2>1 DEF TypeOK
    <3>2. created'[m].node = n /\ created'[m].api = api /\ created'[m] # Unborn
      BY <1>3
    <3> QED
      BY <2>1, <3>1, <3>2, <1>1 DEF AppHolds
  <2>2. CASE k # n
    <3>3. app'[k] = app[k]
      BY <2>2 DEF TypeOK
    <3>4. app[k].pc # "idle" /\ AppHolds(k, app[k].msg)
      BY <3>3 DEF AppInv
    <3>5. app[k].msg \in Messages
      BY <3>4, AppMove DEF TypeOK
    <3>1. app'[k] = app[k] /\ AppHolds(k, app[k].msg) /\ app[k].msg \in Messages
      BY <3>3, <3>4, <3>5
    <3>2. app[k].msg # m
      BY <3>1 DEF AppHolds
    <3> QED
      BY <1>2, <1>6, <3>1, <3>2, AppKeeps
  <2> QED
    BY <2>1, <2>2
<1>10. AppliedAccounted'
  <2> SUFFICES ASSUME NEW k \in Nodes, NEW x \in Messages,
                      applied[k][x] > unpaid[k][x]
               PROVE  \/ x \in storage[k]
                      \/ rx[k].pc = "put" /\ rx[k].msg = x
                      \/ /\ app'[k].pc = "put" /\ app'[k].msg = x
                         /\ created'[x].api = "data"
    BY DEF AppliedAccounted
  <2>1. \/ x \in storage[k]
        \/ rx[k].pc = "put" /\ rx[k].msg = x
        \/ /\ app[k].pc = "put" /\ app[k].msg = x
           /\ created[x].api = "data"
    BY DEF AppliedAccounted
  <2>2. CASE app[k].pc = "put" /\ app[k].msg = x /\ created[x].api = "data"
    <3>1. k # n /\ AppHolds(k, x)
      BY <2>2 DEF Idle, AppInv
    <3>3. app'[k] = app[k]
      BY <3>1 DEF TypeOK
    <3>2. x # m
      BY <3>1 DEF AppHolds
    <3> QED
      BY <2>2, <3>1, <3>2, <3>3, <1>2
  <2> QED
    BY <2>1, <2>2
<1>11. RepeatsFollowErrors'
  BY DEF RepeatsFollowErrors
<1>12. StoredWentThroughPipeline'
  <2> SUFFICES ASSUME NEW k \in Nodes, NEW x \in storage[k]
               PROVE  x \in passed[k] \/ created'[x] = [node |-> k, api |-> "string"]
    BY DEF StoredWentThroughPipeline
  <2>1. x \in Messages \ {m}
    BY <1>1 DEF TypeOK
  <2> QED
    BY <2>1, <1>2 DEF StoredWentThroughPipeline
<1> QED
  BY <1>7, <1>8, <1>9, <1>10, <1>11, <1>12

\* What one pipeline run does to the counters of n and m, and to no others.
LEMMA PipelineEffect ==
    ASSUME TypeOK, NEW n \in Nodes, NEW m \in Messages, NEW verdict \in Verdict,
           Pipeline(n, m, verdict)
    PROVE  /\ \A k \in Nodes, x \in Messages : k # n \/ x # m =>
                 applied'[k][x] = applied[k][x] /\ unpaid'[k][x] = unpaid[k][x]
           /\ \A k \in Nodes : passed[k] \subseteq passed'[k]
           /\ verdict = "apply" => /\ applied'[n][m] = applied[n][m] + 1
                                   /\ unpaid'[n][m] = unpaid[n][m]
                                   /\ m \in passed'[n]
           /\ verdict = "reject" => /\ applied'[n][m] = applied[n][m]
                                    /\ unpaid'[n][m] = unpaid[n][m]
           /\ verdict = "partial" => /\ applied'[n][m] = applied[n][m] + 1
                                     /\ unpaid'[n][m] = unpaid[n][m] + 1
<1>1. CASE verdict = "apply"
  BY <1>1 DEF TypeOK, Pipeline
<1>2. CASE verdict = "reject"
  BY <1>2 DEF TypeOK, Pipeline
<1>3. CASE verdict = "partial"
  BY <1>3 DEF TypeOK, Pipeline, Unpaid
<1> QED
  BY <1>1, <1>2, <1>3 DEF Verdict

\* A pipeline run of n on a message that is not stored there, and that no put
\* of n is waiting for, leaves the counters accounted for if a run that
\* succeeds is followed by a put.
LEMMA PipelineCounts ==
    ASSUME TypeOK, Core, NEW n \in Nodes, NEW m \in Messages,
           NEW verdict \in Verdict, Pipeline(n, m, verdict),
           UNCHANGED <<storage, created>>,
           m \notin storage[n],
           rx[n].pc = "put" => rx[n].msg # m,
           app[n].pc = "put" => app[n].msg # m,
           \A k \in Nodes : k # n \/ rx[k].pc = "put" => rx'[k] = rx[k],
           \A k \in Nodes : k # n \/ app[k].pc = "put" => app'[k] = app[k],
           verdict = "apply" =>
              \/ rx'[n].pc = "put" /\ rx'[n].msg = m
              \/ app'[n].pc = "put" /\ app'[n].msg = m /\ created[m].api = "data"
    PROVE  AppliedAccounted' /\ RepeatsFollowErrors'
<1> USE DEF Core
<1>1. \A k \in Nodes, x \in Messages : applied[k][x] \in Nat /\ unpaid[k][x] \in Nat
  BY DEF TypeOK
<1>2. applied[n][m] <= unpaid[n][m]
  <2>1. ~(applied[n][m] > unpaid[n][m])
    BY DEF AppliedAccounted
  <2> QED
    BY <2>1, <1>1
<1>3. \A k \in Nodes, x \in Messages : k # n \/ x # m =>
         applied'[k][x] = applied[k][x] /\ unpaid'[k][x] = unpaid[k][x]
  BY PipelineEffect
<1>4. /\ applied'[n][m] <= unpaid'[n][m] + 1
      /\ verdict = "apply" \/ ~(applied'[n][m] > unpaid'[n][m])
  <2> DEFINE a == applied[n][m]
             u == unpaid[n][m]
             b == applied'[n][m]
             v == unpaid'[n][m]
  <2>1. \/ verdict = "apply" /\ b = a + 1 /\ v = u
        \/ b = a /\ v = u
        \/ b = a + 1 /\ v = u + 1
    BY PipelineEffect DEF Verdict
  <2>2. a \in Nat /\ u \in Nat /\ a <= u
    BY <1>1, <1>2
  <2> HIDE DEF a, u, b, v
  <2>3. b <= v + 1 /\ (verdict = "apply" \/ ~(b > v))
    BY <2>1, <2>2
  <2> QED
    BY <2>3 DEF b, v
<1>5. RepeatsFollowErrors'
  <2> SUFFICES ASSUME NEW k \in Nodes, NEW x \in Messages
               PROVE  applied'[k][x] <= unpaid'[k][x] + 1
    BY DEF RepeatsFollowErrors
  <2>1. applied[k][x] <= unpaid[k][x] + 1
    BY DEF RepeatsFollowErrors
  <2> QED
    BY <2>1, <1>3, <1>4
<1>6. AppliedAccounted'
  <2> SUFFICES ASSUME NEW k \in Nodes, NEW x \in Messages,
                      applied'[k][x] > unpaid'[k][x]
               PROVE  \/ x \in storage[k]
                      \/ rx'[k].pc = "put" /\ rx'[k].msg = x
                      \/ /\ app'[k].pc = "put" /\ app'[k].msg = x
                         /\ created[x].api = "data"
    BY DEF AppliedAccounted
  <2>1. CASE k = n /\ x = m
    BY <2>1, <1>4
  <2>2. CASE k # n \/ x # m
    <3>1. \/ x \in storage[k]
          \/ rx[k].pc = "put" /\ rx[k].msg = x
          \/ app[k].pc = "put" /\ app[k].msg = x /\ created[x].api = "data"
      BY <2>2, <1>3 DEF AppliedAccounted
    <3> QED
      BY <3>1
  <2> QED
    BY <2>1, <2>2
<1> QED
  BY <1>5, <1>6

\* A step that stores nothing keeps what is stored accounted for.
LEMMA PassedKeeps ==
    ASSUME StoredWentThroughPipeline, UNCHANGED <<storage, created>>,
           \A k \in Nodes : passed[k] \subseteq passed'[k]
    PROVE  StoredWentThroughPipeline'
  BY DEF StoredWentThroughPipeline

\* The pipeline of a create call with data: its message is in no storage and
\* no receive loop, so that it was never taken before.
LEMMA AppPipelineStep ==
    ASSUME TypeOK, Core, NEW n \in Nodes, AppPipeline(n)
    PROVE  Core'
<1> USE DEF Core
<1> DEFINE m == app[n].msg
<1>1. PICK verdict \in Verdict :
         /\ Pipeline(n, m, verdict)
         /\ app' = [app EXCEPT ![n] =
                      IF verdict = "apply" THEN [@ EXCEPT !.pc = "put"]
                                           ELSE Idle]
  BY DEF AppPipeline
<1>2. m \in Messages /\ app[n].pc = "pipeline" /\ AppHolds(n, m)
  BY AppMove DEF AppPipeline, AppInv, TypeOK
<1>3. UNCHANGED <<storage, unflushed, created, rx>>
  BY DEF AppPipeline, store
<1>4. \/ verdict = "apply" /\ app'[n].pc = "put" /\ app'[n].msg = m
      \/ verdict # "apply" /\ app'[n] = Idle
  BY <1>1, <1>2, AppMove DEF TypeOK
<1>5. \A k \in Nodes \ {n} : app'[k] = app[k]
  BY <1>1 DEF TypeOK
<1>6. \A k \in Nodes : passed[k] \subseteq passed'[k]
  BY <1>1, <1>2, PipelineEffect
<1>7. verdict = "apply" => m \in passed'[n]
  BY <1>1, <1>2, PipelineEffect
<1>8. StoresAtMost(n, m)
  BY <1>2, <1>3, StoresNothing
<1>9. \A k \in Nodes : m \notin storage[k]
  BY <1>2 DEF AppHolds
<1>10. rx[n].pc = "put" => rx[n].msg # m
  <2>1. rx[n].pc = "put" => RxHolds(n, rx[n].msg)
    BY DEF RxInv
  <2>2. created[m].node = n
    BY <1>2 DEF AppHolds
  <2> QED
    BY <1>9, <2>1, <2>2 DEF RxHolds, Durable
<1>11. created[m] # Unborn /\ created[m].node = n /\ created[m].api = "data"
  BY <1>2 DEF AppHolds
<1>12. StoredAtCreator'
  BY <1>3 DEF StoredAtCreator, Durable
<1>13. RxInv'
  <2> SUFFICES ASSUME NEW k \in Nodes, rx[k].pc # "idle"
               PROVE  RxHolds(k, rx[k].msg)'
    BY <1>3 DEF RxInv
  <2> QED
    BY <1>2, <1>3, <1>6, <1>8, RxKeeps
<1>14. AppInv'
  <2> SUFFICES ASSUME NEW k \in Nodes, app'[k].pc # "idle"
               PROVE  AppHolds(k, app[k].msg)'
    BY DEF AppInv
  <2>1. CASE k = n
    BY <2>1, <1>3, <1>4, <1>7, <1>9, <1>11 DEF AppHolds, Idle
  <2>2. CASE k # n
    BY <2>2, <1>2, <1>3, <1>5, <1>6, <1>8, AppKeeps
  <2> QED
    BY <2>1, <2>2
<1>15. AppliedAccounted' /\ RepeatsFollowErrors'
  BY <1>1, <1>2, <1>3, <1>4, <1>5, <1>9, <1>10, <1>11, PipelineCounts
<1>16. StoredWentThroughPipeline'
  BY <1>3, <1>6, PassedKeeps
<1> QED
  BY <1>12, <1>13, <1>14, <1>15, <1>16

\* A put of n that may have stored m, whatever it returned, leaves the counters
\* accounted for, if a run of the pipeline it drops is counted as unpaid.
LEMMA PutCounts ==
    ASSUME TypeOK, Core, NEW n \in Nodes, NEW m \in Messages,
           StoresAtMost(n, m), UNCHANGED <<applied, created>>,
           \/ UNCHANGED unpaid
           \/ Unpaid(n, m),
           \/ m \in storage'[n]
           \/ Unpaid(n, m)
           \/ created[m].api # "data" /\ (rx[n].pc = "put" => rx[n].msg # m),
           \A k \in Nodes : rx[k].pc = "put" /\ (k # n \/ rx[k].msg # m) =>
              rx'[k] = rx[k],
           \A k \in Nodes : app[k].pc = "put" /\ (k # n \/ app[k].msg # m) =>
              app'[k] = app[k]
    PROVE  AppliedAccounted' /\ RepeatsFollowErrors'
<1> USE DEF Core
<1>1. \A k \in Nodes, x \in Messages : applied[k][x] \in Nat /\ unpaid[k][x] \in Nat
  BY DEF TypeOK
<1>2. \A k \in Nodes, x \in Messages :
         \/ unpaid'[k][x] = unpaid[k][x]
         \/ unpaid'[k][x] = unpaid[k][x] + 1
  <2>1. CASE UNCHANGED unpaid
    BY <2>1
  <2>2. CASE Unpaid(n, m)
    <3> SUFFICES ASSUME NEW k \in Nodes, NEW x \in Messages
                 PROVE  \/ unpaid'[k][x] = unpaid[k][x]
                        \/ unpaid'[k][x] = unpaid[k][x] + 1
      OBVIOUS
    <3>1. CASE k = n /\ x = m
      BY <2>2, <3>1 DEF Unpaid, TypeOK
    <3>2. CASE k # n \/ x # m
      BY <2>2, <3>2 DEF Unpaid, TypeOK
    <3> QED
      BY <3>1, <3>2
  <2> QED
    BY <2>1, <2>2
<1>3. RepeatsFollowErrors'
  <2> SUFFICES ASSUME NEW k \in Nodes, NEW x \in Messages
               PROVE  applied[k][x] <= unpaid'[k][x] + 1
    BY DEF RepeatsFollowErrors
  <2>1. applied[k][x] <= unpaid[k][x] + 1
    BY DEF RepeatsFollowErrors
  <2> QED
    BY <2>1, <1>1, <1>2
<1>4. AppliedAccounted'
  <2> SUFFICES ASSUME NEW k \in Nodes, NEW x \in Messages,
                      applied[k][x] > unpaid'[k][x]
               PROVE  \/ x \in storage'[k]
                      \/ rx'[k].pc = "put" /\ rx'[k].msg = x
                      \/ /\ app'[k].pc = "put" /\ app'[k].msg = x
                         /\ created[x].api = "data"
    BY DEF AppliedAccounted
  <2>1. applied[k][x] > unpaid[k][x]
    BY <1>1, <1>2
  <2>2. \/ x \in storage[k]
        \/ rx[k].pc = "put" /\ rx[k].msg = x
        \/ app[k].pc = "put" /\ app[k].msg = x /\ created[x].api = "data"
    BY <2>1 DEF AppliedAccounted
  <2>3. CASE x \in storage[k]
    BY <2>3 DEF StoresAtMost
  <2>4. CASE k # n \/ x # m
    BY <2>2, <2>3, <2>4
  <2>5. CASE k = n /\ x = m /\ x \notin storage[k]
    <3>1. ~Unpaid(n, m)
      <4> SUFFICES ASSUME Unpaid(n, m) PROVE FALSE
        OBVIOUS
      <4>1. unpaid'[n][m] = unpaid[n][m] + 1
        BY DEF Unpaid, TypeOK
      <4>2. applied[n][m] <= unpaid[n][m] + 1
        BY DEF RepeatsFollowErrors
      <4> QED
        BY <4>1, <4>2, <2>5, <1>1
    <3> QED
      BY <3>1, <2>2, <2>5
  <2> QED
    BY <2>3, <2>4, <2>5
<1> QED
  BY <1>3, <1>4

\* A message that n stores after its pipeline took it, or that its own call
\* created as a string, keeps what is stored accounted for.
LEMMA PutPassed ==
    ASSUME Core, NEW n \in Nodes, NEW m \in Messages,
           StoresAtMost(n, m), UNCHANGED <<passed, created>>,
           m \in passed[n] \/ created[m] = [node |-> n, api |-> "string"]
    PROVE  StoredWentThroughPipeline'
<1> SUFFICES ASSUME NEW k \in Nodes, NEW x \in storage'[k]
             PROVE  x \in passed[k] \/ created[x] = [node |-> k, api |-> "string"]
  BY DEF StoredWentThroughPipeline
<1>1. CASE x \in storage[k]
  BY <1>1 DEF Core, StoredWentThroughPipeline
<1>2. CASE x \notin storage[k]
  BY <1>2 DEF StoresAtMost
<1> QED
  BY <1>1, <1>2

\* A put of a create call, whatever it returns, keeps Core.
LEMMA AppStores ==
    ASSUME TypeOK, Core, NEW n \in Nodes, app[n].pc = "put",
           PutReturns(n, app[n].msg),
           UNCHANGED <<created, applied, passed, rx>>,
           \A k \in Nodes \ {n} : app'[k] = app[k],
           \/ UNCHANGED unpaid
           \/ Unpaid(n, app[n].msg),
           \/ app[n].msg \in storage'[n]
           \/ Unpaid(n, app[n].msg)
           \/ created[app[n].msg].api # "data",
           \/ app'[n].pc = "idle"
           \/ /\ app'[n].pc = "track" /\ app'[n].msg = app[n].msg
              /\ created[app[n].msg].api # "data"
              /\ Put(n, app[n].msg)
    PROVE  Core'
<1> USE DEF Core
<1> DEFINE m == app[n].msg
<1>1. m \in Messages /\ AppHolds(n, m)
  BY AppMove DEF AppInv, TypeOK
<1>2. StoresAtMost(n, m) /\ (Put(n, m) => m \in Durable(n)')
  BY <1>1, PutEffect
<1>3. created[m] # Unborn /\ created[m].node = n
  BY <1>1 DEF AppHolds
<1>4. \A k \in Nodes : m \notin storage[k]
  BY <1>1 DEF AppHolds
<1>5. m \in passed[n] \/ created[m] = [node |-> n, api |-> "string"]
  <2>1. created[m] \in [node : Nodes, api : {"string", "data"}]
    BY <1>1, <1>3 DEF TypeOK, Created
  <2>2. created[m].api = "data" => m \in passed[n]
    BY <1>1 DEF AppHolds
  <2> QED
    BY <2>1, <2>2, <1>3
<1>6. \A k \in Nodes : rx[k].pc # "idle" => rx[k].msg # m
  <2> SUFFICES ASSUME NEW k \in Nodes, rx[k].pc # "idle" PROVE rx[k].msg # m
    OBVIOUS
  <2>1. RxHolds(k, rx[k].msg)
    BY DEF RxInv
  <2> QED
    BY <2>1, <1>3, <1>4 DEF RxHolds, Durable
<1>7. StoredAtCreator'
  BY <1>1, <1>2, <1>3, StoresKeeps
<1>8. RxInv'
  <2> SUFFICES ASSUME NEW k \in Nodes, rx[k].pc # "idle"
               PROVE  RxHolds(k, rx[k].msg)'
    BY DEF RxInv
  <2> QED
    BY <1>1, <1>2, <1>6, RxKeeps
<1>9. AppInv'
  <2> SUFFICES ASSUME NEW k \in Nodes, app'[k].pc # "idle"
               PROVE  AppHolds(k, app[k].msg)'
    BY DEF AppInv
  <2>1. CASE k = n
    <3>1. /\ app'[n].pc = "track" /\ app'[n].msg = m
          /\ created[m].api # "data" /\ m \in Durable(n)'
      BY <2>1, <1>2
    <3> QED
      BY <3>1, <2>1, <1>3 DEF AppHolds
  <2>2. CASE k # n
    <3>1. app'[k] = app[k] /\ AppHolds(k, app[k].msg)
      BY <2>2 DEF AppInv
    <3>2. app[k].msg # m
      BY <2>2, <3>1, <1>3 DEF AppHolds
    <3> QED
      BY <3>1, <3>2, <1>1, <1>2, AppKeeps
  <2> QED
    BY <2>1, <2>2
<1>10. AppliedAccounted' /\ RepeatsFollowErrors'
  <2>1. rx[n].pc = "put" => rx[n].msg # m
    BY <1>6
  <2>2. \A k \in Nodes : app[k].pc = "put" /\ (k # n \/ app[k].msg # m) =>
           app'[k] = app[k]
    OBVIOUS
  <2> QED
    BY <2>1, <2>2, <1>1, <1>2, PutCounts
<1>11. StoredWentThroughPipeline'
  BY <1>1, <1>2, <1>5, PutPassed
<1> QED
  BY <1>7, <1>8, <1>9, <1>10, <1>11

\* The put of a create call stores a message at its creator.
LEMMA AppPutStep ==
    ASSUME TypeOK, Core, NEW n \in Nodes, AppPut(n)
    PROVE  Core'
<1> DEFINE m == app[n].msg
<1>1. m \in Messages /\ app[n].pc = "put" /\ Put(n, m)
  BY AppMove DEF AppPut, TypeOK
<1>2. UNCHANGED <<created, applied, passed, unpaid, rx>>
  BY DEF AppPut, objects
<1>3. \A k \in Nodes \ {n} : app'[k] = app[k]
  BY DEF AppPut, TypeOK
<1>4. \/ app'[n].pc = "idle"
      \/ app'[n].pc = "track" /\ app'[n].msg = m /\ created[m].api # "data"
  <2>1. /\ [app[n] EXCEPT !.pc = "track"].pc = "track"
        /\ [app[n] EXCEPT !.pc = "track"].msg = m
    BY <1>1, AppMove DEF TypeOK
  <2>2. app'[n] = IF created[m].api = "data" THEN Idle
                  ELSE [app[n] EXCEPT !.pc = "track"]
    BY DEF AppPut, TypeOK
  <2> QED
    BY <2>1, <2>2 DEF Idle
<1>5. m \in storage'[n]
  BY <1>1 DEF Put, TypeOK
<1> QED
  BY <1>1, <1>2, <1>3, <1>4, <1>5, AppStores DEF PutReturns

\* A put that fails leaves the create call, stored or not.
LEMMA AppPutFailsStep ==
    ASSUME TypeOK, Core, NEW n \in Nodes, AppPutFails(n)
    PROVE  Core'
<1> DEFINE m == app[n].msg
<1>1. m \in Messages /\ app[n].pc = "put" /\ created[m] # Unborn
  BY AppMove DEF AppPutFails, TypeOK, Core, AppInv, AppHolds
<1>2. UNCHANGED <<created, applied, passed, rx>>
  BY DEF AppPutFails, objects
<1>3. app'[n].pc = "idle" /\ \A k \in Nodes \ {n} : app'[k] = app[k]
  BY DEF AppPutFails, Idle, TypeOK
<1>4. PICK inserted \in BOOLEAN :
         /\ PutFails(n, m, inserted)
         /\ IF inserted \/ created[m].api = "string"
            THEN UNCHANGED unpaid ELSE Unpaid(n, m)
  BY DEF AppPutFails
<1>5. inserted => m \in storage'[n]
  BY <1>4 DEF PutFails, TypeOK
<1>6. UNCHANGED unpaid \/ Unpaid(n, m)
  BY <1>4
<1>7. m \in storage'[n] \/ Unpaid(n, m) \/ created[m].api # "data"
  BY <1>4, <1>5
<1>8. PutReturns(n, m)
  BY <1>4 DEF PutReturns
<1> QED
  BY <1>1, <1>2, <1>3, <1>6, <1>7, <1>8, AppStores

\* The end of create_shared_message leaves the task idle.
LEMMA AppTrackStep ==
    ASSUME TypeOK, Core, NEW n \in Nodes, AppTrack(n)
    PROVE  Core'
<1> USE DEF Core
<1>1. UNCHANGED <<storage, unflushed, created, applied, passed, unpaid, rx>>
  BY DEF AppTrack, store, objects
<1>2. app'[n] = Idle /\ app[n].pc = "track"
  BY DEF AppTrack, TypeOK
<1>3. \A k \in Nodes \ {n} : app'[k] = app[k]
  BY DEF AppTrack, TypeOK
<1>4. AppInv'
  BY <1>1, <1>2, <1>3 DEF AppInv, AppHolds, Idle, Durable
<1>5. AppliedAccounted'
  BY <1>1, <1>2, <1>3 DEF AppliedAccounted
<1> QED
  BY <1>1, <1>4, <1>5 DEF StoredAtCreator, RxInv, RxHolds, Durable,
                          RepeatsFollowErrors, StoredWentThroughPipeline

-----------------------------------------------------------------------------
(* The receive loop and restarts *)

\* Steps of one receive loop that change neither storage nor a counter keep
\* Core if the loop still holds what it claims and abandons no put.
LEMMA RxFrame ==
    ASSUME TypeOK, Core, NEW n \in Nodes, rx[n].pc # "put",
           \A k \in Nodes \ {n} : rx'[k] = rx[k],
           rx'[n].pc # "idle" => RxHolds(n, rx[n].msg)',
           UNCHANGED <<storage, unflushed, created, applied, passed, unpaid, app>>
    PROVE  Core'
<1> USE DEF Core
<1>1. RxInv'
  BY DEF RxInv, RxHolds, Durable
<1>2. AppliedAccounted'
  BY DEF AppliedAccounted
<1>3. AppInv'
  BY DEF AppInv, AppHolds, Durable
<1> QED
  BY <1>1, <1>2, <1>3 DEF StoredAtCreator, Durable, RepeatsFollowErrors,
                          StoredWentThroughPipeline

\* The pipeline of the receive loop: the hash was absent when it was looked
\* up and nobody else at this node can have stored or applied it since.
LEMMA RxPipelineStep ==
    ASSUME TypeOK, Core, NEW n \in Nodes, RxPipeline(n)
    PROVE  Core'
<1> USE DEF Core
<1> DEFINE m == rx[n].msg
<1>1. PICK verdict \in Verdict :
         /\ Pipeline(n, m, verdict)
         /\ rx' = [rx EXCEPT ![n] =
                     IF verdict = "apply" THEN [@ EXCEPT !.pc = "put"]
                                          ELSE Idle]
  BY DEF RxPipeline
<1>2. m \in Messages /\ rx[n].pc = "pipeline" /\ RxHolds(n, m)
  BY RxMove DEF RxPipeline, RxInv, TypeOK
<1>3. UNCHANGED <<storage, unflushed, created, app>>
  BY DEF RxPipeline, store
<1>4. \/ verdict = "apply" /\ rx'[n].pc = "put" /\ rx'[n].msg = m
      \/ verdict # "apply" /\ rx'[n] = Idle
  BY <1>1, <1>2, RxMove DEF TypeOK
<1>5. \A k \in Nodes \ {n} : rx'[k] = rx[k]
  BY <1>1 DEF TypeOK
<1>6. \A k \in Nodes : passed[k] \subseteq passed'[k]
  BY <1>1, <1>2, PipelineEffect
<1>7. verdict = "apply" => m \in passed'[n]
  BY <1>1, <1>2, PipelineEffect
<1>8. StoresAtMost(n, m)
  BY <1>2, <1>3, StoresNothing
<1>9. m \notin storage[n] /\ created[m] # Unborn /\ m \in Durable(created[m].node)
  BY <1>2 DEF RxHolds
<1>10. created[m].node \in Nodes
  BY <1>2, <1>9 DEF TypeOK, Created
<1>11. app[n].pc = "put" => app[n].msg # m
  <2>1. app[n].pc = "put" => AppHolds(n, app[n].msg)
    BY DEF AppInv
  <2> QED
    BY <1>9, <1>10, <2>1 DEF AppHolds, Durable
<1>12. StoredAtCreator'
  BY <1>3 DEF StoredAtCreator, Durable
<1>13. RxInv'
  <2> SUFFICES ASSUME NEW k \in Nodes, rx'[k].pc # "idle"
               PROVE  RxHolds(k, rx[k].msg)'
    BY DEF RxInv
  <2>1. CASE k = n
    <3>1. rx'[n].pc = "put" /\ rx'[n].msg = m /\ m \in passed'[n]
      BY <2>1, <1>4, <1>7 DEF Idle
    <3> QED
      BY <3>1, <2>1, <1>3, <1>9 DEF RxHolds, Durable
  <2>2. CASE k # n
    <3>1. rx'[k] = rx[k] /\ rx[k].pc # "idle"
      BY <2>2, <1>5
    <3> QED
      BY <3>1, <1>2, <1>3, <1>6, <1>8, RxKeeps
  <2> QED
    BY <2>1, <2>2
<1>14. AppInv'
  <2> SUFFICES ASSUME NEW k \in Nodes, app[k].pc # "idle"
               PROVE  AppHolds(k, app[k].msg)'
    BY <1>3 DEF AppInv
  <2> QED
    BY <1>2, <1>3, <1>6, <1>8, AppKeeps
<1>15. AppliedAccounted' /\ RepeatsFollowErrors'
  <2>1. rx[n].pc # "put" /\ \A k \in Nodes : k # n \/ rx[k].pc = "put" => rx'[k] = rx[k]
    BY <1>2, <1>5
  <2>2. verdict = "apply" => rx'[n].pc = "put" /\ rx'[n].msg = m
    BY <1>4
  <2> QED
    BY <2>1, <2>2, <1>1, <1>2, <1>3, <1>9, <1>11, PipelineCounts
<1>16. StoredWentThroughPipeline'
  BY <1>3, <1>6, PassedKeeps
<1> QED
  BY <1>12, <1>13, <1>14, <1>15, <1>16

\* A put of the receive loop, whatever it returns, keeps Core.
LEMMA RxStores ==
    ASSUME TypeOK, Core, NEW n \in Nodes, rx[n].pc = "put",
           PutReturns(n, rx[n].msg),
           UNCHANGED <<created, applied, passed, app>>,
           \A k \in Nodes \ {n} : rx'[k] = rx[k],
           \/ UNCHANGED unpaid
           \/ Unpaid(n, rx[n].msg),
           \/ rx[n].msg \in storage'[n]
           \/ Unpaid(n, rx[n].msg),
           \/ rx'[n].pc = "idle"
           \/ /\ rx'[n].pc = "relay" /\ rx'[n].msg = rx[n].msg
              /\ Put(n, rx[n].msg)
    PROVE  Core'
<1> USE DEF Core
<1> DEFINE m == rx[n].msg
<1>1. m \in Messages /\ RxHolds(n, m)
  BY RxMove DEF RxInv, TypeOK
<1>2. StoresAtMost(n, m) /\ (Put(n, m) => m \in Durable(n)')
  BY <1>1, PutEffect
<1>3. created[m] # Unborn /\ m \in Durable(created[m].node) /\ m \in passed[n]
  BY <1>1 DEF RxHolds
<1>4. created[m].node \in Nodes
  BY <1>1, <1>3 DEF TypeOK, Created
<1>5. \A k \in Nodes : app[k].pc \in {"pipeline", "put"} => app[k].msg # m
  <2> SUFFICES ASSUME NEW k \in Nodes, app[k].pc \in {"pipeline", "put"}
               PROVE  app[k].msg # m
    OBVIOUS
  <2>1. AppHolds(k, app[k].msg)
    BY DEF AppInv
  <2> QED
    BY <2>1, <1>3, <1>4 DEF AppHolds, Durable
<1>6. StoredAtCreator'
  BY <1>1, <1>2, <1>3, StoresKeeps
<1>7. RxInv'
  <2> SUFFICES ASSUME NEW k \in Nodes, rx'[k].pc # "idle"
               PROVE  RxHolds(k, rx[k].msg)'
    BY DEF RxInv
  <2>1. CASE k = n
    <3>1. rx'[n].pc = "relay" /\ rx'[n].msg = m /\ m \in Durable(n)'
      BY <2>1, <1>2
    <3>2. \A c \in Nodes : c = created[m].node => m \in Durable(c)'
      BY <1>2, <1>3, <1>4 DEF StoresAtMost
    <3> QED
      BY <3>1, <3>2, <2>1, <1>3, <1>4 DEF RxHolds
  <2>2. CASE k # n
    <3>1. rx'[k] = rx[k] /\ rx[k].pc # "idle"
      BY <2>2
    <3> QED
      BY <3>1, <2>2, <1>1, <1>2, RxKeeps
  <2> QED
    BY <2>1, <2>2
<1>8. AppInv'
  <2> SUFFICES ASSUME NEW k \in Nodes, app[k].pc # "idle"
               PROVE  AppHolds(k, app[k].msg)'
    BY DEF AppInv
  <2>1. CASE app[k].msg # m
    BY <2>1, <1>1, <1>2, AppKeeps
  <2>2. CASE app[k].msg = m
    <3>1. app[k].pc \notin {"pipeline", "put"} /\ AppHolds(k, m)
      BY <2>2, <1>5 DEF AppInv
    <3>2. Durable(k) \subseteq Durable(k)'
      BY <1>2 DEF StoresAtMost
    <3> QED
      BY <3>1, <3>2, <2>2 DEF AppHolds
  <2> QED
    BY <2>1, <2>2
<1>9. AppliedAccounted' /\ RepeatsFollowErrors'
  <2>1. \A k \in Nodes : rx[k].pc = "put" /\ (k # n \/ rx[k].msg # m) =>
           rx'[k] = rx[k]
    OBVIOUS
  <2> QED
    BY <2>1, <1>1, <1>2, PutCounts
<1>10. StoredWentThroughPipeline'
  BY <1>1, <1>2, <1>3, PutPassed
<1> QED
  BY <1>6, <1>7, <1>8, <1>9, <1>10

\* The put of the receive loop stores a message that its pipeline took.
LEMMA RxPutStep ==
    ASSUME TypeOK, Core, NEW n \in Nodes, RxPut(n)
    PROVE  Core'
<1> DEFINE m == rx[n].msg
<1>1. m \in Messages /\ rx[n].pc = "put" /\ Put(n, m)
  BY RxMove DEF RxPut, TypeOK
<1>2. UNCHANGED <<created, applied, passed, unpaid, app>>
  BY DEF RxPut, objects
<1>3. \A k \in Nodes \ {n} : rx'[k] = rx[k]
  BY DEF RxPut, TypeOK
<1>4. rx'[n].pc = "relay" /\ rx'[n].msg = m
  <2>1. /\ [rx[n] EXCEPT !.pc = "relay"].pc = "relay"
        /\ [rx[n] EXCEPT !.pc = "relay"].msg = m
    BY <1>1, RxMove DEF TypeOK
  <2>2. rx'[n] = [rx[n] EXCEPT !.pc = "relay"]
    BY DEF RxPut, TypeOK
  <2> QED
    BY <2>1, <2>2
<1>5. m \in storage'[n]
  BY <1>1 DEF Put, TypeOK
<1> QED
  BY <1>1, <1>2, <1>3, <1>4, <1>5, RxStores DEF PutReturns

\* A put that fails ends the handler, stored or not.
LEMMA RxPutFailsStep ==
    ASSUME TypeOK, Core, NEW n \in Nodes, RxPutFails(n)
    PROVE  Core'
<1> DEFINE m == rx[n].msg
<1>1. m \in Messages /\ rx[n].pc = "put"
  BY RxMove DEF RxPutFails, TypeOK
<1>2. UNCHANGED <<created, applied, passed, app>>
  BY DEF RxPutFails, objects
<1>3. rx'[n].pc = "idle" /\ \A k \in Nodes \ {n} : rx'[k] = rx[k]
  BY DEF RxPutFails, Idle, TypeOK
<1>4. PICK inserted \in BOOLEAN :
         /\ PutFails(n, m, inserted)
         /\ IF inserted THEN UNCHANGED unpaid ELSE Unpaid(n, m)
  BY DEF RxPutFails
<1>5. inserted => m \in storage'[n]
  BY <1>4 DEF PutFails, TypeOK
<1>6. UNCHANGED unpaid \/ Unpaid(n, m)
  BY <1>4
<1>7. m \in storage'[n] \/ Unpaid(n, m)
  BY <1>4, <1>5
<1>8. PutReturns(n, m)
  BY <1>4 DEF PutReturns
<1> QED
  BY <1>1, <1>2, <1>3, <1>6, <1>7, <1>8, RxStores

\* A restart forgets the tasks, the counters and what was not flushed of one
\* node.
LEMMA RestartStep ==
    ASSUME TypeOK, Core, NEW n \in Nodes, Restart(n)
    PROVE  Core'
<1> USE DEF Core
<1>1. UNCHANGED <<created, passed>>
  BY DEF Restart
<1>2. rx'[n] = Idle /\ app'[n] = Idle
      /\ applied'[n] = [m \in Messages |-> 0] /\ unpaid'[n] = [m \in Messages |-> 0]
  BY DEF Restart, TypeOK
<1>3. \A k \in Nodes \ {n} :
         /\ rx'[k] = rx[k] /\ app'[k] = app[k]
         /\ applied'[k] = applied[k] /\ unpaid'[k] = unpaid[k]
         /\ storage'[k] = storage[k] /\ unflushed'[k] = unflushed[k]
  BY DEF Restart, TypeOK
<1>4. storage'[n] \subseteq storage[n] /\ Durable(n) \subseteq storage'[n]
      /\ unflushed'[n] = {}
  BY DEF Restart, Durable, TypeOK
<1>5. \A k \in Nodes : /\ storage'[k] \subseteq storage[k]
                       /\ Durable(k) \subseteq Durable(k)'
  <2> SUFFICES ASSUME NEW k \in Nodes
               PROVE  /\ storage'[k] \subseteq storage[k]
                      /\ Durable(k) \subseteq Durable(k)'
    OBVIOUS
  <2>1. CASE k = n
    BY <2>1, <1>4 DEF Durable
  <2>2. CASE k # n
    BY <2>2, <1>3 DEF Durable
  <2> QED
    BY <2>1, <2>2
<1>6. \A x \in Messages : created[x] # Unborn => created[x].node \in Nodes
  BY DEF TypeOK, Created
<1>7. StoredAtCreator'
  <2> SUFFICES ASSUME NEW k \in Nodes, NEW x \in storage'[k]
               PROVE  /\ created[x] # Unborn
                      /\ k = created[x].node \/ x \in Durable(created[x].node)'
    BY <1>1 DEF StoredAtCreator
  <2>1. x \in storage[k] /\ x \in Messages
    BY <1>5 DEF TypeOK
  <2> QED
    BY <2>1, <1>1, <1>5, <1>6 DEF StoredAtCreator
<1>8. RxInv'
  <2> SUFFICES ASSUME NEW k \in Nodes \ {n}, rx[k].pc # "idle"
               PROVE  RxHolds(k, rx[k].msg)'
    BY <1>2, <1>3 DEF RxInv, Idle
  <2>1. RxHolds(k, rx[k].msg) /\ rx[k].msg \in Messages
    BY RxMove DEF RxInv, TypeOK
  <2>2. /\ created[rx[k].msg].node \in Nodes
        /\ \A c \in Nodes : c = created[rx[k].msg].node => rx[k].msg \in Durable(c)'
    BY <2>1, <1>5, <1>6 DEF RxHolds
  <2>3. rx'[k] = rx[k] /\ storage'[k] \subseteq storage[k]
        /\ Durable(k) \subseteq Durable(k)'
    BY <1>3, <1>5
  <2> QED
    BY <2>1, <2>2, <2>3, <1>1 DEF RxHolds
<1>9. AppInv'
  <2> SUFFICES ASSUME NEW k \in Nodes \ {n}, app[k].pc # "idle"
               PROVE  AppHolds(k, app[k].msg)'
    BY <1>2, <1>3 DEF AppInv, Idle
  <2>1. AppHolds(k, app[k].msg)
    BY DEF AppInv
  <2>2. app'[k] = app[k] /\ Durable(k) \subseteq Durable(k)'
    BY <1>3, <1>5
  <2>3. \A x \in Nodes : app[k].msg \notin storage[x] => app[k].msg \notin storage'[x]
    BY <1>5
  <2> QED
    BY <2>1, <2>2, <2>3, <1>1 DEF AppHolds
<1>10. AppliedAccounted'
  <2> SUFFICES ASSUME NEW k \in Nodes, NEW x \in Messages,
                      applied'[k][x] > unpaid'[k][x]
               PROVE  \/ x \in storage'[k]
                      \/ rx'[k].pc = "put" /\ rx'[k].msg = x
                      \/ /\ app'[k].pc = "put" /\ app'[k].msg = x
                         /\ created[x].api = "data"
    BY <1>1 DEF AppliedAccounted
  <2>1. k # n
    BY <1>2
  <2> QED
    BY <2>1, <1>3 DEF AppliedAccounted
<1>11. RepeatsFollowErrors'
  BY <1>2, <1>3 DEF RepeatsFollowErrors
<1>12. StoredWentThroughPipeline'
  BY <1>1, <1>5 DEF StoredWentThroughPipeline
<1> QED
  BY <1>7, <1>8, <1>9, <1>10, <1>11, <1>12

\* The receive loop takes a datagram that is durable at its creator.
LEMMA RxTakeStep ==
    ASSUME TypeOK, Core, WireIsDurable, NEW n \in Nodes, NEW d \in net,
           RxTake(n, d)
    PROVE  Core'
<1>1. UNCHANGED <<storage, unflushed, created, applied, passed, unpaid, app>>
  BY DEF RxTake, store, objects
<1>2. rx'[n] = [pc |-> "dedup", src |-> d.src, msg |-> d.msg]
  BY DEF RxTake, TypeOK
<1>3. rx[n].pc # "put" /\ \A k \in Nodes \ {n} : rx'[k] = rx[k]
  BY DEF RxTake, Idle, TypeOK
<1>4. RxHolds(n, rx[n].msg)'
  BY <1>1, <1>2 DEF RxHolds, RxTake, WireIsDurable, Durable
<1> QED
  BY <1>1, <1>3, <1>4, RxFrame

\* storage.exists was false: the hash is absent, and durable at its creator.
LEMMA RxDedupStep ==
    ASSUME TypeOK, Core, NEW n \in Nodes, RxDedup(n)
    PROVE  Core'
<1>1. UNCHANGED <<storage, unflushed, created, applied, passed, unpaid, app>>
  BY DEF RxDedup, store, objects
<1>2. rx[n].pc = "dedup" /\ RxHolds(n, rx[n].msg)
  BY DEF RxDedup, RxInv, Core
<1>3. \A k \in Nodes \ {n} : rx'[k] = rx[k]
  BY DEF RxDedup, TypeOK
<1>4. rx'[n].pc # "idle" =>
         /\ rx[n].msg \notin storage[n]
         /\ rx'[n].pc = "pipeline" /\ rx'[n].msg = rx[n].msg
  <2>1. /\ [rx[n] EXCEPT !.pc = "pipeline"].pc = "pipeline"
        /\ [rx[n] EXCEPT !.pc = "pipeline"].msg = rx[n].msg
    BY <1>2, RxMove DEF TypeOK
  <2>2. CASE rx[n].msg \in storage[n]
    BY <2>2 DEF RxDedup, TypeOK, Idle
  <2>3. CASE rx[n].msg \notin storage[n]
    <3>1. rx'[n] = [rx[n] EXCEPT !.pc = "pipeline"]
      BY <2>3 DEF RxDedup, TypeOK
    <3> QED
      BY <2>1, <2>3, <3>1
  <2> QED
    BY <2>2, <2>3
<1>5. rx'[n].pc # "idle" => RxHolds(n, rx[n].msg)'
  BY <1>1, <1>2, <1>4 DEF RxHolds, Durable
<1> QED
  BY <1>1, <1>2, <1>3, <1>5, RxFrame

\* After the relay, or after storage.exists failed, the receive loop is idle.
LEMMA RxEndStep ==
    ASSUME TypeOK, Core, NEW n \in Nodes, RxRelay(n) \/ RxExistsFails(n)
    PROVE  Core'
<1>1. UNCHANGED <<storage, unflushed, created, applied, passed, unpaid, app>>
  BY DEF RxRelay, RxExistsFails, store, objects
<1>2. rx[n].pc # "put" /\ rx' = [rx EXCEPT ![n] = Idle]
  BY DEF RxRelay, RxExistsFails
<1>3. rx'[n].pc = "idle" /\ \A k \in Nodes \ {n} : rx'[k] = rx[k]
  BY <1>2 DEF TypeOK, Idle
<1> QED
  BY <1>1, <1>2, <1>3, RxFrame

\* Every step keeps Core.
LEMMA CoreStep ==
    ASSUME TypeOK, Core, WireIsDurable, [Next]_vars
    PROVE  Core'
<1> USE DEF store, objects
<1>1. CASE UNCHANGED vars
  BY <1>1, CoreFrame DEF vars, coreVars
<1>2. ASSUME NEW n \in Nodes, NEW m \in Messages, CreateSharedMessage(n, m)
      PROVE  Core'
  BY <1>2, CreateStep DEF CreateSharedMessage
<1>3. ASSUME NEW n \in Nodes, NEW m \in Messages,
             CreateSharedMessageWithData(n, m)
      PROVE  Core'
  BY <1>3, CreateStep DEF CreateSharedMessageWithData
<1>4. ASSUME NEW n \in Nodes, NEW p \in Nodes, BanPeer(n, p) \/ UnbanPeer(n, p)
      PROVE  Core'
  BY <1>4, CoreFrame DEF BanPeer, UnbanPeer, local, coreVars
<1>5. ASSUME NEW n \in Nodes, NEW d \in net, RxBanned(n, d) \/ RxControl(n, d)
      PROVE  Core'
  BY <1>5, CoreFrame DEF RxBanned, RxControl, local, coreVars
<1>6. ASSUME NEW n \in Nodes, GossipStep(n) PROVE Core'
  BY <1>6, CoreFrame
     DEF GossipStep, GossipBegin, GossipSend, GossipEnd, coreVars
<1>7. ASSUME NEW n \in Nodes, NEW m \in Messages, SpawnedBroadcast(n, m)
      PROVE  Core'
  BY <1>7, CoreFrame DEF SpawnedBroadcast, coreVars
<1>8. ASSUME NEW d \in net, Lose(d) PROVE Core'
  BY <1>8, CoreFrame DEF Lose, local, coreVars
<1> QED
  BY <1>1, <1>2, <1>3, <1>4, <1>5, <1>6, <1>7, <1>8, AppPipelineStep,
     AppPutStep, AppPutFailsStep, AppTrackStep, RxTakeStep, RxDedupStep,
     RxPipelineStep, RxPutStep, RxPutFailsStep, RxEndStep, RestartStep
     DEF Next, AppStep, RxStep

-----------------------------------------------------------------------------
(* What is durable, on the wire and pending *)

\* What is durable grows by puts: a flush makes a message durable at the node
\* that created it, or at a node that did not after it was durable there.
Flushed(n) ==
    /\ UNCHANGED created
    /\ \A k \in Nodes \ {n} : Durable(k)' = Durable(k)
    /\ Durable(n) \subseteq Durable(n)'
    /\ \A m \in Messages : m \in Durable(n)' =>
          /\ created[m] # Unborn
          /\ n = created[m].node \/ m \in Durable(created[m].node)

\* Nothing becomes durable or is lost.
Unflushed == UNCHANGED created /\ \A k \in Nodes : Durable(k)' = Durable(k)

\* The creator of a message is set once.
CreateOnce(m) ==
    /\ created[m] = Unborn
    /\ \E n \in Nodes, api \in {"string", "data"} :
          created' = [created EXCEPT ![m] = [node |-> n, api |-> api]]
    /\ \A k \in Nodes : Durable(k)' = Durable(k)

\* Every outcome of a put of a message that the invariant lets n store.
LEMMA PutFlushes ==
    ASSUME TypeOK, Core, NEW n \in Nodes, NEW m \in Messages, PutReturns(n, m),
           UNCHANGED created, created[m] # Unborn,
           n = created[m].node \/ m \in Durable(created[m].node)
    PROVE  Flushed(n)
<1>1. StoresAtMost(n, m)
  BY PutEffect
<1>2. \A k \in Nodes \ {n} : unflushed'[k] = unflushed[k]
  BY DEF PutReturns, Put, PutFails, TypeOK
<1>3. \A k \in Nodes \ {n} : Durable(k)' = Durable(k)
  BY <1>1, <1>2 DEF StoresAtMost, Durable
<1>4. Durable(n)' \subseteq storage[n] \cup {m} /\ Durable(n) \subseteq Durable(n)'
  BY <1>1 DEF StoresAtMost, Durable
<1> QED
  BY <1>3, <1>4 DEF Flushed, Core, StoredAtCreator

\* What a step may do to what is durable and to the creators.
LEMMA StorageStep ==
    ASSUME TypeOK, Core, [Next]_vars
    PROVE  \/ Unflushed
           \/ \E m \in Messages : CreateOnce(m)
           \/ \E n \in Nodes : Flushed(n)
<1> USE DEF Core, store
<1>0. ASSUME UNCHANGED <<storage, unflushed, created>> PROVE Unflushed
  BY <1>0 DEF Unflushed, Durable
<1>1. CASE UNCHANGED vars
  BY <1>0, <1>1 DEF vars
<1>2. ASSUME NEW n \in Nodes, NEW m \in Messages,
             CreateSharedMessage(n, m) \/ CreateSharedMessageWithData(n, m)
      PROVE  CreateOnce(m)
  BY <1>2
     DEF CreateSharedMessage, CreateSharedMessageWithData, CreateOnce, Durable
<1>3. ASSUME NEW n \in Nodes, AppPut(n) \/ AppPutFails(n) PROVE Flushed(n)
  <2> DEFINE m == app[n].msg
  <2>1. m \in Messages /\ AppHolds(n, m)
    BY <1>3, AppMove DEF AppPut, AppPutFails, AppInv, TypeOK
  <2>2. PutReturns(n, m) /\ UNCHANGED created
    BY <1>3 DEF AppPut, AppPutFails, PutReturns
  <2>3. created[m] # Unborn /\ n = created[m].node
    BY <2>1 DEF AppHolds
  <2> QED
    BY <2>1, <2>2, <2>3, PutFlushes
<1>4. ASSUME NEW n \in Nodes, RxPut(n) \/ RxPutFails(n) PROVE Flushed(n)
  <2> DEFINE m == rx[n].msg
  <2>1. m \in Messages /\ RxHolds(n, m)
    BY <1>4, RxMove DEF RxPut, RxPutFails, RxInv, TypeOK
  <2>2. PutReturns(n, m) /\ UNCHANGED created
    BY <1>4 DEF RxPut, RxPutFails, PutReturns
  <2>3. created[m] # Unborn /\ m \in Durable(created[m].node)
    BY <2>1 DEF RxHolds
  <2> QED
    BY <2>1, <2>2, <2>3, PutFlushes
<1>5. ASSUME NEW n \in Nodes, AppPipeline(n) \/ AppTrack(n) PROVE Unflushed
  BY <1>0, <1>5 DEF AppPipeline, AppTrack
<1>6. ASSUME NEW n \in Nodes, NEW p \in Nodes, BanPeer(n, p) \/ UnbanPeer(n, p)
      PROVE  Unflushed
  BY <1>0, <1>6 DEF BanPeer, UnbanPeer, local
<1>7. ASSUME NEW n \in Nodes, NEW d \in net,
             RxBanned(n, d) \/ RxControl(n, d) \/ RxTake(n, d)
      PROVE  Unflushed
  BY <1>0, <1>7 DEF RxBanned, RxControl, RxTake, local
<1>8. ASSUME NEW n \in Nodes,
             RxDedup(n) \/ RxPipeline(n) \/ RxRelay(n) \/ RxExistsFails(n)
      PROVE  Unflushed
  BY <1>0, <1>8 DEF RxDedup, RxPipeline, RxRelay, RxExistsFails
<1>9. ASSUME NEW n \in Nodes, GossipStep(n) PROVE Unflushed
  BY <1>0, <1>9 DEF GossipStep, GossipBegin, GossipSend, GossipEnd
<1>10. ASSUME NEW n \in Nodes, Restart(n) PROVE Flushed(n)
  <2>1. \A k \in Nodes \ {n} :
           storage'[k] = storage[k] /\ unflushed'[k] = unflushed[k]
    BY <1>10 DEF Restart, TypeOK
  <2>2. storage'[n] \subseteq storage[n] /\ Durable(n) \subseteq storage'[n]
        /\ unflushed'[n] = {} /\ UNCHANGED created
    BY <1>10 DEF Restart, Durable, TypeOK
  <2>3. \A k \in Nodes \ {n} : Durable(k)' = Durable(k)
    BY <2>1 DEF Durable
  <2>4. Durable(n) \subseteq Durable(n)' /\ Durable(n)' \subseteq storage[n]
    BY <2>2 DEF Durable
  <2> QED
    BY <2>2, <2>3, <2>4 DEF Flushed, StoredAtCreator
<1>11. ASSUME NEW n \in Nodes, NEW m \in Messages, SpawnedBroadcast(n, m)
       PROVE  Unflushed
  BY <1>0, <1>11 DEF SpawnedBroadcast
<1>12. ASSUME NEW d \in net, Lose(d) PROVE Unflushed
  BY <1>0, <1>12 DEF Lose, local
<1> QED
  BY <1>1, <1>2, <1>3, <1>4, <1>5, <1>6, <1>7, <1>8, <1>9, <1>10, <1>11,
     <1>12 DEF Next, AppStep, RxStep

\* What is durable never shrinks, and a creator never changes.
LEMMA DurableGrows ==
    ASSUME TypeOK, Core, [Next]_vars
    PROVE  /\ \A k \in Nodes : Durable(k) \subseteq Durable(k)'
           /\ \A x \in Messages : created[x] # Unborn => created'[x] = created[x]
<1>1. CASE Unflushed
  BY <1>1 DEF Unflushed
<1>2. ASSUME NEW m \in Messages, CreateOnce(m)
      PROVE  /\ \A k \in Nodes : Durable(k)' = Durable(k)
             /\ \A x \in Messages : created[x] # Unborn => created'[x] = created[x]
  BY <1>2 DEF CreateOnce, TypeOK
<1>3. ASSUME NEW n \in Nodes, Flushed(n)
      PROVE  /\ \A k \in Nodes : Durable(k) \subseteq Durable(k)'
             /\ UNCHANGED created
  BY <1>3 DEF Flushed
<1> QED
  BY <1>1, <1>2, <1>3, StorageStep

\* Every step keeps the datagrams on the wire durable: the old ones because
\* what is durable only grows, the new ones because a task broadcasts only what
\* is durable.
LEMMA WireStep ==
    ASSUME TypeOK, Core, WireIsDurable, PendingIsStored, [Next]_vars
    PROVE  WireIsDurable'
<1> DEFINE Good(e) == /\ e.msg \in Durable(e.src)
                      /\ created[e.msg] # Unborn
                      /\ e.msg \in Durable(created[e.msg].node)
                      /\ e.src \in Nodes /\ e.msg \in Messages
<1>1. ASSUME NEW d \in net, d.type = "GOSSIP" PROVE Good(d)
  BY <1>1 DEF WireIsDurable, Datagram, TypeOK
<1>2. ASSUME NEW n \in Nodes, NEW m \in Durable(n), NEW d \in Broadcast(n, m)
      PROVE  Good(d)
  <2>1. m \in Messages
    BY DEF TypeOK, Durable
  <2> QED
    BY <2>1, BroadcastDurable DEF Core
<1>3. ASSUME NEW d \in net', d.type = "GOSSIP" PROVE Good(d)
  <2>1. CASE net' \subseteq net
    BY <1>1, <1>3, <2>1
  <2>2. ASSUME NEW n \in Nodes, NEW m \in Durable(n), net' = net \cup Broadcast(n, m)
        PROVE  Good(d)
    BY <1>1, <1>2, <1>3, <2>2
  <2>3. ASSUME NEW n \in Nodes, NEW m \in Messages, SpawnedBroadcast(n, m)
        PROVE  Good(d)
    <3>1. m \in Durable(n)
      BY <2>3 DEF SpawnedBroadcast, PendingIsStored
    <3> QED
      BY <2>3, <3>1, <2>2 DEF SpawnedBroadcast
  <2>4. ASSUME NEW n \in Nodes, RxRelay(n) PROVE Good(d)
    <3>1. rx[n].msg \in Durable(n)
      BY <2>4 DEF RxRelay, Core, RxInv, RxHolds
    <3> QED
      BY <2>4, <3>1, <2>2 DEF RxRelay
  <2>5. ASSUME NEW n \in Nodes, NEW m \in Messages, GossipSend(n, m)
        PROVE  Good(d)
    <3>1. m \in Durable(n)
      BY <2>5 DEF GossipSend, PendingIsStored
    <3>2. net' \subseteq net \/ net' = net \cup Broadcast(n, m)
      BY <2>5 DEF GossipSend
    <3> QED
      BY <3>1, <3>2, <2>1, <2>2
  <2>6. ASSUME NEW n \in Nodes, NEW e \in net, RxControl(n, e) PROVE Good(d)
    BY <1>1, <1>3, <2>6, SendControlGossip DEF RxControl
  <2>7. ASSUME NEW n \in Nodes, GossipEnd(n) PROVE Good(d)
    BY <1>1, <1>3, <2>7, SendControlGossip DEF GossipEnd
  <2>8. ASSUME NEW e \in net, Lose(e) \/ \E n \in Nodes : RxBanned(n, e)
        PROVE  net' \subseteq net
    BY <2>8 DEF RxBanned, Lose
  <2>9. ASSUME NEW n \in Nodes, GossipBegin(n) \/ Restart(n) PROVE UNCHANGED net
    BY <2>9 DEF GossipBegin, Restart
  <2>10. ASSUME NEW n \in Nodes, AppStep(n) PROVE UNCHANGED net
    BY <2>10 DEF AppStep, CreateSharedMessage, CreateSharedMessageWithData,
                 AppPipeline, AppPut, AppPutFails, AppTrack, BanPeer, UnbanPeer
  <2>11. ASSUME NEW n \in Nodes, NEW e \in net, RxTake(n, e)
         PROVE  UNCHANGED net
    BY <2>11 DEF RxTake
  <2>12. CASE UNCHANGED vars
    BY <2>12, <2>1 DEF vars
  <2>13. ASSUME NEW n \in Nodes, RxDedup(n) \/ RxPipeline(n) \/ RxPut(n)
                                  \/ RxPutFails(n) \/ RxExistsFails(n)
         PROVE  UNCHANGED net
    BY <2>13 DEF RxDedup, RxPipeline, RxPut, RxPutFails, RxExistsFails
  <2> QED
    BY <2>1, <2>3, <2>4, <2>5, <2>6, <2>7, <2>8, <2>9, <2>10, <2>11, <2>12,
       <2>13 DEF Next, RxStep, GossipStep
<1>4. ASSUME NEW d \in net', d.type = "GOSSIP"
      PROVE  /\ d.msg \in Durable(d.src)'
             /\ created'[d.msg] # Unborn
             /\ \A c \in Nodes : c = created'[d.msg].node => d.msg \in Durable(c)'
             /\ created'[d.msg].node \in Nodes
  <2>1. Good(d)
    BY <1>3, <1>4
  <2>2. created[d.msg].node \in Nodes /\ created'[d.msg] = created[d.msg]
    BY <2>1, DurableGrows DEF TypeOK, Created
  <2> QED
    BY <2>1, <2>2, DurableGrows
<1> QED
  BY <1>4 DEF WireIsDurable

\* The gossip loop and the spawned tasks hold hashes of durable messages: they
\* get them from a call that has put them, and what is durable never shrinks.
LEMMA PendingStep ==
    ASSUME TypeOK, Core, PendingIsStored, [Next]_vars
    PROVE  PendingIsStored'
<1> SUFFICES ASSUME NEW k \in Nodes
             PROVE  known'[k] \cup casts'[k] \cup gossip'[k].todo \subseteq Durable(k)'
  BY DEF PendingIsStored
<1> DEFINE Kept == /\ known'[k] \subseteq known[k] \cup Durable(k)'
                   /\ casts'[k] \subseteq casts[k] \cup Durable(k)'
                   /\ gossip'[k].todo \subseteq gossip[k].todo \cup known[k]
<1>1. Durable(k) \subseteq Durable(k)'
  BY DurableGrows
<1>2. Kept
  <2>1. CASE UNCHANGED <<known, casts, gossip>>
    BY <2>1
  <2>2. ASSUME NEW n \in Nodes, AppPut(n) PROVE Kept
    <3>1. app[n].msg \in Messages /\ Put(n, app[n].msg)
      BY <2>2, AppMove DEF AppPut, TypeOK
    <3>2. storage'[n] = storage[n] \cup {app[n].msg} /\ unflushed'[n] = {}
      BY <3>1 DEF Put, TypeOK
    <3>3. \A x \in {app[n].msg} : x \in Durable(n)'
      BY <3>2 DEF Durable
    <3>4. /\ known' = known /\ gossip' = gossip
          /\ casts'[k] \subseteq casts[k] \cup (IF k = n THEN {app[n].msg} ELSE {})
      BY <2>2 DEF AppPut, TypeOK
    <3> QED
      BY <3>3, <3>4
  <2>3. ASSUME NEW n \in Nodes, AppTrack(n) PROVE Kept
    <3>1. app[n].msg \in Durable(n)
      BY <2>3 DEF AppTrack, Core, AppInv, AppHolds
    <3>2. UNCHANGED gossip /\ Durable(n)' = Durable(n)
      BY <2>3 DEF AppTrack, store, Durable
    <3> QED
      BY <2>3, <3>1, <3>2 DEF AppTrack, TypeOK
  <2>4. ASSUME NEW n \in Nodes, GossipBegin(n) PROVE Kept
    BY <2>4 DEF GossipBegin, TypeOK
  <2>5. ASSUME NEW n \in Nodes, NEW m \in Messages, GossipSend(n, m) PROVE Kept
    <3>1. \/ gossip'[k] = gossip[k]
          \/ gossip'[k] = [gossip[k] EXCEPT !.todo = @ \ {m}]
      BY <2>5 DEF GossipSend, TypeOK
    <3>2. gossip'[k].todo \subseteq gossip[k].todo
      BY <3>1 DEF TypeOK, GossipState
    <3> QED
      BY <2>5, <3>2 DEF GossipSend
  <2>6. ASSUME NEW n \in Nodes, GossipEnd(n) PROVE Kept
    BY <2>6 DEF GossipEnd, TypeOK, Asleep
  <2>7. ASSUME NEW n \in Nodes, Restart(n) PROVE Kept
    BY <2>7 DEF Restart, TypeOK, Asleep
  <2>8. ASSUME NEW n \in Nodes, NEW m \in Messages, SpawnedBroadcast(n, m)
        PROVE  Kept
    BY <2>8 DEF SpawnedBroadcast, TypeOK
  <2>9. ASSUME NEW n \in Nodes, RxStep(n) PROVE UNCHANGED <<known, casts, gossip>>
    BY <2>9 DEF RxStep, RxBanned, RxControl, RxTake, RxDedup, RxExistsFails,
                RxPipeline, RxPut, RxPutFails, RxRelay, local
  <2>10. ASSUME NEW d \in net, Lose(d) PROVE UNCHANGED <<known, casts, gossip>>
    BY <2>10 DEF Lose, local
  <2>11. ASSUME NEW n \in Nodes, NEW m \in Messages,
                CreateSharedMessage(n, m) \/ CreateSharedMessageWithData(n, m)
         PROVE  UNCHANGED <<known, casts, gossip>>
    BY <2>11 DEF CreateSharedMessage, CreateSharedMessageWithData
  <2>12. ASSUME NEW n \in Nodes, AppPipeline(n) \/ AppPutFails(n)
         PROVE  UNCHANGED <<known, casts, gossip>>
    BY <2>12 DEF AppPipeline, AppPutFails
  <2>13. ASSUME NEW n \in Nodes, NEW p \in Nodes,
                BanPeer(n, p) \/ UnbanPeer(n, p)
         PROVE  UNCHANGED <<known, casts, gossip>>
    BY <2>13 DEF BanPeer, UnbanPeer, local
  <2>14. CASE UNCHANGED vars
    BY <2>14, <2>1 DEF vars
  <2> QED
    BY <2>1, <2>2, <2>3, <2>4, <2>5, <2>6, <2>7, <2>8, <2>9, <2>10, <2>11,
       <2>12, <2>13, <2>14 DEF Next, AppStep, GossipStep
<1> QED
  BY <1>1, <1>2 DEF PendingIsStored

\* The invariant is inductive.
LEMMA SafetyStep == IInv /\ [Next]_vars => IInv'
  BY TypeStep, CoreStep, WireStep, PendingStep DEF IInv, Core

\* IInv holds in every reachable state.
THEOREM Safety == Spec => []IInv
  BY SafetyInit, SafetyStep, PTL DEF Spec

\* Between two starts of a node its objects take a message again only after a
\* run of the pipeline that failed half way or whose put left the message out,
\* for any number of nodes, messages and failures, any topology, any loss,
\* duplication and order.
THEOREM RepeatsAreAccounted == Spec => []RepeatsFollowErrors
<1>1. IInv => RepeatsFollowErrors
  BY DEF IInv
<1> QED
  BY <1>1, Safety, PTL

\* What a node stores went through its whole pipeline, unless its own
\* application created it by create_shared_message.
THEOREM PersistedAfterPipeline == Spec => []StoredWentThroughPipeline
<1>1. IInv => StoredWentThroughPipeline
  BY DEF IInv
<1> QED
  BY <1>1, Safety, PTL

\* Whatever is on the wire is durable at its sender and at its creator.
THEOREM DurableBeforeSent == Spec => []WireIsDurable
<1>1. IInv => WireIsDurable
  BY DEF IInv
<1> QED
  BY <1>1, Safety, PTL

\* The gossip loop never meets a hash that storage.get does not find.
THEOREM NeverSkips == Spec => []PendingIsStored
<1>1. IInv => PendingIsStored
  BY DEF IInv
<1> QED
  BY <1>1, Safety, PTL

-----------------------------------------------------------------------------
(***************************************************************************)
(* Refinement: a flush publishes what the node created itself and copies   *)
(* the rest of what it makes durable; every other step stutters.           *)
(***************************************************************************)

\* The initial states of the gossip layer have nothing stored or published.
LEMMA RefinementInit == Init => D!Init
  BY DEF Init, D!Init, holders, author, Durable

\* A step that makes nothing durable changes neither holders nor, if the
\* creators of durable messages stay the same, authors.
LEMMA Stutters ==
    ASSUME \A k \in Nodes : Durable(k)' = Durable(k),
           \A m \in Messages : holders[m] # {} => created'[m] = created[m]
    PROVE  UNCHANGED <<holders, author>>
<1>1. holders' = holders
  BY DEF holders
<1> QED
  BY <1>1 DEF author

\* A flush of n publishes and copies.
LEMMA FlushStores ==
    ASSUME IInv, NEW n \in Nodes, Flushed(n)
    PROVE  D!Next
<1> DEFINE fresh == {m \in Messages : m \in Durable(n)' /\ m \notin Durable(n)}
           published == {m \in fresh : holders[m] = {}}
           copied == {m \in fresh : holders[m] # {}}
<1>1. \A m \in Messages : holders[m] = {k \in Nodes : m \in Durable(k)}
  BY DEF holders
<1>2. \A m \in Messages :
         holders'[m] = IF m \in fresh THEN holders[m] \cup {n} ELSE holders[m]
  <2> SUFFICES ASSUME NEW m \in Messages
               PROVE  holders'[m] = IF m \in fresh THEN holders[m] \cup {n}
                                                   ELSE holders[m]
    OBVIOUS
  <2>1. holders'[m] = {k \in Nodes : m \in Durable(k)'}
    BY DEF holders
  <2> QED
    BY <1>1, <2>1 DEF Flushed
<1>3. \A m \in fresh : /\ created[m] # Unborn /\ created[m].node \in Nodes
                       /\ n = created[m].node \/ created[m].node \in holders[m]
  BY <1>1 DEF Flushed, IInv, TypeOK, Created
<1>4. \A m \in copied : author[m] \in holders[m]
  <2> SUFFICES ASSUME NEW m \in copied PROVE author[m] \in holders[m]
    OBVIOUS
  <2>1. author[m] = created[m].node
    BY DEF author
  <2>2. PICK k \in Nodes : m \in Durable(k)
    BY <1>1
  <2>3. k = created[m].node \/ m \in Durable(created[m].node)
    BY <2>2 DEF IInv, StoredAtCreator, Durable
  <2> QED
    BY <2>1, <2>2, <2>3, <1>1, <1>3
<1>5. holders' = [m \in Messages |->
                     IF m \in published \cup copied THEN holders[m] \cup {n}
                                                    ELSE holders[m]]
  <2>1. fresh = published \cup copied
    OBVIOUS
  <2> QED
    BY <1>2, <2>1 DEF holders
<1>6. author' = [m \in Messages |-> IF m \in published THEN n ELSE author[m]]
  <2>1. ASSUME NEW m \in Messages
        PROVE  author'[m] = IF m \in published THEN n ELSE author[m]
    <3>1. author'[m] = IF holders'[m] = {} THEN NoNode ELSE created[m].node
      BY DEF author, Flushed
    <3>2. author[m] = IF holders[m] = {} THEN NoNode ELSE created[m].node
      BY DEF author
    <3>3. CASE m \in published
      BY <3>1, <3>3, <1>2, <1>3
    <3>4. CASE m \notin published
      BY <3>1, <3>2, <3>4, <1>2
    <3> QED
      BY <3>3, <3>4
  <2> QED
    BY <2>1 DEF author
<1>7. published \in SUBSET Messages /\ copied \in SUBSET Messages
  OBVIOUS
<1>8. \A m \in published : holders[m] = {}
  OBVIOUS
<1>9. D!Store(n, published, copied)
  BY <1>4, <1>5, <1>6, <1>8 DEF D!Store
<1> QED
  BY <1>7, <1>9 DEF D!Next

\* Every step publishes, copies or stutters.
LEMMA RefinementStep ==
    IInv /\ [Next]_vars => [D!Next]_<<holders, author>>
<1> SUFFICES ASSUME IInv, [Next]_vars
             PROVE  D!Next \/ UNCHANGED <<holders, author>>
  OBVIOUS
<1>1. CASE Unflushed
  BY <1>1, Stutters DEF Unflushed
<1>2. ASSUME NEW m \in Messages, CreateOnce(m)
      PROVE  UNCHANGED <<holders, author>>
  <2>1. holders[m] = {}
    BY <1>2 DEF CreateOnce, holders, Durable, IInv, StoredAtCreator
  <2>2. \A x \in Messages \ {m} : created'[x] = created[x]
    BY <1>2 DEF CreateOnce, IInv, TypeOK
  <2> QED
    BY <2>1, <2>2, <1>2, Stutters DEF CreateOnce
<1>3. ASSUME NEW n \in Nodes, Flushed(n)
      PROVE  D!Next
  BY <1>3, FlushStores
<1> QED
  BY <1>1, <1>2, <1>3, StorageStep DEF IInv, Core

\* The gossip layer implements Dissemination.
THEOREM Refinement == Spec => ImplementsDissemination
<1>1. Init => D!Init
  BY RefinementInit
<1>2. IInv /\ [Next]_vars => [D!Next]_(D!vars)
  BY RefinementStep DEF D!vars
<1> QED
  BY <1>1, <1>2, Safety, PTL DEF Spec, ImplementsDissemination, D!Spec
=============================================================================
