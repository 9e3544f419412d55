----------------------------- MODULE NodeGossip -----------------------------
(***************************************************************************)
(* The gossip layer of a ChaincraftNode (src/node.rs): how a message gets  *)
(* from the application task of one node into the storage and the          *)
(* application objects of the others.                                      *)
(*                                                                         *)
(* Every node runs three kinds of tasks over shared, lock-protected state: *)
(*   - the application task, which calls create_shared_message,            *)
(*     create_shared_message_with_data, add_peer, ban_peer, unban_peer;    *)
(*   - the receive loop, which handles one UDP datagram at a time;         *)
(*   - the gossip loop, which every 500 ms rebroadcasts known_hashes;      *)
(* and one short-lived task per locally created message that broadcasts    *)
(* it.  An action is the code between two awaits at which another task may *)
(* observe the difference.                                                 *)
(*                                                                         *)
(* The nodes of this module carry objects without digest sync              *)
(* (is_merkleized() = false): get_latest_digest is never consulted and     *)
(* every digest exchanged is the empty string.                             *)
(***************************************************************************)
EXTENDS Naturals, FiniteSets

CONSTANTS
    Nodes,       \* nodes, each identified with its socket address
    Messages,    \* message hashes; SharedMessage::new makes a fresh one per call
    Bootstrap,   \* [Nodes -> SUBSET Nodes]: peers saved by add_peer before start
    LocalNodes,  \* nodes in the in-process registry (config.local_discovery)
    Bannable,    \* pairs <<n, p>> such that n's application may ban p
    Verdicts,    \* [Nodes -> [Messages -> SUBSET Verdict]]: pipeline outcomes
    Creators,    \* nodes whose application creates messages
    NoNode,      \* not a node
    MaxRestarts, \* bound: restarts per node
    MaxPartial,  \* bound: half-way failures per node and message between starts
    MaxFailures, \* bound: storage operations of a node that return an error
    MaxControl   \* bound: control datagrams in flight; one more is lost

Verdict == {"apply", "reject", "partial"}

ASSUME BootstrapAssumption == Bootstrap \in [Nodes -> SUBSET Nodes]
ASSUME LocalAssumption == LocalNodes \subseteq Nodes
ASSUME BannableAssumption == Bannable \subseteq Nodes \X Nodes
ASSUME VerdictsAssumption == Verdicts \in [Nodes -> [Messages -> SUBSET Verdict]]
ASSUME NoNodeAssumption == NoNode \notin Nodes
ASSUME CreatorsAssumption == Creators \subseteq Nodes
ASSUME BoundsAssumption ==
    {MaxRestarts, MaxPartial, MaxFailures, MaxControl} \subseteq Nat

VARIABLES
    storage,   \* storage[n]: hashes for which Storage::exists holds
    unflushed, \* unflushed[n]: those of them that a crash may still take
    known,     \* known[n]: the known_hashes set the gossip loop rebroadcasts
    applied,   \* applied[n][m]: times an object of n has taken m since start
    peers,     \* peers[n]: addresses in the peers map
    banned,    \* banned[n]: the banned_peers set
    created,   \* created[m]: the node and the call that made m, or Unborn
    app,       \* app[n]: the create call the application task is inside
    rx,        \* rx[n]: the datagram the receive loop is handling
    gossip,    \* gossip[n]: the hashes left in this pass of the gossip loop
    casts,     \* casts[n]: messages of spawned broadcast tasks not yet run
    net,       \* datagrams the network may still deliver
    restarts,  \* restarts[n]: how often n was restarted
    failures,  \* history: failures[n] storage operations of n returned an error
    passed,    \* history: passed[n] went through the whole pipeline of n once
    unpaid     \* history: unpaid[n][m] runs of the pipeline of n since its start
               \* changed objects by m and ended without m in storage

store == <<storage, unflushed, failures>>
objects == <<applied, passed>>
local == <<store, known, objects, app, rx, gossip, casts, unpaid>>
vars == <<store, known, objects, peers, banned, created, app, rx, gossip,
          casts, net, restarts, unpaid>>

Unborn == [node |-> NoNode, api |-> "none"]

Created == {Unborn} \cup [node : Nodes, api : {"string", "data"}]

Idle == [pc |-> "idle"]

\* create_shared_message stops at "put" and "track", the call with data at
\* "pipeline" and "put".
AppState == {Idle} \cup [pc : {"pipeline", "put", "track"}, msg : Messages]

RxState ==
    {Idle} \cup [pc : {"dedup", "pipeline", "put", "relay"}, src : Nodes,
                 msg : Messages]

GossipState ==
    [pc : {"sleep", "send"}, todo : SUBSET Messages]

Asleep == [pc |-> "sleep", todo |-> {}]

Datagram ==
    [type : {"GOSSIP"}, src : Nodes, dst : Nodes, msg : Messages]
      \cup [type : {"REQUEST_DIGEST", "DIGEST_RESPONSE"}, src : Nodes,
            dst : Nodes]

Init ==
    /\ storage = [n \in Nodes |-> {}]
    /\ unflushed = [n \in Nodes |-> {}]
    /\ known = [n \in Nodes |-> {}]
    /\ applied = [n \in Nodes |-> [m \in Messages |-> 0]]
    /\ peers = Bootstrap
    /\ banned = [n \in Nodes |-> {}]
    /\ created = [m \in Messages |-> Unborn]
    /\ app = [n \in Nodes |-> Idle]
    /\ rx = [n \in Nodes |-> Idle]
    /\ gossip = [n \in Nodes |-> Asleep]
    /\ casts = [n \in Nodes |-> {}]
    /\ net = {}
    /\ restarts = [n \in Nodes |-> 0]
    /\ failures = [n \in Nodes |-> 0]
    /\ passed = [n \in Nodes |-> {}]
    /\ unpaid = [n \in Nodes |-> [m \in Messages |-> 0]]

-----------------------------------------------------------------------------
(* Helpers *)

\* Mutant of Broadcast: the ban filter inverted.
BroadcastInverted(n, m) ==
    {[type |-> "GOSSIP", src |-> n, dst |-> p, msg |-> m] :
        p \in peers[n] \cap banned[n]}

\* broadcast_bytes: one datagram to every peer that is not banned right now.
\* Sends after the snapshot are indistinguishable from network delay.
Broadcast(n, m) ==
    {[type |-> "GOSSIP", src |-> n, dst |-> p, msg |-> m] :
        p \in peers[n] \ banned[n]}

\* send_to of a control datagram to one peer, banned or not.
SendControl(flight, type, n, p) ==
    IF Cardinality({d \in flight : d.type # "GOSSIP"}) < MaxControl
    THEN flight \cup {[type |-> type, src |-> n, dst |-> p]}
    ELSE flight

\* One more run of the pipeline of n that left m out of its storage.
Unpaid(n, m) == unpaid' = [unpaid EXCEPT ![n][m] = @ + 1]

\* process_message under the registry's write lock: all objects take m
\* ("apply"), none does because one rejects it ("reject"), or a prefix of
\* them does because a later add_message returns Err ("partial").
Pipeline(n, m, verdict) ==
    /\ verdict \in Verdicts[n][m]
    /\ verdict = "partial" => applied[n][m] < MaxPartial
    /\ applied' = IF verdict = "reject" THEN applied
                  ELSE [applied EXCEPT ![n][m] = @ + 1]
    /\ passed' = IF verdict = "apply" THEN [passed EXCEPT ![n] = @ \cup {m}]
                 ELSE passed
    /\ IF verdict = "partial" THEN Unpaid(n, m) ELSE UNCHANGED unpaid

\* Mutant of Put: storage.put forgotten.
PutForgotten(n, m) == UNCHANGED store

\* storage.put inserts the hash and flushes, which makes all inserts durable.
Put(n, m) ==
    /\ storage' = [storage EXCEPT ![n] = @ \cup {m}]
    /\ unflushed' = [unflushed EXCEPT ![n] = {}]
    /\ UNCHANGED failures

\* A storage operation returns Err.
Fails(n) ==
    /\ failures[n] < MaxFailures
    /\ failures' = [failures EXCEPT ![n] = @ + 1]

\* storage.put returns Err because the flush failed, or the insert did.
PutFails(n, m, inserted) ==
    /\ Fails(n)
    /\ IF inserted
       THEN /\ storage' = [storage EXCEPT ![n] = @ \cup {m}]
            /\ unflushed' = [unflushed EXCEPT ![n] = @ \cup ({m} \ storage[n])]
       ELSE UNCHANGED <<storage, unflushed>>

\* What a crash of n cannot take from its storage.
Durable(n) == storage[n] \ unflushed[n]

-----------------------------------------------------------------------------
(* The application task *)

\* Mutant of CreateSharedMessage: the broadcast is spawned before the put.
CreateBroadcastsFirst(n, m) ==
    /\ n \in Creators
    /\ app[n] = Idle
    /\ created[m] = Unborn
    /\ created' = [created EXCEPT ![m] = [node |-> n, api |-> "string"]]
    /\ app' = [app EXCEPT ![n] = [pc |-> "put", msg |-> m]]
    /\ casts' = [casts EXCEPT ![n] = @ \cup {m}]
    /\ UNCHANGED <<store, known, objects, peers, banned, rx, gossip, net,
                   restarts, unpaid>>

\* SharedMessage::new hashes a fresh id and the clock, so that the hash of a
\* new message was never used before, here or at another node.
CreateSharedMessage(n, m) ==
    /\ n \in Creators
    /\ app[n] = Idle
    /\ created[m] = Unborn
    /\ created' = [created EXCEPT ![m] = [node |-> n, api |-> "string"]]
    /\ app' = [app EXCEPT ![n] = [pc |-> "put", msg |-> m]]
    /\ UNCHANGED <<store, known, objects, peers, banned, rx, gossip, casts,
                   net, restarts, unpaid>>

CreateSharedMessageWithData(n, m) ==
    /\ n \in Creators
    /\ app[n] = Idle
    /\ created[m] = Unborn
    /\ created' = [created EXCEPT ![m] = [node |-> n, api |-> "data"]]
    /\ app' = [app EXCEPT ![n] = [pc |-> "pipeline", msg |-> m]]
    /\ UNCHANGED <<store, known, objects, peers, banned, rx, gossip, casts,
                   net, restarts, unpaid>>

\* The call with data runs the pipeline first; an Err leaves the call.
AppPipeline(n) ==
    /\ app[n].pc = "pipeline"
    /\ \E verdict \in Verdict :
          /\ Pipeline(n, app[n].msg, verdict)
          /\ app' = [app EXCEPT ![n] =
                        IF verdict = "apply" THEN [@ EXCEPT !.pc = "put"]
                                             ELSE Idle]
    /\ UNCHANGED <<store, known, peers, banned, created, rx, gossip, casts,
                   net, restarts>>

\* The call with data spawns its broadcast without another await; the other
\* one waits for the lock of known_hashes first.
AppPut(n) ==
    /\ app[n].pc = "put"
    /\ Put(n, app[n].msg)
    /\ IF created[app[n].msg].api = "data"
       THEN /\ casts' = [casts EXCEPT ![n] = @ \cup {app[n].msg}]
            /\ app' = [app EXCEPT ![n] = Idle]
       ELSE /\ app' = [app EXCEPT ![n].pc = "track"]
            /\ UNCHANGED casts
    /\ UNCHANGED <<known, objects, peers, banned, created, rx, gossip, net,
                   restarts, unpaid>>

\* Either call returns the error.  The objects of the call with data keep the
\* message; nothing is broadcast.
AppPutFails(n) ==
    /\ app[n].pc = "put"
    /\ \E inserted \in BOOLEAN :
          /\ PutFails(n, app[n].msg, inserted)
          /\ IF inserted \/ created[app[n].msg].api = "string"
             THEN UNCHANGED unpaid ELSE Unpaid(n, app[n].msg)
    /\ app' = [app EXCEPT ![n] = Idle]
    /\ UNCHANGED <<known, objects, peers, banned, created, rx, gossip, casts,
                   net, restarts>>

AppTrack(n) ==
    /\ app[n].pc = "track"
    /\ known' = [known EXCEPT ![n] = @ \cup {app[n].msg}]
    /\ casts' = [casts EXCEPT ![n] = @ \cup {app[n].msg}]
    /\ app' = [app EXCEPT ![n] = Idle]
    /\ UNCHANGED <<store, objects, peers, banned, created, rx, gossip, net,
                   restarts, unpaid>>

\* The task spawned by either create call.
SpawnedBroadcast(n, m) ==
    /\ m \in casts[n]
    /\ casts' = [casts EXCEPT ![n] = @ \ {m}]
    /\ net' = net \cup Broadcast(n, m)
    /\ UNCHANGED <<store, known, objects, peers, banned, created, app, rx,
                   gossip, restarts, unpaid>>

\* Completed ban_peer and unban_peer calls: set and stored list agree (module
\* PeerAdmin takes the two apart).
BanPeer(n, p) ==
    /\ <<n, p>> \in Bannable
    /\ p \notin banned[n]
    /\ banned' = [banned EXCEPT ![n] = @ \cup {p}]
    /\ UNCHANGED <<local, peers, created, net, restarts>>

UnbanPeer(n, p) ==
    /\ p \in banned[n]
    /\ banned' = [banned EXCEPT ![n] = @ \ {p}]
    /\ UNCHANGED <<local, peers, created, net, restarts>>

-----------------------------------------------------------------------------
(* The receive loop: handle_incoming_datagram, one datagram at a time *)

\* Datagrams of banned senders are dropped.  A datagram stays deliverable
\* until Lose takes it, so that the network may duplicate it.
RxBanned(n, d) ==
    /\ d \in net /\ d.dst = n
    /\ rx[n] = Idle
    /\ d.src \in banned[n]
    /\ net' = net \ {d}
    /\ UNCHANGED <<local, peers, banned, created, restarts>>

RecordPeer(n, p) == peers' = [peers EXCEPT ![n] = @ \cup {p}]

\* REQUEST_DIGEST is answered with the empty digest; a DIGEST_RESPONSE equals
\* our own digest and asks for nothing.  Both record the sender.
RxControl(n, d) ==
    /\ d \in net /\ d.dst = n
    /\ d.type # "GOSSIP"
    /\ rx[n] = Idle
    /\ d.src \notin banned[n]
    /\ net' = IF d.type = "REQUEST_DIGEST"
              THEN SendControl(net \ {d}, "DIGEST_RESPONSE", n, d.src)
              ELSE net \ {d}
    /\ RecordPeer(n, d.src)
    /\ UNCHANGED <<local, banned, created, restarts>>

RxTake(n, d) ==
    /\ d \in net /\ d.dst = n
    /\ d.type = "GOSSIP"
    /\ rx[n] = Idle
    /\ d.src \notin banned[n]
    /\ rx' = [rx EXCEPT ![n] = [pc |-> "dedup", src |-> d.src, msg |-> d.msg]]
    /\ UNCHANGED <<store, known, objects, peers, banned, created, app, gossip,
                   casts, net, restarts, unpaid>>

\* Mutant of RxDedup: storage.exists is not consulted.
RxNoDedup(n) ==
    /\ rx[n].pc = "dedup"
    /\ rx' = [rx EXCEPT ![n].pc = "pipeline"]
    /\ RecordPeer(n, rx[n].src)
    /\ UNCHANGED <<store, known, objects, banned, created, app, gossip, casts,
                   net, restarts, unpaid>>

\* A hash already in storage ends the handler before the sender is recorded.
RxDedup(n) ==
    /\ rx[n].pc = "dedup"
    /\ IF rx[n].msg \in storage[n]
       THEN /\ rx' = [rx EXCEPT ![n] = Idle]
            /\ UNCHANGED peers
       ELSE /\ rx' = [rx EXCEPT ![n].pc = "pipeline"]
            /\ RecordPeer(n, rx[n].src)
    /\ UNCHANGED <<store, known, objects, banned, created, app, gossip, casts,
                   net, restarts, unpaid>>

\* storage.exists returns Err, which ends the handler.
RxExistsFails(n) ==
    /\ rx[n].pc = "dedup"
    /\ Fails(n)
    /\ rx' = [rx EXCEPT ![n] = Idle]
    /\ UNCHANGED <<storage, unflushed, known, objects, peers, banned, created,
                   app, gossip, casts, net, restarts, unpaid>>

\* Mutant of RxPipeline: the error of process_message is not propagated.
RxIgnoresError(n) ==
    /\ rx[n].pc = "pipeline"
    /\ \E verdict \in Verdict : Pipeline(n, rx[n].msg, verdict)
    /\ rx' = [rx EXCEPT ![n].pc = "put"]
    /\ UNCHANGED <<store, known, peers, banned, created, app, gossip, casts,
                   net, restarts>>

RxPipeline(n) ==
    /\ rx[n].pc = "pipeline"
    /\ \E verdict \in Verdict :
          /\ Pipeline(n, rx[n].msg, verdict)
          /\ rx' = [rx EXCEPT ![n] =
                       IF verdict = "apply" THEN [@ EXCEPT !.pc = "put"]
                                            ELSE Idle]
    /\ UNCHANGED <<store, known, peers, banned, created, app, gossip, casts,
                   net, restarts>>

RxPut(n) ==
    /\ rx[n].pc = "put"
    /\ Put(n, rx[n].msg)
    /\ rx' = [rx EXCEPT ![n].pc = "relay"]
    /\ UNCHANGED <<known, objects, peers, banned, created, app, gossip, casts,
                   net, restarts, unpaid>>

\* The error ends the handler before the relay.  The objects keep the message,
\* which is taken again when it comes again, unless the insert is there.
RxPutFails(n) ==
    /\ rx[n].pc = "put"
    /\ \E inserted \in BOOLEAN :
          /\ PutFails(n, rx[n].msg, inserted)
          /\ IF inserted THEN UNCHANGED unpaid ELSE Unpaid(n, rx[n].msg)
    /\ rx' = [rx EXCEPT ![n] = Idle]
    /\ UNCHANGED <<known, objects, peers, banned, created, app, gossip, casts,
                   net, restarts>>

RxRelay(n) ==
    /\ rx[n].pc = "relay"
    /\ net' = net \cup Broadcast(n, rx[n].msg)
    /\ rx' = [rx EXCEPT ![n] = Idle]
    /\ UNCHANGED <<store, known, objects, peers, banned, created, app, gossip,
                   casts, restarts, unpaid>>

-----------------------------------------------------------------------------
(* The gossip loop *)

\* Local discovery fills in the registered nodes that are neither this one
\* nor banned; then the pass works on a snapshot of known_hashes.
GossipBegin(n) ==
    /\ gossip[n].pc = "sleep"
    /\ peers' = IF n \in LocalNodes
                THEN [peers EXCEPT ![n] = @ \cup (LocalNodes \ ({n} \cup banned[n]))]
                ELSE peers
    /\ gossip' = [gossip EXCEPT ![n] = [pc |-> "send", todo |-> known[n]]]
    /\ UNCHANGED <<store, known, objects, banned, created, app, rx, casts, net,
                   restarts, unpaid>>

\* A hash that storage.get does not find is skipped.  One that it fails to get
\* is skipped too, which the loss of its datagrams covers.
GossipSend(n, m) ==
    /\ gossip[n].pc = "send" /\ m \in gossip[n].todo
    /\ gossip' = [gossip EXCEPT ![n].todo = @ \ {m}]
    /\ net' = IF m \in storage[n] THEN net \cup Broadcast(n, m) ELSE net
    /\ UNCHANGED <<store, known, objects, peers, banned, created, app, rx, casts,
                   restarts, unpaid>>

\* The digest request goes to the first peer of the map's iteration order,
\* whichever that is, banned or not.
GossipEnd(n) ==
    /\ gossip[n].pc = "send" /\ gossip[n].todo = {}
    /\ gossip' = [gossip EXCEPT ![n] = Asleep]
    /\ \/ peers[n] = {} /\ UNCHANGED net
       \/ \E p \in peers[n] :
             net' = SendControl(net, "REQUEST_DIGEST", n, p)
    /\ UNCHANGED <<store, known, objects, peers, banned, created, app, rx, casts,
                   restarts, unpaid>>

-----------------------------------------------------------------------------
(* The environment *)

Lose(d) ==
    /\ d \in net
    /\ net' = net \ {d}
    /\ UNCHANGED <<local, peers, banned, created, restarts>>

\* The process of n dies at any point and a new node is started on the same
\* storage: the flushed hashes, some of the others, the saved peers and the
\* saved bans are there, the application objects and known_hashes start empty.
Restart(n) ==
    /\ restarts[n] < MaxRestarts
    /\ restarts' = [restarts EXCEPT ![n] = @ + 1]
    /\ \E lost \in SUBSET unflushed[n] :
          storage' = [storage EXCEPT ![n] = @ \ lost]
    /\ unflushed' = [unflushed EXCEPT ![n] = {}]
    /\ known' = [known EXCEPT ![n] = {}]
    /\ applied' = [applied EXCEPT ![n] = [m \in Messages |-> 0]]
    /\ unpaid' = [unpaid EXCEPT ![n] = [m \in Messages |-> 0]]
    /\ peers' = [peers EXCEPT ![n] = Bootstrap[n]]
    /\ app' = [app EXCEPT ![n] = Idle]
    /\ rx' = [rx EXCEPT ![n] = Idle]
    /\ gossip' = [gossip EXCEPT ![n] = Asleep]
    /\ casts' = [casts EXCEPT ![n] = {}]
    /\ UNCHANGED <<failures, passed, banned, created, net>>

-----------------------------------------------------------------------------

AppStep(n) ==
    \/ \E m \in Messages : CreateSharedMessage(n, m)
                             \/ CreateSharedMessageWithData(n, m)
    \/ AppPipeline(n) \/ AppPut(n) \/ AppPutFails(n) \/ AppTrack(n)
    \/ \E p \in Nodes : BanPeer(n, p) \/ UnbanPeer(n, p)

RxStep(n) ==
    \/ \E d \in net : RxBanned(n, d) \/ RxControl(n, d) \/ RxTake(n, d)
    \/ RxDedup(n) \/ RxExistsFails(n) \/ RxPipeline(n) \/ RxPut(n)
    \/ RxPutFails(n) \/ RxRelay(n)

GossipStep(n) ==
    \/ GossipBegin(n)
    \/ \E m \in Messages : GossipSend(n, m)
    \/ GossipEnd(n)

Next ==
    \/ \E n \in Nodes :
          \/ AppStep(n) \/ RxStep(n) \/ GossipStep(n) \/ Restart(n)
          \/ \E m \in Messages : SpawnedBroadcast(n, m)
    \/ \E d \in net : Lose(d)

Spec == Init /\ [][Next]_vars

\* The tokio runtime polls every runnable task; the network is fair-lossy: a
\* datagram sent again and again gets through.
Fairness ==
    \A n \in Nodes :
       /\ WF_vars(AppPipeline(n) \/ AppPut(n) \/ AppTrack(n))
       /\ WF_vars(RxDedup(n) \/ RxPipeline(n) \/ RxPut(n) \/ RxRelay(n))
       /\ WF_vars(GossipBegin(n)) /\ WF_vars(GossipEnd(n))
       /\ \A m \in Messages :
             /\ WF_vars(SpawnedBroadcast(n, m))
             /\ WF_vars(GossipSend(n, m))
             /\ \A p \in Nodes :
                   SF_vars(RxTake(n, [type |-> "GOSSIP", src |-> p, dst |-> n,
                                      msg |-> m]))

FairSpec == Spec /\ Fairness

-----------------------------------------------------------------------------
(* Properties *)

\* Every variable has its type.
TypeOK ==
    /\ storage \in [Nodes -> SUBSET Messages]
    /\ unflushed \in [Nodes -> SUBSET Messages]
    /\ known \in [Nodes -> SUBSET Messages]
    /\ applied \in [Nodes -> [Messages -> Nat]]
    /\ peers \in [Nodes -> SUBSET Nodes]
    /\ banned \in [Nodes -> SUBSET Nodes]
    /\ created \in [Messages -> Created]
    /\ app \in [Nodes -> AppState]
    /\ rx \in [Nodes -> RxState]
    /\ gossip \in [Nodes -> GossipState]
    /\ casts \in [Nodes -> SUBSET Messages]
    /\ net \in SUBSET Datagram
    /\ restarts \in [Nodes -> Nat]
    /\ failures \in [Nodes -> Nat]
    /\ passed \in [Nodes -> SUBSET Messages]
    /\ unpaid \in [Nodes -> [Messages -> Nat]]

\* Between two starts of a node its objects take a message a second time only
\* after an error: each run of the pipeline beyond the first follows a run that
\* failed half way, or whose storage.put left the message out.  So it is however
\* often the network delivers the message and however the create call, the
\* receive loop and the gossip loop interleave (storage.exists is read long
\* before storage.put).
RepeatsFollowErrors ==
    \A n \in Nodes, m \in Messages : applied[n][m] <= unpaid[n][m] + 1

\* SPECS.md: "For both local and inbound gossip messages: Run validation + apply
\* pipeline first. Persist and broadcast only if pipeline succeeds."
EveryStoredWentThroughPipeline ==
    \A n \in Nodes : storage[n] \subseteq passed[n]

\* The same, where the code keeps it: what a node stores went through its whole
\* pipeline, before or after a restart, unless its own application created it
\* by create_shared_message, which runs no pipeline.
StoredWentThroughPipeline ==
    \A n \in Nodes : \A m \in storage[n] :
        m \in passed[n] \/ created[m] = [node |-> n, api |-> "string"]

\* A message on the wire is durable at its sender and at its origin: both put
\* it before they broadcast it, and a put that returns an error is followed by
\* no broadcast, so that a crash never leaves a relayed message unknown to the
\* node that relayed it.
WireIsDurable ==
    \A d \in net : d.type = "GOSSIP" =>
        /\ d.msg \in Durable(d.src)
        /\ created[d.msg] # Unborn
        /\ d.msg \in Durable(created[d.msg].node)

\* The gossip loop and the spawned broadcasts only ever hold hashes that are
\* durable, so that storage.get finds them: a crash loses no hash that peers may
\* have heard of.
PendingIsStored ==
    \A n \in Nodes :
        known[n] \cup casts[n] \cup gossip[n].todo \subseteq Durable(n)

-----------------------------------------------------------------------------
(* The inductive invariant that the safety properties above follow from *)

\* A stored message was created, and is durable at its creator if it is stored
\* anywhere else.
StoredAtCreator ==
    \A n \in Nodes : \A m \in storage[n] :
        /\ created[m] # Unborn
        /\ n = created[m].node \/ m \in Durable(created[m].node)

\* What the receive loop handles is durable at its creator; between the check
\* of storage.exists and the put the hash stays absent from this storage, and
\* the put follows a completed pipeline.
RxHolds(n, m) ==
    /\ created[m] # Unborn /\ m \in Durable(created[m].node)
    /\ rx[n].pc \in {"pipeline", "put"} => m \notin storage[n]
    /\ rx[n].pc = "put" => m \in passed[n]
    /\ rx[n].pc = "relay" => m \in Durable(n)

RxInv == \A n \in Nodes : rx[n].pc # "idle" => RxHolds(n, rx[n].msg)

\* A create call works on a message of its own node, that no storage holds
\* before the call's own put.
AppHolds(n, m) ==
    /\ created[m] # Unborn /\ created[m].node = n
    /\ app[n].pc = "pipeline" => created[m].api = "data"
    /\ app[n].pc \in {"pipeline", "put"} => \A k \in Nodes : m \notin storage[k]
    /\ app[n].pc = "put" /\ created[m].api = "data" => m \in passed[n]
    /\ created[m].api = "data" => app[n].pc # "track"
    /\ app[n].pc = "track" => m \in Durable(n)

AppInv == \A n \in Nodes : app[n].pc # "idle" => AppHolds(n, app[n].msg)

\* A completed pipeline is followed by a put: a message that was taken once
\* more than errors account for is stored, or the task that ran the pipeline is
\* about to store it.
AppliedAccounted ==
    \A n \in Nodes, m \in Messages :
        applied[n][m] > unpaid[n][m] =>
            \/ m \in storage[n]
            \/ rx[n].pc = "put" /\ rx[n].msg = m
            \/ app[n].pc = "put" /\ app[n].msg = m /\ created[m].api = "data"

\* The safety properties and what they need to be preserved by every step.
IInv ==
    /\ TypeOK
    /\ StoredAtCreator
    /\ RxInv
    /\ AppInv
    /\ WireIsDurable
    /\ PendingIsStored
    /\ AppliedAccounted
    /\ RepeatsFollowErrors
    /\ StoredWentThroughPipeline

-----------------------------------------------------------------------------

\* The gossip layer implements Dissemination: whatever the tasks, restarts,
\* failing puts and losses do, a message is first durable at the node that
\* created it, once, and only then at others; what is durable is never dropped.
holders == [m \in Messages |-> {n \in Nodes : m \in Durable(n)}]

author ==
    [m \in Messages |-> IF holders[m] = {} THEN NoNode ELSE created[m].node]

D == INSTANCE Dissemination

ImplementsDissemination == D!Spec

Barred(n, p) == p \in banned[n] \/ n \in banned[p]

\* A message that an application created as a string reaches every peer of its
\* node whose objects take all messages, however often the network loses it and
\* a put fails: known_hashes keeps it in every pass of the gossip loop.  Only a
\* restart of the node, which forgets known_hashes and the peers it learned, or
\* a ban between the two that holds or comes back for ever may keep it from it.
KnownReachesPeers ==
    \A n, p \in Nodes, m \in Messages :
        n # p /\ Verdicts[p][m] = {"apply"} /\ <>[]~Barred(n, p) =>
            ((m \in known[n] /\ p \in peers[n]) ~>
                (m \in storage[p] \/ m \notin known[n] \/ p \notin peers[n]))

=============================================================================
