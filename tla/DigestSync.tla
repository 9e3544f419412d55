----------------------------- MODULE DigestSync -----------------------------
(***************************************************************************)
(* Digest synchronisation between ChaincraftNodes (src/node.rs,            *)
(* handle_digest_sync_control) that carry a MerkelizedChain                *)
(* (src/shared_object.rs): every gossip interval a node asks its first     *)
(* peer for the digest of its chain; on a different answer it asks for the *)
(* messages since its own digest and puts each of them through the         *)
(* pipeline, storage, known_hashes and a broadcast.                        *)
(*                                                                         *)
(* A chain entry is the SHA-256 of the entry before it.  Hashes do not     *)
(* collide, so an entry is named by its distance from the genesis hash.    *)
(*                                                                         *)
(* SharedMessage::new gives every message a fresh id, so that two messages *)
(* with the same chain entry have different message hashes.  A message of  *)
(* this module stands for all messages with one entry that one node made   *)
(* between two restarts of any node; that storage has one of them does not *)
(* mean it has the one that arrived.                                       *)
(*                                                                         *)
(* Broadcasts are lost, late and repeated at will: a message that a node   *)
(* broadcast may reach any peer at any time from then on, or never         *)
(* (NodeGossip has the datagrams, known_hashes and the gossip loop).       *)
(*                                                                         *)
(* SledStorage::put inserts and flushes, and may fail before or after the  *)
(* insertion; the pipeline ran by then and is not undone.  The local path  *)
(* and the gossip path give up on an error before the broadcast; the sync  *)
(* path drops the error (src/node.rs:889) and goes on.  What a crash takes *)
(* of an insertion that was not flushed is in NodeGossip.                  *)
(*                                                                         *)
(* The receive loop is the only task that handles datagrams of a node; what*)
(* an action does between two awaits of the handler differs from the whole *)
(* only by crashes, which lose the chain and the part of the handler left. *)
(***************************************************************************)
EXTENDS Naturals, Sequences, FiniteSets

CONSTANTS
    Nodes,        \* nodes, each identified with its socket address
    Peers,        \* [Nodes -> SUBSET Nodes]: the peers map, which is mutual
    Creators,     \* nodes whose application extends the chain
    MaxHash,      \* bound: the last chain entry that is ever created
    MaxRestarts,  \* bound: restarts of all nodes together
    MaxControl,   \* bound: control datagrams in flight
    MaxFaults     \* bound: control datagrams lost or repeated, storage errors

ASSUME PeersAssumption ==
    /\ Peers \in [Nodes -> SUBSET Nodes]
    /\ \A n \in Nodes : Peers[n] # {} /\ \A p \in Peers[n] : n \in Peers[p]
ASSUME CreatorsAssumption == Creators \subseteq Nodes
ASSUME BoundsAssumption ==
    {MaxHash, MaxRestarts, MaxControl, MaxFaults} \subseteq Nat

VARIABLES
    chain,    \* chain[n]: MerkelizedChain::chain of n's object
    storage,  \* storage[n]: messages in n's storage
    aired,    \* aired[n]: messages that n broadcast
    rx,       \* rx[n]: messages of the MESSAGES_RESPONSE that n is handling
    gap,      \* history: nodes that skipped one of these on a storage error
    first,    \* first[n]: the first peer in the iteration order of n's map
    net,      \* control datagrams the network may still deliver
    life,     \* history: restarts of all nodes so far
    born,     \* history: born[n] is the value of life at n's last start
    faults    \* history: datagrams lost or repeated, storage errors, so far

object == <<chain, storage, aired>>
answer == <<rx, gap>>
vars == <<chain, storage, aired, rx, gap, first, net, life, born, faults>>

Genesis == 0
Hash == Nat

NextHash(h) == h + 1

Message == [hash : Hash, by : Nodes, life : Nat]

Control ==
    [type : {"REQUEST_DIGEST"}, src : Nodes, dst : Nodes]
      \cup [type : {"DIGEST_RESPONSE", "REQUEST_MESSAGES_SINCE"}, src : Nodes,
            dst : Nodes, digest : Hash]
      \cup [type : {"MESSAGES_RESPONSE"}, src : Nodes, dst : Nodes,
            messages : Seq(Message)]

Init ==
    /\ chain = [n \in Nodes |-> <<Genesis>>]
    /\ storage = [n \in Nodes |-> {}]
    /\ aired = [n \in Nodes |-> {}]
    /\ rx = [n \in Nodes |-> <<>>] /\ gap = {}
    /\ first \in {f \in [Nodes -> Nodes] : \A n \in Nodes : f[n] \in Peers[n]}
    /\ net = {}
    /\ life = 0 /\ born = [n \in Nodes |-> 0] /\ faults = 0

-----------------------------------------------------------------------------
(* MerkelizedChain *)

HasDigest(n, h) == \E i \in DOMAIN chain[n] : chain[n][i] = h

LatestDigest(n) == chain[n][Len(chain[n])]

\* is_valid: the entry is there, or follows from any entry.
IsValid(n, h) ==
    \/ HasDigest(n, h)
    \/ \E i \in DOMAIN chain[n] : h = NextHash(chain[n][i])

\* Mutant of AddMessage: the check for duplicates is left out.
AddAgain(n, h) == chain' = [chain EXCEPT ![n] = Append(@, h)]

\* add_message of an entry that is_valid let through: duplicates are skipped.
AddMessage(n, h) ==
    chain' = IF HasDigest(n, h) THEN chain
             ELSE [chain EXCEPT ![n] = Append(@, h)]

\* Mutant of Since: one entry too few.
SinceSkips(n, h) ==
    IF HasDigest(n, h)
    THEN LET i == CHOOSE i \in DOMAIN chain[n] : chain[n][i] = h
         IN  SubSeq(chain[n], i + 2, Len(chain[n]))
    ELSE <<>>

\* get_messages_since_digest: the entries after h, none when h is unknown.
Since(n, h) ==
    IF HasDigest(n, h)
    THEN LET i == CHOOSE i \in DOMAIN chain[n] : chain[n][i] = h
         IN  SubSeq(chain[n], i + 1, Len(chain[n]))
    ELSE <<>>

\* Mutant of NewMessage: a message is named by its entry and its maker alone.
NewMessageSameId(n, h) == [hash |-> h, by |-> n, life |-> 0]

\* SharedMessage::new
NewMessage(n, h) == [hash |-> h, by |-> n, life |-> life]

-----------------------------------------------------------------------------
(* Storage *)

\* storage.put
Put(n, m) ==
    /\ storage' = [storage EXCEPT ![n] = @ \cup {m}]
    /\ UNCHANGED faults

\* storage.put returns an error, before or after the insertion.
PutFails(n, m) ==
    /\ faults < MaxFaults
    /\ storage' \in {storage, [storage EXCEPT ![n] = @ \cup {m}]}
    /\ faults' = faults + 1

-----------------------------------------------------------------------------
(* Sending *)

\* broadcast_bytes
Broadcast(n, m) == aired' = [aired EXCEPT ![n] = @ \cup {m}]

\* Bound: MaxControl datagrams are in flight, one of a type from one node to
\* another; one more is lost.
Sent(flight, d) ==
    IF \/ Cardinality(flight) >= MaxControl
       \/ \E e \in flight : e.type = d.type /\ e.src = d.src /\ e.dst = d.dst
    THEN flight ELSE flight \cup {d}

-----------------------------------------------------------------------------
(* The application task and the gossip loop *)

\* Mutant of Accept: a message that an object rejects is stored all the same.
AcceptRejected(n, m) ==
    /\ IF IsValid(n, m.hash) THEN AddMessage(n, m.hash) ELSE UNCHANGED chain
    /\ \/ Put(n, m) /\ Broadcast(n, m)
       \/ PutFails(n, m) /\ UNCHANGED aired

\* process_message, put, broadcast; an error of put ends the call before the
\* broadcast.
Accept(n, m) ==
    /\ IsValid(n, m.hash)
    /\ AddMessage(n, m.hash)
    /\ \/ Put(n, m) /\ Broadcast(n, m)
       \/ PutFails(n, m) /\ UNCHANGED aired

\* create_shared_message_with_data with an entry as its data.
Create(n, h) ==
    /\ n \in Creators
    /\ Accept(n, NewMessage(n, h))
    /\ UNCHANGED <<answer, first, net, life, born>>

\* The gossip loop: the first peer is asked for its digest.
RequestDigest(n) ==
    /\ net' = Sent(net, [type |-> "REQUEST_DIGEST", src |-> n, dst |-> first[n]])
    /\ UNCHANGED <<object, answer, first, life, born, faults>>

-----------------------------------------------------------------------------
(* The receive loop *)

\* A control datagram is taken from the network; a copy of it may come again.
Arrives(n, d, left) ==
    /\ rx[n] = <<>>
    /\ d \in net /\ d.dst = n
    /\ \/ left = net \ {d} /\ UNCHANGED faults
       \/ left = net /\ faults < MaxFaults /\ faults' = faults + 1

HandleRequestDigest(n, d, left) ==
    /\ d.type = "REQUEST_DIGEST" /\ Arrives(n, d, left)
    /\ net' = Sent(left, [type |-> "DIGEST_RESPONSE", src |-> n, dst |-> d.src,
                          digest |-> LatestDigest(n)])
    /\ UNCHANGED <<object, answer, first, life, born>>

\* Mutant of HandleDigestResponse: it asks for what follows the peer's digest.
AskSinceTheirs(n, d, left) ==
    /\ d.type = "DIGEST_RESPONSE" /\ Arrives(n, d, left)
    /\ net' = IF d.digest = LatestDigest(n) THEN left
              ELSE Sent(left, [type |-> "REQUEST_MESSAGES_SINCE", src |-> n,
                               dst |-> d.src, digest |-> d.digest])
    /\ UNCHANGED <<object, answer, first, life, born>>

\* Nothing is asked for when the digests are the same.
HandleDigestResponse(n, d, left) ==
    /\ d.type = "DIGEST_RESPONSE" /\ Arrives(n, d, left)
    /\ net' = IF d.digest = LatestDigest(n) THEN left
              ELSE Sent(left, [type |-> "REQUEST_MESSAGES_SINCE", src |-> n,
                               dst |-> d.src, digest |-> LatestDigest(n)])
    /\ UNCHANGED <<object, answer, first, life, born>>

\* Each entry goes into a new message.
HandleRequestSince(n, d, left) ==
    LET since == Since(n, d.digest)
    IN  /\ d.type = "REQUEST_MESSAGES_SINCE" /\ Arrives(n, d, left)
        /\ net' = Sent(left, [type |-> "MESSAGES_RESPONSE", src |-> n, dst |-> d.src,
                              messages |-> [i \in 1..Len(since) |->
                                                NewMessage(n, since[i])]])
        /\ UNCHANGED <<object, answer, first, life, born>>

HandleMessagesResponse(n, d, left) ==
    /\ d.type = "MESSAGES_RESPONSE" /\ Arrives(n, d, left)
    /\ rx' = [rx EXCEPT ![n] = d.messages]
    /\ gap' = gap \ {n}
    /\ net' = left
    /\ UNCHANGED <<object, first, life, born>>

\* Already stored, or rejected by process_message.
Skipped(n, m) == m \in storage[n] \/ ~IsValid(n, m.hash)

\* The next message of a MESSAGES_RESPONSE is not stored, is accepted by
\* process_message, put and broadcast, whatever put returns.
AcceptReplayed(n) ==
    LET m == Head(rx[n])
    IN  /\ rx[n] # <<>> /\ m \notin storage[n]
        /\ IsValid(n, m.hash)
        /\ AddMessage(n, m.hash)
        /\ Put(n, m) \/ PutFails(n, m)
        /\ Broadcast(n, m)
        /\ rx' = [rx EXCEPT ![n] = Tail(@)]
        /\ UNCHANGED <<gap, first, net, life, born>>

SkipReplayed(n) ==
    /\ rx[n] # <<>>
    /\ Skipped(n, Head(rx[n]))
    /\ rx' = [rx EXCEPT ![n] = Tail(@)]
    /\ UNCHANGED <<object, gap, first, net, life, born, faults>>

\* storage.exists returns an error, which counts as stored.
ExistsFails(n) ==
    /\ rx[n] # <<>>
    /\ faults < MaxFaults /\ faults' = faults + 1
    /\ rx' = [rx EXCEPT ![n] = Tail(@)]
    /\ gap' = gap \cup {n}
    /\ UNCHANGED <<object, first, net, life, born>>

\* A message that a peer broadcast arrives.  One that is skipped changes nothing.
HandleGossip(n, m) ==
    /\ rx[n] = <<>>
    /\ \E p \in Nodes : n \in Peers[p] /\ m \in aired[p]
    /\ m \notin storage[n]
    /\ Accept(n, m)
    /\ UNCHANGED <<answer, first, net, life, born>>

-----------------------------------------------------------------------------
(* Losses, repeats and restarts *)

Lose(d) ==
    /\ faults < MaxFaults
    /\ net' = net \ {d}
    /\ faults' = faults + 1
    /\ UNCHANGED <<object, answer, first, life, born>>

\* A crash, then start over the same storage with new objects.  The order of
\* the peers map is drawn anew.
Restart(n, p) ==
    /\ life < MaxRestarts
    /\ p \in Peers[n]
    /\ chain' = [chain EXCEPT ![n] = <<Genesis>>]
    /\ rx' = [rx EXCEPT ![n] = <<>>] /\ gap' = gap \ {n}
    /\ first' = [first EXCEPT ![n] = p]
    /\ life' = life + 1
    /\ born' = [born EXCEPT ![n] = life + 1]
    /\ UNCHANGED <<storage, aired, net, faults>>

-----------------------------------------------------------------------------

Handle(n, d, left) ==
    \/ HandleRequestDigest(n, d, left) \/ HandleDigestResponse(n, d, left)
    \/ HandleRequestSince(n, d, left) \/ HandleMessagesResponse(n, d, left)

NodeStep(n) ==
    \/ \E h \in 1..MaxHash : Create(n, h)
    \/ RequestDigest(n)
    \/ AcceptReplayed(n) \/ SkipReplayed(n) \/ ExistsFails(n)
    \/ \E m \in UNION {aired[p] : p \in Nodes} : HandleGossip(n, m)
    \/ \E d \in net : \E left \in {net, net \ {d}} : Handle(n, d, left)

Next ==
    \/ \E n \in Nodes : NodeStep(n)
    \/ \E d \in net : Lose(d)
    \/ \E n \in Nodes, p \in Nodes : Restart(n, p)

Spec == Init /\ [][Next]_vars

ControlTypes == {"REQUEST_DIGEST", "DIGEST_RESPONSE", "REQUEST_MESSAGES_SINCE",
                 "MESSAGES_RESPONSE"}

\* The gossip loop goes round, and its request is sent when the bound on
\* datagrams in flight leaves room for it now and then; the receive loop takes
\* every datagram that waits in the socket, whatever else arrives.
Fairness ==
    \A n \in Nodes :
        /\ SF_vars(RequestDigest(n))
        /\ WF_vars(AcceptReplayed(n) \/ SkipReplayed(n))
        /\ \A type \in ControlTypes :
              SF_vars(\E d \in net : d.type = type /\ Handle(n, d, net \ {d}))

FairSpec == Spec /\ Fairness

-----------------------------------------------------------------------------
(* Properties *)

\* Every variable has its type.
TypeOK ==
    /\ chain \in [Nodes -> Seq(Hash)]
    /\ storage \in [Nodes -> SUBSET Message]
    /\ aired \in [Nodes -> SUBSET Message]
    /\ rx \in [Nodes -> Seq(Message)] /\ gap \subseteq Nodes
    /\ first \in [Nodes -> Nodes]
    /\ net \subseteq Control
    /\ life \in Nat /\ born \in [Nodes -> Nat] /\ faults \in Nat

\* try_add_hash takes an entry that follows from ANY entry, the hash set alone
\* keeps it from forking or repeating: a chain is the genesis hash followed by
\* its successors, so that two chains are prefixes of each other and equal tips
\* mean equal chains.
OneChain ==
    \A n \in Nodes :
        /\ Len(chain[n]) > 0
        /\ \A i \in DOMAIN chain[n] : chain[n][i] = i - 1

\* Pipeline first, then storage: a stored message that was made since the node
\* started is in its chain, on the gossip path, the sync path and the local one.
\* A message that came too early is not stored, so that storage does not keep
\* it out when it comes again.
StoredIsInChain ==
    \A n \in Nodes : \A m \in storage[n] :
        m.life >= born[n] => HasDigest(n, m.hash)

\* The messages have entries in a row, the first of which is in n's chain or
\* next to come.
Joins(n, messages) ==
    \A i \in DOMAIN messages :
        /\ messages[i].hash = messages[1].hash + i - 1
        /\ messages[1].hash <= Len(chain[n])

\* The digest a node asked with is still in its chain when the answer comes,
\* however far gossip and its own application took it since: an answer to a node
\* that did not restart joins onto its chain, and no message of it is rejected
\* unless storage.exists failed on one before it.
AnswersJoin ==
    \A n \in Nodes : born[n] = 0 =>
        /\ n \notin gap => Joins(n, rx[n])
        /\ \A d \in net : d.type = "MESSAGES_RESPONSE" /\ d.dst = n =>
              Joins(n, d.messages)

\* A restart makes all messages old: none is from a life to come.
Dated ==
    /\ \A n \in Nodes : \A m \in storage[n] \cup aired[n] : m.life <= life
    /\ \A n \in Nodes : \A i \in DOMAIN rx[n] : rx[n][i].life <= life
    /\ \A d \in net : d.type = "MESSAGES_RESPONSE" =>
          \A i \in DOMAIN d.messages : d.messages[i].life <= life

\* A node that did not restart still has the digest it asked with, whatever came
\* between its question and the answer.
AskedInChain ==
    \A d \in net : d.type = "REQUEST_MESSAGES_SINCE" /\ born[d.src] = 0 =>
        d.digest < Len(chain[d.src])

\* Everything above at once, which every step keeps: types, chains, what storage
\* holds of them, questions and answers.
IInv ==
    TypeOK /\ OneChain /\ StoredIsInChain /\ AnswersJoin /\ Dated /\ AskedInChain

\* A node behind its first peer gets there although all gossip may be lost and
\* its storage may hold the very entries from before a restart, unless the peer
\* itself restarts behind that point or another peer becomes the first.
CatchesUp ==
    \A n \in Nodes : \A p \in Peers[n] : \A h \in 1..MaxHash :
        (first[n] = p /\ HasDigest(p, h)) ~>
            (HasDigest(n, h) \/ first[n] # p \/ ~HasDigest(p, h))
=============================================================================
