------------------------------ MODULE PeerAdmin ------------------------------
(***************************************************************************)
(* The peer list and the ban list of one ChaincraftNode (src/node.rs): the *)
(* peers map and the banned_peers set in memory, the JSON lists saved in   *)
(* storage under PEERS and BANNED_PEERS, and the tasks that change them:   *)
(*   - callers inside add_peer, connect_to_peer, remove_peer, ban_peer and *)
(*     unban_peer, which change the memory and then save the whole list;   *)
(*   - the receive loop and the gossip loop, which record addresses they   *)
(*     hear of and save nothing;                                           *)
(*   - a crash at any point, and the next start, which loads both lists.   *)
(*                                                                         *)
(* A save takes the read guard of the list, serialises the list, and keeps *)
(* the guard across storage.put: writers of the list wait, other saves and *)
(* readers do not.                                                         *)
(***************************************************************************)
EXTENDS Naturals, FiniteSets

CONSTANTS
    Callers,       \* tasks that call the node's administration
    Addrs,         \* socket addresses
    CallerIds,     \* peer ids that callers add and remove
    RxIds,         \* peer ids the receive loop makes up
    LocalIds,      \* ids of registered local nodes; {} without local_discovery
    Address,       \* Address[i]: the address in the PeerInfo of id i
    PersistPeers,  \* config.persist_peers
    Durations,     \* durations that ban_peer is called with
    Decade,        \* the expiry that save_banned_peers writes, from now
    None,          \* not an address
    MaxClock       \* bound: the time at which the clock stops

Ids == CallerIds \cup RxIds \cup LocalIds

ASSUME AddressAssumption == \A i \in Ids : Address[i] \in Addrs
ASSUME PersistAssumption == PersistPeers \in BOOLEAN
ASSUME ClockAssumption == /\ Decade \in Nat /\ MaxClock \in Nat
                          /\ Durations \subseteq Nat
ASSUME NoneAssumption == None \notin Addrs

VARIABLES
    peers,      \* ids in the peers map
    banned,     \* addresses in banned_peers
    call,       \* call[c]: the call that caller c is inside
    rx,         \* the address whose datagram passed the ban check, or None
    gossip,     \* local discovery: whether it is at work, and its copy of bans
    diskPeers,  \* ids in the stored PEERS list
    diskBans,   \* the stored BANNED_PEERS list and its expiry
    now,        \* the clock
    openPeers,  \* history: ids changed since a call about them returned Ok
    openBans,   \* history: addresses changed since a call returned Ok
    asked       \* history: until when ban_peer was asked to ban an address

admin == <<call, openPeers, openBans, asked>>
vars == <<peers, banned, call, rx, gossip, diskPeers, diskBans, now, openPeers,
          openBans, asked>>

Idle == [op |-> "none", arg |-> None, pc |-> "idle", snap |-> {}]

Resting == [active |-> FALSE, bans |-> {}]

PeerOps == {"add", "remove"}
BanOps == {"ban", "unban"}

PeerCall ==
    [op : PeerOps, arg : CallerIds, pc : {"check", "change", "save", "write"},
     snap : SUBSET Ids]

BanCall ==
    [op : BanOps, arg : Addrs, pc : {"save", "write"}, snap : SUBSET Addrs]

CallState == {Idle} \cup PeerCall \cup BanCall

Init ==
    /\ peers = {} /\ banned = {}
    /\ call = [c \in Callers |-> Idle]
    /\ rx = None /\ gossip = Resting
    /\ diskPeers = {}
    /\ diskBans = [addrs |-> {}, until |-> 0]
    /\ now = 0
    /\ openPeers = {} /\ openBans = {}
    /\ asked = [a \in Addrs |-> 0]

-----------------------------------------------------------------------------
(* Locks *)

\* The write lock of a list is free when no save holds its read guard; every
\* other holder gives its guard back before the next await.
PeersWritable ==
    \A c \in Callers : call[c].op \in PeerOps => call[c].pc # "write"

BansWritable ==
    \A c \in Callers : call[c].op \in BanOps => call[c].pc # "write"

\* connect_to_peer takes the node by &mut: no other call is in progress.
NoConnect == \A c \in Callers : call[c].pc # "check"

CanCall(c) == call[c] = Idle /\ NoConnect

Enter(c, op, arg, pc) ==
    call' = [call EXCEPT ![c] = [op |-> op, arg |-> arg, pc |-> pc, snap |-> {}]]

-----------------------------------------------------------------------------
(* add_peer, connect_to_peer, remove_peer *)

\* A banned address is refused with PeerBanned and nothing else happens; the
\* guard of the ban set is dropped before the peers map is locked.
AddPeer(c, i) ==
    /\ CanCall(c)
    /\ Address[i] \notin banned
    /\ Enter(c, "add", i, "change")
    /\ UNCHANGED <<peers, banned, rx, gossip, diskPeers, diskBans, now, openPeers,
                   openBans, asked>>

\* connect_to_peer checks the ban set, makes a fresh id and calls add_peer,
\* which checks again.
ConnectToPeer(c, i) ==
    /\ \A k \in Callers : call[k] = Idle
    /\ i \notin peers \cup diskPeers
    /\ Address[i] \notin banned
    /\ Enter(c, "add", i, "check")
    /\ UNCHANGED <<peers, banned, rx, gossip, diskPeers, diskBans, now, openPeers,
                   openBans, asked>>

ConnectAdds(c) ==
    /\ call[c].pc = "check"
    /\ call' = [call EXCEPT ![c] =
          IF Address[call[c].arg] \in banned THEN Idle ELSE [@ EXCEPT !.pc = "change"]]
    /\ UNCHANGED <<peers, banned, rx, gossip, diskPeers, diskBans, now, openPeers,
                   openBans, asked>>

\* Mutant of InsertPeer: the map is changed without waiting for a save.
InsertUnlocked(c) ==
    /\ call[c].pc = "change"
    /\ peers' = peers \cup {call[c].arg}
    /\ openPeers' = openPeers \cup {call[c].arg}
    /\ call' = [call EXCEPT ![c] = IF PersistPeers THEN [@ EXCEPT !.pc = "save"]
                                                   ELSE Idle]
    /\ UNCHANGED <<banned, rx, gossip, diskPeers, diskBans, now, openBans, asked>>

\* Without persist_peers the call returns here.
InsertPeer(c) ==
    /\ call[c].pc = "change"
    /\ PeersWritable
    /\ peers' = peers \cup {call[c].arg}
    /\ openPeers' = openPeers \cup {call[c].arg}
    /\ call' = [call EXCEPT ![c] = IF PersistPeers THEN [@ EXCEPT !.pc = "save"]
                                                   ELSE Idle]
    /\ UNCHANGED <<banned, rx, gossip, diskPeers, diskBans, now, openBans, asked>>

RemovePeer(c, i) ==
    /\ CanCall(c)
    /\ PeersWritable
    /\ peers' = peers \ {i}
    /\ openPeers' = openPeers \cup {i}
    /\ IF PersistPeers THEN Enter(c, "remove", i, "save") ELSE UNCHANGED call
    /\ UNCHANGED <<banned, rx, gossip, diskPeers, diskBans, now, openBans, asked>>

-----------------------------------------------------------------------------
(* ban_peer and unban_peer *)

\* Mutant of BanPeer: the set is changed without waiting for a save.
BanUnlocked(c, a, duration) ==
    /\ CanCall(c)
    /\ banned' = banned \cup {a}
    /\ openBans' = openBans \cup {a}
    /\ asked' = [asked EXCEPT ![a] = now + duration]
    /\ Enter(c, "ban", a, "save")
    /\ UNCHANGED <<peers, rx, gossip, diskPeers, diskBans, now, openPeers>>

\* The duration is a parameter that no line of ban_peer reads.
BanPeer(c, a, duration) ==
    /\ CanCall(c)
    /\ BansWritable
    /\ banned' = banned \cup {a}
    /\ openBans' = openBans \cup {a}
    /\ asked' = [asked EXCEPT ![a] = now + duration]
    /\ Enter(c, "ban", a, "save")
    /\ UNCHANGED <<peers, rx, gossip, diskPeers, diskBans, now, openPeers>>

\* Mutant of UnbanPeer: the list is not saved.
UnbanForgets(c, a) ==
    /\ CanCall(c)
    /\ BansWritable
    /\ banned' = banned \ {a}
    /\ openBans' = openBans \ {a}
    /\ UNCHANGED <<peers, call, rx, gossip, diskPeers, diskBans, now, openPeers,
                   asked>>

UnbanPeer(c, a) ==
    /\ CanCall(c)
    /\ BansWritable
    /\ banned' = banned \ {a}
    /\ openBans' = openBans \cup {a}
    /\ Enter(c, "unban", a, "save")
    /\ UNCHANGED <<peers, rx, gossip, diskPeers, diskBans, now, openPeers, asked>>

-----------------------------------------------------------------------------
(* save_persisted_peers and save_banned_peers *)

\* Take the read guard and serialise the list.
Snapshot(c) ==
    /\ call[c].pc = "save"
    /\ call' = [call EXCEPT ![c] =
          [@ EXCEPT !.pc = "write",
                    !.snap = IF call[c].op \in PeerOps THEN peers ELSE banned]]
    /\ UNCHANGED <<peers, banned, rx, gossip, diskPeers, diskBans, now, openPeers,
                   openBans, asked>>

\* storage.put under the guard, then the call returns Ok and gives it back.
Write(c) ==
    /\ call[c].pc = "write"
    /\ call' = [call EXCEPT ![c] = Idle]
    /\ IF call[c].op \in PeerOps
       THEN /\ diskPeers' = call[c].snap
            /\ openPeers' = openPeers \ {call[c].arg}
            /\ UNCHANGED <<diskBans, openBans>>
       ELSE /\ diskBans' = [addrs |-> call[c].snap, until |-> now + Decade]
            /\ openBans' = openBans \ {call[c].arg}
            /\ UNCHANGED <<diskPeers, openPeers>>
    /\ UNCHANGED <<peers, banned, rx, gossip, now, asked>>

\* The put returns a StorageError: when the insert failed the old list is
\* stored, when the flush failed the new one is.  The call returns the error
\* and leaves the memory as it changed it.
WriteFails(c) ==
    /\ call[c].pc = "write"
    /\ call' = [call EXCEPT ![c] = Idle]
    /\ \/ UNCHANGED <<diskPeers, diskBans>>
       \/ /\ call[c].op \in PeerOps
          /\ diskPeers' = call[c].snap
          /\ UNCHANGED diskBans
       \/ /\ call[c].op \in BanOps
          /\ diskBans' = [addrs |-> call[c].snap, until |-> now + Decade]
          /\ UNCHANGED diskPeers
    /\ UNCHANGED <<peers, banned, rx, gossip, now, openPeers, openBans, asked>>

-----------------------------------------------------------------------------
(* The receive loop and the gossip loop *)

\* handle_incoming_datagram lets the datagram of an address pass (bound: only
\* addresses that RxIds has an id for send any) ...
RxAdmit(a) ==
    /\ rx = None
    /\ \E i \in RxIds : Address[i] = a
    /\ a \notin banned
    /\ rx' = a
    /\ UNCHANGED <<peers, banned, gossip, diskPeers, diskBans, now, admin>>

Known(a) == \E i \in peers : Address[i] = a

\* ... and later records the address under a fresh id, unless the map has it.
RxRecord ==
    /\ rx # None
    /\ PeersWritable
    /\ \/ Known(rx) /\ UNCHANGED <<peers, openPeers>>
       \/ /\ ~Known(rx)
          /\ \E i \in RxIds \ (peers \cup diskPeers) :
                /\ Address[i] = rx
                /\ peers' = peers \cup {i}
                /\ openPeers' = openPeers \cup {i}
    /\ rx' = None
    /\ UNCHANGED <<banned, call, gossip, diskPeers, diskBans, now, openBans, asked>>

\* A datagram that the handler leaves before it records the sender.
RxLeave ==
    /\ rx # None
    /\ rx' = None
    /\ UNCHANGED <<peers, banned, gossip, diskPeers, diskBans, now, admin>>

\* Local discovery copies the ban set ...
DiscoverBegin ==
    /\ LocalIds # {}
    /\ ~gossip.active
    /\ gossip' = [active |-> TRUE, bans |-> banned]
    /\ UNCHANGED <<peers, banned, rx, diskPeers, diskBans, now, admin>>

\* ... and adds the registered nodes whose address is neither in the copy nor
\* in the map.  Distinct registered nodes have distinct addresses.
DiscoverInsert ==
    LET found == {i \in LocalIds : Address[i] \notin gossip.bans /\ ~Known(Address[i])}
    IN  /\ gossip.active
        /\ PeersWritable
        /\ peers' = peers \cup found
        /\ openPeers' = openPeers \cup found
        /\ gossip' = Resting
        /\ UNCHANGED <<banned, call, rx, diskPeers, diskBans, now, openBans, asked>>

-----------------------------------------------------------------------------
(* Time, and a crash followed by start *)

Tick ==
    /\ now < MaxClock
    /\ now' = now + 1
    /\ UNCHANGED <<peers, banned, rx, gossip, diskPeers, diskBans, admin>>

\* load_persisted_peers and load_banned_peers: the saved peers become the map,
\* whatever the ban list says, and expired bans are left out.
Restart ==
    /\ peers' = IF PersistPeers THEN diskPeers ELSE {}
    /\ banned' = IF diskBans.until > now THEN diskBans.addrs ELSE {}
    /\ call' = [c \in Callers |-> Idle]
    /\ rx' = None /\ gossip' = Resting
    /\ openPeers' = {} /\ openBans' = {}
    /\ UNCHANGED <<diskPeers, diskBans, now, asked>>

-----------------------------------------------------------------------------

CallStep(c) ==
    \/ \E i \in CallerIds :
          AddPeer(c, i) \/ ConnectToPeer(c, i) \/ RemovePeer(c, i)
    \/ ConnectAdds(c) \/ InsertPeer(c)
    \/ \E a \in Addrs :
          UnbanPeer(c, a) \/ \E duration \in Durations : BanPeer(c, a, duration)
    \/ Snapshot(c) \/ Write(c) \/ WriteFails(c)

LoopStep ==
    \/ \E a \in Addrs : RxAdmit(a)
    \/ RxRecord \/ RxLeave \/ DiscoverBegin \/ DiscoverInsert

Next == (\E c \in Callers : CallStep(c)) \/ LoopStep \/ Tick \/ Restart

Spec == Init /\ [][Next]_vars

-----------------------------------------------------------------------------
(* Properties *)

\* Every variable has its type.
TypeOK ==
    /\ peers \in SUBSET Ids
    /\ banned \in SUBSET Addrs
    /\ call \in [Callers -> CallState]
    /\ rx \in Addrs \cup {None}
    /\ gossip \in [active : BOOLEAN, bans : SUBSET Addrs]
    /\ diskPeers \in SUBSET Ids
    /\ diskBans \in [addrs : SUBSET Addrs, until : Nat]
    /\ now \in Nat
    /\ openPeers \in SUBSET Ids
    /\ openBans \in SUBSET Addrs
    /\ asked \in [Addrs -> Nat]

\* What add_peer or remove_peer returned Ok for is what a crash leaves behind:
\* until the next change of an id, the stored list has it exactly when the map
\* has it, although every save writes the whole list and other calls, the
\* receive loop and local discovery change the map meanwhile.
SavedPeersAgree ==
    PersistPeers => \A i \in Ids \ openPeers : i \in peers <=> i \in diskPeers

\* The same for bans: a ban that ban_peer returned Ok for survives a crash, an
\* unban is not undone by one, and only an expired entry is left in storage.
SavedBansAgree ==
    \A a \in Addrs \ openBans :
        /\ a \in banned => a \in diskBans.addrs
        /\ a \in diskBans.addrs => a \in banned \/ diskBans.until <= now

\* A save works on the list as it is: no snapshot a guard protects is stale.
SnapshotsCurrent ==
    \A c \in Callers : call[c].pc = "write" =>
        call[c].snap = IF call[c].op \in PeerOps THEN peers ELSE banned

\* The inductive invariant: only current snapshots are written, and a write
\* makes the stored list the list in memory.
IInv == TypeOK /\ SnapshotsCurrent /\ SavedPeersAgree /\ SavedBansAgree

\* node.rs: "Ban a peer address for a duration. Persisted to storage."
BanEnds == \A a \in Addrs : now >= asked[a] => a \notin banned
=============================================================================
