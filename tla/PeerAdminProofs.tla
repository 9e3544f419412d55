--------------------------- MODULE PeerAdminProofs ---------------------------
(***************************************************************************)
(* Proofs about PeerAdmin for any number of callers, ids and addresses.    *)
(*                                                                         *)
(* The argument: the guard a save keeps across storage.put makes every     *)
(* snapshot equal to the list in memory until it is written                *)
(* (SnapshotsCurrent), so that a write replaces the stored list with the   *)
(* list in memory, whoever changed it last.  What the last change of an id *)
(* did is then stored as soon as any later save succeeds.                  *)
(***************************************************************************)
EXTENDS PeerAdmin, TLAPS

-----------------------------------------------------------------------------
(* What a call in progress looks like *)

\* A call about peers carries an id and a set of ids ...
LEMMA PeerCallFields ==
    ASSUME NEW r \in CallState, r.op \in PeerOps \/ r.pc \in {"check", "change"}
    PROVE  r \in PeerCall /\ r.arg \in Ids /\ r.snap \in SUBSET Ids
<1>1. r \in PeerCall
  BY DEF CallState, Idle, PeerCall, BanCall, PeerOps, BanOps
<1> QED
  BY <1>1 DEF PeerCall, Ids

\* ... and moving it to another program point keeps it such a call.
LEMMA PeerCallMove ==
    ASSUME NEW r \in CallState, r.op \in PeerOps \/ r.pc \in {"check", "change"},
           NEW pc \in {"check", "change", "save", "write"}
    PROVE  /\ [r EXCEPT !.pc = pc] \in CallState
           /\ [r EXCEPT !.pc = pc].pc = pc
           /\ \A s \in SUBSET Ids : [r EXCEPT !.pc = pc, !.snap = s] \in CallState
<1>1. r \in PeerCall
  BY PeerCallFields
<1>2. [r EXCEPT !.pc = pc] \in PeerCall /\ [r EXCEPT !.pc = pc].pc = pc
  BY <1>1 DEF PeerCall
<1>3. \A s \in SUBSET Ids : [r EXCEPT !.pc = pc, !.snap = s] \in PeerCall
  BY <1>1 DEF PeerCall
<1> QED
  BY <1>1, <1>2, <1>3 DEF CallState

\* The same for a call about bans.
LEMMA BanCallMove ==
    ASSUME NEW r \in CallState, r.op \notin PeerOps, r.pc \in {"save", "write"}
    PROVE  /\ r \in BanCall
           /\ \A s \in SUBSET Addrs :
                 [r EXCEPT !.pc = "write", !.snap = s] \in CallState
<1>1. r \in BanCall
  BY DEF CallState, Idle, PeerCall, BanCall, PeerOps, BanOps
<1>2. \A s \in SUBSET Addrs : [r EXCEPT !.pc = "write", !.snap = s] \in BanCall
  BY <1>1 DEF BanCall
<1> QED
  BY <1>1, <1>2 DEF CallState

\* A call that starts is a call.
LEMMA EnterType ==
    ASSUME call \in [Callers -> CallState], NEW c \in Callers, NEW op, NEW arg,
           NEW pc, Enter(c, op, arg, pc),
           \/ op \in PeerOps /\ arg \in CallerIds /\ pc \in {"check", "change", "save"}
           \/ op \in BanOps /\ arg \in Addrs /\ pc = "save"
    PROVE  call' \in [Callers -> CallState]
<1> DEFINE r == [op |-> op, arg |-> arg, pc |-> pc, snap |-> {}]
<1>1. r \in PeerCall \cup BanCall
  BY DEF PeerCall, BanCall
<1>2. r \in CallState
  BY <1>1 DEF CallState
<1> QED
  BY <1>2 DEF Enter

-----------------------------------------------------------------------------
(* Types *)

\* Every action keeps the types.
LEMMA TypeStep == TypeOK /\ [Next]_vars => TypeOK'
<1> SUFFICES ASSUME TypeOK, [Next]_vars PROVE TypeOK'
  OBVIOUS
<1> USE DEF TypeOK
<1>1. CASE UNCHANGED vars
  BY <1>1 DEF vars
<1>2. ASSUME NEW c \in Callers, NEW i \in CallerIds,
             AddPeer(c, i) \/ ConnectToPeer(c, i)
      PROVE  TypeOK'
  <2>1. Enter(c, "add", i, "change") \/ Enter(c, "add", i, "check")
    BY <1>2 DEF AddPeer, ConnectToPeer
  <2>2. call' \in [Callers -> CallState]
    BY <2>1, EnterType DEF PeerOps
  <2>3. UNCHANGED <<peers, banned, rx, gossip, diskPeers, diskBans, now, openPeers,
                    openBans, asked>>
    BY <1>2 DEF AddPeer, ConnectToPeer
  <2> QED BY <2>2, <2>3
<1>3. ASSUME NEW c \in Callers, ConnectAdds(c) PROVE TypeOK'
  <2>1. Idle \in CallState /\ [call[c] EXCEPT !.pc = "change"] \in CallState
    BY <1>3, PeerCallMove DEF ConnectAdds, CallState
  <2> QED BY <2>1, <1>3 DEF ConnectAdds
<1>4. ASSUME NEW c \in Callers, InsertPeer(c) PROVE TypeOK'
  <2>1. Idle \in CallState /\ [call[c] EXCEPT !.pc = "save"] \in CallState
    BY <1>4, PeerCallMove DEF InsertPeer, CallState
  <2>2. call[c].arg \in Ids
    BY <1>4, PeerCallFields DEF InsertPeer
  <2> QED BY <2>1, <2>2, <1>4 DEF InsertPeer
<1>5. ASSUME NEW c \in Callers, NEW i \in CallerIds, RemovePeer(c, i)
      PROVE  TypeOK'
  <2>1. call' \in [Callers -> CallState]
    BY <1>5, EnterType DEF RemovePeer, PeerOps
  <2> QED BY <2>1, <1>5 DEF RemovePeer, Ids
<1>6. ASSUME NEW c \in Callers, NEW a \in Addrs, NEW duration \in Durations,
             BanPeer(c, a, duration)
      PROVE  TypeOK'
  <2>1. call' \in [Callers -> CallState]
    BY <1>6, EnterType DEF BanPeer, BanOps
  <2> QED BY <2>1, <1>6, ClockAssumption DEF BanPeer
<1>7. ASSUME NEW c \in Callers, NEW a \in Addrs, UnbanPeer(c, a) PROVE TypeOK'
  <2>1. call' \in [Callers -> CallState]
    BY <1>7, EnterType DEF UnbanPeer, BanOps
  <2> QED BY <2>1, <1>7 DEF UnbanPeer
<1>8. ASSUME NEW c \in Callers, Snapshot(c) PROVE TypeOK'
  <2>1. CASE call[c].op \in PeerOps
    <3>1. [call[c] EXCEPT !.pc = "write", !.snap = peers] \in CallState
      BY <2>1, PeerCallMove
    <3> QED BY <3>1, <2>1, <1>8 DEF Snapshot
  <2>2. CASE call[c].op \notin PeerOps
    <3>1. [call[c] EXCEPT !.pc = "write", !.snap = banned] \in CallState
      BY <2>2, <1>8, BanCallMove DEF Snapshot
    <3> QED BY <3>1, <2>2, <1>8 DEF Snapshot
  <2> QED BY <2>1, <2>2
<1>9. ASSUME NEW c \in Callers, Write(c) \/ WriteFails(c) PROVE TypeOK'
  <2>1. call' \in [Callers -> CallState]
    <3>1. call' = [call EXCEPT ![c] = Idle] /\ Idle \in CallState
      BY <1>9 DEF Write, WriteFails, CallState
    <3> QED BY <3>1
  <2>2. CASE call[c].op \in PeerOps
    <3>1. call[c].snap \in SUBSET Ids
      BY <2>2, PeerCallFields
    <3>2. /\ diskPeers' \in {diskPeers, call[c].snap}
          /\ openPeers' \in {openPeers, openPeers \ {call[c].arg}}
          /\ UNCHANGED <<peers, banned, rx, gossip, diskBans, now, openBans, asked>>
      BY <2>2, <1>9 DEF Write, WriteFails, PeerOps, BanOps
    <3> QED BY <2>1, <3>1, <3>2
  <2>3. CASE call[c].op \notin PeerOps
    <3>1. call[c].snap \in SUBSET Addrs
      <4>1. call[c] \in CallState /\ call[c].pc = "write"
        BY <1>9 DEF Write, WriteFails
      <4>2. call[c] \in BanCall
        BY <2>3, <4>1, BanCallMove
      <4> QED BY <4>2 DEF BanCall
    <3>2. now + Decade \in Nat
      BY ClockAssumption
    <3> QED BY <2>1, <2>3, <3>1, <3>2, <1>9 DEF Write, WriteFails
  <2> QED BY <2>2, <2>3
<1>10. ASSUME NEW a \in Addrs, RxAdmit(a) PROVE TypeOK'
  BY <1>10 DEF RxAdmit, admin
<1>11. CASE RxRecord
  BY <1>11 DEF RxRecord, Ids
<1>12. CASE RxLeave
  BY <1>12 DEF RxLeave, admin
<1>13. CASE DiscoverBegin
  BY <1>13 DEF DiscoverBegin, admin
<1>14. CASE DiscoverInsert
  BY <1>14 DEF DiscoverInsert, Ids, Resting
<1>15. CASE Tick
  BY <1>15 DEF Tick, admin
<1>16. CASE Restart
  BY <1>16 DEF Restart, CallState, Resting
<1> QED
  BY <1>1, <1>2, <1>3, <1>4, <1>5, <1>6, <1>7, <1>8, <1>9, <1>10, <1>11, <1>12,
     <1>13, <1>14, <1>15, <1>16 DEF Next, CallStep, LoopStep

-----------------------------------------------------------------------------
(* Snapshots *)

\* A snapshot stays current: who changes a list finds no save holding it, and
\* whoever else moves a call to "write" has just taken the list.
LEMMA SnapshotStep ==
    TypeOK /\ SnapshotsCurrent /\ [Next]_vars => SnapshotsCurrent'
<1> SUFFICES ASSUME TypeOK, SnapshotsCurrent, [Next]_vars,
                    NEW k \in Callers, call'[k].pc = "write"
             PROVE  call'[k].snap = IF call'[k].op \in PeerOps THEN peers'
                                                               ELSE banned'
  BY DEF SnapshotsCurrent
<1> DEFINE Current == call'[k].snap = IF call'[k].op \in PeerOps THEN peers'
                                                                 ELSE banned'
<1>type. call \in [Callers -> CallState] /\ call[k] \in CallState
  BY DEF TypeOK
<1>op. call[k].pc = "write" => \/ call[k].op \in PeerOps /\ call[k].op \notin BanOps
                               \/ call[k].op \in BanOps /\ call[k].op \notin PeerOps
  BY <1>type DEF CallState, Idle, PeerCall, BanCall, PeerOps, BanOps
\* Steps that change neither list and move no call to "write".
<1>same. ASSUME call'[k] = call[k], UNCHANGED <<peers, banned>> PROVE Current
  BY <1>same DEF SnapshotsCurrent
<1>free. ASSUME call'[k] = call[k], PeersWritable, UNCHANGED banned PROVE Current
  BY <1>free, <1>op DEF SnapshotsCurrent, PeersWritable
<1>freeBan. ASSUME call'[k] = call[k], BansWritable, UNCHANGED peers PROVE Current
  BY <1>freeBan, <1>op DEF SnapshotsCurrent, BansWritable
<1>1. CASE UNCHANGED vars
  BY <1>1, <1>same DEF vars
<1>2. ASSUME NEW c \in Callers, NEW i \in CallerIds,
             AddPeer(c, i) \/ ConnectToPeer(c, i)
      PROVE  Current
  BY <1>2, <1>type, <1>same DEF AddPeer, ConnectToPeer, Enter
<1>3. ASSUME NEW c \in Callers, ConnectAdds(c) PROVE Current
  <2>1. k # c
    <3>1. call[c] \in CallState
      BY <1>type
    <3>2. [call[c] EXCEPT !.pc = "change"].pc = "change"
      BY <3>1, <1>3, PeerCallMove DEF ConnectAdds
    <3> QED BY <3>2, <1>3, <1>type DEF ConnectAdds, Idle
  <2> QED BY <2>1, <1>3, <1>type, <1>same DEF ConnectAdds
<1>4. ASSUME NEW c \in Callers, InsertPeer(c) PROVE Current
  <2>1. k # c
    <3>1. [call[c] EXCEPT !.pc = "save"].pc = "save"
      BY <1>4, <1>type, PeerCallMove DEF InsertPeer, TypeOK
    <3> QED BY <3>1, <1>4, <1>type DEF InsertPeer, Idle
  <2> QED BY <2>1, <1>4, <1>type, <1>free DEF InsertPeer
<1>5. ASSUME NEW c \in Callers, NEW i \in CallerIds, RemovePeer(c, i)
      PROVE  Current
  <2>1. call'[k] = call[k]
    BY <1>5, <1>type DEF RemovePeer, Enter
  <2> QED BY <2>1, <1>5, <1>free DEF RemovePeer
<1>6. ASSUME NEW c \in Callers, NEW a \in Addrs, NEW duration \in Durations,
             BanPeer(c, a, duration)
      PROVE  Current
  BY <1>6, <1>type, <1>freeBan DEF BanPeer, Enter
<1>7. ASSUME NEW c \in Callers, NEW a \in Addrs, UnbanPeer(c, a) PROVE Current
  BY <1>7, <1>type, <1>freeBan DEF UnbanPeer, Enter
<1>8. ASSUME NEW c \in Callers, Snapshot(c) PROVE Current
  <2>1. CASE k # c
    BY <2>1, <1>8, <1>type, <1>same DEF Snapshot
  <2>2. CASE k = c
    <3>1. call[c] \in PeerCall \cup BanCall
      BY <1>8, <1>type DEF Snapshot, CallState, Idle
    <3> DEFINE s == IF call[c].op \in PeerOps THEN peers ELSE banned
    <3>2. call'[c] = [call[c] EXCEPT !.pc = "write", !.snap = s]
      BY <1>8, <1>type DEF Snapshot
    <3>3. call'[c].snap = s /\ call'[c].op = call[c].op
      BY <3>1, <3>2 DEF PeerCall, BanCall
    <3> QED BY <2>2, <3>3, <1>8 DEF Snapshot
  <2> QED BY <2>1, <2>2
<1>9. ASSUME NEW c \in Callers, Write(c) \/ WriteFails(c) PROVE Current
  <2>1. k # c
    BY <1>9, <1>type DEF Write, WriteFails, Idle
  <2> QED BY <2>1, <1>9, <1>type, <1>same DEF Write, WriteFails
<1>10. ASSUME NEW a \in Addrs, RxAdmit(a) PROVE Current
  BY <1>10, <1>same DEF RxAdmit, admin
<1>11. CASE RxRecord
  BY <1>11, <1>free DEF RxRecord
<1>12. CASE RxLeave \/ DiscoverBegin \/ Tick
  BY <1>12, <1>same DEF RxLeave, DiscoverBegin, Tick, admin
<1>13. CASE DiscoverInsert
  BY <1>13, <1>free DEF DiscoverInsert
<1>14. CASE Restart
  BY <1>14 DEF Restart, Idle
<1> QED
  BY <1>1, <1>2, <1>3, <1>4, <1>5, <1>6, <1>7, <1>8, <1>9, <1>10, <1>11, <1>12,
     <1>13, <1>14 DEF Next, CallStep, LoopStep

-----------------------------------------------------------------------------
(* Memory and storage *)

\* Every change of a list opens what it changes, and every write stores the
\* list as it is in memory.
LEMMA AgreeStep ==
    TypeOK /\ SnapshotsCurrent /\ SavedPeersAgree /\ SavedBansAgree /\ [Next]_vars
        => SavedPeersAgree' /\ SavedBansAgree'
<1> SUFFICES ASSUME TypeOK, SnapshotsCurrent, SavedPeersAgree, SavedBansAgree,
                    [Next]_vars
             PROVE  SavedPeersAgree' /\ SavedBansAgree'
  OBVIOUS
<1> USE DEF SavedPeersAgree, SavedBansAgree
<1>1. CASE UNCHANGED vars
  BY <1>1 DEF vars
<1>2. ASSUME NEW c \in Callers, NEW i \in CallerIds,
             \/ AddPeer(c, i) \/ ConnectToPeer(c, i) \/ RemovePeer(c, i)
      PROVE  SavedPeersAgree' /\ SavedBansAgree'
  BY <1>2 DEF AddPeer, ConnectToPeer, RemovePeer
<1>3. ASSUME NEW c \in Callers, ConnectAdds(c) \/ InsertPeer(c) \/ Snapshot(c)
      PROVE  SavedPeersAgree' /\ SavedBansAgree'
  BY <1>3 DEF ConnectAdds, InsertPeer, Snapshot
<1>4. ASSUME NEW c \in Callers, NEW a \in Addrs,
             UnbanPeer(c, a) \/ \E duration \in Durations : BanPeer(c, a, duration)
      PROVE  SavedPeersAgree' /\ SavedBansAgree'
  BY <1>4 DEF UnbanPeer, BanPeer
<1>5. ASSUME NEW c \in Callers, Write(c) \/ WriteFails(c)
      PROVE  SavedPeersAgree' /\ SavedBansAgree'
  <2>1. call[c].snap = IF call[c].op \in PeerOps THEN peers ELSE banned
    BY <1>5 DEF Write, WriteFails, SnapshotsCurrent
  <2>2. PeerOps \cap BanOps = {}
    BY DEF PeerOps, BanOps
  <2>3. CASE UNCHANGED <<diskPeers, diskBans>> /\ WriteFails(c)
    BY <2>3 DEF WriteFails
  <2>4. CASE call[c].op \in PeerOps /\ diskPeers' = call[c].snap
    <3>1. UNCHANGED <<peers, banned, diskBans, openBans, now>>
      BY <2>2, <2>4, <1>5 DEF Write, WriteFails
    <3> QED BY <2>1, <2>4, <3>1
  <2>5. CASE call[c].op \notin PeerOps /\ diskBans'.addrs = call[c].snap
    <3>1. UNCHANGED <<peers, banned, diskPeers, openPeers>>
      BY <2>5, <1>5 DEF Write, WriteFails
    <3> QED BY <2>1, <2>5, <3>1
  <2>6. \/ UNCHANGED <<diskPeers, diskBans>> /\ WriteFails(c)
        \/ call[c].op \in PeerOps /\ diskPeers' = call[c].snap
        \/ call[c].op \notin PeerOps /\ diskBans'.addrs = call[c].snap
    BY <2>2, <1>5 DEF Write, WriteFails
  <2> QED BY <2>3, <2>4, <2>5, <2>6
<1>6. ASSUME NEW a \in Addrs, RxAdmit(a) PROVE SavedPeersAgree' /\ SavedBansAgree'
  BY <1>6 DEF RxAdmit, admin
<1>7. CASE RxRecord \/ DiscoverInsert
  BY <1>7 DEF RxRecord, DiscoverInsert
<1>8. CASE RxLeave \/ DiscoverBegin
  BY <1>8 DEF RxLeave, DiscoverBegin, admin
<1>9. CASE Tick
  BY <1>9 DEF Tick, admin, TypeOK
<1>10. CASE Restart
  BY <1>10, ClockAssumption DEF Restart, TypeOK
<1> QED
  BY <1>1, <1>2, <1>3, <1>4, <1>5, <1>6, <1>7, <1>8, <1>9, <1>10
     DEF Next, CallStep, LoopStep

-----------------------------------------------------------------------------

\* The inductive invariant of the peer and ban lists holds in every state.
THEOREM AdminInvariant == Spec => []IInv
<1>1. Init => IInv
  BY DEF Init, IInv, TypeOK, SnapshotsCurrent, SavedPeersAgree, SavedBansAgree,
         CallState, Idle, Resting
<1>2. IInv /\ [Next]_vars => IInv'
  BY TypeStep, SnapshotStep, AgreeStep DEF IInv
<1> QED BY <1>1, <1>2, PTL DEF Spec

\* What add_peer and remove_peer returned Ok for is in the stored list, for any
\* number of concurrent callers.
THEOREM PeersDurable == Spec => []SavedPeersAgree
<1>1. IInv => SavedPeersAgree
  BY DEF IInv
<1> QED BY <1>1, AdminInvariant, PTL

\* The same for bans, up to the expiry the stored list carries.
THEOREM BansDurable == Spec => []SavedBansAgree
<1>1. IInv => SavedBansAgree
  BY DEF IInv
<1> QED BY <1>1, AdminInvariant, PTL

\* No save writes a list that has changed since the save read it.
THEOREM NoStaleSnapshot == Spec => []SnapshotsCurrent
<1>1. IInv => SnapshotsCurrent
  BY DEF IInv
<1> QED BY <1>1, AdminInvariant, PTL
=============================================================================
