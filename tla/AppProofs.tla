------------------------------ MODULE AppProofs ------------------------------
(***************************************************************************)
(* Proofs about the example applications: chatrooms, the ledger, the       *)
(* voting protocols, the beacon and consensus.                             *)
(***************************************************************************)
EXTENDS Beacon, Snow, EcdsaLedger, Chatroom, Tendermint, SumsProofs,
        SequenceTheorems

-----------------------------------------------------------------------------
(* Chatrooms *)

\* The admin of a room created it.
AdminsCreated ==
    \A n \in Nodes : \A r \in DOMAIN chat[n] : chat[n][r].admin \in Creators(r)

GotChat == got \in [Nodes -> SUBSET ChMessages]

ChIInv == GotChat /\ ChTypeOK /\ ChLogExplainsMembers /\ AdminsCreated

ChatEntry == [kind : {"request", "accept", "post"}, by : Keys, who : Keys]

LEMMA ChatMessageIs ==
    \A m \in ChMessages : /\ m.kind \in {"create", "request", "accept", "post"}
                          /\ m.room \in Rooms /\ m.by \in Keys /\ m.who \in Keys
BY ChAssumption DEF IsChatMessage

LEMMA ChInitInv == ChInit => ChIInv
<1> SUFFICES ASSUME ChInit PROVE ChIInv
    OBVIOUS
<1>1. got = [n \in Nodes |-> {}] /\ chat = [n \in Nodes |-> NoMap]
      BY DEF ChInit, NetInit
<1>2. NoMap \in [{} -> ChRoom] /\ DOMAIN NoMap = {}
      BY DEF NoMap
<1> QED BY <1>1, <1>2 DEF ChIInv, GotChat, ChTypeOK, ChLogExplainsMembers,
           AdminsCreated

LEMMA NewRoomIs ==
    ASSUME NEW key \in Keys
    PROVE  NewRoom(key) \in ChRoom /\ LogExplains(NewRoom(key)) /\ NewRoom(key).admin = key
<1>1. <<>> \in Seq(ChatEntry)
      OBVIOUS
<1>2. NewRoom(key) \in ChRoom
      BY <1>1 DEF NewRoom, ChRoom, ChatEntry
<1> QED BY <1>2 DEF NewRoom, LogExplains, MembersAfter

\* A room with a message more in its log.
LEMMA LoggedIs ==
    ASSUME NEW room \in ChRoom, NEW m \in ChMessages, m.kind # "create"
    PROVE  /\ Logged(room, m) \in ChRoom
           /\ Logged(room, m).admin = room.admin /\ Logged(room, m).members = room.members
           /\ Len(room.messages) \in Nat
           /\ Len(Logged(room, m).messages) = Len(room.messages) + 1
           /\ DOMAIN Logged(room, m).messages = 1 .. Len(room.messages) + 1
           /\ DOMAIN room.messages = 1 .. Len(room.messages)
           /\ \A i \in 1 .. Len(room.messages) : Logged(room, m).messages[i] = room.messages[i]
           /\ Logged(room, m).messages[Len(room.messages) + 1] =
                 [kind |-> m.kind, by |-> m.by, who |-> m.who]
<1> DEFINE e == [kind |-> m.kind, by |-> m.by, who |-> m.who]
           ms == room.messages
           more == Append(ms, e)
           new == Logged(room, m)
<1>1. e \in ChatEntry
      BY ChatMessageIs DEF ChatEntry
<1>2. /\ ms \in Seq(ChatEntry) /\ room.admin \in Keys /\ room.members \in SUBSET Keys
      /\ room = [admin |-> room.admin, members |-> room.members, messages |-> ms]
      BY DEF ChRoom, ChatEntry
<1>3. new = [room EXCEPT !.messages = Append(@, e)]
      BY DEF Logged
<1> HIDE DEF new
<1>4. new = [admin |-> room.admin, members |-> room.members, messages |-> more]
      BY <1>2, <1>3
<1> HIDE DEF e, ms
<1>5. /\ more \in Seq(ChatEntry) /\ Len(more) = Len(ms) + 1 /\ Len(ms) \in Nat
      /\ \A j \in 1 .. Len(ms) : more[j] = ms[j]
      /\ more[Len(ms) + 1] = e
      /\ DOMAIN ms = 1 .. Len(ms) /\ DOMAIN more = 1 .. Len(ms) + 1
  <2>1. more \in Seq(ChatEntry)
        BY <1>1, <1>2, AppendProperties
  <2> QED BY <1>1, <1>2, <2>1, AppendProperties, LenProperties
<1> HIDE DEF more
<1>6. /\ new \in ChRoom /\ new.admin = room.admin /\ new.members = room.members
      /\ new.messages = more
      BY <1>2, <1>4, <1>5 DEF ChRoom, ChatEntry
<1> QED BY <1>5, <1>6 DEF e, ms, new

\* A message in the log that the log explains, of a member or of the admin.
LEMMA LogStillExplains ==
    ASSUME NEW room \in ChRoom, LogExplains(room), NEW m \in ChMessages,
           \/ m.kind = "request"
           \/ m.kind = "post" /\ m.by \in room.members
    PROVE  LogExplains(Logged(room, m))
<1> DEFINE new == Logged(room, m)
           k == Len(room.messages)
           e == [kind |-> m.kind, by |-> m.by, who |-> m.who]
<1>1. /\ new.admin = room.admin /\ new.members = room.members
      /\ k \in Nat /\ Len(new.messages) = k + 1
      /\ DOMAIN new.messages = 1 .. k + 1 /\ DOMAIN room.messages = 1 .. k
      /\ \A i \in 1 .. k : new.messages[i] = room.messages[i]
      /\ new.messages[k + 1] = e
      BY LoggedIs
<1>2. e.kind = m.kind /\ e.by = m.by
      OBVIOUS
<1>3. /\ room.members = MembersAfter(room, k)
      /\ \A i \in 1 .. k :
            /\ room.messages[i].kind = "accept" => room.messages[i].by = room.admin
            /\ room.messages[i].kind = "post" =>
                  room.messages[i].by \in MembersAfter(room, i - 1)
      BY <1>1 DEF LogExplains
<1> HIDE DEF new, k, e
<1>4. ASSUME NEW j \in 0 .. k
      PROVE  MembersAfter(new, j) = MembersAfter(room, j)
  <2>1. \A i \in 1 .. j : new.messages[i] = room.messages[i]
        BY <1>1
  <2> QED BY <1>1, <2>1 DEF MembersAfter
<1>5. MembersAfter(new, k + 1) = MembersAfter(new, k)
  <2>1. \A i \in 1 .. k + 1 : i \in 1 .. k \/ i = k + 1
        BY <1>1
  <2>2. 1 .. k \subseteq 1 .. k + 1
        BY <1>1
  <2>3. new.messages[k + 1].kind # "accept"
        BY <1>1, <1>2
  <2> QED BY <2>1, <2>2, <2>3 DEF MembersAfter
<1>6. k \in 0 .. k
      BY <1>1
<1>7. new.members = MembersAfter(new, Len(new.messages))
      BY <1>1, <1>3, <1>4, <1>5, <1>6
<1>8. ASSUME NEW i \in 1 .. k
      PROVE  /\ new.messages[i].kind = "accept" => new.messages[i].by = new.admin
             /\ new.messages[i].kind = "post" =>
                   new.messages[i].by \in MembersAfter(new, i - 1)
  <2>1. i - 1 \in 0 .. k
        BY <1>1
  <2> QED BY <1>1, <1>3, <1>4, <2>1
<1>9. /\ new.messages[k + 1].kind = "accept" => new.messages[k + 1].by = new.admin
      /\ new.messages[k + 1].kind = "post" =>
            new.messages[k + 1].by \in MembersAfter(new, k)
      BY <1>1, <1>2, <1>3, <1>4, <1>6
<1>10. \A i \in DOMAIN new.messages : i \in 1 .. k \/ (i = k + 1 /\ i - 1 = k)
       BY <1>1
<1>11. LogExplains(new)
  <2> SUFFICES ASSUME NEW i \in DOMAIN new.messages
               PROVE  /\ new.messages[i].kind = "accept" => new.messages[i].by = new.admin
                      /\ new.messages[i].kind = "post" =>
                            new.messages[i].by \in MembersAfter(new, i - 1)
      BY <1>7 DEF LogExplains
  <2>1. CASE i \in 1 .. k
        BY <2>1, <1>8
  <2>2. CASE i = k + 1 /\ i - 1 = k
        BY <2>2, <1>9
  <2> QED BY <2>1, <2>2, <1>10
<1> QED BY <1>11 DEF new

\* An accept of the admin, with the member that it makes.
LEMMA AcceptedExplained ==
    ASSUME NEW room \in ChRoom, LogExplains(room), NEW m \in ChMessages,
           m.kind = "accept", m.by = room.admin
    PROVE  /\ WithMember(Logged(room, m), m.who) \in ChRoom
           /\ WithMember(Logged(room, m), m.who).admin = room.admin
           /\ room.members \subseteq WithMember(Logged(room, m), m.who).members
           /\ WithMember(Logged(room, m), m.who).messages = Logged(room, m).messages
           /\ LogExplains(WithMember(Logged(room, m), m.who))
<1> DEFINE log == Logged(room, m)
           new == WithMember(log, m.who)
           k == Len(room.messages)
           e == [kind |-> m.kind, by |-> m.by, who |-> m.who]
<1>1. /\ log \in ChRoom /\ log.admin = room.admin /\ log.members = room.members
      /\ k \in Nat /\ Len(log.messages) = k + 1
      /\ DOMAIN log.messages = 1 .. k + 1 /\ DOMAIN room.messages = 1 .. k
      /\ \A i \in 1 .. k : log.messages[i] = room.messages[i]
      /\ log.messages[k + 1] = e
      BY LoggedIs
<1>2. e.kind = m.kind /\ e.by = m.by /\ e.who = m.who
      OBVIOUS
<1>3. /\ room.members = MembersAfter(room, k)
      /\ \A i \in 1 .. k :
            /\ room.messages[i].kind = "accept" => room.messages[i].by = room.admin
            /\ room.messages[i].kind = "post" =>
                  room.messages[i].by \in MembersAfter(room, i - 1)
      BY <1>1 DEF LogExplains
<1> HIDE DEF log, k, e
<1>4. /\ new \in ChRoom /\ new.admin = room.admin
      /\ new.members = room.members \cup {m.who}
      /\ new.messages = log.messages
      BY <1>1, ChatMessageIs DEF WithMember, ChRoom
<1> HIDE DEF new
<1>5. ASSUME NEW j \in 0 .. k
      PROVE  MembersAfter(new, j) = MembersAfter(room, j)
  <2>1. \A i \in 1 .. j : new.messages[i] = room.messages[i]
        BY <1>1, <1>4
  <2> QED BY <1>1, <1>4, <2>1 DEF MembersAfter
<1>6. k \in 0 .. k
      BY <1>1
<1>7. MembersAfter(new, k + 1) = MembersAfter(new, k) \cup {m.who}
  <2>1. \A i \in 1 .. k + 1 : i \in 1 .. k \/ i = k + 1
        BY <1>1
  <2>2. 1 .. k \subseteq 1 .. k + 1 /\ k + 1 \in 1 .. k + 1
        BY <1>1
  <2>3. new.messages[k + 1].kind = "accept" /\ new.messages[k + 1].who = m.who
        BY <1>1, <1>2, <1>4
  <2> QED BY <2>1, <2>2, <2>3 DEF MembersAfter
<1>8. new.members = MembersAfter(new, Len(new.messages))
      BY <1>1, <1>3, <1>4, <1>5, <1>6, <1>7
<1>9. ASSUME NEW i \in 1 .. k
      PROVE  /\ new.messages[i].kind = "accept" => new.messages[i].by = new.admin
             /\ new.messages[i].kind = "post" =>
                   new.messages[i].by \in MembersAfter(new, i - 1)
  <2>1. i - 1 \in 0 .. k
        BY <1>1
  <2> QED BY <1>1, <1>3, <1>4, <1>5, <2>1
<1>10. new.messages[k + 1].kind = "accept" /\ new.messages[k + 1].by = new.admin
       BY <1>1, <1>2, <1>4
<1>11. \A i \in DOMAIN new.messages : i \in 1 .. k \/ i = k + 1
       BY <1>1, <1>4
<1>12. LogExplains(new)
       BY <1>8, <1>9, <1>10, <1>11 DEF LogExplains
<1> QED BY <1>4, <1>12 DEF new, log

\* The room of a node that a message is about, as the message leaves it.
RoomStep(n, m, room) ==
    /\ Receive(n, m)
    /\ SetRoom(n, m.room, room)
    /\ room \in ChRoom /\ LogExplains(room)
    /\ \/ /\ m.kind = "create" /\ m.signed
          /\ ~Exists(n, m.room)
          /\ room.admin = m.by
       \/ /\ Exists(n, m.room)
          /\ room.admin = chat[n][m.room].admin
          /\ chat[n][m.room].members \subseteq room.members
          /\ Len(chat[n][m.room].messages) <= Len(room.messages)

\* Every message that has an effect changes one room so.
LEMMA MessagesStepRooms ==
    ASSUME ChIInv, NEW n \in Nodes, NEW m \in ChMessages,
           \/ ProcessCreate(n, m)
           \/ ProcessRequest(n, m)
           \/ ProcessAccept(n, m)
           \/ ProcessPost(n, m)
    PROVE  \E room : RoomStep(n, m, room)
<1>1. ASSUME Exists(n, m.room)
      PROVE  chat[n][m.room] \in ChRoom /\ LogExplains(chat[n][m.room])
      BY <1>1 DEF ChIInv, ChTypeOK, Exists, ChLogExplainsMembers
<1>2. m.by \in Keys
      BY ChatMessageIs
<1>3. CASE ProcessCreate(n, m)
      BY <1>3, <1>2, NewRoomIs DEF ProcessCreate, RoomStep
<1>4. ASSUME ProcessRequest(n, m) \/ ProcessPost(n, m)
      PROVE  RoomStep(n, m, Logged(chat[n][m.room], m))
  <2> DEFINE room == chat[n][m.room]
             new == Logged(room, m)
  <2>1. /\ Receive(n, m) /\ SetRoom(n, m.room, new) /\ Exists(n, m.room)
        /\ m.kind = "request" \/ (m.kind = "post" /\ m.by \in room.members)
        BY <1>4 DEF ProcessRequest, ProcessPost
  <2>2. room \in ChRoom /\ LogExplains(room)
        BY <1>1, <2>1
  <2> HIDE DEF room
  <2>3. m.kind # "create"
        BY <2>1
  <2>4. LogExplains(new)
        BY <2>1, <2>2, LogStillExplains
  <2>5. /\ new \in ChRoom /\ new.admin = room.admin /\ new.members = room.members
        /\ Len(room.messages) \in Nat /\ Len(new.messages) = Len(room.messages) + 1
        BY <2>2, <2>3, LoggedIs
  <2> HIDE DEF new
  <2>6. Len(room.messages) <= Len(new.messages)
        BY <2>5
  <2> QED BY <2>1, <2>4, <2>5, <2>6 DEF RoomStep, room, new
<1>5. ASSUME ProcessAccept(n, m)
      PROVE  RoomStep(n, m, WithMember(Logged(chat[n][m.room], m), m.who))
  <2> DEFINE room == chat[n][m.room]
             log == Logged(room, m)
             new == WithMember(log, m.who)
  <2>1. /\ Receive(n, m) /\ SetRoom(n, m.room, new) /\ Exists(n, m.room)
        /\ m.kind = "accept" /\ m.by = room.admin
        BY <1>5 DEF ProcessAccept
  <2>2. room \in ChRoom /\ LogExplains(room)
        BY <1>1, <2>1
  <2> HIDE DEF room
  <2>3. /\ new \in ChRoom /\ new.admin = room.admin
        /\ room.members \subseteq new.members
        /\ new.messages = log.messages /\ LogExplains(new)
        BY <2>1, <2>2, AcceptedExplained
  <2>4. Len(room.messages) \in Nat /\ Len(log.messages) = Len(room.messages) + 1
        BY <2>1, <2>2, LoggedIs
  <2> HIDE DEF new, log
  <2>5. Len(room.messages) <= Len(new.messages)
        BY <2>3, <2>4
  <2> QED BY <2>1, <2>3, <2>5 DEF RoomStep, room, new, log
<1> QED BY <1>3, <1>4, <1>5

\* Who created a room is known for good.
LEMMA CreatorsStay ==
    ASSUME GotChat, NEW n \in Nodes, NEW m, Receive(n, m)
    PROVE  /\ got' \in [Nodes -> SUBSET (ChMessages \cup {m})]
           /\ \A r : Creators(r) \subseteq Creators(r)'
           /\ m.kind = "create" /\ m.signed => m.by \in Creators(m.room)'
<1>1. /\ got' = [got EXCEPT ![n] = @ \cup {m}]
      /\ got \in [Nodes -> SUBSET ChMessages]
      BY DEF Receive, GotChat
<1>2. got' \in [Nodes -> SUBSET (ChMessages \cup {m})]
      BY <1>1
<1>3. Published \subseteq Published' /\ m \in Published'
      BY <1>1 DEF Published
<1> QED BY <1>2, <1>3 DEF Creators, OfKind

\* What a step of a room does to the rooms of all nodes.
LEMMA RoomStepIs ==
    ASSUME ChIInv, NEW n \in Nodes, NEW m \in ChMessages, NEW room, RoomStep(n, m, room)
    PROVE  /\ DOMAIN chat' = Nodes
           /\ DOMAIN chat'[n] \subseteq Rooms
           /\ DOMAIN chat'[n] = DOMAIN chat[n] \cup {m.room}
           /\ chat'[n][m.room] = room
           /\ \A r \in DOMAIN chat[n] \ {m.room} : chat'[n][r] = chat[n][r]
           /\ \A x \in Nodes \ {n} : chat'[x] = chat[x]
<1> DEFINE rooms == With(chat[n], m.room, room)
<1>1. DOMAIN chat = Nodes
      BY DEF ChIInv, ChTypeOK
<1>2. /\ DOMAIN chat[n] \subseteq Rooms
      /\ \A r \in DOMAIN chat[n] : chat[n][r] \in ChRoom
      BY DEF ChIInv, ChTypeOK
<1>3. /\ chat' = [chat EXCEPT ![n] = rooms]
      /\ room \in ChRoom /\ m.room \in Rooms
      BY ChatMessageIs DEF RoomStep, SetRoom
<1>4. /\ rooms \in [DOMAIN chat[n] \cup {m.room} -> ChRoom]
      /\ rooms[m.room] = room
      /\ \A r \in DOMAIN chat[n] \ {m.room} : rooms[r] = chat[n][r]
      BY <1>2, <1>3 DEF With
<1> HIDE DEF rooms
<1>5. DOMAIN rooms \subseteq Rooms /\ DOMAIN rooms = DOMAIN chat[n] \cup {m.room}
      BY <1>2, <1>3, <1>4
<1> QED BY <1>1, <1>3, <1>4, <1>5

LEMMA ChRoomStepInv ==
    ASSUME ChIInv, NEW n \in Nodes, NEW m \in ChMessages, NEW room, RoomStep(n, m, room)
    PROVE  ChIInv'
<1>1. /\ DOMAIN chat' = Nodes /\ DOMAIN chat'[n] \subseteq Rooms
      /\ DOMAIN chat'[n] = DOMAIN chat[n] \cup {m.room}
      /\ chat'[n][m.room] = room
      /\ \A r \in DOMAIN chat[n] \ {m.room} : chat'[n][r] = chat[n][r]
      /\ \A x \in Nodes \ {n} : chat'[x] = chat[x]
      BY RoomStepIs
<1>2. GotChat /\ ChTypeOK /\ ChLogExplainsMembers /\ AdminsCreated
      BY DEF ChIInv
<1>3. Receive(n, m) /\ LogExplains(room) /\ room \in ChRoom
      BY DEF RoomStep
<1>4. /\ got' \in [Nodes -> SUBSET (ChMessages \cup {m})]
      /\ \A r : Creators(r) \subseteq Creators(r)'
      /\ m.kind = "create" /\ m.signed => m.by \in Creators(m.room)'
      BY <1>2, <1>3, CreatorsStay
<1>5. GotChat' /\ ChTypeOK'
      BY <1>1, <1>2, <1>3, <1>4 DEF GotChat, ChTypeOK
<1>6. ChLogExplainsMembers'
  <2>1. ASSUME NEW r \in DOMAIN chat'[n]
        PROVE  LogExplains(chat'[n][r])
        BY <1>1, <1>2, <1>3 DEF ChLogExplainsMembers
  <2> QED BY <2>1, <1>1, <1>2 DEF ChLogExplainsMembers
<1>7. AdminsCreated'
  <2>1. room.admin \in Creators(m.room)'
        BY <1>2, <1>4 DEF RoomStep, AdminsCreated, Exists
  <2>2. ASSUME NEW x \in Nodes, NEW r \in DOMAIN chat'[x]
        PROVE  chat'[x][r].admin \in Creators(r)'
    <3>1. CASE x = n /\ r = m.room
          BY <3>1, <2>1, <1>1
    <3>2. CASE ~(x = n /\ r = m.room)
      <4>1. r \in DOMAIN chat[x] /\ chat'[x][r] = chat[x][r]
            BY <3>2, <1>1
      <4> QED BY <4>1, <1>2, <1>4 DEF AdminsCreated
    <3> QED BY <3>1, <3>2
  <2> QED BY <2>2 DEF AdminsCreated
<1> QED BY <1>5, <1>6, <1>7 DEF ChIInv

LEMMA ChNextInv == ChIInv /\ [ChNext]_chVars => ChIInv'
<1> SUFFICES ASSUME ChIInv, [ChNext]_chVars PROVE ChIInv'
    OBVIOUS
<1>1. GotChat /\ ChTypeOK /\ ChLogExplainsMembers /\ AdminsCreated
      BY DEF ChIInv
<1>2. ASSUME NEW n \in Nodes, NEW m \in ChMessages,
             \/ ProcessCreate(n, m)
             \/ ProcessRequest(n, m)
             \/ ProcessAccept(n, m)
             \/ ProcessPost(n, m)
      PROVE  ChIInv'
      BY <1>2, MessagesStepRooms, ChRoomStepInv
<1>3. ASSUME NEW n \in Nodes, NEW m \in ChMessages, FailToProcess(n, m)
      PROVE  ChIInv'
  <2>1. Receive(n, m) /\ chat' = chat
        BY <1>3 DEF FailToProcess
  <2>2. /\ got' \in [Nodes -> SUBSET (ChMessages \cup {m})]
        /\ \A r : Creators(r) \subseteq Creators(r)'
        BY <1>1, <2>1, CreatorsStay
  <2>3. GotChat'
        BY <2>2 DEF GotChat
  <2>4. ChTypeOK' /\ ChLogExplainsMembers'
        BY <1>1, <2>1 DEF ChTypeOK, ChLogExplainsMembers
  <2>5. AdminsCreated'
        BY <1>1, <2>1, <2>2 DEF AdminsCreated
  <2> QED BY <2>3, <2>4, <2>5 DEF ChIInv
<1>4. ASSUME NEW n \in Nodes, ChReset(n)
      PROVE  ChIInv'
  <2>1. got' = got /\ chat' = [chat EXCEPT ![n] = NoMap]
        BY <1>4 DEF ChReset, Reset
  <2>2. NoMap \in [{} -> ChRoom] /\ DOMAIN NoMap = {}
        BY DEF NoMap
  <2>3. /\ DOMAIN chat' = Nodes
        /\ DOMAIN chat'[n] = {}
        /\ \A x \in Nodes \ {n} : chat'[x] = chat[x]
        BY <1>1, <2>1, <2>2 DEF ChTypeOK
  <2>4. GotChat' /\ ChTypeOK'
        BY <1>1, <2>1, <2>3 DEF GotChat, ChTypeOK
  <2>5. ChLogExplainsMembers' /\ AdminsCreated'
        BY <1>1, <2>1, <2>3 DEF ChLogExplainsMembers, AdminsCreated, Creators, OfKind,
           Published
  <2> QED BY <2>4, <2>5 DEF ChIInv
<1>5. CASE UNCHANGED chVars
      BY <1>1, <1>5 DEF chVars, ChIInv, GotChat, ChTypeOK, ChLogExplainsMembers,
         AdminsCreated, Creators, OfKind, Published
<1> QED BY <1>2, <1>3, <1>4, <1>5 DEF ChNext

LEMMA ChatAgrees == ChIInv => ChInv
<1> SUFFICES ASSUME ChIInv PROVE ChSameAdmin
    BY DEF ChIInv, ChInv
<1> QED BY DEF ChIInv, AdminsCreated, ChSameAdmin

\* In every chatroom the log explains who is a member and who could post, and
\* nodes agree on the admin of a room that one key created (process_message of
\* ChatroomObject), however many nodes, rooms and keys there are.
THEOREM ChatroomsExplained == ChSpec => []ChInv
BY ChInitInv, ChNextInv, ChatAgrees, PTL DEF ChSpec

LEMMA ChStepKeepsRooms ==
    ASSUME ChIInv, [ChNext]_chVars, NEW n \in Nodes, DOMAIN chat'[n] # {},
           NEW r \in DOMAIN chat[n]
    PROVE  /\ r \in DOMAIN chat'[n]
           /\ chat'[n][r].admin = chat[n][r].admin
           /\ chat[n][r].members \subseteq chat'[n][r].members
           /\ Len(chat[n][r].messages) <= Len(chat'[n][r].messages)
<1>1. chat[n][r] \in ChRoom
      BY DEF ChIInv, ChTypeOK
<1>2. Len(chat[n][r].messages) \in Nat
      BY <1>1, LenProperties DEF ChRoom
<1>3. ASSUME chat'[n] = chat[n]
      PROVE  /\ r \in DOMAIN chat'[n]
             /\ chat'[n][r].admin = chat[n][r].admin
             /\ chat[n][r].members \subseteq chat'[n][r].members
             /\ Len(chat[n][r].messages) <= Len(chat'[n][r].messages)
      BY <1>3, <1>2
<1>4. ASSUME NEW x \in Nodes, NEW m \in ChMessages, NEW room, RoomStep(x, m, room)
      PROVE  /\ r \in DOMAIN chat'[n]
             /\ chat'[n][r].admin = chat[n][r].admin
             /\ chat[n][r].members \subseteq chat'[n][r].members
             /\ Len(chat[n][r].messages) <= Len(chat'[n][r].messages)
  <2>1. /\ DOMAIN chat'[x] = DOMAIN chat[x] \cup {m.room}
        /\ chat'[x][m.room] = room
        /\ \A y \in DOMAIN chat[x] \ {m.room} : chat'[x][y] = chat[x][y]
        /\ \A y \in Nodes \ {x} : chat'[y] = chat[y]
        BY <1>4, RoomStepIs
  <2>2. CASE n # x
        BY <2>1, <2>2, <1>3
  <2>3. CASE n = x /\ r # m.room
        BY <2>1, <2>3, <1>2
  <2>4. CASE n = x /\ r = m.room
        BY <2>1, <2>4, <1>4 DEF RoomStep, Exists
  <2> QED BY <2>2, <2>3, <2>4
<1>5. ASSUME NEW x \in Nodes, NEW m \in ChMessages,
             \/ ProcessCreate(x, m)
             \/ ProcessRequest(x, m)
             \/ ProcessAccept(x, m)
             \/ ProcessPost(x, m)
      PROVE  \E room : RoomStep(x, m, room)
      BY <1>5, MessagesStepRooms
<1>6. ASSUME NEW x \in Nodes, NEW m \in ChMessages, FailToProcess(x, m)
      PROVE  chat'[n] = chat[n]
      BY <1>6 DEF FailToProcess
<1>7. ASSUME NEW x \in Nodes, ChReset(x)
      PROVE  chat'[n] = chat[n]
      BY <1>7 DEF ChReset, NoMap, ChIInv, ChTypeOK
<1>8. CASE UNCHANGED chVars
      BY <1>8, <1>3 DEF chVars
<1> QED BY <1>3, <1>4, <1>5, <1>6, <1>7, <1>8 DEF ChNext

\* A chatroom keeps its admin, its members and its log until the application
\* resets the object: a create for a room that exists has no effect.
THEOREM ChatroomsStay == ChSpec => ChRoomsStay
<1>1. ChIInv /\ [ChNext]_chVars =>
         [\A n \in Nodes : DOMAIN chat'[n] # {} =>
             \A r \in DOMAIN chat[n] :
                /\ r \in DOMAIN chat'[n]
                /\ chat'[n][r].admin = chat[n][r].admin
                /\ chat[n][r].members \subseteq chat'[n][r].members
                /\ Len(chat[n][r].messages) <= Len(chat'[n][r].messages)]_chVars
      BY ChStepKeepsRooms
<1> QED BY <1>1, ChInitInv, ChNextInv, PTL DEF ChSpec, ChRoomsStay

-----------------------------------------------------------------------------
(* The ledger *)

GotLedger == got \in [Nodes -> SUBSET LgMessages]

\* An entry is of a transfer that the node got.
EntriesGot ==
    \A n \in Nodes : \A i \in DOMAIN ledger[n].entries :
        \E m \in got[n] :
            /\ m.kind = "transfer" /\ m.from = ledger[n].entries[i].from
            /\ m.to = ledger[n].entries[i].to /\ m.amount = ledger[n].entries[i].amount
            /\ m.nonce = ledger[n].entries[i].nonce

\* The nonces of one ledger are in order.
InOrder(o) ==
    /\ \A i, j \in DOMAIN o.entries :
          o.entries[i].from = o.entries[j].from /\ i < j =>
              o.entries[i].nonce < o.entries[j].nonce
    /\ \A i \in DOMAIN o.entries : o.entries[i].nonce < o.nonces[o.entries[i].from]
    /\ \A a \in Accounts : \A k \in 0 .. o.nonces[a] - 1 :
          \E i \in DOMAIN o.entries : o.entries[i].from = a /\ o.entries[i].nonce = k

LedgerType == [entries : Seq(LgEntries), balances : [Accounts -> 0 .. Width - 1],
               nonces : [Accounts -> Nat]]

LgIInv == GotLedger /\ LgTypeOK /\ LgNoncesInOrder /\ EntriesGot

LEMMA LedgerMessageIs ==
    \A m \in LgMessages : /\ m.kind = "transfer" /\ m.from \in Accounts /\ m.to \in Accounts
                          /\ m.amount \in 0 .. Width - 1 /\ m.nonce \in Nat
BY LgAssumption DEF IsLedgerMessage

LEMMA FreshLedgerIs ==
    FreshLedger \in LedgerType /\ InOrder(FreshLedger) /\ FreshLedger.entries = <<>>
<1>1. /\ FreshLedger.entries = <<>> /\ FreshLedger.nonces = [a \in Accounts |-> 0]
      /\ FreshLedger.balances = [a \in Accounts |-> 0]
      BY DEF FreshLedger
<1>2. 0 \in 0 .. Width - 1
      BY LgAssumption
<1>3. FreshLedger \in LedgerType
      BY <1>2 DEF FreshLedger, LedgerType
<1>4. \A a \in Accounts : 0 .. FreshLedger.nonces[a] - 1 = {}
      BY <1>1
<1> QED BY <1>1, <1>3, <1>4 DEF InOrder

LEMMA LgInitInv == LgInit => LgIInv
<1> SUFFICES ASSUME LgInit PROVE LgIInv
    OBVIOUS
<1>1. got = [n \in Nodes |-> {}] /\ ledger = [n \in Nodes |-> FreshLedger]
      BY DEF LgInit, NetInit
<1>2. LgTypeOK /\ GotLedger
      BY <1>1, FreshLedgerIs DEF LgTypeOK, LedgerType, GotLedger
<1>3. \A n \in Nodes : InOrder(ledger[n])
      BY <1>1, FreshLedgerIs
<1>4. EntriesGot
      BY <1>1, FreshLedgerIs DEF EntriesGot
<1> QED BY <1>2, <1>3, <1>4 DEF LgIInv, LgNoncesInOrder, InOrder

\* A transfer that applies, in a ledger with its nonces in order.
LEMMA ApplyIs ==
    ASSUME NEW o \in LedgerType, InOrder(o), NEW m \in LgMessages, Applies(o, m)
    PROVE  /\ Apply(o, m) \in LedgerType /\ InOrder(Apply(o, m))
           /\ \A i \in DOMAIN Apply(o, m).entries :
                 \/ i \in DOMAIN o.entries /\ Apply(o, m).entries[i] = o.entries[i]
                 \/ /\ Apply(o, m).entries[i].from = m.from
                    /\ Apply(o, m).entries[i].to = m.to
                    /\ Apply(o, m).entries[i].amount = m.amount
                    /\ Apply(o, m).entries[i].nonce = m.nonce
<1> DEFINE mint == o.balances[m.from] < m.amount
           e == [from |-> m.from, to |-> m.to, amount |-> m.amount, nonce |-> m.nonce,
                 mint |-> mint]
           es == o.entries
           more == Append(es, e)
           debited == IF mint THEN o.balances
                      ELSE [o.balances EXCEPT ![m.from] = @ - m.amount]
           balances == [debited EXCEPT ![m.to] = (@ + m.amount) % Width]
           nonces == [o.nonces EXCEPT ![m.from] = m.nonce + 1]
           new == Apply(o, m)
<1>1. /\ m.from \in Accounts /\ m.to \in Accounts /\ m.amount \in 0 .. Width - 1
      /\ m.nonce \in Nat
      BY LedgerMessageIs
<1>2. m.nonce = o.nonces[m.from]
      BY DEF Applies
<1>3. /\ es \in Seq(LgEntries) /\ o.balances \in [Accounts -> 0 .. Width - 1]
      /\ o.nonces \in [Accounts -> Nat]
      BY DEF LedgerType
<1>4. Width \in Nat \ {0}
      BY LgAssumption
<1>5. e \in LgEntries
  <2>1. mint \in BOOLEAN
        OBVIOUS
  <2> HIDE DEF mint
  <2> QED BY <1>1, <2>1 DEF LgEntries
<1>6. /\ e.from = m.from /\ e.to = m.to /\ e.amount = m.amount /\ e.nonce = m.nonce
      OBVIOUS
<1>7. new = [entries |-> more, balances |-> balances, nonces |-> nonces]
      BY DEF Apply
<1>8. debited \in [Accounts -> 0 .. Width - 1]
  <2>1. ~mint => o.balances[m.from] - m.amount \in 0 .. Width - 1
        BY <1>1, <1>3, <1>4
  <2> QED BY <2>1, <1>3
<1> HIDE DEF debited
<1>9. balances \in [Accounts -> 0 .. Width - 1]
  <2>1. (debited[m.to] + m.amount) % Width \in 0 .. Width - 1
        BY <1>1, <1>4, <1>8
  <2> QED BY <1>8, <2>1
<1>10. /\ nonces \in [Accounts -> Nat]
       /\ nonces[m.from] = m.nonce + 1
       /\ \A a \in Accounts \ {m.from} : nonces[a] = o.nonces[a]
       BY <1>1, <1>3
<1> HIDE DEF e, es, balances, nonces
<1>11. /\ more \in Seq(LgEntries) /\ Len(more) = Len(es) + 1 /\ Len(es) \in Nat
       /\ \A j \in 1 .. Len(es) : more[j] = es[j]
       /\ more[Len(es) + 1] = e
       /\ DOMAIN es = 1 .. Len(es) /\ DOMAIN more = 1 .. Len(es) + 1
  <2>1. more \in Seq(LgEntries)
        BY <1>3, <1>5, AppendProperties
  <2> QED BY <1>3, <1>5, <2>1, AppendProperties, LenProperties
<1> HIDE DEF more, new
<1>12. /\ new \in LedgerType
       /\ new.entries = more /\ new.nonces = nonces
       BY <1>7, <1>9, <1>10, <1>11 DEF LedgerType
<1>13. \A i \in DOMAIN more : i \in DOMAIN es \/ i = Len(es) + 1
       BY <1>11
<1>14. \A i \in DOMAIN es : /\ i \in DOMAIN more /\ i \in Nat /\ i < Len(es) + 1
                            /\ es[i].from \in Accounts /\ es[i].nonce \in Nat
                            /\ es[i].nonce < o.nonces[es[i].from]
  <2>1. \A i \in DOMAIN es : es[i] \in LgEntries
        BY <1>3, <1>11
  <2>2. \A i \in DOMAIN es : es[i].from \in Accounts /\ es[i].nonce \in Nat
        BY <2>1 DEF LgEntries
  <2>3. \A i \in DOMAIN es : es[i].nonce < o.nonces[es[i].from]
        BY DEF InOrder, es
  <2> QED BY <2>2, <2>3, <1>11
<1>15. InOrder(new)
  <2>1. ASSUME NEW i \in DOMAIN more, NEW j \in DOMAIN more,
               more[i].from = more[j].from, i < j
        PROVE  more[i].nonce < more[j].nonce
    <3>1. CASE i \in DOMAIN es /\ j \in DOMAIN es
      <4>1. es[i].from = es[j].from
            BY <2>1, <3>1, <1>11
      <4>2. es[i].nonce < es[j].nonce
            BY <2>1, <3>1, <4>1 DEF InOrder, es
      <4> QED BY <3>1, <4>2, <1>11
    <3>2. CASE i \in DOMAIN es /\ j = Len(es) + 1
      <4>1. es[i].from = m.from
            BY <2>1, <3>2, <1>6, <1>11
      <4> QED BY <3>2, <4>1, <1>2, <1>6, <1>11, <1>14
    <3>3. i # Len(es) + 1
      <4>1. j \in Nat /\ j <= Len(es) + 1
            BY <1>11
      <4> QED BY <2>1, <4>1, <1>11
    <3> QED BY <3>1, <3>2, <3>3, <1>13
  <2>2. ASSUME NEW i \in DOMAIN more
        PROVE  more[i].nonce < nonces[more[i].from]
    <3>1. CASE i \in DOMAIN es
      <4>1. more[i] = es[i] /\ es[i].nonce < o.nonces[es[i].from]
            BY <3>1, <1>11, <1>14
      <4>2. CASE es[i].from = m.from
        <5>1. es[i].nonce \in Nat /\ es[i].nonce < m.nonce
              BY <3>1, <4>1, <4>2, <1>2, <1>14
        <5> QED BY <4>1, <4>2, <5>1, <1>1, <1>10
      <4>3. CASE es[i].from # m.from
            BY <3>1, <4>1, <4>3, <1>10, <1>14
      <4> QED BY <4>2, <4>3
    <3>2. CASE i = Len(es) + 1
          BY <3>2, <1>1, <1>6, <1>10, <1>11
    <3> QED BY <3>1, <3>2, <1>13
  <2>3. ASSUME NEW a \in Accounts, NEW k \in 0 .. nonces[a] - 1
        PROVE  \E i \in DOMAIN more : more[i].from = a /\ more[i].nonce = k
    <3>1. CASE k \in 0 .. o.nonces[a] - 1
      <4>1. PICK i \in DOMAIN es : es[i].from = a /\ es[i].nonce = k
            BY <3>1 DEF InOrder, es
      <4> QED BY <4>1, <1>11, <1>14
    <3>2. CASE k \notin 0 .. o.nonces[a] - 1
      <4>1. a = m.from
            BY <2>3, <3>2, <1>10
      <4>2. k = m.nonce
            BY <2>3, <3>2, <4>1, <1>1, <1>2, <1>10
      <4>3. Len(es) + 1 \in DOMAIN more
            BY <1>11
      <4> QED BY <4>1, <4>2, <4>3, <1>6, <1>11
    <3> QED BY <3>1, <3>2
  <2> QED BY <1>12, <2>1, <2>2, <2>3 DEF InOrder
<1>16. ASSUME NEW i \in DOMAIN more
       PROVE  \/ i \in DOMAIN es /\ more[i] = es[i]
              \/ /\ more[i].from = m.from /\ more[i].to = m.to
                 /\ more[i].amount = m.amount /\ more[i].nonce = m.nonce
       BY <1>6, <1>11, <1>13
<1> QED BY <1>12, <1>15, <1>16 DEF new, es

LEMMA LgNextInv == LgIInv /\ [LgNext]_lgVars => LgIInv'
<1> SUFFICES ASSUME LgIInv, [LgNext]_lgVars PROVE LgIInv'
    OBVIOUS
<1>1. /\ got \in [Nodes -> SUBSET LgMessages] /\ ledger \in [Nodes -> LedgerType]
      /\ EntriesGot
      BY DEF LgIInv, GotLedger, LgTypeOK, LedgerType
<1>2. \A n \in Nodes : InOrder(ledger[n])
      BY DEF LgIInv, LgNoncesInOrder, InOrder
<1>3. ASSUME got' \in [Nodes -> SUBSET LgMessages], ledger' \in [Nodes -> LedgerType],
             \A n \in Nodes : InOrder(ledger'[n]), EntriesGot'
      PROVE  LgIInv'
      BY <1>3 DEF LgIInv, GotLedger, LgTypeOK, LedgerType, LgNoncesInOrder, InOrder
<1>4. ASSUME NEW n \in Nodes, NEW m \in LgMessages, TakeTransfer(n, m)
      PROVE  LgIInv'
  <2>1. /\ got' = [got EXCEPT ![n] = @ \cup {m}]
        /\ Applies(ledger[n], m)
        /\ ledger' = [ledger EXCEPT ![n] = Apply(ledger[n], m)]
        BY <1>4 DEF TakeTransfer, Receive
  <2> DEFINE o == ledger[n]
             new == Apply(o, m)
  <2>2. o \in LedgerType /\ InOrder(o)
        BY <1>1, <1>2
  <2>3. /\ new \in LedgerType /\ InOrder(new)
        /\ \A i \in DOMAIN new.entries :
              \/ i \in DOMAIN o.entries /\ new.entries[i] = o.entries[i]
              \/ /\ new.entries[i].from = m.from /\ new.entries[i].to = m.to
                 /\ new.entries[i].amount = m.amount /\ new.entries[i].nonce = m.nonce
        BY <2>1, <2>2, ApplyIs
  <2> HIDE DEF new
  <2>4. /\ got' \in [Nodes -> SUBSET LgMessages]
        /\ \A x \in Nodes : got[x] \subseteq got'[x]
        /\ m \in got'[n]
        BY <1>1, <2>1
  <2>5. /\ ledger' \in [Nodes -> LedgerType] /\ ledger'[n] = new
        /\ \A x \in Nodes \ {n} : ledger'[x] = ledger[x]
        BY <1>1, <2>1, <2>3 DEF new
  <2>6. \A x \in Nodes : InOrder(ledger'[x])
        BY <1>2, <2>3, <2>5
  <2>7. EntriesGot'
    <3> SUFFICES ASSUME NEW x \in Nodes, NEW i \in DOMAIN ledger'[x].entries
                 PROVE  \E y \in got'[x] :
                           /\ y.kind = "transfer" /\ y.from = ledger'[x].entries[i].from
                           /\ y.to = ledger'[x].entries[i].to
                           /\ y.amount = ledger'[x].entries[i].amount
                           /\ y.nonce = ledger'[x].entries[i].nonce
        BY DEF EntriesGot
    <3>1. CASE i \in DOMAIN ledger[x].entries /\ ledger'[x].entries[i] = ledger[x].entries[i]
          BY <3>1, <1>1, <2>4 DEF EntriesGot
    <3>2. CASE ~(i \in DOMAIN ledger[x].entries
                 /\ ledger'[x].entries[i] = ledger[x].entries[i])
      <4>1. x = n
            BY <3>2, <2>5
      <4>2. m.kind = "transfer"
            BY LedgerMessageIs
      <4> QED BY <3>2, <4>1, <4>2, <2>3, <2>4, <2>5
    <3> QED BY <3>1, <3>2
  <2> QED BY <1>3, <2>4, <2>5, <2>6, <2>7
<1>5. ASSUME NEW n \in Nodes, NEW m \in LgMessages, DropTransfer(n, m)
      PROVE  LgIInv'
  <2>1. got' = [got EXCEPT ![n] = @ \cup {m}] /\ ledger' = ledger
        BY <1>5 DEF DropTransfer, Receive
  <2>2. /\ got' \in [Nodes -> SUBSET LgMessages]
        /\ \A x \in Nodes : got[x] \subseteq got'[x]
        BY <1>1, <2>1
  <2>3. EntriesGot'
        BY <1>1, <2>1, <2>2 DEF EntriesGot
  <2> QED BY <1>1, <1>2, <1>3, <2>1, <2>2, <2>3
<1>6. ASSUME NEW n \in Nodes, LgReset(n)
      PROVE  LgIInv'
  <2>1. got' = got /\ ledger' = [ledger EXCEPT ![n] = FreshLedger]
        BY <1>6 DEF LgReset, Reset
  <2>2. /\ ledger' \in [Nodes -> LedgerType] /\ ledger'[n] = FreshLedger
        /\ \A x \in Nodes \ {n} : ledger'[x] = ledger[x]
        BY <1>1, <2>1, FreshLedgerIs
  <2>3. \A x \in Nodes : InOrder(ledger'[x])
        BY <1>2, <2>2, FreshLedgerIs
  <2>4. EntriesGot'
        BY <1>1, <2>1, <2>2, FreshLedgerIs DEF EntriesGot
  <2> QED BY <1>1, <1>3, <2>1, <2>2, <2>3, <2>4
<1>7. CASE UNCHANGED lgVars
  <2>1. got' = got /\ ledger' = ledger
        BY <1>7 DEF lgVars
  <2> QED BY <1>1, <1>2, <1>3, <2>1 DEF EntriesGot
<1> QED BY <1>4, <1>5, <1>6, <1>7 DEF LgNext

LEMMA LedgersAgree == LgIInv => LgInv
<1> SUFFICES ASSUME LgIInv PROVE LgSameOrder
    BY DEF LgIInv, LgInv
<1> SUFFICES ASSUME NEW n1 \in Nodes, NEW n2 \in Nodes,
                    NEW i \in DOMAIN ledger[n1].entries, NEW j \in DOMAIN ledger[n2].entries,
                    ledger[n1].entries[i].from = ledger[n2].entries[j].from,
                    ledger[n1].entries[i].nonce = ledger[n2].entries[j].nonce,
                    ~Equivocates(ledger[n1].entries[i].from)
             PROVE  /\ ledger[n1].entries[i].to = ledger[n2].entries[j].to
                    /\ ledger[n1].entries[i].amount = ledger[n2].entries[j].amount
    BY DEF LgSameOrder
<1> DEFINE e == ledger[n1].entries[i]
           f == ledger[n2].entries[j]
<1>1. PICK x \in got[n1] : /\ x.kind = "transfer" /\ x.from = e.from /\ x.to = e.to
                           /\ x.amount = e.amount /\ x.nonce = e.nonce
      BY DEF LgIInv, EntriesGot
<1>2. PICK y \in got[n2] : /\ y.kind = "transfer" /\ y.from = f.from /\ y.to = f.to
                           /\ y.amount = f.amount /\ y.nonce = f.nonce
      BY DEF LgIInv, EntriesGot
<1>3. e.from = f.from /\ e.nonce = f.nonce /\ ~Equivocates(e.from)
      OBVIOUS
<1> HIDE DEF e, f
<1>4. x \in OfKind(Published, "transfer") /\ y \in OfKind(Published, "transfer")
      BY <1>1, <1>2 DEF Published, OfKind
<1>5. e.to = f.to /\ e.amount = f.amount
      BY <1>1, <1>2, <1>3, <1>4 DEF Equivocates
<1> QED BY <1>5 DEF e, f

\* The transfers of every sender are in the order of their nonces, without a gap
\* and none twice, in every ledger; and two ledgers have the same transfer for a
\* nonce that the sender used once (add_message of ECDSALedgerObject).
THEOREM LedgersInOrder == LgSpec => []LgInv
BY LgInitInv, LgNextInv, LedgersAgree, PTL DEF LgSpec

\* The balances of one ledger are what its entries say.
Backed(o) ==
    \A a \in Accounts :
        Received(o, a) < Width => o.balances[a] + Sent(o, a) = Received(o, a)

LEMMA FreshBacked == Backed(FreshLedger)
<1>1. /\ Len(FreshLedger.entries) = 0
      /\ \A a \in Accounts : FreshLedger.balances[a] = 0
      BY DEF FreshLedger
<1> QED BY <1>1, SumOfNone DEF Backed, Received, Sent

\* An entry more adds its amount to what one account received and one sent.
LEMMA EntryAdds ==
    ASSUME NEW es \in Seq(LgEntries), NEW e \in LgEntries, NEW a \in Accounts,
           NEW o, NEW new, o.entries = es, new.entries = Append(es, e)
    PROVE  /\ Received(o, a) \in Nat /\ Sent(o, a) \in Nat
           /\ Received(new, a) = Received(o, a) + (IF e.to = a THEN e.amount ELSE 0)
           /\ Sent(new, a) =
                 Sent(o, a) + (IF e.from = a /\ ~e.mint THEN e.amount ELSE 0)
<1> DEFINE more == Append(es, e)
           To(s) == [i \in DOMAIN s |-> IF s[i].to = a THEN s[i].amount ELSE 0]
           From(s) == [i \in DOMAIN s |-> IF s[i].from = a /\ ~s[i].mint
                                          THEN s[i].amount ELSE 0]
           k == Len(es)
<1>1. /\ more \in Seq(LgEntries) /\ Len(more) = k + 1 /\ k \in Nat
      /\ \A i \in 1 .. k : more[i] = es[i]
      /\ more[k + 1] = e
      BY AppendProperties
<1>2. /\ DOMAIN es = 1 .. k /\ DOMAIN more = 1 .. k + 1
      /\ \A i \in 1 .. k : es[i] \in LgEntries
      BY <1>1, LenProperties, ElementOfSeq
<1> HIDE DEF more, k
<1>3. /\ \A i \in 1 .. k : To(more)[i] = To(es)[i]
      /\ \A i \in 1 .. k : From(more)[i] = From(es)[i]
      /\ To(more)[k + 1] = IF e.to = a THEN e.amount ELSE 0
      /\ From(more)[k + 1] = IF e.from = a /\ ~e.mint THEN e.amount ELSE 0
      BY <1>1, <1>2
<1>4. \A i \in 1 .. k : To(es)[i] \in Nat /\ From(es)[i] \in Nat
  <2>1. \A i \in 1 .. k : es[i].amount \in Nat
        BY <1>2, LgAssumption DEF LgEntries
  <2> QED BY <2>1, <1>2
<1> HIDE DEF To, From
<1>5. k \in Nat
      BY <1>1
<1>6. SumTo(To(es), k) \in Nat /\ SumTo(From(es), k) \in Nat
      BY ONLY <1>4, <1>5, SumNat
<1>7. SumTo(To(more), k + 1) = SumTo(To(es), k) + To(more)[k + 1]
      BY ONLY <1>3, <1>5, SumMore
<1>8. SumTo(From(more), k + 1) = SumTo(From(es), k) + From(more)[k + 1]
      BY ONLY <1>3, <1>5, SumMore
<1>9. /\ Received(o, a) = SumTo(To(es), k) /\ Sent(o, a) = SumTo(From(es), k)
      /\ Received(new, a) = SumTo(To(more), k + 1)
      /\ Sent(new, a) = SumTo(From(more), k + 1)
      BY <1>1 DEF Received, Sent, To, From, more, k
<1> QED BY <1>3, <1>6, <1>7, <1>8, <1>9

\* What a transfer makes of a balance that is as the entries say.
LEMMA TransferBacked ==
    ASSUME NEW B \in 0 .. Width - 1, NEW R \in Nat, NEW S \in Nat,
           NEW amount \in Nat, NEW out \in BOOLEAN, NEW in \in BOOLEAN,
           R < Width => B + S = R, out => B >= amount,
           R + (IF in THEN amount ELSE 0) < Width
    PROVE  LET d == IF out THEN B - amount ELSE B
           IN  (IF in THEN (d + amount) % Width ELSE d)
                   + (S + (IF out THEN amount ELSE 0))
                 = R + (IF in THEN amount ELSE 0)
<1> DEFINE d == IF out THEN B - amount ELSE B
           sent == S + (IF out THEN amount ELSE 0)
<1>1. Width \in Nat \ {0}
      BY LgAssumption
<1>2. R < Width /\ B + S = R
      BY <1>1
<1>3. d \in Nat /\ sent \in Nat /\ d + sent = R
      BY <1>2
<1>4. CASE in
  <2>1. d + amount \in 0 .. Width - 1
        BY <1>1, <1>3, <1>4
  <2>2. (d + amount) % Width = d + amount
        BY <1>1, <2>1
  <2> QED BY <1>3, <1>4, <2>2
<1>5. CASE ~in
      BY <1>3, <1>5
<1> QED BY <1>4, <1>5

LEMMA ApplyBacked ==
    ASSUME NEW o \in LedgerType, Backed(o), NEW m \in LgMessages
    PROVE  Backed(Apply(o, m))
<1> DEFINE mint == o.balances[m.from] < m.amount
           e == [from |-> m.from, to |-> m.to, amount |-> m.amount, nonce |-> m.nonce,
                 mint |-> mint]
           debited == IF mint THEN o.balances
                      ELSE [o.balances EXCEPT ![m.from] = @ - m.amount]
           balances == [debited EXCEPT ![m.to] = (@ + m.amount) % Width]
           new == Apply(o, m)
<1>1. /\ m.from \in Accounts /\ m.to \in Accounts /\ m.amount \in 0 .. Width - 1
      /\ m.nonce \in Nat /\ m.amount \in Nat
      BY LedgerMessageIs, LgAssumption
<1>2. o.balances \in [Accounts -> 0 .. Width - 1] /\ o.entries \in Seq(LgEntries)
      BY DEF LedgerType
<1>3. new.entries = Append(o.entries, e) /\ new.balances = balances
      BY DEF Apply
<1>4. e \in LgEntries
  <2>1. mint \in BOOLEAN
        OBVIOUS
  <2> HIDE DEF mint
  <2> QED BY <1>1, <2>1 DEF LgEntries
<1> SUFFICES ASSUME NEW a \in Accounts, Received(new, a) < Width
             PROVE  new.balances[a] + Sent(new, a) = Received(new, a)
    BY DEF Backed
<1> DEFINE out == m.from = a /\ ~mint
           in == m.to = a
           d == IF out THEN o.balances[a] - m.amount ELSE o.balances[a]
<1>5. new.balances[a] = IF in THEN (d + m.amount) % Width ELSE d
  <2>1. debited \in [Accounts -> Int] /\ debited[a] = d
    <3>1. Width \in Nat /\ \A x \in Accounts : o.balances[x] \in Int
          BY <1>2, LgAssumption
    <3> QED BY <1>1, <1>2, <3>1
  <2> HIDE DEF debited, d
  <2> QED BY <1>1, <1>3, <2>1
<1>6. /\ Received(o, a) \in Nat /\ Sent(o, a) \in Nat
      /\ Received(new, a) = Received(o, a) + (IF in THEN m.amount ELSE 0)
      /\ Sent(new, a) = Sent(o, a) + (IF out THEN m.amount ELSE 0)
  <2>1. e.from = m.from /\ e.to = m.to /\ e.amount = m.amount /\ e.mint = mint
        OBVIOUS
  <2> HIDE DEF e, mint, new
  <2> QED BY <1>2, <1>3, <1>4, <2>1, EntryAdds
<1>7. /\ o.balances[a] \in 0 .. Width - 1
      /\ Received(o, a) < Width => o.balances[a] + Sent(o, a) = Received(o, a)
      BY <1>2 DEF Backed
<1>8. out => o.balances[a] >= m.amount
  <2>1. o.balances[a] \in Int /\ m.amount \in Int
        BY <1>1, <1>7, LgAssumption
  <2> QED BY <2>1
<1>9. out \in BOOLEAN /\ in \in BOOLEAN
      OBVIOUS
<1>10. Received(o, a) + (IF in THEN m.amount ELSE 0) < Width
      BY <1>6
<1> HIDE DEF out, in, new
<1>11. (IF in THEN (d + m.amount) % Width ELSE d)
          + (Sent(o, a) + (IF out THEN m.amount ELSE 0))
        = Received(o, a) + (IF in THEN m.amount ELSE 0)
      BY ONLY <1>1, <1>6, <1>7, <1>8, <1>9, <1>10, TransferBacked
<1> QED BY <1>5, <1>6, <1>11

LEMMA LgBackedStep == LgIInv /\ LgBacked /\ [LgNext]_lgVars => LgBacked'
<1> SUFFICES ASSUME LgIInv, LgBacked, [LgNext]_lgVars PROVE LgBacked'
    OBVIOUS
<1>1. \A n \in Nodes : ledger[n] \in LedgerType /\ Backed(ledger[n])
      BY DEF LgIInv, LgTypeOK, LedgerType, LgBacked, Backed
<1>2. SUFFICES \A n \in Nodes : Backed(ledger'[n])
      BY <1>2 DEF LgBacked, Backed, Received, Sent
<1>3. ledger \in [Nodes -> LedgerType]
      BY DEF LgIInv, LgTypeOK, LedgerType
<1>4. ASSUME NEW n \in Nodes, NEW m \in LgMessages, TakeTransfer(n, m)
      PROVE  \A k \in Nodes : Backed(ledger'[k])
  <2>1. \A k \in Nodes :
            ledger'[k] = IF k = n THEN Apply(ledger[n], m) ELSE ledger[k]
        BY <1>3, <1>4 DEF TakeTransfer
  <2>2. Backed(Apply(ledger[n], m))
        BY <1>1, ApplyBacked
  <2> QED BY <1>1, <2>1, <2>2
<1>5. ASSUME NEW n \in Nodes, LgReset(n)
      PROVE  \A k \in Nodes : Backed(ledger'[k])
  <2>1. \A k \in Nodes : ledger'[k] = IF k = n THEN FreshLedger ELSE ledger[k]
        BY <1>3, <1>5 DEF LgReset
  <2> QED BY <1>1, <2>1, FreshBacked
<1>6. ASSUME NEW n \in Nodes, NEW m \in LgMessages, DropTransfer(n, m)
      PROVE  ledger' = ledger
      BY <1>6 DEF DropTransfer
<1>7. CASE UNCHANGED lgVars
      BY <1>1, <1>7 DEF lgVars
<1> QED BY <1>1, <1>4, <1>5, <1>6, <1>7 DEF LgNext

\* No balance is more or less than the entries say, minted transfers aside,
\* although a balance wraps (add_message of ECDSALedgerObject).
THEOREM BalancesBacked == LgSpec => []LgBacked
<1>1. LgInit => LgBacked
      BY FreshBacked DEF LgInit, LgBacked, Backed
<1> QED BY <1>1, LgInitInv, LgNextInv, LgBackedStep, PTL DEF LgSpec

-----------------------------------------------------------------------------
(* Slush, Snowflake and Snowball *)

\* The votes that o holds for colour c in round r.
Held(o, r, c) == {m \in o.votes : m.round = r /\ m.color = c}

\* What holds for an object on its own, if p is the protocol.  The count of a
\* streak never exceeds the rounds that its colour has won.
ObjectInv(p, o) ==
    /\ o.votes # {} => o.color # Colorless
    /\ o.color = Colorless => o.count = 0 /\ \A c \in Colors : o.wins[c] = 0
    /\ p = "snowflake" /\ o.color # Colorless => o.count <= o.wins[o.color]
    /\ p = "snowball" /\ o.last # Colorless => o.count <= o.wins[o.last]
    /\ p = "snowball" /\ o.color # Colorless => o.wins[o.color] >= o.wins[Other(o.color)]
    /\ p # "slush" /\ o.accepted # Colorless => o.wins[o.accepted] > Beta
    /\ \A x \in o.saw : Cardinality(Held(o, x[1], x[2])) >= SampleThreshold

GotVotes ==
    /\ got \in [Nodes -> SUBSET SnowVotes]
    /\ IsFiniteSet(Published)

VotesGot == \A n \in Nodes : snow[n].votes \subseteq Published

SnowIInv ==
    /\ GotVotes /\ SnowTypeOK /\ SnowValidity /\ VotesGot
    /\ \A n \in Nodes : ObjectInv(protocol, snow[n])

LEMMA ColorsAre ==
    /\ Colorless \notin Colors
    /\ \A c \in Colors : /\ Other(c) \in Colors /\ Other(c) # c
                         /\ \A d \in Colors : d = c \/ d = Other(c)
BY SnowAssumption DEF Colors, Other

LEMMA SnowVoteIs ==
    \A m \in SnowVotes : /\ m.kind = "vote" /\ m.node \in NodeIds /\ m.round \in Nat
                         /\ m.color \in Colors
BY SnowAssumption DEF IsSnowVote

LEMMA SnowConstantsAre ==
    SampleThreshold \in Nat /\ SampleThreshold > 0 /\ Beta \in Nat
BY SnowAssumption

LEMMA SnowFields ==
    ASSUME NEW o \in SnowObject
    PROVE  /\ o = [color |-> o.color, accepted |-> o.accepted, last |-> o.last,
                   count |-> o.count, votes |-> o.votes, wins |-> o.wins, saw |-> o.saw]
           /\ o.color \in Colors \cup {Colorless} /\ o.accepted \in Colors \cup {Colorless}
           /\ o.last \in Colors \cup {Colorless} /\ o.count \in Nat
           /\ o.votes \in SUBSET SnowVotes /\ o.wins \in [Colors -> Nat]
           /\ o.saw \in SUBSET (Nat \X Colors)
BY DEF SnowObject

LEMMA FreshSnowIs ==
    /\ FreshSnow \in SnowObject /\ FreshSnow.votes = {}
    /\ FreshSnow.color = Colorless /\ FreshSnow.accepted = Colorless
    /\ \A p : ObjectInv(p, FreshSnow)
<1>1. [c \in Colors |-> 0] \in [Colors -> Nat]
      OBVIOUS
<1>2. FreshSnow \in SnowObject
      BY <1>1 DEF FreshSnow, SnowObject
<1>3. /\ FreshSnow.color = Colorless /\ FreshSnow.accepted = Colorless
      /\ FreshSnow.last = Colorless /\ FreshSnow.votes = {} /\ FreshSnow.saw = {}
      /\ FreshSnow.count = 0 /\ FreshSnow.wins = [c \in Colors |-> 0]
      BY DEF FreshSnow
<1> QED BY <1>2, <1>3 DEF ObjectInv

LEMMA SnowInitInv == SnowInit => SnowIInv
<1> SUFFICES ASSUME SnowInit PROVE SnowIInv
    OBVIOUS
<1>1. /\ got = [n \in Nodes |-> {}] /\ protocol \in Protocols /\ processed = 0
      /\ snow = [n \in Nodes |-> FreshSnow]
      BY DEF SnowInit, NetInit
<1>2. Published = {}
      BY <1>1 DEF Published
<1>3. GotVotes
      BY <1>1, <1>2, FS_EmptySet DEF GotVotes
<1> QED BY <1>1, <1>3, FreshSnowIs DEF SnowIInv, SnowTypeOK, SnowValidity, VotesGot

\* A majority is made of votes that the object holds.
LEMMA EnoughHeld ==
    ASSUME NEW n \in Nodes, snow[n] \in SnowObject, IsFiniteSet(snow[n].votes), NEW r,
           NEW c, EnoughVotes(n, r, c)
    PROVE  /\ Cardinality(Held(snow[n], r, c)) >= SampleThreshold
           /\ \E m \in snow[n].votes : m.round = r /\ m.color = c
<1> DEFINE votes == {m \in snow[n].votes : m.round = r /\ m.node # n /\ m.color = c}
           held == Held(snow[n], r, c)
<1>1. Cardinality(votes) >= SampleThreshold
      BY DEF EnoughVotes, CountVotes
<1>2. votes \subseteq held /\ held \subseteq snow[n].votes
      BY DEF Held
<1>3. \A m \in held : m \in snow[n].votes /\ m.round = r /\ m.color = c
      BY DEF Held
<1> HIDE DEF votes, held
<1>4. IsFiniteSet(held)
      BY <1>2, FS_Subset
<1>5. IsFiniteSet(votes) /\ Cardinality(votes) <= Cardinality(held)
      BY <1>2, <1>4, FS_Subset
<1>6. Cardinality(votes) \in Nat /\ Cardinality(held) \in Nat
      BY <1>4, <1>5, FS_CardinalityType
<1>7. Cardinality(held) >= SampleThreshold
      BY <1>1, <1>5, <1>6, SnowConstantsAre
<1>8. held # {}
  <2>1. Cardinality({}) = 0
        BY FS_EmptySet
  <2> QED BY <2>1, <1>6, <1>7, SnowConstantsAre
<1> QED BY <1>3, <1>7, <1>8 DEF held

\* What a step of an object may do to its preference and to what it accepted.
ObjectStep(o, new) ==
    /\ new \in SnowObject
    /\ ObjectInv(protocol, new)
    /\ new.votes = o.votes
    /\ new.color = o.color \/ \E m \in o.votes : m.color = new.color
    /\ new.accepted = o.accepted \/ new.accepted = new.color

\* One colour has won a round more.
LEMMA WinsAre ==
    ASSUME NEW o \in SnowObject, NEW c \in Colors
    PROVE  LET wins == [o.wins EXCEPT ![c] = o.wins[c] + 1]
           IN  /\ wins \in [Colors -> Nat]
               /\ wins[c] = o.wins[c] + 1
               /\ \A d \in Colors \ {c} : wins[d] = o.wins[d]
               /\ \A d \in Colors : o.wins[d] \in Nat /\ wins[d] \in Nat /\ wins[d] >= o.wins[d]
BY SnowFields

\* What was seen is still held, and so is what was just seen.
LEMMA SawHeld ==
    ASSUME NEW p, NEW o, ObjectInv(p, o), NEW r, NEW c, NEW new,
           new.votes = o.votes, new.saw = o.saw \cup {<<r, c>>},
           Cardinality(Held(o, r, c)) >= SampleThreshold
    PROVE  \A x \in new.saw : Cardinality(Held(new, x[1], x[2])) >= SampleThreshold
<1>1. \A x : Held(new, x[1], x[2]) = Held(o, x[1], x[2])
      BY DEF Held
<1>2. \A x \in o.saw : Cardinality(Held(o, x[1], x[2])) >= SampleThreshold
      BY DEF ObjectInv
<1> QED BY <1>1, <1>2

LEMMA SnowflakeStep ==
    ASSUME protocol = "snowflake", NEW o \in SnowObject, ObjectInv(protocol, o),
           NEW r \in Nat, NEW c \in Colors,
           Cardinality(Held(o, r, c)) >= SampleThreshold,
           NEW m \in o.votes, m.color = c
    PROVE  ObjectStep(o, Won(SnowflakeRound(o, c), r, c))
<1> DEFINE k == IF o.color = c THEN o.count + 1 ELSE 1
           accepted == IF k > Beta THEN c ELSE o.accepted
           wins == [o.wins EXCEPT ![c] = o.wins[c] + 1]
           saw == o.saw \cup {<<r, c>>}
           round == SnowflakeRound(o, c)
           new == Won(round, r, c)
<1>1. round = [o EXCEPT !.color = c, !.count = k, !.accepted = accepted]
      BY DEF SnowflakeRound
<1>2. /\ o.wins \in [Colors -> Nat] /\ o.count \in Nat
      /\ o.color \in Colors \cup {Colorless} /\ o.accepted \in Colors \cup {Colorless}
      /\ o.last \in Colors \cup {Colorless} /\ o.votes \in SUBSET SnowVotes
      /\ o.saw \in SUBSET (Nat \X Colors)
      BY SnowFields
<1>3. o = [color |-> o.color, accepted |-> o.accepted, last |-> o.last,
           count |-> o.count, votes |-> o.votes, wins |-> o.wins, saw |-> o.saw]
      BY SnowFields
<1>4. /\ k \in Nat
      /\ k = 1 \/ (o.color = c /\ k = o.count + 1)
      /\ accepted \in Colors \cup {Colorless}
      /\ accepted = o.accepted \/ (accepted = c /\ k > Beta)
      BY <1>2
<1>5. /\ wins \in [Colors -> Nat] /\ wins[c] = o.wins[c] + 1
      /\ \A d \in Colors : o.wins[d] \in Nat /\ wins[d] \in Nat /\ wins[d] >= o.wins[d]
      BY WinsAre
<1>6. saw \in SUBSET (Nat \X Colors)
      BY <1>2
<1> HIDE DEF k, accepted, round
<1>7. round = [color |-> c, accepted |-> accepted, last |-> o.last,
               count |-> k, votes |-> o.votes, wins |-> o.wins, saw |-> o.saw]
      BY <1>1, <1>3
<1>8. new = [round EXCEPT !.wins = wins, !.saw = saw]
      BY <1>7 DEF Won
<1> HIDE DEF wins, saw, new
<1>9. new = [color |-> c, accepted |-> accepted, last |-> o.last,
             count |-> k, votes |-> o.votes, wins |-> wins, saw |-> saw]
      BY <1>7, <1>8
<1>10. /\ new.color = c /\ new.accepted = accepted /\ new.count = k
       /\ new.votes = o.votes /\ new.wins = wins /\ new.saw = saw
       BY <1>9
<1>11. new \in SnowObject
       BY <1>2, <1>4, <1>5, <1>6, <1>9 DEF SnowObject
<1>12. k <= wins[c]
  <2>1. o.color = c => o.count <= o.wins[c]
        BY ColorsAre DEF ObjectInv
  <2> QED BY <2>1, <1>2, <1>4, <1>5
<1>13. accepted # Colorless => wins[accepted] > Beta
  <2>1. CASE accepted = o.accepted
    <3>1. accepted # Colorless => accepted \in Colors /\ o.wins[accepted] > Beta
          BY <2>1, <1>4 DEF ObjectInv
    <3> QED BY <3>1, <1>5, SnowConstantsAre
  <2>2. CASE accepted = c /\ k > Beta
        BY <2>2, <1>4, <1>5, <1>12, SnowConstantsAre
  <2> QED BY <2>1, <2>2, <1>4
<1>14. \A x \in new.saw : Cardinality(Held(new, x[1], x[2])) >= SampleThreshold
       BY <1>10, SawHeld DEF saw
<1>15. ObjectInv(protocol, new)
       BY <1>10, <1>12, <1>13, <1>14, ColorsAre DEF ObjectInv
<1>16. ObjectStep(o, new)
       BY <1>4, <1>10, <1>11, <1>15 DEF ObjectStep
<1> QED BY <1>16 DEF new, round

LEMMA SnowballStep ==
    ASSUME protocol = "snowball", NEW o \in SnowObject, ObjectInv(protocol, o),
           NEW r \in Nat, NEW c \in Colors,
           Cardinality(Held(o, r, c)) >= SampleThreshold,
           NEW m \in o.votes, m.color = c
    PROVE  ObjectStep(o, Won(SnowballRound(o, c), r, c))
<1> DEFINE k == IF o.last = c THEN o.count + 1 ELSE 1
           wins == [o.wins EXCEPT ![c] = o.wins[c] + 1]
           pref == IF o.color = Colorless \/ wins[c] > wins[o.color] THEN c ELSE o.color
           accepted == IF k > Beta THEN pref ELSE o.accepted
           saw == o.saw \cup {<<r, c>>}
           round == SnowballRound(o, c)
           new == Won(round, r, c)
<1>1. round = [o EXCEPT !.color = pref, !.last = c, !.count = k, !.accepted = accepted]
      BY DEF SnowballRound
<1>2. /\ o.wins \in [Colors -> Nat] /\ o.count \in Nat
      /\ o.color \in Colors \cup {Colorless} /\ o.accepted \in Colors \cup {Colorless}
      /\ o.last \in Colors \cup {Colorless} /\ o.votes \in SUBSET SnowVotes
      /\ o.saw \in SUBSET (Nat \X Colors)
      BY SnowFields
<1>3. o = [color |-> o.color, accepted |-> o.accepted, last |-> o.last,
           count |-> o.count, votes |-> o.votes, wins |-> o.wins, saw |-> o.saw]
      BY SnowFields
<1>4. /\ wins \in [Colors -> Nat] /\ wins[c] = o.wins[c] + 1
      /\ \A d \in Colors \ {c} : wins[d] = o.wins[d]
      /\ \A d \in Colors : o.wins[d] \in Nat /\ wins[d] \in Nat /\ wins[d] >= o.wins[d]
      BY WinsAre
<1>5. o.color \in Colors
      BY <1>2 DEF ObjectInv
<1>6. saw \in SUBSET (Nat \X Colors)
      BY <1>2
<1> HIDE DEF wins
<1>7. /\ k \in Nat
      /\ k = 1 \/ (o.last = c /\ k = o.count + 1)
      /\ pref = c \/ pref = o.color
      /\ pref \in Colors
      /\ wins[pref] >= wins[c] /\ wins[pref] >= wins[o.color]
  <2>1. k \in Nat /\ (k = 1 \/ (o.last = c /\ k = o.count + 1))
        BY <1>2
  <2>2. wins[c] \in Nat /\ wins[o.color] \in Nat
        BY <1>4, <1>5
  <2>3. o.color # Colorless
        BY <1>5, ColorsAre
  <2>4. CASE wins[c] > wins[o.color]
    <3>1. pref = c
          BY <2>4
    <3> QED BY <2>1, <2>2, <2>4, <3>1
  <2>5. CASE ~(wins[c] > wins[o.color])
    <3>1. pref = o.color
          BY <2>3, <2>5
    <3> QED BY <2>1, <2>2, <2>5, <3>1, <1>5
  <2> QED BY <2>4, <2>5
<1> HIDE DEF pref
<1>8. /\ accepted \in Colors \cup {Colorless}
      /\ accepted = o.accepted \/ (accepted = pref /\ k > Beta)
      BY <1>2, <1>7
<1> HIDE DEF k, accepted, round
<1>9. round = [color |-> pref, accepted |-> accepted, last |-> c,
               count |-> k, votes |-> o.votes, wins |-> o.wins, saw |-> o.saw]
      BY <1>1, <1>3
<1>10. new = [round EXCEPT !.wins = wins, !.saw = saw]
       BY <1>9 DEF Won, wins
<1> HIDE DEF saw, new
<1>11. new = [color |-> pref, accepted |-> accepted, last |-> c,
              count |-> k, votes |-> o.votes, wins |-> wins, saw |-> saw]
       BY <1>9, <1>10
<1>12. /\ new.color = pref /\ new.accepted = accepted /\ new.count = k /\ new.last = c
       /\ new.votes = o.votes /\ new.wins = wins /\ new.saw = saw
       BY <1>11
<1>13. new \in SnowObject
       BY <1>2, <1>4, <1>6, <1>7, <1>8, <1>11 DEF SnowObject
<1>14. k <= wins[c]
  <2>1. o.last = c => o.count <= o.wins[c]
        BY ColorsAre DEF ObjectInv
  <2> QED BY <2>1, <1>2, <1>4, <1>7
<1>15. accepted # Colorless => wins[accepted] > Beta
  <2>1. CASE accepted = o.accepted
    <3>1. accepted # Colorless => accepted \in Colors /\ o.wins[accepted] > Beta
          BY <2>1, <1>8 DEF ObjectInv
    <3> QED BY <3>1, <1>4, SnowConstantsAre
  <2>2. CASE accepted = pref /\ k > Beta
        BY <2>2, <1>4, <1>7, <1>14, SnowConstantsAre
  <2> QED BY <2>1, <2>2, <1>8
<1>16. wins[pref] >= wins[Other(pref)]
  <2>1. Other(pref) \in Colors
        BY <1>7, ColorsAre
  <2>2. CASE Other(pref) = c \/ Other(pref) = o.color
        BY <2>2, <1>7
  <2>3. CASE Other(pref) # c /\ Other(pref) # o.color
    <3>1. pref = c /\ o.color = pref
          BY <2>3, <1>5, <1>7, ColorsAre
    <3>2. o.wins[o.color] >= o.wins[Other(o.color)]
          BY <1>5, ColorsAre DEF ObjectInv
    <3> QED BY <3>1, <3>2, <2>1, <2>3, <1>4
  <2> QED BY <2>2, <2>3
<1>17. \A x \in new.saw : Cardinality(Held(new, x[1], x[2])) >= SampleThreshold
       BY <1>12, SawHeld DEF saw
<1>18. ObjectInv(protocol, new)
       BY <1>7, <1>12, <1>14, <1>15, <1>16, <1>17, ColorsAre DEF ObjectInv
<1>19. ObjectStep(o, new)
       BY <1>7, <1>8, <1>12, <1>13, <1>18 DEF ObjectStep
<1> QED BY <1>19 DEF new, round

LEMMA SlushStep ==
    ASSUME protocol = "slush", NEW n \in Nodes, snow[n] \in SnowObject,
           ObjectInv(protocol, snow[n]), IsFiniteSet(snow[n].votes), NEW r \in Nat
    PROVE  ObjectStep(snow[n], SlushRound(n, r))
<1> DEFINE o == snow[n]
           flips == {d \in Colors : EnoughVotes(n, r, d) /\ o.color # d}
           c == IF "Red" \in flips THEN "Red" ELSE "Blue"
           saw == o.saw \cup {<<r, c>>}
           new == [o EXCEPT !.color = c, !.saw = saw]
<1>1. SlushRound(n, r) = IF o.color = Colorless \/ flips = {} THEN o ELSE new
      BY DEF SlushRound
<1>2. o \in SnowObject
      OBVIOUS
<1>3. CASE o.color = Colorless \/ flips = {}
      BY <1>1, <1>3 DEF ObjectStep
<1>4. CASE ~(o.color = Colorless \/ flips = {})
  <2>1. c \in flips
        BY <1>4 DEF Colors
  <2>2. c \in Colors /\ EnoughVotes(n, r, c)
        BY <2>1
  <2> HIDE DEF flips, c
  <2>3. /\ Cardinality(Held(o, r, c)) >= SampleThreshold
        /\ \E m \in o.votes : m.round = r /\ m.color = c
        BY <2>2, EnoughHeld
  <2>4. /\ o = [color |-> o.color, accepted |-> o.accepted, last |-> o.last,
                count |-> o.count, votes |-> o.votes, wins |-> o.wins, saw |-> o.saw]
        /\ o.accepted \in Colors \cup {Colorless} /\ o.last \in Colors \cup {Colorless}
        /\ o.count \in Nat /\ o.votes \in SUBSET SnowVotes /\ o.wins \in [Colors -> Nat]
        /\ o.saw \in SUBSET (Nat \X Colors)
        BY <1>2, SnowFields
  <2>5. saw \in SUBSET (Nat \X Colors)
        BY <2>2, <2>4
  <2>6. ObjectInv(protocol, o)
        OBVIOUS
  <2> HIDE DEF o, saw
  <2>7. new = [color |-> c, accepted |-> o.accepted, last |-> o.last, count |-> o.count,
               votes |-> o.votes, wins |-> o.wins, saw |-> saw]
    <3>1. new = [o EXCEPT !.color = c, !.saw = saw]
          OBVIOUS
    <3> HIDE DEF new
    <3> QED BY <3>1, <2>4
  <2> HIDE DEF new
  <2>8. /\ new.color = c /\ new.accepted = o.accepted /\ new.count = o.count
        /\ new.votes = o.votes /\ new.wins = o.wins /\ new.saw = saw
        BY <2>7
  <2>9. new \in SnowObject
        BY <2>2, <2>4, <2>5, <2>7 DEF SnowObject
  <2>10. \A x \in new.saw : Cardinality(Held(new, x[1], x[2])) >= SampleThreshold
        BY <2>3, <2>6, <2>8, SawHeld DEF saw
  <2>11. ObjectInv(protocol, new)
        BY <2>2, <2>8, <2>10, ColorsAre DEF ObjectInv
  <2>12. ObjectStep(o, new)
        BY <2>3, <2>8, <2>9, <2>11 DEF ObjectStep
  <2> QED BY <1>1, <1>4, <2>12 DEF o, new, flips, c, saw
<1> QED BY <1>3, <1>4

\* A step of one object that takes no message.
LEMMA ObjectStepInv ==
    ASSUME SnowIInv, NEW n \in Nodes, NEW new, ObjectStep(snow[n], new),
           snow' = [snow EXCEPT ![n] = new], got' = got, protocol' = protocol,
           processed' \in Nat
    PROVE  SnowIInv'
<1>1. /\ GotVotes /\ SnowTypeOK /\ SnowValidity /\ VotesGot
      /\ \A x \in Nodes : ObjectInv(protocol, snow[x])
      BY DEF SnowIInv
<1>2. Published' = Published
      BY DEF Published
<1>3. /\ new \in SnowObject /\ ObjectInv(protocol, new) /\ new.votes = snow[n].votes
      /\ new.color = snow[n].color \/ \E m \in snow[n].votes : m.color = new.color
      /\ new.accepted = snow[n].accepted \/ new.accepted = new.color
      BY DEF ObjectStep
<1>4. /\ snow' \in [Nodes -> SnowObject] /\ snow'[n] = new
      /\ \A x \in Nodes \ {n} : snow'[x] = snow[x]
      BY <1>1, <1>3 DEF SnowTypeOK
<1>5. GotVotes' /\ SnowTypeOK' /\ VotesGot'
      BY <1>1, <1>2, <1>3, <1>4 DEF GotVotes, SnowTypeOK, VotesGot
<1>6. \A x \in Nodes : ObjectInv(protocol', snow'[x])
      BY <1>1, <1>3, <1>4
<1>7. SnowValidity'
  <2>1. \A m \in snow[n].votes : m \in OfKind(Published, "vote")
        BY <1>1, SnowVoteIs DEF VotesGot, SnowTypeOK, SnowObject, OfKind
  <2>2. \A c \in {snow[n].color, snow[n].accepted} \ {Colorless} :
            \E m \in OfKind(Published, "vote") : m.color = c
        BY <1>1 DEF SnowValidity
  <2>3. \A c \in {new.color, new.accepted} \ {Colorless} :
            \E m \in OfKind(Published, "vote") : m.color = c
        BY <2>1, <2>2, <1>3
  <2>4. OfKind(Published, "vote")' = OfKind(Published, "vote")
        BY <1>2 DEF OfKind
  <2> QED BY <2>3, <2>4, <1>1, <1>4 DEF SnowValidity
<1> QED BY <1>5, <1>6, <1>7 DEF SnowIInv

\* The object with one vote more, before it looks at the colour.
LEMMA VotedIs ==
    ASSUME NEW p, NEW o \in SnowObject, ObjectInv(p, o), NEW m \in SnowVotes,
           IsFiniteSet(o.votes), NEW new \in SnowObject,
           new.votes = o.votes \cup {m}, new.saw = o.saw
    PROVE  \A x \in new.saw : Cardinality(Held(new, x[1], x[2])) >= SampleThreshold
<1> SUFFICES ASSUME NEW x \in o.saw
             PROVE  Cardinality(Held(new, x[1], x[2])) >= SampleThreshold
    OBVIOUS
<1> DEFINE before == Held(o, x[1], x[2])
           after == Held(new, x[1], x[2])
<1>1. IsFiniteSet(new.votes)
      BY FS_AddElement
<1>2. before \subseteq after /\ after \subseteq new.votes
      BY DEF Held
<1>3. Cardinality(before) >= SampleThreshold
      BY DEF ObjectInv
<1> HIDE DEF before, after
<1>4. IsFiniteSet(after)
      BY <1>1, <1>2, FS_Subset
<1>5. IsFiniteSet(before) /\ Cardinality(before) <= Cardinality(after)
      BY <1>2, <1>4, FS_Subset
<1>6. Cardinality(before) \in Nat /\ Cardinality(after) \in Nat
      BY <1>4, <1>5, FS_CardinalityType
<1>7. Cardinality(after) >= SampleThreshold
      BY <1>3, <1>5, <1>6, SnowConstantsAre
<1> QED BY <1>7 DEF after

\* What a vote does to the object that takes it.
LEMMA VoteStep ==
    ASSUME NEW p \in Protocols, NEW o \in SnowObject, ObjectInv(p, o),
           NEW m \in SnowVotes, IsFiniteSet(o.votes)
    PROVE  LET voted == [o EXCEPT !.votes = @ \cup {m}]
               new == IF p = "snowball" THEN FirstPreference(voted, m)
                      ELSE FirstColor(voted, m)
           IN  /\ new \in SnowObject /\ ObjectInv(p, new)
               /\ new.votes = o.votes \cup {m} /\ new.accepted = o.accepted
               /\ new.color = o.color \/ new.color = m.color
<1> DEFINE voted == [o EXCEPT !.votes = @ \cup {m}]
           votes == o.votes \cup {m}
           new == IF p = "snowball" THEN FirstPreference(voted, m)
                  ELSE FirstColor(voted, m)
           color == IF o.color = Colorless THEN m.color ELSE o.color
           last == IF p = "snowball" /\ o.color = Colorless THEN m.color ELSE o.last
<1>1. /\ o = [color |-> o.color, accepted |-> o.accepted, last |-> o.last,
              count |-> o.count, votes |-> o.votes, wins |-> o.wins, saw |-> o.saw]
      /\ o.color \in Colors \cup {Colorless} /\ o.accepted \in Colors \cup {Colorless}
      /\ o.last \in Colors \cup {Colorless} /\ o.count \in Nat
      /\ o.votes \in SUBSET SnowVotes /\ o.wins \in [Colors -> Nat]
      /\ o.saw \in SUBSET (Nat \X Colors)
      BY SnowFields
<1>2. m.color \in Colors
      BY SnowVoteIs
<1>3. votes \in SUBSET SnowVotes
      BY <1>1
<1>4. /\ color \in Colors /\ last \in Colors \cup {Colorless}
      /\ color = o.color \/ color = m.color
      BY <1>1, <1>2
<1>5. voted = [color |-> o.color, accepted |-> o.accepted, last |-> o.last,
               count |-> o.count, votes |-> votes, wins |-> o.wins, saw |-> o.saw]
  <2>1. voted = [o EXCEPT !.votes = votes]
        OBVIOUS
  <2> HIDE DEF voted, votes
  <2> QED BY <2>1, <1>1
<1> HIDE DEF voted, votes
<1>6. new = [color |-> color, accepted |-> o.accepted, last |-> last,
             count |-> o.count, votes |-> votes, wins |-> o.wins, saw |-> o.saw]
  <2>1. voted.color = o.color
        BY <1>5
  <2>2. CASE o.color # Colorless
    <3>1. new = voted
          BY <2>1, <2>2 DEF FirstPreference, FirstColor
    <3>2. color = o.color /\ last = o.last
          BY <2>2
    <3> QED BY <3>1, <3>2, <1>5
  <2>3. CASE o.color = Colorless /\ p = "snowball"
    <3>1. new = [voted EXCEPT !.color = m.color, !.last = m.color]
          BY <2>1, <2>3 DEF FirstPreference
    <3>2. color = m.color /\ last = m.color
          BY <2>3
    <3> HIDE DEF new, color, last
    <3> QED BY <3>1, <3>2, <1>5
  <2>4. CASE o.color = Colorless /\ p # "snowball"
    <3>1. new = [voted EXCEPT !.color = m.color]
          BY <2>1, <2>4 DEF FirstColor
    <3>2. color = m.color /\ last = o.last
          BY <2>4
    <3> HIDE DEF new, color, last
    <3> QED BY <3>1, <3>2, <1>5
  <2> QED BY <2>2, <2>3, <2>4
<1>7. /\ o.color = Colorless => o.count = 0 /\ \A c \in Colors : o.wins[c] = 0
      /\ p = "snowflake" /\ o.color # Colorless => o.count <= o.wins[o.color]
      /\ p = "snowball" /\ o.last # Colorless => o.count <= o.wins[o.last]
      /\ p = "snowball" /\ o.color # Colorless => o.wins[o.color] >= o.wins[Other(o.color)]
      /\ p # "slush" /\ o.accepted # Colorless => o.wins[o.accepted] > Beta
      BY DEF ObjectInv
<1>8. /\ p = "snowflake" => o.count <= o.wins[color]
      /\ p = "snowball" /\ last # Colorless => o.count <= o.wins[last]
      /\ p = "snowball" => o.wins[color] >= o.wins[Other(color)]
  <2>1. CASE o.color # Colorless
        BY <2>1, <1>7
  <2>2. CASE o.color = Colorless
    <3>1. /\ color = m.color
          /\ last = m.color \/ p # "snowball"
          /\ o.count = 0 /\ \A c \in Colors : o.wins[c] = 0
          BY <2>2, <1>7
    <3>2. color = m.color /\ (p = "snowball" => last = m.color)
          BY <2>2
    <3> HIDE DEF color, last
    <3> QED BY <3>1, <3>2, <1>2, ColorsAre
  <2> QED BY <2>1, <2>2
<1> HIDE DEF new, color, last
<1>9. /\ new.color = color /\ new.accepted = o.accepted /\ new.last = last
      /\ new.count = o.count /\ new.votes = votes /\ new.wins = o.wins /\ new.saw = o.saw
      BY <1>6
<1>10. new \in SnowObject
       BY <1>1, <1>3, <1>4, <1>6 DEF SnowObject
<1>11. \A x \in new.saw : Cardinality(Held(new, x[1], x[2])) >= SampleThreshold
       BY <1>9, <1>10, VotedIs DEF votes
<1>12. ObjectInv(p, new)
       BY <1>4, <1>7, <1>8, <1>9, <1>11, ColorsAre DEF ObjectInv
<1> QED BY <1>4, <1>9, <1>10, <1>12 DEF new, voted, votes

LEMMA SnowVoteInv ==
    ASSUME SnowIInv, NEW n \in Nodes, NEW m \in SnowVotes, SnowVote(n, m)
    PROVE  SnowIInv'
<1> DEFINE o == snow[n]
           voted == [o EXCEPT !.votes = @ \cup {m}]
           new == IF protocol = "snowball" THEN FirstPreference(voted, m)
                  ELSE FirstColor(voted, m)
<1>1. /\ GotVotes /\ SnowTypeOK /\ SnowValidity /\ VotesGot
      /\ \A x \in Nodes : ObjectInv(protocol, snow[x])
      BY DEF SnowIInv
<1>2. /\ got' = [got EXCEPT ![n] = @ \cup {m}] /\ snow' = [snow EXCEPT ![n] = new]
      /\ protocol' = protocol /\ processed' = processed
      BY DEF SnowVote, Receive
<1>3. /\ o \in SnowObject /\ ObjectInv(protocol, o) /\ protocol \in Protocols
      /\ o.votes \subseteq Published
      BY <1>1 DEF SnowTypeOK, VotesGot
<1>4. IsFiniteSet(o.votes)
      BY <1>1, <1>3, FS_Subset DEF GotVotes
<1>5. /\ new \in SnowObject /\ ObjectInv(protocol, new)
      /\ new.votes = o.votes \cup {m} /\ new.accepted = o.accepted
      /\ new.color = o.color \/ new.color = m.color
      BY <1>3, <1>4, VoteStep
<1> HIDE DEF new
<1>6. /\ snow' \in [Nodes -> SnowObject] /\ snow'[n] = new
      /\ \A x \in Nodes \ {n} : snow'[x] = snow[x]
      BY <1>1, <1>2, <1>5 DEF SnowTypeOK
<1>7. /\ got' \in [Nodes -> SUBSET SnowVotes]
      /\ got'[n] = got[n] \cup {m} /\ \A x \in Nodes \ {n} : got'[x] = got[x]
      BY <1>1, <1>2 DEF GotVotes
<1>8. Published' = Published \cup {m}
  <2>1. Published' \subseteq Published \cup {m}
        BY <1>7 DEF Published
  <2>2. Published \subseteq Published' /\ m \in Published'
        BY <1>7 DEF Published
  <2> QED BY <2>1, <2>2
<1>9. GotVotes'
      BY <1>1, <1>7, <1>8, FS_AddElement DEF GotVotes
<1>10. SnowTypeOK' /\ VotesGot'
      BY <1>1, <1>2, <1>3, <1>5, <1>6, <1>8 DEF SnowTypeOK, VotesGot
<1>11. \A x \in Nodes : ObjectInv(protocol', snow'[x])
      BY <1>1, <1>2, <1>5, <1>6
<1>12. SnowValidity'
  <2>1. m \in OfKind(Published, "vote")'
        BY <1>8, SnowVoteIs DEF OfKind
  <2>2. OfKind(Published, "vote") \subseteq OfKind(Published, "vote")'
        BY <1>8 DEF OfKind
  <2>3. \A x \in Nodes : \A c \in {snow[x].color, snow[x].accepted} \ {Colorless} :
            \E y \in OfKind(Published, "vote") : y.color = c
        BY <1>1 DEF SnowValidity
  <2>4. \A c \in {new.color, new.accepted} \ {Colorless} :
            \E y \in OfKind(Published, "vote")' : y.color = c
        BY <2>1, <2>2, <2>3, <1>5
  <2>5. \A x \in Nodes \ {n} : \A c \in {snow'[x].color, snow'[x].accepted} \ {Colorless} :
            \E y \in OfKind(Published, "vote")' : y.color = c
        BY <2>2, <2>3, <1>6
  <2> QED BY <2>4, <2>5, <1>6 DEF SnowValidity
<1> QED BY <1>9, <1>10, <1>11, <1>12 DEF SnowIInv

\* What holds of the object of a node, for the lemmas on its steps.
LEMMA SnowObjectIs ==
    ASSUME SnowIInv, NEW n \in Nodes
    PROVE  /\ snow[n] \in SnowObject /\ ObjectInv(protocol, snow[n])
           /\ IsFiniteSet(snow[n].votes)
<1>1. snow[n] \in SnowObject /\ ObjectInv(protocol, snow[n])
      BY DEF SnowIInv, SnowTypeOK
<1>2. IsFiniteSet(Published) /\ snow[n].votes \subseteq Published
      BY DEF SnowIInv, GotVotes, VotesGot
<1> QED BY <1>1, <1>2, FS_Subset

LEMMA ProcessInv ==
    ASSUME SnowIInv, NEW n \in Nodes, NEW r \in Nat,
           ProcessSlush(n, r) \/ ProcessSnowflake(n, r) \/ ProcessSnowball(n, r)
    PROVE  SnowIInv'
<1>1. /\ snow[n] \in SnowObject /\ ObjectInv(protocol, snow[n])
      /\ IsFiniteSet(snow[n].votes)
      BY SnowObjectIs
<1>2. processed \in Nat /\ snow \in [Nodes -> SnowObject]
      BY DEF SnowIInv, SnowTypeOK
<1>3. /\ got' = got /\ protocol' = protocol /\ processed' \in Nat
      BY <1>2 DEF ProcessSlush, ProcessSnowflake, ProcessSnowball, Processing
<1>4. ASSUME NEW c \in Majority(n, r)
      PROVE  /\ c \in Colors /\ Cardinality(Held(snow[n], r, c)) >= SampleThreshold
             /\ \E m \in snow[n].votes : m.color = c
  <2>1. c \in Colors /\ EnoughVotes(n, r, c)
        BY DEF Majority
  <2> QED BY <2>1, <1>1, EnoughHeld
<1>5. ASSUME snow' = snow
      PROVE  SnowIInv'
  <2>1. ObjectStep(snow[n], snow[n])
        BY <1>1 DEF ObjectStep
  <2>2. snow' = [snow EXCEPT ![n] = snow[n]]
        BY <1>2, <1>5
  <2> QED BY <2>1, <2>2, <1>3, ObjectStepInv
<1>6. CASE ProcessSlush(n, r)
  <2>1. protocol = "slush" /\ snow' = [snow EXCEPT ![n] = SlushRound(n, r)]
        BY <1>6 DEF ProcessSlush
  <2>2. ObjectStep(snow[n], SlushRound(n, r))
        BY <2>1, <1>1, SlushStep
  <2> QED BY <2>1, <2>2, <1>3, ObjectStepInv
<1>7. CASE ProcessSnowflake(n, r)
  <2>1. protocol = "snowflake"
        BY <1>7 DEF ProcessSnowflake
  <2>2. ASSUME NEW c \in Majority(n, r),
               snow' = [snow EXCEPT ![n] = Won(SnowflakeRound(snow[n], c), r, c)]
        PROVE  SnowIInv'
    <3>1. ObjectStep(snow[n], Won(SnowflakeRound(snow[n], c), r, c))
          BY <2>1, <1>1, <1>4, SnowflakeStep
    <3> QED BY <2>2, <3>1, <1>3, ObjectStepInv
  <2> QED BY <2>2, <1>5, <1>7 DEF ProcessSnowflake
<1>8. CASE ProcessSnowball(n, r)
  <2>1. protocol = "snowball"
        BY <1>8 DEF ProcessSnowball
  <2>2. ASSUME NEW c \in Majority(n, r),
               snow' = [snow EXCEPT ![n] = Won(SnowballRound(snow[n], c), r, c)]
        PROVE  SnowIInv'
    <3>1. ObjectStep(snow[n], Won(SnowballRound(snow[n], c), r, c))
          BY <2>1, <1>1, <1>4, SnowballStep
    <3> QED BY <2>2, <3>1, <1>3, ObjectStepInv
  <2> QED BY <2>2, <1>5, <1>8 DEF ProcessSnowball
<1> QED BY <1>6, <1>7, <1>8

LEMMA FinalizeInv ==
    ASSUME SnowIInv, NEW n \in Nodes, Finalize(n)
    PROVE  SnowIInv'
<1> DEFINE o == snow[n]
           new == [o EXCEPT !.accepted = o.color]
<1>1. /\ protocol = "slush" /\ snow' = [snow EXCEPT ![n] = new]
      /\ got' = got /\ protocol' = protocol /\ processed' = processed
      BY DEF Finalize
<1>2. o \in SnowObject /\ ObjectInv(protocol, o)
      BY SnowObjectIs
<1>3. processed \in Nat
      BY DEF SnowIInv, SnowTypeOK
<1> HIDE DEF o
<1>4. /\ new \in SnowObject /\ new.accepted = o.color /\ new.color = o.color
      /\ new.votes = o.votes /\ new.count = o.count /\ new.wins = o.wins
      /\ new.saw = o.saw /\ new.last = o.last
      BY <1>2 DEF SnowObject
<1> HIDE DEF new
<1>5. \A x \in new.saw : Cardinality(Held(new, x[1], x[2])) >= SampleThreshold
      BY <1>2, <1>4 DEF ObjectInv, Held
<1>6. ObjectInv(protocol, new)
      BY <1>1, <1>2, <1>4, <1>5 DEF ObjectInv
<1>7. ObjectStep(o, new)
      BY <1>4, <1>6 DEF ObjectStep
<1> QED BY <1>1, <1>3, <1>7, ObjectStepInv DEF o

LEMMA SnowResetInv ==
    ASSUME SnowIInv, NEW n \in Nodes, SnowReset(n)
    PROVE  SnowIInv'
<1>1. /\ GotVotes /\ SnowTypeOK /\ SnowValidity /\ VotesGot
      /\ \A x \in Nodes : ObjectInv(protocol, snow[x])
      BY DEF SnowIInv
<1>2. /\ got' = got /\ snow' = [snow EXCEPT ![n] = FreshSnow]
      /\ protocol' = protocol /\ processed' = processed
      BY DEF SnowReset, Reset
<1>3. /\ snow' \in [Nodes -> SnowObject] /\ snow'[n] = FreshSnow
      /\ \A x \in Nodes \ {n} : snow'[x] = snow[x]
      BY <1>1, <1>2, FreshSnowIs DEF SnowTypeOK
<1>4. Published' = Published
      BY <1>2 DEF Published
<1>5. GotVotes' /\ SnowTypeOK' /\ VotesGot'
      BY <1>1, <1>2, <1>3, <1>4, FreshSnowIs DEF GotVotes, SnowTypeOK, VotesGot
<1>6. SnowValidity'
  <2>1. OfKind(Published, "vote")' = OfKind(Published, "vote")
        BY <1>4 DEF OfKind
  <2> QED BY <2>1, <1>1, <1>3, FreshSnowIs DEF SnowValidity
<1>7. \A x \in Nodes : ObjectInv(protocol', snow'[x])
      BY <1>1, <1>2, <1>3, FreshSnowIs
<1> QED BY <1>5, <1>6, <1>7 DEF SnowIInv

LEMMA SnowNextInv == SnowIInv /\ [SnowNext]_snowVars => SnowIInv'
<1> SUFFICES ASSUME SnowIInv, [SnowNext]_snowVars PROVE SnowIInv'
    OBVIOUS
<1>1. ASSUME NEW n \in Nodes, NEW m \in SnowVotes, SnowVote(n, m)
      PROVE  SnowIInv'
      BY <1>1, SnowVoteInv
<1>2. ASSUME NEW n \in Nodes, NEW r \in {m.round : m \in SnowVotes},
             ProcessSlush(n, r) \/ ProcessSnowflake(n, r) \/ ProcessSnowball(n, r)
      PROVE  SnowIInv'
  <2>1. r \in Nat
        BY SnowVoteIs
  <2> QED BY <2>1, <1>2, ProcessInv
<1>3. ASSUME NEW n \in Nodes, Finalize(n) \/ SnowReset(n)
      PROVE  SnowIInv'
      BY <1>3, FinalizeInv, SnowResetInv
<1>4. CASE UNCHANGED snowVars
  <2>1. got' = got /\ protocol' = protocol /\ snow' = snow /\ processed' = processed
        BY <1>4 DEF snowVars
  <2>2. /\ GotVotes /\ SnowTypeOK /\ SnowValidity /\ VotesGot
        /\ \A x \in Nodes : ObjectInv(protocol, snow[x])
        BY DEF SnowIInv
  <2>3. Published' = Published /\ OfKind(Published, "vote")' = OfKind(Published, "vote")
        BY <2>1 DEF Published, OfKind
  <2>4. GotVotes' /\ SnowTypeOK' /\ SnowValidity' /\ VotesGot'
        BY <2>1, <2>2, <2>3 DEF GotVotes, SnowTypeOK, SnowValidity, VotesGot
  <2>5. \A x \in Nodes : ObjectInv(protocol', snow'[x])
        BY <2>1, <2>2
  <2> QED BY <2>4, <2>5 DEF SnowIInv
<1> QED BY <1>1, <1>2, <1>3, <1>4 DEF SnowNext

LEMMA SnowInvFollows == SnowIInv => SnowInv
<1> SUFFICES ASSUME SnowIInv PROVE SnowInv
    OBVIOUS
<1>1. SnowAcceptedEarned
      BY DEF SnowIInv, ObjectInv, SnowAcceptedEarned
<1>2. SnowPreferenceLeads
      BY DEF SnowIInv, ObjectInv, SnowPreferenceLeads
<1> QED BY <1>1, <1>2 DEF SnowIInv, SnowInv

\* Slush, Snowflake and Snowball prefer and accept colours that were voted for;
\* what the latter two accept has won more rounds than Beta, and in Snowball no
\* colour has won more than the preference (process_round of the three objects).
THEOREM SnowVotesCount == SnowSpec => []SnowInv
BY SnowInitInv, SnowNextInv, SnowInvFollows, PTL DEF SnowSpec

\* Two majorities are of more voters than there are, if no voter votes twice.
LEMMA RoundsDontSplit == SnowIInv => SnowRoundsDontSplit
<1> SUFFICES ASSUME SnowIInv, 2 * SampleThreshold > Cardinality(NodeIds),
                    NEW n1 \in Nodes, NEW n2 \in Nodes,
                    NEW x \in snow[n1].saw, NEW y \in snow[n2].saw,
                    x[1] = y[1], Repeats(x[1]) = {}, x[2] # y[2]
             PROVE  FALSE
    BY DEF SnowRoundsDontSplit
<1> DEFINE r == x[1]
           A == Held(snow[n1], x[1], x[2])
           B == Held(snow[n2], y[1], y[2])
           votes == A \cup B
           voters == [m \in votes |-> m.node]
<1>1. Cardinality(A) >= SampleThreshold /\ Cardinality(B) >= SampleThreshold
      BY DEF SnowIInv, ObjectInv
<1>2. /\ IsFiniteSet(Published)
      /\ snow[n1].votes \subseteq Published /\ snow[n2].votes \subseteq Published
      BY DEF SnowIInv, GotVotes, VotesGot
<1>3. A \subseteq Published /\ B \subseteq Published /\ A \cap B = {}
      BY <1>2 DEF Held
<1>4. \A m \in votes : m.round = r
      BY DEF Held
<1>5. \A m \in Published : m.kind = "vote" /\ m.node \in NodeIds
      BY SnowVoteIs DEF SnowIInv, GotVotes, Published
<1> HIDE DEF A, B
<1>6. IsFiniteSet(A) /\ IsFiniteSet(B)
      BY <1>2, <1>3, FS_Subset
<1>7. Cardinality(A) \in Nat /\ Cardinality(B) \in Nat
      BY <1>6, FS_CardinalityType
<1>8. /\ IsFiniteSet(votes)
      /\ Cardinality(votes) = Cardinality(A) + Cardinality(B) - Cardinality(A \cap B)
      BY <1>6, FS_Union
<1>9. Cardinality(A \cap B) = 0
      BY <1>3, FS_EmptySet
<1>10. IsFiniteSet(NodeIds)
       BY SnowAssumption
<1>11. Cardinality(NodeIds) \in Nat
       BY <1>10, FS_CardinalityType
<1>12. Cardinality(NodeIds) < Cardinality(votes)
       BY <1>1, <1>7, <1>8, <1>9, <1>11, SnowConstantsAre
<1>13. votes \subseteq Published
       BY <1>3
<1> HIDE DEF votes, r
<1>14. voters \in [votes -> NodeIds]
       BY <1>5, <1>13
<1>15. \A m \in votes : voters[m] = m.node
       OBVIOUS
<1> HIDE DEF voters
<1>16. PICK a \in votes, b \in votes : a # b /\ a.node = b.node
  <2>1. \E a, b \in votes : a # b /\ voters[a] = voters[b]
        BY <1>8, <1>10, <1>12, <1>14, FS_PigeonHole
  <2> QED BY <2>1, <1>15
<1> DEFINE same == {m \in OfKind(Published, "vote") : m.round = r /\ m.node = a.node}
<1>17. same \subseteq Published
       BY DEF OfKind
<1>18. a \in same /\ b \in same
       BY <1>4, <1>5, <1>13, <1>16 DEF OfKind
<1> HIDE DEF same
<1>19. IsFiniteSet(same)
       BY <1>2, <1>17, FS_Subset
<1>20. Cardinality({a, b}) = 2
  <2>1. IsFiniteSet({a}) /\ Cardinality({a}) = 1
        BY FS_Singleton
  <2>2. Cardinality({a} \cup {b}) = IF b \in {a} THEN Cardinality({a})
                                    ELSE Cardinality({a}) + 1
        BY <2>1, FS_AddElement
  <2>3. {a} \cup {b} = {a, b} /\ b \notin {a}
        BY <1>16
  <2> QED BY <2>1, <2>2, <2>3
<1>21. Cardinality({a, b}) <= Cardinality(same)
       BY <1>18, <1>19, FS_Subset
<1>22. Cardinality(same) \in Nat
       BY <1>19, FS_CardinalityType
<1>23. Cardinality(same) > 1
       BY <1>20, <1>21, <1>22
<1>24. a.node \in NodeIds
       BY <1>5, <1>13
<1>25. a.node \in Repeats(r)
       BY <1>23, <1>24 DEF Repeats, same
<1> QED BY <1>25 DEF r

\* In a round whose voters vote once no two nodes find opposite majorities, if
\* a majority is more than half of the voters.
THEOREM SnowNoSplit == SnowSpec => []SnowRoundsDontSplit
BY SnowInitInv, SnowNextInv, RoundsDontSplit, PTL DEF SnowSpec

-----------------------------------------------------------------------------
GotBeacon == got \in [Nodes -> SUBSET BcMessages] /\ IsFiniteSet(Published)

\* p comes from a message of G for round r.
ProofTaken(G, r, p) ==
    \E m \in G : /\ m.kind = "proof" /\ m.round = r
                 /\ m.validator = p.validator /\ m.input = p.input

\* The proofs of s came for round r, each once.
TakenOnce(G, r, s) ==
    /\ \A i, j \in DOMAIN s : i # j => s[i] # s[j]
    /\ \A i \in DOMAIN s : ProofTaken(G, r, s[i])

BeaconTyped(o) ==
    o \in [validators : SUBSET BcValidators, round : Nat \ {0},
           proofs : [DOMAIN o.proofs -> Seq(BcProofs)],
           sigs : [DOMAIN o.sigs -> SUBSET BcValidators],
           challenges : SUBSET BcMessages,
           rounds : [DOMAIN o.rounds -> BcRounds]]

\* A round with enough proofs and signatures.
RoundEarned(G, r, final) ==
    /\ TakenOnce(G, r, final.proofs)
    /\ Len(final.proofs) >= Threshold
    /\ Cardinality(final.signers) >= Threshold

\* One object whose node took the messages G.
BeaconObjectInv(o, G) ==
    /\ BeaconTyped(o)
    /\ DOMAIN o.rounds = 1 .. o.round - 1
    /\ DOMAIN o.proofs \cup DOMAIN o.sigs \subseteq {o.round}
    /\ TakenOnce(G, o.round, ProofsOf(o, o.round))
    /\ \A r \in DOMAIN o.rounds : RoundEarned(G, r, o.rounds[r])

BcIInv ==
    /\ GotBeacon
    /\ DOMAIN bc = Nodes
    /\ \A n \in Nodes : BeaconObjectInv(bc[n], got[n]) /\ ~CanFinalizeRound(bc[n])

LEMMA BeaconMessageIs ==
    ASSUME NEW m \in BcMessages
    PROVE  /\ m.kind = "proof" => m \in [kind : {"proof"}, round : Nat,
                                         validator : BcValidators, input : Inputs]
           /\ m.kind \in {"signature", "registration"} => m.validator \in BcValidators
BY BcAssumption DEF IsBeaconMessage

LEMMA BeaconFields ==
    ASSUME NEW o, BeaconTyped(o)
    PROVE  /\ o = [validators |-> o.validators, round |-> o.round,
                   proofs |-> o.proofs, sigs |-> o.sigs,
                   challenges |-> o.challenges, rounds |-> o.rounds]
           /\ o.validators \subseteq BcValidators /\ o.round \in Nat \ {0}
           /\ o.proofs \in [DOMAIN o.proofs -> Seq(BcProofs)]
           /\ o.sigs \in [DOMAIN o.sigs -> SUBSET BcValidators]
           /\ o.challenges \subseteq BcMessages
           /\ o.rounds \in [DOMAIN o.rounds -> BcRounds]
BY DEF BeaconTyped

LEMMA BeaconOf ==
    ASSUME NEW V \in SUBSET BcValidators, NEW r \in Nat \ {0}, NEW p, NEW s,
           p \in [DOMAIN p -> Seq(BcProofs)], s \in [DOMAIN s -> SUBSET BcValidators],
           NEW c \in SUBSET BcMessages, NEW f, f \in [DOMAIN f -> BcRounds]
    PROVE  BeaconTyped([validators |-> V, round |-> r, proofs |-> p, sigs |-> s,
                        challenges |-> c, rounds |-> f])
BY DEF BeaconTyped

LEMMA PendingTyped ==
    ASSUME NEW o, BeaconTyped(o), NEW r
    PROVE  ProofsOf(o, r) \in Seq(BcProofs) /\ SignersOf(o, r) \in SUBSET BcValidators
<1>1. <<>> \in Seq(BcProofs)
      OBVIOUS
<1> QED BY <1>1, BeaconFields DEF ProofsOf, SignersOf

\* What was taken stays taken.
LEMMA TakenMore ==
    ASSUME NEW G, NEW H, G \subseteq H, NEW o, BeaconObjectInv(o, G)
    PROVE  BeaconObjectInv(o, H)
BY DEF BeaconObjectInv, RoundEarned, TakenOnce, ProofTaken

LEMMA FreshBeaconIs ==
    ASSUME NEW V \in SUBSET BcValidators, NEW G
    PROVE  BeaconObjectInv(FreshBeacon(V), G) /\ ~CanFinalizeRound(FreshBeacon(V))
           /\ FreshBeacon(V).round = 1
<1> DEFINE o == FreshBeacon(V)
<1>1. DOMAIN NoMap = {}
      BY DEF NoMap
<1>2. NoMap \in [DOMAIN NoMap -> Seq(BcProofs)]
      BY DEF NoMap
<1>3. NoMap \in [DOMAIN NoMap -> SUBSET BcValidators]
      BY DEF NoMap
<1>4. NoMap \in [DOMAIN NoMap -> BcRounds]
      BY DEF NoMap
<1>5. BeaconTyped(o)
  <2>1. 1 \in Nat \ {0} /\ {} \in SUBSET BcMessages
        OBVIOUS
  <2>2. BeaconTyped([validators |-> V, round |-> 1, proofs |-> NoMap, sigs |-> NoMap,
                     challenges |-> {}, rounds |-> NoMap])
        BY <2>1, <1>2, <1>3, <1>4, BeaconOf
  <2> QED BY <2>2 DEF FreshBeacon
<1>6. /\ o.round = 1 /\ o.proofs = NoMap /\ o.sigs = NoMap /\ o.rounds = NoMap
      BY DEF FreshBeacon
<1>7. ProofsOf(o, 1) = <<>>
      BY <1>1, <1>6 DEF ProofsOf
<1>8. TakenOnce(G, 1, <<>>)
      BY DEF TakenOnce
<1>9. ~CanFinalizeRound(o)
      BY <1>6, <1>7, BcAssumption DEF CanFinalizeRound
<1>10. 1 .. o.round - 1 = {}
       BY <1>6
<1> HIDE DEF o
<1>11. BeaconObjectInv(o, G)
       BY <1>1, <1>5, <1>6, <1>7, <1>8, <1>10 DEF BeaconObjectInv
<1> QED BY <1>6, <1>9, <1>11 DEF o

\* The step that a node takes after every message: at most one round is done,
\* and what was done stays as it is.
LEMMA FinalizedIs ==
    ASSUME NEW o, NEW G, BeaconObjectInv(o, G)
    PROVE  /\ BeaconObjectInv(Finalized(o), G)
           /\ ~CanFinalizeRound(Finalized(o))
           /\ \A r \in DOMAIN o.rounds : /\ r \in DOMAIN Finalized(o).rounds
                                         /\ Finalized(o).rounds[r] = o.rounds[r]
<1>1. CASE ~CanFinalizeRound(o)
      BY <1>1 DEF Finalized
<1>2. CASE CanFinalizeRound(o)
  <2> DEFINE R == o.round
             P == Without(o.proofs, o.round)
             S == Without(o.sigs, o.round)
             C == o.challenges \ ChallengesOf(o, o.round)
             F == With(o.rounds, o.round, FinalOf(o))
             N == o.round + 1
             new == [validators |-> o.validators, round |-> N, proofs |-> P, sigs |-> S,
                     challenges |-> C, rounds |-> F]
  <2>1. Finalized(o) = new
        BY <1>2 DEF Finalized, FinalizeRound
  <2>2. BeaconTyped(o)
        BY DEF BeaconObjectInv
  <2>3. /\ o = [validators |-> o.validators, round |-> o.round,
                proofs |-> o.proofs, sigs |-> o.sigs,
                challenges |-> o.challenges, rounds |-> o.rounds]
        /\ o.validators \subseteq BcValidators /\ R \in Nat \ {0}
        /\ o.challenges \subseteq BcMessages
        /\ o.rounds \in [DOMAIN o.rounds -> BcRounds]
        BY <2>2, BeaconFields
  <2>4. DOMAIN o.rounds = 1 .. R - 1 /\ DOMAIN o.proofs \cup DOMAIN o.sigs \subseteq {R}
        BY DEF BeaconObjectInv
  <2>5. DOMAIN P = {} /\ DOMAIN S = {}
        BY <2>4 DEF Without
  <2>6. P \in [DOMAIN P -> Seq(BcProofs)] /\ S \in [DOMAIN S -> SUBSET BcValidators]
        BY <2>5 DEF Without
  <2>7. C \in SUBSET BcMessages
        BY <2>3
  <2>8. ChallengesOf(o, R) \in SUBSET BcMessages
        BY <2>3 DEF ChallengesOf
  <2>9. FinalOf(o) \in BcRounds
        BY <2>2, <2>8, PendingTyped DEF FinalOf, BcRounds
  <2>10. /\ DOMAIN F = DOMAIN o.rounds \cup {R} /\ F[R] = FinalOf(o)
         /\ \A r \in DOMAIN o.rounds : r # R => F[r] = o.rounds[r]
         /\ F \in [DOMAIN F -> BcRounds]
         BY <2>3, <2>9 DEF With
  <2>11. DOMAIN F = 1 .. (R + 1) - 1
         BY <2>3, <2>4, <2>10
  <2>12. R \notin DOMAIN o.rounds
         BY <2>3, <2>4
  <2>13. RoundEarned(G, R, FinalOf(o))
         BY <1>2 DEF RoundEarned, BeaconObjectInv, FinalOf, CanFinalizeRound
  <2>14. \A r \in DOMAIN F : RoundEarned(G, r, F[r])
         BY <2>10, <2>13 DEF BeaconObjectInv
  <2>15. N = R + 1 /\ N \in Nat \ {0}
         BY <2>3
  <2> HIDE DEF P, S, C, F, N, new
  <2>16. new = [validators |-> o.validators, round |-> N, proofs |-> P, sigs |-> S,
                challenges |-> C, rounds |-> F]
         BY DEF new
  <2>17. BeaconTyped(new)
         BY <2>3, <2>6, <2>7, <2>10, <2>16, <2>15, BeaconOf
  <2>18. new.round = R + 1 /\ new.proofs = P /\ new.sigs = S /\ new.rounds = F
         BY <2>16, <2>15
  <2>19. ProofsOf(new, R + 1) = <<>>
         BY <2>5, <2>18 DEF ProofsOf
  <2>20. TakenOnce(G, R + 1, <<>>)
         BY DEF TakenOnce
  <2>21. BeaconObjectInv(new, G)
         BY <2>5, <2>11, <2>14, <2>17, <2>18, <2>19, <2>20 DEF BeaconObjectInv
  <2>22. ~CanFinalizeRound(new)
         BY <2>18, <2>19, BcAssumption DEF CanFinalizeRound
  <2>23. \A r \in DOMAIN o.rounds : r \in DOMAIN new.rounds /\ new.rounds[r] = o.rounds[r]
         BY <2>10, <2>12, <2>18
  <2> QED BY <2>1, <2>21, <2>22, <2>23
<1> QED BY <1>1, <1>2

LEMMA WithProofIs ==
    ASSUME NEW o, NEW G, BeaconObjectInv(o, G), NEW m \in BcMessages, m \notin G,
           G \subseteq BcMessages, m.kind = "proof", IsAdmitted(o, m)
    PROVE  /\ BeaconObjectInv(WithProof(o, m), G \cup {m})
           /\ WithProof(o, m).rounds = o.rounds
<1> DEFINE R == o.round
           H == G \cup {m}
           p == [validator |-> m.validator, input |-> m.input]
           s == ProofsOf(o, R)
           t == Append(s, p)
           P == With(o.proofs, R, t)
           new == [o EXCEPT !.proofs = P]
<1>1. BeaconObjectInv(o, H)
      BY TakenMore
<1>2. BeaconTyped(o) /\ m.round = R
      BY DEF BeaconObjectInv, IsAdmitted
<1>3. /\ o = [validators |-> o.validators, round |-> o.round,
              proofs |-> o.proofs, sigs |-> o.sigs,
              challenges |-> o.challenges, rounds |-> o.rounds]
      /\ o.validators \subseteq BcValidators /\ R \in Nat \ {0}
      /\ o.proofs \in [DOMAIN o.proofs -> Seq(BcProofs)]
      /\ o.sigs \in [DOMAIN o.sigs -> SUBSET BcValidators]
      /\ o.challenges \subseteq BcMessages
      /\ o.rounds \in [DOMAIN o.rounds -> BcRounds]
      BY <1>2, BeaconFields
<1>4. m \in [kind : {"proof"}, round : Nat, validator : BcValidators, input : Inputs]
      BY BeaconMessageIs
<1>5. p \in BcProofs
      BY <1>4 DEF BcProofs
<1>6. s \in Seq(BcProofs)
      BY <1>2, PendingTyped
<1>7. ~ProofTaken(G, R, p)
  <2> SUFFICES ASSUME NEW x \in G, x.kind = "proof", x.round = R,
                      x.validator = m.validator, x.input = m.input
               PROVE  FALSE
      BY DEF ProofTaken
  <2>1. x \in [kind : {"proof"}, round : Nat, validator : BcValidators, input : Inputs]
        BY BeaconMessageIs
  <2>2. x = m
        BY <2>1, <1>2, <1>4
  <2> QED BY <2>2
<1>8. ProofTaken(H, R, p)
      BY <1>2 DEF ProofTaken
<1>9. TakenOnce(G, R, s) /\ TakenOnce(H, R, s)
      BY <1>1 DEF BeaconObjectInv
<1> HIDE DEF H, s, p
<1>10. t \in Seq(BcProofs) /\ DOMAIN t = DOMAIN s \cup {Len(s) + 1}
       /\ t[Len(s) + 1] = p /\ \A i \in DOMAIN s : i # Len(s) + 1 /\ t[i] = s[i]
       BY <1>5, <1>6
<1>11. TakenOnce(H, R, t)
  <2>1. \A i \in DOMAIN s : s[i] # p
        BY <1>7, <1>9 DEF TakenOnce
  <2> HIDE DEF t
  <2> QED BY <2>1, <1>8, <1>9, <1>10 DEF TakenOnce
<1>12. DOMAIN P = DOMAIN o.proofs \cup {R} /\ P[R] = t
       /\ P \in [DOMAIN P -> Seq(BcProofs)]
  <2> HIDE DEF t
  <2> QED BY <1>3, <1>10 DEF With
<1>13. WithProof(o, m) = new
       BY <1>2 DEF WithProof, s, p
<1> HIDE DEF P, new, t
<1>14. new = [validators |-> o.validators, round |-> R, proofs |-> P, sigs |-> o.sigs,
              challenges |-> o.challenges, rounds |-> o.rounds]
       BY <1>3 DEF new
<1>15. BeaconTyped(new)
       BY <1>3, <1>12, <1>14, BeaconOf
<1>16. new.round = R /\ new.proofs = P /\ new.sigs = o.sigs /\ new.rounds = o.rounds
       BY <1>14
<1>17. ProofsOf(new, R) = t
       BY <1>12, <1>16 DEF ProofsOf
<1>18. BeaconObjectInv(new, H)
       BY <1>1, <1>11, <1>12, <1>15, <1>16, <1>17 DEF BeaconObjectInv
<1> QED BY <1>13, <1>16, <1>18 DEF H

LEMMA WithSignatureIs ==
    ASSUME NEW o, NEW G, BeaconObjectInv(o, G), NEW m \in BcMessages,
           m.kind = "signature", IsAdmitted(o, m)
    PROVE  /\ BeaconObjectInv(WithSignature(o, m), G)
           /\ WithSignature(o, m).rounds = o.rounds
<1> DEFINE R == o.round
           t == SignersOf(o, R) \cup {m.validator}
           S == With(o.sigs, R, t)
           new == [o EXCEPT !.sigs = S]
<1>1. BeaconTyped(o) /\ m.round = R
      BY DEF BeaconObjectInv, IsAdmitted
<1>2. /\ o = [validators |-> o.validators, round |-> o.round,
              proofs |-> o.proofs, sigs |-> o.sigs,
              challenges |-> o.challenges, rounds |-> o.rounds]
      /\ o.validators \subseteq BcValidators /\ R \in Nat \ {0}
      /\ o.proofs \in [DOMAIN o.proofs -> Seq(BcProofs)]
      /\ o.sigs \in [DOMAIN o.sigs -> SUBSET BcValidators]
      /\ o.challenges \subseteq BcMessages
      /\ o.rounds \in [DOMAIN o.rounds -> BcRounds]
      BY <1>1, BeaconFields
<1>3. t \in SUBSET BcValidators
      BY <1>1, PendingTyped, BeaconMessageIs
<1> HIDE DEF t
<1>4. DOMAIN S = DOMAIN o.sigs \cup {R} /\ S \in [DOMAIN S -> SUBSET BcValidators]
      BY <1>2, <1>3 DEF With
<1>5. WithSignature(o, m) = new
      BY <1>1 DEF WithSignature, t
<1> HIDE DEF S, new
<1>6. new = [validators |-> o.validators, round |-> R, proofs |-> o.proofs, sigs |-> S,
             challenges |-> o.challenges, rounds |-> o.rounds]
      BY <1>2 DEF new
<1>7. BeaconTyped(new)
      BY <1>2, <1>4, <1>6, BeaconOf
<1>8. new.round = R /\ new.proofs = o.proofs /\ new.sigs = S /\ new.rounds = o.rounds
      BY <1>6
<1>9. ProofsOf(new, R) = ProofsOf(o, R)
      BY <1>8 DEF ProofsOf
<1>10. BeaconObjectInv(new, G)
       BY <1>4, <1>7, <1>8, <1>9 DEF BeaconObjectInv
<1> QED BY <1>5, <1>8, <1>10

\* A validator or a challenge more changes nothing that is counted.
LEMMA WithOthersIs ==
    ASSUME NEW o, NEW G, BeaconObjectInv(o, G),
           NEW V \in SUBSET BcValidators, NEW C \in SUBSET BcMessages
    PROVE  BeaconObjectInv([validators |-> V, round |-> o.round, proofs |-> o.proofs,
                            sigs |-> o.sigs, challenges |-> C, rounds |-> o.rounds], G)
<1> DEFINE new == [validators |-> V, round |-> o.round, proofs |-> o.proofs,
                   sigs |-> o.sigs, challenges |-> C, rounds |-> o.rounds]
<1>1. BeaconTyped(o)
      BY DEF BeaconObjectInv
<1>2. BeaconTyped(new)
      BY <1>1, BeaconFields, BeaconOf
<1>3. /\ new.round = o.round /\ new.proofs = o.proofs /\ new.sigs = o.sigs
      /\ new.rounds = o.rounds
      OBVIOUS
<1> HIDE DEF new
<1>4. ProofsOf(new, new.round) = ProofsOf(o, o.round)
      BY <1>3 DEF ProofsOf
<1>5. BeaconObjectInv(new, G)
      BY <1>2, <1>3, <1>4 DEF BeaconObjectInv
<1> QED BY <1>5 DEF new

LEMMA WithValidatorIs ==
    ASSUME NEW o, NEW G, BeaconObjectInv(o, G), NEW m \in BcMessages,
           m.kind = "registration"
    PROVE  /\ BeaconObjectInv(WithValidator(o, m), G)
           /\ WithValidator(o, m).rounds = o.rounds
<1> DEFINE V == o.validators \cup {m.validator}
<1>1. BeaconTyped(o)
      BY DEF BeaconObjectInv
<1>2. /\ o = [validators |-> o.validators, round |-> o.round,
              proofs |-> o.proofs, sigs |-> o.sigs,
              challenges |-> o.challenges, rounds |-> o.rounds]
      /\ o.validators \subseteq BcValidators /\ o.challenges \subseteq BcMessages
      BY <1>1, BeaconFields
<1>3. V \in SUBSET BcValidators
      BY <1>2, BeaconMessageIs
<1>4. WithValidator(o, m) = [o EXCEPT !.validators = V]
      BY DEF WithValidator
<1> HIDE DEF V
<1>5. WithValidator(o, m) = [validators |-> V, round |-> o.round, proofs |-> o.proofs,
                             sigs |-> o.sigs, challenges |-> o.challenges,
                             rounds |-> o.rounds]
      BY <1>2, <1>4
<1> QED BY <1>2, <1>3, <1>5, WithOthersIs

LEMMA WithChallengeIs ==
    ASSUME NEW o, NEW G, BeaconObjectInv(o, G), NEW m \in BcMessages
    PROVE  /\ BeaconObjectInv(WithChallenge(o, m), G)
           /\ WithChallenge(o, m).rounds = o.rounds
<1> DEFINE C == o.challenges \cup {m}
<1>1. BeaconTyped(o)
      BY DEF BeaconObjectInv
<1>2. /\ o = [validators |-> o.validators, round |-> o.round,
              proofs |-> o.proofs, sigs |-> o.sigs,
              challenges |-> o.challenges, rounds |-> o.rounds]
      /\ o.validators \subseteq BcValidators /\ o.challenges \subseteq BcMessages
      BY <1>1, BeaconFields
<1>3. C \in SUBSET BcMessages
      BY <1>2
<1>4. WithChallenge(o, m) = [o EXCEPT !.challenges = C]
      BY DEF WithChallenge
<1> HIDE DEF C
<1>5. WithChallenge(o, m) = [validators |-> o.validators, round |-> o.round,
                             proofs |-> o.proofs, sigs |-> o.sigs, challenges |-> C,
                             rounds |-> o.rounds]
      BY <1>2, <1>4
<1> QED BY <1>2, <1>3, <1>5, WithOthersIs

\* One message at one node: the object stays in order, no round waits, and
\* the finalised rounds stay as they are.
BeaconObjectStep(n) ==
    /\ BeaconObjectInv(bc'[n], got'[n]) /\ ~CanFinalizeRound(bc'[n])
    /\ \A r \in DOMAIN bc[n].rounds : /\ r \in DOMAIN bc'[n].rounds
                                      /\ bc'[n].rounds[r] = bc[n].rounds[r]

LEMMA ReceiveIs ==
    ASSUME NEW n \in Nodes, NEW m \in BcMessages, GotBeacon, Receive(n, m)
    PROVE  /\ m \notin got[n] /\ got'[n] = got[n] \cup {m}
           /\ \A x \in Nodes \ {n} : got'[x] = got[x]
           /\ \A x \in Nodes : got[x] \subseteq BcMessages
           /\ GotBeacon'
<1>1. got \in [Nodes -> SUBSET BcMessages] /\ IsFiniteSet(Published)
      BY DEF GotBeacon
<1>2. /\ m \notin got[n] /\ got' = [got EXCEPT ![n] = got[n] \cup {m}]
      BY DEF Receive
<1>3. /\ got' \in [Nodes -> SUBSET BcMessages]
      /\ got'[n] = got[n] \cup {m}
      /\ \A x \in Nodes \ {n} : got'[x] = got[x]
      BY <1>1, <1>2
<1>4. Published' = Published \cup {m}
      BY <1>3 DEF Published
<1>5. IsFiniteSet(Published')
      BY <1>1, <1>4, FS_AddElement
<1> QED BY <1>1, <1>2, <1>3, <1>5 DEF GotBeacon

LEMMA BeaconMessageStep ==
    ASSUME BcIInv, NEW n \in Nodes, NEW m \in BcMessages,
           \/ TakeProof(n, m)
           \/ TakeSignature(n, m)
           \/ IgnoreContribution(n, m)
           \/ TakeRegistration(n, m)
           \/ TakeChallenge(n, m)
           \/ TakeFinalized(n, m)
    PROVE  /\ Receive(n, m)
           /\ DOMAIN bc' = Nodes
           /\ \A x \in Nodes \ {n} : bc'[x] = bc[x]
           /\ BeaconObjectStep(n)
<1> DEFINE o == bc[n]
           G == got[n]
<1>1. Receive(n, m)
      BY DEF TakeProof, TakeSignature, IgnoreContribution, TakeRegistration,
             TakeChallenge, TakeFinalized
<1>2. /\ m \notin G /\ got'[n] = G \cup {m} /\ G \subseteq BcMessages
      BY <1>1, ReceiveIs DEF BcIInv
<1>3. BeaconObjectInv(o, G) /\ ~CanFinalizeRound(o) /\ DOMAIN bc = Nodes
      BY DEF BcIInv
<1>4. BeaconObjectInv(o, got'[n])
      BY <1>2, <1>3, TakenMore
<1> DEFINE Elsewhere == /\ DOMAIN bc' = Nodes
                        /\ \A x \in Nodes \ {n} : bc'[x] = bc[x]
<1>5. ASSUME NEW mid, BeaconObjectInv(mid, got'[n]), mid.rounds = o.rounds,
             bc' = [bc EXCEPT ![n] = Finalized(mid)]
      PROVE  Elsewhere /\ BeaconObjectStep(n)
  <2>1. Elsewhere /\ bc'[n] = Finalized(mid)
        BY <1>3, <1>5
  <2>2. /\ BeaconObjectInv(Finalized(mid), got'[n]) /\ ~CanFinalizeRound(Finalized(mid))
        /\ \A r \in DOMAIN mid.rounds : /\ r \in DOMAIN Finalized(mid).rounds
                                        /\ Finalized(mid).rounds[r] = mid.rounds[r]
        BY <1>5, FinalizedIs
  <2> QED BY <2>1, <2>2, <1>5 DEF BeaconObjectStep
<1>6. CASE TakeProof(n, m)
  <2>1. m.kind = "proof" /\ IsAdmitted(o, m)
        /\ bc' = [bc EXCEPT ![n] = Finalized(WithProof(o, m))]
        BY <1>6 DEF TakeProof
  <2>2. /\ BeaconObjectInv(WithProof(o, m), got'[n])
        /\ WithProof(o, m).rounds = o.rounds
        BY <2>1, <1>2, <1>3, WithProofIs
  <2> HIDE DEF o, G
  <2> QED BY <1>1, <1>5, <2>1, <2>2
<1>7. CASE TakeSignature(n, m)
  <2>1. m.kind = "signature" /\ IsAdmitted(o, m)
        /\ bc' = [bc EXCEPT ![n] = Finalized(WithSignature(o, m))]
        BY <1>7 DEF TakeSignature
  <2>2. /\ BeaconObjectInv(WithSignature(o, m), got'[n])
        /\ WithSignature(o, m).rounds = o.rounds
        BY <2>1, <1>4, WithSignatureIs
  <2> HIDE DEF o, G
  <2> QED BY <1>1, <1>5, <2>1, <2>2
<1>8. CASE IgnoreContribution(n, m)
  <2>1. bc' = bc
        BY <1>8 DEF IgnoreContribution
  <2> QED BY <2>1, <1>1, <1>3, <1>4 DEF BeaconObjectStep
<1>9. CASE TakeRegistration(n, m)
  <2>1. m.kind = "registration"
        /\ bc' = [bc EXCEPT ![n] = Finalized(WithValidator(o, m))]
        BY <1>9 DEF TakeRegistration
  <2>2. /\ BeaconObjectInv(WithValidator(o, m), got'[n])
        /\ WithValidator(o, m).rounds = o.rounds
        BY <2>1, <1>4, WithValidatorIs
  <2> HIDE DEF o, G
  <2> QED BY <1>1, <1>5, <2>1, <2>2
<1>10. CASE TakeChallenge(n, m)
  <2>1. bc' = [bc EXCEPT ![n] = Finalized(WithChallenge(o, m))]
        BY <1>10 DEF TakeChallenge
  <2>2. /\ BeaconObjectInv(WithChallenge(o, m), got'[n])
        /\ WithChallenge(o, m).rounds = o.rounds
        BY <1>4, WithChallengeIs
  <2> HIDE DEF o, G
  <2> QED BY <1>1, <1>5, <2>1, <2>2
<1>11. CASE TakeFinalized(n, m)
  <2>1. bc' = [bc EXCEPT ![n] = Finalized(o)]
        BY <1>11 DEF TakeFinalized
  <2> HIDE DEF o, G
  <2> QED BY <1>1, <1>4, <1>5, <2>1
<1> QED BY <1>6, <1>7, <1>8, <1>9, <1>10, <1>11

LEMMA BcResetIs ==
    ASSUME BcIInv, NEW n \in Nodes, BcReset(n)
    PROVE  /\ got' = got /\ DOMAIN bc' = Nodes
           /\ \A x \in Nodes \ {n} : bc'[x] = bc[x]
           /\ BeaconObjectInv(bc'[n], got[n]) /\ ~CanFinalizeRound(bc'[n])
           /\ bc'[n].round = 1
<1> DEFINE V == bc[n].validators
<1>1. DOMAIN bc = Nodes /\ BeaconTyped(bc[n])
      BY DEF BcIInv, BeaconObjectInv
<1>2. V \in SUBSET BcValidators
      BY <1>1, BeaconFields
<1>3. /\ DOMAIN bc' = Nodes /\ bc'[n] = FreshBeacon(V)
      /\ \A x \in Nodes \ {n} : bc'[x] = bc[x]
      BY <1>1 DEF BcReset
<1>4. got' = got
      BY DEF BcReset, Reset
<1> QED BY <1>2, <1>3, <1>4, FreshBeaconIs

LEMMA BcInitInv == BcInit => BcIInv
<1> SUFFICES ASSUME BcInit PROVE BcIInv
    OBVIOUS
<1>1. got = [n \in Nodes |-> {}] /\ bc = [n \in Nodes |-> FreshBeacon({})]
      BY DEF BcInit, NetInit
<1>2. Published = {}
      BY <1>1 DEF Published
<1>3. GotBeacon
      BY <1>1, <1>2, FS_EmptySet DEF GotBeacon
<1>4. {} \in SUBSET BcValidators
      OBVIOUS
<1>5. \A n \in Nodes : BeaconObjectInv(bc[n], got[n]) /\ ~CanFinalizeRound(bc[n])
      BY <1>1, <1>4, FreshBeaconIs
<1> QED BY <1>1, <1>3, <1>5 DEF BcIInv

LEMMA BcNextInv == BcIInv /\ [BcNext]_bcVars => BcIInv'
<1> SUFFICES ASSUME BcIInv, [BcNext]_bcVars PROVE BcIInv'
    OBVIOUS
<1>1. /\ GotBeacon /\ DOMAIN bc = Nodes
      /\ \A x \in Nodes : BeaconObjectInv(bc[x], got[x]) /\ ~CanFinalizeRound(bc[x])
      BY DEF BcIInv
<1>2. ASSUME NEW n \in Nodes, NEW m \in BcMessages,
             \/ TakeProof(n, m)
             \/ TakeSignature(n, m)
             \/ IgnoreContribution(n, m)
             \/ TakeRegistration(n, m)
             \/ TakeChallenge(n, m)
             \/ TakeFinalized(n, m)
      PROVE  BcIInv'
  <2>1. /\ Receive(n, m) /\ DOMAIN bc' = Nodes
        /\ \A x \in Nodes \ {n} : bc'[x] = bc[x]
        /\ BeaconObjectInv(bc'[n], got'[n]) /\ ~CanFinalizeRound(bc'[n])
        BY <1>2, BeaconMessageStep DEF BeaconObjectStep
  <2>2. GotBeacon' /\ \A x \in Nodes \ {n} : got'[x] = got[x]
        BY <1>1, <2>1, ReceiveIs
  <2>3. \A x \in Nodes : BeaconObjectInv(bc'[x], got'[x]) /\ ~CanFinalizeRound(bc'[x])
        BY <1>1, <2>1, <2>2
  <2> QED BY <2>1, <2>2, <2>3 DEF BcIInv
<1>3. ASSUME NEW n \in Nodes, BcReset(n)
      PROVE  BcIInv'
  <2>1. /\ got' = got /\ DOMAIN bc' = Nodes
        /\ \A x \in Nodes \ {n} : bc'[x] = bc[x]
        /\ BeaconObjectInv(bc'[n], got[n]) /\ ~CanFinalizeRound(bc'[n])
        BY <1>3, BcResetIs
  <2>2. GotBeacon'
        BY <1>1, <2>1 DEF GotBeacon, Published
  <2>3. \A x \in Nodes : BeaconObjectInv(bc'[x], got'[x]) /\ ~CanFinalizeRound(bc'[x])
        BY <1>1, <2>1
  <2> QED BY <2>1, <2>2, <2>3 DEF BcIInv
<1>4. CASE UNCHANGED bcVars
  <2>1. got' = got /\ bc' = bc
        BY <1>4 DEF bcVars
  <2>2. GotBeacon'
        BY <1>1, <2>1 DEF GotBeacon, Published
  <2> QED BY <1>1, <2>1, <2>2 DEF BcIInv
<1> QED BY <1>2, <1>3, <1>4 DEF BcNext

\* Two proofs of one validator for one round are two messages.
LEMMA ParticipantsAreMany ==
    ASSUME GotBeacon, NEW n \in Nodes, NEW r \in Nat, NEW s \in Seq(BcProofs),
           TakenOnce(got[n], r, s), Repeaters(r) = {}
    PROVE  Cardinality({s[i].validator : i \in DOMAIN s}) = Len(s)
<1> DEFINE from == {s[i].validator : i \in DOMAIN s}
           who == [i \in 1 .. Len(s) |-> s[i].validator]
<1>1. Len(s) \in Nat /\ DOMAIN s = 1 .. Len(s)
      OBVIOUS
<1>2. who \in Surjection(1 .. Len(s), from)
      BY <1>1 DEF Surjection
<1>3. IsFiniteSet(1 .. Len(s)) /\ Cardinality(1 .. Len(s)) = Len(s)
  <2> DEFINE k == Len(s)
  <2>1. k \in Nat /\ k \in Int /\ 1 \in Int
        BY <1>1
  <2> HIDE DEF k
  <2>2. /\ IsFiniteSet(1 .. k)
        /\ Cardinality(1 .. k) = IF 1 > k THEN 0 ELSE k - 1 + 1
        BY <2>1, FS_Interval
  <2>3. Cardinality(1 .. k) = k
        BY <2>1, <2>2
  <2> QED BY <2>2, <2>3 DEF k
<1>4. \A i \in 1 .. Len(s) : who[i] = s[i].validator
      OBVIOUS
<1>5. ASSUME NEW i \in 1 .. Len(s), NEW j \in 1 .. Len(s), i # j,
             s[i].validator = s[j].validator
      PROVE  FALSE
  <2>1. PICK a \in got[n] : a.kind = "proof" /\ a.round = r
                            /\ a.validator = s[i].validator /\ a.input = s[i].input
        BY <1>1 DEF TakenOnce, ProofTaken
  <2>2. PICK b \in got[n] : b.kind = "proof" /\ b.round = r
                            /\ b.validator = s[j].validator /\ b.input = s[j].input
        BY <1>1 DEF TakenOnce, ProofTaken
  <2>3. s[i] # s[j]
        BY <1>1, <1>5 DEF TakenOnce
  <2>4. s[i] \in BcProofs /\ s[j] \in BcProofs
        BY <1>1
  <2>5. a # b
        BY <1>5, <2>1, <2>2, <2>3, <2>4 DEF BcProofs
  <2> DEFINE v == a.validator
             same == {m \in OfKind(Published, "proof") : m.round = r /\ m.validator = v}
  <2>6. v \in BcValidators
        BY <2>1, <2>4 DEF BcProofs
  <2>7. IsFiniteSet(Published) /\ a \in Published /\ b \in Published
        BY DEF GotBeacon, Published
  <2>8. same \subseteq Published /\ a \in same /\ b \in same
        BY <1>5, <2>1, <2>2, <2>7 DEF OfKind
  <2> HIDE DEF same
  <2>9. IsFiniteSet(same)
        BY <2>7, <2>8, FS_Subset
  <2>10. Cardinality({a, b}) = 2
    <3>1. IsFiniteSet({a}) /\ Cardinality({a}) = 1
          BY FS_Singleton
    <3>2. Cardinality({a} \cup {b}) = IF b \in {a} THEN Cardinality({a})
                                      ELSE Cardinality({a}) + 1
          BY <3>1, FS_AddElement
    <3>3. {a} \cup {b} = {a, b} /\ b \notin {a}
          BY <2>5
    <3> QED BY <3>1, <3>2, <3>3
  <2>11. Cardinality({a, b}) <= Cardinality(same)
         BY <2>8, <2>9, FS_Subset
  <2>12. Cardinality(same) \in Nat
         BY <2>9, FS_CardinalityType
  <2>13. Cardinality(same) > 1
         BY <2>10, <2>11, <2>12
  <2>14. v \in Repeaters(r)
         BY <2>6, <2>13 DEF Repeaters, same
  <2> QED BY <2>14
<1>6. who \in Injection(1 .. Len(s), from)
      BY <1>1, <1>2, <1>5 DEF Injection, IsInjective, Surjection
<1> HIDE DEF who, from
<1>7. Cardinality(from) = Cardinality(1 .. Len(s))
      BY <1>2, <1>3, <1>6, FS_Surjection
<1> QED BY <1>3, <1>7 DEF from

LEMMA BcInvFollows == BcIInv => BcInv
<1> SUFFICES ASSUME BcIInv PROVE BcInv
    OBVIOUS
<1>1. /\ GotBeacon /\ DOMAIN bc = Nodes
      /\ \A n \in Nodes : BeaconObjectInv(bc[n], got[n]) /\ ~CanFinalizeRound(bc[n])
      BY DEF BcIInv
<1>2. \A n \in Nodes : BeaconTyped(bc[n])
      BY <1>1 DEF BeaconObjectInv
<1>3. BcTypeOK
      BY <1>1, <1>2 DEF BcTypeOK, BeaconTyped
<1>4. BcRoundsComplete
      BY <1>1 DEF BcRoundsComplete, BeaconObjectInv
<1>5. BcNoRoundWaits
      BY <1>1 DEF BcNoRoundWaits
<1>6. ASSUME NEW n \in Nodes, NEW r \in DOMAIN bc[n].rounds
      PROVE  /\ Cardinality(bc[n].rounds[r].signers) >= Threshold
             /\ Repeaters(r) = {} => Cardinality(Participants(n, r)) >= Threshold
  <2> DEFINE s == bc[n].rounds[r].proofs
  <2>1. /\ TakenOnce(got[n], r, s) /\ Len(s) >= Threshold
        /\ Cardinality(bc[n].rounds[r].signers) >= Threshold
        BY <1>1 DEF BeaconObjectInv, RoundEarned
  <2>2. bc[n].rounds \in [DOMAIN bc[n].rounds -> BcRounds] /\ bc[n].round \in Nat
        BY <1>2, BeaconFields
  <2>3. s \in Seq(BcProofs)
        BY <2>2 DEF BcRounds
  <2>4. DOMAIN bc[n].rounds = 1 .. bc[n].round - 1
        BY <1>1 DEF BeaconObjectInv
  <2>5. r \in Nat
        BY <2>2, <2>4
  <2> HIDE DEF s
  <2>6. Repeaters(r) = {} => Cardinality({s[i].validator : i \in DOMAIN s}) = Len(s)
        BY <1>1, <2>1, <2>3, <2>5, ParticipantsAreMany
  <2>7. Participants(n, r) = {s[i].validator : i \in DOMAIN s}
        BY DEF Participants, s
  <2> QED BY <2>1, <2>6, <2>7
<1>7. BcEnoughParticipants
      BY <1>6 DEF BcEnoughParticipants
<1> QED BY <1>3, <1>4, <1>5, <1>7 DEF BcInv

\* What a node of the beacon keeps of rounds is in order: the rounds before the
\* current one and no others are finalised, each with as many signers, and as
\* many participants if none came twice, as Threshold asks for, and none waits
\* (check_and_finalize_round, add_message of RandomnessBeaconObject).
THEOREM BeaconRoundsInOrder == BcSpec => []BcInv
BY BcInitInv, BcNextInv, BcInvFollows, PTL DEF BcSpec

LEMMA BcStepKeepsRounds ==
    ASSUME BcIInv, [BcNext]_bcVars, NEW n \in Nodes, NEW r \in DOMAIN bc[n].rounds,
           bc'[n].round >= bc[n].round
    PROVE  r \in DOMAIN bc'[n].rounds /\ bc'[n].rounds[r] = bc[n].rounds[r]
<1>1. ASSUME NEW x \in Nodes, NEW m \in BcMessages,
             \/ TakeProof(x, m)
             \/ TakeSignature(x, m)
             \/ IgnoreContribution(x, m)
             \/ TakeRegistration(x, m)
             \/ TakeChallenge(x, m)
             \/ TakeFinalized(x, m)
      PROVE  r \in DOMAIN bc'[n].rounds /\ bc'[n].rounds[r] = bc[n].rounds[r]
  <2>1. /\ \A y \in Nodes \ {x} : bc'[y] = bc[y]
        /\ BeaconObjectStep(x)
        BY <1>1, BeaconMessageStep
  <2> QED BY <2>1 DEF BeaconObjectStep
<1>2. ASSUME NEW x \in Nodes, BcReset(x)
      PROVE  r \in DOMAIN bc'[n].rounds /\ bc'[n].rounds[r] = bc[n].rounds[r]
  <2>1. bc'[x].round = 1 /\ \A y \in Nodes \ {x} : bc'[y] = bc[y]
        BY <1>2, BcResetIs
  <2>2. DOMAIN bc[n].rounds = 1 .. bc[n].round - 1 /\ BeaconTyped(bc[n])
        BY DEF BcIInv, BeaconObjectInv
  <2>3. bc[n].round \in Nat \ {0}
        BY <2>2, BeaconFields
  <2>4. r >= 1 /\ r <= bc[n].round - 1
        BY <2>2, <2>3
  <2>5. n # x
    <3> SUFFICES ASSUME n = x PROVE FALSE
        OBVIOUS
    <3>1. 1 >= bc[n].round
          BY <2>1
    <3> DEFINE k == bc[n].round
    <3>2. k \in Nat /\ 1 >= k /\ r >= 1 /\ r <= k - 1 /\ r \in 1 .. k - 1
          BY <2>2, <2>3, <2>4, <3>1
    <3> HIDE DEF k
    <3> QED BY ONLY <3>2
  <2> QED BY <2>1, <2>5
<1>3. CASE UNCHANGED bcVars
      BY <1>3 DEF bcVars
<1> QED BY <1>1, <1>2, <1>3 DEF BcNext

\* Randomness that was published for a round does not change, short of a reset.
THEOREM BeaconRandomnessStays == BcSpec => BcFinalizedStays
<1>1. BcIInv /\ [BcNext]_bcVars =>
          [\A n \in Nodes : \A r \in DOMAIN bc[n].rounds :
              bc'[n].round >= bc[n].round =>
                 /\ r \in DOMAIN bc'[n].rounds
                 /\ bc'[n].rounds[r] = bc[n].rounds[r]]_bcVars
      BY BcStepKeepsRounds
<1> QED BY <1>1, BcInitInv, BcNextInv, PTL DEF BcSpec, BcFinalizedStays
-----------------------------------------------------------------------------
(* Tendermint: agreement of nodes that count precommits, for any number of *)
(* nodes and validators and any voting power of which a third at most is   *)
(* faulty.  The invariant holds of each object on its own, for the         *)
(* messages that were published, and stays true when more of them are.     *)

\* What holds of an object while a message is processed: there may be something
\* to commit.
SoundObject(o, P) == o \in TmObjects /\ VotesOK(o, P) /\ BlocksOK(o, P)

-----------------------------------------------------------------------------
\* More validators have more power.
LEMMA WeightGrows ==
    ASSUME NEW S \in SUBSET Validators, NEW T \in SUBSET Validators, S \subseteq T
    PROVE  Weight[S] \in Nat /\ Weight[T] \in Nat /\ Weight[S] <= Weight[T]
<1>1. T \ S \in SUBSET Validators
  OBVIOUS
<1>2. S \cup (T \ S) = T /\ S \cap (T \ S) = {}
  OBVIOUS
<1>3. Weight[T] + Weight[{}] = Weight[S] + Weight[T \ S]
  BY <1>1, <1>2, TmPowerAssumption
<1>4. Weight[S] \in Nat /\ Weight[T] \in Nat /\ Weight[T \ S] \in Nat /\ Weight[{}] = 0
  BY <1>1, TmPowerAssumption
<1> QED
  BY <1>3, <1>4

\* Two quorums have a validator in common that is not faulty.
LEMMA QuorumsMeet ==
    ASSUME NEW S \in SUBSET Validators, NEW T \in SUBSET Validators,
           Quorum(S), Quorum(T)
    PROVE  \E v \in S \cap T : v \notin Faulty
<1> SUFFICES ASSUME S \cap T \subseteq Faulty PROVE FALSE
  OBVIOUS
<1>1. Faulty \in SUBSET Validators /\ 3 * Weight[Faulty] <= Weight[Validators]
  BY TmPowerAssumption
<1>2. Weight[S \cup T] + Weight[S \cap T] = Weight[S] + Weight[T]
  BY TmPowerAssumption
<1>3. Weight[S \cup T] \in Nat /\ Weight[Validators] \in Nat
      /\ Weight[S \cup T] <= Weight[Validators]
  BY WeightGrows
<1>4. Weight[S \cap T] \in Nat /\ Weight[Faulty] \in Nat
      /\ Weight[S \cap T] <= Weight[Faulty]
  BY <1>1, WeightGrows
<1>5. Weight[S] \in Nat /\ Weight[T] \in Nat
  BY WeightGrows
<1> QED
  BY <1>1, <1>2, <1>3, <1>4, <1>5 DEF Quorum

\* Precommits that were published back what they back for good.
LEMMA BackingGrows ==
    ASSUME NEW P, NEW Q, P \subseteq Q, NEW h, NEW b
    PROVE  Backing(P, h, b) \subseteq Backing(Q, h, b)
  BY DEF Backing, OfKind

\* A quorum grows with the messages.
LEMMA QuorumGrows ==
    ASSUME NEW P, NEW Q, P \subseteq Q, NEW h, NEW b, Quorum(Backing(P, h, b))
    PROVE  Quorum(Backing(Q, h, b))
<1>1. Backing(P, h, b) \in SUBSET Validators /\ Backing(Q, h, b) \in SUBSET Validators
  BY DEF Backing
<1>2. Backing(P, h, b) \subseteq Backing(Q, h, b)
  BY BackingGrows
<1>3. /\ Weight[Backing(P, h, b)] \in Nat /\ Weight[Backing(Q, h, b)] \in Nat
      /\ Weight[Backing(P, h, b)] <= Weight[Backing(Q, h, b)]
  BY <1>1, <1>2, WeightGrows
<1>4. Weight[Validators] \in Nat
  BY TmPowerAssumption
<1> QED
  BY <1>3, <1>4 DEF Quorum

\* What holds of an object holds when more messages are published.
LEMMA ObjectStaysOK ==
    ASSUME NEW o, NEW P, NEW Q, P \subseteq Q, SoundObject(o, P)
    PROVE  SoundObject(o, Q)
<1>1. o \in TmObjects
  BY DEF SoundObject
<1>2. VotesOK(o, Q)
  BY BackingGrows DEF SoundObject, VotesOK
<1>3. WholeIn(Q) => WholeIn(P)
  BY DEF WholeIn, OfKind
<1>4. BlocksOK(o, Q)
  BY <1>3, QuorumGrows DEF SoundObject, BlocksOK
<1> QED
  BY <1>1, <1>2, <1>4 DEF SoundObject

-----------------------------------------------------------------------------
BlockOf(o, b, byVotes) == [height |-> o.height, block |-> b, byVotes |-> byVotes]

\* What CommitBlock does to the blocks that were committed by votes.
LEMMA CommittedBlocks ==
    ASSUME NEW o \in TmObjects, NEW b \in BlockHashes, NEW byVotes \in BOOLEAN
    PROVE  /\ CommitBlock(o, b, byVotes) \in TmObjects
           /\ CommitBlock(o, b, byVotes).validators = o.validators
           /\ CommitBlock(o, b, byVotes).height = o.height + 1
           /\ CommitBlock(o, b, byVotes).votes = {v \in o.votes : v.height >= o.height + 1}
           /\ ByVotes(CommitBlock(o, b, byVotes)) \subseteq
                    ByVotes(o) \cup (IF byVotes THEN {BlockOf(o, b, TRUE)} ELSE {})
<1> DEFINE new == BlockOf(o, b, byVotes)
           c == CommitBlock(o, b, byVotes)
           Blocks == [height : Nat, block : BlockHashes \cup {Nil}, byVotes : BOOLEAN]
<1>1. o.blocks \in Seq(Blocks) /\ o.height \in Nat /\ o.votes \subseteq TmVotes
  BY DEF TmObjects
<1>2. new \in Blocks
  BY <1>1 DEF BlockOf
<1>3. c = [validators |-> o.validators, height |-> o.height + 1,
            votes |-> {v \in o.votes : v.height >= o.height + 1},
            blocks |-> Append(o.blocks, new)]
  <2> DEFINE kept == {v \in o.votes : v.height >= o.height + 1}
             more == Append(o.blocks, new)
             next == o.height + 1
  <2>1. c = [o EXCEPT !.blocks = more, !.height = next, !.votes = kept]
    BY DEF CommitBlock, BlockOf
  <2> HIDE DEF kept, more, next, c
  <2>2. c = [validators |-> o.validators, height |-> next, votes |-> kept,
             blocks |-> more]
    BY <2>1 DEF TmObjects
  <2> QED
    BY <2>2 DEF kept, more, next
<1> HIDE DEF c, new
<1>4. c \in TmObjects
  <2>1. Append(o.blocks, new) \in Seq(Blocks)
    BY <1>1, <1>2
  <2>2. o.validators \in SUBSET Validators
    BY DEF TmObjects
  <2>3. {v \in o.votes : v.height >= o.height + 1} \in SUBSET TmVotes
    BY <1>1
  <2>4. o.height + 1 \in Nat
    BY <1>1
  <2> QED
    BY <1>3, <2>1, <2>2, <2>3, <2>4 DEF TmObjects
<1>5. ASSUME NEW x \in ByVotes(c)
      PROVE  x \in ByVotes(o) \cup (IF byVotes THEN {BlockOf(o, b, TRUE)} ELSE {})
  <2> HIDE DEF Blocks
  <2>1. PICK i \in DOMAIN c.blocks : c.blocks[i].byVotes /\ x = c.blocks[i]
    BY <1>5 DEF ByVotes
  <2>2. i \in 1 .. Len(o.blocks) + 1
    BY <1>1, <1>2, <1>3, <2>1
  <2>3. CASE i \in 1 .. Len(o.blocks)
    <3>1. c.blocks[i] = o.blocks[i] /\ i \in DOMAIN o.blocks
      BY <1>1, <1>2, <1>3, <2>3
    <3> QED
      BY <2>1, <3>1 DEF ByVotes
  <2>4. CASE i = Len(o.blocks) + 1
    <3>1. c.blocks[i] = new
      BY <1>1, <1>2, <1>3, <2>4
    <3>2. new.byVotes = byVotes /\ new = BlockOf(o, b, byVotes)
      BY DEF BlockOf, new
    <3> QED
      BY <2>1, <3>1, <3>2
  <2>5. Len(o.blocks) \in Nat
    BY <1>1
  <2>6. i \in 1 .. Len(o.blocks) \/ i = Len(o.blocks) + 1
    BY <2>2, <2>5
  <2> QED
    BY <2>3, <2>4, <2>6
<1>6. /\ c.validators = o.validators
      /\ c.height = o.height + 1
      /\ c.votes = {v \in o.votes : v.height >= o.height + 1}
  BY <1>3
<1> QED
  BY <1>4, <1>5, <1>6 DEF c

\* Nobody is a majority of no votes: an object without votes has nothing to
\* commit.
LEMMA NoVotesNoCommit ==
    ASSUME NEW o \in TmObjects, o.votes = {}
    PROVE  CanCommit(o) = {}
<1>1. \A b : Voters(o, b) = {}
  BY DEF Voters
<1>2. o.validators \in SUBSET Validators
  BY DEF TmObjects
<1>3. Weight[{}] = 0 /\ Weight[o.validators] \in Nat
  BY <1>2, TmPowerAssumption
<1>4. ~ HasMajority(o, {})
  BY <1>3 DEF HasMajority
<1> QED
  BY <1>1, <1>4 DEF CanCommit

\* A commit leaves no vote behind, and what it adds has to be backed only if
\* votes were counted for it.
LEMMA CommitKeepsOK ==
    ASSUME NEW o, NEW P, SoundObject(o, P), NEW b \in BlockHashes, NEW byVotes \in BOOLEAN,
           WholeIn(P) /\ byVotes => Quorum(Backing(P, o.height, b))
    PROVE  /\ SoundObject(CommitBlock(o, b, byVotes), P)
           /\ CanCommit(CommitBlock(o, b, byVotes)) = {}
<1> DEFINE c == CommitBlock(o, b, byVotes)
<1>1. o \in TmObjects
  BY DEF SoundObject
<1>2. /\ c \in TmObjects
      /\ c.validators = o.validators
      /\ c.votes = {v \in o.votes : v.height >= o.height + 1}
      /\ ByVotes(c) \subseteq
            ByVotes(o) \cup (IF byVotes THEN {BlockOf(o, b, TRUE)} ELSE {})
  BY <1>1, CommittedBlocks
<1> HIDE DEF c
<1>3. c.votes = {}
  <2>1. o.height \in Nat
    BY <1>1 DEF TmObjects
  <2>2. \A v \in o.votes : v.height = o.height
    BY DEF SoundObject, VotesOK
  <2> QED
    BY <1>2, <2>1, <2>2
<1>4. VotesOK(c, P)
  BY <1>3 DEF VotesOK
<1>5. BlocksOK(c, P)
  <2> SUFFICES ASSUME WholeIn(P)
               PROVE  /\ c.validators \in {{}, Validators}
                      /\ \A x \in ByVotes(c) : Quorum(Backing(P, x.height, x.block))
    BY DEF BlocksOK
  <2>1. /\ o.validators \in {{}, Validators}
        /\ \A x \in ByVotes(o) : Quorum(Backing(P, x.height, x.block))
    BY DEF SoundObject, BlocksOK
  <2>2. ASSUME NEW x \in ByVotes(c)
        PROVE  Quorum(Backing(P, x.height, x.block))
    <3>1. CASE x \in ByVotes(o)
      BY <2>1, <3>1
    <3>2. CASE byVotes /\ x = BlockOf(o, b, TRUE)
      <4>1. x.height = o.height /\ x.block = b
        BY <3>2 DEF BlockOf
      <4> QED
        BY <3>2, <4>1
    <3> QED
      BY <1>2, <3>1, <3>2
  <2> QED
    BY <1>2, <2>1, <2>2
<1>6. CanCommit(c) = {}
  BY <1>2, <1>3, NoVotesNoCommit
<1> QED
  BY <1>2, <1>4, <1>5, <1>6 DEF SoundObject, c

\* What an object can commit is backed by a quorum.
LEMMA CommittableIsBacked ==
    ASSUME NEW o, NEW P, SoundObject(o, P), WholeIn(P), NEW b \in CanCommit(o)
    PROVE  Quorum(Backing(P, o.height, b))
<1>1. /\ o \in TmObjects /\ o.validators \in {{}, Validators}
      /\ HasMajority(o, Voters(o, b))
  BY DEF SoundObject, BlocksOK, CanCommit
<1>2. Voters(o, b) \in SUBSET o.validators
  BY DEF Voters
<1>3. o.validators = Validators
  <2> SUFFICES ASSUME o.validators = {} PROVE FALSE
    BY <1>1
  <2>1. Voters(o, b) = {}
    BY <1>2
  <2>2. Weight[{}] = 0
    BY TmPowerAssumption
  <2> QED
    BY <1>1, <2>1, <2>2 DEF HasMajority
<1>4. Voters(o, b) \subseteq Backing(P, o.height, b)
  <2> SUFFICES ASSUME NEW v \in Voters(o, b) PROVE v \in Backing(P, o.height, b)
    OBVIOUS
  <2> DEFINE vote == [kind |-> "precommit", height |-> o.height, validator |-> v,
                      block |-> b]
  <2>1. vote \in o.votes
    BY DEF Voters
  <2>2. vote.validator \in Backing(P, vote.height, vote.block)
    BY <2>1 DEF SoundObject, VotesOK
  <2> QED
    BY <2>2
<1>5. Backing(P, o.height, b) \in SUBSET Validators /\ Voters(o, b) \in SUBSET Validators
  BY <1>2, <1>3 DEF Backing
<1>6. /\ Weight[Voters(o, b)] \in Nat /\ Weight[Backing(P, o.height, b)] \in Nat
      /\ Weight[Voters(o, b)] <= Weight[Backing(P, o.height, b)]
  BY <1>4, <1>5, WeightGrows
<1>7. Weight[Validators] \in Nat
  BY TmPowerAssumption
<1> QED
  BY <1>1, <1>3, <1>6, <1>7 DEF HasMajority, Quorum

\* The check after a message leaves nothing to commit.
LEMMA AdvanceKeepsOK ==
    ASSUME NEW o, NEW P, SoundObject(o, P)
    PROVE  SoundObject(Advance(o), P) /\ CanCommit(Advance(o)) = {}
<1>1. CASE CanCommit(o) = {}
  BY <1>1 DEF Advance
<1>2. CASE CanCommit(o) # {}
  <2> DEFINE b == CHOOSE x \in CanCommit(o) : TRUE
  <2>1. b \in CanCommit(o)
    BY <1>2
  <2>2. b \in BlockHashes
    BY <2>1 DEF CanCommit
  <2>3. WholeIn(P) => Quorum(Backing(P, o.height, b))
    BY <2>1, CommittableIsBacked
  <2>4. Advance(o) = CommitBlock(o, b, TRUE)
    BY <1>2 DEF Advance
  <2> HIDE DEF b
  <2> QED
    BY <2>2, <2>3, <2>4, CommitKeepsOK
<1> QED
  BY <1>1, <1>2

-----------------------------------------------------------------------------
\* A vote that is taken was published and is for the height of the object.
LEMMA WithVoteKeepsOK ==
    ASSUME NEW P, NEW o, SoundObject(o, P), NEW m \in P, IsTendermintMessage(m),
           m.kind \in TmVoteKinds, IsCurrent(o, m)
    PROVE  SoundObject(WithVote(o, m), P)
<1> DEFINE vote == [kind |-> m.kind, height |-> m.height,
                    validator |-> m.validator, block |-> m.block]
           votes == {v \in o.votes : ~Replaces(vote, v)} \cup {vote}
           w == [o EXCEPT !.votes = votes]
<1>1. m \in [kind : TmVoteKinds, height : Nat, round : Nat,
             validator : Validators, block : BlockHashes \cup {Nil}]
  BY DEF IsTendermintMessage, TmVoteKinds
<1>2. vote \in TmVotes /\ vote.height = o.height
  BY <1>1 DEF TmVotes, IsCurrent
<1>3. vote.kind = "precommit" => vote.validator \in Backing(P, vote.height, vote.block)
  BY <1>1 DEF Backing, OfKind
<1>4. o \in TmObjects /\ o.votes \in SUBSET TmVotes
  BY DEF SoundObject, TmObjects
<1>5. votes \in SUBSET TmVotes
  BY <1>2, <1>4
<1>6. \A v \in votes : v \in o.votes \/ v = vote
  OBVIOUS
<1>7. WithVote(o, m) = w
  BY DEF WithVote
<1> HIDE DEF vote, votes
<1>8. /\ w \in TmObjects /\ w.votes = votes /\ w.height = o.height
      /\ w.validators = o.validators /\ w.blocks = o.blocks
  BY <1>4, <1>5 DEF TmObjects
<1> HIDE DEF w
<1>9. VotesOK(w, P)
  BY <1>2, <1>3, <1>6, <1>8 DEF VotesOK, SoundObject
<1>10. BlocksOK(w, P)
  BY <1>8 DEF BlocksOK, ByVotes, SoundObject
<1> QED
  BY <1>7, <1>8, <1>9, <1>10 DEF SoundObject

\* A validator set that is taken was published.
LEMMA WithSetKeepsOK ==
    ASSUME NEW P, NEW o, SoundObject(o, P), NEW m \in P, IsTendermintMessage(m),
           m.kind = "validators"
    PROVE  SoundObject(WithSet(o, m.set), P)
<1> DEFINE w == WithSet(o, m.set)
<1>1. m.set \in SUBSET Validators
  BY DEF IsTendermintMessage, TmVoteKinds
<1>2. o \in TmObjects /\ o.validators \in SUBSET Validators
  BY DEF SoundObject, TmObjects
<1>3. /\ w \in TmObjects /\ w.votes = o.votes /\ w.height = o.height
      /\ w.blocks = o.blocks /\ w.validators = o.validators \cup m.set
  BY <1>1, <1>2 DEF TmObjects, WithSet
<1>4. WholeIn(P) => m.set = Validators
  BY DEF WholeIn, OfKind
<1> HIDE DEF w
<1>5. VotesOK(w, P)
  BY <1>3 DEF VotesOK, SoundObject
<1>6. BlocksOK(w, P)
  BY <1>1, <1>3, <1>4 DEF BlocksOK, ByVotes, SoundObject
<1> QED
  BY <1>3, <1>5, <1>6 DEF SoundObject, w

\* A reset leaves no votes behind.
LEMMA ResetKeepsOK ==
    ASSUME NEW P, NEW o, SoundObject(o, P)
    PROVE  LET w == [o EXCEPT !.height = 1, !.votes = {}]
           IN  SoundObject(w, P) /\ CanCommit(w) = {}
<1> DEFINE w == [o EXCEPT !.height = 1, !.votes = {}]
<1>1. o \in TmObjects
  BY DEF SoundObject
<1>2. /\ w \in TmObjects /\ w.votes = {} /\ w.blocks = o.blocks
      /\ w.validators = o.validators
  BY <1>1 DEF TmObjects
<1> HIDE DEF w
<1>3. VotesOK(w, P) /\ BlocksOK(w, P)
  BY <1>2 DEF VotesOK, BlocksOK, ByVotes, SoundObject
<1>4. CanCommit(w) = {}
  BY <1>2, NoVotesNoCommit
<1> QED
  BY <1>2, <1>3, <1>4 DEF SoundObject, w

-----------------------------------------------------------------------------
\* What a node takes is published.
LEMMA PublishedGrows ==
    ASSUME TmTypeOK, NEW n \in Nodes, NEW m \in TmMessages, Receive(n, m)
    PROVE  /\ got' \in [Nodes -> SUBSET Published']
           /\ Published' = Published \cup {m}
<1>1. got' = [got EXCEPT ![n] = got[n] \cup {m}] /\ got \in [Nodes -> SUBSET Published]
  BY DEF Receive, TmTypeOK
<1>2. \A k \in Nodes : got'[k] = IF k = n THEN got[n] \cup {m} ELSE got[k]
  BY <1>1
<1>3. Published' = Published \cup {m}
  BY <1>1, <1>2 DEF Published
<1> QED
  BY <1>1, <1>2, <1>3

\* Who may publish a precommit has published no other one for that height.
LEMMA HonestStays ==
    ASSUME HonestOnce(Published), NEW m, MayPublish(m)
    PROVE  HonestOnce(Published \cup {m})
<1> SUFFICES ASSUME NEW m1 \in OfKind(Published \cup {m}, "precommit"),
                    NEW m2 \in OfKind(Published \cup {m}, "precommit"),
                    m1.validator \notin Faulty,
                    m1.validator = m2.validator, m1.height = m2.height
             PROVE  m1.block = m2.block
  BY DEF HonestOnce
<1>1. CASE m1 \in Published /\ m2 \in Published
  BY <1>1 DEF HonestOnce, OfKind
<1>2. CASE m1 = m /\ m2 \in Published
  BY <1>2 DEF HonestOnce, MayPublish, OfKind
<1>3. CASE m2 = m /\ m1 \in Published
  BY <1>3 DEF HonestOnce, MayPublish, OfKind
<1>4. CASE m1 = m /\ m2 = m
  BY <1>4
<1> QED
  BY <1>1, <1>2, <1>3, <1>4 DEF OfKind

\* A message that is taken: it is enough to look at the object of its node.
LEMMA TakenKeepsInv ==
    ASSUME TmInv, NEW n \in Nodes, NEW m \in TmMessages, Receive(n, m), MayPublish(m),
           NEW o, SoundObject(o, Published \cup {m}), CanCommit(o) = {},
           tm' = [tm EXCEPT ![n] = o]
    PROVE  TmInv'
<1>1. TmTypeOK /\ HonestOnce(Published)
  BY DEF TmInv
<1>2. got' \in [Nodes -> SUBSET Published'] /\ Published' = Published \cup {m}
  BY <1>1, PublishedGrows
<1>3. HonestOnce(Published')
  BY <1>1, <1>2, HonestStays
<1>4. tm' \in [Nodes -> TmObjects]
  BY <1>1 DEF TmTypeOK, SoundObject
<1>5. ASSUME NEW k \in Nodes PROVE ObjectOK(tm'[k], Published')
  <2>1. CASE k = n
    <3>1. tm'[k] = o
      BY <2>1, <1>1 DEF TmTypeOK
    <3> QED
      BY <3>1, <1>2 DEF ObjectOK, SoundObject
  <2>2. CASE k # n
    <3>1. tm'[k] = tm[k]
      BY <2>2, <1>1 DEF TmTypeOK
    <3>2. SoundObject(tm[k], Published) /\ CanCommit(tm[k]) = {}
      BY DEF TmInv, TmTypeOK, ObjectOK, SoundObject
    <3>3. SoundObject(tm[k], Published')
      BY <3>2, <1>2, ObjectStaysOK
    <3> QED
      BY <3>1, <3>2, <3>3 DEF ObjectOK, SoundObject
  <2> QED
    BY <2>1, <2>2
<1> QED
  BY <1>2, <1>3, <1>4, <1>5 DEF TmInv, TmTypeOK

-----------------------------------------------------------------------------
LEMMA InitHolds == TmInit => TmInv
<1> SUFFICES ASSUME TmInit PROVE TmInv
  OBVIOUS
<1> DEFINE genesis == [height |-> 0, block |-> Nil, byVotes |-> FALSE]
           o == [validators |-> {}, height |-> 1, votes |-> {}, blocks |-> <<genesis>>]
<1>1. tm = [n \in Nodes |-> o] /\ got = [n \in Nodes |-> {}]
  BY DEF TmInit, NetInit
<1>2. Published = {}
  BY <1>1 DEF Published
<1>3. o \in TmObjects
  BY DEF TmObjects
<1>4. ByVotes(o) = {}
  BY DEF ByVotes
<1>5. o.votes = {} /\ o.validators = {}
  OBVIOUS
<1> HIDE DEF o
<1>6. VotesOK(o, {}) /\ BlocksOK(o, {})
  BY <1>4, <1>5 DEF VotesOK, BlocksOK
<1>7. CanCommit(o) = {}
  BY <1>3, <1>5, NoVotesNoCommit
<1>8. HonestOnce({})
  BY DEF HonestOnce, OfKind
<1>9. TmTypeOK
  BY <1>1, <1>3 DEF TmTypeOK
<1> QED
  BY <1>1, <1>2, <1>6, <1>7, <1>8, <1>9 DEF TmInv, ObjectOK

\* Every step keeps what the objects and the published messages agree on.
LEMMA StepKeepsInv == TmInv /\ [TmNext]_tmVars => TmInv'
<1> SUFFICES ASSUME TmInv, [TmNext]_tmVars PROVE TmInv'
  OBVIOUS
<1>1. ASSUME NEW n \in Nodes, NEW m \in TmMessages
      PROVE  /\ IsTendermintMessage(m)
             /\ m \in Published \cup {m}
             /\ SoundObject(tm[n], Published \cup {m})
             /\ CanCommit(tm[n]) = {}
  <2>1. SoundObject(tm[n], Published) /\ CanCommit(tm[n]) = {}
    BY DEF TmInv, TmTypeOK, ObjectOK, SoundObject
  <2>2. SoundObject(tm[n], Published \cup {m})
    BY <2>1, ObjectStaysOK
  <2> QED
    BY <2>1, <2>2, TmMessagesAssumption
<1>2. ASSUME NEW n \in Nodes, NEW m \in TmMessages, TakeVote(n, m)
      PROVE  TmInv'
  <2> DEFINE o == Advance(WithVote(tm[n], m))
  <2>1. SoundObject(WithVote(tm[n], m), Published \cup {m})
    BY <1>1, <1>2, WithVoteKeepsOK DEF TakeVote
  <2>2. SoundObject(o, Published \cup {m}) /\ CanCommit(o) = {}
    BY <2>1, AdvanceKeepsOK
  <2>3. tm' = [tm EXCEPT ![n] = o] /\ Receive(n, m) /\ MayPublish(m)
    BY <1>2 DEF TakeVote
  <2> HIDE DEF o
  <2> QED
    BY <2>2, <2>3, TakenKeepsInv
<1>3. ASSUME NEW n \in Nodes, NEW m \in TmMessages, IgnoreVote(n, m)
      PROVE  TmInv'
  <2>1. tm' = [tm EXCEPT ![n] = tm[n]] /\ Receive(n, m) /\ MayPublish(m)
    BY <1>3 DEF IgnoreVote, TmInv, TmTypeOK
  <2> QED
    BY <1>1, <2>1, TakenKeepsInv
<1>4. ASSUME NEW n \in Nodes, NEW m \in TmMessages, TakeValidatorSet(n, m)
      PROVE  TmInv'
  <2> DEFINE w == WithSet(tm[n], m.set)
             o == Advance(w)
  <2>1. m.kind = "validators"
    BY <1>4 DEF TakeValidatorSet
  <2>2. SoundObject(w, Published \cup {m})
    BY <1>1, <2>1, WithSetKeepsOK
  <2> HIDE DEF w
  <2>3. SoundObject(o, Published \cup {m}) /\ CanCommit(o) = {}
    BY <2>2, AdvanceKeepsOK
  <2>4. tm' = [tm EXCEPT ![n] = o] /\ Receive(n, m)
    BY <1>4 DEF TakeValidatorSet, w
  <2>5. MayPublish(m)
    BY <2>1 DEF MayPublish
  <2> HIDE DEF o
  <2> QED
    BY <2>3, <2>4, <2>5, TakenKeepsInv
<1>5. ASSUME NEW n \in Nodes, NEW m \in TmMessages, TakeBlockCommit(n, m)
      PROVE  TmInv'
  <2> DEFINE w == CommitBlock(tm[n], m.block, FALSE)
             o == Advance(w)
  <2>1. m.kind = "commit" /\ m.block \in BlockHashes
    BY <1>1, <1>5 DEF TakeBlockCommit, IsTendermintMessage, TmVoteKinds
  <2>2. SoundObject(w, Published \cup {m})
    BY <1>1, <2>1, CommitKeepsOK
  <2> HIDE DEF w
  <2>3. SoundObject(o, Published \cup {m}) /\ CanCommit(o) = {}
    BY <2>2, AdvanceKeepsOK
  <2>4. tm' = [tm EXCEPT ![n] = o] /\ Receive(n, m)
    BY <1>5 DEF TakeBlockCommit, w
  <2>5. MayPublish(m)
    BY <2>1 DEF MayPublish
  <2> HIDE DEF o
  <2> QED
    BY <2>3, <2>4, <2>5, TakenKeepsInv
<1>6. ASSUME NEW n \in Nodes, TmReset(n)
      PROVE  TmInv'
  <2> DEFINE o == [tm[n] EXCEPT !.height = 1, !.votes = {}]
  <2>1. got' = got /\ Published' = Published
    BY <1>6 DEF TmReset, Reset, Published
  <2>2. tm' = [tm EXCEPT ![n] = o] /\ tm \in [Nodes -> TmObjects]
    BY <1>6 DEF TmReset, TmInv, TmTypeOK
  <2>3. SoundObject(tm[n], Published)
    BY DEF TmInv, TmTypeOK, ObjectOK, SoundObject
  <2>4. SoundObject(o, Published) /\ CanCommit(o) = {}
    BY <2>3, ResetKeepsOK
  <2> HIDE DEF o
  <2>5. \A k \in Nodes : tm'[k] = IF k = n THEN o ELSE tm[k]
    BY <2>2
  <2>6. \A k \in Nodes : ObjectOK(tm'[k], Published)
    BY <2>4, <2>5 DEF TmInv, ObjectOK, SoundObject
  <2>7. tm' \in [Nodes -> TmObjects]
    BY <2>2, <2>4 DEF SoundObject
  <2>8. TmTypeOK'
    BY <2>1, <2>7 DEF TmInv, TmTypeOK
  <2>9. HonestOnce(Published')
    BY <2>1 DEF TmInv
  <2> QED
    BY <2>1, <2>6, <2>8, <2>9 DEF TmInv
<1>7. CASE UNCHANGED tmVars
  BY <1>7 DEF tmVars, TmInv, TmTypeOK, Published
<1> QED
  BY <1>2, <1>3, <1>4, <1>5, <1>6, <1>7 DEF TmNext

\* Whatever is voted, replaced, lost and committed without votes: a block that a
\* node committed by counting votes has two thirds of the voting power behind
\* it, and no node waits with votes enough (CommitBlock, has_two_thirds_majority
\* and process_message of tendermint.rs).
THEOREM QuorumBehindBlocks == TmSpec => []TmInv
<1> QED
  BY InitHolds, StepKeepsInv, PTL DEF TmSpec

\* Nodes that count votes agree on the block of a height, for any voting powers
\* of which a third at most votes twice (has_two_thirds_majority of
\* tendermint.rs).
THEOREM Agreement == TmSpec => []TmAgreement
<1>1. TmInv => TmAgreement
  <2> SUFFICES ASSUME TmInv, WholeIn(Published),
                      NEW n1 \in Nodes, NEW n2 \in Nodes,
                      NEW b1 \in ByVotes(tm[n1]), NEW b2 \in ByVotes(tm[n2]),
                      b1.height = b2.height
               PROVE  b1.block = b2.block
    BY DEF TmAgreement
  <2> DEFINE S == Backing(Published, b1.height, b1.block)
             T == Backing(Published, b2.height, b2.block)
  <2>1. Quorum(S) /\ Quorum(T)
    BY DEF TmInv, ObjectOK, BlocksOK
  <2>2. S \in SUBSET Validators /\ T \in SUBSET Validators
    BY DEF Backing
  <2>3. PICK v \in S \cap T : v \notin Faulty
    <3> HIDE DEF S, T
    <3> QED
      BY <2>1, <2>2, QuorumsMeet
  <2>4. PICK m1 \in OfKind(Published, "precommit") :
            m1.validator = v /\ m1.height = b1.height /\ m1.block = b1.block
    BY <2>3 DEF Backing
  <2>5. PICK m2 \in OfKind(Published, "precommit") :
            m2.validator = v /\ m2.height = b2.height /\ m2.block = b2.block
    BY <2>3 DEF Backing
  <2>6. m1.block = m2.block
    BY <2>3, <2>4, <2>5 DEF TmInv, HonestOnce
  <2> QED
    BY <2>4, <2>5, <2>6
<1> QED
  BY <1>1, QuorumBehindBlocks, PTL
=============================================================================
