------------------------------- MODULE Chatroom -------------------------------
(***************************************************************************)
(* examples/chatroom.rs: ChatroomObject on any number of nodes.  A message *)
(* has to be recent when it is processed; clocks and delays are anyone's   *)
(* guess, so any message may find itself too old.  An undecodable          *)
(* signature is an error that refuses the message and changes nothing.     *)
(***************************************************************************)
EXTENDS AppNetwork

CONSTANTS
    Rooms,           \* chatroom names
    Keys,            \* public keys
    ChMessages       \* what may be published

VARIABLE chat        \* chat[n]: the chatrooms of n, by name

\* who is the requester of an accept, and the sender otherwise.
IsChatMessage(m) ==
    m \in [kind : {"create", "request", "accept", "post"}, room : Rooms,
           by : Keys, who : Keys, signed : BOOLEAN, copy : Nat]

ASSUME ChAssumption == \A m \in ChMessages : IsChatMessage(m)

chVars == <<got, chat>>

ChRoom == [admin : Keys, members : SUBSET Keys,
           messages : Seq([kind : {"request", "accept", "post"}, by : Keys, who : Keys])]

NewRoom(key) == [admin |-> key, members |-> {key}, messages |-> <<>>]

ChInit ==
    /\ NetInit
    /\ chat = [n \in Nodes |-> NoMap]

-----------------------------------------------------------------------------
Exists(n, room) == room \in DOMAIN chat[n]

Logged(room, m) ==
    [room EXCEPT !.messages = Append(@, [kind |-> m.kind, by |-> m.by,
                                         who |-> m.who])]

WithMember(room, key) == [room EXCEPT !.members = @ \cup {key}]

\* n has room r as it is given, and its other rooms as they were.
SetRoom(n, r, room) == chat' = [chat EXCEPT ![n] = With(chat[n], r, room)]

\* Mutant of ProcessCreate: a room that exists is created again.
ProcessCreateAgain(n, m) ==
    /\ m.kind = "create"
    /\ m.signed
    /\ Receive(n, m)
    /\ SetRoom(n, m.room, NewRoom(m.by))

ProcessCreate(n, m) ==
    /\ m.kind = "create"
    /\ m.signed
    /\ Receive(n, m)
    /\ ~Exists(n, m.room)
    /\ SetRoom(n, m.room, NewRoom(m.by))

\* A request is only logged.
ProcessRequest(n, m) ==
    /\ m.kind = "request"
    /\ m.signed
    /\ Receive(n, m)
    /\ Exists(n, m.room)
    /\ SetRoom(n, m.room, Logged(chat[n][m.room], m))

\* Mutant of ProcessAccept: the member is added and the message not kept.
ProcessAcceptUnlogged(n, m) ==
    /\ m.kind = "accept"
    /\ m.signed
    /\ Receive(n, m)
    /\ Exists(n, m.room)
    /\ m.by = chat[n][m.room].admin
    /\ SetRoom(n, m.room, WithMember(chat[n][m.room], m.who))

\* Whether the member asked to join is not looked at.
ProcessAccept(n, m) ==
    /\ m.kind = "accept"
    /\ m.signed
    /\ Receive(n, m)
    /\ Exists(n, m.room)
    /\ m.by = chat[n][m.room].admin
    /\ SetRoom(n, m.room, WithMember(Logged(chat[n][m.room], m), m.who))

ProcessPost(n, m) ==
    /\ m.kind = "post"
    /\ m.signed
    /\ Receive(n, m)
    /\ Exists(n, m.room)
    /\ m.by \in chat[n][m.room].members
    /\ SetRoom(n, m.room, Logged(chat[n][m.room], m))

\* Whatever the reason, the node keeps the message and the object never sees
\* it again: a post that comes before its author is a member is lost here.
FailToProcess(n, m) ==
    /\ Receive(n, m)
    /\ UNCHANGED chat

ChReset(n) ==
    /\ Reset(n)
    /\ chat' = [chat EXCEPT ![n] = NoMap]

ChNext ==
    \/ \E n \in Nodes, m \in ChMessages :
          \/ ProcessCreate(n, m)
          \/ ProcessRequest(n, m)
          \/ ProcessAccept(n, m)
          \/ ProcessPost(n, m)
          \/ FailToProcess(n, m)
    \/ \E n \in Nodes : ChReset(n)

ChSpec == ChInit /\ [][ChNext]_chVars

-----------------------------------------------------------------------------
ChTypeOK ==
    /\ DOMAIN chat = Nodes
    /\ \A n \in Nodes : /\ DOMAIN chat[n] \subseteq Rooms
                        /\ \A r \in DOMAIN chat[n] : chat[n][r] \in ChRoom

\* Keys that the first k messages of a room make members of it.
MembersAfter(room, k) ==
    {room.admin} \cup
    {room.messages[i].who : i \in {j \in 1 .. k : room.messages[j].kind = "accept"}}

LogExplains(room) ==
    /\ room.members = MembersAfter(room, Len(room.messages))
    /\ \A i \in DOMAIN room.messages :
          /\ room.messages[i].kind = "accept" => room.messages[i].by = room.admin
          /\ room.messages[i].kind = "post" =>
                room.messages[i].by \in MembersAfter(room, i - 1)

\* The log of a room explains its members, and every post in it is of someone
\* who was a member by then, in whatever order the messages came.
ChLogExplainsMembers ==
    \A n \in Nodes : \A r \in DOMAIN chat[n] : LogExplains(chat[n][r])

\* Keys under which room r was created.
Creators(r) ==
    {m.by : m \in {c \in OfKind(Published, "create") : c.room = r /\ c.signed}}

\* Nodes agree on the admin of a room that one key created, also when one of
\* them starts over; and nobody becomes admin of a room it did not create.
ChSameAdmin ==
    \A n1, n2 \in Nodes : \A r \in DOMAIN chat[n1] \cap DOMAIN chat[n2] :
        /\ chat[n1][r].admin \in Creators(r)
        /\ Creators(r) = {chat[n1][r].admin} =>
              chat[n2][r].admin = chat[n1][r].admin

\* The log of a room explains it, and nodes agree on who its admin is.
ChInv == ChTypeOK /\ ChLogExplainsMembers /\ ChSameAdmin

\* A room keeps its admin, its members and its log, short of a reset: nobody
\* takes a room over by creating it again.
ChRoomsStay ==
    [][\A n \in Nodes : DOMAIN chat'[n] # {} =>
          \A r \in DOMAIN chat[n] :
             /\ r \in DOMAIN chat'[n]
             /\ chat'[n][r].admin = chat[n][r].admin
             /\ chat[n][r].members \subseteq chat'[n][r].members
             /\ Len(chat[n][r].messages) <= Len(chat'[n][r].messages)]_chVars
=============================================================================
