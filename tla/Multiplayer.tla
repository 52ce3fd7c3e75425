---------------------------- MODULE Multiplayer ----------------------------
(***************************************************************************)
(* A multiplayer room with its clients: the host of Room and the members   *)
(* of RoomMember, over the channels of ENet.                               *)
(***************************************************************************)
EXTENDS Room, RoomMember

vars == <<enet, room, client, calls>>

\* A RoomMember puts its own console id into every request it sends.
ASSUME PacketsAssumption ==
    \A c \in Clients :
        /\ None \notin Requests[c]
        /\ \A r \in Requests[c] :
              /\ r.type = "JoinRequest"
              /\ r.console = ConsoleOf[c]
              /\ r.mac \in AllMacs \cup {NoPreferredMac}
        /\ \A k \in Commands[c] : k.type \notin {"JoinRequest", "SetGameInfo"}

Init == EnetInit /\ RoomInit /\ MemberInit

\* Mutant: ServerLoop has no case for ENET_EVENT_TYPE_DISCONNECT.
ServerEventNoDisconnect(p) ==
    /\ \/ HandleJoinRequest(p)
       \/ HandleGameNamePacket(p)
       \/ HandleChatPacket(p)
       \/ HandleWifiPacket(p)
       \/ HandleModDenied(p)
       \/ HandleModKickPacket(p)
       \/ HandleModBanPacket(p)
       \/ HandleModUnbanPacket(p)
       \/ HandleModGetBanListPacket(p)
    /\ UNCHANGED <<client, calls>>

\* One event of ServerLoop: enet_host_service reports it for peer p.
ServerEvent(p) ==
    /\ \/ HandleJoinRequest(p)
       \/ HandleGameNamePacket(p)
       \/ HandleChatPacket(p)
       \/ HandleWifiPacket(p)
       \/ HandleModDenied(p)
       \/ HandleModKickPacket(p)
       \/ HandleModBanPacket(p)
       \/ HandleModUnbanPacket(p)
       \/ HandleModGetBanListPacket(p)
       \/ HandleClientDisconnection(p)
    /\ UNCHANGED <<client, calls>>

CloseRoom == Destroy /\ Call /\ UNCHANGED client

MemberEvent(c) == MemberStep(c) /\ UNCHANGED room

Next ==
    \/ \E p \in Peers : ServerEvent(p)
    \/ CloseRoom
    \/ \E c \in Clients : MemberEvent(c)

\* The threads are scheduled: ServerLoop, every MemberLoop, and the caller of
\* Join or Leave once it is inside.  Nobody has to call anything.
ServerFairness == WF_vars(\E p \in Peers : ServerEvent(p))

MemberFairness ==
    \A c \in Clients :
        /\ WF_vars(LoopThread(c) /\ UNCHANGED room)
        /\ WF_vars(ApiThread(c) /\ UNCHANGED room)

Spec == Init /\ [][Next]_vars

-----------------------------------------------------------------------------
MemberRecords ==
    [nickname : Nicknames, mac : AllMacs, console : {ConsoleOf[c] : c \in Clients},
     peer : Peers, user : {UserOf[c] : c \in Clients}, game : Games \cup {None}]

\* The members, slots and connections have their types.
TypeOK ==
    /\ open \in BOOLEAN
    /\ members \subseteq MemberRecords
    /\ slot \in [Peers -> Clients \cup {None, Lost}]
    /\ link \in [Clients -> Peers \cup {None, Lost}]
    /\ state \in [Clients -> States]
    /\ thread \in [Clients -> {"none", "running", "tested", "ended"}]
    /\ \A c \in Clients : member_information[c] \subseteq Information(MemberRecords)

\* room.h:57-60 and HandleJoinRequest: the room has never more members than
\* slots, and no two members share a nickname, a MAC address, a console or a
\* connection, whatever requests, kicks and timeouts have come before.  The
\* last one is not checked anywhere: a second request on the same connection
\* is only stopped by the console id of the first.
MembersUnique ==
    /\ Cardinality(members) <= MemberSlots
    /\ \A m1, m2 \in members :
          \/ m1.nickname = m2.nickname
          \/ m1.mac = m2.mac
          \/ m1.console = m2.console
          \/ m1.peer = m2.peer
          => m1 = m2

\* Every member is on a peer that is in use by the console the member names:
\* HandleClientDisconnection and the moderation handlers never leave a member
\* whose peer enet may give to the next client.
MembersConnected ==
    \A m \in members :
        /\ slot[m.peer] \in Clients
        /\ m.console = ConsoleOf[slot[m.peer]]

\* MemberLoop's assertion (room_member.cpp:183): the room information that
\* lists the client arrives before JoinSuccess.
NoAssertFails ==
    \A c \in Clients :
        Iterates(c) /\ down[c] # <<>> /\ Head(down[c]).type \in Successes
            => \E i \in member_information[c] : i.mac = Head(down[c]).mac

\* When nothing is on its way to a client that is in the room and still
\* reached by it, the client's picture of the room is the room's own list.
ViewsAgree ==
    \A c \in Clients :
        state[c] \in {"Joined", "Moderator"} /\ link[c] \in Peers /\ down[c] = <<>>
            => /\ member_information[c] = Information(members)
               /\ \E m \in members : m.peer = link[c] /\ m.mac = mac_address[c]

\* A member whose client has left, was cut off or was dropped by a fault is
\* removed, so that its nickname, address and place become free, even if no
\* client ever runs again.
GhostsRemoved ==
    (\E m \in members : Broken(m.peer)) ~> (\A m \in members : ~Broken(m.peer))

\* room_member.h:269 says of Leave: "Leaves the current room."  A call of Leave,
\* which waits for the loop thread, returns.
LeaveEnds ==
    \A c \in Clients : api[c].pc = "leaving" ~> api[c].pc # "leaving"

============================================================================
