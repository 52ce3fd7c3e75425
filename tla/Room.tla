-------------------------------- MODULE Room --------------------------------
(***************************************************************************)
(* The host of a multiplayer room (src/src/network/room.cpp): the member   *)
(* list, the ban lists and the handlers of ServerLoop.  One thread runs    *)
(* every handler, so a handler is one step; what it sends is appended, in  *)
(* the order of its calls, to the channels of ENet.                        *)
(*                                                                         *)
(* Abstracted: member_list is a set (its order is never used except to be  *)
(* shown), a client's console id hash, address and forum user are given by *)
(* constants, and the text of chat and status messages is dropped.         *)
(***************************************************************************)
EXTENDS ENet, FiniteSets

CONSTANTS
    MemberSlots,      \* room_information.member_slots (max_connections)
    Nicknames,        \* the nicknames that match IsValidNickname's regex
    AllMacs,          \* the MAC addresses there are
    Macs,             \* the ones GenerateMacAddress draws from
    NoPreferredMac,
    BroadcastMac,
    Password,         \* the room's password
    NetworkVersion,
    ConsoleOf,        \* ConsoleOf[c]: the hash of c's console id
    IpOf,             \* IpOf[c]: the address c connects from
    UserOf,           \* UserOf[c]: the forum user c's token stands for
    NoUser,           \* the empty username
    HostUser,         \* room_information.host_username
    Moderators,       \* the users verify_backend reports as moderators
    BannedUsers,      \* the ban list the room is created with
    BannedIps

ASSUME RoomAssumption ==
    /\ MemberSlots \in Nat
    /\ Macs \subseteq AllMacs
    /\ NoPreferredMac \notin AllMacs

VARIABLES
    open,             \* state = State::Open
    members,
    username_ban_list,
    ip_ban_list

room == <<open, members, username_ban_list, ip_ban_list>>

RoomInit ==
    /\ open = TRUE
    /\ members = {}
    /\ username_ban_list = BannedUsers
    /\ ip_ban_list = BannedIps

-----------------------------------------------------------------------------
(* The checks.                                                             *)

IsValidNickname(nickname) ==
    /\ nickname \in Nicknames
    /\ \A m \in members : m.nickname # nickname

IsValidMacAddress(mac) == \A m \in members : m.mac # mac

IsValidConsoleId(console) == \A m \in members : m.console # console

\* NoUser is never banned: HandleModBanPacket skips the empty username.
IsBanned(p) ==
    \/ UserOf[slot[p]] \in username_ban_list
    \/ IpOf[slot[p]] \in ip_ban_list

\* Moderators is empty when the room does not enable community moderators.
HasModPermission(ms, p) ==
    \E m \in ms :
        /\ m.peer = p
        /\ \/ m.user \in Moderators
           \/ m.user = HostUser /\ HostUser # NoUser

\* Mutant: NoPreferredMac is taken for a preferred address.
AssignedMacsAsAsked(preferred) == {preferred}

\* Mutant: GenerateMacAddress returns the first address it draws.
AssignedMacsUnchecked(preferred) ==
    IF preferred # NoPreferredMac THEN {preferred} ELSE Macs

\* GenerateMacAddress draws until the address is not taken.
AssignedMacs(preferred) ==
    IF preferred # NoPreferredMac THEN {preferred}
    ELSE {mac \in Macs : IsValidMacAddress(mac)}

-----------------------------------------------------------------------------
(* What the room sends.                                                    *)

\* The list BroadcastRoomInformation writes.
Information(ms) ==
    {[nickname |-> m.nickname, mac |-> m.mac, game |-> m.game, user |-> m.user] : m \in ms}

PeersOf(ms) == {m.peer : m \in ms}

\* SendStatusMessage to the members ms, BroadcastRoomInformation of list, and
\* then the answer to peer p.
Announced(ms, list, p, answer) ==
    [q \in Peers |->
        (IF q \in PeersOf(ms) THEN <<[type |-> "StatusMessage"]>> ELSE <<>>)
        \o <<[type |-> "RoomInformation", list |-> Information(list)]>>
        \o (IF q = p THEN answer ELSE <<>>)]

\* The Send* functions that answer the sender of a request.
Reply(p, t) ==
    /\ down' = Sent(Only(p, <<[type |-> t]>>))
    /\ UNCHANGED <<slot, link, room>>

-----------------------------------------------------------------------------
(* The handlers.                                                           *)

\* The first check of HandleJoinRequest that fails.
Refusal(p, r) ==
    IF Cardinality(members) >= MemberSlots THEN "RoomIsFull"
    ELSE IF r.password # Password THEN "WrongPassword"
    ELSE IF ~IsValidNickname(r.nickname) THEN "NameCollision"
    ELSE IF r.mac # NoPreferredMac /\ ~IsValidMacAddress(r.mac) THEN "MacCollision"
    ELSE IF ~IsValidConsoleId(r.console) THEN "ConsoleIdCollision"
    ELSE IF r.version # NetworkVersion THEN "VersionMismatch"
    ELSE IF IsBanned(p) THEN "HostBanned"
    ELSE "Accepted"

\* Mutant: JoinSuccess is sent before the room information.
AdmitAnswersFirst(p, r) ==
    \E mac \in AssignedMacs(r.mac) :
        LET m == [nickname |-> r.nickname, mac |-> mac, console |-> r.console,
                  peer |-> p, user |-> UserOf[slot[p]], game |-> None]
            list == members \cup {m}
        IN  /\ members' = list
            /\ down' = Sent([q \in Peers |->
                  (IF q = p THEN <<[type |-> "JoinSuccess", mac |-> mac]>> ELSE <<>>)
                  \o Announced(members, list, p, <<>>)[q]])
            /\ UNCHANGED <<slot, link, open, username_ban_list, ip_ban_list>>

\* The status message goes out before the new member is in the list, the room
\* information after it, and JoinSuccess last.
Admit(p, r) ==
    \E mac \in AssignedMacs(r.mac) :
        LET m == [nickname |-> r.nickname, mac |-> mac, console |-> r.console,
                  peer |-> p, user |-> UserOf[slot[p]], game |-> None]
            list == members \cup {m}
            answer == [type |-> IF HasModPermission(list, p)
                                THEN "JoinSuccessAsMod" ELSE "JoinSuccess",
                       mac |-> mac]
        IN  /\ members' = list
            /\ down' = Sent(Announced(members, list, p, <<answer>>))
            /\ UNCHANGED <<slot, link, open, username_ban_list, ip_ban_list>>

HandleJoinRequest(p) ==
    /\ open
    /\ Received(p, "JoinRequest")
    /\ LET r == Head(up[p])
       IN  \/ Refusal(p, r) # "Accepted" /\ Reply(p, Refusal(p, r))
           \/ Refusal(p, r) = "Accepted" /\ Admit(p, r)

\* Mutant: the change of game is not broadcast.
HandleGameNamePacketSilent(p) ==
    /\ open
    /\ Received(p, "SetGameInfo")
    /\ members' = {IF m.peer = p THEN [m EXCEPT !.game = Head(up[p]).game] ELSE m :
                       m \in members}
    /\ UNCHANGED <<slot, link, down, open, username_ban_list, ip_ban_list>>

\* Broadcast even when the sender is not a member (any more).
HandleGameNamePacket(p) ==
    /\ open
    /\ Received(p, "SetGameInfo")
    /\ members' = {IF m.peer = p THEN [m EXCEPT !.game = Head(up[p]).game] ELSE m :
                       m \in members}
    /\ down' = Sent(Announced({}, members', p, <<>>))
    /\ UNCHANGED <<slot, link, open, username_ban_list, ip_ban_list>>

HandleChatPacket(p) ==
    /\ open
    /\ Received(p, "ChatMessage")
    /\ down' = Sent([q \in Peers |->
                        IF p \in PeersOf(members) /\ q \in PeersOf(members) \ {p}
                        THEN <<[type |-> "ChatMessage"]>> ELSE <<>>])
    /\ UNCHANGED <<slot, link, room>>

\* Unlike chat, a frame is forwarded whoever sent it.
HandleWifiPacket(p) ==
    /\ open
    /\ Received(p, "WifiPacket")
    /\ LET to == Head(up[p]).to
           receivers == IF to = BroadcastMac THEN PeersOf(members) \ {p}
                        ELSE PeersOf({m \in members : m.mac = to})
       IN  down' = Sent([q \in Peers |-> IF q \in receivers
                                         THEN <<[type |-> "WifiPacket"]>> ELSE <<>>])
    /\ UNCHANGED <<slot, link, room>>

\* SendUserKicked or SendUserBanned, enet_peer_disconnect and the erasure of
\* member m, then the status message and the room information for the rest.
\* What the disconnected peer had sent is not received any more.
Remove(p, m, notice) ==
    LET c == slot[m.peer]
        rest == members \ {m}
        sent == Announced(rest, rest, m.peer, <<>>)
    IN  /\ members' = rest
        /\ up' = [up EXCEPT ![p] = Tail(@), ![m.peer] = <<>>]
        /\ link' = IF link[c] = m.peer THEN [link EXCEPT ![c] = Lost] ELSE link
        /\ down' = Sent([sent EXCEPT ![m.peer] = <<[type |-> notice]>>])
        /\ UNCHANGED <<slot, open>>

ModerationTypes == {"ModKick", "ModBan", "ModUnban", "ModGetBanList"}

\* The first test of every moderation handler.
HandleModDenied(p) ==
    /\ open
    /\ ~HasModPermission(members, p)
    /\ \E t \in ModerationTypes : Received(p, t)
    /\ Reply(p, "ModPermissionDenied")

\* HandleModKickPacket and HandleModBanPacket, up to the ban lists.
HandleRemoval(p, t, notice) ==
    /\ open
    /\ HasModPermission(members, p)
    /\ up[p] # <<>>
    /\ Head(up[p]).type = t
    /\ LET targets == {m \in members : m.nickname = Head(up[p]).nickname}
       IN  \/ targets = {} /\ Received(p, t) /\ Reply(p, "ModNoSuchUser")
           \/ \E m \in targets :
                 /\ Remove(p, m, notice)
                 /\ username_ban_list' = username_ban_list \cup
                       (IF t = "ModBan" /\ m.user # NoUser THEN {m.user} ELSE {})
                 /\ ip_ban_list' = ip_ban_list \cup
                       (IF t = "ModBan" THEN {IpOf[slot[m.peer]]} ELSE {})

HandleModKickPacket(p) == HandleRemoval(p, "ModKick", "HostKicked")

HandleModBanPacket(p) == HandleRemoval(p, "ModBan", "HostBanned")

HandleModUnbanPacket(p) ==
    /\ open
    /\ HasModPermission(members, p)
    /\ Received(p, "ModUnban")
    /\ LET address == Head(up[p]).address
       IN  \/ /\ address \notin username_ban_list \cup ip_ban_list
              /\ Reply(p, "ModNoSuchUser")
           \/ /\ address \in username_ban_list \cup ip_ban_list
              /\ username_ban_list' = username_ban_list \ {address}
              /\ ip_ban_list' = ip_ban_list \ {address}
              /\ down' = Sent([q \in Peers |-> IF q \in PeersOf(members)
                                 THEN <<[type |-> "StatusMessage"]>> ELSE <<>>])
              /\ UNCHANGED <<slot, link, open, members>>

HandleModGetBanListPacket(p) ==
    /\ open
    /\ HasModPermission(members, p)
    /\ Received(p, "ModGetBanList")
    /\ Reply(p, "ModBanListResponse")

\* Mutant: the member is kept when its peer disconnects.
HandleClientDisconnectionKeeps(p) ==
    /\ open
    /\ Disconnected(p)
    /\ UNCHANGED <<link, down, room>>

\* enet frees the slot when it delivers the event.
HandleClientDisconnection(p) ==
    /\ open
    /\ Disconnected(p)
    /\ LET rest == {m \in members : m.peer # p}
       IN  /\ members' = rest
           /\ down' = Sent(Announced(IF rest = members THEN {} ELSE rest, rest, p, <<>>))
    /\ UNCHANGED <<link, open, username_ban_list, ip_ban_list>>

\* Room::Destroy: ServerLoop ends with SendCloseMessage to the members, and
\* the host is destroyed at once, so no peer is told anything else.
Destroy ==
    /\ open
    /\ open' = FALSE
    /\ members' = {}
    /\ slot' = [p \in Peers |-> Lost]
    /\ up' = [p \in Peers |-> <<>>]
    /\ down' = Sent([p \in Peers |-> IF p \in PeersOf(members)
                                     THEN <<[type |-> "CloseRoom"]>> ELSE <<>>])
    /\ link' = [c \in Clients |-> IF link[c] \in Peers THEN Lost ELSE link[c]]
    /\ UNCHANGED <<username_ban_list, ip_ban_list>>

=============================================================================
