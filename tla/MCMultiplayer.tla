---------------------------- MODULE MCMultiplayer ----------------------------
(***************************************************************************)
(* Multiplayer for TLC: the host of the room (h) and one guest (g).        *)
(***************************************************************************)
EXTENDS Multiplayer, TLC

CONSTANTS h, g, GuestNames, HostCommands, GuestCommands

Request(c, nick, mac, pass, version) ==
    [type |-> "JoinRequest", nickname |-> nick, console |-> ConsoleOf[c], mac |-> mac,
     password |-> pass, version |-> version]

ConsolesOf == h :> "console of h" @@ g :> "console of g"
IpsOf == h :> "address of h" @@ g :> "address of g"
UsersOf == h :> "host" @@ g :> NoUser

MCRequests ==
    h :> {} @@
    g :> {Request(g, name, NoPreferredMac, "secret", 1) : name \in GuestNames}

Kick == [type |-> "ModKick", nickname |-> "guest"]
Ban == [type |-> "ModBan", nickname |-> "guest"]
Unban == [type |-> "ModUnban", address |-> "elsewhere"]
BanList == [type |-> "ModGetBanList"]
Chat == [type |-> "ChatMessage"]
Frame == [type |-> "WifiPacket", to |-> BroadcastMac]

MCCommands == h :> HostCommands @@ g :> GuestCommands
ModeratorCommands == {Kick, Ban, Unban, BanList}
GuestPackets == {Chat, Frame, BanList}

\* The state Init reaches when h has created the room, joined it as its host
\* and received every packet, and g has called Join.
HostRecord ==
    [nickname |-> "host", mac |-> 1, console |-> ConsoleOf[h], peer |-> 1,
     user |-> UserOf[h], game |-> None]

HostedInit ==
    /\ slot = [p \in Peers |-> IF p = 1 THEN h ELSE None]
    /\ up = [p \in Peers |-> <<>>]
    /\ link = h :> 1 @@ g :> None
    /\ down = [c \in Clients |-> <<>>]
    /\ open = TRUE
    /\ members = {HostRecord}
    /\ username_ban_list = BannedUsers
    /\ ip_ban_list = BannedIps
    /\ state = h :> "Moderator" @@ g :> "Joining"
    /\ member_information = h :> Information({HostRecord}) @@ g :> {}
    /\ mac_address = h :> 1 @@ g :> None
    /\ nickname = h :> "host" @@ g :> None
    /\ current_game_info = [c \in Clients |-> None]
    /\ send_list = [c \in Clients |-> <<>>]
    /\ thread = h :> "running" @@ g :> "none"
    /\ \E request \in Requests[g] :
          api = h :> Idle @@ g :> [pc |-> "connecting", request |-> request]
    /\ calls = 0

HostedServerSpec == HostedInit /\ [][Next]_vars /\ ServerFairness
HostedFairSpec == HostedServerSpec /\ MemberFairness

=============================================================================
