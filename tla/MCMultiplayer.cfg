SPECIFICATION HostedServerSpec
CONSTANTS
    h = h
    g = g
    None = None
    Lost = Lost
    NoPreferredMac = NoPreferredMac
    BroadcastMac = BroadcastMac
    Clients = {h, g}
    Peers = {1, 2, 3}
    MemberSlots = 2
    Nicknames = {"host", "guest"}
    AllMacs = {1, 2}
    Macs = {1, 2}
    Password = "secret"
    NetworkVersion = 1
    NoUser = "none"
    HostUser = "host"
    Moderators = {}
    ConsoleOf <- ConsolesOf
    IpOf <- IpsOf
    UserOf <- UsersOf
    BannedUsers = {}
    BannedIps = {"elsewhere"}
    Games = {1}
    GuestNames = {"guest"}
    HostCommands <- ModeratorCommands
    GuestCommands <- GuestPackets
    Requests <- MCRequests
    Commands <- MCCommands
    MaxCalls = 2
INVARIANT TypeOK
INVARIANT MembersUnique
INVARIANT MembersConnected
INVARIANT NoAssertFails
INVARIANT ViewsAgree
PROPERTY GhostsRemoved
CHECK_DEADLOCK FALSE
