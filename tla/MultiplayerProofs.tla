-------------------------- MODULE MultiplayerProofs --------------------------
(***************************************************************************)
(* The member list of a room stays sound for any number of clients, peers, *)
(* calls and faults.                                                       *)
(*                                                                         *)
(* HandleJoinRequest compares a request with nicknames, addresses and      *)
(* console ids, never with connections.  That a connection carries at most *)
(* one member follows from what the clients send: every request on peer p  *)
(* names the console of the client on p, so the inductive invariant has to *)
(* follow the packets from Join through send_list and up.                  *)
(*                                                                         *)
(* What a client shows follows from the packets on the way back: the room  *)
(* sends its list before every JoinSuccess and after every change of the   *)
(* list, so the second invariant, Pictures, follows the lists through      *)
(* down.  It rests on the first: a list only speaks of the client because  *)
(* the client's connection carries one member.                             *)
(***************************************************************************)
EXTENDS Multiplayer, FiniteSetTheorems, SequenceTheorems, TLAPS

\* What client c puts on a connection.
Packets(c) ==
    Requests[c] \cup Commands[c] \cup [type : {"SetGameInfo"}, game : Games \cup {None}]

Requested == UNION {Requests[c] : c \in Clients}

\* Where the caller of Join or Leave is.
Places == {"idle", "connecting", "requesting", "leaving"}

\* A connected client is the one in its slot, and only its packets are there.
Channels ==
    /\ slot \in [Peers -> Clients \cup {None, Lost}]
    /\ link \in [Clients -> Peers \cup {None, Lost}]
    /\ up = [p \in Peers |-> up[p]]
    /\ \A c \in Clients : link[c] \in Peers => slot[link[c]] = c
    /\ \A p \in Peers :
          /\ slot[p] \in Clients => up[p] \in Seq(Packets(slot[p]))
          /\ slot[p] \notin Clients => up[p] = <<>>

\* A client sends its own packets, and joins with its own requests.
Senders ==
    /\ send_list = [c \in Clients |-> send_list[c]]
    /\ current_game_info \in [Clients -> Games \cup {None}]
    /\ api \in [Clients -> [pc : Places, request : Requested \cup {None}]]
    /\ \A c \in Clients :
          /\ send_list[c] \in Seq(Packets(c))
          /\ api[c].request \in Requests[c] \cup {None}
          /\ api[c].pc \in {"connecting", "requesting"} => api[c].request \in Requests[c]

Listed ==
    /\ IsFiniteSet(members)
    /\ members \subseteq MemberRecords
    /\ MembersUnique
    /\ MembersConnected

IInv == Channels /\ Senders /\ Listed

-----------------------------------------------------------------------------
(* The packets.                                                            *)

\* A JoinRequest of client c names c's console and a MAC address; a
\* SetGameInfo names a game.
LEMMA PacketFields ==
    ASSUME NEW c \in Clients, NEW k \in Packets(c)
    PROVE  /\ k.type = "JoinRequest" =>
                 k.console = ConsoleOf[c] /\ k.mac \in AllMacs \cup {NoPreferredMac}
           /\ k.type = "SetGameInfo" => k.game \in Games \cup {None}
  <1>1. CASE k \in Requests[c]
    BY <1>1, PacketsAssumption
  <1>2. CASE k \in Commands[c]
    BY <1>2, PacketsAssumption
  <1>3. CASE k \in [type : {"SetGameInfo"}, game : Games \cup {None}]
    BY <1>3
  <1> QED
    BY <1>1, <1>2, <1>3 DEF Packets

\* ServerLoop receives what the client of the slot sent.
LEMMA ReceivedPacket ==
    ASSUME Channels, NEW p \in Peers, up[p] # <<>>
    PROVE  /\ slot[p] \in Clients
           /\ Head(up[p]) \in Packets(slot[p])
           /\ Tail(up[p]) \in Seq(Packets(slot[p]))
  <1>1. slot[p] \in Clients /\ up[p] \in Seq(Packets(slot[p]))
    BY DEF Channels
  <1> QED
    BY <1>1, HeadTailProperties

\* Taking a packet leaves the channels as they should be.
LEMMA ReceiveKeepsChannels ==
    ASSUME Channels, NEW p \in Peers, NEW t, Received(p, t), slot' = slot, link' = link
    PROVE  Channels'
  <1>1. /\ slot[p] \in Clients
        /\ Tail(up[p]) \in Seq(Packets(slot[p]))
    BY ReceivedPacket DEF Received
  <1>2. up' = [up EXCEPT ![p] = Tail(@)]
    BY DEF Received
  <1>3. up' = [q \in Peers |-> IF q = p THEN Tail(up[p]) ELSE up[q]]
    BY <1>2 DEF Channels
  <1>4. up' = [q \in Peers |-> up'[q]]
    BY <1>3
  <1>5. \A q \in Peers : up'[q] = IF q = p THEN Tail(up[p]) ELSE up[q]
    BY <1>3
  <1>6. \A q \in Peers :
          /\ slot[q] \in Clients => up'[q] \in Seq(Packets(slot[q]))
          /\ slot[q] \notin Clients => up'[q] = <<>>
    BY <1>1, <1>5 DEF Channels
  <1> QED
    BY <1>4, <1>6 DEF Channels, Packets

-----------------------------------------------------------------------------
(* The member list.                                                        *)

\* Fewer members, on peers that keep their clients, are still sound.
LEMMA FewerMembers ==
    ASSUME Listed, NEW rest \in SUBSET members, members' = rest,
           \A m \in rest : slot'[m.peer] = slot[m.peer]
    PROVE  Listed'
  <1>1. IsFiniteSet(rest) /\ Cardinality(rest) <= Cardinality(members)
    BY FS_Subset DEF Listed
  <1>2. Cardinality(rest) \in Nat /\ Cardinality(members) \in Nat
    BY <1>1, FS_CardinalityType DEF Listed
  <1>3. Cardinality(rest) <= MemberSlots
    BY <1>1, <1>2, RoomAssumption DEF Listed, MembersUnique
  <1>4. MembersUnique'
    BY <1>3 DEF Listed, MembersUnique
  <1>5. MembersConnected'
    BY DEF Listed, MembersConnected
  <1> QED
    BY <1>1, <1>4, <1>5 DEF Listed, MemberRecords

\* The member list does not depend on anything else.
LEMMA SameMembers ==
    ASSUME Listed, members' = members, slot' = slot
    PROVE  Listed'
  BY DEF Listed, MembersUnique, MembersConnected, MemberRecords

\* Nor do the callers and the send lists depend on anything else.
LEMMA SameSenders ==
    ASSUME Senders, UNCHANGED client
    PROVE  Senders'
  BY DEF Senders, client, Packets, Requested

\* An answer to one peer changes no list.
LEMMA ReplyKeepsIInv ==
    ASSUME IInv, NEW p \in Peers, NEW t, NEW u, Received(p, t), Reply(p, u), UNCHANGED client
    PROVE  IInv'
  <1>1. slot' = slot /\ link' = link /\ members' = members
    BY DEF Reply, room
  <1> QED
    BY <1>1, ReceiveKeepsChannels, SameMembers, SameSenders DEF IInv

\* HandleJoinRequest: the new member's console is the one of its peer's
\* client, so that a second member on the same peer would share its console.
LEMMA JoinKeepsIInv ==
    ASSUME IInv, NEW p \in Peers, HandleJoinRequest(p), UNCHANGED client
    PROVE  IInv'
  <1> DEFINE r == Head(up[p])
  <1>1. Received(p, "JoinRequest")
    BY DEF HandleJoinRequest
  <1>2. /\ slot[p] \in Clients
        /\ r.console = ConsoleOf[slot[p]]
        /\ r.mac \in AllMacs \cup {NoPreferredMac}
    BY <1>1, ReceivedPacket, PacketFields DEF IInv, Received
  <1>3. CASE Refusal(p, r) # "Accepted" /\ Reply(p, Refusal(p, r))
    BY <1>1, <1>3, ReplyKeepsIInv
  <1>4. CASE Refusal(p, r) = "Accepted" /\ Admit(p, r)
    <2>1. PICK mac \in AssignedMacs(r.mac) :
            LET m == [nickname |-> r.nickname, mac |-> mac, console |-> r.console,
                      peer |-> p, user |-> UserOf[slot[p]], game |-> None]
            IN  members' = members \cup {m}
      BY <1>4 DEF Admit
    <2> DEFINE m == [nickname |-> r.nickname, mac |-> mac, console |-> r.console,
                     peer |-> p, user |-> UserOf[slot[p]], game |-> None]
    <2>2. slot' = slot /\ link' = link /\ members' = members \cup {m}
      BY <1>4, <2>1 DEF Admit
    <2>3. /\ ~(Cardinality(members) >= MemberSlots)
          /\ IsValidNickname(r.nickname)
          /\ IsValidConsoleId(r.console)
          /\ r.mac # NoPreferredMac => IsValidMacAddress(r.mac)
      BY <1>4 DEF Refusal
    <2>4. mac \in AllMacs /\ IsValidMacAddress(mac)
      BY <1>2, <2>1, <2>3, RoomAssumption DEF AssignedMacs
    <2>5. m \in MemberRecords
      BY <1>2, <2>3, <2>4 DEF MemberRecords, IsValidNickname
    <2>6. /\ IsFiniteSet(members \cup {m})
          /\ Cardinality(members \cup {m}) <= MemberSlots
      <3>1. Cardinality(members) \in Nat
        BY FS_CardinalityType DEF IInv, Listed
      <3>2. /\ IsFiniteSet(members \cup {m})
            /\ Cardinality(members \cup {m}) \in {Cardinality(members), Cardinality(members) + 1}
        BY FS_AddElement DEF IInv, Listed
      <3> QED
        BY <2>3, <3>1, <3>2, RoomAssumption
    <2>7. \A n \in members : /\ n.nickname # m.nickname
                             /\ n.mac # m.mac
                             /\ n.console # m.console
      BY <2>3, <2>4 DEF IsValidNickname, IsValidMacAddress, IsValidConsoleId
    <2>8. \A n \in members : n.peer # m.peer
      <3> SUFFICES ASSUME NEW n \in members, n.peer = p PROVE FALSE
        OBVIOUS
      <3>1. n.console = ConsoleOf[slot[p]]
        BY DEF IInv, Listed, MembersConnected
      <3> QED
        BY <1>2, <2>7, <3>1
    <2>9. MembersUnique'
      <3>1. \A m1, m2 \in members :
               (\/ m1.nickname = m2.nickname \/ m1.mac = m2.mac
                \/ m1.console = m2.console \/ m1.peer = m2.peer) => m1 = m2
        BY DEF IInv, Listed, MembersUnique
      <3> HIDE DEF m
      <3>2. \A m1, m2 \in members \cup {m} :
               (\/ m1.nickname = m2.nickname \/ m1.mac = m2.mac
                \/ m1.console = m2.console \/ m1.peer = m2.peer) => m1 = m2
        BY <2>7, <2>8, <3>1
      <3> QED
        BY <2>2, <2>6, <3>2 DEF MembersUnique
    <2>10. MembersConnected'
      <3>1. \A n \in members \cup {m} : slot[n.peer] \in Clients
                                         /\ n.console = ConsoleOf[slot[n.peer]]
        BY <1>2 DEF IInv, Listed, MembersConnected
      <3> HIDE DEF m
      <3> QED
        BY <2>2, <3>1 DEF MembersConnected
    <2>11. Listed'
      <3>1. members' \subseteq MemberRecords
        BY <2>2, <2>5 DEF IInv, Listed
      <3>2. IsFiniteSet(members')
        BY <2>2, <2>6
      <3> QED
        BY <2>9, <2>10, <3>1, <3>2 DEF Listed, MemberRecords
    <2> QED
      BY <1>1, <2>2, <2>11, ReceiveKeepsChannels, SameSenders DEF IInv
  <1> QED
    BY <1>3, <1>4 DEF HandleJoinRequest

\* HandleGameNamePacket: only the game of a member changes.
LEMMA GameKeepsIInv ==
    ASSUME IInv, NEW p \in Peers, HandleGameNamePacket(p), UNCHANGED client
    PROVE  IInv'
  <1> DEFINE Updated(m) == IF m.peer = p THEN [m EXCEPT !.game = Head(up[p]).game] ELSE m
  <1>1. /\ Received(p, "SetGameInfo")
        /\ members' = {Updated(m) : m \in members}
        /\ slot' = slot /\ link' = link
    BY DEF HandleGameNamePacket
  <1>2. Head(up[p]).game \in Games \cup {None}
    BY <1>1, ReceivedPacket, PacketFields DEF IInv, Received
  <1>3. \A m \in members : /\ Updated(m) \in MemberRecords
                           /\ Updated(m).nickname = m.nickname
                           /\ Updated(m).mac = m.mac
                           /\ Updated(m).console = m.console
                           /\ Updated(m).peer = m.peer
    BY <1>2 DEF IInv, Listed, MemberRecords
  <1> HIDE DEF Updated
  <1>4. IsFiniteSet(members') /\ Cardinality(members') <= Cardinality(members)
    <2> DEFINE f == [m \in members |-> Updated(m)]
    <2>1. f \in Surjection(members, members')
      BY <1>1 DEF Surjection
    <2> QED
      BY <2>1, FS_Surjection DEF IInv, Listed
  <1>5. Cardinality(members') <= MemberSlots
    <2>1. Cardinality(members') \in Nat /\ Cardinality(members) \in Nat
      BY <1>4, FS_CardinalityType DEF IInv, Listed
    <2> QED
      BY <1>4, <2>1, RoomAssumption DEF IInv, Listed, MembersUnique
  <1>6. MembersUnique'
    BY <1>1, <1>3, <1>5 DEF IInv, Listed, MembersUnique
  <1>7. MembersConnected'
    BY <1>1, <1>3 DEF IInv, Listed, MembersConnected
  <1>8. Listed'
    BY <1>1, <1>3, <1>4, <1>6, <1>7 DEF Listed, MemberRecords
  <1> QED
    BY <1>1, <1>8, ReceiveKeepsChannels, SameSenders DEF IInv

\* HandleModKickPacket and HandleModBanPacket: the removed member's peer is
\* cut off, and nothing it had sent is received any more.
LEMMA RemovalKeepsIInv ==
    ASSUME IInv, NEW p \in Peers, NEW t, NEW notice, HandleRemoval(p, t, notice),
           UNCHANGED client
    PROVE  IInv'
  <1>1. CASE \E u : Received(p, t) /\ Reply(p, u)
    BY <1>1, ReplyKeepsIInv
  <1>2. ASSUME NEW m \in members, Remove(p, m, notice)
        PROVE  IInv'
    <2> DEFINE c == slot[m.peer]
    <2>1. /\ up[p] # <<>>
          /\ members' = members \ {m}
          /\ up' = [up EXCEPT ![p] = Tail(@), ![m.peer] = <<>>]
          /\ link' = IF link[c] = m.peer THEN [link EXCEPT ![c] = Lost] ELSE link
          /\ slot' = slot
      BY <1>2 DEF HandleRemoval, Remove
    <2>2. m.peer \in Peers /\ c \in Clients
      BY DEF IInv, Listed, MemberRecords, MembersConnected
    <2>3. Listed'
      BY <2>1, FewerMembers DEF IInv
    <2>4. /\ slot[p] \in Clients
          /\ Tail(up[p]) \in Seq(Packets(slot[p]))
      BY <2>1, ReceivedPacket DEF IInv
    <2>5. up' = [q \in Peers |-> IF q = m.peer THEN <<>>
                                ELSE IF q = p THEN Tail(up[p]) ELSE up[q]]
      BY <2>1, <2>2 DEF IInv, Channels
    <2>6. \A S : <<>> \in Seq(S)
      OBVIOUS
    <2>7. \A q \in Peers :
            /\ slot[q] \in Clients => up'[q] \in Seq(Packets(slot[q]))
            /\ slot[q] \notin Clients => up'[q] = <<>>
      BY <2>4, <2>5, <2>6 DEF IInv, Channels
    <2>8. /\ link' \in [Clients -> Peers \cup {None, Lost}]
          /\ \A d \in Clients : link'[d] \in Peers => slot[link'[d]] = d
      BY <2>1, <2>2, PeersAssumption DEF IInv, Channels
    <2>9. up' = [q \in Peers |-> up'[q]]
      BY <2>5
    <2>10. Channels'
      BY <2>1, <2>7, <2>8, <2>9 DEF IInv, Channels, Packets
    <2> QED
      BY <2>3, <2>10, SameSenders DEF IInv
  <1> QED
    BY <1>1, <1>2 DEF HandleRemoval

\* HandleClientDisconnection: the members on the peer go with its client.
LEMMA DisconnectionKeepsIInv ==
    ASSUME IInv, NEW p \in Peers, HandleClientDisconnection(p), UNCHANGED client
    PROVE  IInv'
  <1>1. /\ Broken(p)
        /\ slot' = [slot EXCEPT ![p] = None]
        /\ up' = [up EXCEPT ![p] = <<>>]
        /\ members' = {m \in members : m.peer # p}
        /\ link' = link
    BY DEF HandleClientDisconnection, Disconnected
  <1>2. Listed'
    <2> DEFINE rest == {m \in members : m.peer # p}
    <2>1. \A m \in rest : slot'[m.peer] = slot[m.peer]
      BY <1>1 DEF IInv, Listed, MemberRecords, Channels
    <2>2. rest \in SUBSET members /\ members' = rest
      BY <1>1
    <2> HIDE DEF rest
    <2> QED
      BY <2>1, <2>2, FewerMembers DEF IInv
  <1>3. up' = [q \in Peers |-> IF q = p THEN <<>> ELSE up[q]]
    BY <1>1 DEF IInv, Channels
  <1>4. up' = [q \in Peers |-> up'[q]]
    BY <1>3
  <1>5. \A q \in Peers :
          /\ slot'[q] \in Clients => up'[q] \in Seq(Packets(slot'[q]))
          /\ slot'[q] \notin Clients => up'[q] = <<>>
    BY <1>1, <1>3, PeersAssumption DEF IInv, Channels
  <1>6. \A c \in Clients : link[c] \in Peers => slot'[link[c]] = c
    BY <1>1 DEF IInv, Channels, Broken
  <1>7. slot' \in [Peers -> Clients \cup {None, Lost}]
    BY <1>1 DEF IInv, Channels
  <1>8. Channels'
    BY <1>1, <1>4, <1>5, <1>6, <1>7 DEF IInv, Channels, Packets
  <1> QED
    BY <1>2, <1>8, SameSenders DEF IInv

\* Room::Destroy empties everything.
LEMMA DestroyKeepsIInv ==
    ASSUME IInv, Destroy, UNCHANGED client
    PROVE  IInv'
  <1>1. /\ slot' = [p \in Peers |-> Lost]
        /\ up' = [p \in Peers |-> <<>>]
        /\ members' = {}
        /\ link' = [c \in Clients |-> IF link[c] \in Peers THEN Lost ELSE link[c]]
    BY DEF Destroy
  <1>2. Channels'
    <2>1. up' = [p \in Peers |-> up'[p]]
      BY <1>1
    <2>2. link' \in [Clients -> Peers \cup {None, Lost}]
      BY <1>1 DEF IInv, Channels
    <2>3. \A c \in Clients : link'[c] \notin Peers
      BY <1>1, PeersAssumption
    <2> QED
      BY <1>1, <2>1, <2>2, <2>3, PeersAssumption DEF Channels
  <1>3. Listed'
    BY <1>1, FewerMembers DEF IInv
  <1> QED
    BY <1>2, <1>3, SameSenders DEF IInv

\* Every event of ServerLoop.
LEMMA ServerKeepsIInv ==
    ASSUME IInv, NEW p \in Peers, ServerEvent(p)
    PROVE  IInv'
  <1>0. UNCHANGED client
    BY DEF ServerEvent
  <1>1. ASSUME NEW t, Received(p, t), UNCHANGED <<slot, link, members>>
        PROVE  IInv'
    BY <1>0, <1>1, ReceiveKeepsChannels, SameMembers, SameSenders DEF IInv
  <1>2. CASE HandleChatPacket(p)
    BY <1>1, <1>2 DEF HandleChatPacket, room
  <1>3. CASE HandleWifiPacket(p)
    BY <1>1, <1>3 DEF HandleWifiPacket, room
  <1>4. CASE HandleModDenied(p)
    BY <1>1, <1>4 DEF HandleModDenied, Reply, room
  <1>5. CASE HandleModUnbanPacket(p)
    BY <1>1, <1>5 DEF HandleModUnbanPacket, Reply, room
  <1>6. CASE HandleModGetBanListPacket(p)
    BY <1>1, <1>6 DEF HandleModGetBanListPacket, Reply, room
  <1>7. CASE HandleModKickPacket(p) \/ HandleModBanPacket(p)
    BY <1>0, <1>7, RemovalKeepsIInv DEF HandleModKickPacket, HandleModBanPacket
  <1> QED
    BY <1>0, <1>2, <1>3, <1>4, <1>5, <1>6, <1>7, JoinKeepsIInv, GameKeepsIInv,
       DisconnectionKeepsIInv DEF ServerEvent

-----------------------------------------------------------------------------
(* The clients.                                                            *)

\* The channels depend on ENet's fields only.
LEMMA SameChannels ==
    ASSUME Channels, UNCHANGED <<slot, up, link>>
    PROVE  Channels'
  BY DEF Channels, Packets

\* Packets of c appended to c's send list.
LEMMA AppendKeepsSenders ==
    ASSUME Senders, NEW c \in Clients, NEW more \in Seq(Packets(c)),
           send_list' = [send_list EXCEPT ![c] = @ \o more]
    PROVE  /\ send_list' = [d \in Clients |-> send_list'[d]]
           /\ \A d \in Clients : send_list'[d] \in Seq(Packets(d))
  <1>1. send_list[c] \o more \in Seq(Packets(c))
    BY ConcatProperties DEF Senders
  <1>2. send_list' = [d \in Clients |-> IF d = c THEN send_list[c] \o more ELSE send_list[d]]
    BY DEF Senders
  <1>3. \A d \in Clients : send_list'[d] =
           IF d = c THEN send_list[c] \o more ELSE send_list[d]
    BY <1>2
  <1>4. send_list' = [d \in Clients |-> send_list'[d]]
    BY <1>2
  <1> QED
    BY <1>1, <1>3, <1>4 DEF Senders

\* What SendGameInfo sends is a packet of the client.
LEMMA GamePacketType ==
    ASSUME NEW c \in Clients, NEW game \in Games \cup {None}
    PROVE  GamePacket(c, game) \in Seq(Packets(c))
  <1>1. [type |-> "SetGameInfo", game |-> game] \in Packets(c)
    BY DEF Packets
  <1> QED
    BY <1>1 DEF GamePacket

\* The end of an iteration: c's packets go to c's slot.
LEMMA FlushKeepsIInv ==
    ASSUME IInv, NEW c \in Clients, Flush(c), UNCHANGED <<slot, link, members>>,
           UNCHANGED <<current_game_info, api>>
    PROVE  IInv'
  <1>1. \A S : <<>> \in Seq(S)
    OBVIOUS
  <1>2. send_list' = [d \in Clients |-> IF d = c THEN <<>> ELSE send_list[d]]
    BY DEF Flush, IInv, Senders
  <1>3. send_list' = [d \in Clients |-> send_list'[d]]
    BY <1>2
  <1>4. \A d \in Clients : send_list'[d] \in Seq(Packets(d))
    BY <1>1, <1>2 DEF IInv, Senders
  <1>5. Senders'
    BY <1>3, <1>4 DEF IInv, Senders, Packets, Requested
  <1>6. CASE link[c] \notin Peers
    BY <1>5, <1>6, SameChannels, SameMembers DEF IInv, Flush
  <1>7. CASE link[c] \in Peers
    <2> DEFINE p == link[c]
    <2>1. slot[p] = c
      BY <1>7 DEF IInv, Channels
    <2>2. up[p] \o send_list[c] \in Seq(Packets(c))
      <3>1. up[p] \in Seq(Packets(c)) /\ send_list[c] \in Seq(Packets(c))
        BY <1>7, <2>1 DEF IInv, Channels, Senders
      <3> QED
        BY <3>1, ConcatProperties
    <2>3. up' = [q \in Peers |-> IF q = p THEN up[p] \o send_list[c] ELSE up[q]]
      BY <1>7 DEF Flush, IInv, Channels
    <2>4. up' = [q \in Peers |-> up'[q]]
      BY <2>3
    <2>5. \A q \in Peers :
            /\ slot[q] \in Clients => up'[q] \in Seq(Packets(slot[q]))
            /\ slot[q] \notin Clients => up'[q] = <<>>
      BY <2>1, <2>2, <2>3 DEF IInv, Channels
    <2>6. Channels'
      BY <2>4, <2>5 DEF IInv, Channels, Packets
    <2> QED
      BY <1>5, <2>6, SameMembers DEF IInv
  <1> QED
    BY <1>6, <1>7

\* The CONNECT event: a free slot carries no packet and no member.
LEMMA ConnectKeepsIInv ==
    ASSUME IInv, NEW c \in Clients, Connected(c), UNCHANGED room
    PROVE  IInv'
  <1>1. PICK p \in Peers : Connect(c, p)
    BY DEF Connected
  <1>2. /\ slot[p] = None
        /\ slot' = [slot EXCEPT ![p] = c]
        /\ up' = [up EXCEPT ![p] = <<>>]
        /\ link' = [link EXCEPT ![c] = p]
        /\ members' = members
    BY <1>1 DEF Connect, room
  <1>3. Listed'
    <2>1. \A m \in members : slot'[m.peer] = slot[m.peer]
      BY <1>2, PeersAssumption DEF IInv, Listed, MembersConnected, MemberRecords, Channels
    <2> QED
      BY <1>2, <2>1, FewerMembers DEF IInv
  <1>4. Channels'
    <2>1. up' = [q \in Peers |-> IF q = p THEN <<>> ELSE up[q]]
      BY <1>2 DEF IInv, Channels
    <2>2. up' = [q \in Peers |-> up'[q]]
      BY <2>1
    <2>3. \A S : <<>> \in Seq(S)
      OBVIOUS
    <2>4. \A q \in Peers :
            /\ slot'[q] \in Clients => up'[q] \in Seq(Packets(slot'[q]))
            /\ slot'[q] \notin Clients => up'[q] = <<>>
      BY <1>2, <2>1, <2>3 DEF IInv, Channels
    <2>5. /\ slot' \in [Peers -> Clients \cup {None, Lost}]
          /\ link' \in [Clients -> Peers \cup {None, Lost}]
      BY <1>2 DEF IInv, Channels
    <2>6. \A d \in Clients : link'[d] \in Peers => slot'[link'[d]] = d
      BY <1>2, PeersAssumption DEF IInv, Channels
    <2> QED
      BY <2>2, <2>4, <2>5, <2>6 DEF Channels, Packets
  <1>5. Senders'
    <2>1. api' = [api EXCEPT ![c].pc = "requesting"] /\ api[c].pc = "connecting"
      BY DEF Connected
    <2>2. UNCHANGED <<send_list, current_game_info>>
      BY DEF Connected
    <2>3. /\ api' \in [Clients -> [pc : Places, request : Requested \cup {None}]]
          /\ \A d \in Clients :
                /\ api'[d].request = api[d].request
                /\ d # c => api'[d] = api[d]
      BY <2>1 DEF IInv, Senders, Places
    <2>4. \A d \in Clients :
            /\ api'[d].request \in Requests[d] \cup {None}
            /\ api'[d].pc \in {"connecting", "requesting"} => api'[d].request \in Requests[d]
      BY <2>1, <2>3 DEF IInv, Senders
    <2> QED
      BY <2>2, <2>3, <2>4 DEF IInv, Senders, Packets, Requested
  <1> QED
    BY <1>3, <1>4, <1>5 DEF IInv

\* The caller's place and request change, the lists do not.
LEMMA ApiKeepsSenders ==
    ASSUME Senders, NEW c \in Clients, NEW a,
           a \in [pc : Places, request : Requested \cup {None}],
           a.request \in Requests[c] \cup {None},
           a.pc \in {"connecting", "requesting"} => a.request \in Requests[c],
           api' = [api EXCEPT ![c] = a]
    PROVE  /\ api' \in [Clients -> [pc : Places, request : Requested \cup {None}]]
           /\ \A d \in Clients :
                 /\ api'[d].request \in Requests[d] \cup {None}
                 /\ api'[d].pc \in {"connecting", "requesting"} => api'[d].request \in Requests[d]
  <1>1. api' = [d \in Clients |-> IF d = c THEN a ELSE api[d]]
    BY DEF Senders
  <1> QED
    BY <1>1 DEF Senders

\* Join: to the connection, or to Leave first.
LEMMA JoinCallKeepsIInv ==
    ASSUME IInv, NEW c \in Clients, NEW request \in Requests[c], Join(c, request), UNCHANGED room
    PROVE  IInv'
  <1>1. /\ UNCHANGED <<slot, up, link, members, send_list, current_game_info>>
        /\ \E w \in {"connecting", "leaving"} :
              api' = [api EXCEPT ![c] = [pc |-> w, request |-> request]]
    BY DEF Join, StartLeaving, enet, room
  <1>2. request \in Requested
    BY DEF Requested
  <1>3. PICK w \in {"connecting", "leaving"} :
          api' = [api EXCEPT ![c] = [pc |-> w, request |-> request]]
    BY <1>1
  <1> DEFINE a == [pc |-> w, request |-> request]
  <1>4. /\ a \in [pc : Places, request : Requested \cup {None}]
        /\ a.request \in Requests[c]
        /\ api' = [api EXCEPT ![c] = a]
    BY <1>2, <1>3 DEF Places
  <1> HIDE DEF a
  <1>5. Senders'
    BY <1>1, <1>4, ApiKeepsSenders DEF IInv, Senders, Packets, Requested
  <1> QED
    BY <1>1, <1>5, SameChannels, SameMembers DEF IInv

\* The caller returns, or waits in Leave without a request.
LEMMA IdleCallKeepsSenders ==
    ASSUME Senders, NEW c \in Clients, NEW w \in {"idle", "leaving"},
           api' = [api EXCEPT ![c] = [pc |-> w, request |-> None]],
           UNCHANGED current_game_info,
           send_list' = [d \in Clients |-> send_list'[d]],
           \A d \in Clients : send_list'[d] \in Seq(Packets(d))
    PROVE  Senders'
  <1> DEFINE a == [pc |-> w, request |-> None]
  <1>1. /\ a \in [pc : Places, request : Requested \cup {None}]
        /\ a.request = None /\ a.pc \notin {"connecting", "requesting"}
        /\ api' = [api EXCEPT ![c] = a]
    BY DEF Places
  <1> HIDE DEF a
  <1> QED
    BY <1>1, ApiKeepsSenders DEF Senders, Packets, Requested

\* loop_thread->join() returns, and a waiting Join goes on.
LEMMA ThreadJoinedKeepsIInv ==
    ASSUME IInv, NEW c \in Clients, ThreadJoined(c), UNCHANGED room
    PROVE  IInv'
  <1>1. UNCHANGED <<slot, up, link, members, send_list, current_game_info>>
    BY DEF ThreadJoined, enet, room
  <1>2. CASE api[c].request = None
    <2>1. api' = [api EXCEPT ![c] = [pc |-> "idle", request |-> None]]
      BY <1>2 DEF ThreadJoined, Idle
    <2>2. Senders'
      BY <1>1, <2>1, IdleCallKeepsSenders DEF IInv, Senders
    <2> QED
      BY <1>1, <2>2, SameChannels, SameMembers DEF IInv
  <1>3. CASE api[c].request # None
    <2> DEFINE a == [api[c] EXCEPT !.pc = "connecting"]
    <2>1. api' = [api EXCEPT ![c] = a]
      BY <1>3 DEF ThreadJoined
    <2>2. /\ a \in [pc : Places, request : Requested \cup {None}]
          /\ a.request = api[c].request
      BY DEF IInv, Senders, Places
    <2>3. a.request \in Requests[c]
      BY <1>3, <2>2 DEF IInv, Senders
    <2> HIDE DEF a
    <2>4. Senders'
      BY <1>1, <2>1, <2>2, <2>3, ApiKeepsSenders DEF IInv, Senders, Packets, Requested
    <2> QED
      BY <1>1, <2>4, SameChannels, SameMembers DEF IInv
  <1> QED
    BY <1>2, <1>3

\* The calls that put packets into the send list.
LEMMA SendsKeepIInv ==
    ASSUME IInv, NEW c \in Clients, UNCHANGED room,
           \/ SendJoinRequest(c)
           \/ \E game \in Games : SendGameInfo(c, game)
           \/ \E packet \in Commands[c] : SendCommand(c, packet)
    PROVE  IInv'
  <1>0. UNCHANGED <<slot, up, link, members>>
    BY DEF SendJoinRequest, SendGameInfo, SendCommand, enet, room
  <1>1. CASE SendJoinRequest(c)
    <2> DEFINE game == GamePacket(c, current_game_info[c])
               more == <<api[c].request>> \o game
    <2>1. game \in Seq(Packets(c))
      BY GamePacketType DEF IInv, Senders
    <2>2. <<api[c].request>> \in Seq(Packets(c))
      <3>1. api[c].request \in Packets(c)
        BY <1>1 DEF SendJoinRequest, IInv, Senders, Packets
      <3> QED
        BY <3>1
    <2>3. more \in Seq(Packets(c))
      BY <2>1, <2>2, ConcatProperties
    <2>4. send_list' = [send_list EXCEPT ![c] = @ \o more]
      BY <1>1 DEF SendJoinRequest
    <2>5. /\ api' = [api EXCEPT ![c] = [pc |-> "idle", request |-> None]]
          /\ UNCHANGED current_game_info
      BY <1>1 DEF SendJoinRequest, Idle
    <2> HIDE DEF more
    <2>6. Senders'
      BY <2>3, <2>4, <2>5, AppendKeepsSenders, IdleCallKeepsSenders DEF IInv
    <2> QED
      BY <1>0, <2>6, SameChannels, SameMembers DEF IInv
  <1>2. ASSUME NEW game \in Games, SendGameInfo(c, game)
        PROVE  IInv'
    <2>1. /\ send_list' = [send_list EXCEPT ![c] = @ \o GamePacket(c, game)]
          /\ current_game_info' = [current_game_info EXCEPT ![c] = game]
          /\ api' = api
      BY <1>2 DEF SendGameInfo
    <2>2. GamePacket(c, game) \in Seq(Packets(c))
      BY GamePacketType
    <2>3. /\ send_list' = [d \in Clients |-> send_list'[d]]
          /\ \A d \in Clients : send_list'[d] \in Seq(Packets(d))
      BY <2>1, <2>2, AppendKeepsSenders DEF IInv
    <2>4. Senders'
      BY <2>1, <2>3 DEF IInv, Senders, Packets, Requested
    <2> QED
      BY <1>0, <2>4, SameChannels, SameMembers DEF IInv
  <1>3. ASSUME NEW packet \in Commands[c], SendCommand(c, packet)
        PROVE  IInv'
    <2>1. /\ send_list' = [send_list EXCEPT ![c] = Append(@, packet)]
          /\ UNCHANGED <<api, current_game_info>>
      BY <1>3 DEF SendCommand
    <2>2. packet \in Packets(c)
      BY DEF Packets
    <2>3. <<packet>> \in Seq(Packets(c))
      BY <2>2
    <2>4. Append(send_list[c], packet) = send_list[c] \o <<packet>>
      BY <2>2, <2>3 DEF IInv, Senders
    <2>5. send_list' = [send_list EXCEPT ![c] = @ \o <<packet>>]
      BY <2>1, <2>4
    <2>6. /\ send_list' = [d \in Clients |-> send_list'[d]]
          /\ \A d \in Clients : send_list'[d] \in Seq(Packets(d))
      BY <2>3, <2>5, AppendKeepsSenders DEF IInv
    <2>7. Senders'
      BY <2>1, <2>6 DEF IInv, Senders, Packets, Requested
    <2> QED
      BY <1>0, <2>7, SameChannels, SameMembers DEF IInv
  <1> QED
    BY <1>1, <1>2, <1>3

\* Every step of a client, and every fault.
LEMMA MemberKeepsIInv ==
    ASSUME IInv, NEW c \in Clients, MemberEvent(c)
    PROVE  IInv'
  <1>0. UNCHANGED room /\ members' = members
    BY DEF MemberEvent, room
  <1>1. CASE NoEvent(c) \/ Receive(c) \/ Disconnection(c)
    BY <1>0, <1>1, FlushKeepsIInv DEF NoEvent, Receive, Disconnection
  <1>2. CASE LoopExit(c) \/ NetworkFault(c)
    <2>1. /\ UNCHANGED <<slot, up, send_list, api, current_game_info>>
          /\ link' = [link EXCEPT ![c] = None] \/ link' = [link EXCEPT ![c] = Lost]
      BY <1>2 DEF LoopExit, NetworkFault, Drop, Break, client
    <2>2. Channels'
      BY <2>1, PeersAssumption DEF IInv, Channels, Packets
    <2>3. Senders'
      BY <2>1 DEF IInv, Senders, Packets, Requested
    <2> QED
      BY <1>0, <2>1, <2>2, <2>3, SameMembers DEF IInv
  <1>3. CASE Leave(c) \/ CouldNotConnect(c)
    <2>1. /\ UNCHANGED <<slot, up, link, send_list, current_game_info>>
          /\ \E w \in {"idle", "leaving"} : api' = [api EXCEPT ![c] = [pc |-> w, request |-> None]]
      BY <1>3 DEF Leave, CouldNotConnect, StartLeaving, Idle, enet
    <2>2. Senders'
      BY <2>1, IdleCallKeepsSenders DEF IInv, Senders
    <2> QED
      BY <1>0, <2>1, <2>2, SameChannels, SameMembers DEF IInv
  <1> QED
    BY <1>0, <1>1, <1>2, <1>3, ConnectKeepsIInv, JoinCallKeepsIInv, ThreadJoinedKeepsIInv,
       SendsKeepIInv DEF MemberEvent, MemberStep, LoopThread, ApiThread

-----------------------------------------------------------------------------
\* The invariant holds in the beginning and is kept by every step.
LEMMA InitIInv == Init => IInv
  <1> SUFFICES ASSUME Init PROVE IInv
    OBVIOUS
  <1>1. Channels
    BY PeersAssumption DEF Init, EnetInit, Channels
  <1>2. Senders
    BY DEF Init, MemberInit, Senders, Idle, Places
  <1>3. Listed
    BY FS_EmptySet, RoomAssumption DEF Init, RoomInit, Listed, MembersUnique, MembersConnected
  <1> QED
    BY <1>1, <1>2, <1>3 DEF IInv

\* A step of the room, of a client or of the network keeps the invariant.
LEMMA StepIInv == IInv /\ [Next]_vars => IInv'
  <1> SUFFICES ASSUME IInv, [Next]_vars PROVE IInv'
    OBVIOUS
  <1>1. ASSUME NEW p \in Peers, ServerEvent(p) PROVE IInv'
    BY <1>1, ServerKeepsIInv
  <1>2. CASE CloseRoom
    BY <1>2, DestroyKeepsIInv DEF CloseRoom
  <1>3. ASSUME NEW c \in Clients, MemberEvent(c) PROVE IInv'
    BY <1>3, MemberKeepsIInv
  <1>4. CASE UNCHANGED vars
    BY <1>4, SameChannels, SameSenders, SameMembers DEF IInv, vars, enet, room
  <1> QED
    BY <1>1, <1>2, <1>3, <1>4 DEF Next

\* HandleJoinRequest, the moderation handlers and HandleClientDisconnection
\* keep the member list within its slots and free of duplicates (nickname,
\* address, console, connection), for every room and every behaviour of
\* clients and network.
THEOREM RoomMembersUnique == Spec => []MembersUnique
  <1>1. IInv => MembersUnique
    BY DEF IInv, Listed
  <1> QED
    BY <1>1, InitIInv, StepIInv, PTL DEF Spec

\* No member is ever left on a peer that is free or used by another console.
THEOREM RoomMembersConnected == Spec => []MembersConnected
  <1>1. IInv => MembersConnected
    BY DEF IInv, Listed
  <1> QED
    BY <1>1, InitIInv, StepIInv, PTL DEF Spec
-----------------------------------------------------------------------------
(***************************************************************************)
(* The clients' pictures of the room.  What a client shows is right only   *)
(* when everything on its way to it has arrived, so the invariant follows  *)
(* the server's packets through the channel down.                          *)
(***************************************************************************)
\* The server's packets that only have a type.
Notices ==
    Endings \cup {"StatusMessage", "ChatMessage", "WifiPacket", "ModPermissionDenied",
                  "ModNoSuchUser", "ModBanListResponse"}

Lists == SUBSET Information(MemberRecords)

Answers ==
    [type : Notices] \cup [type : {"RoomInformation"}, list : Lists]
    \cup [type : Successes, mac : AllMacs]

Informs(packet) == packet.type = "RoomInformation"
Admits(packet) == packet.type \in Successes
Shows(list, mac) == \E i \in list : i.mac = mac

InRoom(c) == state[c] \in {"Joined", "Moderator"}

MemberTypes ==
    /\ open \in BOOLEAN
    /\ state \in [Clients -> States]
    /\ thread \in [Clients -> {"none", "running", "tested", "ended"}]
    /\ member_information \in [Clients -> Lists]
    /\ mac_address = [c \in Clients |-> mac_address[c]]
    /\ down = [c \in Clients |-> down[c]]
    /\ \A c \in Clients : down[c] \in Seq(Answers)

\* A Join that connects has no loop thread yet.
ConnectingOK ==
    \A c \in Clients : api[c].pc = "connecting" => state[c] = "Joining" /\ thread[c] = "none"

\* The room information that lists the client is right before its JoinSuccess.
Announces(s) ==
    \A i \in 1 .. Len(s) : Admits(s[i]) /\ i > 1 =>
        Informs(s[i - 1]) /\ Shows(s[i - 1].list, s[i].mac)

SuccessesOK ==
    \A c \in Clients :
        /\ Announces(down[c])
        /\ down[c] # <<>> /\ Admits(down[c][1]) =>
             Shows(member_information[c], down[c][1].mac)

\* The last room information in s is of the list.
Ends(s, list) ==
    \E i \in 1 .. Len(s) :
        /\ Informs(s[i]) /\ s[i].list = list
        /\ \A j \in i + 1 .. Len(s) : ~Informs(s[j])

Silent(s) == \A i \in 1 .. Len(s) : ~Informs(s[i])

\* Neither in the room nor about to be.
Outside(c) == ~InRoom(c) /\ \A i \in 1 .. Len(down[c]) : ~Admits(down[c][i])

\* What a client shows, or will show, is the room's list.
PicturesOK ==
    \A c \in Clients : link[c] \in Peers /\ ~Outside(c) =>
        \/ Ends(down[c], Information(members))
        \/ Silent(down[c]) /\ member_information[c] = Information(members)

IsMember(p, mac) == \E m \in members : m.peer = p /\ m.mac = mac

\* Who is in the room, or about to be, is on the room's list.
AdmittedOK ==
    \A c \in Clients : link[c] \in Peers =>
        /\ InRoom(c) => IsMember(link[c], mac_address[c])
        /\ \A i \in 1 .. Len(down[c]) : Admits(down[c][i]) => IsMember(link[c], down[c][i].mac)

Pictures == MemberTypes /\ ConnectingOK /\ SuccessesOK /\ PicturesOK /\ AdmittedOK

\* Room information that precedes a JoinSuccess still does after more packets.
LEMMA AppendAnnounces ==
    ASSUME NEW S, NEW s \in Seq(S), NEW t \in Seq(S), Announces(s), Announces(t),
           t # <<>> => ~Admits(t[1])
    PROVE  Announces(s \o t)
  <1> SUFFICES ASSUME NEW i \in 1 .. Len(s \o t), Admits((s \o t)[i]), i > 1
               PROVE  Informs((s \o t)[i - 1]) /\ Shows((s \o t)[i - 1].list, (s \o t)[i].mac)
    BY DEF Announces
  <1>1. /\ Len(s \o t) = Len(s) + Len(t) /\ Len(s) \in Nat /\ Len(t) \in Nat
        /\ \A j \in 1 .. Len(s) + Len(t) : (s \o t)[j] = IF j <= Len(s) THEN s[j] ELSE t[j - Len(s)]
    BY ConcatProperties, LenProperties
  <1>2. CASE i <= Len(s)
    BY <1>1, <1>2 DEF Announces
  <1>3. CASE i = Len(s) + 1
    <2>1. t # <<>> /\ (s \o t)[i] = t[1]
      BY <1>1, <1>3
    <2> QED
      BY <2>1
  <1>4. CASE i > Len(s) + 1
    <2>1. /\ i - Len(s) \in 1 .. Len(t) /\ i - Len(s) > 1
          /\ (s \o t)[i] = t[i - Len(s)] /\ (s \o t)[i - 1] = t[i - Len(s) - 1]
      BY <1>1, <1>4
    <2> QED
      BY <2>1 DEF Announces
  <1> QED
    BY <1>1, <1>2, <1>3, <1>4

\* The last room information of two sequences is the one of the second, if
\* it has any.
LEMMA AppendEnds ==
    ASSUME NEW S, NEW s \in Seq(S), NEW t \in Seq(S), NEW list
    PROVE  /\ Ends(t, list) => Ends(s \o t, list)
           /\ Silent(t) /\ Ends(s, list) => Ends(s \o t, list)
           /\ Silent(t) /\ Silent(s) => Silent(s \o t)
  <1>1. /\ Len(s \o t) = Len(s) + Len(t) /\ Len(s) \in Nat /\ Len(t) \in Nat
        /\ \A j \in 1 .. Len(s) + Len(t) : (s \o t)[j] = IF j <= Len(s) THEN s[j] ELSE t[j - Len(s)]
    BY ConcatProperties, LenProperties
  <1>2. ASSUME Ends(t, list) PROVE Ends(s \o t, list)
    <2>1. PICK i \in 1 .. Len(t) : /\ Informs(t[i]) /\ t[i].list = list
                                   /\ \A j \in i + 1 .. Len(t) : ~Informs(t[j])
      BY <1>2 DEF Ends
    <2>2. (s \o t)[Len(s) + i] = t[i] /\ Len(s) + i \in 1 .. Len(s \o t)
      BY <1>1
    <2>3. \A j \in (Len(s) + i) + 1 .. Len(s \o t) : ~Informs((s \o t)[j])
      <3> SUFFICES ASSUME NEW j \in (Len(s) + i) + 1 .. Len(s \o t) PROVE ~Informs((s \o t)[j])
        OBVIOUS
      <3>1. (s \o t)[j] = t[j - Len(s)] /\ j - Len(s) \in i + 1 .. Len(t)
        BY <1>1
      <3> QED
        BY <2>1, <3>1
    <2> QED
      BY <2>1, <2>2, <2>3 DEF Ends
  <1>3. ASSUME Silent(t), NEW j \in 1 .. Len(s \o t), j > Len(s) PROVE ~Informs((s \o t)[j])
    <2>1. (s \o t)[j] = t[j - Len(s)] /\ j - Len(s) \in 1 .. Len(t)
      BY <1>1, <1>3
    <2> QED
      BY <1>3, <2>1 DEF Silent
  <1>4. ASSUME Silent(t), Ends(s, list) PROVE Ends(s \o t, list)
    <2>1. PICK i \in 1 .. Len(s) : /\ Informs(s[i]) /\ s[i].list = list
                                   /\ \A j \in i + 1 .. Len(s) : ~Informs(s[j])
      BY <1>4 DEF Ends
    <2>2. (s \o t)[i] = s[i] /\ i \in 1 .. Len(s \o t)
      BY <1>1
    <2>3. \A j \in i + 1 .. Len(s \o t) : ~Informs((s \o t)[j])
      <3> SUFFICES ASSUME NEW j \in i + 1 .. Len(s \o t) PROVE ~Informs((s \o t)[j])
        OBVIOUS
      <3>1. CASE j > Len(s)
        BY <1>1, <1>3, <1>4, <3>1
      <3>2. CASE j <= Len(s)
        BY <1>1, <2>1, <3>2
      <3> QED
        BY <1>1, <3>1, <3>2
    <2> QED
      BY <2>1, <2>2, <2>3 DEF Ends
  <1>5. ASSUME Silent(t), Silent(s) PROVE Silent(s \o t)
    <2> SUFFICES ASSUME NEW j \in 1 .. Len(s \o t) PROVE ~Informs((s \o t)[j])
      BY DEF Silent
    <2>1. CASE j > Len(s)
      BY <1>3, <1>5, <2>1
    <2>2. CASE j <= Len(s)
      <3>1. j \in 1 .. Len(s) /\ (s \o t)[j] = s[j]
        BY <1>1, <2>2
      <3> QED
        BY <1>5, <3>1 DEF Silent
    <2> QED
      BY <1>1, <2>1, <2>2
  <1> QED
    BY <1>2, <1>4, <1>5

\* What receiving a packet leaves.
LEMMA TailOfAnswers ==
    ASSUME NEW S, NEW s \in Seq(S), s # <<>>, NEW list
    PROVE  /\ Tail(s) \in Seq(S) /\ Head(s) \in S /\ Head(s) = s[1]
           /\ \A i \in 1 .. Len(Tail(s)) : i + 1 \in 1 .. Len(s) /\ Tail(s)[i] = s[i + 1]
           /\ Announces(s) =>
                /\ Announces(Tail(s))
                /\ Tail(s) # <<>> /\ Admits(Tail(s)[1]) =>
                     Informs(Head(s)) /\ Shows(Head(s).list, Tail(s)[1].mac)
           /\ Ends(s, list) =>
                \/ Ends(Tail(s), list)
                \/ Silent(Tail(s)) /\ Informs(Head(s)) /\ Head(s).list = list
           /\ Silent(s) => Silent(Tail(s)) /\ ~Informs(Head(s))
  <1>1. /\ Len(s) \in Nat /\ Len(s) >= 1 /\ Head(s) = s[1] /\ Head(s) \in S
        /\ Tail(s) \in Seq(S) /\ Len(Tail(s)) = Len(s) - 1
        /\ \A i \in 1 .. Len(s) - 1 : Tail(s)[i] = s[i + 1]
    BY HeadTailProperties, EmptySeq, LenProperties
  <1>2. \A i \in 1 .. Len(Tail(s)) : i + 1 \in 1 .. Len(s) /\ Tail(s)[i] = s[i + 1]
    BY <1>1
  <1>3. ASSUME Announces(s)
        PROVE  /\ Announces(Tail(s))
               /\ Tail(s) # <<>> /\ Admits(Tail(s)[1]) =>
                     Informs(Head(s)) /\ Shows(Head(s).list, Tail(s)[1].mac)
    <2>1. Announces(Tail(s))
      <3> SUFFICES ASSUME NEW i \in 1 .. Len(Tail(s)), Admits(Tail(s)[i]), i > 1
                   PROVE  Informs(Tail(s)[i - 1]) /\ Shows(Tail(s)[i - 1].list, Tail(s)[i].mac)
        BY DEF Announces
      <3>1. /\ i + 1 \in 1 .. Len(s) /\ i + 1 > 1 /\ (i + 1) - 1 = i
            /\ Tail(s)[i] = s[i + 1] /\ Tail(s)[i - 1] = s[i]
        BY <1>1
      <3> QED
        BY <1>3, <3>1 DEF Announces
    <2>2. ASSUME Tail(s) # <<>>, Admits(Tail(s)[1])
          PROVE  Informs(Head(s)) /\ Shows(Head(s).list, Tail(s)[1].mac)
      <3>1. 2 \in 1 .. Len(s) /\ 2 > 1 /\ 2 - 1 = 1 /\ Tail(s)[1] = s[2]
        BY <1>1, <2>2, EmptySeq
      <3> QED
        BY <1>1, <1>3, <2>2, <3>1 DEF Announces
    <2> QED
      BY <2>1, <2>2
  <1>4. ASSUME Ends(s, list)
        PROVE  \/ Ends(Tail(s), list)
               \/ Silent(Tail(s)) /\ Informs(Head(s)) /\ Head(s).list = list
    <2>1. PICK i \in 1 .. Len(s) : /\ Informs(s[i]) /\ s[i].list = list
                                   /\ \A j \in i + 1 .. Len(s) : ~Informs(s[j])
      BY <1>4 DEF Ends
    <2>2. \A j \in i .. Len(Tail(s)) : ~Informs(Tail(s)[j])
      <3> SUFFICES ASSUME NEW j \in i .. Len(Tail(s)) PROVE ~Informs(Tail(s)[j])
        OBVIOUS
      <3>1. Tail(s)[j] = s[j + 1] /\ j + 1 \in i + 1 .. Len(s)
        BY <1>1
      <3> QED
        BY <2>1, <3>1
    <2>3. CASE i = 1
      BY <1>1, <2>1, <2>2, <2>3 DEF Silent
    <2>4. CASE i > 1
      <3>1. i - 1 \in 1 .. Len(Tail(s)) /\ Tail(s)[i - 1] = s[i] /\ (i - 1) + 1 = i
        BY <1>1, <2>4
      <3> QED
        BY <2>1, <2>2, <3>1 DEF Ends
    <2> QED
      BY <1>1, <2>3, <2>4
  <1>5. ASSUME Silent(s) PROVE Silent(Tail(s)) /\ ~Informs(Head(s))
    <2>1. \A i \in 1 .. Len(Tail(s)) : ~Informs(Tail(s)[i])
      BY <1>2, <1>5 DEF Silent
    <2>2. 1 \in 1 .. Len(s)
      BY <1>1
    <2> QED
      BY <1>1, <1>5, <2>1, <2>2 DEF Silent
  <1> QED
    BY <1>1, <1>2, <1>3, <1>4, <1>5

\* What the types of packets are.
LEMMA AnswerFields ==
    /\ \A t \in Notices : /\ [type |-> t] \in Answers
                          /\ ~Informs([type |-> t]) /\ ~Admits([type |-> t])
    /\ \A list \in Lists : /\ [type |-> "RoomInformation", list |-> list] \in Answers
                           /\ Informs([type |-> "RoomInformation", list |-> list])
                           /\ ~Admits([type |-> "RoomInformation", list |-> list])
    /\ \A t \in Successes, mac \in AllMacs :
          /\ [type |-> t, mac |-> mac] \in Answers
          /\ Admits([type |-> t, mac |-> mac]) /\ ~Informs([type |-> t, mac |-> mac])
    /\ \A k \in Answers : Informs(k) => k.list \in Lists
  <1>1. \A t \in Notices : t \notin Successes /\ t # "RoomInformation"
    BY DEF Notices, Endings, Successes
  <1>2. "RoomInformation" \notin Successes
    BY DEF Successes
  <1> QED
    BY <1>1, <1>2 DEF Answers, Informs, Admits

\* What a handler may send to one peer, so that p's client stays right: every
\* JoinSuccess after room information that shows its address.
Proper(s) ==
    s \in Seq(Answers) /\ Announces(s) /\ (s # <<>> => ~Admits(s[1]))

\* Nothing, or a notice, is proper.
LEMMA NoticeProper ==
    ASSUME NEW t \in Notices, NEW s \in {<<>>, <<[type |-> t]>>}
    PROVE  Proper(s) /\ Silent(s) /\ \A i \in 1 .. Len(s) : ~Admits(s[i])
  <1>1. CASE s = <<>>
    BY <1>1 DEF Proper, Silent, Announces
  <1>2. CASE s = <<[type |-> t]>>
    <2> DEFINE k == [type |-> t]
    <2>1. k \in Answers /\ ~Informs(k) /\ ~Admits(k)
      BY AnswerFields
    <2> HIDE DEF k
    <2>2. s = <<k>> /\ Len(s) = 1 /\ s[1] = k /\ s \in Seq(Answers)
      BY <1>2, <2>1 DEF k
    <2> QED
      BY <2>1, <2>2 DEF Proper, Silent, Announces
  <1> QED
    BY <1>1, <1>2

\* A sequence put together from three.
LEMMA ThreeParts ==
    ASSUME NEW S, NEW r \in Seq(S), NEW s \in Seq(S), NEW t \in Seq(S)
    PROVE  /\ r \o s \o t \in Seq(S) /\ Len(r \o s \o t) = Len(r) + Len(s) + Len(t)
           /\ \A i \in 1 .. Len(r) + Len(s) + Len(t) : (r \o s \o t)[i] =
                IF i <= Len(r) THEN r[i]
                ELSE IF i <= Len(r) + Len(s) THEN s[i - Len(r)] ELSE t[i - Len(r) - Len(s)]
  <1>1. /\ r \o s \in Seq(S) /\ Len(r \o s) = Len(r) + Len(s)
        /\ Len(r) \in Nat /\ Len(s) \in Nat /\ Len(t) \in Nat
        /\ \A i \in 1 .. Len(r) + Len(s) : (r \o s)[i] = IF i <= Len(r) THEN r[i] ELSE s[i - Len(r)]
    BY ConcatProperties, LenProperties
  <1>2. /\ (r \o s) \o t \in Seq(S) /\ Len((r \o s) \o t) = Len(r \o s) + Len(t)
        /\ \A i \in 1 .. Len(r \o s) + Len(t) :
              ((r \o s) \o t)[i] = IF i <= Len(r \o s) THEN (r \o s)[i] ELSE t[i - Len(r \o s)]
    BY <1>1, ConcatProperties
  <1> QED
    BY <1>1, <1>2

\* Room information with a status message before and an answer behind.
Broadcast(first, list, last) ==
    first \o <<[type |-> "RoomInformation", list |-> list]>> \o last

\* The answer is a JoinSuccess k whose address the list shows, or there is none.
Answering(answer, k, list) ==
    \/ answer = <<>>
    \/ answer = <<k>> /\ k \in [type : Successes, mac : AllMacs] /\ Shows(list, k.mac)

\* It is proper if the answer is, and ends with its list.
LEMMA BroadcastProper ==
    ASSUME NEW list \in Lists, NEW first \in {<<>>, <<[type |-> "StatusMessage"]>>},
           NEW k, NEW last, Answering(last, k, list)
    PROVE  /\ Proper(Broadcast(first, list, last)) /\ Ends(Broadcast(first, list, last), list)
           /\ \A i \in 1 .. Len(Broadcast(first, list, last)) :
                Admits(Broadcast(first, list, last)[i]) =>
                  last # <<>> /\ Broadcast(first, list, last)[i].mac = k.mac
  <1> DEFINE a == [type |-> "StatusMessage"]
             b == [type |-> "RoomInformation", list |-> list]
  <1>1. a \in Answers /\ ~Informs(a) /\ ~Admits(a)
    BY AnswerFields DEF Notices
  <1>2. b \in Answers /\ Informs(b) /\ ~Admits(b) /\ b.list = list
    BY AnswerFields
  <1>3. \/ last = <<>>
        \/ last = <<k>> /\ k \in Answers /\ ~Informs(k) /\ Admits(k) /\ Shows(b.list, k.mac)
    <2>1. ASSUME k \in [type : Successes, mac : AllMacs]
          PROVE  k \in Answers /\ ~Informs(k) /\ Admits(k)
      <3>1. PICK t \in Successes, mac \in AllMacs : k = [type |-> t, mac |-> mac]
        BY <2>1
      <3> QED
        BY <3>1, AnswerFields
    <2> QED
      BY <1>2, <2>1 DEF Answering
  <1>4. first \in {<<>>, <<a>>}
    OBVIOUS
  <1> DEFINE s == first \o <<b>> \o last
  <1> SUFFICES /\ Proper(s) /\ Ends(s, list)
               /\ \A i \in 1 .. Len(s) : Admits(s[i]) => last # <<>> /\ s[i].mac = k.mac
    BY DEF Broadcast
  <1> HIDE DEF a, b
  <1>5. CASE first = <<>> /\ last = <<>>
    <2>1. Len(s) = 1 /\ s[1] = b /\ s \in Seq(Answers)
      <3>1. /\ <<b>> \in Seq(Answers) /\ Len(<<b>>) = 1 /\ <<b>>[1] = b
            /\ <<>> \in Seq(Answers) /\ Len(<<>>) = 0
        BY <1>2
      <3> QED
        BY <1>5, <3>1, ThreeParts
    <2> HIDE DEF s
    <2> QED
      BY <1>2, <2>1 DEF Proper, Announces, Ends
  <1>6. CASE first = <<a>> /\ last = <<>>
    <2>1. Len(s) = 2 /\ s[1] = a /\ s[2] = b /\ s \in Seq(Answers)
      <3>1. \A x \in Answers : <<x>> \in Seq(Answers) /\ Len(<<x>>) = 1 /\ <<x>>[1] = x
        OBVIOUS
      <3>2. <<>> \in Seq(Answers) /\ Len(<<>>) = 0
        OBVIOUS
      <3> QED
        BY <1>1, <1>2, <1>6, <3>1, <3>2, ThreeParts
    <2> HIDE DEF s
    <2>2. Announces(s)
      BY <1>1, <1>2, <2>1 DEF Announces
    <2>3. Ends(s, list)
      BY <1>2, <2>1 DEF Ends
    <2>4. \A i \in 1 .. Len(s) : ~Admits(s[i])
      BY <1>1, <1>2, <2>1
    <2>5. Proper(s)
      BY <1>1, <2>1, <2>2 DEF Proper
    <2> QED
      BY <2>3, <2>4, <2>5
  <1>7. CASE first = <<>> /\ last # <<>>
    <2>0. last = <<k>> /\ k \in Answers /\ ~Informs(k) /\ Admits(k) /\ Shows(b.list, k.mac)
      BY <1>3, <1>7
    <2>1. Len(s) = 2 /\ s[1] = b /\ s[2] = k /\ s \in Seq(Answers)
      <3>1. \A x \in Answers : <<x>> \in Seq(Answers) /\ Len(<<x>>) = 1 /\ <<x>>[1] = x
        OBVIOUS
      <3>2. <<>> \in Seq(Answers) /\ Len(<<>>) = 0
        OBVIOUS
      <3> QED
        BY <1>2, <2>0, <1>7, <3>1, <3>2, ThreeParts
    <2> HIDE DEF s
    <2>2. Announces(s)
      BY <1>2, <1>7, <2>0, <2>1 DEF Announces
    <2>3. Ends(s, list)
      BY <1>2, <1>7, <2>0, <2>1 DEF Ends
    <2>4. \A i \in 1 .. Len(s) : Admits(s[i]) => s[i] = k
      BY <1>2, <2>1
    <2>5. Proper(s)
      BY <1>2, <2>1, <2>2 DEF Proper
    <2>6. last # <<>>
      BY <1>7
    <2> QED
      BY <2>3, <2>4, <2>5, <2>6
  <1>8. CASE first = <<a>> /\ last # <<>>
    <2>0. last = <<k>> /\ k \in Answers /\ ~Informs(k) /\ Admits(k) /\ Shows(b.list, k.mac)
      BY <1>3, <1>8
    <2>1. Len(s) = 3 /\ s[1] = a /\ s[2] = b /\ s[3] = k /\ s \in Seq(Answers)
      <3>1. \A x \in Answers : <<x>> \in Seq(Answers) /\ Len(<<x>>) = 1 /\ <<x>>[1] = x
        OBVIOUS
      <3>2. <<>> \in Seq(Answers) /\ Len(<<>>) = 0
        OBVIOUS
      <3> QED
        BY <1>1, <1>2, <1>8, <2>0, <3>1, <3>2, ThreeParts
    <2> HIDE DEF s
    <2>2. Announces(s)
      BY <1>1, <1>2, <1>8, <2>0, <2>1 DEF Announces
    <2>3. Ends(s, list)
      BY <1>2, <1>8, <2>0, <2>1 DEF Ends
    <2>4. \A i \in 1 .. Len(s) : Admits(s[i]) => s[i] = k
      BY <1>1, <1>2, <2>1
    <2>5. Proper(s)
      BY <1>1, <2>1, <2>2 DEF Proper
    <2>6. last # <<>>
      BY <1>8
    <2> QED
      BY <2>3, <2>4, <2>5, <2>6
  <1> QED
    BY <1>3, <1>4, <1>5, <1>6, <1>7, <1>8


\* In what is sent to q, only the answer k for p admits anybody.
OnlyTo(s, q, p, answer, k) ==
    \A i \in 1 .. Len(s) : Admits(s[i]) => q = p /\ answer # <<>> /\ s[i].mac = k.mac

\* What Announced sends to peer q.
LEMMA AnnouncedProper ==
    ASSUME NEW ms, NEW list \in SUBSET MemberRecords, NEW p, NEW q \in Peers, NEW k, NEW answer,
           Answering(answer, k, Information(list))
    PROVE  /\ Proper(Announced(ms, list, p, answer)[q])
           /\ Ends(Announced(ms, list, p, answer)[q], Information(list))
           /\ OnlyTo(Announced(ms, list, p, answer)[q], q, p, answer, k)
  <1> DEFINE first == IF q \in PeersOf(ms) THEN <<[type |-> "StatusMessage"]>> ELSE <<>>
             last == IF q = p THEN answer ELSE <<>>
             info == Information(list)
             s == Broadcast(first, info, last)
             A == Announced(ms, list, p, answer)[q]
  <1> SUFFICES /\ Proper(A) /\ Ends(A, info)
               /\ \A i \in 1 .. Len(A) : Admits(A[i]) => q = p /\ answer # <<>> /\ A[i].mac = k.mac
    BY DEF OnlyTo
  <1>1. A = s
    BY DEF Announced, Broadcast
  <1>2. info \in Lists
    BY DEF Lists, Information
  <1>3. first \in {<<>>, <<[type |-> "StatusMessage"]>>}
    OBVIOUS
  <1>4. Answering(last, k, info)
    BY DEF Answering
  <1>5. last # <<>> => q = p /\ answer # <<>>
    OBVIOUS
  <1> HIDE DEF first, last, info, A
  <1>6. /\ Proper(s) /\ Ends(s, info)
        /\ \A i \in 1 .. Len(s) : Admits(s[i]) => last # <<>> /\ s[i].mac = k.mac
    BY <1>2, <1>3, <1>4, BroadcastProper
  <1> HIDE DEF s
  <1> QED
    BY <1>1, <1>5, <1>6

\* What a handler may send to the clients that it leaves connected: room
\* information whenever the list changes, JoinSuccess to a member only, and
\* nobody who is left connected is off the list.
SendsRight(out) ==
    \A c \in Clients, q \in Peers : link'[c] = q =>
        /\ link[c] = q
        /\ \/ Ends(out[q], Information(members'))
           \/ /\ members' = members /\ Silent(out[q])
              /\ \A i \in 1 .. Len(out[q]) : ~Admits(out[q][i])
        /\ \A i \in 1 .. Len(out[q]) : Admits(out[q][i]) =>
             \E m \in members' : m.peer = q /\ m.mac = out[q][i].mac
        /\ \A m \in members : m.peer = q => \E n \in members' : n.peer = q /\ n.mac = m.mac

\* Each packet of s \o t is one of s or one of t.
LEMMA AppendEach ==
    ASSUME NEW s \in Seq(Answers), NEW t \in Seq(Answers)
    PROVE  /\ \A i \in 1 .. Len(s \o t) :
                \/ \E j \in 1 .. Len(s) : (s \o t)[i] = s[j]
                \/ \E j \in 1 .. Len(t) : (s \o t)[i] = t[j]
           /\ s # <<>> => (s \o t)[1] = s[1]
  <1>1. /\ Len(s \o t) = Len(s) + Len(t) /\ Len(s) \in Nat /\ Len(t) \in Nat
        /\ \A j \in 1 .. Len(s) + Len(t) : (s \o t)[j] = IF j <= Len(s) THEN s[j] ELSE t[j - Len(s)]
    BY ConcatProperties, LenProperties
  <1>2. ASSUME NEW i \in 1 .. Len(s \o t)
        PROVE  \/ \E j \in 1 .. Len(s) : (s \o t)[i] = s[j]
               \/ \E j \in 1 .. Len(t) : (s \o t)[i] = t[j]
    <2>1. CASE i <= Len(s)
      BY <1>1, <2>1
    <2>2. CASE i > Len(s)
      <3>1. i - Len(s) \in 1 .. Len(t) /\ (s \o t)[i] = t[i - Len(s)]
        BY <1>1, <2>2
      <3> QED
        BY <3>1
    <2> QED
      BY <1>1, <2>1, <2>2
  <1>3. ASSUME s # <<>> PROVE (s \o t)[1] = s[1]
    <2>1. Len(s) >= 1
      BY <1>1, <1>3, EmptySeq
    <2> QED
      BY <1>1, <2>1
  <1> QED
    BY <1>2, <1>3

\* A handler that does so keeps the clients' pictures right.
LEMMA ServerSends ==
    ASSUME Pictures, UNCHANGED client, open' \in BOOLEAN,
           NEW out, down' = Sent(out), \A q \in Peers : Proper(out[q]), SendsRight(out)
    PROVE  Pictures'
  <1>1. down' = [c \in Clients |->
                   IF link[c] \in Peers THEN down[c] \o out[link[c]] ELSE down[c]]
    BY DEF Sent
  <1>2. down' = [c \in Clients |-> down'[c]]
    BY <1>1
  <1>3. ASSUME NEW c \in Clients
        PROVE  \/ down'[c] = down[c]
               \/ \E q \in Peers : link[c] = q /\ down'[c] = down[c] \o out[q]
    BY <1>1
  <1>4. ASSUME NEW c \in Clients, NEW q \in Peers, link[c] = q
        PROVE  down'[c] = down[c] \o out[q]
    BY <1>1, <1>4
  <1>5. \A c \in Clients : down[c] \in Seq(Answers)
    BY DEF Pictures, MemberTypes
  <1>6. \A q \in Peers : out[q] \in Seq(Answers)
    BY DEF Proper
  <1>7. UNCHANGED <<state, thread, member_information, mac_address, api>>
    BY DEF client
  <1>8. MemberTypes'
    <2>1. \A c \in Clients : down'[c] \in Seq(Answers)
      BY <1>3, <1>5, <1>6, ConcatProperties
    <2> QED
      BY <1>2, <1>7, <2>1 DEF Pictures, MemberTypes, Answers, Lists
  <1>9. ConnectingOK'
    BY <1>7 DEF Pictures, ConnectingOK
  <1>10. SuccessesOK'
    <2> SUFFICES ASSUME NEW c \in Clients
                 PROVE  /\ Announces(down'[c])
                        /\ down'[c] # <<>> /\ Admits(down'[c][1]) =>
                             Shows(member_information[c], down'[c][1].mac)
      BY <1>7 DEF SuccessesOK, Announces, Admits, Informs, Shows
    <2>1. /\ Announces(down[c])
          /\ down[c] # <<>> /\ Admits(down[c][1]) => Shows(member_information[c], down[c][1].mac)
      BY DEF Pictures, SuccessesOK
    <2>2. CASE down'[c] = down[c]
      BY <2>1, <2>2
    <2>3. ASSUME NEW q \in Peers, down'[c] = down[c] \o out[q]
          PROVE  /\ Announces(down'[c])
                 /\ down'[c] # <<>> /\ Admits(down'[c][1]) =>
                      Shows(member_information[c], down'[c][1].mac)
      <3>1. Announces(down'[c])
        BY <1>5, <1>6, <2>1, <2>3, AppendAnnounces DEF Proper
      <3>2. CASE down[c] = <<>>
        <4>1. down'[c] = out[q]
          BY <1>6, <2>3, <3>2, ConcatEmptySeq
        <4> QED
          BY <3>1, <4>1 DEF Proper
      <3>3. CASE down[c] # <<>>
        <4>1. down'[c][1] = down[c][1]
          BY <1>5, <1>6, <2>3, <3>3, AppendEach
        <4> QED
          BY <2>1, <3>1, <3>3, <4>1
      <3> QED
        BY <3>2, <3>3
    <2> QED
      BY <1>3, <2>2, <2>3
  <1>11. PicturesOK'
    <2> SUFFICES ASSUME NEW c \in Clients, NEW q \in Peers, link'[c] = q, ~Outside(c)'
                 PROVE  \/ Ends(down'[c], Information(members'))
                        \/ Silent(down'[c]) /\ member_information[c] = Information(members')
      BY <1>7 DEF PicturesOK, Ends, Silent, Informs, Information
    <2>1. link[c] = q /\ down'[c] = down[c] \o out[q]
      BY <1>4 DEF SendsRight
    <2>2. CASE Ends(out[q], Information(members'))
      BY <1>5, <1>6, <2>1, <2>2, AppendEnds
    <2>3. CASE /\ members' = members /\ Silent(out[q])
               /\ \A i \in 1 .. Len(out[q]) : ~Admits(out[q][i])
      <3>1. ~Outside(c)
        <4> SUFFICES ASSUME Outside(c) PROVE FALSE
          OBVIOUS
        <4>1. ~InRoom(c)'
          BY <1>7 DEF Outside, InRoom
        <4>2. \A i \in 1 .. Len(down'[c]) :
                \/ \E j \in 1 .. Len(down[c]) : down'[c][i] = down[c][j]
                \/ \E j \in 1 .. Len(out[q]) : down'[c][i] = out[q][j]
          <5>1. down[c] \in Seq(Answers) /\ out[q] \in Seq(Answers)
            BY <1>5, <1>6
          <5>2. \A i \in 1 .. Len(down[c] \o out[q]) :
                  \/ \E j \in 1 .. Len(down[c]) : (down[c] \o out[q])[i] = down[c][j]
                  \/ \E j \in 1 .. Len(out[q]) : (down[c] \o out[q])[i] = out[q][j]
            BY <5>1, AppendEach
          <5> QED
            BY <2>1, <5>2
        <4>3. \A i \in 1 .. Len(down'[c]) : ~Admits(down'[c][i])
          BY <2>3, <4>2 DEF Outside
        <4> QED
          BY <4>1, <4>3 DEF Outside, Admits
      <3>2. \/ Ends(down[c], Information(members))
            \/ Silent(down[c]) /\ member_information[c] = Information(members)
        BY <2>1, <3>1 DEF Pictures, PicturesOK
      <3> QED
        BY <1>5, <1>6, <2>1, <2>3, <3>2, AppendEnds
    <2> QED
      BY <2>2, <2>3 DEF SendsRight
  <1>12. AdmittedOK'
    <2> SUFFICES ASSUME NEW c \in Clients, NEW q \in Peers, link'[c] = q
                 PROVE  /\ InRoom(c) => \E n \in members' : n.peer = q /\ n.mac = mac_address[c]
                        /\ \A i \in 1 .. Len(down'[c]) : Admits(down'[c][i]) =>
                             \E n \in members' : n.peer = q /\ n.mac = down'[c][i].mac
      BY <1>7 DEF AdmittedOK, InRoom, IsMember, Admits
    <2>1. link[c] = q /\ down'[c] = down[c] \o out[q]
      BY <1>4 DEF SendsRight
    <2>2. /\ InRoom(c) => \E m \in members : m.peer = q /\ m.mac = mac_address[c]
          /\ \A i \in 1 .. Len(down[c]) : Admits(down[c][i]) =>
               \E m \in members : m.peer = q /\ m.mac = down[c][i].mac
      BY <2>1 DEF Pictures, AdmittedOK, IsMember
    <2>3. \A m \in members : m.peer = q => \E n \in members' : n.peer = q /\ n.mac = m.mac
      BY DEF SendsRight
    <2>4. \A mac : (\E m \in members : m.peer = q /\ m.mac = mac) =>
                    \E n \in members' : n.peer = q /\ n.mac = mac
      BY <2>3
    <2>5. \A i \in 1 .. Len(down'[c]) :
            \/ \E j \in 1 .. Len(down[c]) : down'[c][i] = down[c][j]
            \/ \E j \in 1 .. Len(out[q]) : down'[c][i] = out[q][j]
      <3>1. down[c] \in Seq(Answers) /\ out[q] \in Seq(Answers)
        BY <1>5, <1>6
      <3>2. \A i \in 1 .. Len(down[c] \o out[q]) :
              \/ \E j \in 1 .. Len(down[c]) : (down[c] \o out[q])[i] = down[c][j]
              \/ \E j \in 1 .. Len(out[q]) : (down[c] \o out[q])[i] = out[q][j]
        BY <3>1, AppendEach
      <3> QED
        BY <2>1, <3>2
    <2>6. \A i \in 1 .. Len(out[q]) : Admits(out[q][i]) =>
            \E n \in members' : n.peer = q /\ n.mac = out[q][i].mac
      BY DEF SendsRight
    <2>7. ASSUME NEW i \in 1 .. Len(down'[c]), Admits(down'[c][i])
          PROVE  \E n \in members' : n.peer = q /\ n.mac = down'[c][i].mac
      <3>1. CASE \E j \in 1 .. Len(down[c]) : down'[c][i] = down[c][j]
        <4>1. PICK j \in 1 .. Len(down[c]) : down'[c][i] = down[c][j]
          BY <3>1
        <4>2. \E m \in members : m.peer = q /\ m.mac = down[c][j].mac
          BY <2>2, <2>7, <4>1
        <4> QED
          BY <2>4, <4>1, <4>2
      <3>2. CASE \E j \in 1 .. Len(out[q]) : down'[c][i] = out[q][j]
        BY <2>6, <2>7, <3>2
      <3> QED
        BY <2>5, <3>1, <3>2
    <2> QED
      BY <2>2, <2>4, <2>7
  <1> QED
    BY <1>8, <1>9, <1>10, <1>11, <1>12 DEF Pictures

\* A handler that only sends notices.
LEMMA NoticesKeepPictures ==
    ASSUME Pictures, UNCHANGED client, UNCHANGED <<link, members, open>>,
           NEW t \in Notices, NEW out, down' = Sent(out),
           \A q \in Peers : out[q] \in {<<>>, <<[type |-> t]>>}
    PROVE  Pictures'
  <1>1. ASSUME NEW q \in Peers
        PROVE  Proper(out[q]) /\ Silent(out[q]) /\ \A i \in 1 .. Len(out[q]) : ~Admits(out[q][i])
    BY NoticeProper
  <1>2. SendsRight(out)
    BY <1>1 DEF SendsRight
  <1>3. open' \in BOOLEAN
    BY DEF Pictures, MemberTypes
  <1> QED
    BY <1>1, <1>2, <1>3, ServerSends

\* The handlers that answer their sender.
LEMMA ReplyKeepsPictures ==
    ASSUME Pictures, UNCHANGED client, NEW p \in Peers, NEW t \in Notices, Reply(p, t)
    PROVE  Pictures'
  <1> DEFINE out == Only(p, <<[type |-> t]>>)
  <1>1. \A q \in Peers : out[q] \in {<<>>, <<[type |-> t]>>}
    BY DEF Only
  <1>2. down' = Sent(out) /\ UNCHANGED <<link, members, open>>
    BY DEF Reply, room
  <1> HIDE DEF out
  <1> QED
    BY <1>1, <1>2, NoticesKeepPictures

\* A handler that broadcasts the list it has changed to all that it leaves
\* connected, after the status message to ms and before p's answer.
Broadcasts(out, ms, p, answer) ==
    \A c \in Clients, q \in Peers : link'[c] = q =>
        /\ link[c] = q /\ out[q] = Announced(ms, members', p, answer)[q]
        /\ \A m \in members : m.peer = q => \E n \in members' : n.peer = q /\ n.mac = m.mac

\* The answer is right for a member that the list has.
Welcomes(answer, k, p) ==
    /\ Answering(answer, k, Information(members'))
    /\ answer # <<>> => \E n \in members' : n.peer = p /\ n.mac = k.mac

\* Such a handler keeps the pictures right.
LEMMA BroadcastKeepsPictures ==
    ASSUME Pictures, UNCHANGED client, open' = open, members' \subseteq MemberRecords,
           NEW ms, NEW p, NEW k, NEW answer, Welcomes(answer, k, p),
           NEW out, down' = Sent(out), \A q \in Peers : Proper(out[q]),
           Broadcasts(out, ms, p, answer)
    PROVE  Pictures'
  <1>1. SendsRight(out)
    <2> SUFFICES ASSUME NEW c \in Clients, NEW q \in Peers, link'[c] = q
                 PROVE  /\ link[c] = q
                        /\ Ends(out[q], Information(members'))
                        /\ \A i \in 1 .. Len(out[q]) : Admits(out[q][i]) =>
                             \E m \in members' : m.peer = q /\ m.mac = out[q][i].mac
                        /\ \A m \in members : m.peer = q =>
                             \E n \in members' : n.peer = q /\ n.mac = m.mac
      BY DEF SendsRight, Broadcasts
    <2>1. /\ Ends(out[q], Information(members'))
          /\ \A i \in 1 .. Len(out[q]) : Admits(out[q][i]) =>
               q = p /\ answer # <<>> /\ out[q][i].mac = k.mac
      <3>1. PICK list \in SUBSET MemberRecords : list = members'
        OBVIOUS
      <3>2. out[q] = Announced(ms, list, p, answer)[q] /\ Answering(answer, k, Information(list))
        BY <3>1 DEF Broadcasts, Welcomes
      <3>3. Ends(out[q], Information(list)) /\ OnlyTo(out[q], q, p, answer, k)
        BY <3>2, AnnouncedProper
      <3> QED
        BY <3>1, <3>3 DEF OnlyTo
    <2>2. \A i \in 1 .. Len(out[q]) : Admits(out[q][i]) =>
            \E m \in members' : m.peer = q /\ m.mac = out[q][i].mac
      BY <2>1 DEF Welcomes
    <2> QED
      BY <2>1, <2>2 DEF Broadcasts
  <1>2. open' \in BOOLEAN
    BY DEF Pictures, MemberTypes
  <1> QED
    BY <1>1, <1>2, ServerSends

\* HandleJoinRequest: the list with the new member goes out before JoinSuccess.
LEMMA JoinKeepsPictures ==
    ASSUME IInv, IInv', Pictures, NEW p \in Peers, HandleJoinRequest(p), UNCHANGED client
    PROVE  Pictures'
  <1> DEFINE r == Head(up[p])
  <1>1. CASE Refusal(p, r) # "Accepted" /\ Reply(p, Refusal(p, r))
    <2>1. Refusal(p, r) \in Notices
      BY <1>1 DEF Refusal, Notices, Endings
    <2> QED
      BY <1>1, <2>1, ReplyKeepsPictures
  <1>2. CASE Admit(p, r)
    <2>1. PICK mac \in AssignedMacs(r.mac) :
            LET m == [nickname |-> r.nickname, mac |-> mac, console |-> r.console,
                      peer |-> p, user |-> UserOf[slot[p]], game |-> None]
                list == members \cup {m}
                answer == [type |-> IF HasModPermission(list, p)
                                    THEN "JoinSuccessAsMod" ELSE "JoinSuccess",
                           mac |-> mac]
            IN  /\ members' = list
                /\ down' = Sent(Announced(members, list, p, <<answer>>))
                /\ UNCHANGED <<slot, link, open, username_ban_list, ip_ban_list>>
      BY <1>2 DEF Admit
    <2> DEFINE m == [nickname |-> r.nickname, mac |-> mac, console |-> r.console,
                     peer |-> p, user |-> UserOf[slot[p]], game |-> None]
               k == [type |-> IF HasModPermission(members', p)
                              THEN "JoinSuccessAsMod" ELSE "JoinSuccess",
                     mac |-> mac]
               out == Announced(members, members', p, <<k>>)
    <2>2. members' = members \cup {m} /\ down' = Sent(out) /\ UNCHANGED <<link, open>>
      BY <2>1
    <2>3. members' \subseteq MemberRecords
      BY DEF IInv, Listed, MemberRecords
    <2>4. m \in members' /\ m.mac = mac /\ m.peer = p
      BY <2>2
    <2>5. mac \in AllMacs
      BY <2>3, <2>4 DEF MemberRecords
    <2>6. Shows(Information(members'), mac)
      <3> DEFINE x == [nickname |-> m.nickname, mac |-> m.mac, game |-> m.game, user |-> m.user]
      <3>1. x \in Information(members')
        BY <2>4 DEF Information
      <3>2. x.mac = mac
        BY <2>4
      <3> QED
        BY <3>1, <3>2 DEF Shows
    <2>7. k \in [type : Successes, mac : AllMacs] /\ k.mac = mac
      BY <2>5 DEF Successes
    <2> HIDE DEF m, k
    <2>8. Answering(<<k>>, k, Information(members'))
      BY <2>6, <2>7 DEF Answering
    <2>9. \A q \in Peers : Proper(out[q])
      BY <2>3, <2>8, AnnouncedProper
    <2>10. Welcomes(<<k>>, k, p)
      BY <2>4, <2>7, <2>8 DEF Welcomes
    <2>11. Broadcasts(out, members, p, <<k>>)
      BY <2>2 DEF Broadcasts
    <2> HIDE DEF out
    <2> QED
      BY <2>2, <2>3, <2>9, <2>10, <2>11, BroadcastKeepsPictures
  <1> QED
    BY <1>1, <1>2 DEF HandleJoinRequest

\* HandleGameNamePacket: every change is broadcast, and keeps addresses and
\* peers.
LEMMA GameKeepsPictures ==
    ASSUME IInv, IInv', Pictures, NEW p \in Peers, HandleGameNamePacket(p), UNCHANGED client
    PROVE  Pictures'
  <1> DEFINE Updated(m) == IF m.peer = p THEN [m EXCEPT !.game = Head(up[p]).game] ELSE m
             out == Announced({}, members', p, <<>>)
  <1>1. /\ members' = {Updated(m) : m \in members}
        /\ down' = Sent(out) /\ UNCHANGED <<link, open>>
    BY DEF HandleGameNamePacket
  <1>2. \A m \in members : Updated(m).mac = m.mac /\ Updated(m).peer = m.peer
    BY DEF IInv, Listed, MemberRecords
  <1> HIDE DEF Updated
  <1>3. \A m \in members : \E n \in members' : n.peer = m.peer /\ n.mac = m.mac
    BY <1>1, <1>2
  <1>4. members' \subseteq MemberRecords
    BY DEF IInv, Listed, MemberRecords
  <1>5. Welcomes(<<>>, 0, p)
    BY DEF Answering, Welcomes
  <1>6. \A q \in Peers : Proper(out[q])
    BY <1>4, <1>5, AnnouncedProper DEF Welcomes
  <1>7. Broadcasts(out, {}, p, <<>>)
    BY <1>1, <1>3 DEF Broadcasts
  <1> HIDE DEF out
  <1> QED
    BY <1>1, <1>4, <1>5, <1>6, <1>7, BroadcastKeepsPictures

\* HandleModKickPacket and HandleModBanPacket: whoever is removed is cut off.
LEMMA RemovalKeepsPictures ==
    ASSUME IInv, IInv', Pictures, NEW p \in Peers, NEW t, NEW notice \in Notices,
           HandleRemoval(p, t, notice), UNCHANGED client
    PROVE  Pictures'
  <1>1. CASE Reply(p, "ModNoSuchUser")
    BY <1>1, ReplyKeepsPictures DEF Notices
  <1>2. ASSUME NEW m \in members, Remove(p, m, notice)
        PROVE  Pictures'
    <2>1. m.peer \in Peers /\ slot[m.peer] \in Clients
      BY DEF IInv, Listed, MemberRecords, MembersConnected
    <2>2. PICK x \in Peers, c \in Clients : x = m.peer /\ c = slot[x]
      BY <2>1
    <2> DEFINE sent == Announced(members', members', x, <<>>)
               out == [sent EXCEPT ![x] = <<[type |-> notice]>>]
    <2>3. /\ members' = members \ {m}
          /\ link' = IF link[c] = x THEN [link EXCEPT ![c] = Lost] ELSE link
          /\ down' = Sent(out) /\ UNCHANGED open
      BY <1>2, <2>2 DEF Remove
    <2>4. members' \subseteq MemberRecords
      BY DEF IInv, Listed, MemberRecords
    <2>5. Welcomes(<<>>, 0, x)
      BY DEF Answering, Welcomes
    <2>6. sent = [q \in Peers |-> sent[q]]
      BY DEF Announced
    <2>7. \A q \in Peers : Proper(sent[q])
      BY <2>4, <2>5, AnnouncedProper DEF Welcomes
    <2> HIDE DEF sent
    <2>8. \A q \in Peers : out[q] = IF q = x THEN <<[type |-> notice]>> ELSE sent[q]
      BY <2>6
    <2> HIDE DEF out
    <2>9. Proper(<<[type |-> notice]>>)
      BY NoticeProper
    <2>10. \A q \in Peers : Proper(out[q])
      BY <2>7, <2>8, <2>9
    <2>11. ASSUME NEW d \in Clients, NEW q \in Peers, link'[d] = q
           PROVE  link[d] = q /\ q # x
      BY <2>2, <2>3, <2>11, PeersAssumption DEF IInv, Channels
    <2>12. Broadcasts(out, members', x, <<>>)
      BY <2>2, <2>3, <2>8, <2>11 DEF Broadcasts, sent
    <2> QED
      BY <2>3, <2>4, <2>5, <2>10, <2>12, BroadcastKeepsPictures
  <1> QED
    BY <1>1, <1>2 DEF HandleRemoval

\* HandleClientDisconnection: only members that are not reached are removed.
LEMMA DisconnectionKeepsPictures ==
    ASSUME IInv, IInv', Pictures, NEW p \in Peers, HandleClientDisconnection(p), UNCHANGED client
    PROVE  Pictures'
  <1>1. PICK ms : /\ Broken(p)
                  /\ members' = {m \in members : m.peer # p}
                  /\ down' = Sent(Announced(ms, members', p, <<>>))
                  /\ UNCHANGED <<link, open>>
    BY DEF HandleClientDisconnection, Disconnected
  <1> DEFINE out == Announced(ms, members', p, <<>>)
  <1>2. members' \subseteq MemberRecords
    BY DEF IInv, Listed, MemberRecords
  <1>3. Welcomes(<<>>, 0, p)
    BY DEF Answering, Welcomes
  <1>4. \A q \in Peers : Proper(out[q])
    BY <1>2, <1>3, AnnouncedProper DEF Welcomes
  <1>5. \A c \in Clients : link[c] # p
    BY <1>1 DEF IInv, Channels, Broken
  <1>6. Broadcasts(out, ms, p, <<>>)
    BY <1>1, <1>5 DEF Broadcasts
  <1> HIDE DEF out
  <1>7. down' = Sent(out) /\ open' = open
    BY <1>1 DEF out
  <1> QED
    BY <1>2, <1>3, <1>4, <1>6, <1>7, BroadcastKeepsPictures

\* Room::Destroy cuts off everyone.
LEMMA DestroyKeepsPictures ==
    ASSUME IInv, Pictures, Destroy, UNCHANGED client
    PROVE  Pictures'
  <1> DEFINE out == [p \in Peers |-> IF p \in PeersOf(members)
                                     THEN <<[type |-> "CloseRoom"]>> ELSE <<>>]
  <1>1. /\ down' = Sent(out) /\ open' \in BOOLEAN
        /\ link' = [c \in Clients |-> IF link[c] \in Peers THEN Lost ELSE link[c]]
    BY DEF Destroy
  <1>2. "CloseRoom" \in Notices /\ \A q \in Peers : out[q] \in {<<>>, <<[type |-> "CloseRoom"]>>}
    BY DEF Notices, Endings
  <1> HIDE DEF out
  <1>3. \A q \in Peers : Proper(out[q])
    BY <1>2, NoticeProper
  <1>4. SendsRight(out)
    BY <1>1, PeersAssumption DEF SendsRight
  <1> QED
    BY <1>1, <1>3, <1>4, ServerSends

\* Every event of ServerLoop.
LEMMA ServerKeepsPictures ==
    ASSUME IInv, IInv', Pictures, NEW p \in Peers, ServerEvent(p)
    PROVE  Pictures'
  <1>0. UNCHANGED client
    BY DEF ServerEvent
  <1>1. CASE HandleChatPacket(p)
    <2> DEFINE out == [q \in Peers |->
                        IF p \in PeersOf(members) /\ q \in PeersOf(members) \ {p}
                        THEN <<[type |-> "ChatMessage"]>> ELSE <<>>]
    <2>1. down' = Sent(out) /\ UNCHANGED <<link, members, open>>
      BY <1>1 DEF HandleChatPacket, room
    <2>2. /\ "ChatMessage" \in Notices
          /\ \A q \in Peers : out[q] \in {<<>>, <<[type |-> "ChatMessage"]>>}
      BY DEF Notices
    <2> HIDE DEF out
    <2> QED
      BY <1>0, <2>1, <2>2, NoticesKeepPictures
  <1>2. CASE HandleWifiPacket(p)
    <2>1. PICK receivers :
            /\ down' = Sent([q \in Peers |-> IF q \in receivers
                                             THEN <<[type |-> "WifiPacket"]>> ELSE <<>>])
            /\ UNCHANGED <<link, members, open>>
      BY <1>2 DEF HandleWifiPacket, room
    <2> DEFINE out == [q \in Peers |-> IF q \in receivers
                                       THEN <<[type |-> "WifiPacket"]>> ELSE <<>>]
    <2>2. /\ "WifiPacket" \in Notices
          /\ \A q \in Peers : out[q] \in {<<>>, <<[type |-> "WifiPacket"]>>}
      BY DEF Notices
    <2>3. down' = Sent(out)
      BY <2>1
    <2> HIDE DEF out
    <2> QED
      BY <1>0, <2>1, <2>2, <2>3, NoticesKeepPictures
  <1>3. CASE HandleModUnbanPacket(p)
    <2>1. CASE Reply(p, "ModNoSuchUser")
      BY <1>0, <2>1, ReplyKeepsPictures DEF Notices
    <2>2. CASE ~Reply(p, "ModNoSuchUser")
      <3> DEFINE out == [q \in Peers |-> IF q \in PeersOf(members)
                                         THEN <<[type |-> "StatusMessage"]>> ELSE <<>>]
      <3>1. down' = Sent(out) /\ UNCHANGED <<link, members, open>>
        BY <1>3, <2>2 DEF HandleModUnbanPacket
      <3>2. /\ "StatusMessage" \in Notices
            /\ \A q \in Peers : out[q] \in {<<>>, <<[type |-> "StatusMessage"]>>}
        BY DEF Notices
      <3> HIDE DEF out
      <3> QED
        BY <1>0, <3>1, <3>2, NoticesKeepPictures
    <2> QED
      BY <2>1, <2>2
  <1>4. CASE HandleModDenied(p) \/ HandleModGetBanListPacket(p)
    <2>1. Reply(p, "ModPermissionDenied") \/ Reply(p, "ModBanListResponse")
      BY <1>4 DEF HandleModDenied, HandleModGetBanListPacket
    <2>2. "ModPermissionDenied" \in Notices /\ "ModBanListResponse" \in Notices
      BY DEF Notices
    <2> QED
      BY <1>0, <2>1, <2>2, ReplyKeepsPictures
  <1>5. CASE HandleModKickPacket(p) \/ HandleModBanPacket(p)
    <2>1. "HostKicked" \in Notices /\ "HostBanned" \in Notices
      BY DEF Notices, Endings
    <2> QED
      BY <1>0, <1>5, <2>1, RemovalKeepsPictures DEF HandleModKickPacket, HandleModBanPacket
  <1> QED
    BY <1>0, <1>1, <1>2, <1>3, <1>4, <1>5, JoinKeepsPictures, GameKeepsPictures,
       DisconnectionKeepsPictures DEF ServerEvent

-----------------------------------------------------------------------------
\* A client's step is about itself.
Same(d) ==
    /\ state'[d] = state[d] /\ thread'[d] = thread[d] /\ api'[d] = api[d]
    /\ member_information'[d] = member_information[d] /\ mac_address'[d] = mac_address[d]
    /\ down'[d] = down[d] /\ link'[d] = link[d]

\* Every step of a client leaves the fields of the others alone.
LEMMA OthersStay ==
    ASSUME IInv, Pictures, NEW c \in Clients, MemberEvent(c), NEW d \in Clients, d # c
    PROVE  Same(d)
  <1>1. /\ state \in [Clients -> States] /\ thread = [e \in Clients |-> thread[e]]
        /\ api = [e \in Clients |-> api[e]] /\ link = [e \in Clients |-> link[e]]
        /\ member_information = [e \in Clients |-> member_information[e]]
        /\ mac_address = [e \in Clients |-> mac_address[e]]
        /\ down = [e \in Clients |-> down[e]]
    BY DEF IInv, Channels, Senders, Pictures, MemberTypes
  <1>2. CASE LoopExit(c) \/ NoEvent(c) \/ Disconnection(c)
    BY <1>1, <1>2 DEF LoopExit, NoEvent, Disconnection, Flush, Drop, Same
  <1>3. CASE Receive(c)
    BY <1>1, <1>3 DEF Receive, Flush, Same
  <1>4. CASE ThreadJoined(c) \/ CouldNotConnect(c) \/ SendJoinRequest(c) \/ NetworkFault(c)
    BY <1>1, <1>4 DEF ThreadJoined, CouldNotConnect, SendJoinRequest, NetworkFault, Break,
                      client, enet, Same
  <1>5. CASE Connected(c)
    BY <1>1, <1>5 DEF Connected, Connect, Same
  <1>6. CASE Leave(c) \/ \E request \in Requests[c] : Join(c, request)
    BY <1>1, <1>6 DEF Leave, Join, StartLeaving, enet, Same
  <1>7. CASE \/ \E game \in Games : SendGameInfo(c, game)
             \/ \E packet \in Commands[c] : SendCommand(c, packet)
    BY <1>1, <1>7 DEF SendGameInfo, SendCommand, enet, Same
  <1> QED
    BY <1>2, <1>3, <1>4, <1>5, <1>6, <1>7 DEF MemberEvent, MemberStep, LoopThread, ApiThread

\* A packet received is the server's.
LEMMA ReceivedAnswer ==
    ASSUME Pictures, NEW c \in Clients, down[c] # <<>>
    PROVE  Head(down[c]) \in Answers /\ Tail(down[c]) \in Seq(Answers)
  BY HeadTailProperties DEF Pictures, MemberTypes

\* The types of what a client keeps.
LEMMA MemberTypesKept ==
    ASSUME IInv, Pictures, NEW c \in Clients, MemberEvent(c)
    PROVE  MemberTypes'
  <1>0. UNCHANGED open /\ \A S : <<>> \in Seq(S)
    BY DEF MemberEvent, room
  <1>1. /\ open \in BOOLEAN
        /\ state \in [Clients -> States]
        /\ thread \in [Clients -> {"none", "running", "tested", "ended"}]
        /\ member_information \in [Clients -> Lists]
        /\ mac_address = [e \in Clients |-> mac_address[e]]
        /\ down = [e \in Clients |-> down[e]]
        /\ \A e \in Clients : down[e] \in Seq(Answers)
    BY DEF Pictures, MemberTypes
  <1>2. /\ "Idle" \in States /\ "Joining" \in States /\ "Joined" \in States
        /\ "Moderator" \in States /\ {} \in Lists
    BY DEF States, Lists
  <1> SUFFICES /\ state' \in [Clients -> States]
               /\ thread' \in [Clients -> {"none", "running", "tested", "ended"}]
               /\ member_information' \in [Clients -> Lists]
               /\ mac_address' = [e \in Clients |-> mac_address'[e]]
               /\ down' = [e \in Clients |-> down'[e]]
               /\ \A e \in Clients : down'[e] \in Seq(Answers)
    BY <1>0, <1>1 DEF MemberTypes, Lists, Answers
  <1>3. CASE LoopExit(c)
    BY <1>0, <1>1, <1>2, <1>3 DEF LoopExit, Drop
  <1>4. CASE NoEvent(c)
    BY <1>1, <1>4 DEF NoEvent, Flush
  <1>5. CASE Disconnection(c)
    <2>1. /\ state' = [state EXCEPT ![c] = IF @ \in {"Joined", "Moderator"} THEN "Idle" ELSE @]
          /\ down' = [down EXCEPT ![c] = <<>>]
          /\ thread' = [thread EXCEPT ![c] = "running"]
          /\ UNCHANGED <<member_information, mac_address>>
      BY <1>5 DEF Disconnection, Flush
    <2> QED
      BY <1>0, <1>1, <1>2, <2>1
  <1>6. CASE Receive(c)
    <2>1. PICK k : k = Head(down[c])
      OBVIOUS
    <2>2. down[c] # <<>> /\ k \in Answers /\ Tail(down[c]) \in Seq(Answers)
      BY <1>6, <2>1, ReceivedAnswer DEF Receive
    <2>3. /\ state' = [state EXCEPT ![c] = NextState(k.type, @)]
          /\ member_information' = [member_information EXCEPT ![c] =
                 IF k.type = "RoomInformation" THEN k.list ELSE @]
          /\ mac_address' = [mac_address EXCEPT ![c] = IF k.type \in Successes THEN k.mac ELSE @]
          /\ down' = [down EXCEPT ![c] = Tail(@)]
          /\ thread' = [thread EXCEPT ![c] = "running"]
      BY <1>6, <2>1 DEF Receive, Flush
    <2>4. \A s \in States : NextState(k.type, s) \in States
      BY <1>2 DEF NextState
    <2>5. k.type = "RoomInformation" => k.list \in Lists
      BY <2>2, AnswerFields DEF Informs
    <2>6. state' \in [Clients -> States]
      BY <1>1, <2>3, <2>4
    <2>7. member_information' \in [Clients -> Lists]
      BY <1>1, <2>3, <2>5
    <2>8. thread' \in [Clients -> {"none", "running", "tested", "ended"}]
      BY <1>1, <2>3
    <2>9. /\ down' = [e \in Clients |-> down'[e]]
          /\ \A e \in Clients : down'[e] \in Seq(Answers)
      BY <1>1, <2>2, <2>3
    <2>10. mac_address' = [e \in Clients |-> mac_address'[e]]
      BY <1>1, <2>3
    <2> QED
      BY <2>6, <2>7, <2>8, <2>9, <2>10
  <1>7. CASE ThreadJoined(c) \/ CouldNotConnect(c)
    BY <1>1, <1>2, <1>7 DEF ThreadJoined, CouldNotConnect, enet
  <1>8. CASE Connected(c)
    BY <1>0, <1>1, <1>8 DEF Connected, Connect
  <1>9. CASE Leave(c) \/ \E request \in Requests[c] : Join(c, request)
    BY <1>1, <1>2, <1>9 DEF Leave, Join, StartLeaving, enet
  <1>10. CASE \/ SendJoinRequest(c) \/ NetworkFault(c)
              \/ \E game \in Games : SendGameInfo(c, game)
              \/ \E packet \in Commands[c] : SendCommand(c, packet)
    BY <1>1, <1>10 DEF SendJoinRequest, NetworkFault, Break, client, SendGameInfo, SendCommand, enet
  <1> QED
    BY <1>3, <1>4, <1>5, <1>6, <1>7, <1>8, <1>9, <1>10
       DEF MemberEvent, MemberStep, LoopThread, ApiThread

\* Nothing but the connection attempt happens to a client that connects.
LEMMA ConnectingKept ==
    ASSUME IInv, Pictures, NEW c \in Clients, MemberEvent(c)
    PROVE  ConnectingOK'
  <1>1. /\ state \in [Clients -> States]
        /\ thread \in [Clients -> {"none", "running", "tested", "ended"}]
        /\ api \in [Clients -> [pc : Places, request : Requested \cup {None}]]
        /\ api[c].pc = "connecting" => state[c] = "Joining" /\ thread[c] = "none"
    BY DEF IInv, Senders, Pictures, MemberTypes, ConnectingOK
  <1> SUFFICES api'[c].pc = "connecting" => state'[c] = "Joining" /\ thread'[c] = "none"
    BY OthersStay DEF Pictures, ConnectingOK, Same
  <1>2. CASE LoopThread(c)
    BY <1>1, <1>2 DEF LoopThread, LoopExit, NoEvent, Disconnection, Receive, Flush, Iterates
  <1>3. CASE ThreadJoined(c)
    BY <1>1, <1>3 DEF ThreadJoined, Idle
  <1>4. CASE CouldNotConnect(c) \/ SendJoinRequest(c)
    <2>1. api' = [api EXCEPT ![c] = [pc |-> "idle", request |-> None]]
      BY <1>4 DEF CouldNotConnect, SendJoinRequest, Idle
    <2>2. api'[c].pc = "idle"
      BY <1>1, <2>1
    <2> QED
      BY <2>2
  <1>5. CASE Connected(c)
    BY <1>1, <1>5 DEF Connected
  <1>6. CASE Leave(c) \/ \E request \in Requests[c] : Join(c, request)
    BY <1>1, <1>6 DEF Leave, Join, StartLeaving
  <1>7. CASE \/ NetworkFault(c)
             \/ \E game \in Games : SendGameInfo(c, game)
             \/ \E packet \in Commands[c] : SendCommand(c, packet)
    BY <1>1, <1>7 DEF NetworkFault, client, SendGameInfo, SendCommand
  <1> QED
    BY <1>2, <1>3, <1>4, <1>5, <1>6, <1>7 DEF MemberEvent, MemberStep, ApiThread

\* What the invariant says of one client.
PictureOK(c) ==
    /\ Announces(down[c])
    /\ down[c] # <<>> /\ Admits(down[c][1]) => Shows(member_information[c], down[c][1].mac)
    /\ link[c] \in Peers /\ ~Outside(c) =>
         \/ Ends(down[c], Information(members))
         \/ Silent(down[c]) /\ member_information[c] = Information(members)
    /\ link[c] \in Peers =>
         /\ InRoom(c) => IsMember(link[c], mac_address[c])
         /\ \A i \in 1 .. Len(down[c]) : Admits(down[c][i]) => IsMember(link[c], down[c][i].mac)

\* The invariant is about every client by itself.
LEMMA ClientByClient ==
    Pictures <=> MemberTypes /\ ConnectingOK /\ \A c \in Clients : PictureOK(c)
  BY DEF Pictures, SuccessesOK, PicturesOK, AdmittedOK, PictureOK

\* Nothing is on its way to a client that is not connected, or not in the room.
LEMMA NothingToShow ==
    ASSUME NEW c \in Clients, down'[c] = <<>>, link'[c] \notin Peers \/ ~InRoom(c)'
    PROVE  PictureOK(c)'
  <1>1. Announces(<<>>) /\ Len(<<>>) = 0
    BY DEF Announces
  <1>2. Announces(down[c])'
    BY <1>1 DEF Announces, Admits, Informs, Shows
  <1>3. ~InRoom(c)' => Outside(c)'
    BY <1>1 DEF Outside
  <1>4. \A i \in 1 .. Len(down'[c]) : FALSE
    BY <1>1
  <1> QED
    BY <1>2, <1>3, <1>4 DEF PictureOK

\* A client that keeps what it shows and what is on its way, and at most leaves.
LEMMA LessToShow ==
    ASSUME NEW c \in Clients, PictureOK(c), UNCHANGED members,
           down'[c] = down[c], member_information'[c] = member_information[c],
           mac_address'[c] = mac_address[c], link'[c] \in Peers => link'[c] = link[c],
           InRoom(c)' => InRoom(c)
    PROVE  PictureOK(c)'
  <1>1. Outside(c) => Outside(c)'
    BY DEF Outside, Admits
  <1>2. Announces(down[c]) => Announces(down[c])'
    BY DEF Announces, Admits, Informs, Shows
  <1>3. down'[c] # <<>> /\ Admits(down'[c][1]) => Shows(member_information'[c], down'[c][1].mac)
    BY DEF PictureOK
  <1>4. link'[c] \in Peers /\ ~Outside(c)' =>
           \/ Ends(down'[c], Information(members'))
           \/ Silent(down'[c]) /\ member_information'[c] = Information(members')
    BY <1>1 DEF PictureOK
  <1>5. link'[c] \in Peers =>
         /\ InRoom(c)' => IsMember(link'[c], mac_address'[c])
         /\ \A i \in 1 .. Len(down'[c]) : Admits(down'[c][i]) => IsMember(link'[c], down'[c][i].mac)
    BY DEF PictureOK
  <1> QED
    BY <1>2, <1>3, <1>4, <1>5
       DEF PictureOK, Admits, Shows, Ends, Silent, Informs, Information, IsMember

\* A client that is left alone keeps its picture.
LEMMA SamePicture ==
    ASSUME NEW d \in Clients, PictureOK(d), Same(d), UNCHANGED members
    PROVE  PictureOK(d)'
  <1>1. InRoom(d)' => InRoom(d)
    BY DEF InRoom, Same
  <1> QED
    BY <1>1, LessToShow DEF Same

\* Receiving a packet: the room information becomes what is shown, JoinSuccess
\* makes the client one that is in the room.
LEMMA ReceiveKeepsPicture ==
    ASSUME Pictures, NEW c \in Clients, Receive(c), UNCHANGED members
    PROVE  PictureOK(c)'
  <1>1. PICK s \in Seq(Answers) : s = down[c] /\ s # <<>>
    BY DEF Receive, Pictures, MemberTypes
  <1>2. PICK k \in Answers : k = Head(s)
    BY <1>1, TailOfAnswers
  <1>3. PICK q : q = link[c]
    OBVIOUS
  <1>4. /\ state'[c] = NextState(k.type, state[c])
        /\ member_information'[c] = IF Informs(k) THEN k.list ELSE member_information[c]
        /\ mac_address'[c] = IF Admits(k) THEN k.mac ELSE mac_address[c]
        /\ down'[c] = Tail(s) /\ link'[c] = q
    BY <1>1, <1>2, <1>3 DEF Receive, Pictures, MemberTypes, Informs, Admits
  <1>5. /\ \A i \in 1 .. Len(Tail(s)) : i + 1 \in 1 .. Len(s) /\ Tail(s)[i] = s[i + 1]
        /\ k = s[1] /\ 1 \in 1 .. Len(s)
    BY <1>1, <1>2, TailOfAnswers, EmptySeq, LenProperties
  <1>6. PictureOK(c)
    BY ClientByClient
  <1>7. InRoom(c)' => InRoom(c) \/ Admits(k)
    BY <1>4 DEF InRoom, NextState, Admits, Successes
  <1>8. Announces(down'[c])
    BY <1>1, <1>4, <1>6, TailOfAnswers DEF PictureOK
  <1>9. down'[c] # <<>> /\ Admits(down'[c][1]) => Shows(member_information'[c], down'[c][1].mac)
    BY <1>1, <1>2, <1>4, <1>6, TailOfAnswers DEF PictureOK
  <1>10. ASSUME q \in Peers, ~Outside(c)'
         PROVE  \/ Ends(Tail(s), Information(members))
                \/ Silent(Tail(s)) /\ member_information'[c] = Information(members)
    <2>1. ~Outside(c)
      <3> SUFFICES ASSUME Outside(c) PROVE FALSE
        OBVIOUS
      <3>1. ~InRoom(c) /\ \A i \in 1 .. Len(s) : ~Admits(s[i])
        BY <1>1 DEF Outside
      <3>2. ~InRoom(c)' /\ \A i \in 1 .. Len(Tail(s)) : ~Admits(Tail(s)[i])
        BY <1>5, <1>7, <3>1
      <3> QED
        BY <1>4, <1>10, <3>2 DEF Outside, Admits
    <2>2. \/ Ends(s, Information(members))
          \/ Silent(s) /\ member_information[c] = Information(members)
      BY <1>1, <1>3, <1>6, <1>10, <2>1 DEF PictureOK
    <2>3. CASE Ends(s, Information(members))
      BY <1>1, <1>2, <1>4, <2>3, TailOfAnswers
    <2>4. CASE Silent(s) /\ member_information[c] = Information(members)
      BY <1>1, <1>2, <1>4, <2>4, TailOfAnswers
    <2> QED
      BY <2>2, <2>3, <2>4
  <1>11. ASSUME q \in Peers
         PROVE  /\ InRoom(c)' => IsMember(q, mac_address'[c])
                /\ \A i \in 1 .. Len(Tail(s)) : Admits(Tail(s)[i]) => IsMember(q, Tail(s)[i].mac)
    <2>1. /\ InRoom(c) => IsMember(q, mac_address[c])
          /\ \A i \in 1 .. Len(s) : Admits(s[i]) => IsMember(q, s[i].mac)
      BY <1>1, <1>3, <1>6, <1>11 DEF PictureOK
    <2>2. Admits(k) => IsMember(q, k.mac)
      BY <1>5, <2>1
    <2> QED
      BY <1>4, <1>5, <1>7, <2>1, <2>2
  <1> QED
    BY <1>4, <1>8, <1>9, <1>10, <1>11
       DEF PictureOK, Announces, Admits, Informs, Shows, Ends, Silent, Information, IsMember

\* Every step of a client.
LEMMA MemberKeepsPictures ==
    ASSUME IInv, Pictures, NEW c \in Clients, MemberEvent(c)
    PROVE  Pictures'
  <1>0. UNCHANGED members /\ \A d \in Clients : PictureOK(d)
    BY ClientByClient DEF MemberEvent, room
  <1>1. /\ state \in [Clients -> States] /\ down = [e \in Clients |-> down[e]]
        /\ link \in [Clients -> Peers \cup {None, Lost}]
    BY DEF IInv, Channels, Pictures, MemberTypes
  <1>2. PictureOK(c)'
    <2>1. CASE LoopExit(c) \/ Disconnection(c)
      <3>1. down'[c] = <<>> /\ link'[c] \notin Peers
        BY <1>1, <2>1, PeersAssumption DEF LoopExit, Drop, Disconnection
      <3> QED
        BY <3>1, NothingToShow
    <2>2. CASE Connected(c)
      <3>1. down'[c] = <<>> /\ state'[c] = "Joining"
        BY <1>1, <2>2 DEF Connected, Connect, Pictures, ConnectingOK
      <3> QED
        BY <3>1, NothingToShow DEF InRoom
    <2>3. CASE Receive(c)
      BY <1>0, <2>3, ReceiveKeepsPicture
    <2>4. CASE NoEvent(c)
      <3>1. UNCHANGED <<down, member_information, mac_address, link, state>>
        BY <2>4 DEF NoEvent
      <3> QED
        BY <1>0, <3>1, LessToShow DEF InRoom
    <2>5. CASE \/ ThreadJoined(c) \/ CouldNotConnect(c) \/ SendJoinRequest(c) \/ Leave(c)
               \/ \E request \in Requests[c] : Join(c, request)
               \/ \E game \in Games : SendGameInfo(c, game)
               \/ \E packet \in Commands[c] : SendCommand(c, packet)
      <3>1. /\ UNCHANGED <<down, member_information, mac_address, link>>
            /\ state'[c] = state[c] \/ state'[c] \in {"Idle", "Joining"}
        BY <1>1, <2>5 DEF ThreadJoined, CouldNotConnect, SendJoinRequest, Leave, Join, StartLeaving,
                          SendGameInfo, SendCommand, enet
      <3>2. InRoom(c)' => InRoom(c)
        BY <3>1 DEF InRoom
      <3> QED
        BY <1>0, <3>1, <3>2, LessToShow
    <2>6. CASE NetworkFault(c)
      <3>1. UNCHANGED <<down, member_information, mac_address, state>> /\ link'[c] = Lost
        BY <1>1, <2>6 DEF NetworkFault, Break, client
      <3> QED
        BY <1>0, <3>1, LessToShow, PeersAssumption DEF InRoom
    <2> QED
      BY <2>1, <2>2, <2>3, <2>4, <2>5, <2>6 DEF MemberEvent, MemberStep, LoopThread, ApiThread
  <1>3. \A d \in Clients : PictureOK(d)'
    BY <1>0, <1>2, OthersStay, SamePicture
  <1>4. MemberTypes' /\ ConnectingOK'
    BY MemberTypesKept, ConnectingKept
  <1>5. SuccessesOK'
    BY <1>3 DEF SuccessesOK, PictureOK
  <1>6. PicturesOK'
    BY <1>3 DEF PicturesOK, PictureOK
  <1>7. AdmittedOK'
    BY <1>3 DEF AdmittedOK, PictureOK
  <1> QED
    BY <1>4, <1>5, <1>6, <1>7 DEF Pictures

\* The invariant holds in the beginning and is kept by every step.
LEMMA PicturesHold == Spec => [](IInv /\ Pictures)
  <1>1. Init => Pictures
    <2> SUFFICES ASSUME Init PROVE Pictures
      OBVIOUS
    <2>1. MemberTypes
      BY DEF Init, EnetInit, RoomInit, MemberInit, MemberTypes, States, Lists
    <2>2. ConnectingOK
      BY DEF Init, MemberInit, Idle, ConnectingOK
    <2>3. \A c \in Clients : Len(down[c]) = 0 /\ down[c] = <<>> /\ link[c] \notin Peers
      BY PeersAssumption DEF Init, EnetInit
    <2>4. Announces(<<>>)
      BY DEF Announces
    <2>5. ASSUME NEW c \in Clients PROVE PictureOK(c)
      <3>1. down[c] = <<>> /\ link[c] \notin Peers /\ Announces(down[c])
        BY <2>3, <2>4
      <3> QED
        BY <3>1 DEF PictureOK
    <2> QED
      BY <2>1, <2>2, <2>5, ClientByClient
  <1>2. IInv /\ IInv' /\ Pictures /\ [Next]_vars => Pictures'
    <2> SUFFICES ASSUME IInv, IInv', Pictures, [Next]_vars PROVE Pictures'
      OBVIOUS
    <2>1. ASSUME NEW p \in Peers, ServerEvent(p) PROVE Pictures'
      BY <2>1, ServerKeepsPictures
    <2>2. CASE CloseRoom
      BY <2>2, DestroyKeepsPictures DEF CloseRoom
    <2>3. ASSUME NEW c \in Clients, MemberEvent(c) PROVE Pictures'
      BY <2>3, MemberKeepsPictures
    <2>4. CASE UNCHANGED vars
      BY <2>4 DEF vars, enet, room, client, Pictures, MemberTypes, Lists, Answers, ConnectingOK,
                  SuccessesOK, PicturesOK, AdmittedOK, Announces, Ends, Silent, Outside, InRoom,
                  IsMember, Shows, Admits, Informs, Information
    <2> QED
      BY <2>1, <2>2, <2>3, <2>4 DEF Next
  <1> QED
    BY <1>1, <1>2, InitIInv, StepIInv, PTL DEF Spec

\* Whatever arrives in which order, the room's and the clients' fields keep
\* their types; what a client shows are records of members.
THEOREM RoomTypes == Spec => []TypeOK
  <1>1. IInv /\ Pictures => TypeOK
    BY DEF IInv, Channels, Listed, Pictures, MemberTypes, Lists, TypeOK
  <1> QED
    BY <1>1, PicturesHold, PTL

\* MemberLoop's assertion holds: the list that arrived last before JoinSuccess
\* shows the client's address.
THEOREM JoinSuccessIsExpected == Spec => []NoAssertFails
  <1>1. Pictures => NoAssertFails
    <2> SUFFICES ASSUME Pictures, NEW c \in Clients, down[c] # <<>>, Head(down[c]).type \in Successes
                 PROVE  \E i \in member_information[c] : i.mac = Head(down[c]).mac
      BY DEF NoAssertFails
    <2>1. Head(down[c]) = down[c][1]
      BY DEF Pictures, MemberTypes
    <2> QED
      BY <2>1 DEF Pictures, SuccessesOK, Admits, Shows
  <1> QED
    BY <1>1, PicturesHold, PTL

\* A client that is in the room and has received everything shows the room's
\* list and is on it, through every interleaving of joins, kicks, bans, leaves,
\* faults and changes of game.
THEOREM PicturesAgree == Spec => []ViewsAgree
  <1>1. Pictures => ViewsAgree
    <2> SUFFICES ASSUME Pictures, NEW c \in Clients, InRoom(c), link[c] \in Peers, down[c] = <<>>
                 PROVE  /\ member_information[c] = Information(members)
                        /\ \E m \in members : m.peer = link[c] /\ m.mac = mac_address[c]
      BY DEF ViewsAgree, InRoom
    <2>1. ~Outside(c) /\ Len(down[c]) = 0
      BY DEF Outside
    <2>2. ~Ends(down[c], Information(members))
      BY <2>1 DEF Ends
    <2> QED
      BY <2>1, <2>2 DEF Pictures, PicturesOK, AdmittedOK, IsMember
  <1> QED
    BY <1>1, PicturesHold, PTL

=============================================================================
