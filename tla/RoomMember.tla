----------------------------- MODULE RoomMember -----------------------------
(***************************************************************************)
(* The client of a multiplayer room (src/src/network/room_member.cpp).     *)
(* Two threads share each RoomMember: the one that calls Join and Leave    *)
(* (api), and the loop thread Join starts (thread), which tests            *)
(* IsConnected, services the network once under network_mutex, sends what  *)
(* the send list holds, and starts over.  state is an atomic that both     *)
(* write without any other agreement.                                      *)
(***************************************************************************)
EXTENDS ENet

CONSTANTS
    Games,          \* the games SendGameInfo may announce
    Requests,       \* Requests[c]: the JoinRequest packets c's Join may send
    Commands,       \* Commands[c]: the other packets c may send
    MaxCalls        \* bound: calls from outside, and network faults, in a behaviour

ASSUME MemberAssumption == MaxCalls \in Nat

VARIABLES
    state,
    member_information,
    mac_address,
    nickname,
    current_game_info,
    send_list,
    thread,         \* loop_thread: none, running, past its test, or ended
    api,            \* where the caller of Join or Leave is, and Join's request
    calls           \* how many calls and faults there were

client == <<state, member_information, mac_address, nickname, current_game_info,
            send_list, thread, api>>

States == {"Idle", "Joining", "Joined", "Moderator"}
Idle == [pc |-> "idle", request |-> None]

MemberInit ==
    /\ state = [c \in Clients |-> "Idle"]
    /\ member_information = [c \in Clients |-> {}]
    /\ mac_address = [c \in Clients |-> None]
    /\ nickname = [c \in Clients |-> None]
    /\ current_game_info = [c \in Clients |-> None]
    /\ send_list = [c \in Clients |-> <<>>]
    /\ thread = [c \in Clients |-> "none"]
    /\ api = [c \in Clients |-> Idle]
    /\ calls = 0

\* Something happens that the program does not decide.
Call == calls < MaxCalls /\ calls' = calls + 1

IsConnected(c) == state[c] \in {"Joining", "Joined", "Moderator"}

-----------------------------------------------------------------------------
(* Join and Leave.                                                         *)

\* Leave sets the state, whether the loop thread has tested it or not, and
\* waits for the thread.
StartLeaving(c, request) ==
    /\ state' = [state EXCEPT ![c] = "Idle"]
    /\ api' = [api EXCEPT ![c] = [pc |-> "leaving", request |-> request]]
    /\ \/ thread' = thread
       \/ /\ thread[c] = "running" /\ IsConnected(c)
          /\ thread' = [thread EXCEPT ![c] = "tested"]

\* The request waits for Leave when a loop thread is there to be joined.
Join(c, request) ==
    /\ api[c] = Idle
    /\ Call
    /\ IF thread[c] = "none"
       THEN /\ state' = [state EXCEPT ![c] = "Joining"]
            /\ api' = [api EXCEPT ![c] = [pc |-> "connecting", request |-> request]]
            /\ thread' = thread
       ELSE StartLeaving(c, request)
    /\ UNCHANGED <<member_information, mac_address, nickname, current_game_info,
                   send_list, enet>>

Leave(c) ==
    /\ api[c] = Idle
    /\ thread[c] # "none"
    /\ Call
    /\ StartLeaving(c, None)
    /\ UNCHANGED <<member_information, mac_address, nickname, current_game_info,
                   send_list, enet>>

\* loop_thread->join() returns; Leave ends, and a Join that waited for it
\* goes on to SetState(Joining) and enet_host_connect.  send_list is kept.
ThreadJoined(c) ==
    /\ api[c].pc = "leaving"
    /\ thread[c] = "ended"
    /\ thread' = [thread EXCEPT ![c] = "none"]
    /\ IF api[c].request = None
       THEN api' = [api EXCEPT ![c] = Idle] /\ state' = state
       ELSE /\ api' = [api EXCEPT ![c].pc = "connecting"]
            /\ state' = [state EXCEPT ![c] = "Joining"]
    /\ UNCHANGED <<member_information, mac_address, nickname, current_game_info,
                   send_list, calls, enet>>

\* The CONNECT event: the nickname is stored and the loop thread started.
Connected(c) ==
    /\ api[c].pc = "connecting"
    /\ \E p \in Peers : Connect(c, p)
    /\ nickname' = [nickname EXCEPT ![c] = api[c].request.nickname]
    /\ thread' = [thread EXCEPT ![c] = "running"]
    /\ api' = [api EXCEPT ![c].pc = "requesting"]
    /\ UNCHANGED <<state, member_information, mac_address, current_game_info,
                   send_list, calls>>

\* No CONNECT within ConnectionTimeoutMs: no slot is free, or the network fails.
CouldNotConnect(c) ==
    /\ api[c].pc = "connecting"
    /\ \/ (\A p \in Peers : slot[p] # None) /\ calls' = calls
       \/ Call
    /\ state' = [state EXCEPT ![c] = "Idle"]
    /\ api' = [api EXCEPT ![c] = Idle]
    /\ UNCHANGED <<member_information, mac_address, nickname, current_game_info,
                   send_list, thread, enet>>

\* What SendGameInfo sends: nothing unless connected.
GamePacket(c, game) ==
    IF IsConnected(c) THEN <<[type |-> "SetGameInfo", game |-> game]>> ELSE <<>>

\* The end of Join, SendJoinRequest and then SendGameInfo, in one step: the
\* loop thread would have to be refused between the two calls to matter.
SendJoinRequest(c) ==
    /\ api[c].pc = "requesting"
    /\ send_list' = [send_list EXCEPT ![c] =
          @ \o (<<api[c].request>> \o GamePacket(c, current_game_info[c]))]
    /\ api' = [api EXCEPT ![c] = Idle]
    /\ UNCHANGED <<state, member_information, mac_address, nickname, current_game_info,
                   thread, calls, enet>>

\* The game changes.
SendGameInfo(c, game) ==
    /\ Call
    /\ current_game_info' = [current_game_info EXCEPT ![c] = game]
    /\ send_list' = [send_list EXCEPT ![c] = @ \o GamePacket(c, game)]
    /\ UNCHANGED <<state, member_information, mac_address, nickname, thread, api, enet>>

\* SendChatMessage and SendWifiPacket do not ask whether there is a
\* connection; SendModerationRequest and RequestBanList do.
SendCommand(c, packet) ==
    /\ Call
    /\ packet.type \in {"ChatMessage", "WifiPacket"} \/ IsConnected(c)
    /\ send_list' = [send_list EXCEPT ![c] = Append(@, packet)]
    /\ UNCHANGED <<state, member_information, mac_address, nickname, current_game_info,
                   thread, api, enet>>

-----------------------------------------------------------------------------
(* MemberLoop.  The test of IsConnected and the service that follows are   *)
(* one step, unless Leave sets the state between them: then the thread is  *)
(* found "tested", in an iteration that no longer looks at the state.      *)

Iterates(c) ==
    \/ thread[c] = "running" /\ IsConnected(c)
    \/ thread[c] = "tested"

\* The loop ends with Disconnect.
LoopExit(c) ==
    /\ thread[c] = "running"
    /\ ~IsConnected(c)
    /\ thread' = [thread EXCEPT ![c] = "ended"]
    /\ member_information' = [member_information EXCEPT ![c] = {}]
    /\ Drop(c)
    /\ UNCHANGED <<state, mac_address, nickname, current_game_info, send_list, api, calls>>

\* The end of an iteration: the send list goes to the server, if it is reached.
Flush(c) ==
    /\ thread' = [thread EXCEPT ![c] = "running"]
    /\ send_list' = [send_list EXCEPT ![c] = <<>>]
    /\ up' = IF link[c] \in Peers THEN [up EXCEPT ![link[c]] = @ \o send_list[c]] ELSE up

\* An iteration in which enet_host_service reports nothing.
NoEvent(c) ==
    /\ Iterates(c)
    /\ Flush(c)
    /\ UNCHANGED <<state, member_information, mac_address, nickname, current_game_info,
                   api, calls, slot, link, down>>

Successes == {"JoinSuccess", "JoinSuccessAsMod"}
Endings == {"RoomIsFull", "WrongPassword", "NameCollision", "MacCollision",
            "ConsoleIdCollision", "VersionMismatch", "HostBanned", "HostKicked", "CloseRoom"}

\* The state MemberLoop sets on receiving a packet of type t in state s.
NextState(t, s) ==
    CASE t = "JoinSuccess" -> "Joined"
      [] t = "JoinSuccessAsMod" -> "Moderator"
      [] t \in Endings -> "Idle"
      [] OTHER -> s

\* An iteration that receives the next packet.
Receive(c) ==
    /\ Iterates(c)
    /\ down[c] # <<>>
    /\ LET packet == Head(down[c])
       IN  /\ state' = [state EXCEPT ![c] = NextState(packet.type, @)]
           /\ member_information' = [member_information EXCEPT ![c] =
                 IF packet.type = "RoomInformation" THEN packet.list ELSE @]
           /\ mac_address' = [mac_address EXCEPT ![c] =
                 IF packet.type \in Successes THEN packet.mac ELSE @]
    /\ down' = [down EXCEPT ![c] = Tail(@)]
    /\ Flush(c)
    /\ UNCHANGED <<nickname, current_game_info, api, calls, slot, link>>

\* An iteration that gets the DISCONNECT event: nothing while Joining.
Disconnection(c) ==
    /\ Iterates(c)
    /\ link[c] = Lost
    /\ state' = [state EXCEPT ![c] = IF @ \in {"Joined", "Moderator"} THEN "Idle" ELSE @]
    /\ down' = [down EXCEPT ![c] = <<>>]
    /\ Flush(c)
    /\ UNCHANGED <<member_information, mac_address, nickname, current_game_info,
                   api, calls, slot, link>>

-----------------------------------------------------------------------------
\* The connection of c fails.
NetworkFault(c) ==
    /\ Call
    /\ Break(c)
    /\ UNCHANGED client

LoopThread(c) ==
    \/ LoopExit(c)
    \/ NoEvent(c)
    \/ Receive(c)
    \/ Disconnection(c)

ApiThread(c) ==
    \/ ThreadJoined(c)
    \/ Connected(c)
    \/ CouldNotConnect(c)
    \/ SendJoinRequest(c)

MemberStep(c) ==
    \/ LoopThread(c)
    \/ ApiThread(c)
    \/ \E request \in Requests[c] : Join(c, request)
    \/ Leave(c)
    \/ \E game \in Games : SendGameInfo(c, game)
    \/ \E packet \in Commands[c] : SendCommand(c, packet)
    \/ NetworkFault(c)

=============================================================================
