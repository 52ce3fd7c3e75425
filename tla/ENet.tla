-------------------------------- MODULE ENet --------------------------------
(***************************************************************************)
(* The ENet library as src/src/network uses it (external code): one server *)
(* host with a fixed number of peer slots, one client host per Clients     *)
(* member, and between them reliable, ordered channels.                    *)
(*                                                                         *)
(* A channel loses packets only together with its connection.  When one    *)
(* end gives up (enet_peer_disconnect, a timeout, a destroyed host), some  *)
(* prefix of what it had sent still arrives, and then the other end gets   *)
(* ENET_EVENT_TYPE_DISCONNECT: from the disconnect command, or from its    *)
(* own timeout when the command is lost.  So as soon as the connection is  *)
(* broken, an end may receive its next packet or that event, which drops   *)
(* the packets that are left.                                              *)
(***************************************************************************)
EXTENDS Integers, Sequences

CONSTANTS
    Clients,     \* the RoomMember objects of all consoles
    Peers,       \* the peer slots of the server's host, a set of numbers
    None,        \* no client, no peer
    Lost         \* a connection that no longer reaches the other end

ASSUME PeersAssumption ==
    /\ Peers \subseteq Nat
    /\ None \notin Clients \cup Peers
    /\ Lost \notin Clients \cup Peers
    /\ Lost # None

VARIABLES
    slot,        \* slot[p]: the client on peer p of the server, None when the
                 \* peer is free, Lost when the host is destroyed
    up,          \* up[p]: what the server has still to receive on peer p
    link,        \* link[c]: the peer on which c's own connection ends
    down         \* down[c]: what c has still to receive

enet == <<slot, up, link, down>>

EnetInit ==
    /\ slot = [p \in Peers |-> None]
    /\ up = [p \in Peers |-> <<>>]
    /\ link = [c \in Clients |-> None]
    /\ down = [c \in Clients |-> <<>>]

\* enet_peer_send by the server: the packets out[p] for every peer p.
Sent(out) ==
    [c \in Clients |->
        IF link[c] \in Peers THEN down[c] \o out[link[c]] ELSE down[c]]

\* The server's only client of a packet's answer.
Only(p, packets) == [q \in Peers |-> IF q = p THEN packets ELSE <<>>]

\* enet_host_service returning a packet of type t, received from peer p.
Received(p, t) ==
    /\ up[p] # <<>>
    /\ Head(up[p]).type = t
    /\ up' = [up EXCEPT ![p] = Tail(@)]

\* enet_host_connect and the CONNECT event of client c: the server's host
\* takes its first free peer.
Connect(c, p) ==
    /\ slot[p] = None
    /\ \A q \in Peers : q < p => slot[q] # None
    /\ slot' = [slot EXCEPT ![p] = c]
    /\ up' = [up EXCEPT ![p] = <<>>]
    /\ link' = [link EXCEPT ![c] = p]
    /\ down' = [down EXCEPT ![c] = <<>>]

\* The client on peer p does not use that peer any more.
Broken(p) == slot[p] \in Clients /\ link[slot[p]] # p

\* The DISCONNECT event of peer p at the server.
Disconnected(p) ==
    /\ Broken(p)
    /\ slot' = [slot EXCEPT ![p] = None]
    /\ up' = [up EXCEPT ![p] = <<>>]

\* enet_peer_disconnect by client c, which waits for nothing but the end.
Drop(c) ==
    /\ link' = [link EXCEPT ![c] = None]
    /\ down' = [down EXCEPT ![c] = <<>>]
    /\ UNCHANGED <<slot, up>>

\* The network between c and the server fails: each end times out by itself.
Break(c) ==
    /\ link[c] \in Peers
    /\ link' = [link EXCEPT ![c] = Lost]
    /\ UNCHANGED <<slot, up, down>>

=============================================================================
