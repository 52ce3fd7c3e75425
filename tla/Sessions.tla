------------------------------ MODULE Sessions ------------------------------
(***************************************************************************)
(* IPC between emulated processes: ports, sessions and their requests, as  *)
(* the system calls, the endpoints' destructors and the wake loop change   *)
(* them.  A port with an HLE handler is a service of the emulator; the     *)
(* sessions of the others wait to be accepted by a server thread.          *)
(*                                                                         *)
(* The data of a request (TranslateCommandBuffer) is left out: commands    *)
(* translate.  Waiting for a session with WaitSynchronization changes what *)
(* ReplyAndReceive changes.  Scheduling is module Scheduler's: a thread    *)
(* that is Ready or Running is "Run".                                      *)
(***************************************************************************)
EXTENDS Naturals, Sequences, FiniteSets

CONSTANTS
    Clients, Servers, \* threads that send requests; that accept and answer
    Ports,
    HlePorts,         \* the ports with an hle_handler
    Pairs,            \* the session pairs that may exist at a time
    max_sessions,     \* of every port
    None

ASSUME SessionConstants ==
    /\ HlePorts \subseteq Ports
    /\ max_sessions \in Nat
    /\ Ports \cap Pairs = {} /\ None \notin Clients \cup Servers \cup Ports \cup Pairs

Threads == Clients \cup Servers
Objects == (Ports \ HlePorts) \cup Pairs \* what a server thread waits for

VARIABLES
    status,          \* thread -> its ThreadStatus
    wait_objects,    \* thread -> objects it waits for in ReplyAndReceive
    wakeups,         \* threads with a wakeup event scheduled
    context,         \* thread -> the pair its HLERequestContext refers to, or None
    active_sessions, \* port -> number
    pending_sessions,           \* port -> pairs not yet accepted
    port,            \* pair -> its port, or None
    client, server,  \* pair -> the endpoint exists
    client_handle, server_handle, \* pair -> a handle to the endpoint is open
    hle_handler,     \* pair -> it is one of a handler's connected_sessions
    pending_requesting_threads, \* pair -> threads
    currently_handling,         \* pair -> thread or None
    waking           \* the object whose wake loop is running, or None

threadVars  == <<status, wait_objects, wakeups, context>>
portVars    == <<active_sessions, pending_sessions>>
endVars     == <<port, client, server, client_handle, server_handle, hle_handler>>
requestVars == <<pending_requesting_threads, currently_handling>>
vars        == <<threadVars, portVars, endVars, requestVars, waking>>

Init ==
    /\ status = [t \in Threads |-> "Run"]
    /\ wait_objects = [t \in Threads |-> {}]
    /\ wakeups = {}
    /\ context = [t \in Threads |-> None]
    /\ active_sessions = [p \in Ports |-> 0]
    /\ pending_sessions = [p \in Ports |-> << >>]
    /\ port = [s \in Pairs |-> None]
    /\ client = [s \in Pairs |-> FALSE] /\ server = [s \in Pairs |-> FALSE]
    /\ client_handle = [s \in Pairs |-> FALSE] /\ server_handle = [s \in Pairs |-> FALSE]
    /\ hle_handler = [s \in Pairs |-> FALSE]
    /\ pending_requesting_threads = [s \in Pairs |-> << >>]
    /\ currently_handling = [s \in Pairs |-> None]
    /\ waking = None

-----------------------------------------------------------------------------
Last(q)  == q[Len(q)]
Front(q) == SubSeq(q, 1, Len(q) - 1)
Holds(q, x) == \E i \in 1 .. Len(q) : q[i] = x

\* ShouldWait of a port and, with `handling` as currently_handling, of a session.
ShouldWait(o, handling) ==
    IF o \in Ports THEN pending_sessions[o] = << >>
    ELSE client[o] /\ (pending_requesting_threads[o] = << >> \/ handling[o] # None)

\* ServerSession::Acquire takes the latest request; ServerPort::Acquire nothing.
Acquire(o, handling) ==
    IF o \in Pairs /\ client[o]
    THEN /\ currently_handling' = [handling EXCEPT ![o] = Last(pending_requesting_threads[o])]
         /\ pending_requesting_threads' = [pending_requesting_threads EXCEPT ![o] = Front(@)]
    ELSE currently_handling' = handling /\ UNCHANGED pending_requesting_threads

\* Somebody has a reference to the server endpoint.
ServerReferenced(s) ==
    \/ server_handle[s] \/ hle_handler[s]
    \/ \E p \in Ports : Holds(pending_sessions[p], s)
    \/ \E t \in Threads : s \in wait_objects[t] \/ context[t] = s

\* No wake loop and no destructor is running.
Quiet ==
    /\ waking = None
    /\ \A s \in Pairs : (client[s] => client_handle[s]) /\ (server[s] => ServerReferenced(s))

\* A thread of the given kind makes a system call.
Calls(t) == Quiet /\ status[t] = "Run"

\* CreateSessionPair, on a pair none of whose endpoints exists.
CreateSessionPair(s, p) ==
    /\ ~client[s] /\ ~server[s] /\ ~ServerReferenced(s)
    /\ client' = [client EXCEPT ![s] = TRUE]
    /\ server' = [server EXCEPT ![s] = TRUE]
    /\ port' = [port EXCEPT ![s] = p]

-----------------------------------------------------------------------------
\* ClientPort::Connect; WakeNext and WakeEnds are its last call.
Connect(p, s) ==
    /\ active_sessions[p] < max_sessions
    /\ active_sessions' = [active_sessions EXCEPT ![p] = @ + 1]
    /\ CreateSessionPair(s, p)
    /\ \/ /\ p \in HlePorts
          /\ hle_handler' = [hle_handler EXCEPT ![s] = TRUE]
          /\ UNCHANGED pending_sessions
       \/ /\ p \notin HlePorts
          /\ pending_sessions' = [pending_sessions EXCEPT ![p] = Append(@, s)]
          /\ UNCHANGED hle_handler
    /\ waking' = p

\* ConnectToPort, and CreateSessionToPort likewise; without `handle` the
\* handle table is full, and the client endpoint ends with the call.
ConnectToPort(t, p, s, handle) ==
    /\ Calls(t)
    /\ Connect(p, s)
    /\ client_handle' = [client_handle EXCEPT ![s] = handle]
    /\ UNCHANGED <<threadVars, server_handle, requestVars>>

CreateSession(t, s, for_server, for_client) ==
    /\ Calls(t) /\ (for_client => for_server)
    /\ CreateSessionPair(s, None)
    /\ server_handle' = [server_handle EXCEPT ![s] = for_server]
    /\ client_handle' = [client_handle EXCEPT ![s] = for_client]
    /\ UNCHANGED <<threadVars, portVars, hle_handler, requestVars, waking>>

\* ServerPort::Accept takes the latest session that waits.
Accept(p, s) ==
    /\ pending_sessions[p] # << >> /\ s = Last(pending_sessions[p])
    /\ pending_sessions' = [pending_sessions EXCEPT ![p] = Front(@)]

AcceptSession(t, p, s, handle) ==
    /\ Calls(t) /\ Accept(p, s)
    /\ server_handle' = [server_handle EXCEPT ![s] = handle]
    /\ UNCHANGED <<threadVars, active_sessions, port, client, server, client_handle, hle_handler,
                   requestVars, waking>>

\* CloseHandle of the last handle to an endpoint.
CloseClient(t, s) ==
    /\ Calls(t) /\ client_handle[s]
    /\ client_handle' = [client_handle EXCEPT ![s] = FALSE]
    /\ UNCHANGED <<threadVars, portVars, port, client, server, server_handle, hle_handler,
                   requestVars, waking>>

CloseServer(t, s) ==
    /\ Calls(t) /\ server_handle[s]
    /\ server_handle' = [server_handle EXCEPT ![s] = FALSE]
    /\ UNCHANGED <<threadVars, portVars, port, client, server, client_handle, hle_handler,
                   requestVars, waking>>

\* Mutant: the end of the client endpoint is not announced.
ClientDestroyedSilently(s) ==
    /\ waking = None /\ client[s] /\ ~client_handle[s]
    /\ client' = [client EXCEPT ![s] = FALSE]
    /\ hle_handler' = [hle_handler EXCEPT ![s] = FALSE]
    /\ pending_requesting_threads' = [pending_requesting_threads EXCEPT ![s] = << >>]
    /\ currently_handling' = [currently_handling EXCEPT ![s] = None]
    /\ UNCHANGED <<threadVars, portVars, port, server, client_handle, server_handle, waking>>

\* ~ClientSession
ClientDestroyed(s) ==
    /\ waking = None /\ client[s] /\ ~client_handle[s]
    /\ client' = [client EXCEPT ![s] = FALSE]
    /\ hle_handler' = [hle_handler EXCEPT ![s] = FALSE]
    /\ pending_requesting_threads' = [pending_requesting_threads EXCEPT ![s] = << >>]
    /\ currently_handling' = [currently_handling EXCEPT ![s] = None]
    /\ waking' = IF server[s] THEN s ELSE None
    /\ UNCHANGED <<threadVars, portVars, port, server, client_handle, server_handle>>

\* Mutant: the port is not told.
ServerDestroyedSilently(s) ==
    /\ waking = None /\ server[s] /\ ~ServerReferenced(s)
    /\ server' = [server EXCEPT ![s] = FALSE]
    /\ pending_requesting_threads' = [pending_requesting_threads EXCEPT ![s] = << >>]
    /\ currently_handling' = [currently_handling EXCEPT ![s] = None]
    /\ UNCHANGED <<threadVars, portVars, port, client, client_handle, server_handle, hle_handler, waking>>

\* ClientPort::ConnectionClosed of the port of s, if it came through one.
ConnectionClosed(s) ==
    active_sessions' = [p \in Ports |-> active_sessions[p] - IF p = port[s] THEN 1 ELSE 0]

\* ~ServerSession, and its requests with it.
ServerDestroyed(s) ==
    /\ waking = None /\ server[s] /\ ~ServerReferenced(s)
    /\ server' = [server EXCEPT ![s] = FALSE]
    /\ ConnectionClosed(s)
    /\ pending_requesting_threads' = [pending_requesting_threads EXCEPT ![s] = << >>]
    /\ currently_handling' = [currently_handling EXCEPT ![s] = None]
    /\ UNCHANGED <<threadVars, pending_sessions, port, client, client_handle, server_handle,
                   hle_handler, waking>>

-----------------------------------------------------------------------------
\* HandleSyncRequest.  An HLE handler answers at once, and the thread sleeps
\* for the delay of the IPC, or it puts the thread to sleep.
HandleSyncRequest(t, s) ==
    /\ \/ /\ hle_handler[s]
          /\ status' = [status EXCEPT ![t] = "WaitIPC"]
          /\ wakeups' = wakeups \cup {t}
          /\ UNCHANGED <<context, pending_requesting_threads>>
       \/ /\ hle_handler[s]
          /\ status' = [status EXCEPT ![t] = "WaitHleEvent"]
          /\ context' = [context EXCEPT ![t] = s]
          /\ UNCHANGED <<wakeups, pending_requesting_threads>>
       \/ /\ ~hle_handler[s]
          /\ status' = [status EXCEPT ![t] = "WaitIPC"]
          /\ pending_requesting_threads' = [pending_requesting_threads EXCEPT ![s] = Append(@, t)]
          /\ UNCHANGED <<wakeups, context>>
    /\ waking' = s

SendSyncRequest(t, s) ==
    /\ Calls(t) /\ client_handle[s] /\ server[s]
    /\ HandleSyncRequest(t, s)
    /\ UNCHANGED <<wait_objects, portVars, endVars, currently_handling>>

\* The delay of an HLE request is over.
ThreadWakeupCallback(t) ==
    /\ Quiet /\ t \in wakeups
    /\ wakeups' = wakeups \ {t}
    /\ status' = [status EXCEPT ![t] = "Run"]
    /\ UNCHANGED <<wait_objects, context, portVars, endVars, requestVars, waking>>

\* The HLE handler signals the event the thread sleeps on, or its timeout
\* ends: the wakeup callback goes, and the request's context with it.
HleEvent(t) ==
    /\ Quiet /\ status[t] = "WaitHleEvent"
    /\ status' = [status EXCEPT ![t] = "Run"]
    /\ context' = [context EXCEPT ![t] = None]
    /\ UNCHANGED <<wait_objects, wakeups, portVars, endVars, requestVars, waking>>

\* ReplyAndReceive with a reply that has no request to go to.
ReplyFails(t, target) ==
    /\ Calls(t) /\ server_handle[target]
    /\ currently_handling[target] = None \/ ~client[target]
    /\ currently_handling' = [currently_handling EXCEPT ![target] = None]
    /\ UNCHANGED <<threadVars, portVars, endVars, pending_requesting_threads, waking>>

\* Mutant: the request that is answered stays the current one.
AfterReplyKept(target) == currently_handling

\* currently_handling once the request of `target`, if there is one, is answered.
AfterReply(target) ==
    IF target = None THEN currently_handling ELSE [currently_handling EXCEPT ![target] = None]

\* ... and with one, or none at all.  A requester that died is not resumed.
ReplyAndReceive(t, target, objects) ==
    LET requester == IF target = None THEN None ELSE currently_handling[target]
        handling  == AfterReply(target)
        resumed   == IF requester # None /\ status[requester] # "Dead"
                     THEN [status EXCEPT ![requester] = "Run"] ELSE status
        ready     == {o \in objects : ~ShouldWait(o, handling)}
    IN  /\ Calls(t)
        /\ target # None => server_handle[target] /\ requester # None /\ client[target]
        /\ \A s \in objects \cap Pairs : server_handle[s]
        /\ \/ /\ ready = {} /\ objects # {}
              /\ currently_handling' = handling
              /\ status' = [resumed EXCEPT ![t] = "WaitSynchAny"]
              /\ wait_objects' = [wait_objects EXCEPT ![t] = objects]
              /\ UNCHANGED pending_requesting_threads
           \/ /\ objects = {}
              /\ currently_handling' = handling
              /\ status' = resumed
              /\ UNCHANGED <<wait_objects, pending_requesting_threads>>
           \/ /\ \E o \in ready : Acquire(o, handling)
              /\ status' = resumed
              /\ UNCHANGED wait_objects
        /\ UNCHANGED <<wakeups, context, portVars, endVars, waking>>

\* A round of WakeupAllWaitingThreads, and its end.
WakeNext(t) ==
    /\ waking # None /\ waking \in wait_objects[t] /\ ~ShouldWait(waking, currently_handling)
    /\ Acquire(waking, currently_handling)
    /\ status' = [status EXCEPT ![t] = "Run"]
    /\ wait_objects' = [wait_objects EXCEPT ![t] = {}]
    /\ UNCHANGED <<wakeups, context, portVars, endVars, waking>>

WakeEnds ==
    /\ waking # None
    /\ \A t \in Threads : waking \in wait_objects[t] => ShouldWait(waking, currently_handling)
    /\ waking' = None
    /\ UNCHANGED <<threadVars, portVars, endVars, requestVars>>

\* Thread::Stop: the wakeup callback stays with the thread until its last
\* reference goes, and its request stays with the session.
Stop(t) ==
    /\ Quiet /\ status[t] # "Dead"
    /\ status' = [status EXCEPT ![t] = "Dead"]
    /\ wait_objects' = [wait_objects EXCEPT ![t] = {}]
    /\ wakeups' = wakeups \ {t}
    /\ UNCHANGED <<context, portVars, endVars, requestVars, waking>>

ThreadDestroyed(t) ==
    /\ Quiet /\ status[t] = "Dead" /\ context[t] # None
    /\ context' = [context EXCEPT ![t] = None]
    /\ UNCHANGED <<status, wait_objects, wakeups, portVars, endVars, requestVars, waking>>

-----------------------------------------------------------------------------
Next ==
    \/ \E t \in Clients, p \in Ports, s \in Pairs, handle \in BOOLEAN : ConnectToPort(t, p, s, handle)
    \/ \E t \in Servers, s \in Pairs, for_server, for_client \in BOOLEAN :
         CreateSession(t, s, for_server, for_client)
    \/ \E t \in Servers, p \in Ports \ HlePorts, s \in Pairs, handle \in BOOLEAN :
         AcceptSession(t, p, s, handle)
    \/ \E t \in Clients, s \in Pairs : CloseClient(t, s) \/ SendSyncRequest(t, s)
    \/ \E t \in Servers, s \in Pairs : CloseServer(t, s) \/ ReplyFails(t, s)
    \/ \E t \in Servers, target \in Pairs \cup {None}, objects \in SUBSET Objects :
         ReplyAndReceive(t, target, objects)
    \/ \E s \in Pairs : ClientDestroyed(s) \/ ServerDestroyed(s)
    \/ \E t \in Threads : ThreadWakeupCallback(t) \/ HleEvent(t) \/ WakeNext(t)
    \/ WakeEnds
    \/ \E t \in Clients : Stop(t) \/ ThreadDestroyed(t)

Spec == Init /\ [][Next]_vars

-----------------------------------------------------------------------------
\* A slot of a port is taken exactly as long as somebody can still use or end
\* the session: its server endpoint is open, waits to be accepted, is waited
\* for, or is a service whose client is open or has a request asleep.  This is
\* so through handles that could not be created, clients that leave early and
\* threads that die; otherwise a port would run out of its max_sessions.
SlotsReturned ==
    Quiet => \A p \in Ports :
      active_sessions[p] =
        Cardinality({s \in Pairs :
          /\ port[s] = p
          /\ \/ server_handle[s] \/ Holds(pending_sessions[p], s)
             \/ p \in HlePorts /\ client_handle[s]
             \/ \E t \in Threads : s \in wait_objects[t] \/ context[t] = s})

\* A request is in one place, its thread sleeps until it is answered (or has
\* died), and a session whose client is gone has none.  A second place would
\* answer the thread twice, the second time in the middle of another wait.
RequestsExact ==
    /\ \A t \in Threads :
         /\ \A s, u \in Pairs : currently_handling[s] = t /\ currently_handling[u] = t => s = u
         /\ \A s, u \in Pairs : \A i \in 1 .. Len(pending_requesting_threads[s]) :
              pending_requesting_threads[s][i] = t =>
                /\ currently_handling[u] # t
                /\ \A j \in 1 .. Len(pending_requesting_threads[u]) :
                     pending_requesting_threads[u][j] = t => <<s, i>> = <<u, j>>
         /\ (\E s \in Pairs : currently_handling[s] = t \/ Holds(pending_requesting_threads[s], t))
              => status[t] \in {"WaitIPC", "Dead"} /\ t \notin wakeups
    /\ \A s \in Pairs : ~client[s] => pending_requesting_threads[s] = << >>
                                      /\ currently_handling[s] = None

\* No server thread sleeps on an object that is ready: it was told of every
\* connection, request and end of a client.  ReplyAndReceive makes a session
\* with further requests ready and tells nobody, so this is so only as long as
\* one thread serves it.
NoLostRequest ==
    Quiet => \A t \in Threads : \A o \in wait_objects[t] : ShouldWait(o, currently_handling)

=============================================================================
