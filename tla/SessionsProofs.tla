--------------------------- MODULE SessionsProofs ---------------------------
(***************************************************************************)
(* What module Sessions promises holds for every number of threads, ports, *)
(* session pairs and slots: requests are in one place, the slots of a port *)
(* are returned and, with one server thread, none sleeps on what is ready. *)
(***************************************************************************)
EXTENDS Sessions, Integers, SequenceTheorems, FiniteSetTheorems, TLAPS

Statuses == {"Run", "WaitIPC", "WaitHleEvent", "WaitSynchAny", "Dead"}

TypesOK ==
    /\ status \in [Threads -> Statuses]
    /\ wait_objects \in [Threads -> SUBSET Objects]
    /\ wakeups \subseteq Threads
    /\ context \in [Threads -> Pairs \cup {None}]
    /\ active_sessions \in [Ports -> Int]
    /\ pending_sessions \in [Ports -> Seq(Pairs)]
    /\ port \in [Pairs -> Ports \cup {None}]
    /\ client \in [Pairs -> BOOLEAN] /\ server \in [Pairs -> BOOLEAN]
    /\ client_handle \in [Pairs -> BOOLEAN] /\ server_handle \in [Pairs -> BOOLEAN]
    /\ hle_handler \in [Pairs -> BOOLEAN]
    /\ pending_requesting_threads \in [Pairs -> Seq(Threads)]
    /\ currently_handling \in [Pairs -> Threads \cup {None}]
    /\ waking \in Ports \cup Pairs \cup {None}

\* A reference to an endpoint is to one that exists, and a session is a
\* service's as long as its client lives.
EndsOK ==
    \A s \in Pairs :
      /\ client_handle[s] => client[s]
      /\ server_handle[s] \/ hle_handler[s] => server[s]
      /\ hle_handler[s] <=> client[s] /\ port[s] \in HlePorts
      /\ \A p \in Ports : Holds(pending_sessions[p], s) => server[s] /\ port[s] = p
      /\ \A t \in Threads : s \in wait_objects[t] \/ context[t] = s => server[s]

\* Only server threads wait for objects, and a scheduled wakeup is of a thread
\* whose HLE request is answered.
SleepersOK ==
    \A t \in Threads :
      /\ wait_objects[t] # {} => status[t] = "WaitSynchAny" /\ t \in Servers
      /\ t \in wakeups => status[t] = "WaitIPC"

Inv == TypesOK /\ EndsOK /\ SleepersOK /\ RequestsExact

\* Whoever waits, waits for what is not available, except for the object whose
\* wake loop is still running.
WaitersOK ==
    \A t \in Threads : \A o \in wait_objects[t] :
      o # waking => ShouldWait(o, currently_handling)

\* The sessions of a port whose server endpoint exists.
Taken(p) == {s \in Pairs : server[s] /\ port[s] = p}

\* Whatever a port counts are its sessions.
CountOK == \A p \in Ports : active_sessions[p] = Cardinality(Taken(p))

-----------------------------------------------------------------------------
\* The first part of RequestsExact, of any queues and current requests: no
\* request is in two places.
Exact(queues, current) ==
    \A t \in Threads :
      /\ \A s, u \in Pairs : current[s] = t /\ current[u] = t => s = u
      /\ \A s, u \in Pairs : \A i \in 1 .. Len(queues[s]) :
           queues[s][i] = t =>
             /\ current[u] # t
             /\ \A j \in 1 .. Len(queues[u]) : queues[u][j] = t => <<s, i>> = <<u, j>>

\* The threads that wait for an answer.
Requesters(queues, current) ==
    {t \in Threads : \E s \in Pairs : current[s] = t \/ Holds(queues[s], t)}

Queues == [Pairs -> Seq(Threads)]
Currents == [Pairs -> Threads \cup {None}]

\* An answer takes its request out of its only place.
LEMMA AnswerKeepsExact ==
    ASSUME NEW queues \in Queues, NEW current \in Currents, Exact(queues, current),
           NEW s \in Pairs, NEW after, after = [current EXCEPT ![s] = None]
    PROVE  /\ after \in Currents /\ Exact(queues, after)
           /\ Requesters(queues, after) \subseteq Requesters(queues, current)
           /\ current[s] \notin Requesters(queues, after)
  <1>1. None \notin Threads
    BY SessionConstants DEF Threads
  <1>2. after \in Currents
    BY DEF Currents
  <1>3. after[s] = None /\ \A u \in Pairs : u # s => after[u] = current[u]
    BY DEF Currents
  <1>4. Exact(queues, after)
    BY <1>1, <1>3 DEF Exact
  <1>5. Requesters(queues, after) \subseteq Requesters(queues, current)
    BY <1>1, <1>3 DEF Requesters
  <1>6. current[s] \notin Requesters(queues, after)
    BY <1>1, <1>3 DEF Exact, Requesters, Holds
  <1> QED
    BY <1>2, <1>4, <1>5, <1>6

\* An endpoint that ends takes its requests with it.
LEMMA EndKeepsExact ==
    ASSUME NEW queues \in Queues, NEW current \in Currents, Exact(queues, current),
           NEW s \in Pairs
    PROVE  LET left  == [queues EXCEPT ![s] = << >>]
               after == [current EXCEPT ![s] = None]
           IN  /\ left \in Queues /\ after \in Currents /\ Exact(left, after)
               /\ Requesters(left, after) \subseteq Requesters(queues, current)
  <1> DEFINE left  == [queues EXCEPT ![s] = << >>]
             after == [current EXCEPT ![s] = None]
  <1>1. None \notin Threads
    BY SessionConstants DEF Threads
  <1>2. left \in Queues /\ after \in Currents
    BY DEF Queues, Currents
  <1>3. /\ after[s] = None /\ \A u \in Pairs : u # s => after[u] = current[u]
        /\ left[s] = << >> /\ \A u \in Pairs : u # s => left[u] = queues[u]
    BY DEF Queues, Currents
  <1> HIDE DEF left, after
  <1>4. \A u \in Pairs : \A i \in 1 .. Len(left[u]) : u # s /\ left[u] = queues[u]
    BY <1>3
  <1>5. Exact(left, after)
    BY <1>1, <1>3, <1>4 DEF Exact
  <1>6. Requesters(left, after) \subseteq Requesters(queues, current)
    BY <1>1, <1>3, <1>4 DEF Requesters, Holds
  <1> QED
    BY <1>2, <1>5, <1>6 DEF left, after

\* A thread has one request in all the queues.
LEMMA OneRequest ==
    ASSUME NEW queues, NEW current, Exact(queues, current), NEW t \in Threads,
           NEW s \in Pairs, NEW i \in 1 .. Len(queues[s]), queues[s][i] = t,
           NEW u \in Pairs, NEW j \in 1 .. Len(queues[u]), queues[u][j] = t
    PROVE  <<s, i>> = <<u, j>>
  BY DEF Exact

\* Acquire moves a request from the end of the queue.
LEMMA AcquireKeepsExact ==
    ASSUME NEW queues \in Queues, NEW current \in Currents, Exact(queues, current),
           NEW s \in Pairs, queues[s] # << >>, current[s] = None
    PROVE  LET left  == [queues EXCEPT ![s] = Front(@)]
               after == [current EXCEPT ![s] = Last(queues[s])]
           IN  /\ left \in Queues /\ after \in Currents /\ Exact(left, after)
               /\ Requesters(left, after) \subseteq Requesters(queues, current)
  <1> DEFINE left  == [queues EXCEPT ![s] = Front(@)]
             after == [current EXCEPT ![s] = Last(queues[s])]
  <1>1. None \notin Threads
    BY SessionConstants DEF Threads
  <1>2. /\ queues[s] \in Seq(Threads) /\ Len(queues[s]) \in Nat \ {0}
        /\ \A i \in 1 .. Len(queues[s]) : queues[s][i] \in Threads
    BY DEF Queues
  <1>3. /\ Front(queues[s]) \in Seq(Threads)
        /\ Len(Front(queues[s])) = Len(queues[s]) - 1
        /\ \A i \in 1 .. Len(queues[s]) - 1 : Front(queues[s])[i] = queues[s][i]
    BY <1>2 DEF Front
  <1>4. Last(queues[s]) \in Threads /\ Last(queues[s]) = queues[s][Len(queues[s])]
    BY <1>2 DEF Last
  <1>5. left \in Queues /\ after \in Currents
    BY <1>3, <1>4 DEF Queues, Currents
  <1>6. /\ after[s] = queues[s][Len(queues[s])] /\ \A u \in Pairs : u # s => after[u] = current[u]
        /\ \A u \in Pairs : u # s => left[u] = queues[u]
        /\ Len(left[s]) = Len(queues[s]) - 1
        /\ \A i \in 1 .. Len(left[s]) : left[s][i] = queues[s][i]
    BY <1>3, <1>4 DEF Queues, Currents
  <1> HIDE DEF left, after
  <1>7. \A u \in Pairs : \A i \in 1 .. Len(left[u]) :
          /\ i \in 1 .. Len(queues[u]) /\ left[u][i] = queues[u][i]
          /\ u = s => i # Len(queues[s])
    BY <1>2, <1>6
  <1>8. Len(queues[s]) \in 1 .. Len(queues[s])
    BY <1>2
  <1>9. Exact(left, after)
    <2> SUFFICES ASSUME NEW t \in Threads
                 PROVE  /\ \A x, u \in Pairs : after[x] = t /\ after[u] = t => x = u
                        /\ \A x, u \in Pairs : \A i \in 1 .. Len(left[x]) :
                             left[x][i] = t =>
                               /\ after[u] # t
                               /\ \A j \in 1 .. Len(left[u]) : left[u][j] = t => <<x, i>> = <<u, j>>
      BY DEF Exact
    <2>1. \A x, u \in Pairs : after[x] = t /\ after[u] = t => x = u
      BY <1>6, <1>8 DEF Exact
    <2>2. ASSUME NEW x \in Pairs, NEW u \in Pairs, NEW i \in 1 .. Len(left[x]), left[x][i] = t
          PROVE  after[u] # t
      BY <1>6, <1>7, <1>8, <2>2 DEF Exact
    <2>3. ASSUME NEW x \in Pairs, NEW u \in Pairs, NEW i \in 1 .. Len(left[x]), left[x][i] = t,
                 NEW j \in 1 .. Len(left[u]), left[u][j] = t
          PROVE  <<x, i>> = <<u, j>>
      <3>1. i \in 1 .. Len(queues[x]) /\ queues[x][i] = t
        BY <1>7, <2>3
      <3>2. j \in 1 .. Len(queues[u]) /\ queues[u][j] = t
        BY <1>7, <2>3
      <3> QED
        BY <3>1, <3>2, OneRequest
    <2> QED
      BY <2>1, <2>2, <2>3
  <1>10. Requesters(left, after) \subseteq Requesters(queues, current)
    BY <1>6, <1>7, <1>8 DEF Requesters, Holds
  <1> QED
    BY <1>5, <1>9, <1>10 DEF left, after

\* A thread that waits for no answer makes a request.
LEMMA RequestKeepsExact ==
    ASSUME NEW queues \in Queues, NEW current \in Currents, Exact(queues, current),
           NEW s \in Pairs, NEW t \in Threads, t \notin Requesters(queues, current)
    PROVE  LET more == [queues EXCEPT ![s] = Append(@, t)]
           IN  /\ more \in Queues /\ Exact(more, current)
               /\ Requesters(more, current) \subseteq Requesters(queues, current) \cup {t}
  <1> DEFINE more == [queues EXCEPT ![s] = Append(@, t)]
  <1>1. queues[s] \in Seq(Threads) /\ Len(queues[s]) \in Nat
    BY DEF Queues
  <1>2. more \in Queues
    BY <1>1 DEF Queues
  <1>3. /\ \A u \in Pairs : u # s => more[u] = queues[u]
        /\ Len(more[s]) = Len(queues[s]) + 1 /\ more[s][Len(queues[s]) + 1] = t
        /\ \A i \in 1 .. Len(queues[s]) : more[s][i] = queues[s][i]
    BY <1>1, AppendProperties DEF Queues
  <1> HIDE DEF more
  <1>4. \A u \in Pairs : \A i \in 1 .. Len(more[u]) :
          \/ i \in 1 .. Len(queues[u]) /\ more[u][i] = queues[u][i]
          \/ u = s /\ i = Len(queues[s]) + 1 /\ more[u][i] = t
    BY <1>1, <1>3
  <1>5. \A u \in Pairs : current[u] # t /\ \A i \in 1 .. Len(queues[u]) : queues[u][i] # t
    BY DEF Requesters, Holds
  <1>6. Exact(more, current)
    <2>1. ASSUME NEW r \in Threads, NEW x \in Pairs, NEW u \in Pairs, NEW i \in 1 .. Len(more[x]),
                 more[x][i] = r
          PROVE  current[u] # r
      BY <1>4, <1>5, <2>1 DEF Exact
    <2>2. ASSUME NEW r \in Threads, NEW x \in Pairs, NEW u \in Pairs, NEW i \in 1 .. Len(more[x]),
                 NEW j \in 1 .. Len(more[u]), more[x][i] = r, more[u][j] = r
          PROVE  <<x, i>> = <<u, j>>
      <3>1. CASE r = t
        BY <1>4, <1>5, <2>2, <3>1
      <3>2. CASE r # t
        <4>1. i \in 1 .. Len(queues[x]) /\ queues[x][i] = r
          BY <1>4, <2>2, <3>2
        <4>2. j \in 1 .. Len(queues[u]) /\ queues[u][j] = r
          BY <1>4, <2>2, <3>2
        <4> QED
          BY <4>1, <4>2, OneRequest
      <3> QED
        BY <3>1, <3>2
    <2> QED
      BY <2>1, <2>2 DEF Exact
  <1>7. Requesters(more, current) \subseteq Requesters(queues, current) \cup {t}
    BY <1>4 DEF Requesters, Holds
  <1> QED
    BY <1>2, <1>6, <1>7 DEF more

-----------------------------------------------------------------------------
\* RequestsExact in the terms of the lemmas above.
LEMMA RequestsExactParts ==
    RequestsExact <=>
      /\ Exact(pending_requesting_threads, currently_handling)
      /\ \A t \in Requesters(pending_requesting_threads, currently_handling) :
           status[t] \in {"WaitIPC", "Dead"} /\ t \notin wakeups
      /\ \A s \in Pairs : ~client[s] => pending_requesting_threads[s] = << >>
                                        /\ currently_handling[s] = None
  BY DEF RequestsExact, Exact, Requesters

\* The same in the next state.
LEMMA RequestsExactParts2 ==
    RequestsExact' <=>
      /\ Exact(pending_requesting_threads', currently_handling')
      /\ \A t \in Requesters(pending_requesting_threads', currently_handling') :
           status'[t] \in {"WaitIPC", "Dead"} /\ t \notin wakeups'
      /\ \A s \in Pairs : ~client'[s] => pending_requesting_threads'[s] = << >>
                                         /\ currently_handling'[s] = None
  BY DEF RequestsExact, Exact, Requesters, Holds

\* A thread that runs, or waits for something else, has no request.
LEMMA RunningHasNoRequest ==
    ASSUME Inv, NEW t \in Threads, status[t] \notin {"WaitIPC", "Dead"} \/ t \in wakeups
    PROVE  t \notin Requesters(pending_requesting_threads, currently_handling)
  BY RequestsExactParts DEF Inv

\* What the types say of the request variables.
LEMMA RequestTypes ==
    TypesOK => pending_requesting_threads \in Queues /\ currently_handling \in Currents
  BY DEF TypesOK, Queues, Currents

\* The calls and destructors that change endpoints, ports and handles, and
\* no request except those of an endpoint that ends.
LEMMA EndpointStepKeepsRequests ==
    ASSUME Inv, UNCHANGED <<status, wakeups>>,
           \/ /\ UNCHANGED requestVars
              /\ \A s \in Pairs : client[s] => client'[s]
           \/ \E s \in Pairs :
                /\ pending_requesting_threads' = [pending_requesting_threads EXCEPT ![s] = << >>]
                /\ currently_handling' = [currently_handling EXCEPT ![s] = None]
                /\ \A u \in Pairs : u # s /\ client[u] => client'[u]
    PROVE  RequestsExact'
  <1>0. TypesOK /\ RequestsExact
    BY DEF Inv
  <1>1. CASE UNCHANGED requestVars /\ \A s \in Pairs : client[s] => client'[s]
    BY <1>0, <1>1, RequestsExactParts, RequestsExactParts2 DEF requestVars
  <1>2. ASSUME NEW s \in Pairs,
               pending_requesting_threads' = [pending_requesting_threads EXCEPT ![s] = << >>],
               currently_handling' = [currently_handling EXCEPT ![s] = None],
               \A u \in Pairs : u # s /\ client[u] => client'[u]
        PROVE  RequestsExact'
    <2>1. /\ Exact(pending_requesting_threads', currently_handling')
          /\ Requesters(pending_requesting_threads', currently_handling')
               \subseteq Requesters(pending_requesting_threads, currently_handling)
      BY <1>0, <1>2, RequestTypes, RequestsExactParts, EndKeepsExact
    <2>2. ASSUME NEW u \in Pairs, ~client'[u]
          PROVE  pending_requesting_threads'[u] = << >> /\ currently_handling'[u] = None
      <3>1. CASE u = s
        BY <1>0, <1>2, <3>1 DEF TypesOK
      <3>2. CASE u # s
        BY <1>0, <1>2, <2>2, <3>2, RequestsExactParts DEF TypesOK
      <3> QED
        BY <3>1, <3>2
    <2> QED
      BY <1>0, <2>1, <2>2, RequestsExactParts, RequestsExactParts2
  <1> QED
    BY <1>1, <1>2

\* A step of a thread whose request, if it had one, is answered.
LEMMA WakeupKeepsRequests ==
    ASSUME Inv, UNCHANGED <<requestVars, client>>, NEW t \in Threads, wakeups' \subseteq wakeups,
           \A u \in Threads : u # t => status'[u] = status[u],
           \/ status'[t] = "Dead"
           \/ t \notin Requesters(pending_requesting_threads, currently_handling)
    PROVE  RequestsExact'
  BY RequestsExactParts, RequestsExactParts2 DEF Inv, requestVars, Requesters

-----------------------------------------------------------------------------
\* What the constants say of the sets of objects.
LEMMA Kinds ==
    /\ None \notin Threads /\ None \notin Ports /\ None \notin Pairs /\ HlePorts \subseteq Ports
    /\ \A p \in Ports : p \notin Pairs
    /\ \A o \in Objects : o \in Pairs \/ (o \in Ports /\ o \notin HlePorts)
    /\ Clients \subseteq Threads /\ Servers \subseteq Threads
  BY SessionConstants DEF Threads, Objects

\* Steps that change no thread keep what is true of sleepers.
LEMMA SameSleepers ==
    ASSUME SleepersOK, UNCHANGED <<status, wait_objects, wakeups>>
    PROVE  SleepersOK'
  BY DEF SleepersOK

\* A new pair of endpoints.
LEMMA CreatePairKeepsTypes ==
    ASSUME Inv, NEW s \in Pairs, NEW p \in Ports \cup {None}, CreateSessionPair(s, p)
    PROVE  /\ client' \in [Pairs -> BOOLEAN] /\ server' \in [Pairs -> BOOLEAN]
           /\ port' \in [Pairs -> Ports \cup {None}]
           /\ client'[s] /\ server'[s] /\ port'[s] = p
           /\ \A u \in Pairs : u # s =>
                client'[u] = client[u] /\ server'[u] = server[u] /\ port'[u] = port[u]
           /\ ~client[s] /\ ~server[s] /\ ~server_handle[s] /\ ~hle_handler[s]
           /\ \A q \in Ports : ~Holds(pending_sessions[q], s)
           /\ \A t \in Threads : s \notin wait_objects[t] /\ context[t] # s
  BY DEF Inv, TypesOK, CreateSessionPair, ServerReferenced

\* ConnectToPort and CreateSessionToPort.
LEMMA ConnectKeepsInv ==
    ASSUME Inv, NEW t \in Clients, NEW p \in Ports, NEW s \in Pairs, NEW handle \in BOOLEAN,
           ConnectToPort(t, p, s, handle)
    PROVE  Inv'
  <1>0. TypesOK /\ EndsOK /\ SleepersOK /\ RequestsExact
    BY DEF Inv
  <1>1. /\ CreateSessionPair(s, p)
        /\ active_sessions' = [active_sessions EXCEPT ![p] = @ + 1]
        /\ client_handle' = [client_handle EXCEPT ![s] = handle]
        /\ waking' = p
        /\ UNCHANGED <<status, wait_objects, wakeups, context, server_handle,
                       pending_requesting_threads, currently_handling>>
    BY DEF ConnectToPort, Connect, threadVars, requestVars
  <1>2. \/ /\ p \in HlePorts
           /\ hle_handler' = [hle_handler EXCEPT ![s] = TRUE]
           /\ UNCHANGED pending_sessions
        \/ /\ p \notin HlePorts
           /\ pending_sessions' = [pending_sessions EXCEPT ![p] = Append(@, s)]
           /\ UNCHANGED hle_handler
    BY DEF ConnectToPort, Connect
  <1>3. /\ client' \in [Pairs -> BOOLEAN] /\ server' \in [Pairs -> BOOLEAN]
        /\ port' \in [Pairs -> Ports \cup {None}]
        /\ client'[s] /\ server'[s] /\ port'[s] = p
        /\ \A u \in Pairs : u # s =>
             client'[u] = client[u] /\ server'[u] = server[u] /\ port'[u] = port[u]
        /\ ~client[s] /\ ~server[s] /\ ~server_handle[s] /\ ~hle_handler[s]
        /\ \A q \in Ports : ~Holds(pending_sessions[q], s)
        /\ \A u \in Threads : s \notin wait_objects[u] /\ context[u] # s
    BY <1>1, CreatePairKeepsTypes
  <1>4. /\ pending_sessions' \in [Ports -> Seq(Pairs)]
        /\ \A q \in Ports, u \in Pairs : Holds(pending_sessions'[q], u) =>
             Holds(pending_sessions[q], u) \/ (u = s /\ q = p)
    <2>1. CASE UNCHANGED pending_sessions
      BY <1>0, <2>1 DEF TypesOK, Holds
    <2>2. CASE pending_sessions' = [pending_sessions EXCEPT ![p] = Append(@, s)]
      <3>1. pending_sessions[p] \in Seq(Pairs)
        BY <1>0 DEF TypesOK
      <3>2. pending_sessions' \in [Ports -> Seq(Pairs)]
        BY <1>0, <2>2, <3>1, AppendProperties DEF TypesOK
      <3>3. /\ pending_sessions'[p] = Append(pending_sessions[p], s)
            /\ \A q \in Ports : q # p => pending_sessions'[q] = pending_sessions[q]
        BY <1>0, <2>2 DEF TypesOK
      <3>4. \A u : Holds(Append(pending_sessions[p], s), u) => Holds(pending_sessions[p], u) \/ u = s
        BY <3>1, AppendProperties DEF Holds
      <3> QED
        BY <3>2, <3>3, <3>4 DEF Holds
    <2> QED
      BY <1>2, <2>1, <2>2
  <1>5. /\ hle_handler' \in [Pairs -> BOOLEAN]
        /\ hle_handler'[s] <=> p \in HlePorts
        /\ \A u \in Pairs : u # s => hle_handler'[u] = hle_handler[u]
    BY <1>0, <1>2, <1>3 DEF TypesOK
  <1>6. /\ client_handle' \in [Pairs -> BOOLEAN]
        /\ \A u \in Pairs : u # s => client_handle'[u] = client_handle[u]
        /\ active_sessions' \in [Ports -> Int]
    BY <1>0, <1>1 DEF TypesOK
  <1>7. TypesOK'
    BY <1>0, <1>1, <1>3, <1>4, <1>5, <1>6 DEF TypesOK
  <1>8. EndsOK'
    <2> SUFFICES ASSUME NEW u \in Pairs
                 PROVE  /\ client_handle'[u] => client'[u]
                        /\ server_handle'[u] \/ hle_handler'[u] => server'[u]
                        /\ hle_handler'[u] <=> client'[u] /\ port'[u] \in HlePorts
                        /\ \A q \in Ports : Holds(pending_sessions'[q], u) => server'[u] /\ port'[u] = q
                        /\ \A r \in Threads : u \in wait_objects'[r] \/ context'[r] = u => server'[u]
      BY DEF EndsOK, Holds
    <2>1. CASE u = s
      BY <1>3, <1>4, <1>5, <2>1
    <2>2. CASE u # s
      <3>1. /\ client_handle'[u] => client'[u]
            /\ server_handle'[u] \/ hle_handler'[u] => server'[u]
            /\ hle_handler'[u] <=> client'[u] /\ port'[u] \in HlePorts
        BY <1>0, <1>1, <1>3, <1>5, <1>6, <2>2 DEF EndsOK
      <3>2. \A q \in Ports : Holds(pending_sessions'[q], u) => server'[u] /\ port'[u] = q
        BY <1>0, <1>3, <1>4, <2>2 DEF EndsOK
      <3>3. \A r \in Threads : u \in wait_objects'[r] \/ context'[r] = u => server'[u]
        BY <1>0, <1>1, <1>3, <2>2 DEF EndsOK
      <3> QED
        BY <3>1, <3>2, <3>3
    <2> QED
      BY <2>1, <2>2
  <1>9. RequestsExact'
    BY <1>1, <1>3, EndpointStepKeepsRequests DEF requestVars
  <1> QED
    BY <1>0, <1>1, <1>7, <1>8, <1>9, SameSleepers DEF Inv

\* CreateSession, of a session without a port.
LEMMA CreateSessionKeepsInv ==
    ASSUME Inv, NEW t \in Servers, NEW s \in Pairs, NEW for_server \in BOOLEAN,
           NEW for_client \in BOOLEAN, CreateSession(t, s, for_server, for_client)
    PROVE  Inv'
  <1>0. TypesOK /\ EndsOK /\ SleepersOK /\ RequestsExact
    BY DEF Inv
  <1>1. /\ CreateSessionPair(s, None)
        /\ server_handle' = [server_handle EXCEPT ![s] = for_server]
        /\ client_handle' = [client_handle EXCEPT ![s] = for_client]
        /\ UNCHANGED <<status, wait_objects, wakeups, context, active_sessions, pending_sessions,
                       hle_handler, pending_requesting_threads, currently_handling, waking>>
    BY DEF CreateSession, threadVars, portVars, requestVars
  <1>3. /\ client' \in [Pairs -> BOOLEAN] /\ server' \in [Pairs -> BOOLEAN]
        /\ port' \in [Pairs -> Ports \cup {None}]
        /\ client'[s] /\ server'[s] /\ port'[s] = None
        /\ \A u \in Pairs : u # s =>
             client'[u] = client[u] /\ server'[u] = server[u] /\ port'[u] = port[u]
        /\ ~client[s] /\ ~server[s] /\ ~server_handle[s] /\ ~hle_handler[s]
        /\ \A q \in Ports : ~Holds(pending_sessions[q], s)
        /\ \A u \in Threads : s \notin wait_objects[u] /\ context[u] # s
    BY <1>1, CreatePairKeepsTypes
  <1>4. /\ client_handle' \in [Pairs -> BOOLEAN] /\ server_handle' \in [Pairs -> BOOLEAN]
        /\ \A u \in Pairs : u # s => /\ client_handle'[u] = client_handle[u]
                                     /\ server_handle'[u] = server_handle[u]
    BY <1>0, <1>1 DEF TypesOK
  <1>5. TypesOK'
    BY <1>0, <1>1, <1>3, <1>4 DEF TypesOK
  <1>6. EndsOK'
    <2> SUFFICES ASSUME NEW u \in Pairs
                 PROVE  /\ client_handle'[u] => client'[u]
                        /\ server_handle'[u] \/ hle_handler'[u] => server'[u]
                        /\ hle_handler'[u] <=> client'[u] /\ port'[u] \in HlePorts
                        /\ \A q \in Ports : Holds(pending_sessions'[q], u) => server'[u] /\ port'[u] = q
                        /\ \A r \in Threads : u \in wait_objects'[r] \/ context'[r] = u => server'[u]
      BY DEF EndsOK, Holds
    <2>0. \A q : Holds(pending_sessions'[q], u) <=> Holds(pending_sessions[q], u)
      BY <1>1
    <2>1. CASE u = s
      BY <1>1, <1>3, <2>0, <2>1, Kinds
    <2>2. CASE u # s
      BY <1>0, <1>1, <1>3, <1>4, <2>0, <2>2 DEF EndsOK
    <2> QED
      BY <2>1, <2>2
  <1>7. RequestsExact'
    BY <1>1, <1>3, EndpointStepKeepsRequests DEF requestVars
  <1> QED
    BY <1>0, <1>1, <1>5, <1>6, <1>7, SameSleepers DEF Inv

\* Accept leaves what is in the queue of its port but its last session.
LEMMA AcceptLeaves ==
    ASSUME TypesOK, NEW p \in Ports, NEW s, Accept(p, s)
    PROVE  /\ s \in Pairs /\ Holds(pending_sessions[p], s)
           /\ pending_sessions' \in [Ports -> Seq(Pairs)]
           /\ \A q \in Ports, u \in Pairs :
                Holds(pending_sessions'[q], u) => Holds(pending_sessions[q], u)
  <1>1. /\ pending_sessions[p] \in Seq(Pairs) /\ Len(pending_sessions[p]) \in Nat \ {0}
        /\ \A i \in 1 .. Len(pending_sessions[p]) : pending_sessions[p][i] \in Pairs
    BY DEF Accept, TypesOK
  <1>2. s \in Pairs /\ Holds(pending_sessions[p], s)
    BY <1>1 DEF Accept, Last, Holds
  <1>3. /\ Front(pending_sessions[p]) \in Seq(Pairs)
        /\ Len(Front(pending_sessions[p])) = Len(pending_sessions[p]) - 1
        /\ \A i \in 1 .. Len(pending_sessions[p]) - 1 :
             Front(pending_sessions[p])[i] = pending_sessions[p][i]
    BY <1>1 DEF Front
  <1>4. /\ pending_sessions' \in [Ports -> Seq(Pairs)]
        /\ pending_sessions'[p] = Front(pending_sessions[p])
        /\ \A q \in Ports : q # p => pending_sessions'[q] = pending_sessions[q]
    BY <1>3 DEF TypesOK, Accept
  <1>5. \A u : Holds(Front(pending_sessions[p]), u) => Holds(pending_sessions[p], u)
    BY <1>1, <1>3 DEF Holds
  <1> QED
    BY <1>2, <1>4, <1>5

\* AcceptSession hands a waiting session to its server, or drops it.
LEMMA AcceptKeepsInv ==
    ASSUME Inv, NEW t \in Servers, NEW p \in Ports \ HlePorts, NEW s \in Pairs,
           NEW handle \in BOOLEAN, AcceptSession(t, p, s, handle)
    PROVE  Inv'
  <1>0. TypesOK /\ EndsOK /\ SleepersOK /\ RequestsExact
    BY DEF Inv
  <1>1. /\ Accept(p, s)
        /\ server_handle' = [server_handle EXCEPT ![s] = handle]
        /\ UNCHANGED <<status, wait_objects, wakeups, context, active_sessions, port, client, server,
                       client_handle, hle_handler, pending_requesting_threads, currently_handling,
                       waking>>
    BY DEF AcceptSession, threadVars, requestVars
  <1>2. /\ Holds(pending_sessions[p], s)
        /\ pending_sessions' \in [Ports -> Seq(Pairs)]
        /\ \A q \in Ports, u \in Pairs : Holds(pending_sessions'[q], u) => Holds(pending_sessions[q], u)
    BY <1>0, <1>1, AcceptLeaves
  <1>3. /\ server_handle' \in [Pairs -> BOOLEAN]
        /\ \A u \in Pairs : u # s => server_handle'[u] = server_handle[u]
    BY <1>0, <1>1 DEF TypesOK
  <1>4. TypesOK'
    BY <1>0, <1>1, <1>2, <1>3 DEF TypesOK
  <1>5. server[s]
    BY <1>0, <1>2 DEF EndsOK
  <1>6. EndsOK'
    <2>1. \A u \in Pairs : server_handle'[u] \/ hle_handler'[u] => server'[u]
      BY <1>0, <1>1, <1>3, <1>5 DEF EndsOK
    <2>2. \A u \in Pairs, q \in Ports :
            Holds(pending_sessions'[q], u) => server'[u] /\ port'[u] = q
      BY <1>0, <1>1, <1>2 DEF EndsOK
    <2>3. \A u \in Pairs :
            /\ client_handle'[u] => client'[u]
            /\ hle_handler'[u] <=> client'[u] /\ port'[u] \in HlePorts
            /\ \A r \in Threads : u \in wait_objects'[r] \/ context'[r] = u => server'[u]
      BY <1>0, <1>1 DEF EndsOK
    <2> QED
      BY <2>1, <2>2, <2>3 DEF EndsOK, Holds
  <1>7. RequestsExact'
    BY <1>1, EndpointStepKeepsRequests DEF requestVars
  <1> QED
    BY <1>0, <1>1, <1>4, <1>6, <1>7, SameSleepers DEF Inv

\* A handle is closed.
LEMMA CloseKeepsInv ==
    ASSUME Inv, NEW t \in Threads, NEW s \in Pairs, CloseClient(t, s) \/ CloseServer(t, s)
    PROVE  Inv'
  <1>0. TypesOK /\ EndsOK /\ SleepersOK /\ RequestsExact
    BY DEF Inv
  <1>1. /\ UNCHANGED <<status, wait_objects, wakeups, context, active_sessions, pending_sessions, port,
                       client, server, hle_handler, pending_requesting_threads, currently_handling,
                       waking>>
        /\ client_handle' \in [Pairs -> BOOLEAN] /\ server_handle' \in [Pairs -> BOOLEAN]
        /\ \A u \in Pairs : (client_handle'[u] => client_handle[u]) /\ (server_handle'[u] => server_handle[u])
    BY <1>0 DEF CloseClient, CloseServer, threadVars, portVars, requestVars, TypesOK
  <1>2. TypesOK'
    BY <1>0, <1>1 DEF TypesOK
  <1>3. EndsOK'
    BY <1>0, <1>1 DEF EndsOK
  <1>4. RequestsExact'
    BY <1>1, EndpointStepKeepsRequests DEF requestVars
  <1> QED
    BY <1>0, <1>1, <1>2, <1>3, <1>4, SameSleepers DEF Inv

\* ~ClientSession takes the requests of its session with it.
LEMMA ClientDestroyedKeepsInv ==
    ASSUME Inv, NEW s \in Pairs, ClientDestroyed(s)
    PROVE  Inv'
  <1>0. TypesOK /\ EndsOK /\ SleepersOK /\ RequestsExact
    BY DEF Inv
  <1>1. /\ ~client_handle[s]
        /\ client' = [client EXCEPT ![s] = FALSE]
        /\ hle_handler' = [hle_handler EXCEPT ![s] = FALSE]
        /\ pending_requesting_threads' = [pending_requesting_threads EXCEPT ![s] = << >>]
        /\ currently_handling' = [currently_handling EXCEPT ![s] = None]
        /\ waking' \in {s, None}
        /\ UNCHANGED <<status, wait_objects, wakeups, context, active_sessions, pending_sessions, port,
                       server, client_handle, server_handle>>
    BY DEF ClientDestroyed, threadVars, portVars
  <1>2. /\ client' \in [Pairs -> BOOLEAN] /\ hle_handler' \in [Pairs -> BOOLEAN]
        /\ ~client'[s] /\ ~hle_handler'[s]
        /\ \A u \in Pairs : u # s => client'[u] = client[u] /\ hle_handler'[u] = hle_handler[u]
    BY <1>0, <1>1 DEF TypesOK
  <1>3. pending_requesting_threads' \in [Pairs -> Seq(Threads)]
    BY <1>0, <1>1 DEF TypesOK
  <1>4. currently_handling' \in [Pairs -> Threads \cup {None}]
    BY <1>0, <1>1 DEF TypesOK
  <1>5. TypesOK'
    BY <1>0, <1>1, <1>2, <1>3, <1>4 DEF TypesOK
  <1>6. EndsOK'
    <2>1. \A u \in Pairs :
            /\ client_handle'[u] => client'[u]
            /\ server_handle'[u] \/ hle_handler'[u] => server'[u]
            /\ hle_handler'[u] <=> client'[u] /\ port'[u] \in HlePorts
      BY <1>0, <1>1, <1>2 DEF EndsOK
    <2>2. \A u \in Pairs :
            /\ \A q \in Ports : Holds(pending_sessions'[q], u) => server'[u] /\ port'[u] = q
            /\ \A r \in Threads : u \in wait_objects'[r] \/ context'[r] = u => server'[u]
      BY <1>0, <1>1 DEF EndsOK
    <2> QED
      BY <2>1, <2>2 DEF EndsOK, Holds
  <1>7. RequestsExact'
    BY <1>1, <1>2, EndpointStepKeepsRequests
  <1> QED
    BY <1>0, <1>1, <1>5, <1>6, <1>7, SameSleepers DEF Inv

\* ~ServerSession runs only when nothing refers to the endpoint.
LEMMA ServerDestroyedKeepsInv ==
    ASSUME Inv, NEW s \in Pairs, ServerDestroyed(s)
    PROVE  Inv'
  <1>0. TypesOK /\ EndsOK /\ SleepersOK /\ RequestsExact
    BY DEF Inv
  <1>1. /\ ~ServerReferenced(s)
        /\ server' = [server EXCEPT ![s] = FALSE]
        /\ pending_requesting_threads' = [pending_requesting_threads EXCEPT ![s] = << >>]
        /\ currently_handling' = [currently_handling EXCEPT ![s] = None]
        /\ UNCHANGED <<status, wait_objects, wakeups, context, pending_sessions, port, client,
                       client_handle, server_handle, hle_handler, waking>>
    BY DEF ServerDestroyed, threadVars
  <1>2. /\ server' \in [Pairs -> BOOLEAN] /\ \A u \in Pairs : u # s => server'[u] = server[u]
    BY <1>0, <1>1 DEF TypesOK
  <1>3. active_sessions' \in [Ports -> Int]
    BY <1>0 DEF TypesOK, ServerDestroyed, ConnectionClosed
  <1>4. pending_requesting_threads' \in [Pairs -> Seq(Threads)]
    BY <1>0, <1>1 DEF TypesOK
  <1>5. currently_handling' \in [Pairs -> Threads \cup {None}]
    BY <1>0, <1>1 DEF TypesOK
  <1>6. TypesOK'
    BY <1>0, <1>1, <1>2, <1>3, <1>4, <1>5 DEF TypesOK
  <1>7. EndsOK'
    <2>1. \A u \in Pairs :
            /\ client_handle'[u] => client'[u]
            /\ server_handle'[u] \/ hle_handler'[u] => server'[u]
            /\ hle_handler'[u] <=> client'[u] /\ port'[u] \in HlePorts
      BY <1>0, <1>1, <1>2 DEF EndsOK, ServerReferenced
    <2>2. \A u \in Pairs :
            /\ \A q \in Ports : Holds(pending_sessions'[q], u) => server'[u] /\ port'[u] = q
            /\ \A r \in Threads : u \in wait_objects'[r] \/ context'[r] = u => server'[u]
      BY <1>0, <1>1, <1>2 DEF EndsOK, ServerReferenced
    <2> QED
      BY <2>1, <2>2 DEF EndsOK, Holds
  <1>8. RequestsExact'
    BY <1>1, EndpointStepKeepsRequests
  <1> QED
    BY <1>0, <1>1, <1>6, <1>7, <1>8, SameSleepers DEF Inv

-----------------------------------------------------------------------------
\* Steps of threads leave endpoints and ports alone, and refer to no pair
\* whose server endpoint is gone.
LEMMA ThreadStepKeepsEnds ==
    ASSUME EndsOK, UNCHANGED <<port, client, server, client_handle, server_handle, hle_handler,
                               pending_sessions>>,
           \A t \in Threads, s \in Pairs :
             s \in wait_objects'[t] \/ context'[t] = s =>
               s \in wait_objects[t] \/ context[t] = s \/ server[s]
    PROVE  EndsOK'
  <1>1. \A u \in Pairs :
          /\ client_handle'[u] => client'[u]
          /\ server_handle'[u] \/ hle_handler'[u] => server'[u]
          /\ hle_handler'[u] <=> client'[u] /\ port'[u] \in HlePorts
          /\ \A q \in Ports : Holds(pending_sessions'[q], u) => server'[u] /\ port'[u] = q
    BY DEF EndsOK
  <1>2. \A u \in Pairs : \A r \in Threads : u \in wait_objects'[r] \/ context'[r] = u => server'[u]
    BY DEF EndsOK
  <1> QED
    BY <1>1, <1>2 DEF EndsOK, Holds

\* A thread that sends a request has no other one.
LEMMA SendSyncRequestKeepsInv ==
    ASSUME Inv, NEW t \in Clients, NEW s \in Pairs, SendSyncRequest(t, s)
    PROVE  Inv'
  <1>0. TypesOK /\ EndsOK /\ SleepersOK /\ RequestsExact /\ t \in Threads
    BY Kinds DEF Inv
  <1>1. /\ status[t] = "Run" /\ client_handle[s] /\ server[s] /\ waking' = s
        /\ UNCHANGED <<wait_objects, active_sessions, pending_sessions, port, client, server,
                       client_handle, server_handle, hle_handler, currently_handling>>
    BY DEF SendSyncRequest, HandleSyncRequest, Calls, portVars, endVars
  <1>2. /\ client[s] /\ wait_objects[t] = {} /\ t \notin wakeups
        /\ t \notin Requesters(pending_requesting_threads, currently_handling)
    BY <1>0, <1>1, RunningHasNoRequest DEF EndsOK, SleepersOK
  <1>3. \/ /\ status' = [status EXCEPT ![t] = "WaitIPC"]
           /\ wakeups' = wakeups \cup {t}
           /\ UNCHANGED <<context, pending_requesting_threads>>
        \/ /\ status' = [status EXCEPT ![t] = "WaitHleEvent"]
           /\ context' = [context EXCEPT ![t] = s]
           /\ UNCHANGED <<wakeups, pending_requesting_threads>>
        \/ /\ status' = [status EXCEPT ![t] = "WaitIPC"]
           /\ pending_requesting_threads' = [pending_requesting_threads EXCEPT ![s] = Append(@, t)]
           /\ UNCHANGED <<wakeups, context>>
    BY DEF SendSyncRequest, HandleSyncRequest
  <1>4. /\ status' \in [Threads -> Statuses]
        /\ \A u \in Threads : u # t => status'[u] = status[u]
        /\ status'[t] \in {"WaitIPC", "WaitHleEvent"}
        /\ t \in wakeups' => status'[t] = "WaitIPC"
        /\ wakeups' \subseteq wakeups \cup {t}
    BY <1>0, <1>2, <1>3 DEF TypesOK, Statuses
  <1>5. /\ context' \in [Threads -> Pairs \cup {None}]
        /\ \A u \in Threads, x \in Pairs : context'[u] = x => context[u] = x \/ x = s
    BY <1>0, <1>3 DEF TypesOK
  <1>6. /\ pending_requesting_threads' \in [Pairs -> Seq(Threads)]
        /\ Exact(pending_requesting_threads', currently_handling')
        /\ \A u \in Requesters(pending_requesting_threads', currently_handling') :
             \/ u \in Requesters(pending_requesting_threads, currently_handling)
             \/ u = t /\ status'[t] = "WaitIPC" /\ t \notin wakeups'
        /\ \A u \in Pairs : u # s => pending_requesting_threads'[u] = pending_requesting_threads[u]
    <2>1. CASE pending_requesting_threads' = [pending_requesting_threads EXCEPT ![s] = Append(@, t)]
               /\ status' = [status EXCEPT ![t] = "WaitIPC"] /\ UNCHANGED wakeups
      <3>1. /\ pending_requesting_threads' \in Queues
            /\ Exact(pending_requesting_threads', currently_handling)
            /\ Requesters(pending_requesting_threads', currently_handling)
                 \subseteq Requesters(pending_requesting_threads, currently_handling) \cup {t}
        BY <1>0, <1>2, <2>1, RequestTypes, RequestsExactParts, RequestKeepsExact
      <3>2. status'[t] = "WaitIPC" /\ t \notin wakeups'
        BY <1>0, <1>2, <2>1 DEF TypesOK
      <3>3. \A u \in Pairs : u # s => pending_requesting_threads'[u] = pending_requesting_threads[u]
        BY <1>0, <2>1 DEF TypesOK
      <3> QED
        BY <1>1, <3>1, <3>2, <3>3 DEF Queues
    <2>2. CASE UNCHANGED pending_requesting_threads
      BY <1>0, <1>1, <2>2, RequestsExactParts DEF TypesOK
    <2> QED
      BY <1>3, <2>1, <2>2
  <1>7. TypesOK'
    BY <1>0, <1>1, <1>4, <1>5, <1>6 DEF TypesOK
  <1>8. EndsOK'
    BY <1>0, <1>1, <1>5, ThreadStepKeepsEnds
  <1>9. SleepersOK'
    BY <1>0, <1>1, <1>2, <1>4 DEF SleepersOK
  <1>10. RequestsExact'
    <2>1. \A u \in Requesters(pending_requesting_threads', currently_handling') :
            status'[u] \in {"WaitIPC", "Dead"} /\ u \notin wakeups'
      <3> SUFFICES ASSUME NEW u \in Requesters(pending_requesting_threads', currently_handling')
                   PROVE  status'[u] \in {"WaitIPC", "Dead"} /\ u \notin wakeups'
        OBVIOUS
      <3>1. CASE u = t /\ status'[t] = "WaitIPC" /\ t \notin wakeups'
        BY <3>1
      <3>2. CASE u \in Requesters(pending_requesting_threads, currently_handling)
        <4>1. u # t /\ u \in Threads
          BY <1>2, <3>2 DEF Requesters
        <4> QED
          BY <1>0, <1>4, <3>2, <4>1, RequestsExactParts
      <3> QED
        BY <1>6, <3>1, <3>2
    <2>2. \A u \in Pairs : ~client'[u] => pending_requesting_threads'[u] = << >>
                                          /\ currently_handling'[u] = None
      BY <1>0, <1>1, <1>2, <1>6, RequestsExactParts
    <2> QED
      BY <1>6, <2>1, <2>2, RequestsExactParts2
  <1> QED
    BY <1>7, <1>8, <1>9, <1>10 DEF Inv

\* A thread wakes up, dies, or is destroyed.
LEMMA ThreadStepKeepsInv ==
    ASSUME Inv, NEW t \in Threads,
           ThreadWakeupCallback(t) \/ HleEvent(t) \/ Stop(t) \/ ThreadDestroyed(t)
    PROVE  Inv'
  <1>0. TypesOK /\ EndsOK /\ SleepersOK /\ RequestsExact
    BY DEF Inv
  <1>1. /\ UNCHANGED <<active_sessions, pending_sessions, port, client, server, client_handle,
                       server_handle, hle_handler, pending_requesting_threads, currently_handling,
                       waking>>
        /\ wakeups' \subseteq wakeups
    BY DEF ThreadWakeupCallback, HleEvent, Stop, ThreadDestroyed, portVars, endVars, requestVars
  <1>2. /\ context' \in [Threads -> Pairs \cup {None}]
        /\ \A u \in Threads : context'[u] = context[u] \/ context'[u] = None
    BY <1>0 DEF ThreadWakeupCallback, HleEvent, Stop, ThreadDestroyed, TypesOK
  <1>3. /\ wait_objects' \in [Threads -> SUBSET Objects]
        /\ \A u \in Threads : wait_objects'[u] = wait_objects[u] \/ wait_objects'[u] = {}
    BY <1>0 DEF ThreadWakeupCallback, HleEvent, Stop, ThreadDestroyed, TypesOK
  <1>4. /\ status' \in [Threads -> Statuses]
        /\ \A u \in Threads : u # t => status'[u] = status[u]
    BY <1>0 DEF ThreadWakeupCallback, HleEvent, Stop, ThreadDestroyed, TypesOK, Statuses
  <1>5. TypesOK'
    BY <1>0, <1>1, <1>2, <1>3, <1>4 DEF TypesOK
  <1>6. EndsOK'
    BY <1>0, <1>1, <1>2, <1>3, ThreadStepKeepsEnds, Kinds
  <1>7. SleepersOK'
    <2>1. \/ wait_objects'[t] = {} /\ t \notin wakeups'
          \/ wait_objects'[t] = wait_objects[t] /\ status'[t] = status[t]
      BY <1>0 DEF ThreadWakeupCallback, HleEvent, Stop, ThreadDestroyed, TypesOK, SleepersOK
    <2> QED
      BY <1>0, <1>1, <1>3, <1>4, <2>1 DEF SleepersOK
  <1>8. RequestsExact'
    <2>1. CASE ThreadDestroyed(t)
      BY <1>1, <2>1, EndpointStepKeepsRequests DEF ThreadDestroyed, requestVars
    <2>2. CASE ThreadWakeupCallback(t) \/ HleEvent(t)
      BY <1>1, <1>4, <2>2, RunningHasNoRequest, WakeupKeepsRequests
         DEF ThreadWakeupCallback, HleEvent, requestVars
    <2>3. CASE Stop(t)
      <3>1. status'[t] = "Dead"
        BY <1>0, <2>3 DEF Stop, TypesOK
      <3> QED
        BY <1>1, <1>4, <3>1, WakeupKeepsRequests DEF requestVars
    <2> QED
      BY <2>1, <2>2, <2>3
  <1> QED
    BY <1>5, <1>6, <1>7, <1>8 DEF Inv

\* Acquire, of an object that is available once `handling` is current.
LEMMA AcquireProperties ==
    ASSUME TypesOK, NEW o \in Objects, NEW handling \in Currents,
           Exact(pending_requesting_threads, handling),
           ~ShouldWait(o, handling), Acquire(o, handling)
    PROVE  /\ pending_requesting_threads' \in Queues /\ currently_handling' \in Currents
           /\ Exact(pending_requesting_threads', currently_handling')
           /\ Requesters(pending_requesting_threads', currently_handling')
                \subseteq Requesters(pending_requesting_threads, handling)
           /\ \A s \in Pairs : s # o \/ ~client[s] =>
                /\ pending_requesting_threads'[s] = pending_requesting_threads[s]
                /\ currently_handling'[s] = handling[s]
  <1>1. CASE o \in Pairs /\ client[o]
    <2>1. /\ currently_handling' = [handling EXCEPT ![o] = Last(pending_requesting_threads[o])]
          /\ pending_requesting_threads' = [pending_requesting_threads EXCEPT ![o] = Front(@)]
      BY <1>1 DEF Acquire
    <2>2. pending_requesting_threads[o] # << >> /\ handling[o] = None
      BY <1>1, Kinds DEF ShouldWait
    <2>3. /\ pending_requesting_threads' \in Queues /\ currently_handling' \in Currents
          /\ Exact(pending_requesting_threads', currently_handling')
          /\ Requesters(pending_requesting_threads', currently_handling')
               \subseteq Requesters(pending_requesting_threads, handling)
      BY <1>1, <2>1, <2>2, RequestTypes, AcquireKeepsExact
    <2>4. \A s \in Pairs : s # o \/ ~client[s] =>
            /\ pending_requesting_threads'[s] = pending_requesting_threads[s]
            /\ currently_handling'[s] = handling[s]
      BY <1>1, <2>1 DEF Currents, TypesOK
    <2> QED
      BY <2>3, <2>4
  <1>2. CASE ~(o \in Pairs /\ client[o])
    BY <1>2, RequestTypes DEF Acquire
  <1> QED
    BY <1>1, <1>2

\* A reply without a request changes nothing.
LEMMA ReplyFailsKeepsInv ==
    ASSUME Inv, NEW t \in Servers, NEW s \in Pairs, ReplyFails(t, s)
    PROVE  Inv'
  <1>0. TypesOK /\ EndsOK /\ SleepersOK /\ RequestsExact
    BY DEF Inv
  <1>1. /\ currently_handling' = [currently_handling EXCEPT ![s] = None]
        /\ currently_handling[s] = None \/ ~client[s]
        /\ UNCHANGED <<threadVars, portVars, endVars, pending_requesting_threads, waking>>
    BY DEF ReplyFails
  <1>2. currently_handling[s] = None
    BY <1>0, <1>1 DEF RequestsExact
  <1>3. UNCHANGED vars
    BY <1>0, <1>1, <1>2 DEF TypesOK, vars, requestVars
  <1> QED
    BY <1>0, <1>3, SameSleepers, ThreadStepKeepsEnds, EndpointStepKeepsRequests
       DEF Inv, TypesOK, vars, threadVars, portVars, endVars, requestVars

\* The statuses once the request of `target`, if there is one, is answered.
Resumed(target) ==
    IF target # None /\ status[currently_handling[target]] # "Dead"
    THEN [status EXCEPT ![currently_handling[target]] = "Run"] ELSE status

\* What the answer does: its requester, whose only request it was, runs.
LEMMA AfterReplyProperties ==
    ASSUME Inv, NEW t \in Threads, status[t] = "Run", NEW target \in Pairs \cup {None},
           target # None => currently_handling[target] # None /\ client[target]
    PROVE  /\ AfterReply(target) \in Currents
           /\ Exact(pending_requesting_threads, AfterReply(target))
           /\ Resumed(target) \in [Threads -> Statuses] /\ Resumed(target)[t] = "Run"
           /\ \A u \in Threads : Resumed(target)[u] # status[u] =>
                Resumed(target)[u] = "Run" /\ status[u] = "WaitIPC" /\ u \notin wakeups
           /\ \A u \in Requesters(pending_requesting_threads, AfterReply(target)) :
                Resumed(target)[u] \in {"WaitIPC", "Dead"} /\ u \notin wakeups
           /\ \A s \in Pairs : ~client[s] => AfterReply(target)[s] = None
  <1>0. TypesOK /\ RequestsExact
    BY DEF Inv
  <1>1. CASE target = None
    <2>1. AfterReply(target) = currently_handling /\ Resumed(target) = status
      BY <1>1 DEF AfterReply, Resumed
    <2> QED
      BY <1>0, <2>1, RequestTypes, RequestsExactParts DEF TypesOK
  <1>2. CASE target # None
    <2>1. target \in Pairs /\ currently_handling[target] \in Threads
      BY <1>0, <1>2 DEF TypesOK
    <2>2. PICK r \in Threads : r = currently_handling[target]
      BY <2>1
    <2>3. AfterReply(target) = [currently_handling EXCEPT ![target] = None]
      BY <1>2 DEF AfterReply
    <2>4. /\ AfterReply(target) \in Currents /\ Exact(pending_requesting_threads, AfterReply(target))
          /\ Requesters(pending_requesting_threads, AfterReply(target))
               \subseteq Requesters(pending_requesting_threads, currently_handling)
          /\ r \notin Requesters(pending_requesting_threads, AfterReply(target))
      <3>1. /\ pending_requesting_threads \in Queues /\ currently_handling \in Currents
            /\ Exact(pending_requesting_threads, currently_handling)
        BY <1>0, RequestTypes, RequestsExactParts
      <3> QED
        BY <2>1, <2>2, <2>3, <3>1, AnswerKeepsExact
    <2>5. r \in Requesters(pending_requesting_threads, currently_handling)
      BY <2>1, <2>2 DEF Requesters
    <2>6. status[r] \in {"WaitIPC", "Dead"} /\ r \notin wakeups
      BY <1>0, <2>5, RequestsExactParts
    <2>7. Resumed(target) = IF status[r] # "Dead" THEN [status EXCEPT ![r] = "Run"] ELSE status
      BY <1>2, <2>2 DEF Resumed
    <2>8. /\ Resumed(target) \in [Threads -> Statuses]
          /\ \A u \in Threads : u # r => Resumed(target)[u] = status[u]
          /\ Resumed(target)[r] # status[r] => Resumed(target)[r] = "Run" /\ status[r] = "WaitIPC"
      BY <1>0, <2>6, <2>7 DEF TypesOK, Statuses
    <2>9. \A u \in Requesters(pending_requesting_threads, AfterReply(target)) :
            Resumed(target)[u] \in {"WaitIPC", "Dead"} /\ u \notin wakeups
      <3> SUFFICES ASSUME NEW u \in Requesters(pending_requesting_threads, AfterReply(target))
                   PROVE  Resumed(target)[u] \in {"WaitIPC", "Dead"} /\ u \notin wakeups
        OBVIOUS
      <3>1. u \in Threads /\ u # r /\ u \in Requesters(pending_requesting_threads, currently_handling)
        BY <2>4 DEF Requesters
      <3> QED
        BY <1>0, <2>8, <3>1, RequestsExactParts
    <2>10. \A s \in Pairs : ~client[s] => AfterReply(target)[s] = None
      BY <1>0, <2>1, <2>3, RequestsExactParts DEF TypesOK
    <2>11. Resumed(target)[t] = "Run"
      BY <2>6, <2>8
    <2> QED
      BY <2>4, <2>6, <2>8, <2>9, <2>10, <2>11
  <1> QED
    BY <1>1, <1>2

\* What ReplyAndReceive does, by its parts.
LEMMA ReplyAndReceiveParts ==
    ASSUME Inv, NEW t \in Servers, NEW target \in Pairs \cup {None}, NEW objects \in SUBSET Objects,
           ReplyAndReceive(t, target, objects)
    PROVE  /\ status[t] = "Run"
           /\ UNCHANGED <<wakeups, context, active_sessions, pending_sessions, port, client, server,
                          client_handle, server_handle, hle_handler, waking>>
           /\ \A s \in objects \cap Pairs : server_handle[s]
           /\ AfterReply(target) \in Currents /\ Exact(pending_requesting_threads, AfterReply(target))
           /\ \A s \in Pairs : ~client[s] => AfterReply(target)[s] = None
           /\ Resumed(target) \in [Threads -> Statuses]
           /\ Resumed(target)[t] = "Run"
           /\ \A u \in Threads : Resumed(target)[u] # status[u] =>
                Resumed(target)[u] = "Run" /\ status[u] = "WaitIPC" /\ u \notin wakeups
           /\ \A u \in Requesters(pending_requesting_threads, AfterReply(target)) :
                Resumed(target)[u] \in {"WaitIPC", "Dead"} /\ u \notin wakeups
           /\ \/ /\ \A o \in objects : ShouldWait(o, AfterReply(target))
                 /\ currently_handling' = AfterReply(target)
                 /\ status' = [Resumed(target) EXCEPT ![t] = "WaitSynchAny"]
                 /\ wait_objects' = [wait_objects EXCEPT ![t] = objects]
                 /\ UNCHANGED pending_requesting_threads
              \/ /\ currently_handling' = AfterReply(target)
                 /\ status' = Resumed(target)
                 /\ UNCHANGED <<wait_objects, pending_requesting_threads>>
              \/ /\ \E o \in objects : ~ShouldWait(o, AfterReply(target))
                                       /\ Acquire(o, AfterReply(target))
                 /\ status' = Resumed(target)
                 /\ UNCHANGED wait_objects
  <1>1. t \in Threads
    BY Kinds
  <1>2. /\ status[t] = "Run"
        /\ UNCHANGED <<wakeups, context, active_sessions, pending_sessions, port, client, server,
                       client_handle, server_handle, hle_handler, waking>>
        /\ \A s \in objects \cap Pairs : server_handle[s]
        /\ target # None => currently_handling[target] # None /\ client[target]
    BY DEF ReplyAndReceive, Calls, portVars, endVars
  <1>3. /\ AfterReply(target) \in Currents /\ Exact(pending_requesting_threads, AfterReply(target))
        /\ Resumed(target) \in [Threads -> Statuses] /\ Resumed(target)[t] = "Run"
        /\ \A u \in Threads : Resumed(target)[u] # status[u] =>
             Resumed(target)[u] = "Run" /\ status[u] = "WaitIPC" /\ u \notin wakeups
        /\ \A u \in Requesters(pending_requesting_threads, AfterReply(target)) :
             Resumed(target)[u] \in {"WaitIPC", "Dead"} /\ u \notin wakeups
        /\ \A s \in Pairs : ~client[s] => AfterReply(target)[s] = None
    BY <1>1, <1>2, AfterReplyProperties
  <1> DEFINE requester == IF target = None THEN None ELSE currently_handling[target]
             resumed   == IF requester # None /\ status[requester] # "Dead"
                          THEN [status EXCEPT ![requester] = "Run"] ELSE status
             Outcome(st) ==
               \/ /\ \A o \in objects : ShouldWait(o, AfterReply(target))
                  /\ currently_handling' = AfterReply(target)
                  /\ status' = [st EXCEPT ![t] = "WaitSynchAny"]
                  /\ wait_objects' = [wait_objects EXCEPT ![t] = objects]
                  /\ UNCHANGED pending_requesting_threads
               \/ /\ currently_handling' = AfterReply(target)
                  /\ status' = st
                  /\ UNCHANGED <<wait_objects, pending_requesting_threads>>
               \/ /\ \E o \in objects : ~ShouldWait(o, AfterReply(target))
                                        /\ Acquire(o, AfterReply(target))
                  /\ status' = st
                  /\ UNCHANGED wait_objects
  <1>4. Outcome(resumed)
    BY Zenon DEF ReplyAndReceive
  <1>5. resumed = Resumed(target)
    BY <1>2 DEF Resumed
  <1>6. Outcome(Resumed(target))
    <2> HIDE DEF resumed, Outcome
    <2> QED
      BY <1>4, <1>5
  <1> QED
    BY <1>2, <1>3, <1>6

\* A server thread answers, and receives or goes to sleep.
LEMMA ReplyAndReceiveKeepsInv ==
    ASSUME Inv, NEW t \in Servers, NEW target \in Pairs \cup {None}, NEW objects \in SUBSET Objects,
           ReplyAndReceive(t, target, objects)
    PROVE  Inv'
  <1>0. TypesOK /\ EndsOK /\ SleepersOK /\ RequestsExact /\ t \in Threads
    BY Kinds DEF Inv
  <1> DEFINE handling == AfterReply(target)
             resumed == Resumed(target)
  <1>1. /\ status[t] = "Run"
        /\ UNCHANGED <<wakeups, context, active_sessions, pending_sessions, port, client, server,
                       client_handle, server_handle, hle_handler, waking>>
        /\ \A s \in objects \cap Pairs : server_handle[s]
    BY ReplyAndReceiveParts
  <1>2. /\ handling \in Currents /\ Exact(pending_requesting_threads, handling)
        /\ \A s \in Pairs : ~client[s] => handling[s] = None
    BY ReplyAndReceiveParts
  <1>3. /\ resumed \in [Threads -> Statuses] /\ resumed[t] = "Run"
        /\ \A u \in Threads : resumed[u] # status[u] =>
             resumed[u] = "Run" /\ status[u] = "WaitIPC" /\ u \notin wakeups
        /\ \A u \in Requesters(pending_requesting_threads, handling) :
             resumed[u] \in {"WaitIPC", "Dead"} /\ u \notin wakeups
    BY ReplyAndReceiveParts
  <1>4. \/ /\ currently_handling' = handling
           /\ status' = [resumed EXCEPT ![t] = "WaitSynchAny"]
           /\ wait_objects' = [wait_objects EXCEPT ![t] = objects]
           /\ UNCHANGED pending_requesting_threads
        \/ /\ currently_handling' = handling
           /\ status' = resumed
           /\ UNCHANGED <<wait_objects, pending_requesting_threads>>
        \/ /\ \E o \in objects : ~ShouldWait(o, handling) /\ Acquire(o, handling)
           /\ status' = resumed
           /\ UNCHANGED wait_objects
    BY ReplyAndReceiveParts
  <1>5. /\ pending_requesting_threads' \in Queues /\ currently_handling' \in Currents
        /\ Exact(pending_requesting_threads', currently_handling')
        /\ Requesters(pending_requesting_threads', currently_handling')
             \subseteq Requesters(pending_requesting_threads, handling)
        /\ \A s \in Pairs : ~client[s] =>
             /\ pending_requesting_threads'[s] = pending_requesting_threads[s]
             /\ currently_handling'[s] = handling[s]
    <2>1. CASE currently_handling' = handling /\ UNCHANGED pending_requesting_threads
      BY <1>0, <1>2, <2>1, RequestTypes
    <2>2. ASSUME NEW o \in objects, ~ShouldWait(o, handling), Acquire(o, handling)
          PROVE  /\ pending_requesting_threads' \in Queues /\ currently_handling' \in Currents
                 /\ Exact(pending_requesting_threads', currently_handling')
                 /\ Requesters(pending_requesting_threads', currently_handling')
                      \subseteq Requesters(pending_requesting_threads, handling)
                 /\ \A s \in Pairs : ~client[s] =>
                      /\ pending_requesting_threads'[s] = pending_requesting_threads[s]
                      /\ currently_handling'[s] = handling[s]
      BY <1>0, <1>2, <2>2, AcquireProperties
    <2> QED
      BY <1>4, <2>1, <2>2
  <1> HIDE DEF handling, resumed
  <1>6. /\ status' \in [Threads -> Statuses] /\ wait_objects' \in [Threads -> SUBSET Objects]
        /\ \A u \in Threads : u # t => status'[u] = resumed[u] /\ wait_objects'[u] = wait_objects[u]
        /\ \/ wait_objects'[t] = objects /\ status'[t] = "WaitSynchAny"
           \/ wait_objects'[t] = wait_objects[t] /\ status'[t] = "Run"
    BY <1>0, <1>3, <1>4 DEF TypesOK, Statuses
  <1>7. wait_objects[t] = {} /\ t \notin wakeups
    BY <1>0, <1>1 DEF SleepersOK
  <1>8. TypesOK'
    BY <1>0, <1>1, <1>5, <1>6 DEF TypesOK, Queues, Currents
  <1>9. EndsOK'
    <2>1. \A s \in objects : s \in Pairs => server[s]
      BY <1>0, <1>1 DEF EndsOK
    <2> QED
      BY <1>0, <1>1, <1>6, <2>1, ThreadStepKeepsEnds
  <1>10. SleepersOK'
    <2> SUFFICES ASSUME NEW u \in Threads
                 PROVE  /\ wait_objects'[u] # {} => status'[u] = "WaitSynchAny" /\ u \in Servers
                        /\ u \in wakeups' => status'[u] = "WaitIPC"
      BY DEF SleepersOK
    <2>1. CASE u = t
      BY <1>1, <1>6, <1>7, <2>1
    <2>2. CASE u # t
      BY <1>0, <1>1, <1>3, <1>6, <2>2 DEF SleepersOK
    <2> QED
      BY <2>1, <2>2
  <1>11. RequestsExact'
    <2>1. \A u \in Requesters(pending_requesting_threads', currently_handling') :
            status'[u] \in {"WaitIPC", "Dead"} /\ u \notin wakeups'
      <3> SUFFICES ASSUME NEW u \in Requesters(pending_requesting_threads', currently_handling')
                   PROVE  status'[u] \in {"WaitIPC", "Dead"} /\ u \notin wakeups'
        OBVIOUS
      <3>1. /\ u \in Threads /\ u \in Requesters(pending_requesting_threads, handling)
            /\ resumed[u] \in {"WaitIPC", "Dead"} /\ u \notin wakeups
        BY <1>3, <1>5 DEF Requesters
      <3> QED
        BY <1>1, <1>3, <1>6, <3>1
    <2>2. \A s \in Pairs : ~client'[s] => pending_requesting_threads'[s] = << >>
                                          /\ currently_handling'[s] = None
      BY <1>0, <1>1, <1>2, <1>5, RequestsExactParts
    <2> QED
      BY <1>5, <2>1, <2>2, RequestsExactParts2
  <1> QED
    BY <1>8, <1>9, <1>10, <1>11 DEF Inv

\* A round of the wake loop, and its end.
LEMMA WakeNextKeepsInv ==
    ASSUME Inv, NEW t \in Threads, WakeNext(t)
    PROVE  Inv'
  <1>0. TypesOK /\ EndsOK /\ SleepersOK /\ RequestsExact
    BY DEF Inv
  <1>1. PICK o \in Objects : o = waking /\ o \in wait_objects[t]
    BY <1>0 DEF WakeNext, TypesOK
  <1>2. /\ ~ShouldWait(o, currently_handling) /\ Acquire(o, currently_handling)
        /\ status' = [status EXCEPT ![t] = "Run"]
        /\ wait_objects' = [wait_objects EXCEPT ![t] = {}]
        /\ UNCHANGED <<wakeups, context, active_sessions, pending_sessions, port, client, server,
                       client_handle, server_handle, hle_handler, waking>>
    BY <1>1 DEF WakeNext, portVars, endVars
  <1>3. /\ pending_requesting_threads' \in Queues /\ currently_handling' \in Currents
        /\ Exact(pending_requesting_threads', currently_handling')
        /\ Requesters(pending_requesting_threads', currently_handling')
             \subseteq Requesters(pending_requesting_threads, currently_handling)
        /\ \A s \in Pairs : ~client[s] =>
             /\ pending_requesting_threads'[s] = pending_requesting_threads[s]
             /\ currently_handling'[s] = currently_handling[s]
    BY <1>0, <1>2, RequestTypes, RequestsExactParts, AcquireProperties
  <1>4. /\ status' \in [Threads -> Statuses] /\ wait_objects' \in [Threads -> SUBSET Objects]
        /\ \A u \in Threads : u # t => status'[u] = status[u] /\ wait_objects'[u] = wait_objects[u]
        /\ wait_objects'[t] = {}
    BY <1>0, <1>2 DEF TypesOK, Statuses
  <1>5. /\ status[t] = "WaitSynchAny" /\ t \notin wakeups
        /\ t \notin Requesters(pending_requesting_threads, currently_handling)
    BY <1>0, <1>1, RunningHasNoRequest DEF SleepersOK
  <1>6. TypesOK'
    BY <1>0, <1>2, <1>3, <1>4 DEF TypesOK, Queues, Currents
  <1>7. EndsOK'
    BY <1>0, <1>2, <1>4, ThreadStepKeepsEnds
  <1>8. SleepersOK'
    BY <1>0, <1>2, <1>4, <1>5 DEF SleepersOK
  <1>9. RequestsExact'
    <2>1. \A u \in Requesters(pending_requesting_threads', currently_handling') :
            status'[u] \in {"WaitIPC", "Dead"} /\ u \notin wakeups'
      <3> SUFFICES ASSUME NEW u \in Requesters(pending_requesting_threads', currently_handling')
                   PROVE  status'[u] \in {"WaitIPC", "Dead"} /\ u \notin wakeups'
        OBVIOUS
      <3>1. u \in Threads /\ u # t /\ u \in Requesters(pending_requesting_threads, currently_handling)
        BY <1>3, <1>5 DEF Requesters
      <3> QED
        BY <1>0, <1>2, <1>4, <3>1, RequestsExactParts
    <2>2. \A s \in Pairs : ~client'[s] => pending_requesting_threads'[s] = << >>
                                          /\ currently_handling'[s] = None
      BY <1>0, <1>2, <1>3, RequestsExactParts
    <2> QED
      BY <1>3, <2>1, <2>2, RequestsExactParts2
  <1> QED
    BY <1>6, <1>7, <1>8, <1>9 DEF Inv

\* The end of the wake loop.
LEMMA WakeEndsKeepsInv ==
    ASSUME Inv, WakeEnds \/ UNCHANGED vars
    PROVE  Inv'
  <1>1. /\ UNCHANGED <<threadVars, portVars, endVars, requestVars>> /\ waking' \in {waking, None}
    BY DEF WakeEnds, vars
  <1> QED
    BY <1>1, SameSleepers, ThreadStepKeepsEnds, EndpointStepKeepsRequests
       DEF Inv, TypesOK, threadVars, portVars, endVars, requestVars

-----------------------------------------------------------------------------
\* Inv holds in the beginning and is kept by every step.
LEMMA InitInv == Init => Inv
  <1> SUFFICES ASSUME Init PROVE Inv
    OBVIOUS
  <1>1. TypesOK
    BY DEF Init, TypesOK, Statuses
  <1>2. EndsOK
    BY Kinds DEF Init, EndsOK, Holds
  <1>3. SleepersOK
    BY DEF Init, SleepersOK
  <1>4. RequestsExact
    BY Kinds DEF Init, RequestsExact, Holds
  <1> QED
    BY <1>1, <1>2, <1>3, <1>4 DEF Inv

\* Every step keeps the invariant.
LEMMA StepInv == Inv /\ [Next]_vars => Inv'
  <1> SUFFICES ASSUME Inv, [Next]_vars PROVE Inv'
    OBVIOUS
  <1>1. ASSUME NEW t \in Clients, NEW s \in Pairs, CloseClient(t, s) PROVE Inv'
    BY <1>1, CloseKeepsInv, Kinds
  <1>2. ASSUME NEW t \in Servers, NEW s \in Pairs, CloseServer(t, s) PROVE Inv'
    BY <1>2, CloseKeepsInv, Kinds
  <1>3. ASSUME NEW t \in Threads,
               ThreadWakeupCallback(t) \/ HleEvent(t) \/ Stop(t) \/ ThreadDestroyed(t) PROVE Inv'
    BY <1>3, ThreadStepKeepsInv
  <1> QED
    BY <1>1, <1>2, <1>3, ConnectKeepsInv, CreateSessionKeepsInv, AcceptKeepsInv,
       SendSyncRequestKeepsInv, ReplyFailsKeepsInv, ReplyAndReceiveKeepsInv,
       ClientDestroyedKeepsInv, ServerDestroyedKeepsInv, WakeNextKeepsInv, WakeEndsKeepsInv, Kinds
       DEF Next

\* Inv holds in every reachable state.
LEMMA InvHolds == Spec => []Inv
  BY InitInv, StepInv, PTL DEF Spec

\* Whatever threads send, answer, close and die: every request is in one
\* place, its thread sleeps until it is answered, and a session whose client
\* is gone has none.
THEOREM RequestsAreExact == Spec => []RequestsExact
  <1>1. Inv => RequestsExact
    BY DEF Inv
  <1> QED
    BY <1>1, InvHolds, PTL

-----------------------------------------------------------------------------
\* The pairs that may exist at a time are finitely many.
FinitelyMany == IsFiniteSet(Pairs)

\* A port's sessions are finitely many.
LEMMA TakenFinite ==
    ASSUME FinitelyMany, NEW p
    PROVE  IsFiniteSet(Taken(p)) /\ Cardinality(Taken(p)) \in Nat
  <1>1. Taken(p) \in SUBSET Pairs
    BY DEF Taken
  <1> QED
    BY <1>1, FS_Subset, FS_CardinalityType DEF FinitelyMany

\* A step that neither makes nor ends a server endpoint keeps the count.
LEMMA SameCount ==
    ASSUME CountOK, UNCHANGED <<active_sessions, server, port>>
    PROVE  CountOK'
  BY DEF CountOK, Taken

\* Connect takes a slot.
LEMMA ConnectKeepsCount ==
    ASSUME FinitelyMany, Inv, CountOK, NEW t \in Clients, NEW p \in Ports, NEW s \in Pairs,
           NEW handle \in BOOLEAN, ConnectToPort(t, p, s, handle)
    PROVE  CountOK'
  <1>1. /\ CreateSessionPair(s, p)
        /\ active_sessions' = [active_sessions EXCEPT ![p] = @ + 1]
    BY DEF ConnectToPort, Connect
  <1>2. /\ server'[s] /\ port'[s] = p /\ ~server[s]
        /\ \A u \in Pairs : u # s => server'[u] = server[u] /\ port'[u] = port[u]
    BY <1>1, CreatePairKeepsTypes
  <1>3. ASSUME NEW q \in Ports
        PROVE  active_sessions'[q] = Cardinality({u \in Pairs : server'[u] /\ port'[u] = q})
    <2>0. active_sessions[q] = Cardinality(Taken(q)) /\ active_sessions \in [Ports -> Int]
      BY DEF CountOK, Inv, TypesOK
    <2>1. CASE q = p
      <3>1. {u \in Pairs : server'[u] /\ port'[u] = q} = Taken(q) \cup {s} /\ s \notin Taken(q)
        BY <1>2, <2>1 DEF Taken
      <3>2. Cardinality(Taken(q) \cup {s}) = Cardinality(Taken(q)) + 1
        BY <3>1, TakenFinite, FS_AddElement
      <3> QED
        BY <1>1, <2>0, <2>1, <3>1, <3>2
    <2>2. CASE q # p
      <3>1. {u \in Pairs : server'[u] /\ port'[u] = q} = Taken(q)
        BY <1>2, <2>2 DEF Taken
      <3> QED
        BY <1>1, <2>0, <2>2, <3>1
    <2> QED
      BY <2>1, <2>2
  <1> QED
    BY <1>3 DEF CountOK, Taken

\* A session of CreateSession has no port.
LEMMA CreateSessionKeepsCount ==
    ASSUME Inv, CountOK, NEW t \in Servers, NEW s \in Pairs, NEW for_server \in BOOLEAN,
           NEW for_client \in BOOLEAN, CreateSession(t, s, for_server, for_client)
    PROVE  CountOK'
  <1>1. CreateSessionPair(s, None) /\ UNCHANGED active_sessions
    BY DEF CreateSession, portVars
  <1>2. /\ port'[s] = None /\ ~server[s]
        /\ \A u \in Pairs : u # s => server'[u] = server[u] /\ port'[u] = port[u]
    BY <1>1, CreatePairKeepsTypes
  <1>3. \A q \in Ports : {u \in Pairs : server'[u] /\ port'[u] = q} = Taken(q)
    BY <1>2, Kinds DEF Taken
  <1> QED
    BY <1>1, <1>3 DEF CountOK, Taken

\* ~ServerSession gives the slot back.
LEMMA ServerDestroyedKeepsCount ==
    ASSUME FinitelyMany, Inv, CountOK, NEW s \in Pairs, ServerDestroyed(s)
    PROVE  CountOK'
  <1>1. /\ server[s] /\ server' = [server EXCEPT ![s] = FALSE] /\ UNCHANGED port
        /\ active_sessions' = [q \in Ports |-> active_sessions[q] - IF q = port[s] THEN 1 ELSE 0]
    BY DEF ServerDestroyed, ConnectionClosed
  <1>2. ~server'[s] /\ \A u \in Pairs : u # s => server'[u] = server[u]
    BY <1>1 DEF Inv, TypesOK
  <1>3. ASSUME NEW q \in Ports
        PROVE  active_sessions'[q] = Cardinality({u \in Pairs : server'[u] /\ port'[u] = q})
    <2>0. active_sessions[q] = Cardinality(Taken(q)) /\ active_sessions[q] \in Int
      BY DEF CountOK, Inv, TypesOK
    <2>1. CASE q = port[s]
      <3>1. {u \in Pairs : server'[u] /\ port'[u] = q} = Taken(q) \ {s} /\ s \in Taken(q)
        BY <1>1, <1>2, <2>1 DEF Taken
      <3>2. Cardinality(Taken(q) \ {s}) = Cardinality(Taken(q)) - 1
        BY <3>1, TakenFinite, FS_RemoveElement
      <3> QED
        BY <1>1, <2>0, <2>1, <3>1, <3>2
    <2>2. CASE q # port[s]
      <3>1. {u \in Pairs : server'[u] /\ port'[u] = q} = Taken(q)
        BY <1>1, <1>2, <2>2 DEF Taken
      <3>2. active_sessions'[q] = active_sessions[q]
        BY <1>1, <2>0, <2>2
      <3> QED
        BY <2>0, <3>1, <3>2
    <2> QED
      BY <2>1, <2>2
  <1> QED
    BY <1>3 DEF CountOK, Taken

\* Every step keeps the count.
LEMMA StepCount ==
    ASSUME FinitelyMany, Inv, CountOK, [Next]_vars
    PROVE  CountOK'
  <1>1. ASSUME NEW t \in Threads, NEW s \in Pairs,
               \/ \E p \in Ports, handle \in BOOLEAN : AcceptSession(t, p, s, handle)
               \/ CloseClient(t, s) \/ CloseServer(t, s) \/ SendSyncRequest(t, s) \/ ReplyFails(t, s)
        PROVE  CountOK'
    BY <1>1, SameCount DEF AcceptSession, CloseClient, CloseServer, SendSyncRequest, ReplyFails,
                           portVars, endVars
  <1>2. ASSUME NEW t \in Threads,
               \/ ThreadWakeupCallback(t) \/ HleEvent(t) \/ WakeNext(t) \/ Stop(t) \/ ThreadDestroyed(t)
        PROVE  CountOK'
    BY <1>2, SameCount DEF ThreadWakeupCallback, HleEvent, WakeNext, Stop, ThreadDestroyed,
                           portVars, endVars
  <1>3. ASSUME NEW t \in Servers, NEW target \in Pairs \cup {None}, NEW objects \in SUBSET Objects,
               ReplyAndReceive(t, target, objects)
        PROVE  CountOK'
    BY <1>3, SameCount DEF ReplyAndReceive, portVars, endVars
  <1>4. ASSUME NEW s \in Pairs, ClientDestroyed(s) PROVE CountOK'
    BY <1>4, SameCount DEF ClientDestroyed, portVars
  <1>5. CASE WakeEnds \/ UNCHANGED vars
    BY <1>5, SameCount DEF WakeEnds, vars, portVars, endVars
  <1> QED
    BY <1>1, <1>2, <1>3, <1>4, <1>5, ConnectKeepsCount, CreateSessionKeepsCount,
       ServerDestroyedKeepsCount, Kinds DEF Next

\* Between calls the endpoints that exist are those somebody refers to.
LEMMA TakenReferenced ==
    ASSUME Inv, Quiet, NEW p \in Ports
    PROVE  Taken(p) =
             {s \in Pairs :
               /\ port[s] = p
               /\ \/ server_handle[s] \/ Holds(pending_sessions[p], s)
                  \/ p \in HlePorts /\ client_handle[s]
                  \/ \E t \in Threads : s \in wait_objects[t] \/ context[t] = s}
  <1> SUFFICES ASSUME NEW s \in Pairs, port[s] = p
               PROVE  server[s] <=>
                        \/ server_handle[s] \/ Holds(pending_sessions[p], s)
                        \/ p \in HlePorts /\ client_handle[s]
                        \/ \E t \in Threads : s \in wait_objects[t] \/ context[t] = s
    BY DEF Taken
  <1>1. /\ client[s] => client_handle[s]
        /\ server[s] => ServerReferenced(s)
    BY DEF Quiet
  <1>2. /\ client_handle[s] => client[s]
        /\ server_handle[s] \/ hle_handler[s] => server[s]
        /\ hle_handler[s] <=> client[s] /\ port[s] \in HlePorts
        /\ \A q \in Ports : Holds(pending_sessions[q], s) => server[s] /\ port[s] = q
        /\ \A t \in Threads : s \in wait_objects[t] \/ context[t] = s => server[s]
    BY DEF Inv, EndsOK
  <1> QED
    BY <1>1, <1>2 DEF ServerReferenced

\* The slots of a port are exactly those of the sessions somebody can still
\* use or end, through handles that could not be created, clients that leave
\* early and threads that die.
THEOREM SlotsAreReturned == ASSUME FinitelyMany PROVE Spec => []SlotsReturned
  <1>1. Init => CountOK
    <2> SUFFICES ASSUME Init PROVE CountOK
      OBVIOUS
    <2>1. \A p \in Ports : Taken(p) = {} /\ active_sessions[p] = 0
      BY DEF Init, Taken
    <2> QED
      BY <2>1, FS_EmptySet DEF CountOK
  <1>2. Inv /\ CountOK /\ [Next]_vars => CountOK'
    BY StepCount
  <1>3. Inv /\ CountOK => SlotsReturned
    BY TakenReferenced DEF CountOK, SlotsReturned
  <1> QED
    BY <1>1, <1>2, <1>3, InvHolds, PTL DEF Spec

-----------------------------------------------------------------------------
\* One thread serves the ports and sessions.
OneServer == \A t, u \in Servers : t = u

\* While a server thread runs, nobody waits for an object.
LEMMA NobodyWaits ==
    ASSUME OneServer, Inv, NEW t \in Servers, status[t] = "Run"
    PROVE  \A u \in Threads : wait_objects[u] = {}
  BY Kinds DEF OneServer, Inv, SleepersOK

\* A step after which everybody who waits did so before, and the availability
\* of nothing changed but that of the object which is being woken for.
LEMMA SameAvailability ==
    ASSUME WaitersOK,
           \A t \in Threads : wait_objects'[t] = wait_objects[t] \/ wait_objects'[t] = {},
           \A t \in Threads : \A o \in wait_objects[t] : o # waking' =>
             o # waking /\ (ShouldWait(o, currently_handling) => ShouldWait(o, currently_handling)')
    PROVE  WaitersOK'
  <1> SUFFICES ASSUME NEW t \in Threads, NEW o \in wait_objects'[t], o # waking'
               PROVE  ShouldWait(o, currently_handling)'
    BY DEF WaitersOK
  <1>1. o \in wait_objects[t]
    OBVIOUS
  <1> QED
    BY <1>1 DEF WaitersOK

\* The steps of a server thread, which finds nobody asleep.
LEMMA ServerStepKeepsWaiters ==
    ASSUME OneServer, Inv, NEW t \in Servers, status[t] = "Run", UNCHANGED wait_objects
    PROVE  WaitersOK'
  BY NobodyWaits DEF WaitersOK

\* The server that goes to sleep has found its objects unavailable.
LEMMA ReplyAndReceiveKeepsWaiters ==
    ASSUME OneServer, Inv, NEW t \in Servers, NEW target \in Pairs \cup {None},
           NEW objects \in SUBSET Objects, ReplyAndReceive(t, target, objects)
    PROVE  WaitersOK'
  <1>1. status[t] = "Run" /\ UNCHANGED <<client, pending_sessions>> /\ t \in Threads
    BY ReplyAndReceiveParts, Kinds
  <1>2. CASE UNCHANGED wait_objects
    BY <1>1, <1>2, ServerStepKeepsWaiters
  <1>3. CASE /\ \A o \in objects : ShouldWait(o, AfterReply(target))
             /\ currently_handling' = AfterReply(target)
             /\ wait_objects' = [wait_objects EXCEPT ![t] = objects]
             /\ UNCHANGED pending_requesting_threads
    <2>1. \A u \in Threads : wait_objects[u] = {}
      BY <1>1, NobodyWaits
    <2>2. wait_objects'[t] = objects /\ \A u \in Threads : u # t => wait_objects'[u] = {}
      BY <1>1, <1>3, <2>1 DEF Inv, TypesOK
    <2>3. \A o \in objects : ShouldWait(o, currently_handling)'
      BY <1>1, <1>3 DEF ShouldWait
    <2> QED
      BY <2>2, <2>3 DEF WaitersOK
  <1> QED
    BY <1>2, <1>3, ReplyAndReceiveParts

\* What threads wait for are objects, and the pairs among them have their
\* server endpoint.
LEMMA WaitedFor ==
    ASSUME Inv, NEW t \in Threads, NEW o \in wait_objects[t]
    PROVE  /\ o \in Objects
           /\ o \in Pairs => server[o]
  BY DEF Inv, TypesOK, EndsOK

\* A new session is announced to those who wait for its port.
LEMMA ConnectKeepsWaiters ==
    ASSUME Inv, WaitersOK, NEW t \in Clients, NEW p \in Ports, NEW s \in Pairs,
           NEW handle \in BOOLEAN, ConnectToPort(t, p, s, handle)
    PROVE  WaitersOK'
  <1>1. /\ CreateSessionPair(s, p) /\ waking = None /\ waking' = p
        /\ UNCHANGED <<wait_objects, pending_requesting_threads, currently_handling>>
        /\ \A q \in Ports : q # p => pending_sessions'[q] = pending_sessions[q]
    BY DEF ConnectToPort, Connect, Calls, Quiet, threadVars, requestVars, Inv, TypesOK
  <1>2. ~server[s] /\ \A u \in Pairs : u # s => client'[u] = client[u]
    BY <1>1, CreatePairKeepsTypes
  <1>3. ASSUME NEW r \in Threads, NEW o \in wait_objects[r], o # p
        PROVE  /\ o # None
               /\ ShouldWait(o, currently_handling) => ShouldWait(o, currently_handling)'
    BY <1>1, <1>2, <1>3, WaitedFor, Kinds DEF ShouldWait
  <1> QED
    BY <1>1, <1>3, SameAvailability

\* The end of a client endpoint is announced to those who wait for its pair.
LEMMA ClientDestroyedKeepsWaiters ==
    ASSUME Inv, WaitersOK, NEW s \in Pairs, ClientDestroyed(s)
    PROVE  WaitersOK'
  <1>1. /\ waking = None /\ waking' = IF server[s] THEN s ELSE None
        /\ UNCHANGED <<wait_objects, pending_sessions>>
        /\ \A u \in Pairs : u # s =>
             /\ client'[u] = client[u] /\ currently_handling'[u] = currently_handling[u]
             /\ pending_requesting_threads'[u] = pending_requesting_threads[u]
    BY DEF ClientDestroyed, threadVars, portVars, Inv, TypesOK
  <1>2. ASSUME NEW r \in Threads, NEW o \in wait_objects[r], o # waking'
        PROVE  /\ o # None /\ o # s
               /\ ShouldWait(o, currently_handling) => ShouldWait(o, currently_handling)'
    <2>1. o # None /\ o # s
      BY <1>1, <1>2, WaitedFor, Kinds
    <2> QED
      BY <1>1, <2>1, WaitedFor, Kinds DEF ShouldWait
  <1> QED
    BY <1>1, <1>2, SameAvailability

\* Nobody waits for a server endpoint that ends.
LEMMA ServerDestroyedKeepsWaiters ==
    ASSUME Inv, WaitersOK, NEW s \in Pairs, ServerDestroyed(s)
    PROVE  WaitersOK'
  <1>1. /\ waking = None /\ ~ServerReferenced(s)
        /\ UNCHANGED <<wait_objects, pending_sessions, client, waking>>
        /\ \A u \in Pairs : u # s =>
             /\ currently_handling'[u] = currently_handling[u]
             /\ pending_requesting_threads'[u] = pending_requesting_threads[u]
    BY DEF ServerDestroyed, threadVars, Inv, TypesOK
  <1>2. ASSUME NEW r \in Threads, NEW o \in wait_objects[r]
        PROVE  /\ o # None
               /\ ShouldWait(o, currently_handling) => ShouldWait(o, currently_handling)'
    <2>1. o # s
      BY <1>1 DEF ServerReferenced
    <2> QED
      BY <1>1, <2>1, WaitedFor, Kinds DEF ShouldWait
  <1> QED
    BY <1>1, <1>2, SameAvailability

\* A request is announced to those who wait for its session.
LEMMA SendSyncRequestKeepsWaiters ==
    ASSUME Inv, WaitersOK, NEW t \in Clients, NEW s \in Pairs, SendSyncRequest(t, s)
    PROVE  WaitersOK'
  <1>1. /\ waking = None /\ waking' = s
        /\ UNCHANGED <<wait_objects, pending_sessions, client, currently_handling>>
        /\ \A u \in Pairs : u # s =>
             pending_requesting_threads'[u] = pending_requesting_threads[u]
    BY DEF SendSyncRequest, HandleSyncRequest, Calls, Quiet, portVars, endVars, Inv, TypesOK
  <1>2. ASSUME NEW r \in Threads, NEW o \in wait_objects[r], o # s
        PROVE  /\ o # None
               /\ ShouldWait(o, currently_handling) => ShouldWait(o, currently_handling)'
    BY <1>1, <1>2, WaitedFor, Kinds DEF ShouldWait
  <1> QED
    BY <1>1, <1>2, SameAvailability

\* A round of the wake loop changes its own object, and its end leaves nobody
\* who could have been woken.
LEMMA WakeNextKeepsWaiters ==
    ASSUME Inv, WaitersOK, NEW t \in Threads, WakeNext(t)
    PROVE  WaitersOK'
  <1>1. /\ UNCHANGED <<client, pending_sessions, waking>> /\ waking \in Objects
        /\ wait_objects' = [wait_objects EXCEPT ![t] = {}]
        /\ ~ShouldWait(waking, currently_handling) /\ Acquire(waking, currently_handling)
    BY DEF WakeNext, portVars, endVars, Inv, TypesOK
  <1>2. \A u \in Threads : wait_objects'[u] = wait_objects[u] \/ wait_objects'[u] = {}
    BY <1>1 DEF Inv, TypesOK
  <1>3. \A s \in Pairs : s # waking =>
          /\ pending_requesting_threads'[s] = pending_requesting_threads[s]
          /\ currently_handling'[s] = currently_handling[s]
    BY <1>1, AcquireProperties, RequestTypes, RequestsExactParts DEF Inv
  <1>4. ASSUME NEW r \in Threads, NEW o \in wait_objects[r], o # waking
        PROVE  ShouldWait(o, currently_handling) => ShouldWait(o, currently_handling)'
    BY <1>1, <1>3, <1>4, WaitedFor, Kinds DEF ShouldWait
  <1> QED
    BY <1>1, <1>2, <1>4, SameAvailability

\* The wake loop ends when nobody else can be woken.
LEMMA WakeEndsKeepsWaiters ==
    ASSUME Inv, WaitersOK, WakeEnds
    PROVE  WaitersOK'
  <1>1. /\ UNCHANGED <<client, pending_sessions, wait_objects, pending_requesting_threads,
                       currently_handling>>
        /\ \A t \in Threads : waking \in wait_objects[t] => ShouldWait(waking, currently_handling)
    BY DEF WakeEnds, portVars, endVars, threadVars, requestVars
  <1>2. \A t \in Threads : \A o \in wait_objects[t] : ShouldWait(o, currently_handling)
    BY <1>1 DEF WaitersOK
  <1> QED
    BY <1>1, <1>2 DEF WaitersOK, ShouldWait

\* The steps of threads that change no object.
LEMMA QuietStepKeepsWaiters ==
    ASSUME WaitersOK, UNCHANGED <<client, pending_sessions, waking>>, UNCHANGED requestVars,
           \A t \in Threads : wait_objects'[t] = wait_objects[t] \/ wait_objects'[t] = {}
    PROVE  WaitersOK'
  BY SameAvailability DEF requestVars, ShouldWait, WaitersOK

\* Every step keeps WaitersOK.
LEMMA StepWaiters ==
    ASSUME OneServer, Inv, WaitersOK, [Next]_vars
    PROVE  WaitersOK'
  <1>1. ASSUME NEW t \in Servers, NEW s \in Pairs,
               \/ \E for_server, for_client \in BOOLEAN : CreateSession(t, s, for_server, for_client)
               \/ \E p \in Ports, handle \in BOOLEAN : AcceptSession(t, p, s, handle)
               \/ CloseServer(t, s) \/ ReplyFails(t, s)
        PROVE  WaitersOK'
    <2>1. status[t] = "Run" /\ UNCHANGED wait_objects
      BY <1>1 DEF CreateSession, AcceptSession, CloseServer, ReplyFails, Calls, threadVars
    <2> QED
      BY <2>1, ServerStepKeepsWaiters
  <1>2. ASSUME NEW t \in Threads, NEW s \in Pairs, CloseClient(t, s)
        PROVE  WaitersOK'
    BY <1>2, QuietStepKeepsWaiters DEF CloseClient, threadVars, portVars
  <1>3. ASSUME NEW t \in Threads,
               ThreadWakeupCallback(t) \/ HleEvent(t) \/ Stop(t) \/ ThreadDestroyed(t)
        PROVE  WaitersOK'
    <2>1. \A u \in Threads : wait_objects'[u] = wait_objects[u] \/ wait_objects'[u] = {}
      BY <1>3 DEF ThreadWakeupCallback, HleEvent, Stop, ThreadDestroyed, Inv, TypesOK
    <2> QED
      BY <1>3, <2>1, QuietStepKeepsWaiters
         DEF ThreadWakeupCallback, HleEvent, Stop, ThreadDestroyed, portVars, endVars
  <1>4. CASE UNCHANGED vars
    BY <1>4, QuietStepKeepsWaiters DEF vars, threadVars, portVars, endVars
  <1> QED
    BY <1>1, <1>2, <1>3, <1>4, ConnectKeepsWaiters, SendSyncRequestKeepsWaiters,
       ReplyAndReceiveKeepsWaiters, ClientDestroyedKeepsWaiters, ServerDestroyedKeepsWaiters,
       WakeNextKeepsWaiters, WakeEndsKeepsWaiters, Kinds DEF Next

\* The one thread that serves ports and sessions is told of every connection,
\* request and end of a client it waits for.
THEOREM RequestsAreNotLost == ASSUME OneServer PROVE Spec => []NoLostRequest
  <1>1. Init => WaitersOK
    BY DEF Init, WaitersOK
  <1>2. Inv /\ WaitersOK /\ [Next]_vars => WaitersOK'
    BY StepWaiters
  <1>3. Inv /\ WaitersOK => NoLostRequest
    <2> SUFFICES ASSUME Inv, WaitersOK, Quiet, NEW t \in Threads, NEW o \in wait_objects[t]
                 PROVE  ShouldWait(o, currently_handling)
      BY DEF NoLostRequest
    <2>1. o # waking
      BY WaitedFor, Kinds DEF Quiet
    <2> QED
      BY <2>1 DEF WaitersOK
  <1> QED
    BY <1>1, <1>2, <1>3, InvHolds, PTL DEF Spec

=============================================================================
