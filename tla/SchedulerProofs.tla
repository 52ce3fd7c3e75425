--------------------------- MODULE SchedulerProofs ---------------------------
(***************************************************************************)
(* For every number of threads and of priority levels: the ready queue is  *)
(* sorted and exact, its unguarded walk is safe, and Reschedule implements *)
(* the pool of ready threads.                                              *)
(***************************************************************************)
EXTENDS Scheduler, SequenceTheorems, TLAPS

-----------------------------------------------------------------------------
(* Deques as sets of threads without duplicates.                           *)

\* A deque that is empty holds nobody, and one that is not holds its front.
LEMMA EmptyDeque ==
    ASSUME NEW s \in Seq(Threads)
    PROVE  /\ s = << >> => \A u \in Threads : ~Occurs(u, s)
           /\ s # << >> => Head(s) \in Threads /\ Occurs(Head(s), s)
  BY DEF Occurs

\* push_back adds the thread and nothing else.
LEMMA PushBack ==
    ASSUME NEW s \in Seq(Threads), NEW t \in Threads
    PROVE  /\ Append(s, t) \in Seq(Threads)
           /\ \A u \in Threads : Occurs(u, Append(s, t)) <=> Occurs(u, s) \/ u = t
           /\ NoDuplicates(s) /\ ~Occurs(t, s) => NoDuplicates(Append(s, t))
  BY DEF Occurs, NoDuplicates

\* push_front adds the thread and nothing else.
LEMMA PushFront ==
    ASSUME NEW s \in Seq(Threads), NEW t \in Threads
    PROVE  /\ <<t>> \o s \in Seq(Threads)
           /\ \A u \in Threads : Occurs(u, <<t>> \o s) <=> Occurs(u, s) \/ u = t
           /\ NoDuplicates(s) /\ ~Occurs(t, s) => NoDuplicates(<<t>> \o s)
  <1> DEFINE r == <<t>> \o s
  <1>1. /\ r \in Seq(Threads) /\ Len(r) = Len(s) + 1 /\ Len(s) \in Nat
        /\ r[1] = t /\ \A i \in 2 .. Len(s) + 1 : r[i] = s[i - 1]
    OBVIOUS
  <1> HIDE DEF r
  <1>2. \A i \in 1 .. Len(s) : i + 1 \in 1 .. Len(r) /\ r[i + 1] = s[i]
    <2> TAKE i \in 1 .. Len(s)
    <2>1. i + 1 \in 2 .. Len(s) + 1 /\ (i + 1) - 1 = i
      BY <1>1
    <2> QED
      BY <1>1, <2>1
  <1>3. \A i \in 1 .. Len(r) : i # 1 => i - 1 \in 1 .. Len(s) /\ r[i] = s[i - 1]
    BY <1>1
  <1>4. 1 \in 1 .. Len(r)
    BY <1>1
  <1>5. \A u \in Threads : Occurs(u, r) <=> Occurs(u, s) \/ u = t
    BY <1>1, <1>2, <1>3, <1>4 DEF Occurs
  <1>6. ASSUME NoDuplicates(s), ~Occurs(t, s)
        PROVE  NoDuplicates(r)
    <2>1. \A i \in 1 .. Len(r) : i # 1 => r[i] # r[1]
      BY <1>1, <1>3, <1>6 DEF Occurs
    <2>2. SUFFICES ASSUME NEW i \in 1 .. Len(r), NEW j \in 1 .. Len(r), r[i] = r[j]
                   PROVE  i = j
      BY DEF NoDuplicates
    <2>3. CASE i # 1 /\ j # 1
      <3>1. i - 1 = j - 1
        BY <1>3, <1>6, <2>2, <2>3 DEF NoDuplicates
      <3> QED
        BY <1>1, <3>1
    <2> QED
      BY <2>1, <2>2, <2>3
  <1> QED
    BY <1>1, <1>5, <1>6 DEF r

\* pop_front takes the front and nothing else.
LEMMA PopFront ==
    ASSUME NEW s \in Seq(Threads), s # << >>, NoDuplicates(s)
    PROVE  /\ Tail(s) \in Seq(Threads)
           /\ \A u \in Threads : Occurs(u, Tail(s)) <=> Occurs(u, s) /\ u # Head(s)
           /\ NoDuplicates(Tail(s))
  <1>1. /\ Tail(s) \in Seq(Threads) /\ Len(Tail(s)) = Len(s) - 1
        /\ Len(s) \in Nat /\ Len(s) >= 1 /\ Head(s) = s[1]
        /\ \A i \in 1 .. Len(s) - 1 : Tail(s)[i] = s[i + 1]
    OBVIOUS
  <1>2. ASSUME NEW u \in Threads, Occurs(u, Tail(s))
        PROVE  Occurs(u, s) /\ u # Head(s)
    <2>1. PICK i \in 1 .. Len(s) - 1 : s[i + 1] = u
      BY <1>1, <1>2 DEF Occurs
    <2>2. i + 1 \in 1 .. Len(s) /\ 1 \in 1 .. Len(s) /\ i + 1 # 1
      BY <1>1
    <2> QED
      BY <1>1, <2>1, <2>2 DEF Occurs, NoDuplicates
  <1>3. ASSUME NEW u \in Threads, Occurs(u, s), u # Head(s)
        PROVE  Occurs(u, Tail(s))
    <2>1. PICK i \in 1 .. Len(s) : s[i] = u
      BY <1>3 DEF Occurs
    <2>2. i - 1 \in 1 .. Len(s) - 1 /\ (i - 1) + 1 = i
      BY <1>1, <1>3, <2>1
    <2> QED
      BY <1>1, <2>1, <2>2 DEF Occurs
  <1>4. NoDuplicates(Tail(s))
    <2>1. SUFFICES ASSUME NEW i \in 1 .. Len(s) - 1, NEW j \in 1 .. Len(s) - 1,
                          s[i + 1] = s[j + 1]
                   PROVE  i = j
      BY <1>1 DEF NoDuplicates
    <2>2. i + 1 \in 1 .. Len(s) /\ j + 1 \in 1 .. Len(s)
      BY <1>1
    <2>3. i + 1 = j + 1
      BY <2>1, <2>2 DEF NoDuplicates
    <2> QED
      BY <2>3
  <1> QED
    BY <1>1, <1>2, <1>3, <1>4

\* pop_back takes the back and nothing else.
LEMMA PopBack ==
    ASSUME NEW s \in Seq(Threads), s # << >>, NoDuplicates(s)
    PROVE  LET r == SubSeq(s, 1, Len(s) - 1)
           IN  /\ r \in Seq(Threads)
               /\ s[Len(s)] \in Threads /\ Occurs(s[Len(s)], s)
               /\ \A u \in Threads : Occurs(u, r) <=> Occurs(u, s) /\ u # s[Len(s)]
               /\ NoDuplicates(r)
  BY DEF Occurs, NoDuplicates

\* remove takes the thread and nothing else.
LEMMA RemoveThread ==
    ASSUME NEW s \in Seq(Threads), NEW t \in Threads, NoDuplicates(s)
    PROVE  /\ Without(s, t) \in Seq(Threads)
           /\ \A u \in Threads : Occurs(u, Without(s, t)) <=> Occurs(u, s) /\ u # t
           /\ NoDuplicates(Without(s, t))
  <1>1. CASE ~\E i \in 1 .. Len(s) : s[i] = t
    BY <1>1 DEF Occurs, Without
  <1>2. CASE \E i \in 1 .. Len(s) : s[i] = t
    <2> DEFINE k == CHOOSE i \in 1 .. Len(s) : s[i] = t
               r == SubSeq(s, 1, k - 1) \o SubSeq(s, k + 1, Len(s))
               at(j) == IF j < k THEN j ELSE j + 1
    <2>1. k \in 1 .. Len(s) /\ s[k] = t /\ Len(s) \in Nat
      BY <1>2
    <2>2. Without(s, t) = r
      BY <1>2 DEF Without
    <2> HIDE DEF k, r
    <2>3. /\ r \in Seq(Threads) /\ Len(r) = Len(s) - 1
          /\ \A j \in 1 .. Len(s) - 1 : r[j] = s[at(j)]
      <3> DEFINE a == SubSeq(s, 1, k - 1)
                 b == SubSeq(s, k + 1, Len(s))
      <3>1. /\ a \in Seq(Threads) /\ Len(a) = k - 1
            /\ \A j \in 1 .. k - 1 : a[j] = s[j]
        BY <2>1
      <3>2. /\ b \in Seq(Threads) /\ Len(b) = Len(s) - k
            /\ \A j \in 1 .. Len(s) - k : b[j] = s[j + k]
        BY <2>1
      <3> HIDE DEF a, b
      <3>3. /\ a \o b \in Seq(Threads) /\ Len(a \o b) = Len(a) + Len(b)
            /\ \A j \in 1 .. Len(a) + Len(b) :
                 (a \o b)[j] = IF j <= Len(a) THEN a[j] ELSE b[j - Len(a)]
        BY <3>1, <3>2, ConcatProperties
      <3>4. r = a \o b
        BY DEF r, a, b
      <3>5. ASSUME NEW j \in 1 .. Len(s) - 1
            PROVE  r[j] = s[at(j)]
        <4>1. CASE j < k
          <5>1. j \in 1 .. k - 1 /\ at(j) = j /\ j \in 1 .. Len(a) + Len(b) /\ j <= Len(a)
            BY <2>1, <3>1, <3>2, <4>1
          <5>2. r[j] = a[j]
            BY <3>3, <3>4, <5>1
          <5> QED
            BY <3>1, <5>1, <5>2
        <4>2. CASE j >= k
          <5>1. j - (k - 1) \in 1 .. Len(s) - k /\ (j - (k - 1)) + k = j + 1
            BY <2>1, <4>2
          <5>2. j \in 1 .. Len(a) + Len(b) /\ ~(j <= Len(a))
            BY <2>1, <3>1, <3>2, <4>2
          <5>3. r[j] = b[j - (k - 1)]
            BY <3>1, <3>3, <3>4, <5>2
          <5>4. b[j - (k - 1)] = s[j + 1] /\ at(j) = j + 1
            BY <2>1, <3>2, <4>2, <5>1
          <5> QED
            BY <5>3, <5>4
        <4> QED
          BY <2>1, <4>1, <4>2
      <3>6. Len(a) + Len(b) = Len(s) - 1
        BY <2>1, <3>1, <3>2
      <3> HIDE DEF at
      <3> QED
        BY <3>3, <3>4, <3>5, <3>6
    <2>4. \A j \in 1 .. Len(s) - 1 : at(j) \in 1 .. Len(s) /\ at(j) # k
      BY <2>1
    <2>5. \A i, j \in 1 .. Len(s) - 1 : at(i) = at(j) => i = j
      BY <2>1
    <2>6. \A i \in 1 .. Len(s) : i # k => \E j \in 1 .. Len(s) - 1 : at(j) = i
      <3> SUFFICES ASSUME NEW i \in 1 .. Len(s), i # k
                   PROVE  \E j \in 1 .. Len(s) - 1 : at(j) = i
        OBVIOUS
      <3>1. CASE i < k
        BY <2>1, <3>1
      <3>2. CASE i > k
        <4>1. i - 1 \in 1 .. Len(s) - 1 /\ at(i - 1) = i
          BY <2>1, <3>2
        <4> QED
          BY <4>1
      <3> QED
        BY <2>1, <3>1, <3>2
    <2> HIDE DEF at
    <2>7. \A u \in Threads : Occurs(u, r) <=> Occurs(u, s) /\ u # t
      BY <2>1, <2>3, <2>4, <2>6 DEF Occurs, NoDuplicates
    <2>8. NoDuplicates(r)
      <3>1. SUFFICES ASSUME NEW i \in 1 .. Len(s) - 1, NEW j \in 1 .. Len(s) - 1,
                            r[i] = r[j]
                     PROVE  i = j
        BY <2>3 DEF NoDuplicates
      <3>2. s[at(i)] = s[at(j)] /\ at(i) \in 1 .. Len(s) /\ at(j) \in 1 .. Len(s)
        BY <2>3, <2>4, <3>1
      <3>3. at(i) = at(j)
        BY <3>2 DEF NoDuplicates
      <3> QED
        BY <2>5, <3>3
    <2> QED
      BY <2>2, <2>3, <2>7, <2>8
  <1> QED
    BY <1>1, <1>2

-----------------------------------------------------------------------------
(* The inductive invariant.                                                *)

\* SetPriority, BoostPriority and CreateThread prepare the level before they
\* write it to current_priority.
Prepared ==
    \A t \in Threads : status[t] # "Unborn" => Linked(current_priority[t])

OneRunning == \A t \in Threads : status[t] = "Running" => t = current_thread

\* What is put aside is held back, was Ready and has left the queue.
AsideExact ==
    /\ NoDuplicates(unscheduled)
    /\ \A t \in Threads : Occurs(t, unscheduled) =>
         status[t] = "Ready" /\ ~can_schedule[t] /\ ~Occurs(t, data[current_priority[t]])
    /\ pc \in {"idle", "switch"} => unscheduled = << >>
    /\ pc \in {"restore", "switch"} /\ next # None /\ status[next] = "Ready" =>
         can_schedule[next] /\ ~Occurs(next, data[current_priority[next]])

\* The levels the walk has passed are empty, and it has not passed the level
\* of the running thread.
WalkExact ==
    pc = "pop" =>
      /\ stop = IF Running THEN current_priority[current_thread] ELSE Null
      /\ cur # Unlinked /\ (cur # Null => Linked(cur))
      /\ \A p \in Levels : cur = Null \/ p < cur => data[p] = << >>
      /\ stop # Null => cur # Null /\ cur <= stop

\* What the walk ends with is what the pool of ready threads allows.
ChoiceBest ==
    pc \in {"restore", "switch"} =>
      \/ /\ next \in Pool!Candidates
         /\ \A q \in Pool!Candidates : current_priority[next] <= current_priority[q]
      \/ Pool!Candidates = {} /\ next = IF Running THEN current_thread ELSE None

Inv == /\ TypeOK /\ LevelsChained /\ QueuesExact
       /\ Prepared /\ OneRunning /\ AsideExact /\ WalkExact /\ ChoiceBest

LinkTypes == /\ first \in Levels \cup {Null}
             /\ next_nonempty \in [Levels -> Levels \cup {Null, Unlinked}]

\* prepare keeps the chain sorted and complete, links the level and unlinks none.
LEMMA PrepareLevel ==
    ASSUME LinkTypes, LevelsChained, NEW p \in Levels, prepare(p)
    PROVE  /\ LinkTypes' /\ LevelsChained' /\ Linked(p)'
           /\ \A q \in Levels : Linked(q) => Linked(q)'
  <1> USE LevelsAssumption DEF Levels, Null, Unlinked, Linked, LinkTypes
  <1>1. CASE Linked(p)
    BY <1>1 DEF prepare, LevelsChained
  <1>2. CASE ~Linked(p) /\ \A i \in Levels : i < p => ~Linked(i)
    <2>1. next_nonempty' = [next_nonempty EXCEPT ![p] = first] /\ first' = p
      BY <1>2 DEF prepare, link
    <2> QED
      BY <1>2, <2>1 DEF LevelsChained
  <1>3. ASSUME ~Linked(p), NEW i \in Levels, i < p, Linked(i),
               \A j \in Levels : i < j /\ j < p => ~Linked(j),
               next_nonempty' = [next_nonempty EXCEPT ![p] = next_nonempty[i], ![i] = p],
               first' = first
        PROVE  /\ LinkTypes' /\ LevelsChained' /\ Linked(p)'
               /\ \A q \in Levels : Linked(q) => Linked(q)'
    <2>1. /\ next_nonempty'[p] = next_nonempty[i] /\ next_nonempty'[i] = p
          /\ \A q \in Levels : q # p /\ q # i => next_nonempty'[q] = next_nonempty[q]
          /\ \A q \in Levels : Linked(q)' <=> Linked(q) \/ q = p
          /\ LinkTypes'
      BY <1>3
    <2>2. next_nonempty[i] # Null => p < next_nonempty[i] /\ Linked(next_nonempty[i])
      BY <1>3 DEF LevelsChained
    <2>3. /\ first' = Null <=> \A q \in Levels : ~Linked(q)'
          /\ first' # Null => next_nonempty'[first'] # Unlinked
      BY <1>3, <2>1 DEF LevelsChained
    <2>4. ASSUME NEW q \in Levels, Linked(q)'
          PROVE  /\ first' <= q
                 /\ next_nonempty'[q] # Null =>
                      q < next_nonempty'[q] /\ Linked(next_nonempty[q])'
      BY <1>3, <2>1, <2>2, <2>4 DEF LevelsChained
    <2>5. ASSUME NEW q \in Levels, NEW r \in Levels, Linked(q)', Linked(r)', q < r
          PROVE  next_nonempty'[q] # Null /\ next_nonempty'[q] <= r
      <3>1. CASE q = p
        BY <1>3, <2>1, <2>5, <3>1 DEF LevelsChained
      <3>2. CASE q = i
        BY <1>3, <2>1, <2>5, <3>2 DEF LevelsChained
      <3>3. CASE q # p /\ q # i
        BY <1>3, <2>1, <2>5, <3>3 DEF LevelsChained
      <3> QED
        BY <3>1, <3>2, <3>3
    <2> QED
      BY <2>1, <2>3, <2>4, <2>5 DEF LevelsChained
  <1> QED
    BY <1>1, <1>2, <1>3 DEF prepare, link

-----------------------------------------------------------------------------
(* The same for the deques of all levels.                                  *)

Deques == [Levels -> Seq(Threads)]

Distinct(d) == \A q \in Levels : NoDuplicates(d[q])

\* push_back adds a thread to one level.
LEMMA PushBackAt ==
    ASSUME NEW d \in Deques, Distinct(d), NEW p \in Levels, NEW t \in Threads, ~Occurs(t, d[p])
    PROVE  LET e == [d EXCEPT ![p] = Append(@, t)]
           IN  /\ e \in Deques /\ Distinct(e)
               /\ \A q \in Levels, u \in Threads :
                    Occurs(u, e[q]) <=> Occurs(u, d[q]) \/ (q = p /\ u = t)
  <1>1. d[p] \in Seq(Threads) /\ NoDuplicates(d[p])
    BY DEF Deques, Distinct
  <1> QED
    BY <1>1, PushBack DEF Deques, Distinct

\* push_front adds a thread to one level.
LEMMA PushFrontAt ==
    ASSUME NEW d \in Deques, Distinct(d), NEW p \in Levels, NEW t \in Threads, ~Occurs(t, d[p])
    PROVE  LET e == [d EXCEPT ![p] = <<t>> \o @]
           IN  /\ e \in Deques /\ Distinct(e)
               /\ \A q \in Levels, u \in Threads :
                    Occurs(u, e[q]) <=> Occurs(u, d[q]) \/ (q = p /\ u = t)
  <1>1. d[p] \in Seq(Threads) /\ NoDuplicates(d[p])
    BY DEF Deques, Distinct
  <1> QED
    BY <1>1, PushFront DEF Deques, Distinct

\* remove takes a thread from one level.
LEMMA RemoveAt ==
    ASSUME NEW d \in Deques, Distinct(d), NEW p \in Levels, NEW t \in Threads
    PROVE  LET e == [d EXCEPT ![p] = Without(@, t)]
           IN  /\ e \in Deques /\ Distinct(e)
               /\ \A q \in Levels, u \in Threads :
                    Occurs(u, e[q]) <=> Occurs(u, d[q]) /\ ~(q = p /\ u = t)
  <1>1. d[p] \in Seq(Threads) /\ NoDuplicates(d[p])
    BY DEF Deques, Distinct
  <1> QED
    BY <1>1, RemoveThread DEF Deques, Distinct

\* Popping takes the front of one level.
LEMMA PopFrontAt ==
    ASSUME NEW d \in Deques, Distinct(d), NEW p \in Levels, d[p] # << >>
    PROVE  LET e == [d EXCEPT ![p] = Tail(@)]
           IN  /\ e \in Deques /\ Distinct(e)
               /\ \A q \in Levels, u \in Threads :
                    Occurs(u, e[q]) <=> Occurs(u, d[q]) /\ ~(q = p /\ u = Head(d[p]))
  <1>1. d[p] \in Seq(Threads) /\ NoDuplicates(d[p])
    BY DEF Deques, Distinct
  <1> QED
    BY <1>1, PopFront DEF Deques, Distinct

-----------------------------------------------------------------------------
(* The calls: pc is "idle" before and after, and nothing is put aside.     *)

\* What a call has to show of the state it leaves.
LEMMA CallKeeps ==
    ASSUME Inv, Call, TypeOK', LevelsChained', QueuesExact', Prepared', OneRunning'
    PROVE  Inv'
  <1>1. unscheduled' = << >> /\ pc' = "idle"
    BY DEF Inv, Call, AsideExact
  <1>2. AsideExact'
    <2>1. NoDuplicates(unscheduled') /\ \A u \in Threads : ~Occurs(u, unscheduled')
      BY <1>1 DEF NoDuplicates, Occurs
    <2> QED
      BY <1>1, <2>1 DEF AsideExact
  <1> QED
    BY <1>1, <1>2 DEF Inv, WalkExact, ChoiceBest

\* Outside Reschedule every Ready thread is queued.
LEMMA CallQueued ==
    ASSUME Inv, Call
    PROVE  /\ data \in Deques /\ Distinct(data) /\ LinkTypes
           /\ \A u \in Threads : status[u] = "Ready" => Occurs(u, data[current_priority[u]])
           /\ \A p \in Levels, u \in Threads :
                Occurs(u, data[p]) => status[u] = "Ready" /\ current_priority[u] = p
           /\ \A u \in Threads : ~Occurs(u, unscheduled)'
  <1>1. unscheduled = << >> /\ pc = "idle" /\ unscheduled' = unscheduled
    BY DEF Inv, Call, AsideExact
  <1>2. \A u \in Threads : ~Aside(u) /\ ~Occurs(u, unscheduled)'
    BY <1>1, EmptyDeque DEF Inv, TypeOK, Aside
  <1> QED
    BY <1>2 DEF Inv, QueuesExact, TypeOK, Deques, Distinct, LinkTypes

\* CreateThread, which prepares the level and queues the thread, keeps the invariant.
LEMMA CreateThreadKeeps ==
    ASSUME Inv, NEW t \in Threads, NEW p \in Levels, NEW make_ready \in BOOLEAN,
           CreateThread(t, p, make_ready)
    PROVE  Inv'
  <1>1. Call /\ status[t] = "Unborn" /\ prepare(p) /\ TypeOK /\ LevelsChained
    BY DEF CreateThread, Inv
  <1>2. /\ LinkTypes' /\ LevelsChained' /\ Linked(p)'
        /\ \A q \in Levels : Linked(q) => Linked(q)'
    BY <1>1, PrepareLevel DEF TypeOK, LinkTypes
  <1>3. /\ data' \in Deques /\ Distinct(data')
        /\ \A q \in Levels, u \in Threads :
             Occurs(u, data'[q]) <=> Occurs(u, data[q]) \/ (q = p /\ u = t /\ make_ready)
    <2>1. ~Occurs(t, data[p]) /\ data \in Deques /\ Distinct(data)
      BY <1>1, CallQueued
    <2>2. CASE make_ready
      <3>1. data' = [data EXCEPT ![p] = Append(@, t)]
        BY <2>2 DEF CreateThread, push_back
      <3> QED
        BY <2>1, <2>2, <3>1, PushBackAt
    <2>3. CASE ~make_ready
      BY <2>1, <2>3 DEF CreateThread
    <2> QED
      BY <2>2, <2>3
  <1>4. /\ status' = [status EXCEPT ![t] = IF make_ready THEN "Ready" ELSE "Wait"]
        /\ current_priority' = [current_priority EXCEPT ![t] = p]
        /\ UNCHANGED <<can_schedule, current_thread, unscheduled, pc, cur, stop, next>>
    BY DEF CreateThread, Call, popVars
  <1>5. TypeOK'
    BY <1>1, <1>2, <1>3, <1>4 DEF TypeOK, LinkTypes, Deques, Statuses
  <1>6. QueuesExact'
    BY <1>1, <1>3, <1>4, CallQueued DEF QueuesExact, Distinct, TypeOK
  <1>7. Prepared' /\ OneRunning'
    BY <1>1, <1>2, <1>4 DEF Inv, Prepared, OneRunning, TypeOK
  <1> QED
    BY <1>1, <1>2, <1>5, <1>6, <1>7, CallKeeps

\* A thread that goes to sleep, out of every queue, keeps the invariant.
LEMMA WaitKeeps ==
    ASSUME Inv, NEW t \in Threads, Wait(t)
    PROVE  Inv'
  <1>1. /\ Call /\ status[t] = "Running" /\ TypeOK /\ LevelsChained
        /\ status' = [status EXCEPT ![t] = "Wait"]
        /\ UNCHANGED <<first, next_nonempty, data, current_priority, can_schedule,
                       current_thread, unscheduled, pc, cur, stop, next>>
    BY DEF Wait, Inv, Call, queueVars, popVars
  <1>2. TypeOK' /\ LevelsChained'
    BY <1>1 DEF TypeOK, LevelsChained, Linked, Statuses
  <1>3. QueuesExact'
    BY <1>1, CallQueued DEF QueuesExact, Distinct, TypeOK
  <1>4. Prepared' /\ OneRunning'
    BY <1>1 DEF Inv, Prepared, OneRunning, TypeOK, Linked
  <1> QED
    BY <1>1, <1>2, <1>3, <1>4, CallKeeps

\* ResumeFromWait, which queues the thread at its priority or holds it back, keeps the invariant.
LEMMA ResumeFromWaitKeeps ==
    ASSUME Inv, NEW t \in Threads, ResumeFromWait(t)
    PROVE  Inv'
  <1>1. /\ Call /\ status[t] = "Wait" /\ TypeOK /\ LevelsChained
        /\ status' = [status EXCEPT ![t] = "Ready"]
        /\ UNCHANGED <<first, next_nonempty, current_priority, can_schedule,
                       current_thread, unscheduled, pc, cur, stop, next>>
    BY DEF ResumeFromWait, Inv, Call, popVars
  <1>2. /\ data' \in Deques /\ Distinct(data')
        /\ \A q \in Levels, u \in Threads : Occurs(u, data'[q]) <=>
             Occurs(u, data[q]) \/ (q = current_priority[t] /\ u = t)
    <2>1. /\ ~Occurs(t, data[current_priority[t]]) /\ current_priority[t] \in Levels
          /\ data \in Deques /\ Distinct(data)
      BY <1>1, CallQueued DEF TypeOK
    <2>2. data' = [data EXCEPT ![current_priority[t]] = Append(@, t)]
      BY DEF ResumeFromWait, push_back
    <2> QED
      BY <2>1, <2>2, PushBackAt
  <1>3. TypeOK' /\ LevelsChained'
    BY <1>1, <1>2 DEF TypeOK, LevelsChained, Linked, Statuses, Deques
  <1>4. QueuesExact'
    BY <1>1, <1>2, CallQueued DEF QueuesExact, Distinct, TypeOK
  <1>5. Prepared' /\ OneRunning'
    BY <1>1 DEF Inv, Prepared, OneRunning, TypeOK, Linked
  <1> QED
    BY <1>1, <1>3, <1>4, <1>5, CallKeeps

\* SetPriority and BoostPriority, which move a queued thread, keep the invariant.
LEMMA SetPriorityKeeps ==
    ASSUME Inv, NEW t \in Threads, NEW p \in Levels, SetPriority(t, p)
    PROVE  Inv'
  <1>1. /\ Call /\ status[t] # "Unborn" /\ prepare(p) /\ TypeOK /\ LevelsChained
        /\ current_priority' = [current_priority EXCEPT ![t] = p]
        /\ UNCHANGED <<status, can_schedule, current_thread, unscheduled, pc, cur, stop, next>>
    BY DEF SetPriority, Inv, Call, move, popVars
  <1>2. /\ LinkTypes' /\ LevelsChained' /\ Linked(p)'
        /\ \A q \in Levels : Linked(q) => Linked(q)'
    BY <1>1, PrepareLevel DEF TypeOK, LinkTypes
  <1>3. CASE status[t] # "Ready"
    <2>1. data' = data
      BY <1>3 DEF SetPriority
    <2>2. TypeOK'
      BY <1>1, <1>2, <2>1 DEF TypeOK, LinkTypes
    <2>3. QueuesExact'
      BY <1>1, <1>3, <2>1, CallQueued DEF QueuesExact, Distinct, TypeOK
    <2>4. Prepared' /\ OneRunning'
      BY <1>1, <1>2 DEF Inv, Prepared, OneRunning, TypeOK
    <2> QED
      BY <1>1, <1>2, <2>2, <2>3, <2>4, CallKeeps
  <1>4. CASE status[t] = "Ready"
    <2> DEFINE d == remove(current_priority[t], t)
    <2>1. data' = [d EXCEPT ![p] = Append(@, t)]
      BY <1>4 DEF SetPriority, move
    <2>2. /\ d \in Deques /\ Distinct(d)
          /\ \A q \in Levels, u \in Threads : Occurs(u, d[q]) <=> Occurs(u, data[q]) /\ u # t
      <3>1. /\ current_priority[t] \in Levels /\ data \in Deques /\ Distinct(data)
            /\ \A q \in Levels : Occurs(t, data[q]) => q = current_priority[t]
        BY <1>1, CallQueued DEF TypeOK
      <3>2. d = [data EXCEPT ![current_priority[t]] = Without(@, t)]
        BY DEF remove
      <3> QED
        BY <3>1, <3>2, RemoveAt
    <2> HIDE DEF d
    <2>3. /\ data' \in Deques /\ Distinct(data')
          /\ \A q \in Levels, u \in Threads : Occurs(u, data'[q]) <=>
               (Occurs(u, data[q]) /\ u # t) \/ (q = p /\ u = t)
      BY <2>1, <2>2, PushBackAt
    <2>4. TypeOK'
      BY <1>1, <1>2, <2>3 DEF TypeOK, LinkTypes, Deques
    <2>5. QueuesExact'
      BY <1>1, <1>4, <2>3, CallQueued DEF QueuesExact, Distinct, TypeOK
    <2>6. Prepared' /\ OneRunning'
      BY <1>1, <1>2 DEF Inv, Prepared, OneRunning, TypeOK
    <2> QED
      BY <1>1, <1>2, <2>4, <2>5, <2>6, CallKeeps
  <1> QED
    BY <1>3, <1>4

\* Stop, which takes a Ready thread out of its queue, keeps the invariant.
LEMMA StopKeeps ==
    ASSUME Inv, NEW t \in Threads, Stop(t)
    PROVE  Inv'
  <1>1. /\ Call /\ status[t] \notin {"Unborn", "Dead"} /\ TypeOK /\ LevelsChained
        /\ status' = [status EXCEPT ![t] = "Dead"]
        /\ UNCHANGED <<first, next_nonempty, current_priority, can_schedule,
                       current_thread, unscheduled, pc, cur, stop, next>>
    BY DEF Stop, Alive, Inv, Call, popVars
  <1>2. /\ data' \in Deques /\ Distinct(data')
        /\ \A q \in Levels, u \in Threads :
             Occurs(u, data'[q]) <=> Occurs(u, data[q]) /\ u # t
    <2>1. CASE status[t] = "Ready"
      <3>1. /\ current_priority[t] \in Levels /\ data \in Deques /\ Distinct(data)
            /\ \A q \in Levels : Occurs(t, data[q]) => q = current_priority[t]
        BY <1>1, CallQueued DEF TypeOK
      <3> DEFINE d == [data EXCEPT ![current_priority[t]] = Without(@, t)]
      <3>2. data' = d
        BY <2>1 DEF Stop, remove
      <3>3. /\ d \in Deques /\ Distinct(d)
            /\ \A q \in Levels, u \in Threads : Occurs(u, d[q]) <=>
                 Occurs(u, data[q]) /\ ~(q = current_priority[t] /\ u = t)
        BY <3>1, RemoveAt
      <3> HIDE DEF d
      <3> QED
        BY <3>1, <3>2, <3>3
    <2>2. CASE status[t] # "Ready"
      BY <1>1, <2>2, CallQueued DEF Stop
    <2> QED
      BY <2>1, <2>2
  <1>3. TypeOK' /\ LevelsChained'
    BY <1>1, <1>2 DEF TypeOK, LevelsChained, Linked, Statuses, Deques
  <1>4. QueuesExact'
    BY <1>1, <1>2, CallQueued DEF QueuesExact, Distinct, TypeOK
  <1>5. Prepared' /\ OneRunning'
    BY <1>1 DEF Inv, Prepared, OneRunning, TypeOK, Linked
  <1> QED
    BY <1>1, <1>3, <1>4, <1>5, CallKeeps

\* ControlProcess, which holds a thread back or lets it go, keeps the invariant.
LEMMA ControlProcessKeeps ==
    ASSUME Inv, NEW S \in SUBSET Threads, NEW schedule \in BOOLEAN, ControlProcess(S, schedule)
    PROVE  Inv'
  <1>1. /\ Call /\ TypeOK /\ LevelsChained
        /\ can_schedule' \in [Threads -> BOOLEAN]
        /\ UNCHANGED <<first, next_nonempty, data, status, current_priority,
                       current_thread, unscheduled, pc, cur, stop, next>>
    BY DEF ControlProcess, Inv, TypeOK, Call, queueVars, popVars
  <1>2. TypeOK' /\ LevelsChained'
    BY <1>1 DEF TypeOK, LevelsChained, Linked
  <1>3. QueuesExact'
    BY <1>1, CallQueued DEF QueuesExact, Distinct, TypeOK
  <1>4. Prepared' /\ OneRunning'
    BY <1>1 DEF Inv, Prepared, OneRunning, Linked
  <1> QED
    BY <1>1, <1>2, <1>3, <1>4, CallKeeps

-----------------------------------------------------------------------------
(* The steps of Reschedule.                                                *)

\* A level with a thread on it is linked.
LEMMA OccupiedLinked ==
    ASSUME Inv, NEW p \in Levels, data[p] # << >>
    PROVE  Linked(p)
  <1>1. data[p] \in Seq(Threads)
    BY DEF Inv, TypeOK
  <1>2. PICK t \in Threads : Occurs(t, data[p])
    BY <1>1, EmptyDeque
  <1> QED
    BY <1>2 DEF Inv, QueuesExact, Prepared

\* A walk that starts at first has passed no occupied level, and meets the
\* running thread's.
LEMMA WalkStarts ==
    ASSUME Inv
    PROVE  /\ first # Unlinked /\ (first # Null => Linked(first))
           /\ \A p \in Levels : first = Null \/ p < first => data[p] = << >>
           /\ Running => first # Null /\ first <= current_priority[current_thread]
  <1> USE LevelsAssumption DEF Levels, Null, Unlinked
  <1>1. first \in Levels \cup {Null} /\ LevelsChained
    BY DEF Inv, TypeOK
  <1>2. \A p \in Levels : first = Null \/ p < first => ~Linked(p)
    BY <1>1 DEF LevelsChained
  <1>3. \A p \in Levels : first = Null \/ p < first => data[p] = << >>
    BY <1>2, OccupiedLinked
  <1>4. ASSUME Running
        PROVE  first # Null /\ first <= current_priority[current_thread]
    <2>1. /\ current_priority[current_thread] \in Levels
          /\ Linked(current_priority[current_thread])
      BY <1>4, NoneAssumption DEF Running, Inv, TypeOK, Prepared
    <2> QED
      BY <1>1, <2>1 DEF LevelsChained
  <1> QED
    BY <1>1, <1>3, <1>4 DEF LevelsChained

\* Reschedule starts a walk whose every thread is still in its queue.
LEMMA RescheduleKeeps ==
    ASSUME Inv, Reschedule
    PROVE  Inv'
  <1>1. /\ pc = "idle" /\ pc' = "pop" /\ cur' = first
        /\ stop' = IF Running THEN current_priority[current_thread] ELSE Null
        /\ UNCHANGED <<first, next_nonempty, data, status, current_priority, can_schedule,
                       current_thread, unscheduled, next>>
    BY DEF Reschedule, queueVars, threadVars
  <1>2. Running' <=> Running
    BY <1>1 DEF Running
  <1>3. TypeOK' /\ LevelsChained' /\ Prepared' /\ OneRunning'
    BY <1>1, NoneAssumption
       DEF Inv, TypeOK, LevelsChained, Prepared, OneRunning, Linked, Running
  <1>4. QueuesExact' /\ AsideExact'
    BY <1>1 DEF Inv, QueuesExact, AsideExact, Aside
  <1>5. WalkExact'
    <2>1. current_priority[current_thread]' = current_priority[current_thread]
      BY <1>1
    <2>2. (Linked(cur) <=> Linked(first))'
      BY <1>1
    <2> QED
      BY <1>1, <1>2, <2>1, WalkStarts DEF WalkExact, Linked
  <1>6. ChoiceBest'
    BY <1>1 DEF ChoiceBest
  <1> QED
    BY <1>3, <1>4, <1>5, <1>6 DEF Inv

\* The candidates of the pool depend on the threads alone.
LEMMA SameCandidates ==
    ASSUME UNCHANGED threadVars
    PROVE  /\ Pool!Candidates' = Pool!Candidates /\ (Running' <=> Running)
           /\ current_thread' = current_thread /\ current_priority' = current_priority
           /\ status' = status /\ can_schedule' = can_schedule
  BY DEF threadVars, Pool!Candidates, Pool!Running, Running

\* While the walk goes on, a candidate is still in the queue.
LEMMA CandidateQueued ==
    ASSUME Inv, pc = "pop", NEW q \in Pool!Candidates
    PROVE  /\ q \in Threads /\ current_priority[q] \in Levels
           /\ Occurs(q, data[current_priority[q]]) /\ data[current_priority[q]] # << >>
  <1>1. q \in Threads /\ status[q] = "Ready" /\ can_schedule[q]
    BY DEF Pool!Candidates
  <1>2. ~Aside(q)
    BY <1>1 DEF Inv, AsideExact, Aside
  <1>3. Occurs(q, data[current_priority[q]]) /\ current_priority[q] \in Levels
    BY <1>1, <1>2 DEF Inv, QueuesExact, TypeOK
  <1> QED
    BY <1>1, <1>3, EmptyDeque DEF Inv, TypeOK

\* A step of the walk over an empty level keeps the invariant.
LEMMA PopSkipsKeeps ==
    ASSUME Inv, PopSkips
    PROVE  Inv'
  <1>1. /\ pc = "pop" /\ Continues /\ cur \in Levels /\ data[cur] = << >>
        /\ cur' = next_nonempty[cur]
        /\ UNCHANGED <<first, next_nonempty, data, unscheduled, pc, stop, next>>
        /\ UNCHANGED threadVars
    BY DEF PopSkips, queueVars
  <1>2. TypeOK' /\ LevelsChained' /\ Prepared' /\ OneRunning' /\ QueuesExact' /\ AsideExact'
    BY <1>1, SameCandidates
       DEF Inv, TypeOK, LevelsChained, Prepared, OneRunning, QueuesExact, AsideExact, Aside, Linked
  <1>3. WalkExact'
    <2>1. /\ stop = IF Running THEN current_priority[current_thread] ELSE Null
          /\ Linked(cur) /\ LevelsChained
          /\ \A p \in Levels : p < cur => data[p] = << >>
          /\ next_nonempty[cur] \in Levels \cup {Null, Unlinked}
      <3>1. cur # Null
        BY <1>1, LevelsAssumption DEF Levels, Null
      <3> QED
        BY <1>1, <3>1 DEF Inv, WalkExact, TypeOK
    <2> USE LevelsAssumption DEF Levels, Null, Unlinked
    <2>2. cur' # Unlinked /\ (cur' # Null => Linked(cur')) /\ (cur' # Null => cur < cur')
      BY <1>1, <2>1 DEF LevelsChained, Linked
    <2>3. \A p \in Levels : (cur' = Null \/ p < cur') /\ cur < p => ~Linked(p)
      BY <1>1, <2>1, <2>2 DEF LevelsChained
    <2>4. \A p \in Levels : cur' = Null \/ p < cur' => data[p] = << >>
      BY <1>1, <2>1, <2>3, OccupiedLinked
    <2>5. stop # Null => cur' # Null /\ cur' <= stop
      <3>1. ASSUME stop # Null
            PROVE  stop \in Levels /\ Linked(stop) /\ cur < stop
        BY <1>1, <2>1, <3>1, NoneAssumption
           DEF Continues, Running, Inv, TypeOK, Prepared
      <3> QED
        BY <1>1, <2>1, <3>1 DEF LevelsChained
    <2>6. current_priority[current_thread]' = current_priority[current_thread]
      BY <1>1, SameCandidates
    <2> QED
      BY <1>1, <2>1, <2>2, <2>4, <2>5, <2>6, SameCandidates DEF WalkExact, Linked
  <1>4. ChoiceBest'
    BY <1>1 DEF ChoiceBest
  <1> QED
    BY <1>2, <1>3, <1>4 DEF Inv

\* The thread at the front of cur, and the queue without it.
LEMMA PopTakesFront ==
    ASSUME Inv, PopTakes
    PROVE  LET t == Head(data[cur])
           IN  /\ t \in Threads /\ cur \in Levels /\ data[cur] # << >>
               /\ status[t] = "Ready" /\ current_priority[t] = cur
               /\ ~Occurs(t, unscheduled) /\ ~Occurs(t, data'[cur])
               /\ data' \in Deques /\ Distinct(data')
               /\ \A q \in Levels, u \in Threads :
                    Occurs(u, data'[q]) <=> Occurs(u, data[q]) /\ u # t
  <1> DEFINE t == Head(data[cur])
             d == [data EXCEPT ![cur] = Tail(@)]
  <1>1. /\ cur \in Levels /\ data[cur] # << >> /\ data' = d
        /\ data \in Deques /\ Distinct(data) /\ data[cur] \in Seq(Threads)
    BY DEF PopTakes, Inv, TypeOK, QueuesExact, Deques, Distinct
  <1>2. t \in Threads /\ Occurs(t, data[cur])
    BY <1>1, EmptyDeque
  <1>3. /\ d \in Deques /\ Distinct(d)
        /\ \A q \in Levels, u \in Threads :
             Occurs(u, d[q]) <=> Occurs(u, data[q]) /\ ~(q = cur /\ u = Head(data[cur]))
    BY <1>1, PopFrontAt
  <1> HIDE DEF t, d
  <1>4. /\ status[t] = "Ready" /\ current_priority[t] = cur
        /\ \A q \in Levels : Occurs(t, data[q]) => q = cur
    BY <1>1, <1>2 DEF Inv, QueuesExact
  <1>5. ~Occurs(t, unscheduled)
    BY <1>2, <1>4 DEF Inv, AsideExact
  <1>6. \A q \in Levels, u \in Threads : Occurs(u, d[q]) <=> Occurs(u, data[q]) /\ u # t
    BY <1>3, <1>4 DEF t
  <1> QED
    BY <1>1, <1>2, <1>3, <1>4, <1>5, <1>6 DEF t

\* A pop keeps the invariant: the thread is chosen, or set aside.
LEMMA PopTakesKeeps ==
    ASSUME Inv, PopTakes
    PROVE  Inv'
  <1> DEFINE t == Head(data[cur])
  <1>1. /\ pc = "pop" /\ Continues
        /\ UNCHANGED <<first, next_nonempty, stop>> /\ UNCHANGED threadVars
    BY DEF PopTakes
  <1>2. \/ /\ can_schedule[t] /\ next' = t /\ pc' = "restore"
           /\ cur' = cur /\ unscheduled' = unscheduled
        \/ /\ ~can_schedule[t] /\ unscheduled' = Append(unscheduled, t)
           /\ cur' = first /\ next' = next /\ pc' = "pop"
    BY <1>1 DEF PopTakes
  <1>3. /\ t \in Threads /\ cur \in Levels /\ data[cur] # << >>
        /\ status[t] = "Ready" /\ current_priority[t] = cur
        /\ ~Occurs(t, unscheduled) /\ ~Occurs(t, data'[cur])
        /\ data' \in Deques /\ Distinct(data')
        /\ \A q \in Levels, u \in Threads :
             Occurs(u, data'[q]) <=> Occurs(u, data[q]) /\ u # t
    BY PopTakesFront
  <1> HIDE DEF t
  <1>4. LevelsChained' /\ Prepared' /\ OneRunning'
    BY <1>1, SameCandidates
       DEF Inv, LevelsChained, Prepared, OneRunning, Linked
  <1>5. CASE can_schedule[t] /\ next' = t /\ pc' = "restore" /\ cur' = cur /\ unscheduled' = unscheduled
    <2>1. TypeOK'
      BY <1>1, <1>3, <1>5, SameCandidates DEF Inv, TypeOK, Deques
    <2>2. QueuesExact'
      BY <1>1, <1>3, <1>5, SameCandidates, NoneAssumption
         DEF Inv, QueuesExact, Aside, Distinct, TypeOK
    <2>3. AsideExact'
      BY <1>1, <1>3, <1>5, SameCandidates DEF Inv, AsideExact, TypeOK
    <2>4. ChoiceBest'
      <3>1. Running => cur < current_priority[current_thread]
        BY <1>1, <1>3, NoneAssumption, LevelsAssumption
           DEF Inv, WalkExact, Continues, Running, TypeOK, Levels, Null
      <3>2. t \in Pool!Candidates
        BY <1>3, <1>5, <3>1 DEF Pool!Candidates, Pool!Running, Running
      <3>3. ASSUME NEW q \in Pool!Candidates
            PROVE  current_priority[t] <= current_priority[q]
        <4>1. current_priority[q] \in Levels /\ data[current_priority[q]] # << >>
          BY <1>1, CandidateQueued
        <4>2. ~(current_priority[q] < cur)
          BY <1>1, <4>1 DEF Inv, WalkExact
        <4> QED
          BY <1>3, <4>1, <4>2, LevelsAssumption DEF Levels
      <3> QED
        BY <1>1, <1>5, <3>2, <3>3, SameCandidates DEF ChoiceBest
    <2>5. WalkExact'
      BY <1>5 DEF WalkExact
    <2> QED
      BY <1>4, <2>1, <2>2, <2>3, <2>4, <2>5 DEF Inv
  <1>6. CASE /\ ~can_schedule[t] /\ unscheduled' = Append(unscheduled, t)
             /\ cur' = first /\ next' = next /\ pc' = "pop"
    <2>1. /\ unscheduled' \in Seq(Threads) /\ NoDuplicates(unscheduled')
          /\ \A u \in Threads : Occurs(u, unscheduled') <=> Occurs(u, unscheduled) \/ u = t
      BY <1>3, <1>6, PushBack DEF Inv, TypeOK, AsideExact
    <2>2. TypeOK'
      BY <1>1, <1>3, <1>6, <2>1, SameCandidates DEF Inv, TypeOK, Deques
    <2>3. QueuesExact'
      BY <1>1, <1>3, <1>6, <2>1, SameCandidates DEF Inv, QueuesExact, Aside, Distinct, TypeOK
    <2>4. AsideExact'
      BY <1>1, <1>3, <1>6, <2>1, SameCandidates DEF Inv, AsideExact, TypeOK
    <2>5. WalkExact'
      <3>1. \A p \in Levels : data[p] = << >> => data'[p] = << >>
        <4> TAKE p \in Levels
        <4>1. data[p] \in Seq(Threads) /\ data'[p] \in Seq(Threads)
          BY <1>3 DEF Inv, TypeOK, Deques
        <4>2. \A u \in Threads : Occurs(u, data'[p]) => Occurs(u, data[p])
          BY <1>3
        <4> QED
          BY <4>1, <4>2, EmptyDeque
      <3>2. stop = IF Running THEN current_priority[current_thread] ELSE Null
        BY <1>1 DEF Inv, WalkExact
      <3>3. stop # Null => Running
        BY <3>2
      <3>4. current_priority[current_thread]' = current_priority[current_thread]
        BY <1>1, SameCandidates
      <3>5. Linked(cur)' <=> Linked(first)
        BY <1>1, <1>6 DEF Linked
      <3> QED
        BY <1>1, <1>6, <3>1, <3>2, <3>3, <3>4, <3>5, WalkStarts, SameCandidates DEF WalkExact
    <2>6. ChoiceBest'
      BY <1>6 DEF ChoiceBest
    <2> QED
      BY <1>4, <2>2, <2>3, <2>4, <2>5, <2>6 DEF Inv
  <1> QED
    BY <1>2, <1>5, <1>6

\* The end of the walk chooses the running thread or nobody, rightly.
LEMMA PopEndsKeeps ==
    ASSUME Inv, PopEnds
    PROVE  Inv'
  <1>1. /\ pc = "pop" /\ ~Continues /\ pc' = "restore"
        /\ next' = IF stop = Null THEN None ELSE current_thread
        /\ UNCHANGED <<first, next_nonempty, data, unscheduled, cur, stop>>
        /\ UNCHANGED threadVars
    BY DEF PopEnds, queueVars
  <1>2. stop = IF Running THEN current_priority[current_thread] ELSE Null
    BY <1>1 DEF Inv, WalkExact
  <1>3. (stop = Null <=> ~Running) /\ (Running => status[current_thread] = "Running")
    BY <1>2, NoneAssumption, LevelsAssumption DEF Running, Inv, TypeOK, Levels, Null
  <1>4. TypeOK' /\ LevelsChained' /\ Prepared' /\ OneRunning'
    BY <1>1, SameCandidates
       DEF Inv, TypeOK, LevelsChained, Prepared, OneRunning, Linked
  <1>5. QueuesExact' /\ AsideExact'
    BY <1>1, <1>3, SameCandidates
       DEF Inv, QueuesExact, AsideExact, Aside
  <1>6. ChoiceBest'
    <2>1. ASSUME NEW q \in Pool!Candidates
          PROVE  FALSE
      <3>1. current_priority[q] \in Levels /\ data[current_priority[q]] # << >>
        BY <1>1, CandidateQueued
      <3>2. cur # Null /\ ~(current_priority[q] < cur)
        BY <1>1, <3>1 DEF Inv, WalkExact
      <3>3. stop # Null /\ cur = stop
        BY <1>1, <3>2, LevelsAssumption DEF Continues, Inv, WalkExact, TypeOK, Levels, Null, Unlinked
      <3>4. current_priority[q] < stop
        BY <1>2, <1>3, <3>3 DEF Pool!Candidates, Pool!Running, Running
      <3> QED
        BY <3>2, <3>3, <3>4
    <2> QED
      BY <1>1, <1>3, <2>1, SameCandidates DEF ChoiceBest
  <1>7. WalkExact'
    BY <1>1 DEF WalkExact
  <1> QED
    BY <1>4, <1>5, <1>6, <1>7 DEF Inv

\* Putting a thread that was set aside back in its queue keeps the invariant.
LEMMA RestoreKeeps ==
    ASSUME Inv, Restore
    PROVE  Inv'
  <1>1. /\ pc = "restore" /\ pc' \in {"restore", "switch"}
        /\ UNCHANGED <<first, next_nonempty, cur, stop, next>> /\ UNCHANGED threadVars
    BY DEF Restore, popVars
  <1>2. LevelsChained' /\ Prepared' /\ OneRunning' /\ WalkExact' /\ ChoiceBest'
    BY <1>1, SameCandidates
       DEF Inv, LevelsChained, Prepared, OneRunning, Linked, WalkExact, ChoiceBest
  <1>3. CASE unscheduled = << >> /\ pc' = "switch" /\ data' = data /\ unscheduled' = unscheduled
    BY <1>1, <1>2, <1>3, SameCandidates DEF Inv, TypeOK, QueuesExact, AsideExact, Aside
  <1>4. CASE unscheduled # << >>
    <2> DEFINE t == unscheduled[Len(unscheduled)]
               d == [data EXCEPT ![current_priority[t]] = Append(@, t)]
    <2>1. unscheduled \in Seq(Threads) /\ NoDuplicates(unscheduled)
      BY DEF Inv, TypeOK, AsideExact
    <2>2. /\ data' = d /\ pc' = pc
          /\ unscheduled' = SubSeq(unscheduled, 1, Len(unscheduled) - 1)
      BY <1>4 DEF Restore, push_back
    <2>3. /\ unscheduled' \in Seq(Threads) /\ t \in Threads /\ Occurs(t, unscheduled)
          /\ \A u \in Threads : Occurs(u, unscheduled') <=> Occurs(u, unscheduled) /\ u # t
          /\ NoDuplicates(unscheduled')
      BY <1>4, <2>1, <2>2, PopBack
    <2> HIDE DEF t
    <2>4. /\ status[t] = "Ready" /\ ~can_schedule[t] /\ current_priority[t] \in Levels
          /\ ~Occurs(t, data[current_priority[t]])
          /\ data \in Deques /\ Distinct(data)
      BY <2>3 DEF Inv, AsideExact, TypeOK, Deques, Distinct, QueuesExact
    <2>5. /\ d \in Deques /\ Distinct(d)
          /\ \A q \in Levels, u \in Threads : Occurs(u, d[q]) <=>
               Occurs(u, data[q]) \/ (q = current_priority[t] /\ u = t)
      BY <2>3, <2>4, PushBackAt
    <2> HIDE DEF d
    <2>6. TypeOK'
      BY <1>1, <2>2, <2>3, <2>5, SameCandidates DEF Inv, TypeOK, Deques
    <2>7. QueuesExact'
      <3>1. ASSUME NEW q \in Levels, NEW u \in Threads, Occurs(u, d[q])
            PROVE  status[u] = "Ready" /\ current_priority[u] = q
        BY <2>4, <2>5, <3>1 DEF Inv, QueuesExact
      <3>2. ASSUME NEW u \in Threads, status[u] = "Ready"
            PROVE  Occurs(u, d[current_priority[u]]) \/ Occurs(u, unscheduled') \/ next = u
        <4>1. Occurs(u, data[current_priority[u]]) \/ Occurs(u, unscheduled) \/ next = u
          BY <3>2 DEF Inv, QueuesExact, Aside
        <4>2. current_priority[u] \in Levels
          BY DEF Inv, TypeOK
        <4> QED
          BY <2>3, <2>5, <4>1, <4>2
      <3> QED
        BY <1>1, <2>2, <2>5, <3>1, <3>2, SameCandidates DEF QueuesExact, Aside, Distinct
    <2>8. AsideExact'
      BY <1>1, <2>2, <2>3, <2>4, <2>5, SameCandidates DEF Inv, AsideExact, TypeOK
    <2> QED
      BY <1>2, <2>6, <2>7, <2>8 DEF Inv
  <1> QED
    BY <1>3, <1>4 DEF Restore

\* SwitchContext moves a Running thread that loses the core to the queue, and
\* nobody else.
LEMMA SwitchContextMoves ==
    ASSUME Inv, SwitchContext
    PROVE  /\ data' \in Deques /\ Distinct(data') /\ current_thread' = next
           /\ \A q \in Levels, u \in Threads : Occurs(u, data'[q]) <=>
                \/ Occurs(u, data[q])
                \/ Running /\ u = current_thread /\ u # next /\ q = current_priority[u]
           /\ Pool!GiveCoreTo(next)
  <1> DEFINE old     == current_thread
             pushed  == IF Running THEN push_front(current_priority[old], old) ELSE data
             demoted == IF Running THEN [status EXCEPT ![old] = "Ready"] ELSE status
  <1>1. /\ pc = "switch" /\ TypeOK /\ data \in Deques /\ Distinct(data)
        /\ unscheduled = << >>
        /\ UNCHANGED <<current_priority, can_schedule>>
    BY DEF SwitchContext, Inv, TypeOK, Deques, Distinct, QueuesExact, AsideExact
  <1>2. Running => old \in Threads /\ status[old] = "Running"
    BY <1>1 DEF Running, TypeOK
  <1>3. /\ pushed \in Deques /\ Distinct(pushed)
        /\ \A q \in Levels, u \in Threads : Occurs(u, pushed[q]) <=>
             Occurs(u, data[q]) \/ (Running /\ u = old /\ q = current_priority[old])
    <2>1. CASE Running
      <3>1. /\ old \in Threads /\ current_priority[old] \in Levels
            /\ ~Occurs(old, data[current_priority[old]])
        BY <1>1, <1>2, <2>1 DEF Inv, QueuesExact, TypeOK
      <3>2. pushed = [data EXCEPT ![current_priority[old]] = <<old>> \o @]
        BY <2>1 DEF push_front
      <3> HIDE DEF pushed, old
      <3> QED
        BY <1>1, <2>1, <3>1, <3>2, PushFrontAt
    <2>2. CASE ~Running
      BY <1>1, <2>2
    <2> QED
      BY <2>1, <2>2
  <1>4. CASE next = None
    <2>1. ~Running
      BY <1>1, <1>2, <1>4, NoneAssumption DEF Inv, ChoiceBest, Pool!Candidates
    <2>2. data' = data /\ status' = status /\ current_thread' = None
      BY <1>4, <2>1 DEF SwitchContext
    <2>3. \A t \in Threads : t # None /\ ~(t = current_thread /\ status[t] = "Running")
      BY <2>1, NoneAssumption DEF Running
    <2> QED
      BY <1>1, <1>4, <2>1, <2>2, <2>3 DEF Pool!GiveCoreTo, TypeOK
  <1>5. CASE next # None
    <2>1. /\ next \in Threads /\ current_priority[next] \in Levels
          /\ demoted[next] = "Ready" /\ current_thread' = next
          /\ data' = [pushed EXCEPT ![current_priority[next]] = Without(@, next)]
          /\ status' = [demoted EXCEPT ![next] = "Running"]
      BY <1>1, <1>5 DEF SwitchContext, TypeOK
    <2>2. \A q \in Levels : ~Occurs(next, data[q])
      <3>1. CASE status[next] = "Ready"
        BY <1>1, <1>5, <2>1, <3>1 DEF Inv, AsideExact, QueuesExact
      <3>2. CASE status[next] # "Ready"
        BY <2>1, <3>2 DEF Inv, QueuesExact
      <3> QED
        BY <3>1, <3>2
    <2>3. Pool!GiveCoreTo(next)
      <3>1. \A t \in Threads : status'[t] =
               IF t = next THEN "Running"
               ELSE IF t = current_thread /\ status[t] = "Running" THEN "Ready"
               ELSE status[t]
        BY <1>1, <1>2, <2>1, NoneAssumption DEF TypeOK, Running
      <3>2. status' = [t \in Threads |-> status'[t]]
        BY <1>1, <2>1 DEF TypeOK
      <3> QED
        BY <1>1, <2>1, <3>1, <3>2 DEF Pool!GiveCoreTo
    <2> DEFINE d == [pushed EXCEPT ![current_priority[next]] = Without(@, next)]
    <2> HIDE DEF pushed, old, demoted
    <2>4. /\ d \in Deques /\ Distinct(d)
          /\ \A q \in Levels, u \in Threads : Occurs(u, d[q]) <=>
               Occurs(u, pushed[q]) /\ ~(q = current_priority[next] /\ u = next)
      <3>1. /\ next \in Threads /\ current_priority[next] \in Levels
            /\ pushed \in Deques /\ Distinct(pushed)
        BY <1>3, <2>1
      <3> QED
        BY <3>1, RemoveAt
    <2>5. data' = d
      BY <2>1
    <2> HIDE DEF d
    <2>6. ASSUME NEW q \in Levels, NEW u \in Threads
          PROVE  Occurs(u, data'[q]) <=>
                   \/ Occurs(u, data[q])
                   \/ Running /\ u = current_thread /\ u # next /\ q = current_priority[u]
      BY <1>3, <2>2, <2>4, <2>5 DEF old
    <2> QED
      BY <2>1, <2>3, <2>4, <2>5, <2>6
  <1> QED
    BY <1>4, <1>5

\* SwitchContext gives the core to the choice and queues the thread it takes it from.
LEMMA SwitchContextKeeps ==
    ASSUME Inv, SwitchContext
    PROVE  Inv'
  <1>1. /\ pc = "switch" /\ pc' = "idle" /\ unscheduled = << >> /\ unscheduled' = << >>
        /\ cur' = Null /\ stop' = Null /\ next' = None
        /\ UNCHANGED <<first, next_nonempty, current_priority, can_schedule>>
        /\ next \in Threads \cup {None}
    BY DEF SwitchContext, Inv, AsideExact, TypeOK
  <1>2. /\ current_thread' = next
        /\ status' = [t \in Threads |->
                        IF t = next THEN "Running"
                        ELSE IF t = current_thread /\ status[t] = "Running" THEN "Ready"
                        ELSE status[t]]
    BY SwitchContextMoves DEF Pool!GiveCoreTo
  <1>3. /\ data' \in Deques /\ Distinct(data')
        /\ \A q \in Levels, u \in Threads : Occurs(u, data'[q]) <=>
             \/ Occurs(u, data[q])
             \/ Running /\ u = current_thread /\ u # next /\ q = current_priority[u]
    BY SwitchContextMoves
  <1>4. TypeOK' /\ LevelsChained'
    BY <1>1, <1>2, <1>3 DEF Inv, TypeOK, LevelsChained, Linked, Deques, Statuses
  <1>5. \A u \in Threads : ~Occurs(u, unscheduled)
    BY <1>1 DEF Occurs
  <1>6. QueuesExact'
    <2>1. \A q \in Levels : next \in Threads => ~Occurs(next, data[q])
      BY <1>1, NoneAssumption DEF Inv, AsideExact, QueuesExact
    <2>2. ASSUME NEW q \in Levels, NEW u \in Threads, Occurs(u, data'[q])
          PROVE  status'[u] = "Ready" /\ current_priority[u] = q
      BY <1>2, <1>3, <2>1, <2>2, NoneAssumption DEF Inv, QueuesExact, Running
    <2>3. ASSUME NEW u \in Threads, status'[u] = "Ready"
          PROVE  Occurs(u, data'[current_priority[u]])
      <3>1. u # next /\ current_priority[u] \in Levels
        BY <1>2, <2>3 DEF Inv, TypeOK
      <3>2. CASE u = current_thread /\ status[u] = "Running"
        BY <1>3, <3>1, <3>2, NoneAssumption DEF Running
      <3>3. CASE ~(u = current_thread /\ status[u] = "Running")
        <4>1. status[u] = "Ready" /\ ~Aside(u)
          BY <1>1, <1>2, <1>5, <2>3, <3>1, <3>3 DEF Aside
        <4> QED
          BY <1>3, <3>1, <4>1 DEF Inv, QueuesExact
      <3> QED
        BY <3>2, <3>3
    <2> QED
      BY <1>1, <1>3, <2>2, <2>3 DEF QueuesExact, Distinct
  <1>7. Prepared' /\ OneRunning'
    <2>1. ASSUME NEW u \in Threads, status'[u] # "Unborn"
          PROVE  Linked(current_priority[u])
      <3>1. u = next => status[u] # "Unborn"
        <4>1. \/ next \in Pool!Candidates
              \/ Running /\ next = current_thread
              \/ next = None
          BY <1>1 DEF Inv, ChoiceBest
        <4> QED
          BY <4>1, NoneAssumption DEF Running, Pool!Candidates
      <3> QED
        BY <1>2, <2>1, <3>1 DEF Inv, Prepared
    <2>2. \A u \in Threads : status'[u] = "Running" => u = next
      BY <1>2 DEF Inv, OneRunning
    <2> QED
      BY <1>1, <1>2, <2>1, <2>2 DEF Prepared, OneRunning, Linked
  <1>8. AsideExact' /\ WalkExact' /\ ChoiceBest'
    <2>1. NoDuplicates(unscheduled') /\ \A u \in Threads : ~Occurs(u, unscheduled')
      BY <1>1 DEF NoDuplicates, Occurs
    <2> QED
      BY <1>1, <2>1 DEF AsideExact, WalkExact, ChoiceBest
  <1> QED
    BY <1>4, <1>6, <1>7, <1>8 DEF Inv

-----------------------------------------------------------------------------
(* The theorems.                                                           *)

\* The invariant holds before the first thread is created.
LEMMA InitInv == Init => Inv
  <1> SUFFICES ASSUME Init PROVE Inv
    OBVIOUS
  <1> USE LevelsAssumption DEF Init, QueueInit, Levels, Null, Unlinked
  <1>1. TypeOK
    BY DEF TypeOK, Statuses
  <1>2. LevelsChained
    BY DEF LevelsChained, Linked
  <1>3. /\ \A p \in Levels : NoDuplicates(data[p]) /\ \A u \in Threads : ~Occurs(u, data[p])
        /\ NoDuplicates(unscheduled) /\ \A u \in Threads : ~Occurs(u, unscheduled)
    BY DEF NoDuplicates, Occurs
  <1>4. QueuesExact /\ AsideExact
    BY <1>3 DEF QueuesExact, AsideExact
  <1>5. Prepared /\ OneRunning /\ WalkExact /\ ChoiceBest
    BY DEF Prepared, OneRunning, WalkExact, ChoiceBest
  <1> QED
    BY <1>1, <1>2, <1>4, <1>5 DEF Inv

\* A step that changes nothing keeps the invariant.
LEMMA StutterKeeps ==
    ASSUME Inv, UNCHANGED vars
    PROVE  Inv'
  <1>1. /\ UNCHANGED <<first, next_nonempty, data, unscheduled, pc, cur, stop, next>>
        /\ UNCHANGED threadVars
    BY DEF vars, queueVars, popVars
  <1> QED
    BY <1>1, SameCandidates
       DEF Inv, TypeOK, LevelsChained, QueuesExact, Prepared, OneRunning, AsideExact,
           WalkExact, ChoiceBest, Aside, Linked

\* The invariant is inductive.
LEMMA NextInv == Inv /\ [Next]_vars => Inv'
  <1> SUFFICES ASSUME Inv, [Next]_vars PROVE Inv'
    OBVIOUS
  <1>1. CASE \E t \in Threads, p \in Levels, make_ready \in BOOLEAN : CreateThread(t, p, make_ready)
    BY <1>1, CreateThreadKeeps
  <1>2. CASE \E t \in Threads : Wait(t) \/ ResumeFromWait(t) \/ Stop(t)
    BY <1>2, WaitKeeps, ResumeFromWaitKeeps, StopKeeps
  <1>3. CASE \E t \in Threads, p \in Levels : SetPriority(t, p)
    BY <1>3, SetPriorityKeeps
  <1>4. CASE \E S \in SUBSET Threads, schedule \in BOOLEAN : ControlProcess(S, schedule)
    BY <1>4, ControlProcessKeeps
  <1>5. CASE RescheduleStep
    BY <1>5, RescheduleKeeps, PopTakesKeeps, PopSkipsKeeps, PopEndsKeeps, RestoreKeeps,
       SwitchContextKeeps DEF RescheduleStep
  <1>6. CASE UNCHANGED vars
    BY <1>6, StutterKeeps
  <1> QED
    BY <1>1, <1>2, <1>3, <1>4, <1>5, <1>6 DEF Next

\* The inductive invariant holds in every state of the scheduler.
THEOREM AlwaysInv == Spec => []Inv
  BY InitInv, NextInv, PTL DEF Spec

\* Whatever threads are created, woken, stopped, held back and given new
\* priorities, the ready queue holds exactly the Ready threads, each on the
\* level of its priority and once, for every number of threads and levels.
THEOREM QueueCorrect == Spec => []QueuesExact
  <1>1. Inv => QueuesExact
    BY DEF Inv
  <1> QED
    BY <1>1, AlwaysInv, PTL

\* The levels that prepare has linked form one ascending chain from first.
THEOREM ChainCorrect == Spec => []LevelsChained
  <1>1. Inv => LevelsChained
    BY DEF Inv
  <1> QED
    BY <1>1, AlwaysInv, PTL

\* pop_first_better never follows a null or an unlinked pointer, and the
\* thread that SwitchContext gets is Ready or runs already.
THEOREM WalkCorrect == Spec => []WalkAndSwitchSafe
  <1>1. ASSUME Inv PROVE WalkAndSwitchSafe
    <2>1. ASSUME pc = "pop", Continues PROVE cur \in Levels
      BY <1>1, <2>1 DEF Inv, WalkExact, Continues, TypeOK
    <2>2. ASSUME pc = "switch", next # None PROVE status[next] = "Ready" \/ next = current_thread
      BY <1>1, <2>2 DEF Inv, ChoiceBest, Pool!Candidates
    <2> QED
      BY <2>1, <2>2 DEF WalkAndSwitchSafe
  <1> QED
    BY <1>1, AlwaysInv, PTL

\* A step of the scheduler is a step of the pool of ready threads, or none:
\* SwitchContext is PoolReschedule, and Reschedule's loops stutter.
LEMMA StepRefines == Inv /\ [Next]_vars => [Pool!PoolNext]_(Pool!poolVars)
  <1> SUFFICES ASSUME Inv, [Next]_vars PROVE [Pool!PoolNext]_(Pool!poolVars)
    OBVIOUS
  <1> USE DEF Pool!poolVars
  <1>1. CASE \E t \in Threads, p \in Levels, make_ready \in BOOLEAN : CreateThread(t, p, make_ready)
    <2>1. PICK t \in Threads, p \in Levels, make_ready \in BOOLEAN : CreateThread(t, p, make_ready)
      BY <1>1
    <2> DEFINE to == IF make_ready THEN "Ready" ELSE "Wait"
    <2>2. to \in {"Ready", "Wait"} /\ p \in Pool!Levels
      BY DEF Levels, Pool!Levels
    <2>3. /\ Pool!PoolStatus(t, {"Unborn"}, to)
          /\ current_priority' = [current_priority EXCEPT ![t] = p]
      BY <2>1 DEF CreateThread, Call, Pool!PoolStatus
    <2> HIDE DEF to
    <2> QED
      BY <2>2, <2>3 DEF Pool!PoolNext
  <1>2. CASE \E t \in Threads : Wait(t) \/ ResumeFromWait(t) \/ Stop(t)
    <2>1. PICK t \in Threads : Wait(t) \/ ResumeFromWait(t) \/ Stop(t)
      BY <1>2
    <2>2. status[t] \in Statuses
      BY DEF Inv, TypeOK
    <2>3. /\ \/ t = current_thread /\ Pool!PoolStatus(t, {"Running"}, "Wait")
             \/ Pool!PoolStatus(t, {"Wait"}, "Ready")
             \/ Pool!PoolStatus(t, {"Ready", "Running", "Wait"}, "Dead")
          /\ UNCHANGED current_priority
      BY <2>1, <2>2 DEF Wait, ResumeFromWait, Stop, Call, Alive, Statuses, Pool!PoolStatus
    <2> QED
      BY <2>3 DEF Pool!PoolNext
  <1>3. CASE \E t \in Threads, p \in Levels : SetPriority(t, p)
    BY <1>3 DEF SetPriority, Call, Pool!PoolNext, Levels, Pool!Levels
  <1>4. CASE \E S \in SUBSET Threads, schedule \in BOOLEAN : ControlProcess(S, schedule)
    <2>1. /\ can_schedule' \in [Threads -> BOOLEAN]
          /\ UNCHANGED <<status, current_priority, current_thread>>
      BY <1>4 DEF ControlProcess, Call, Inv, TypeOK
    <2> QED
      BY <2>1 DEF Pool!PoolNext
  <1>5. CASE Reschedule \/ PopTakes \/ PopSkips \/ PopEnds \/ Restore
    BY <1>5 DEF Reschedule, PopTakes, PopSkips, PopEnds, Restore, threadVars
  <1>6. CASE SwitchContext
    <2>1. pc = "switch" /\ Pool!GiveCoreTo(next)
      BY <1>6, SwitchContextMoves DEF SwitchContext
    <2>2. Running <=> Pool!Running
      BY DEF Running, Pool!Running
    <2>3. Pool!PoolReschedule
      BY <2>1, <2>2 DEF Inv, ChoiceBest, Pool!PoolReschedule
    <2> QED
      BY <2>3 DEF Pool!PoolNext
  <1>7. CASE UNCHANGED vars
    BY <1>7 DEF vars, threadVars
  <1> QED
    BY <1>1, <1>2, <1>3, <1>4, <1>5, <1>6, <1>7 DEF Next, RescheduleStep

\* The ready queue implements the pool of ready threads: the core goes to a
\* best thread that may be scheduled, and preempts only for a better one.
THEOREM QueueRefinesPool == Spec => ImplementsReadyPool
  <1>1. Init => Pool!PoolInit
    BY DEF Init, Pool!PoolInit
  <1> QED
    BY <1>1, AlwaysInv, StepRefines, PTL DEF Spec, ImplementsReadyPool, Pool!PoolSpec

=============================================================================
