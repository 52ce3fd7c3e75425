------------------------------ MODULE Scheduler ------------------------------
(***************************************************************************)
(* ThreadManager, the scheduler of one core, on its ready queue: every     *)
(* change of a thread's status or priority that moves it in the queue, and *)
(* Reschedule with the loops of pop_first, pop_first_better and            *)
(* PopNextReadyThread as steps.  Threads issue calls while they are        *)
(* Running; the other waits of thread.h are the one status "Wait".         *)
(***************************************************************************)
EXTENDS ThreadQueueList

CONSTANT None \* no thread

ASSUME NoneAssumption == None \notin Threads

VARIABLES
    status,           \* thread -> "Unborn", "Ready", "Running", "Wait" or "Dead"
    current_priority, \* thread -> level
    can_schedule,     \* thread -> FALSE while ControlProcess holds it back
    current_thread,
    unscheduled,      \* unscheduled_ready_queue
    pc,               \* "idle", or where Reschedule is: "pop", "restore", "switch"
    cur,              \* the level the pop loop looks at
    stop,             \* where pop_first_better stops; Null in pop_first
    next              \* the thread popped

threadVars == <<status, current_priority, can_schedule, current_thread>>
popVars    == <<cur, stop, next>>
vars       == <<queueVars, threadVars, unscheduled, pc, popVars>>

Statuses == {"Unborn", "Ready", "Running", "Wait", "Dead"}
Alive(t) == status[t] \notin {"Unborn", "Dead"}

Init ==
    /\ QueueInit
    /\ status = [t \in Threads |-> "Unborn"]
    /\ current_priority = [t \in Threads |-> 0]
    /\ can_schedule = [t \in Threads |-> TRUE]
    /\ current_thread = None
    /\ unscheduled = << >>
    /\ pc = "idle" /\ cur = Null /\ stop = Null /\ next = None

\* Between two reschedules: queue, status and priorities change.
Call == pc = "idle" /\ UNCHANGED <<current_thread, unscheduled, pc, popVars>>

CreateThread(t, p, make_ready) ==
    /\ Call /\ status[t] = "Unborn"
    /\ prepare(p)
    /\ data' = IF make_ready THEN push_back(p, t) ELSE data
    /\ status' = [status EXCEPT ![t] = IF make_ready THEN "Ready" ELSE "Wait"]
    /\ current_priority' = [current_priority EXCEPT ![t] = p]
    /\ UNCHANGED can_schedule

\* The running thread starts to wait.
Wait(t) ==
    /\ Call /\ t = current_thread /\ status[t] = "Running"
    /\ status' = [status EXCEPT ![t] = "Wait"]
    /\ UNCHANGED <<queueVars, current_priority, can_schedule>>

\* Mutant: a resumed thread goes to the front of its level.
ResumeFromWaitInFront(t) ==
    /\ Call /\ status[t] = "Wait"
    /\ data' = push_front(current_priority[t], t)
    /\ status' = [status EXCEPT ![t] = "Ready"]
    /\ UNCHANGED <<first, next_nonempty, current_priority, can_schedule>>

ResumeFromWait(t) ==
    /\ Call /\ status[t] = "Wait"
    /\ data' = push_back(current_priority[t], t)
    /\ status' = [status EXCEPT ![t] = "Ready"]
    /\ UNCHANGED <<first, next_nonempty, current_priority, can_schedule>>

\* Mutant: a level is prepared only when a thread is put on it.
SetPriorityUnprepared(t, p) ==
    /\ Call /\ status[t] # "Unborn"
    /\ IF status[t] = "Ready" THEN move(t, current_priority[t], p) ELSE UNCHANGED queueVars
    /\ current_priority' = [current_priority EXCEPT ![t] = p]
    /\ UNCHANGED <<status, can_schedule>>

\* SetPriority, and BoostPriority, which leaves only the nominal priority alone.
SetPriority(t, p) ==
    /\ Call /\ status[t] # "Unborn"
    /\ IF status[t] = "Ready" THEN move(t, current_priority[t], p)
                              ELSE prepare(p) /\ UNCHANGED data
    /\ current_priority' = [current_priority EXCEPT ![t] = p]
    /\ UNCHANGED <<status, can_schedule>>

\* Mutant: a stopped thread stays in the ready queue.
StopInQueue(t) ==
    /\ Call /\ Alive(t)
    /\ status' = [status EXCEPT ![t] = "Dead"]
    /\ UNCHANGED <<queueVars, current_priority, can_schedule>>

Stop(t) ==
    /\ Call /\ Alive(t)
    /\ data' = IF status[t] = "Ready" THEN remove(current_priority[t], t) ELSE data
    /\ status' = [status EXCEPT ![t] = "Dead"]
    /\ UNCHANGED <<first, next_nonempty, current_priority, can_schedule>>

\* PROCESSOP_SCHEDULE_THREADS_WITHOUT_TLS_MAGIC, for the threads S it selects.
ControlProcess(S, schedule) ==
    /\ Call /\ \A t \in S : Alive(t)
    /\ can_schedule' = [t \in Threads |-> IF t \in S THEN schedule ELSE can_schedule[t]]
    /\ UNCHANGED <<queueVars, status, current_priority>>

-----------------------------------------------------------------------------
Running == current_thread # None /\ status[current_thread] = "Running"

Reschedule ==
    /\ pc = "idle"
    /\ pc' = "pop"
    /\ cur' = first
    /\ stop' = IF Running THEN current_priority[current_thread] ELSE Null
    /\ UNCHANGED <<queueVars, threadVars, unscheduled, next>>

\* The loop's condition: cur # nullptr in pop_first, cur < stop in
\* pop_first_better, which a null cur meets as well.
Continues == IF stop = Null THEN cur # Null ELSE cur < stop

\* Mutant: the threads held back are not skipped.
PopTakesAll ==
    /\ pc = "pop" /\ Continues /\ cur \in Levels /\ data[cur] # << >>
    /\ data' = [data EXCEPT ![cur] = Tail(@)]
    /\ next' = Head(data[cur]) /\ pc' = "restore"
    /\ UNCHANGED <<first, next_nonempty, threadVars, unscheduled, cur, stop>>

\* A thread is popped: it is next, or put aside while the search starts again.
PopTakes ==
    LET t == Head(data[cur])
    IN  /\ pc = "pop" /\ Continues /\ cur \in Levels /\ data[cur] # << >>
        /\ data' = [data EXCEPT ![cur] = Tail(@)]
        /\ \/ /\ can_schedule[t]
              /\ next' = t /\ pc' = "restore"
              /\ UNCHANGED <<cur, unscheduled>>
           \/ /\ ~can_schedule[t]
              /\ unscheduled' = Append(unscheduled, t)
              /\ cur' = first
              /\ UNCHANGED <<next, pc>>
        /\ UNCHANGED <<first, next_nonempty, threadVars, stop>>

PopSkips ==
    /\ pc = "pop" /\ Continues /\ cur \in Levels /\ data[cur] = << >>
    /\ cur' = next_nonempty[cur]
    /\ UNCHANGED <<queueVars, threadVars, unscheduled, pc, stop, next>>

\* Nothing is found: pop_first gives null, and after pop_first_better the
\* running thread goes on.
PopEnds ==
    /\ pc = "pop" /\ ~Continues
    /\ next' = IF stop = Null THEN None ELSE current_thread
    /\ pc' = "restore"
    /\ UNCHANGED <<queueVars, threadVars, unscheduled, cur, stop>>

\* The threads put aside go back to their levels, the last one first.
Restore ==
    /\ pc = "restore"
    /\ \/ /\ unscheduled = << >>
          /\ pc' = "switch"
          /\ UNCHANGED <<data, unscheduled>>
       \/ LET t == unscheduled[Len(unscheduled)]
          IN  /\ unscheduled # << >>
              /\ data' = push_back(current_priority[t], t)
              /\ unscheduled' = SubSeq(unscheduled, 1, Len(unscheduled) - 1)
              /\ UNCHANGED pc
    /\ UNCHANGED <<first, next_nonempty, threadVars, popVars>>

\* SwitchContext: a thread still Running goes to the front of its level, even
\* when it is next itself and is removed again.
SwitchContext ==
    LET old      == current_thread
        pushed   == IF Running THEN push_front(current_priority[old], old) ELSE data
        demoted  == IF Running THEN [status EXCEPT ![old] = "Ready"] ELSE status
    IN  /\ pc = "switch"
        /\ \/ /\ next = None
              /\ data' = pushed /\ status' = demoted
              /\ current_thread' = None
           \/ /\ next # None /\ demoted[next] = "Ready"
              /\ data' = [pushed EXCEPT ![current_priority[next]] = Without(@, next)]
              /\ status' = [demoted EXCEPT ![next] = "Running"]
              /\ current_thread' = next
        /\ pc' = "idle" /\ cur' = Null /\ stop' = Null /\ next' = None
        /\ UNCHANGED <<first, next_nonempty, current_priority, can_schedule, unscheduled>>

RescheduleStep ==
    \/ Reschedule \/ PopTakes \/ PopSkips \/ PopEnds \/ Restore \/ SwitchContext

Next ==
    \/ \E t \in Threads, p \in Levels, make_ready \in BOOLEAN : CreateThread(t, p, make_ready)
    \/ \E t \in Threads : Wait(t) \/ ResumeFromWait(t) \/ Stop(t)
    \/ \E t \in Threads, p \in Levels : SetPriority(t, p)
    \/ \E S \in SUBSET Threads, schedule \in BOOLEAN : ControlProcess(S, schedule)
    \/ RescheduleStep

Spec == Init /\ [][Next]_vars

\* RunLoop reschedules every core in every iteration.
FairSpec == Spec /\ WF_vars(RescheduleStep)

-----------------------------------------------------------------------------
TypeOK ==
    /\ first \in Levels \cup {Null}
    /\ next_nonempty \in [Levels -> Levels \cup {Null, Unlinked}]
    /\ data \in [Levels -> Seq(Threads)]
    /\ status \in [Threads -> Statuses]
    /\ current_priority \in [Threads -> Levels]
    /\ can_schedule \in [Threads -> BOOLEAN]
    /\ current_thread \in Threads \cup {None}
    /\ unscheduled \in Seq(Threads)
    /\ pc \in {"idle", "pop", "restore", "switch"}
    /\ cur \in Levels \cup {Null, Unlinked}
    /\ stop \in Levels \cup {Null}
    /\ next \in Threads \cup {None}

Occurs(t, s) == \E i \in 1 .. Len(s) : s[i] = t

NoDuplicates(s) == \A i, j \in 1 .. Len(s) : s[i] = s[j] => i = j

\* The chain from first visits the linked levels, all of them, in ascending
\* order: whatever order prepare saw the levels in, link keeps the list sorted.
LevelsChained ==
    /\ first = Null <=> \A p \in Levels : ~Linked(p)
    /\ first # Null => Linked(first)
    /\ \A p \in Levels : Linked(p) =>
         /\ first <= p
         /\ next_nonempty[p] # Null => p < next_nonempty[p] /\ Linked(next_nonempty[p])
         /\ \A q \in Levels : Linked(q) /\ p < q =>
              next_nonempty[p] # Null /\ next_nonempty[p] <= q

\* A thread that Reschedule has taken from the queue and not yet put back.
Aside(t) == Occurs(t, unscheduled) \/ (pc \in {"restore", "switch"} /\ next = t)

\* The ready queue and the threads' statuses agree: a queue holds only Ready
\* threads, on the level of their current_priority, once; and every Ready
\* thread is queued, or put aside while Reschedule runs.  A thread that is
\* Ready and not queued would never run again; one that is queued and not
\* Ready fails SwitchContext's ASSERT or runs after its death.
QueuesExact ==
    /\ \A p \in Levels : NoDuplicates(data[p])
    /\ \A p \in Levels, t \in Threads :
         Occurs(t, data[p]) => status[t] = "Ready" /\ current_priority[t] = p
    /\ \A t \in Threads :
         status[t] = "Ready" => Occurs(t, data[current_priority[t]]) \/ Aside(t)

\* pop_first_better follows next_nonempty without a null test, so its walk
\* must meet the level of the running thread, or a worse one, before the end
\* of the chain; and SwitchContext asserts "Thread must be ready to become
\* running" of the thread that was popped.
WalkAndSwitchSafe ==
    /\ pc = "pop" /\ Continues => cur \in Levels
    /\ pc = "switch" /\ next # None => status[next] = "Ready" \/ next = current_thread

Pool == INSTANCE ReadyPool

\* The queue implements the pool of ready threads: Reschedule's loops end with
\* a best candidate or, when there is none, with the running thread.
ImplementsReadyPool == Pool!PoolSpec

\* A thread that is Ready for good, that may be scheduled, that nobody better
\* can pass and that SetPriority does not move to the back of its level, gets
\* the core, provided that the core does not run one thread for ever.
FairAmongEquals ==
    \A t \in Threads :
        /\ []<>~Running
        /\ <>[](can_schedule[t] /\ \A u \in Threads : current_priority[t] <= current_priority[u])
        /\ <>[][\A p \in Levels : ~SetPriority(t, p)]_vars
        => []<>(status[t] # "Ready")

=============================================================================
