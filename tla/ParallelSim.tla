---------------------------- MODULE ParallelSim ----------------------------
(***************************************************************************)
(* Parallel simulation: one host thread per event queue (doSimLoop), global*)
(* events that all threads meet at (sim/global_event.cc), and the sync     *)
(* event that ends a quantum and merges what other threads scheduled       *)
(* asynchronously.  A queue is the agenda that EventAgenda promises and a  *)
(* barrier lets the threads through together, as Barrier shows.            *)
(***************************************************************************)
EXTENDS Naturals, Sequences, FiniteSets

CONSTANTS NumQueues,  \* numMainEventQueues
          Quantum,    \* simQuantum
          Globals,    \* the global events besides the sync event
          Exits,      \* those of them that end the loop (IsExitEvent)
          Remote,     \* a local event that another thread may schedule
          Pri,        \* priority of the global and of the local events
          MaxTick     \* bound on simulated time

ASSUME ParallelAssumption ==
    /\ NumQueues \in Nat \ {0} /\ Quantum \in Nat \ {0} /\ MaxTick \in Nat
    /\ Exits \subseteq Globals

Threads == 1..NumQueues   \* thread 1 is the main thread
Events == Globals \cup {"sync", "local", Remote}

VARIABLES agenda,     \* the event queue of each thread
          async,      \* its async_queue
          now,        \* its _curTick
          pc,         \* where its thread is in doSimLoop and in process()
          at,         \* the global event it is in
          acting,     \* it runs code that may schedule events
          global,     \* the global event being scheduled, under globalQMutex
          state       \* of each global event: "new", "scheduled", "done"

vars == <<agenda, async, now, pc, at, acting, global, state>>

None == [by |-> 0, ev |-> "sync", when |-> 0, left |-> {}]

Before(a, b) == a.when < b.when \/ (a.when = b.when /\ Pri[a.ev] < Pri[b.ev])

\* EventQueue::insert, as EventAgenda has it.
insert(q, e) ==
    LET Front(x) == Before(x, e)
        Rest(x) == ~Before(x, e)
    IN  SelectSeq(q, Front) \o <<e>> \o SelectSeq(q, Rest)

MergeAtEnd(q, new) == q \o new

\* handleAsyncInsertions
RECURSIVE Merge(_, _)
Merge(q, new) == IF new = <<>> THEN q ELSE Merge(insert(q, Head(new)), Tail(new))

Entry(e, t) == [ev |-> e, when |-> t]

\* simulate() schedules the first sync event before the threads run; each queue
\* has a local event, say the next tick of a CPU.
Init ==
    /\ agenda = [i \in Threads |-> <<Entry("local", 1), Entry("sync", Quantum)>>]
    /\ async = [i \in Threads |-> <<>>]
    /\ now = [i \in Threads |-> 0]
    /\ pc = [i \in Threads |-> "loop"]
    /\ at = [i \in Threads |-> "sync"]
    /\ acting = [i \in Threads |-> FALSE]
    /\ global = None
    /\ state = [g \in Globals |-> "new"]

Goto(i, p) == pc' = [pc EXCEPT ![i] = p]

-----------------------------------------------------------------------------
(* What process() of a local event may schedule.  Between two events, the    *)
(* main thread handles signals that schedule global events.                  *)

Pending(e) == \E i \in Threads : \E q \in {agenda[i], async[i]} :
                  \E k \in DOMAIN q : q[k].ev = e

\* Its next occurrence, later in time as for a clocked object.
ScheduleLocal(i, t) ==
    /\ pc[i] = "loop" /\ acting[i] /\ t > now[i]
    /\ \A k \in DOMAIN agenda[i] : agenda[i][k].ev # "local"
    /\ agenda' = [agenda EXCEPT ![i] = insert(@, Entry("local", t))]
    /\ UNCHANGED <<async, now, pc, at, acting, global, state>>

\* On the queue of another thread: a quantum ahead, as the class comment asks.
ScheduleRemote(i, j, t) ==
    /\ pc[i] = "loop" /\ acting[i] /\ i # j /\ t >= now[i] + Quantum
    /\ ~Pending(Remote)
    /\ async' = [async EXCEPT ![j] = Append(@, Entry(Remote, t))]
    /\ UNCHANGED <<agenda, now, pc, at, acting, global, state>>

\* exitSimLoop and schedStatEvent: a new global event, a quantum from now.  An exit
\* event comes after the sync event of its tick, a StatEvent before it.
ScheduleGlobal(i, g) ==
    /\ pc[i] = "loop" /\ (acting[i] \/ i = 1)
    /\ state[g] = "new" /\ global = None
    /\ now[i] + Quantum <= MaxTick
    /\ global' = [by |-> i, ev |-> g, when |-> now[i] + Quantum, left |-> Threads]
    /\ state' = [state EXCEPT ![g] = "scheduled"]
    /\ Goto(i, "schedule")
    /\ UNCHANGED <<agenda, async, now, at, acting>>

Lowest(S) == CHOOSE i \in S : \A j \in S : i <= j

\* Back to where schedule() was called from: process() of the sync event or the loop.
Scheduled(i) ==
    IF global.ev = "sync" THEN Goto(i, "processed") ELSE Goto(i, "loop")

GlobalStepOwnDirect(i) ==
    /\ global.by = i /\ global.left # {}
    /\ LET j == Lowest(global.left)
           e == Entry(global.ev, global.when)
       IN  /\ IF j = i
              THEN agenda' = [agenda EXCEPT ![j] = insert(@, e)] /\ UNCHANGED async
              ELSE async' = [async EXCEPT ![j] = Append(@, e)] /\ UNCHANGED agenda
           /\ IF global.left = {j}
              THEN global' = None /\ Scheduled(i)
              ELSE global' = [global EXCEPT !.left = @ \ {j}] /\ UNCHANGED pc
    /\ UNCHANGED <<now, at, acting, state>>

\* BaseGlobalEvent::schedule: a local event on the async queue of every thread, its
\* own included, one after the other.
GlobalStep(i) ==
    /\ global.by = i /\ global.left # {}
    /\ LET j == Lowest(global.left)
       IN  /\ async' = [async EXCEPT ![j] = Append(@, Entry(global.ev, global.when))]
           /\ IF global.left = {j}
              THEN global' = None /\ Scheduled(i)
              ELSE global' = [global EXCEPT !.left = @ \ {j}] /\ UNCHANGED pc
    /\ UNCHANGED <<agenda, now, at, acting, state>>

-----------------------------------------------------------------------------
\* serviceOne; the process() of a barrier event comes to the first barrier.
Service(i) ==
    /\ pc[i] = "loop" /\ agenda[i] # <<>>
    /\ LET e == Head(agenda[i])
       IN  /\ e.when <= MaxTick
           /\ now' = [now EXCEPT ![i] = e.when]
           /\ IF e.ev \in {"local", Remote}
              THEN acting' = [acting EXCEPT ![i] = TRUE] /\ UNCHANGED <<pc, at>>
              ELSE /\ acting' = [acting EXCEPT ![i] = FALSE]
                   /\ at' = [at EXCEPT ![i] = e.ev]
                   /\ Goto(i, "first")
    /\ agenda' = [agenda EXCEPT ![i] = Tail(@)]
    /\ UNCHANGED <<async, global, state>>

\* The threads at phase p of the barrier of global event g.
Waiting(g, p) == {j \in Threads : pc[j] = p /\ at[j] = g}

\* The last thread to come lets everybody go on, the others to "next" and itself
\* to "leads".
Meet(i, here, waits, next, leads) ==
    /\ pc[i] = here
    /\ IF Waiting(at[i], waits) \cup {i} = Threads
       THEN pc' = [j \in Threads |-> IF j = i THEN leads ELSE next]
       ELSE Goto(i, waits)
    /\ UNCHANGED <<agenda, async, now, at, acting, global, state>>

FirstBarrier(i) == Meet(i, "first", "wait1", "processed", "process")

\* The sync event schedules itself again, by way of the async queues.
Process(i) ==
    /\ pc[i] = "process"
    /\ IF at[i] = "sync"
       THEN /\ global = None
            /\ global' = [by |-> i, ev |-> "sync", when |-> now[i] + Quantum, left |-> Threads]
            /\ Goto(i, "schedule") /\ UNCHANGED state
       ELSE /\ state' = [state EXCEPT ![at[i]] = "done"]
            /\ Goto(i, "processed") /\ UNCHANGED global
    /\ UNCHANGED <<agenda, async, now, at, acting>>

SecondBarrier(i) == Meet(i, "processed", "wait2", "after", "after")

\* handleAsyncInsertions ends the process() of the sync event; an exit event makes
\* doSimLoop return.
After(i) ==
    /\ pc[i] = "after"
    /\ Goto(i, IF at[i] \in Exits THEN "exited" ELSE "loop")
    /\ IF at[i] = "sync"
       THEN /\ agenda' = [agenda EXCEPT ![i] = Merge(@, async[i])]
            /\ async' = [async EXCEPT ![i] = <<>>]
       ELSE UNCHANGED <<agenda, async>>
    /\ UNCHANGED <<now, at, acting, global, state>>

NotSync(e) == e.ev # "sync"

\* The main thread leaves simulate(), which deschedules its sync event, and calls
\* it again: a new sync event, and every thread starts with its async queue.
Resume ==
    /\ \A i \in Threads : pc[i] = "exited"
    /\ now[1] + Quantum <= MaxTick
    /\ agenda' = [i \in Threads |->
            Merge(insert(SelectSeq(agenda[i], NotSync), Entry("sync", now[1] + Quantum)), async[i])]
    /\ async' = [i \in Threads |-> <<>>]
    /\ pc' = [i \in Threads |-> "loop"]
    /\ UNCHANGED <<now, at, acting, global, state>>

Run(i) == GlobalStep(i) \/ Service(i) \/ FirstBarrier(i) \/ Process(i)
          \/ SecondBarrier(i) \/ After(i)

Next ==
    \/ \E i \in Threads :
        \/ Run(i)
        \/ \E t \in 0..MaxTick : ScheduleLocal(i, t) \/ \E j \in Threads : ScheduleRemote(i, j, t)
        \/ \E g \in Globals : ScheduleGlobal(i, g)
    \/ Resume

\* Host threads keep running, and Python calls simulate() again.
Spec == Init /\ [][Next]_vars /\ WF_vars(Resume) /\ \A i \in Threads : WF_vars(Run(i))

-----------------------------------------------------------------------------
\* No thread finds an event of the past at the head of its queue, although other
\* threads, ahead or behind in time, schedule for it: the assertion of doSimLoop.
NoPastEvents ==
    \A i \in Threads : pc[i] = "loop" /\ agenda[i] # <<>> => now[i] <= Head(agenda[i]).when

\* A global event that was scheduled happens, unless the loop was left and MaxTick
\* keeps it from being entered again: no thread waits at a barrier for ever.  The
\* total order that BaseGlobalEvent::schedule wants is there for exit events; a
\* StatEvent breaks it when it is scheduled between the handleAsyncInsertions of
\* two threads, since it comes before the sync event that would bring it over.
TimeUp == /\ \A i \in Threads : pc[i] = "exited"
          /\ now[1] + Quantum > MaxTick
GlobalEventsHappen ==
    \A g \in Globals : state[g] = "scheduled" ~> state[g] = "done" \/ TimeUp
=============================================================================
