----------------------------- MODULE EventQueue -----------------------------
(***************************************************************************)
(* The event queue of sim/eventq.cc: a list of bins linked by nextBin, one *)
(* bin per time and priority; a bin is a stack linked by nextInBin.  Only  *)
(* the top of a bin has a valid nextBin: the pointers of the others go     *)
(* stale, as do those of events that left the queue.                       *)
(***************************************************************************)
EXTENDS Naturals, Sequences

CONSTANTS Events, Priority, MaxWhen, NULL

VARIABLES queue,      \* head, and nextBin and nextInBin of every event
          when, now,
          scheduled,  \* the events with flag Scheduled
          squashed,   \* the events with flag Squashed
          panicked    \* remove() did not find its event

vars == <<queue, when, now, scheduled, squashed, panicked>>

Init ==
    /\ queue = [head |-> NULL, nextBin |-> [e \in Events |-> NULL],
                nextInBin |-> [e \in Events |-> NULL]]
    /\ when = [e \in Events |-> 0] /\ now = 0
    /\ scheduled = {} /\ squashed = {} /\ panicked = FALSE

\* operator< and operator== on events with times w.
Before(a, b, w) == w[a] < w[b] \/ (w[a] = w[b] /\ Priority[a] < Priority[b])
SameBin(a, b, w) == w[a] = w[b] /\ Priority[a] = Priority[b]

\* The last bin before the bin of e, from the bin of prev on.
RECURSIVE LastBefore(_, _, _, _)
LastBefore(q, prev, e, w) ==
    LET curr == q.nextBin[prev]
    IN  IF curr # NULL /\ Before(curr, e, w) THEN LastBefore(q, curr, e, w) ELSE prev

\* A new bin in front of curr, or the new top of the bin of curr.
insertBefore(q, e, curr, w) ==
    IF curr = NULL \/ Before(e, curr, w)
    THEN [q EXCEPT !.nextBin[e] = curr, !.nextInBin[e] = NULL]
    ELSE [q EXCEPT !.nextBin[e] = q.nextBin[curr], !.nextInBin[e] = curr]

insert(q, e, w) ==
    IF q.head = NULL \/ ~Before(q.head, e, w)
    THEN [insertBefore(q, e, q.head, w) EXCEPT !.head = e]
    ELSE LET prev == LastBefore(q, q.head, e, w)
         IN  [insertBefore(q, e, q.nextBin[prev], w) EXCEPT !.nextBin[prev] = e]

\* The event above e in the stack of curr; NULL when e is not in it.
RECURSIVE Above(_, _, _)
Above(q, curr, e) ==
    IF curr = NULL \/ q.nextInBin[curr] = e THEN curr ELSE Above(q, q.nextInBin[curr], e)

\* The queue without e and the new top of its bin.
removeItem(q, e, top) ==
    IF e = top
    THEN IF q.nextInBin[top] = NULL
         THEN <<q, q.nextBin[top]>>
         ELSE <<[q EXCEPT !.nextBin[q.nextInBin[top]] = q.nextBin[top]], q.nextInBin[top]>>
    ELSE <<[q EXCEPT !.nextInBin[Above(q, top, e)] = q.nextInBin[e]], top>>

\* The top of the bin that remove() searches for e; NULL when there is no such bin.
BinOf(q, e, w) ==
    IF q.head = NULL \/ SameBin(q.head, e, w) THEN q.head
    ELSE LET curr == q.nextBin[LastBefore(q, q.head, e, w)]
         IN  IF curr # NULL /\ SameBin(curr, e, w) THEN curr ELSE NULL

Found(q, e, w) ==
    LET top == BinOf(q, e, w) IN top # NULL /\ (top = e \/ Above(q, top, e) # NULL)

remove(q, e, w) ==
    IF SameBin(q.head, e, w)
    THEN LET r == removeItem(q, e, q.head) IN [r[1] EXCEPT !.head = r[2]]
    ELSE LET prev == LastBefore(q, q.head, e, w)
             r == removeItem(q, e, q.nextBin[prev])
         IN  [r[1] EXCEPT !.nextBin[prev] = r[2]]

-----------------------------------------------------------------------------
schedule(e, t) ==
    /\ t >= now /\ e \notin scheduled
    /\ when' = [when EXCEPT ![e] = t]
    /\ queue' = insert(queue, e, when')
    /\ scheduled' = scheduled \cup {e}
    /\ UNCHANGED <<now, squashed, panicked>>

deschedule(e) ==
    /\ e \in scheduled
    /\ IF Found(queue, e, when)
       THEN queue' = remove(queue, e, when) /\ UNCHANGED panicked
       ELSE panicked' = TRUE /\ UNCHANGED queue
    /\ squashed' = squashed \ {e}
    /\ scheduled' = scheduled \ {e}
    /\ UNCHANGED <<when, now>>

\* Removed under its old time, inserted under the new one; with always set, an
\* event that is not scheduled is only inserted.
reschedule(e, t) ==
    /\ t >= now
    /\ when' = [when EXCEPT ![e] = t]
    /\ IF e \notin scheduled
       THEN queue' = insert(queue, e, when') /\ UNCHANGED panicked
       ELSE IF Found(queue, e, when)
       THEN queue' = insert(remove(queue, e, when), e, when') /\ UNCHANGED panicked
       ELSE panicked' = TRUE /\ UNCHANGED queue
    /\ squashed' = squashed \ {e}
    /\ scheduled' = scheduled \cup {e}
    /\ UNCHANGED now

\* Squashing an event that is not scheduled makes the queue skip it the next time.
squash(e) ==
    /\ squashed' = squashed \cup {e}
    /\ UNCHANGED <<queue, when, now, scheduled, panicked>>

serviceOneStale ==
    /\ queue.head # NULL
    /\ LET next == queue.nextInBin[queue.head]
       IN  queue' = IF next # NULL THEN [queue EXCEPT !.head = next]
                    ELSE [queue EXCEPT !.head = queue.nextBin[queue.head]]
    /\ now' = IF queue.head \in squashed THEN now ELSE when[queue.head]
    /\ squashed' = squashed \ {queue.head}
    /\ scheduled' = scheduled \ {queue.head}
    /\ UNCHANGED <<when, panicked>>

\* process() runs with the event off the queue: what it schedules are the
\* actions that follow, at the time now.
serviceOne ==
    /\ queue.head # NULL
    /\ LET next == queue.nextInBin[queue.head]
       IN  queue' = IF next # NULL
                    THEN [queue EXCEPT !.nextBin[next] = queue.nextBin[queue.head], !.head = next]
                    ELSE [queue EXCEPT !.head = queue.nextBin[queue.head]]
    /\ now' = IF queue.head \in squashed THEN now ELSE when[queue.head]
    /\ squashed' = squashed \ {queue.head}
    /\ scheduled' = scheduled \ {queue.head}
    /\ UNCHANGED <<when, panicked>>

Next ==
    \/ \E e \in Events : \/ \E t \in 0..MaxWhen : schedule(e, t) \/ reschedule(e, t)
                         \/ deschedule(e) \/ squash(e)
    \/ serviceOne

Spec == Init /\ [][Next]_vars

-----------------------------------------------------------------------------
\* dump() and debugVerify() walk the bins, and each bin from its top.
RECURSIVE Stack(_)
Stack(e) == IF e = NULL THEN <<>> ELSE <<e>> \o Stack(queue.nextInBin[e])
RECURSIVE Bins(_)
Bins(top) == IF top = NULL THEN <<>> ELSE Stack(top) \o Bins(queue.nextBin[top])

Agenda == INSTANCE EventAgenda WITH agenda <- Bins(queue.head)

\* Stale pointers notwithstanding, the lists service events in the order of time
\* and priority, last in first out within a bin, and lose or double none; remove() finds every event it
\* is called for, so that "event not found!" is never raised.
ImplementsAgenda == Agenda!Spec /\ []~panicked
=============================================================================
