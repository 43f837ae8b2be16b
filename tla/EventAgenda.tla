---------------------------- MODULE EventAgenda ----------------------------
(***************************************************************************)
(* What an event queue promises to the simulator: pending events are       *)
(* serviced in the order of their time and priority, the last one inserted *)
(* first among equals, and simulated time never goes back.  EventQueue     *)
(* shows that the linked lists of sim/eventq.cc implement it.              *)
(***************************************************************************)
EXTENDS Naturals, Sequences

CONSTANTS Events,
          Priority,  \* _priority of each event; a smaller one is serviced first
          MaxWhen    \* the last tick an event is scheduled for

\* What the theorems assume of the constants.
AgendaConstants == MaxWhen \in Nat /\ Priority \in [Events -> Nat]

VARIABLES agenda,    \* the pending events in the order of their service
          when,      \* _when of each event
          squashed,  \* the events that will be skipped, once
          now        \* _curTick

vars == <<agenda, when, squashed, now>>

Pending == {agenda[i] : i \in DOMAIN agenda}

\* operator<= on events, for an event whose time becomes t.
AtOrBefore(e, t, f, w) == t < w[f] \/ (t = w[f] /\ Priority[e] <= Priority[f])

InsertAt(s, k, e) ==
    [i \in 1..(Len(s) + 1) |-> IF i < k THEN s[i] ELSE IF i = k THEN e ELSE s[i - 1]]
DeleteAt(s, k) == [i \in 1..(Len(s) - 1) |-> IF i < k THEN s[i] ELSE s[i + 1]]

\* The place of e for time t in agenda s: before the first event not before it.
Place(s, e, t, k) ==
    /\ k \in 1..(Len(s) + 1)
    /\ \A i \in 1..Len(s) : i < k => ~AtOrBefore(e, t, s[i], when)
    /\ k <= Len(s) => AtOrBefore(e, t, s[k], when)

Init ==
    /\ agenda = <<>> /\ when = [e \in Events |-> 0]
    /\ squashed = {} /\ now = 0

Schedule(e, t) ==
    /\ e \notin Pending /\ t >= now
    /\ \E k \in 1..(Len(agenda) + 1) :
        Place(agenda, e, t, k) /\ agenda' = InsertAt(agenda, k, e)
    /\ when' = [when EXCEPT ![e] = t]
    /\ UNCHANGED <<squashed, now>>

Deschedule(e) ==
    /\ \E j \in 1..Len(agenda) : agenda[j] = e /\ agenda' = DeleteAt(agenda, j)
    /\ squashed' = squashed \ {e}
    /\ UNCHANGED <<when, now>>

\* Unlike Schedule, it also makes a squashed event count again.
Reschedule(e, t) ==
    /\ t >= now
    /\ \/ /\ e \notin Pending
          /\ \E k \in 1..(Len(agenda) + 1) :
                Place(agenda, e, t, k) /\ agenda' = InsertAt(agenda, k, e)
       \/ \E j \in 1..Len(agenda) : agenda[j] = e
             /\ \E k \in 1..Len(agenda) :
                   /\ Place(DeleteAt(agenda, j), e, t, k)
                   /\ agenda' = InsertAt(DeleteAt(agenda, j), k, e)
    /\ when' = [when EXCEPT ![e] = t]
    /\ squashed' = squashed \ {e}
    /\ UNCHANGED now

Squash(e) == squashed' = squashed \cup {e} /\ UNCHANGED <<agenda, when, now>>

\* A squashed event is taken from the agenda and does not even move time.
Service ==
    /\ Len(agenda) > 0
    /\ agenda' = DeleteAt(agenda, 1)
    /\ now' = IF agenda[1] \in squashed THEN now ELSE when[agenda[1]]
    /\ squashed' = squashed \ {agenda[1]}
    /\ UNCHANGED when

Next ==
    \/ \E e \in Events : \/ \E t \in 0..MaxWhen : Schedule(e, t) \/ Reschedule(e, t)
                         \/ Deschedule(e) \/ Squash(e)
    \/ Service

Spec == Init /\ [][Next]_vars

-----------------------------------------------------------------------------
Ordered(s, w) ==
    \A i, j \in 1..Len(s) : i < j => s[i] # s[j] /\ AtOrBefore(s[i], w[s[i]], s[j], w)

NoneBefore(s, w, t) == \A i \in 1..Len(s) : w[s[i]] >= t

\* No event is pending twice, the agenda is sorted, and nothing pending lies in
\* the past: the assertion of doSimLoop and what debugVerify looks for.
AgendaOrdered == Ordered(agenda, when) /\ NoneBefore(agenda, when, now)

\* Simulated time never goes back.
TimeMovesForward == [][now' >= now]_vars
=============================================================================
