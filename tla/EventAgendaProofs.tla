------------------------- MODULE EventAgendaProofs -------------------------
(* The agenda is always sorted and time never goes back, for any events,   *)
(* priorities and ticks.                                                   *)
EXTENDS EventAgenda, TLAPS

AgendaInv ==
    /\ agenda \in Seq(Events)
    /\ when \in [Events -> Nat]
    /\ now \in Nat
    /\ AgendaOrdered

LEMMA InsertAtShape ==
    ASSUME NEW s \in Seq(Events), NEW e \in Events, NEW k \in 1..(Len(s) + 1)
    PROVE  /\ InsertAt(s, k, e) \in Seq(Events)
           /\ Len(InsertAt(s, k, e)) = Len(s) + 1
           /\ \A i \in 1..(Len(s) + 1) :
                InsertAt(s, k, e)[i] = IF i < k THEN s[i] ELSE IF i = k THEN e ELSE s[i - 1]
  BY DEF InsertAt

LEMMA DeleteAtShape ==
    ASSUME NEW s \in Seq(Events), NEW k \in 1..Len(s)
    PROVE  /\ DeleteAt(s, k) \in Seq(Events)
           /\ Len(DeleteAt(s, k)) = Len(s) - 1
           /\ \A i \in 1..(Len(s) - 1) :
                DeleteAt(s, k)[i] = IF i < k THEN s[i] ELSE s[i + 1]
  BY DEF DeleteAt

\* An agenda with an event taken out is sorted and does not hold it any more.
LEMMA DeleteOrdered ==
    ASSUME NEW s \in Seq(Events), NEW k \in 1..Len(s), NEW w, Ordered(s, w)
    PROVE  /\ Ordered(DeleteAt(s, k), w)
           /\ \A i \in 1..Len(DeleteAt(s, k)) : DeleteAt(s, k)[i] # s[k]
<1> DEFINE d == DeleteAt(s, k)
           Old(i) == IF i < k THEN i ELSE i + 1
<1>0. Len(s) \in Nat /\ Len(d) = Len(s) - 1
  BY DeleteAtShape
<1>1. \A i \in 1..Len(d) : Old(i) \in 1..Len(s) /\ Old(i) # k /\ d[i] = s[Old(i)]
  <2> SUFFICES ASSUME NEW i \in 1..Len(d)
               PROVE  Old(i) \in 1..Len(s) /\ Old(i) # k /\ d[i] = s[Old(i)]
    OBVIOUS
  <2>1. i \in 1..(Len(s) - 1)
    BY <1>0
  <2>2. d[i] = IF i < k THEN s[i] ELSE s[i + 1]
    BY <2>1, DeleteAtShape
  <2> HIDE DEF d
  <2> QED
    BY <2>1, <2>2, <1>0
<1>2. ASSUME NEW i \in 1..Len(d), NEW j \in 1..Len(d), i < j PROVE Old(i) < Old(j)
  BY <1>0, <1>2
<1> HIDE DEF d, Old
<1>3. \A i \in 1..Len(d) : d[i] # s[k]
  <2> TAKE i \in 1..Len(d)
  <2>1. Old(i) \in 1..Len(s) /\ Old(i) # k /\ d[i] = s[Old(i)]
    BY <1>1
  <2>2. Old(i) < k \/ k < Old(i)
    BY <2>1
  <2> QED
    BY <2>1, <2>2 DEF Ordered
<1>4. ASSUME NEW i \in 1..Len(d), NEW j \in 1..Len(d), i < j
      PROVE  d[i] # d[j] /\ AtOrBefore(d[i], w[d[i]], d[j], w)
  <2>1. /\ Old(i) \in 1..Len(s) /\ d[i] = s[Old(i)]
        /\ Old(j) \in 1..Len(s) /\ d[j] = s[Old(j)]
    BY <1>1
  <2>2. Old(i) < Old(j)
    BY <1>2, <1>4
  <2> QED
    BY <2>1, <2>2 DEF Ordered
<1>5. Ordered(d, w)
  BY <1>4 DEF Ordered
<1> QED
  BY <1>3, <1>5 DEF d

LEMMA DeleteNoneBefore ==
    ASSUME NEW s \in Seq(Events), NEW k \in 1..Len(s), NEW w, NEW t, NoneBefore(s, w, t)
    PROVE  NoneBefore(DeleteAt(s, k), w, t)
<1> SUFFICES ASSUME NEW i \in 1..Len(DeleteAt(s, k)) PROVE w[DeleteAt(s, k)[i]] >= t
  BY DEF NoneBefore
<1>1. i \in 1..(Len(s) - 1) /\ Len(s) \in Nat
  BY DeleteAtShape
<1>2. DeleteAt(s, k)[i] = IF i < k THEN s[i] ELSE s[i + 1]
  BY <1>1, DeleteAtShape
<1>3. i \in 1..Len(s) /\ i + 1 \in 1..Len(s)
  BY <1>1
<1> QED
  BY <1>2, <1>3 DEF NoneBefore

LEMMA InsertNoneBefore ==
    ASSUME NEW s \in Seq(Events), NEW e \in Events, NEW k \in 1..(Len(s) + 1),
           when \in [Events -> Nat], NEW t \in Nat, NEW n \in Nat, t >= n,
           NoneBefore(s, when, n)
    PROVE  NoneBefore(InsertAt(s, k, e), [when EXCEPT ![e] = t], n)
<1> SUFFICES ASSUME NEW i \in 1..Len(InsertAt(s, k, e))
             PROVE  [when EXCEPT ![e] = t][InsertAt(s, k, e)[i]] >= n
  BY DEF NoneBefore
<1>1. i \in 1..(Len(s) + 1) /\ Len(s) \in Nat
  BY InsertAtShape
<1>2. InsertAt(s, k, e)[i] = IF i < k THEN s[i] ELSE IF i = k THEN e ELSE s[i - 1]
  BY <1>1, InsertAtShape
<1>3. \A p \in 1..Len(s) : s[p] \in Events /\ when[s[p]] >= n
  BY DEF NoneBefore
<1>4. CASE i = k
  BY <1>2, <1>4
<1>5. CASE i < k
  BY <1>1, <1>2, <1>3, <1>5
<1>6. CASE i > k
  <2>1. i - 1 \in 1..Len(s) /\ InsertAt(s, k, e)[i] = s[i - 1]
    BY <1>1, <1>2, <1>6
  <2> QED
    BY <2>1, <1>3
<1> QED
  BY <1>1, <1>4, <1>5, <1>6

LEMMA AtOrBeforeTransitive ==
    ASSUME AgendaConstants, NEW e \in Events, NEW f \in Events, NEW g \in Events,
           NEW t \in Nat, NEW w \in [Events -> Nat],
           AtOrBefore(e, t, f, w), AtOrBefore(f, w[f], g, w)
    PROVE  AtOrBefore(e, t, g, w)
<1>1. w[f] \in Nat /\ w[g] \in Nat
  OBVIOUS
<1>2. Priority[e] \in Nat /\ Priority[f] \in Nat /\ Priority[g] \in Nat
  BY DEF AgendaConstants
<1> QED
  BY <1>1, <1>2 DEF AtOrBefore

\* An event inserted at its place leaves the agenda sorted.
LEMMA InsertOrdered ==
    ASSUME AgendaConstants, NEW s \in Seq(Events), NEW e \in Events, NEW t \in Nat,
           when \in [Events -> Nat], Ordered(s, when),
           \A i \in 1..Len(s) : s[i] # e,
           NEW k \in 1..(Len(s) + 1), Place(s, e, t, k)
    PROVE  Ordered(InsertAt(s, k, e), [when EXCEPT ![e] = t])
<1> DEFINE w == [when EXCEPT ![e] = t]
           n == InsertAt(s, k, e)
<1>1. \A f \in Events : w[f] = IF f = e THEN t ELSE when[f]
  OBVIOUS
<1>2. \A i \in 1..Len(s) : s[i] \in Events /\ w[s[i]] = when[s[i]] /\ when[s[i]] \in Nat
  BY <1>1
<1>3. \A i \in 1..Len(s) : Priority[s[i]] \in Nat /\ Priority[e] \in Nat
  BY DEF AgendaConstants
<1>4. \A i \in 1..Len(s) : i < k => AtOrBefore(s[i], w[s[i]], e, w)
  <2> SUFFICES ASSUME NEW i \in 1..Len(s), i < k PROVE AtOrBefore(s[i], w[s[i]], e, w)
    OBVIOUS
  <2>1. ~AtOrBefore(e, t, s[i], when)
    BY DEF Place
  <2> HIDE DEF w
  <2> QED
    BY <2>1, <1>1, <1>2, <1>3 DEF AtOrBefore
<1>5. \A i \in 1..Len(s) : i >= k => AtOrBefore(e, w[e], s[i], w)
  <2> SUFFICES ASSUME NEW i \in 1..Len(s), i >= k PROVE AtOrBefore(e, w[e], s[i], w)
    OBVIOUS
  <2>1. k \in 1..Len(s) /\ AtOrBefore(e, t, s[k], when)
    BY DEF Place
  <2>2. i = k \/ AtOrBefore(s[k], when[s[k]], s[i], when)
    BY <2>1 DEF Ordered
  <2>3. s[k] \in Events /\ s[i] \in Events
    BY <2>1, <1>2
  <2>4. AtOrBefore(e, t, s[i], when)
    BY <2>1, <2>2, <2>3, AtOrBeforeTransitive
  <2> HIDE DEF w
  <2> QED
    BY <2>4, <1>1, <1>2 DEF AtOrBefore
<1>6. \A i, j \in 1..Len(s) : i < j => s[i] # s[j] /\ AtOrBefore(s[i], w[s[i]], s[j], w)
  <2> SUFFICES ASSUME NEW i \in 1..Len(s), NEW j \in 1..Len(s), i < j
               PROVE  s[i] # s[j] /\ AtOrBefore(s[i], w[s[i]], s[j], w)
    OBVIOUS
  <2>1. s[i] # s[j] /\ AtOrBefore(s[i], when[s[i]], s[j], when)
    BY DEF Ordered
  <2> HIDE DEF w
  <2> QED
    BY <2>1, <1>2 DEF AtOrBefore
<1>7. ASSUME NEW i \in 1..Len(n), NEW j \in 1..Len(n), i < j
      PROVE  n[i] # n[j] /\ AtOrBefore(n[i], w[n[i]], n[j], w)
  <2>0. /\ Len(n) = Len(s) + 1
        /\ \A p \in 1..(Len(s) + 1) :
             n[p] = IF p < k THEN s[p] ELSE IF p = k THEN e ELSE s[p - 1]
    BY InsertAtShape
  <2> HIDE DEF w, n
  <2>a. i \in 1..(Len(s) + 1) /\ j \in 1..(Len(s) + 1) /\ Len(s) \in Nat
    BY <2>0
  <2>1. CASE j < k
    <3>1. n[i] = s[i] /\ n[j] = s[j] /\ i \in 1..Len(s) /\ j \in 1..Len(s)
      BY <2>0, <2>a, <2>1, <1>7
    <3> QED
      BY <3>1, <1>6, <1>7
  <2>2. CASE j = k
    <3>1. n[i] = s[i] /\ n[j] = e /\ i \in 1..Len(s) /\ i < k
      BY <2>0, <2>a, <2>2, <1>7
    <3> QED
      BY <3>1, <1>4
  <2>3. CASE i = k
    <3>1. n[i] = e /\ n[j] = s[j - 1] /\ j - 1 \in 1..Len(s) /\ j - 1 >= k
      BY <2>0, <2>a, <2>3, <1>7
    <3> QED
      BY <3>1, <1>5
  <2>4. CASE i > k
    <3>1. /\ n[i] = s[i - 1] /\ n[j] = s[j - 1]
          /\ i - 1 \in 1..Len(s) /\ j - 1 \in 1..Len(s) /\ i - 1 < j - 1
      BY <2>0, <2>a, <2>4, <1>7
    <3> QED
      BY <3>1, <1>6
  <2>5. CASE i < k /\ j > k
    <3>1. n[i] = s[i] /\ n[j] = s[j - 1] /\ i \in 1..Len(s) /\ j - 1 \in 1..Len(s) /\ i < j - 1
      BY <2>0, <2>a, <2>5, <1>7
    <3> QED
      BY <3>1, <1>6
  <2> QED
    BY <2>1, <2>2, <2>3, <2>4, <2>5, <2>a, <1>7
<1> QED
  BY <1>7 DEF Ordered

LEMMA AgendaInvInit == Init => AgendaInv
  BY DEF Init, AgendaInv, AgendaOrdered, Ordered, NoneBefore

\* What Schedule does, and Reschedule of an event that is not scheduled.
LEMMA InsertedInv ==
    ASSUME AgendaConstants, AgendaInv, NEW e \in Events, NEW t \in 0..MaxWhen,
           e \notin Pending, t >= now,
           NEW k \in 1..(Len(agenda) + 1), Place(agenda, e, t, k),
           agenda' = InsertAt(agenda, k, e), when' = [when EXCEPT ![e] = t], now' = now
    PROVE  AgendaInv'
<1>1. t \in Nat
  BY DEF AgendaConstants
<1>2. \A i \in 1..Len(agenda) : agenda[i] # e
  BY DEF Pending, AgendaInv
<1>3. Ordered(InsertAt(agenda, k, e), [when EXCEPT ![e] = t])
  BY <1>1, <1>2, InsertOrdered DEF AgendaInv, AgendaOrdered
<1>4. NoneBefore(InsertAt(agenda, k, e), [when EXCEPT ![e] = t], now)
  BY <1>1, InsertNoneBefore DEF AgendaInv, AgendaOrdered
<1>5. InsertAt(agenda, k, e) \in Seq(Events)
  BY InsertAtShape DEF AgendaInv
<1>6. [when EXCEPT ![e] = t] \in [Events -> Nat]
  BY <1>1 DEF AgendaInv
<1> QED
  BY <1>3, <1>4, <1>5, <1>6 DEF AgendaInv, AgendaOrdered

LEMMA ScheduleInv ==
    ASSUME AgendaConstants, AgendaInv, NEW e \in Events, NEW t \in 0..MaxWhen, Schedule(e, t)
    PROVE  AgendaInv' /\ now' = now
  BY InsertedInv DEF Schedule

LEMMA DescheduleInv ==
    ASSUME AgendaInv, NEW e \in Events, Deschedule(e)
    PROVE  AgendaInv' /\ now' = now
<1> PICK j \in 1..Len(agenda) : agenda' = DeleteAt(agenda, j)
  BY DEF Deschedule
<1>1. when' = when /\ now' = now
  BY DEF Deschedule
<1>2. Ordered(DeleteAt(agenda, j), when) /\ NoneBefore(DeleteAt(agenda, j), when, now)
  BY DeleteOrdered, DeleteNoneBefore DEF AgendaInv, AgendaOrdered
<1>3. DeleteAt(agenda, j) \in Seq(Events)
  BY DeleteAtShape DEF AgendaInv
<1> QED
  BY <1>1, <1>2, <1>3 DEF AgendaInv, AgendaOrdered

\* An event that is scheduled leaves its place for another one.
LEMMA MovedInv ==
    ASSUME AgendaConstants, AgendaInv, NEW e \in Events, NEW t \in 0..MaxWhen,
           t >= now, when' = [when EXCEPT ![e] = t], now' = now,
           NEW j \in 1..Len(agenda), agenda[j] = e, NEW k \in 1..Len(agenda),
           Place(DeleteAt(agenda, j), e, t, k),
           agenda' = InsertAt(DeleteAt(agenda, j), k, e)
    PROVE  AgendaInv'
<1> DEFINE s == DeleteAt(agenda, j)
<1>1. t \in Nat /\ Place(s, e, t, k) /\ agenda' = InsertAt(s, k, e)
  BY DEF AgendaConstants
<1>2. s \in Seq(Events)
  BY DeleteAtShape DEF AgendaInv
<1>3. Ordered(s, when) /\ \A i \in 1..Len(s) : s[i] # e
  BY DeleteOrdered DEF AgendaInv, AgendaOrdered
<1>4. NoneBefore(s, when, now)
  BY DeleteNoneBefore DEF AgendaInv, AgendaOrdered
<1> HIDE DEF s
<1>5. k \in 1..(Len(s) + 1)
  BY <1>1 DEF Place
<1>6. Ordered(InsertAt(s, k, e), [when EXCEPT ![e] = t])
  BY <1>1, <1>2, <1>3, <1>5, InsertOrdered DEF AgendaInv
<1>7. NoneBefore(InsertAt(s, k, e), [when EXCEPT ![e] = t], now)
  BY <1>1, <1>2, <1>4, <1>5, InsertNoneBefore DEF AgendaInv
<1>8. InsertAt(s, k, e) \in Seq(Events)
  BY <1>2, <1>5, InsertAtShape
<1>9. [when EXCEPT ![e] = t] \in [Events -> Nat]
  BY <1>1 DEF AgendaInv
<1> QED
  BY <1>1, <1>6, <1>7, <1>8, <1>9 DEF AgendaInv, AgendaOrdered

LEMMA RescheduleInv ==
    ASSUME AgendaConstants, AgendaInv, NEW e \in Events, NEW t \in 0..MaxWhen, Reschedule(e, t)
    PROVE  AgendaInv' /\ now' = now
<1>1. t >= now /\ when' = [when EXCEPT ![e] = t] /\ now' = now
  BY DEF Reschedule
<1>2. CASE /\ e \notin Pending
           /\ \E k \in 1..(Len(agenda) + 1) :
                 Place(agenda, e, t, k) /\ agenda' = InsertAt(agenda, k, e)
  BY <1>1, <1>2, InsertedInv
<1>3. CASE \E j \in 1..Len(agenda) : agenda[j] = e
              /\ \E k \in 1..Len(agenda) :
                    /\ Place(DeleteAt(agenda, j), e, t, k)
                    /\ agenda' = InsertAt(DeleteAt(agenda, j), k, e)
  BY <1>1, <1>3, MovedInv
<1> QED
  BY <1>1, <1>2, <1>3 DEF Reschedule

LEMMA ServiceInv ==
    ASSUME AgendaInv, Service
    PROVE  AgendaInv' /\ now' >= now
<1> DEFINE d == DeleteAt(agenda, 1)
<1>1. 1 \in 1..Len(agenda) /\ Len(agenda) \in Nat /\ agenda' = d /\ when' = when
  BY DEF Service, AgendaInv
<1>2. Ordered(d, when) /\ d \in Seq(Events)
  BY <1>1, DeleteOrdered, DeleteAtShape DEF AgendaInv, AgendaOrdered
<1>3. when[agenda[1]] \in Nat /\ when[agenda[1]] >= now
  BY <1>1 DEF AgendaInv, AgendaOrdered, NoneBefore
<1>4. now' \in Nat /\ now' >= now /\ now' <= when[agenda[1]]
  BY <1>3 DEF Service, AgendaInv
<1>5. ASSUME NEW i \in 1..Len(d) PROVE when[d[i]] >= now'
  <2>1. Len(d) = Len(agenda) - 1 /\ i \in 1..(Len(agenda) - 1)
    BY <1>1, DeleteAtShape DEF AgendaInv
  <2>2. d[i] = agenda[i + 1] /\ i + 1 \in 1..Len(agenda) /\ 1 < i + 1
    <3>1. d[i] = IF i < 1 THEN agenda[i] ELSE agenda[i + 1]
      BY <1>1, <2>1, DeleteAtShape DEF AgendaInv
    <3> HIDE DEF d
    <3> QED
      BY <3>1, <2>1, <1>1
  <2>3. AtOrBefore(agenda[1], when[agenda[1]], agenda[i + 1], when)
    BY <2>2, <1>1 DEF AgendaInv, AgendaOrdered, Ordered, NoneBefore
  <2>4. when[agenda[i + 1]] \in Nat
    BY <2>2 DEF AgendaInv
  <2> HIDE DEF d
  <2> QED
    BY <2>2, <2>3, <2>4, <1>3, <1>4 DEF AtOrBefore
<1>6. NoneBefore(d, when, now')
  BY <1>5 DEF NoneBefore
<1> HIDE DEF d
<1> QED
  BY <1>1, <1>2, <1>4, <1>6 DEF AgendaInv, AgendaOrdered

LEMMA AgendaInvStep ==
    ASSUME AgendaConstants
    PROVE  AgendaInv /\ [Next]_vars => AgendaInv' /\ (now' >= now \/ UNCHANGED vars)
<1> SUFFICES ASSUME AgendaInv, [Next]_vars PROVE AgendaInv' /\ (now' >= now \/ UNCHANGED vars)
  OBVIOUS
<1>1. ASSUME NEW e \in Events, NEW t \in 0..MaxWhen, Schedule(e, t)
      PROVE  AgendaInv' /\ now' >= now
  BY <1>1, ScheduleInv DEF AgendaInv
<1>2. ASSUME NEW e \in Events, NEW t \in 0..MaxWhen, Reschedule(e, t)
      PROVE  AgendaInv' /\ now' >= now
  BY <1>2, RescheduleInv DEF AgendaInv
<1>3. ASSUME NEW e \in Events, Deschedule(e) PROVE AgendaInv' /\ now' >= now
  BY <1>3, DescheduleInv DEF AgendaInv
<1>4. ASSUME NEW e \in Events, Squash(e) PROVE AgendaInv' /\ now' >= now
  BY <1>4 DEF Squash, AgendaInv, AgendaOrdered, Ordered, NoneBefore
<1>5. CASE UNCHANGED vars
  BY <1>5 DEF vars, AgendaInv, AgendaOrdered, Ordered, NoneBefore
<1> QED
  BY <1>1, <1>2, <1>3, <1>4, <1>5, ServiceInv DEF Next

\* Whatever is scheduled, moved, squashed and removed in between, the next event to
\* be serviced is never in the past: the assertion in doSimLoop.
THEOREM AgendaSafe == ASSUME AgendaConstants PROVE Spec => []AgendaOrdered
<1>1. AgendaInv => AgendaOrdered
  BY DEF AgendaInv
<1>2. AgendaInv /\ [Next]_vars => AgendaInv'
  BY AgendaInvStep
<1> QED
  BY <1>1, <1>2, AgendaInvInit, PTL DEF Spec

\* Simulated time never goes back (setCurTick in serviceOne).
THEOREM AgendaTime == ASSUME AgendaConstants PROVE Spec => TimeMovesForward
<1>1. AgendaInv /\ [Next]_vars => AgendaInv' /\ [now' >= now]_vars
  BY AgendaInvStep
<1> QED
  BY <1>1, AgendaInvInit, PTL DEF Spec, TimeMovesForward
=============================================================================
