---------------------------- MODULE SweepProofs ----------------------------
(* The sweep respects its bound and gives one row per simulation, for any     *)
(* number of simulations and any bound.                                       *)
EXTENDS Sweep, FiniteSetTheorems, TLAPS

Row == [job : Jobs, from : Origin]
Stages == {"idle", "gem5", "convert", "mcpat", "report", "write", "exited"}

-----------------------------------------------------------------------------
(* The inductive invariant. *)

DriverType ==
    /\ pc \in {"throttle", "poll", "wait", "save", "done"}
    /\ next \in 1..(NumJobs + 1)
    /\ running \in Seq(Jobs) /\ still \in Seq(Jobs)
    /\ at \in Nat \ {0}
    /\ rows \in Seq(Row)

ProcessType ==
    /\ stage \in [Jobs -> Stages] /\ code \in [Jobs -> {0, 1}]
    /\ stats \in [Jobs -> Origin] /\ xml \in [Jobs -> Origin]
    /\ power \in [Jobs -> Origin] /\ file \in [Jobs -> Origin]

\* Each command of simulate.py runs only after the ones before it succeeded.
ChainInv ==
    \A j \in Jobs :
        /\ stage[j] \in {"convert", "mcpat", "report", "write"} => stats[j] = "new"
        /\ stage[j] = "mcpat" => xml[j] = "new"
        /\ stage[j] \in {"report", "write"} => power[j] = "new"
        /\ stage[j] = "exited" /\ code[j] = 0 => file[j] = "new"

Listed(j, from) == \E i \in 1..Len(running) : i >= from /\ running[i] = j
Kept(j) == \E i \in 1..Len(still) : still[i] = j

\* The jobs the script has still to collect.
Pending(j) ==
    \/ pc = "throttle" /\ Listed(j, 1)
    \/ pc = "poll" /\ (Listed(j, at) \/ Kept(j))
    \/ pc = "wait" /\ Listed(j, at)

HasRow(j) == \E p \in 1..Len(rows) : rows[p] = [job |-> j, from |-> "new"]
Settled(j) == ProcessEnded(j) /\ (code[j] = 0 => HasRow(j))

\* The two lists name a job once; still_running holds jobs already polled.
ListInv ==
    /\ Len(running) <= MaxParallelJobs
    /\ \A i, k \in 1..Len(running) : running[i] = running[k] => i = k
    /\ pc = "poll" =>
        /\ at <= Len(running) + 1 /\ Len(still) < at
        /\ \A i, k \in 1..Len(still) : still[i] = still[k] => i = k
        /\ \A i \in 1..Len(still) : \E k \in 1..Len(running) :
              k < at /\ still[i] = running[k]

\* A job is not started, still to be collected, or settled.
JobInv ==
    \A j \in Jobs :
        /\ stage[j] = "idle" <=> j >= next
        /\ Pending(j) => j < next
        /\ j < next => Pending(j) \/ Settled(j)

InRows(j) == \E p \in 1..Len(rows) : rows[p].job = j

RowInv ==
    /\ \A j \in Jobs : InRows(j) => ProcessEnded(j) /\ ~Pending(j)
    /\ \A p, q \in 1..Len(rows) : rows[p].job = rows[q].job => p = q

EndInv ==
    /\ pc \in {"wait", "save", "done"} => next = NumJobs + 1
    /\ pc = "done" => excel = {rows[p] : p \in DOMAIN rows}

SweepInv ==
    DriverType /\ ProcessType /\ ChainInv /\ ListInv /\ JobInv /\ RowInv /\ EndInv

-----------------------------------------------------------------------------
(* Steps of the processes. *)

LEMMA ProcessStep ==
    ASSUME SweepInv, NEW j \in Jobs, JobStep(j)
    PROVE  /\ ProcessType' /\ ChainInv'
           /\ stage[j] \notin {"idle", "exited"} /\ stage'[j] # "idle"
           /\ \A k \in Jobs : k # j => stage'[k] = stage[k] /\ code'[k] = code[k]
           /\ UNCHANGED driver
<1> USE DEF SweepInv, ProcessType, ChainInv, Enter, Exit, Stages, Origin
<1>1. CASE Gem5(j)
  BY <1>1 DEF Gem5
<1>2. CASE Convert(j)
  BY <1>2 DEF Convert
<1>3. CASE McPAT(j)
  BY <1>3 DEF McPAT
<1>4. CASE Report(j)
  BY <1>4 DEF Report
<1>5. CASE Write(j)
  BY <1>5 DEF Write
<1> QED
  BY <1>1, <1>2, <1>3, <1>4, <1>5 DEF JobStep

LEMMA ProcessInv ==
    ASSUME SweepInv, NEW j \in Jobs, JobStep(j)
    PROVE  SweepInv'
<1>1. /\ ProcessType' /\ ChainInv'
      /\ stage[j] \notin {"idle", "exited"} /\ stage'[j] # "idle"
      /\ \A k \in Jobs : k # j => stage'[k] = stage[k] /\ code'[k] = code[k]
      /\ UNCHANGED driver
  BY ProcessStep
<1>2. DriverType' /\ ListInv' /\ EndInv'
  BY <1>1 DEF SweepInv, DriverType, ListInv, EndInv, driver
<1>3. ASSUME NEW k \in Jobs
      PROVE  /\ Pending(k)' <=> Pending(k)
             /\ ProcessEnded(k) => ProcessEnded(k)'
             /\ Settled(k) => Settled(k)'
  <2>1. Pending(k)' <=> Pending(k)
    BY <1>1 DEF driver, Pending, Listed, Kept
  <2>2. HasRow(k)' <=> HasRow(k)
    BY <1>1 DEF driver, HasRow
  <2>3. ProcessEnded(k) => k # j
    BY <1>1 DEF ProcessEnded
  <2> QED
    BY <1>1, <2>1, <2>2, <2>3 DEF ProcessEnded, Settled
<1>4. JobInv'
  BY <1>1, <1>3 DEF SweepInv, JobInv, driver
<1>5. RowInv'
  <2>1. rows' = rows
    BY <1>1 DEF driver
  <2>2. \A k \in Jobs : InRows(k)' => ProcessEnded(k)' /\ ~Pending(k)'
    BY <2>1, <1>3 DEF SweepInv, RowInv, InRows
  <2>3. (\A p, q \in 1..Len(rows) : rows[p].job = rows[q].job => p = q)'
    BY <2>1 DEF SweepInv, RowInv
  <2> QED
    BY <2>2, <2>3 DEF RowInv
<1> QED
  BY <1>1, <1>2, <1>4, <1>5 DEF SweepInv

-----------------------------------------------------------------------------
(* Steps of the script: what is left to collect stays, or one job settles. *)

LEMMA PendingStays ==
    ASSUME SweepInv, UNCHANGED <<next, rows, process>>,
           \A j \in Jobs : Pending(j)' <=> Pending(j)
    PROVE  JobInv' /\ RowInv'
<1>1. ASSUME NEW j \in Jobs
      PROVE  /\ ProcessEnded(j)' <=> ProcessEnded(j)
             /\ Settled(j)' <=> Settled(j)
             /\ InRows(j)' <=> InRows(j)
  BY DEF process, ProcessEnded, Settled, HasRow, InRows
<1>2. stage' = stage /\ next' = next /\ rows' = rows
  BY DEF process
<1>3. JobInv'
  BY <1>1, <1>2 DEF SweepInv, JobInv
<1>4. RowInv'
  BY <1>1, <1>2 DEF SweepInv, RowInv
<1> QED
  BY <1>3, <1>4

LEMMA Collected ==
    ASSUME SweepInv, UNCHANGED <<next, process>>,
           NEW r \in Jobs, Pending(r), ProcessEnded(r), Collect(r),
           \A j \in Jobs : Pending(j)' <=> Pending(j) /\ j # r
    PROVE  JobInv' /\ RowInv' /\ rows' \in Seq(Row)
<1>1. /\ stage' = stage /\ next' = next /\ code' = code
      /\ \A j \in Jobs : ProcessEnded(j)' <=> ProcessEnded(j)
  BY DEF process, ProcessEnded
<1>2. rows \in Seq(Row) /\ file[r] \in Origin
  BY DEF SweepInv, DriverType, ProcessType
<1>3. ~InRows(r)
  BY DEF SweepInv, RowInv
<1>4. CASE file[r] = "none"
  <2>1. rows' = rows
    BY <1>4 DEF Collect
  <2>2. code[r] # 0
    BY <1>4 DEF SweepInv, ChainInv, ProcessEnded
  <2>3. ASSUME NEW j \in Jobs
        PROVE  /\ InRows(j)' <=> InRows(j)
               /\ Settled(j) => Settled(j)'
               /\ Settled(r)'
    BY <1>1, <2>1, <2>2 DEF InRows, Settled, HasRow
  <2>4. JobInv'
    BY <1>1, <2>3 DEF SweepInv, JobInv
  <2>5. RowInv'
    BY <1>1, <2>1, <2>3 DEF SweepInv, RowInv
  <2> QED
    BY <1>2, <2>1, <2>4, <2>5
<1>5. CASE file[r] # "none"
  <2> DEFINE row == [job |-> r, from |-> file[r]]
  <2>1. rows' = Append(rows, row) /\ row \in Row /\ row.job = r
    BY <1>2, <1>5 DEF Collect, Row
  <2>2. code[r] = 0 => row = [job |-> r, from |-> "new"]
    BY DEF SweepInv, ChainInv, ProcessEnded
  <2> HIDE DEF row
  <2>3. /\ rows' \in Seq(Row) /\ Len(rows') = Len(rows) + 1
        /\ Len(rows) \in Nat
        /\ rows'[Len(rows) + 1] = row
        /\ \A p \in 1..Len(rows) : rows'[p] = rows[p]
    BY <1>2, <2>1
  <2>4. ASSUME NEW j \in Jobs
        PROVE  /\ InRows(j)' => InRows(j) \/ j = r
               /\ HasRow(j) => HasRow(j)'
    BY <2>1, <2>3 DEF InRows, HasRow
  <2>5. code[r] = 0 => HasRow(r)'
    BY <2>2, <2>3 DEF HasRow
  <2>6. \A j \in Jobs : Settled(j) \/ j = r => Settled(j)'
    BY <1>1, <2>4, <2>5 DEF Settled
  <2>7. JobInv'
    BY <1>1, <2>6 DEF SweepInv, JobInv
  <2>8. \A p, q \in 1..Len(rows') : rows'[p].job = rows'[q].job => p = q
    <3>1. \A p \in 1..Len(rows) : rows'[p].job # r
      BY <1>3, <2>3 DEF InRows
    <3>2. \A p, q \in 1..Len(rows) : rows'[p].job = rows'[q].job => p = q
      BY <2>3 DEF SweepInv, RowInv
    <3>3. \A p \in 1..Len(rows') : p \in 1..Len(rows) \/ p = Len(rows) + 1
      BY <2>3
    <3> QED
      BY <3>1, <3>2, <3>3, <2>1, <2>3
  <2>9. RowInv'
    BY <1>1, <2>4, <2>8 DEF SweepInv, RowInv
  <2> QED
    BY <2>3, <2>7, <2>9
<1> QED
  BY <1>4, <1>5

LEMMA ProcessesRest ==
    ASSUME SweepInv, UNCHANGED process
    PROVE  ProcessType' /\ ChainInv'
  BY DEF SweepInv, ProcessType, ChainInv, process

LEMMA ThrottleInv ==
    ASSUME SweepInv, Throttle
    PROVE  SweepInv'
<1> USE DEF Throttle
<1>1. \A j \in Jobs : Pending(j)' <=> Pending(j)
  BY DEF Pending, Listed, Kept
<1>2. JobInv' /\ RowInv'
  BY <1>1, PendingStays
<1>3. DriverType' /\ EndInv'
  BY DEF SweepInv, DriverType, EndInv
<1>4. ListInv'
  BY DEF SweepInv, DriverType, ListInv
<1> QED
  BY <1>2, <1>3, <1>4, ProcessesRest DEF SweepInv

LEMMA PollOneInv ==
    ASSUME SweepInv, PollOne
    PROVE  SweepInv'
<1> DEFINE r == running[at]
<1>1. /\ pc = "poll" /\ pc' = "poll" /\ at' = at + 1
      /\ at \in 1..Len(running) /\ Len(running) \in Nat /\ at \in Nat
      /\ UNCHANGED <<next, running, excel, process>>
      /\ IF ProcessEnded(r) THEN Collect(r) /\ UNCHANGED still
         ELSE still' = Append(still, r) /\ UNCHANGED rows
  BY DEF SweepInv, DriverType, PollOne
<1>2. r \in Jobs /\ Pending(r)
  BY <1>1 DEF SweepInv, DriverType, Pending, Listed
<1>3. ~Kept(r)
  BY <1>1 DEF SweepInv, ListInv, Kept
<1>4. \A j : Listed(j, at) <=> Listed(j, at + 1) \/ j = r
  BY <1>1 DEF Listed
<1>5. ~Listed(r, at + 1)
  BY <1>1 DEF SweepInv, ListInv, Listed
<1>6. \A j : Listed(j, at)' <=> Listed(j, at + 1)
  BY <1>1 DEF Listed
<1> HIDE DEF r
<1>7. CASE ProcessEnded(r)
  <2>1. Collect(r) /\ still' = still
    BY <1>1, <1>7
  <2>2. \A j \in Jobs : Pending(j)' <=> Pending(j) /\ j # r
    <3>1. \A j : Kept(j)' <=> Kept(j)
      BY <2>1 DEF Kept
    <3> QED
      BY <3>1, <1>1, <1>3, <1>4, <1>5, <1>6 DEF Pending
  <2>3. JobInv' /\ RowInv' /\ rows' \in Seq(Row)
    BY <2>1, <2>2, <1>1, <1>2, <1>7, Collected
  <2>4. DriverType' /\ EndInv'
    BY <2>1, <2>3, <1>1 DEF SweepInv, DriverType, EndInv
  <2>5. ListInv'
    BY <2>1, <1>1 DEF SweepInv, DriverType, ListInv
  <2> QED
    BY <2>3, <2>4, <2>5, <1>1, ProcessesRest DEF SweepInv
<1>8. CASE ~ProcessEnded(r)
  <2>1. still' = Append(still, r) /\ rows' = rows /\ still \in Seq(Jobs)
    BY <1>1, <1>8 DEF SweepInv, DriverType
  <2>2. /\ still' \in Seq(Jobs) /\ Len(still') = Len(still) + 1 /\ Len(still) \in Nat
        /\ still'[Len(still) + 1] = r
        /\ \A i \in 1..Len(still) : still'[i] = still[i]
    BY <2>1, <1>2
  <2>3. \A i \in 1..Len(still') : i \in 1..Len(still) \/ i = Len(still) + 1
    BY <2>2
  <2>4. \A j \in Jobs : Pending(j)' <=> Pending(j)
    <3>1. \A j : Kept(j)' <=> Kept(j) \/ j = r
      BY <2>2, <2>3 DEF Kept
    <3> QED
      BY <3>1, <1>1, <1>4, <1>6 DEF Pending
  <2>5. JobInv' /\ RowInv'
    BY <2>1, <2>4, <1>1, PendingStays
  <2>6. DriverType' /\ EndInv'
    BY <2>1, <2>2, <1>1 DEF SweepInv, DriverType, EndInv
  <2>7. \A i, k \in 1..Len(still') : still'[i] = still'[k] => i = k
    <3>1. \A i \in 1..Len(still) : still[i] # r
      BY <1>3 DEF Kept
    <3>2. \A i, k \in 1..Len(still) : still[i] = still[k] => i = k
      BY <1>1 DEF SweepInv, ListInv
    <3> QED
      BY <3>1, <3>2, <2>2, <2>3
  <2>8. \A i \in 1..Len(still') : \E k \in 1..Len(running) :
           k < at + 1 /\ still'[i] = running[k]
    <3>1. \A i \in 1..Len(still) : \E k \in 1..Len(running) :
             k < at /\ still[i] = running[k]
      BY <1>1 DEF SweepInv, ListInv
    <3> QED
      BY <3>1, <2>2, <2>3, <1>1 DEF r
  <2>9. ListInv'
    BY <2>2, <2>7, <2>8, <1>1 DEF SweepInv, ListInv
  <2> QED
    BY <2>5, <2>6, <2>9, <1>1, ProcessesRest DEF SweepInv
<1> QED
  BY <1>7, <1>8

LEMMA PollEndInv ==
    ASSUME SweepConstants, SweepInv, PollEnd
    PROVE  SweepInv'
<1>1. /\ pc = "poll" /\ pc' = "throttle" /\ at > Len(running) /\ running' = still
      /\ Len(running) \in Nat /\ Len(still) \in Nat /\ at \in Nat
      /\ UNCHANGED <<next, still, at, rows, excel, process>>
  BY DEF PollEnd, SweepInv, DriverType
<1>2. \A j \in Jobs : Pending(j)' <=> Pending(j)
  <2>1. \A j : ~Listed(j, at)
    BY <1>1 DEF Listed
  <2>2. \A j : Listed(j, 1)' <=> Kept(j)
    BY <1>1 DEF Listed, Kept
  <2> QED
    BY <1>1, <2>1, <2>2 DEF Pending
<1>3. JobInv' /\ RowInv'
  BY <1>1, <1>2, PendingStays
<1>4. DriverType' /\ EndInv'
  BY <1>1 DEF SweepInv, DriverType, EndInv
<1>5. ListInv'
  BY <1>1 DEF SweepInv, ListInv, SweepConstants
<1> QED
  BY <1>1, <1>3, <1>4, <1>5, ProcessesRest DEF SweepInv

LEMMA StartInv ==
    ASSUME SweepConstants, SweepInv, Start
    PROVE  SweepInv'
<1>1. /\ pc = "throttle" /\ pc' = "throttle" /\ next \in Jobs /\ next' = next + 1
      /\ running \in Seq(Jobs) /\ Len(running) < MaxParallelJobs
      /\ stage' = [stage EXCEPT ![next] = "gem5"] /\ running' = Append(running, next)
      /\ UNCHANGED <<still, at, rows, excel, code, stats, xml, power, file>>
  BY DEF Start, TooManyJobs, SweepInv, DriverType, Jobs, SweepConstants
<1>2. /\ running' \in Seq(Jobs) /\ Len(running') = Len(running) + 1
      /\ Len(running) \in Nat
      /\ running'[Len(running) + 1] = next
      /\ \A i \in 1..Len(running) : running'[i] = running[i]
      /\ \A i \in 1..Len(running') : i \in 1..Len(running) \/ i = Len(running) + 1
  BY <1>1
<1>3. stage[next] = "idle"
  BY <1>1 DEF SweepInv, JobInv, Jobs
<1>4. \A j : Pending(j)' <=> Pending(j) \/ j = next
  <2>1. \A j : Listed(j, 1)' <=> Listed(j, 1) \/ j = next
    BY <1>2 DEF Listed
  <2> QED
    BY <1>1, <2>1 DEF Pending
<1>5. \A i \in 1..Len(running) : running[i] # next
  <2>1. \A i \in 1..Len(running) : Pending(running[i]) /\ running[i] \in Jobs
    BY <1>1 DEF Pending, Listed
  <2>2. \A i \in 1..Len(running) : running[i] < next
    BY <2>1 DEF SweepInv, JobInv
  <2> QED
    BY <2>2, <1>1 DEF Jobs
<1>6. ListInv'
  <2>1. \A i, k \in 1..Len(running') : running'[i] = running'[k] => i = k
    BY <1>2, <1>5 DEF SweepInv, ListInv
  <2> QED
    BY <2>1, <1>1, <1>2 DEF SweepInv, ListInv, SweepConstants
<1>7. DriverType' /\ EndInv'
  <2>1. next' \in 1..(NumJobs + 1)
    BY <1>1 DEF Jobs, SweepConstants
  <2> QED
    BY <2>1, <1>1, <1>2 DEF SweepInv, DriverType, EndInv
<1>8. ProcessType' /\ ChainInv'
  <2>1. stage' \in [Jobs -> Stages] /\ \A j \in Jobs : j # next => stage'[j] = stage[j]
    BY <1>1 DEF SweepInv, ProcessType, Stages
  <2>2. stage'[next] = "gem5"
    BY <1>1 DEF SweepInv, ProcessType
  <2> QED
    BY <2>1, <2>2, <1>1 DEF SweepInv, ProcessType, ChainInv
<1>9. ASSUME NEW j \in Jobs
      PROVE  /\ stage'[j] = "idle" <=> stage[j] = "idle" /\ j # next
             /\ ProcessEnded(j)' <=> ProcessEnded(j)
             /\ Settled(j)' <=> Settled(j)
             /\ InRows(j)' <=> InRows(j)
  <2>1. stage'[j] = IF j = next THEN "gem5" ELSE stage[j]
    BY <1>1 DEF SweepInv, ProcessType
  <2> QED
    BY <2>1, <1>1, <1>3 DEF ProcessEnded, Settled, HasRow, InRows
<1>10. JobInv'
  BY <1>1, <1>4, <1>9 DEF SweepInv, JobInv, Jobs
<1>11. RowInv'
  <2>1. ~ProcessEnded(next)
    BY <1>3 DEF ProcessEnded
  <2> QED
    BY <2>1, <1>1, <1>4, <1>9 DEF SweepInv, RowInv
<1> QED
  BY <1>6, <1>7, <1>8, <1>10, <1>11 DEF SweepInv

LEMMA WaitOneInv ==
    ASSUME SweepInv, WaitOne
    PROVE  SweepInv'
<1> DEFINE r == running[at]
<1>1. /\ pc = "wait" /\ pc' = "wait" /\ at' = at + 1
      /\ at \in 1..Len(running) /\ Len(running) \in Nat /\ at \in Nat
      /\ UNCHANGED <<next, running, still, excel, process>>
      /\ ProcessEnded(r) /\ Collect(r)
  BY DEF SweepInv, DriverType, WaitOne
<1>2. r \in Jobs /\ Pending(r)
  BY <1>1 DEF SweepInv, DriverType, Pending, Listed
<1>3. \A j : Listed(j, at)' <=> Listed(j, at) /\ j # r
  BY <1>1 DEF SweepInv, ListInv, Listed
<1> HIDE DEF r
<1>4. \A j \in Jobs : Pending(j)' <=> Pending(j) /\ j # r
  BY <1>1, <1>3 DEF Pending
<1>5. JobInv' /\ RowInv' /\ rows' \in Seq(Row)
  BY <1>1, <1>2, <1>4, Collected
<1>6. DriverType' /\ EndInv'
  BY <1>1, <1>5 DEF SweepInv, DriverType, EndInv
<1>7. ListInv'
  BY <1>1 DEF SweepInv, ListInv
<1> QED
  BY <1>1, <1>5, <1>6, <1>7, ProcessesRest DEF SweepInv

\* The steps between the loops.
LEMMA AllStartedInv ==
    ASSUME SweepConstants, SweepInv, AllStarted
    PROVE  SweepInv'
<1> USE DEF AllStarted
<1>1. \A j \in Jobs : Pending(j)' <=> Pending(j)
  BY DEF Pending, Listed
<1>2. JobInv' /\ RowInv'
  BY <1>1, PendingStays
<1>3. DriverType' /\ EndInv' /\ ListInv'
  BY DEF SweepInv, DriverType, EndInv, ListInv, SweepConstants
<1> QED
  BY <1>2, <1>3, ProcessesRest DEF SweepInv

LEMMA WaitEndInv ==
    ASSUME SweepInv, WaitEnd
    PROVE  SweepInv'
<1> USE DEF WaitEnd
<1>1. \A j \in Jobs : Pending(j)' <=> Pending(j)
  BY DEF Pending, Listed, SweepInv, DriverType
<1>2. JobInv' /\ RowInv'
  BY <1>1, PendingStays
<1>3. DriverType' /\ EndInv' /\ ListInv'
  BY DEF SweepInv, DriverType, EndInv, ListInv
<1> QED
  BY <1>2, <1>3, ProcessesRest DEF SweepInv

LEMMA SaveInv ==
    ASSUME SweepInv, Save
    PROVE  SweepInv'
<1> USE DEF Save
<1>1. \A j \in Jobs : Pending(j)' <=> Pending(j)
  BY DEF Pending
<1>2. JobInv' /\ RowInv'
  BY <1>1, PendingStays
<1>3. DriverType' /\ EndInv' /\ ListInv'
  BY DEF SweepInv, DriverType, EndInv, ListInv
<1> QED
  BY <1>2, <1>3, ProcessesRest DEF SweepInv

-----------------------------------------------------------------------------
LEMMA InitInv ==
    ASSUME SweepConstants, Init
    PROVE  SweepInv
<1>1. DriverType /\ ListInv /\ EndInv
  BY DEF Init, DriverType, ListInv, EndInv, SweepConstants
<1>2. ProcessType /\ ChainInv
  BY DEF Init, ProcessType, ChainInv, Stages, Origin
<1>3. JobInv /\ RowInv
  <2>1. \A j : ~Pending(j) /\ ~InRows(j)
    BY DEF Init, Pending, Listed, InRows
  <2> QED
    BY <2>1 DEF Init, JobInv, RowInv, Jobs, SweepConstants
<1> QED
  BY <1>1, <1>2, <1>3 DEF SweepInv

LEMMA NextInv ==
    ASSUME SweepConstants, SweepInv, [Next]_vars
    PROVE  SweepInv'
<1>1. CASE UNCHANGED vars
  <2>1. UNCHANGED <<next, rows, process>> /\ \A j \in Jobs : Pending(j)' <=> Pending(j)
    BY <1>1 DEF vars, process, Pending, Listed, Kept
  <2>2. JobInv' /\ RowInv'
    BY <2>1, PendingStays
  <2>3. DriverType' /\ EndInv' /\ ListInv'
    BY <1>1 DEF SweepInv, DriverType, EndInv, ListInv, vars
  <2> QED
    BY <2>1, <2>2, <2>3, ProcessesRest DEF SweepInv
<1> QED
  BY <1>1, ThrottleInv, PollOneInv, PollEndInv, StartInv, AllStartedInv, WaitOneInv,
     WaitEndInv, SaveInv, ProcessInv DEF Next, Driver

\* The jobs alive are to be collected, hence in the list, which is short.
LEMMA BoundHolds ==
    ASSUME SweepConstants, SweepInv
    PROVE  JobsBounded
<1> DEFINE n == Len(running)
           S == 1..n
           T == {running[i] : i \in S}
<1>1. n \in Nat /\ n <= MaxParallelJobs
  BY DEF SweepInv, DriverType, ListInv
<1>2. IsFiniteSet(S) /\ Cardinality(S) = n
  <2>1. IsFiniteSet(1..n) /\ Cardinality(1..n) = IF 1 > n THEN 0 ELSE n - 1 + 1
    BY <1>1, FS_Interval
  <2> QED
    BY <1>1, <2>1
<1>3. Alive \subseteq T
  <2> SUFFICES ASSUME NEW j \in Jobs, stage[j] # "idle", stage[j] # "exited"
               PROVE  j \in T
    BY DEF Alive
  <2>1. j < next
    BY DEF SweepInv, JobInv, DriverType, Jobs, SweepConstants
  <2>2. Pending(j)
    BY <2>1 DEF SweepInv, JobInv, Settled, ProcessEnded
  <2>3. Listed(j, 1)
    <3>1. CASE pc = "poll" /\ Kept(j)
      BY <3>1 DEF Listed, Kept, SweepInv, ListInv
    <3>2. CASE Listed(j, at)
      BY <3>2 DEF Listed
    <3> QED
      BY <2>2, <3>1, <3>2 DEF Pending
  <2> QED
    BY <2>3 DEF Listed
<1>4. IsFiniteSet(T) /\ Cardinality(T) <= n
  <2> HIDE DEF S
  <2>1. IsFiniteSet(T) /\ Cardinality(T) <= Cardinality(S)
    <3>1. running \in Surjection(S, T)
      BY DEF Surjection, SweepInv, DriverType, S
    <3> QED
      BY <1>2, <3>1, FS_Surjection
  <2> QED
    BY <1>2, <2>1
<1>5. Cardinality(Alive) <= Cardinality(T) /\ IsFiniteSet(Alive)
  BY <1>3, <1>4, FS_Subset
<1>6. Cardinality(Alive) \in Nat /\ Cardinality(T) \in Nat
  BY <1>4, <1>5, FS_CardinalityType
<1> QED
  BY <1>1, <1>4, <1>5, <1>6 DEF JobsBounded, SweepConstants

LEMMA RowsHold ==
    ASSUME SweepConstants, SweepInv
    PROVE  OneRowEach
<1>1. DOMAIN rows = 1..Len(rows)
  BY DEF SweepInv, DriverType
<1>2. \A p \in DOMAIN rows : ProcessEnded(rows[p].job)
  <2>1. \A p \in DOMAIN rows : rows[p] \in Row
    BY <1>1 DEF SweepInv, DriverType
  <2>2. \A p \in DOMAIN rows : rows[p].job \in Jobs
    BY <2>1 DEF Row
  <2> QED
    BY <1>1, <2>2 DEF SweepInv, RowInv, InRows
<1>3. ASSUME pc = "done", NEW j \in Jobs, code[j] = 0
      PROVE  [job |-> j, from |-> "new"] \in excel
  <2>1. ~Pending(j) /\ j < next
    BY <1>3 DEF Pending, SweepInv, EndInv, Jobs, SweepConstants
  <2>2. HasRow(j)
    BY <1>3, <2>1 DEF SweepInv, JobInv, Settled
  <2> QED
    BY <1>1, <1>3, <2>2 DEF HasRow, SweepInv, EndInv
<1>4. \A p, q \in DOMAIN rows : rows[p].job = rows[q].job => p = q
  BY <1>1 DEF SweepInv, RowInv
<1> QED
  BY <1>2, <1>3, <1>4 DEF OneRowEach

\* The sweep never runs more simulations than max_parallel_jobs, gives every
\* simulation that ended well exactly one row, and never reports the statistics
\* of an earlier sweep as those of a simulation that ended well (vary_rob_lsq.py,
\* simulate.py).
THEOREM SweepSafe ==
    ASSUME SweepConstants
    PROVE  Spec => [](JobsBounded /\ OneRowEach /\ NoMixedResults)
<1>1. Init => SweepInv
  BY InitInv
<1>2. SweepInv /\ [Next]_vars => SweepInv'
  BY NextInv
<1>3. SweepInv => JobsBounded /\ OneRowEach /\ NoMixedResults
  BY BoundHolds, RowsHold DEF SweepInv, ChainInv, NoMixedResults
<1> QED
  BY <1>1, <1>2, <1>3, PTL DEF Spec
=============================================================================
