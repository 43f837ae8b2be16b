------------------------------- MODULE Sweep -------------------------------
(***************************************************************************)
(* The design-space sweep.  vary_rob_lsq.py starts one simulate.py process *)
(* per ROB and LSQ size, keeps at most MaxParallelJobs of them alive, and  *)
(* gathers a row of numbers from the results file of each.  A simulate.py  *)
(* process runs gem5, the converter and McPAT in turn and writes that file.*)
(*                                                                         *)
(* A file is modelled by the run its numbers come from: "old" ones were    *)
(* left by an earlier sweep (directories are reused), "new" ones come from *)
(* this sweep, "partial" ones were cut off.                                *)
(***************************************************************************)
EXTENDS Naturals, Sequences, FiniteSets

CONSTANTS NumJobs,          \* len(sizes) squared, in the order of the two loops
          MaxParallelJobs   \* max_parallel_jobs

\* What the theorems assume of the constants.
SweepConstants == NumJobs \in Nat /\ MaxParallelJobs \in Nat

Jobs == 1..NumJobs
Origin == {"none", "old", "partial", "new"}

VARIABLES pc,        \* where vary_rob_lsq.py is
          next,      \* the next job to start
          running,   \* the list of started and not yet collected jobs
          still,     \* still_running of the poll loop
          at,        \* position in running of the poll or of the wait loop
          rows,      \* results: the rows gathered so far
          excel,     \* the rows of the spreadsheet; it is sorted, so
                     \* a set says all
          stage,     \* what the simulate.py process of a job does
          code,      \* its return code
          stats,     \* origin of gem5.out/stats.txt of a job
          xml,       \* origin of mcpat-in.xml
          power,     \* origin of the McPAT output held by the process
          file       \* origin of the results file

driver == <<pc, next, running, still, at, rows, excel>>
process == <<stage, code, stats, xml, power, file>>
vars == <<pc, next, running, still, at, rows, excel,
          stage, code, stats, xml, power, file>>

\* Earlier sweeps, and processes of theirs that failed, may have left any of their
\* files behind, whole or not.
Init ==
    /\ pc = "throttle" /\ next = 1 /\ running = <<>> /\ still = <<>> /\ at = 1
    /\ rows = <<>> /\ excel = {}
    /\ stage = [j \in Jobs |-> "idle"] /\ code = [j \in Jobs |-> 0]
    /\ stats \in [Jobs -> {"none", "old"}] /\ xml \in [Jobs -> {"none", "old"}]
    /\ file \in [Jobs -> {"none", "old"}]
    /\ power = [j \in Jobs |-> "none"]

-----------------------------------------------------------------------------
(* simulate.py *)

Enter(j, s) == stage' = [stage EXCEPT ![j] = s] /\ UNCHANGED code
Exit(j, c) == stage' = [stage EXCEPT ![j] = "exited"] /\ code' = [code EXCEPT ![j] = c]

\* check=True: a failing command ends the script with an exception.  A gem5
\* that dies may have left a piece of its statistics.
Gem5(j) ==
    /\ stage[j] = "gem5"
    /\ \/ Enter(j, "convert") /\ stats' = [stats EXCEPT ![j] = "new"]
       \/ Exit(j, 1) /\ \E o \in {stats[j], "partial"} : stats' = [stats EXCEPT ![j] = o]
    /\ UNCHANGED <<xml, power, file, driver>>

Convert(j) ==
    /\ stage[j] = "convert"
    /\ \/ Enter(j, "mcpat") /\ xml' = [xml EXCEPT ![j] = stats[j]]
       \/ Exit(j, 1) /\ UNCHANGED xml
    /\ UNCHANGED <<stats, power, file, driver>>

McPAT(j) ==
    /\ stage[j] = "mcpat"
    /\ \/ Enter(j, "report") /\ power' = [power EXCEPT ![j] = xml[j]]
       \/ Exit(j, 1) /\ UNCHANGED power
    /\ UNCHANGED <<stats, xml, file, driver>>

\* Statistics without a CPI end the script before the results file is touched;
\* opening the file for writing empties it.
Report(j) ==
    /\ stage[j] = "report"
    /\ \/ Exit(j, 1) /\ UNCHANGED file
       \/ Enter(j, "write") /\ file' = [file EXCEPT ![j] = "partial"]
    /\ UNCHANGED <<stats, xml, power, driver>>

Write(j) ==
    /\ stage[j] = "write"
    /\ \/ /\ Exit(j, 0)
          /\ file' = [file EXCEPT ![j] = IF "old" \in {stats[j], power[j]} THEN "old" ELSE "new"]
       \/ Exit(j, 1) /\ UNCHANGED file
    /\ UNCHANGED <<stats, xml, power, driver>>

JobStep(j) == Gem5(j) \/ Convert(j) \/ McPAT(j) \/ Report(j) \/ Write(j)

-----------------------------------------------------------------------------
(* vary_rob_lsq.py *)

ProcessEnded(j) == stage[j] = "exited"

\* parse_results: no row without a file, whatever the return code was.
Collect(j) ==
    rows' = IF file[j] = "none" THEN rows ELSE Append(rows, [job |-> j, from |-> file[j]])

TooManyJobs == Len(running) >= MaxParallelJobs

\* The while loop is entered for the number of jobs or for the load of the host.
Throttle ==
    /\ pc = "throttle" /\ next <= NumJobs
    /\ pc' = "poll" /\ still' = <<>> /\ at' = 1
    /\ UNCHANGED <<next, running, rows, excel, process>>

\* p.poll() of one job; the processes go on between two polls.
PollOne ==
    /\ pc = "poll" /\ at <= Len(running)
    /\ at' = at + 1
    /\ IF ProcessEnded(running[at])
       THEN Collect(running[at]) /\ UNCHANGED still
       ELSE still' = Append(still, running[at]) /\ UNCHANGED rows
    /\ UNCHANGED <<pc, next, running, excel, process>>

PollEnd ==
    /\ pc = "poll" /\ at > Len(running)
    /\ running' = still
    /\ pc' = "throttle"
    /\ UNCHANGED <<next, still, at, rows, excel, process>>

\* Left only when there are few jobs and the host is not busy.
Start ==
    /\ pc = "throttle" /\ next <= NumJobs /\ ~TooManyJobs
    /\ stage' = [stage EXCEPT ![next] = "gem5"]
    /\ running' = Append(running, next)
    /\ next' = next + 1
    /\ UNCHANGED <<pc, still, at, rows, excel, code, stats, xml, power, file>>

AllStarted ==
    /\ pc = "throttle" /\ next > NumJobs
    /\ pc' = "wait" /\ at' = 1
    /\ UNCHANGED <<next, running, still, rows, excel, process>>

\* p.wait() returns once the process ended.
WaitOne ==
    /\ pc = "wait" /\ at <= Len(running) /\ ProcessEnded(running[at])
    /\ Collect(running[at])
    /\ at' = at + 1
    /\ UNCHANGED <<pc, next, running, still, excel, process>>

WaitEnd ==
    /\ pc = "wait" /\ at > Len(running)
    /\ pc' = "save"
    /\ UNCHANGED <<next, running, still, at, rows, excel, process>>

\* write_excel sorts the rows and leaves an old spreadsheet alone when there are
\* none; then "All simulations completed successfully." is printed.
Save ==
    /\ pc = "save"
    /\ excel' = {rows[p] : p \in DOMAIN rows}
    /\ pc' = "done"
    /\ UNCHANGED <<next, running, still, at, rows, process>>

Driver == Throttle \/ PollOne \/ PollEnd \/ Start \/ AllStarted \/ WaitOne \/ WaitEnd \/ Save

Next == Driver \/ \E j \in Jobs : JobStep(j)

Spec == Init /\ [][Next]_vars

-----------------------------------------------------------------------------
Alive == {j \in Jobs : stage[j] \notin {"idle", "exited"}}

\* The host never runs more than max_parallel_jobs simulations, although the
\* list the script counts is only refreshed while it waits.
JobsBounded == Cardinality(Alive) <= MaxParallelJobs

\* A simulation that ended well gives one row, with numbers of this sweep, whether
\* it was collected by the poll loop or by the final wait; no simulation gives two.
OneRowEach ==
    /\ \A p, q \in DOMAIN rows : rows[p].job = rows[q].job => p = q
    /\ \A p \in DOMAIN rows : ProcessEnded(rows[p].job)
    /\ pc = "done" =>
        \A j \in Jobs : code[j] = 0 =>
            [job |-> j, from |-> "new"] \in excel

\* Results written by a process of this sweep never rest on statistics that an
\* earlier sweep left in the reused directory: every command is checked.
NoMixedResults ==
    \A j \in Jobs : stage[j] = "exited" /\ code[j] = 0 => file[j] = "new"
=============================================================================
