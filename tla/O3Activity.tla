----------------------------- MODULE O3Activity -----------------------------
(***************************************************************************)
(* When the O3 CPU sleeps and what wakes it (activity.cc, cpu.cc).  The    *)
(* CPU reschedules its tick only while the activity recorder counts recent *)
(* activity or active stages.  Otherwise it waits for wakeCPU, which the   *)
(* callbacks of the memory system, the TLB and the functional units make,  *)
(* and which does nothing when the recorder is active.  Draining, CPU      *)
(* switching and suspended threads act on the same state.                  *)
(* The pipeline (module O3CPU) is reduced to one thread's list of          *)
(* instructions and what each of them waits for: a state transformer per   *)
(* stage, on the record cpu.  Instruction fetches that fault or that the   *)
(* cache refuses, quiesce instructions and halting threads are left out.   *)
(***************************************************************************)
EXTENDS Integers, Sequences, FiniteSets, SequencesExt

CONSTANTS
  LongestLatency, \* depth of the activity buffer (backComSize + forwardComSize)
  MaxInsts,       \* bound on the instructions in flight
  MaxTCWrites,    \* bound on the writes to the thread context from outside
  DrainHalted     \* whether a CPU whose thread has halted is asked to drain

(* A squash takes three cycles from commit until fetch has obeyed it. *)
ASSUME LatencyAssumption == LongestLatency \in Nat /\ LongestLatency >= 3
ASSUME BoundsAssumption == MaxInsts \in Nat /\ MaxTCWrites \in Nat

VARIABLE cpu

Stages == {"fetch", "iew", "commit"}  \* decode and rename only pass activity on

(* The fields of cpu: bits and count of the recorder; active (stageActive);   *)
(* own, the stages whose own _status is Active; tick, the tick event; status  *)
(* and drain of the CPU; thread; fetch (fetchStatus); line, whether the fetch *)
(* buffer holds the line fetch is at; drainStall; squash, commit's signal on  *)
(* the wire; list; late, the events that squashed instructions and fetches    *)
(* left behind; pending, the trap, the squash-after or the squash for a write *)
(* to the thread context that commit has yet to do; tcWrites counts those;    *)
(* fresh, whether the last activation is of this very tick of simulated time. *)
(* An instruction of the list waits for: an FU to issue it ("ready"); its     *)
(* turn in instsToExecute ("exec"); an FUCompletion event ("fu"); its         *)
(* translation ("deferred"), or the IQ to notice it ("translated"); the       *)
(* blocked cache ("blocked"), or the IQ to retry ("retry"); data ("waiting"); *)
(* the wire to commit ("complete", then "arrived"); commit ("canCommit").     *)
(* "Again" marks an access that was deferred or blocked before.               *)
ThreadActive(s) == s.thread = "Active"    \* activeThreads is not empty

-----------------------------------------------------------------------------
(* ActivityRecorder *)

Active(s) == s.count # 0

Activity(s) ==
  IF s.bits[0] THEN s ELSE [s EXCEPT !.bits[0] = TRUE, !.count = @ + 1]

Advance(s) ==
  [s EXCEPT !.count = IF s.bits[LongestLatency] THEN @ - 1 ELSE @,
            !.bits = [i \in 0 .. LongestLatency |->
                        IF i = 0 THEN FALSE ELSE s.bits[i - 1]]]

ActivateStage(s, x) ==
  IF x \in s.active THEN s
  ELSE [s EXCEPT !.active = @ \cup {x}, !.count = @ + 1]

DeactivateStage(s, x) ==
  IF x \in s.active THEN [s EXCEPT !.active = @ \ {x}, !.count = @ - 1] ELSE s

(* Mutant of Reset: the recent activity stays in the buffer. *)
ResetCountOnly(s) == [s EXCEPT !.count = 0, !.active = {}]

Reset(s) == [s EXCEPT !.count = 0, !.active = {},
                      !.bits = [i \in 0 .. LongestLatency |-> FALSE]]

(* How a stage follows its own activity: updateFetchStatus, IEW::updateStatus *)
(* and Commit::updateStatus tell the recorder only when _status changes.      *)
UpdateStatus(s, x, on) ==
  IF on /\ x \notin s.own THEN [ActivateStage(s, x) EXCEPT !.own = @ \cup {x}]
  ELSE IF ~on /\ x \in s.own
       THEN [DeactivateStage(s, x) EXCEPT !.own = @ \ {x}] ELSE s

(* Mutant of WakeCPU: only the tick event is looked at. *)
WakeCPUAnyway(s, when) == IF s.tick # "none" THEN s ELSE [s EXCEPT !.tick = when]

(* CPU::wakeCPU; "when" tells a callback between two ticks from a call in the *)
(* tick itself, whose event would be put in the cycle that is running.        *)
WakeCPU(s, when) ==
  IF Active(s) \/ s.tick # "none" THEN s ELSE [s EXCEPT !.tick = when]

-----------------------------------------------------------------------------
(* Fetch *)

FetchActive(s) ==
  ThreadActive(s) /\ s.fetch \in {"Running", "Squashing", "IcacheAccessComplete"}

(* Leaving ItlbWait leaves the table walk behind. *)
SetFetch(s, f) ==
  [s EXCEPT !.fetch = f,
            !.late = IF s.fetch = "ItlbWait" THEN @ \cup {"walk"} ELSE @]

(* Fetch::checkSignalsAndUpdate *)
FetchSignalled(s) ==
  \/ s.squash
  \/ s.drainStall /\ s.fetch \notin {"IcacheWaitResponse", "ItlbWait"}
  \/ s.fetch \in {"Blocked", "Squashing"}
FetchSignals(s) ==
  CASE s.squash -> [SetFetch(s, "Squashing") EXCEPT !.squash = FALSE]
    [] ~s.squash /\ s.drainStall /\ FetchSignalled(s) -> SetFetch(s, "Blocked")
    [] ~s.squash /\ ~s.drainStall /\ s.fetch \in {"Blocked", "Squashing"} ->
         SetFetch(s, "Running")
    [] OTHER -> s

(* Fetch::fetch: back from the instruction cache, or, while running, an       *)
(* instruction from the fetch buffer or an access for the next line, whose    *)
(* translation takes a table walk or calls finishTranslation at once.         *)
FetchChoices(s) ==
  IF ~ThreadActive(s) THEN {"none"}
  ELSE CASE s.fetch = "IcacheAccessComplete" -> {"inst"}
         [] s.fetch = "Running" -> {"walk", "access"} \cup
                                   IF s.line THEN {"inst"} ELSE {}
         [] OTHER -> {"none"}

Fetched(s) ==     \* decode is stalled when there is no room behind it
  IF Len(s.list) < MaxInsts
  THEN Activity([s EXCEPT !.list = Append(@, "ready")]) ELSE s

(* Fetch::finishTranslation of the translation fetch waits for *)
FinishTranslation(s, when) ==
  LET w == [WakeCPU(s, when) EXCEPT !.fetch = "IcacheWaitResponse"]
  IN  UpdateStatus(w, "fetch", FetchActive(w))

(* Fetch::tick; c is FetchChoices' choice after checkSignalsAndUpdate. *)
FetchTick(s, changed, c) ==
  LET back == c = "inst" /\ s.fetch = "IcacheAccessComplete"
      run  == [s EXCEPT !.fetch = "Running", !.line = c = "inst"]
      f == CASE c = "inst"   -> Fetched(run)
             [] c = "walk"   -> [run EXCEPT !.fetch = "ItlbWait"]
             [] c = "access" -> FinishTranslation(run, "again")
             [] OTHER        -> s
  IN  IF changed \/ back THEN UpdateStatus(f, "fetch", FetchActive(f)) ELSE f

-----------------------------------------------------------------------------
(* Issue and execution *)

Positions(s, S) == {i \in 1 .. Len(s.list) : s.list[i] \in S}

(* IEW::executeInsts: outcome gives where each instruction goes; an access    *)
(* that was deferred or blocked goes through the second time.                 *)
Outcomes(s) ==
  [Positions(s, {"exec", "execAgain"}) ->
     {"deferred", "blocked", "waiting", "complete"}]
Execute(s, outcome) ==
  IF DOMAIN outcome = {} /\ "exec" \notin s.late THEN s
  ELSE Activity([s EXCEPT !.late = @ \ {"exec"},
                          !.list = [i \in 1 .. Len(@) |->
         IF i \notin DOMAIN outcome THEN @[i]
         ELSE IF @[i] = "execAgain" /\ outcome[i] \in {"deferred", "blocked"}
              THEN "waiting" ELSE outcome[i]]])

(* Mutant of Reschedule: an access the cache blocked is not tried again. *)
RescheduleDeferred(s) ==
  [s EXCEPT !.list = [i \in 1 .. Len(@) |->
     IF @[i] = "translated" THEN "readyAgain" ELSE @[i]]]

(* getDeferredMemInstToExecute, getBlockedMemInstToExecute *)
Reschedule(s) ==
  [s EXCEPT !.list = [i \in 1 .. Len(@) |->
     IF @[i] \in {"translated", "retry"} THEN "readyAgain" ELSE @[i]]]

(* Mutant of KeepsAwake: only issued instructions count as activity. *)
KeepsAwakeIssued(s, issue) == issue # {}

(* InstructionQueue::scheduleReadyInsts: those of issue find an FU, the ones  *)
(* in long for more than a cycle.  An instruction that waits for its          *)
(* translation counts as activity, since its completion wakes nobody.         *)
KeepsAwake(s, issue) == issue # {} \/ Positions(s, {"deferred", "retry"}) # {}
Issue(s, issue, long) ==
  LET i1 == [s EXCEPT !.list = [i \in 1 .. Len(@) |->
               IF i \notin issue THEN @[i]
               ELSE IF i \in long THEN "fu"
               ELSE IF @[i] = "readyAgain" THEN "execAgain" ELSE "exec"]]
  IN  IF KeepsAwake(s, issue) THEN Activity(i1) ELSE i1

(* hasReadyInsts, at the end of IEW::tick *)
IEWStatus(s) ==
  UpdateStatus(s, "iew", Positions(s, {"ready", "readyAgain"}) # {})

-----------------------------------------------------------------------------
(* Commit *)

HeadReady(s) == Len(s.list) > 0 /\ s.list[1] = "canCommit"

(* Commit::squashAll; a squashed instruction still leaves its FU and          *)
(* instsToExecute, and its data still arrive.                                 *)
SquashAll(s) ==
  LET left == {l \in {"fu", "exec", "waiting"} : Positions(s, {l}) # {}} \cup
              (IF Positions(s, {"execAgain"}) = {} THEN {} ELSE {"exec"})
  IN  Activity([s EXCEPT !.list = <<>>, !.squash = TRUE, !.pending = "none",
                         !.late = @ \cup left])

(* commitInsts: the head commits, and ends the drain's last instruction, or   *)
(* it faults, which may be a system call that suspends the thread.            *)
CommitChoices(s) ==
  IF ThreadActive(s) /\ s.pending = "none" /\ HeadReady(s)
  THEN {"retire", "fault", "suspend"} ELSE {"none"}
Retire(s) ==
  LET r == Activity([s EXCEPT !.list = Tail(@)])
  IN  IF s.drain = "Draining"
      THEN [r EXCEPT !.pending = "after", !.drainStall = TRUE] ELSE r

(* Mutant of SuspendThread: a thread suspends although the CPU drains. *)
SuspendThreadAlways(s) ==
  IF s.thread = "Suspended" THEN s
  ELSE [s EXCEPT !.thread = "Suspended", !.status = "Idle"]

(* ThreadContext::suspend and CPU::suspendContext of the only thread.  Its own *)
(* instruction calls it, in the tick: the recorder is active, no wakeCPU has   *)
(* scheduled a tick, and unscheduleTickEvent finds nothing to squash.          *)
SuspendThread(s) ==
  IF s.thread = "Suspended" \/ s.drain = "Draining" THEN s
  ELSE [s EXCEPT !.thread = "Suspended", !.status = "Idle"]

(* markCompletedInsts *)
MarkCompleted(s) ==
  [s EXCEPT !.list = [i \in 1 .. Len(@) |->
     IF @[i] = "arrived" THEN "canCommit" ELSE @[i]]]

(* _nextStatus and Commit::updateStatus.  The trap event wakes nobody. *)
CommitStatus(s) ==
  UpdateStatus(s, "commit",
    ThreadActive(s) /\ (HeadReady(s) \/ s.squash \/
                        s.pending \in {"trap", "trapTaken"}))

CommitTick(s, c) ==
  IF ~ThreadActive(s) THEN s
  ELSE LET d == CASE s.pending \in {"trapTaken", "after", "tc"} -> SquashAll(s)
                  [] c = "retire"  -> Retire(s)
                  [] c = "fault"   -> [s EXCEPT !.pending = "trap"]
                  [] c = "suspend" -> SuspendThread([s EXCEPT !.pending = "trap"])
                  [] OTHER -> s
       IN  CommitStatus(MarkCompleted(d))

-----------------------------------------------------------------------------
(* CPU *)

(* iewQueue.advance *)
AdvanceQueues(s) ==
  [s EXCEPT !.list = [i \in 1 .. Len(@) |->
     IF @[i] = "complete" THEN "arrived" ELSE @[i]]]

(* The end of CPU::tick: the next tick. *)
Sleep(s) ==
  IF s.tick # "none" \/ s.status # "Running" \/ ~Active(s) THEN s
  ELSE [s EXCEPT !.tick = "scheduled", !.fresh = FALSE]   \* a cycle later

(* CPU::isCpuDrained *)
IsCpuDrained(s) ==
  /\ s.list = <<>> /\ s.late \subseteq {"walk", "waiting"}
  /\ s.fetch = "Blocked" /\ s.drainStall

(* CPU::tryDrain *)
TryDrain(s) ==
  IF s.drain = "Draining" /\ IsCpuDrained(s)
  THEN [s EXCEPT !.drain = "Signalled", !.tick = "none"] ELSE s

(* CPU::tick, with the choices that stand for the program and the caches.     *)
(* One that commits its head when it can is told apart for fairness; what the *)
(* head can do in this tick was settled by the last one.                      *)
Ticking == cpu.tick \in {"scheduled", "again"}
Tick(commits) ==
  /\ Ticking
  /\ \E r \in CommitChoices(cpu) \cap commits,
        begun \in {[cpu EXCEPT !.tick = "none"]} :
     \E signals \in {IF ThreadActive(begun) THEN FetchSignals(begun) ELSE begun},
        changed \in {ThreadActive(begun) /\ FetchSignalled(begun)} :
     \E c \in FetchChoices(signals) :
     \E fetched \in {FetchTick(signals, changed, c)} :
     \E outcome \in Outcomes(fetched) :
     \E ran \in {Execute(fetched, outcome)} :
     \E executed \in {Reschedule(ran)} :
     \E issue \in SUBSET Positions(executed, {"ready", "readyAgain"}) :
     \E long \in SUBSET issue :
     \E issued \in {Issue(executed, issue, long)} :
     \E iew \in {IEWStatus(issued)} :
     \E committed \in {CommitTick(iew, r)} :
     \E queued \in {AdvanceQueues(committed)} :
     \E advanced \in {Advance(queued)} :
     \E slept \in {Sleep(advanced)} :
       cpu' = TryDrain(slept)

TickCommits == Tick({"none", "retire"})
TickFaults  == Tick({"fault", "suspend"})

(* The callbacks of the units that answer later. *)
TranslationDone == cpu.fetch = "ItlbWait" /\ cpu' = FinishTranslation(cpu, "scheduled")
LateTranslation ==     \* of a fetch that was squashed
  /\ "walk" \in cpu.late
  /\ cpu' = [WakeCPU(cpu, "scheduled") EXCEPT !.late = @ \ {"walk"}]

(* Fetch::processCacheCompletion *)
CacheCompletion ==
  /\ cpu.fetch = "IcacheWaitResponse"
  /\ \E w \in {WakeCPU(cpu, "scheduled")} :
       cpu' = [UpdateStatus(w, "fetch", TRUE) EXCEPT
                 !.fetch = IF cpu.drainStall THEN "Blocked"
                           ELSE "IcacheAccessComplete",
                 !.line = TRUE]

SetInst(s, i, st) == [s EXCEPT !.list[i] = st]

DataTranslated ==      \* LSQRequest::finish, which wakes nobody
  \E i \in Positions(cpu, {"deferred"}) : cpu' = SetInst(cpu, i, "translated")

(* InstructionQueue::cacheUnblocked *)
CacheUnblocked ==
  /\ Positions(cpu, {"blocked"}) # {}
  /\ cpu' = [WakeCPU(cpu, "scheduled") EXCEPT !.list = [i \in 1 .. Len(@) |->
               IF @[i] = "blocked" THEN "retry" ELSE @[i]]]

(* InstructionQueue::processFUCompletion *)
FUCompletion ==
  \E i \in Positions(cpu, {"fu"}) :
    cpu' = SetInst(WakeCPU(cpu, "scheduled"), i, "execAgain")
LateFUCompletion ==
  /\ "fu" \in cpu.late
  /\ cpu' = [WakeCPU(cpu, "scheduled") EXCEPT !.late = (@ \ {"fu"}) \cup {"exec"}]

DataReturned ==        \* LSQUnit::writeback
  \E i \in Positions(cpu, {"waiting"}) :
    cpu' = SetInst(Activity(WakeCPU(cpu, "scheduled")), i, "complete")

LateData ==            \* for a squashed load
  /\ "waiting" \in cpu.late
  /\ cpu' = [WakeCPU(cpu, "scheduled") EXCEPT !.late = @ \ {"waiting"}]

(* Commit::processTrapEvent *)
TrapEvent ==
  cpu.pending = "trap" /\ cpu' = [cpu EXCEPT !.pending = "trapTaken"]

-----------------------------------------------------------------------------
(* Threads, draining and switching *)

(* The CPU's DrainState is Drained: it has told the drain manager so          *)
(* ("Signalled"), or the manager has found the whole system drained.          *)
CpuDrained(s) == s.drain \in {"Signalled", "Drained"}

(* CPU::activateContext: a second activation in the same tick of time only    *)
(* marks the thread.                                                          *)
ActivateContext(s) ==
  LET a == [s EXCEPT !.thread = "Active"]
  IN  IF CpuDrained(s) \/ s.fresh THEN a
      ELSE SetFetch(Activity([a EXCEPT !.tick = "scheduled", !.fresh = TRUE,
                                       !.status = "Running"]), "Running")

TimePasses == cpu.fresh /\ cpu' = [cpu EXCEPT !.fresh = FALSE]

(* ThreadContext::activate, after CPU::wakeup for a suspended thread *)
Activate ==
  /\ cpu.thread # "Active" /\ cpu.status # "SwitchedOut"
  /\ cpu' = ActivateContext(IF cpu.thread = "Suspended"
                            THEN WakeCPU(cpu, "scheduled") ELSE cpu)

(* ThreadContext::conditionalSquash and Commit::generateTCEvent: a debugger or *)
(* another thread's system call writes the thread's registers.  Nothing is     *)
(* woken: the squash waits for the next tick.                                  *)
TCWrite ==
  /\ cpu.tcWrites < MaxTCWrites
  /\ cpu.pending \in {"none", "after"}
  /\ cpu' = [cpu EXCEPT !.pending = "tc", !.tcWrites = @ + 1]

(* CPU::drain of a CPU that is not switched out.  One that is already drained *)
(* deschedules its tick and flushes the time buffers; another wakes up, and   *)
(* activates a suspended thread, twice.                                       *)
DrainCPU(s) ==
  LET woken == IF s.thread = "Suspended"
               THEN ActivateContext(ActivateContext(s)) ELSE s
  IN  IF IsCpuDrained(s)
      THEN [s EXCEPT !.drain = "Drained", !.tick = "none", !.squash = FALSE]
      ELSE Activity(WakeCPU(woken, "scheduled"))

(* The drain manager asks every object.  Once those that were not drained     *)
(* have all said that they are, the memory system and with it the table       *)
(* walker included, it asks every object again, because the later ones may    *)
(* have disturbed the earlier ones.                                           *)
Drain ==
  /\ cpu.drain = "Running" /\ (cpu.thread = "Halted" => DrainHalted)
  /\ cpu' = DrainCPU([cpu EXCEPT !.drain = "Draining"])
DrainAgain ==
  /\ cpu.drain = "Signalled" /\ cpu.late = {}
  /\ cpu' = DrainCPU([cpu EXCEPT !.drain = "Draining"])

(* CPU::drainResume *)
DrainResume ==
  /\ cpu.drain = "Drained" /\ cpu.status # "SwitchedOut"
  /\ cpu' = [cpu EXCEPT !.drain = "Running", !.drainStall = FALSE,
               !.status = IF ThreadActive(cpu) THEN "Running" ELSE "Idle",
               !.tick = IF ThreadActive(cpu) THEN "scheduled" ELSE @]

(* CPU::switchOut, and CPU::takeOverFrom when the CPU is switched in again:   *)
(* IEW tells the recorder that it is active, commit only believes it is.      *)
SwitchOut ==
  /\ cpu.drain = "Drained" /\ cpu.status # "SwitchedOut"
  /\ cpu' = [Reset(cpu) EXCEPT !.status = "SwitchedOut"]
TakeOverFrom ==
  /\ cpu.status = "SwitchedOut"
  /\ cpu' = [Activity(ActivateStage(cpu, "iew")) EXCEPT
               !.own = {"iew", "commit"}, !.fetch = "Running", !.pending = "none",
               !.line = FALSE, !.drainStall = FALSE, !.status = "Idle"]

Init == \* startupStage of every stage
  cpu = [bits |-> [i \in 0 .. LongestLatency |-> i = 0], active |-> Stages,
         own |-> Stages, count |-> 1 + Cardinality(Stages), tick |-> "none",
         status |-> "Idle", thread |-> "Halted", drain |-> "Running",
         fetch |-> "Running", line |-> FALSE, drainStall |-> FALSE, squash |-> FALSE,
         list |-> <<>>, late |-> {}, pending |-> "none", tcWrites |-> 0,
         fresh |-> FALSE]

Next ==
  \/ TickCommits \/ TickFaults
  \/ TranslationDone \/ LateTranslation \/ CacheCompletion
  \/ DataTranslated \/ CacheUnblocked \/ FUCompletion \/ LateFUCompletion
  \/ DataReturned \/ LateData \/ TrapEvent \/ TCWrite
  \/ Activate \/ TimePasses
  \/ Drain \/ DrainAgain \/ DrainResume \/ SwitchOut \/ TakeOverFrom

Spec == Init /\ [][Next]_cpu

(* Scheduled events happen; units that owe an answer give it; while the CPU   *)
(* ticks, ready instructions find their FUs in the end; and one that can      *)
(* commit over and over retires, since the handler of a fault removes its     *)
(* cause.                                                                     *)
Fairness ==
  /\ WF_cpu(TickCommits \/ TickFaults) /\ SF_cpu(Tick({"retire"}))
  /\ []<>(Positions(cpu, {"ready", "readyAgain"}) = {} \/ ~Ticking)
  /\ WF_cpu(TranslationDone) /\ WF_cpu(CacheCompletion)
  /\ WF_cpu(DataTranslated) /\ WF_cpu(CacheUnblocked) /\ WF_cpu(FUCompletion)
  /\ WF_cpu(LateFUCompletion) /\ WF_cpu(DataReturned) /\ WF_cpu(TrapEvent)
  /\ WF_cpu(LateTranslation) /\ WF_cpu(LateData) /\ WF_cpu(DrainAgain)

FairSpec == Spec /\ Fairness

-----------------------------------------------------------------------------
(* The recorder's count is the number of recent active cycles and of active   *)
(* stages (ActivityRecorder::validate): it decides when the CPU sleeps.       *)
CountExact ==
  cpu.count = Cardinality({i \in 0 .. LongestLatency : cpu.bits[i]})
                + Cardinality(cpu.active)

(* The running CPU sleeps only when the recorder is inactive, or wakeCPU      *)
(* would take it for awake and never schedule a tick; and it sleeps only when *)
(* everything left to do will call wakeCPU.                                   *)
Asleep == cpu.status = "Running" /\ cpu.tick = "none" /\ ~CpuDrained(cpu)
SleepSafe ==
  Asleep =>
    /\ ~Active(cpu)
    /\ ~cpu.squash /\ cpu.pending \in {"none", "tc"}
    /\ \A i \in 1 .. Len(cpu.list) :
         \/ cpu.list[i] \in {"fu", "blocked", "waiting"}
         \/ i > 1 /\ cpu.list[i] = "canCommit"

(* A CPU that has drained stays asleep until it is resumed or switched in,    *)
(* where the code asserts that no tick is scheduled (drainResume,             *)
(* takeOverFrom): the answers to squashed fetches and loads that arrive while *)
(* other objects still drain find the recorder active, and wakeCPU then does  *)
(* nothing.                                                                   *)
DrainedAsleep == CpuDrained(cpu) => cpu.tick = "none"

(* A drain ends ("Wake the CPU and record activity so everything can drain    *)
(* out", cpu.cc): the CPU never sleeps through its own drain, suspended       *)
(* threads included, and what wakes it once it has signalled does not keep    *)
(* the drain manager from finding it drained.                                 *)
DrainEnds == (cpu.drain = "Draining") ~> (cpu.drain = "Drained")

(* Whatever an instruction waits for, the wake-up is not lost: the only one   *)
(* in flight (MaxInsts = 1) commits or is squashed, unless its thread is      *)
(* suspended.                                                                 *)
InstLeaves == (cpu.list # <<>>) ~> (cpu.list = <<>> \/ ~ThreadActive(cpu))
=============================================================================
