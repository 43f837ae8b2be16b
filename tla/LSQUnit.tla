------------------------------- MODULE LSQUnit -------------------------------
(***************************************************************************)
(* The load/store unit of one hardware thread, with the values that loads  *)
(* see: speculative loads that run before older stores, forwarding from    *)
(* the store queue, the stall on a store that covers a load only partly,   *)
(* the violation found when a store executes late, the squash it causes by *)
(* way of commit, and the report of the violation to the predictor         *)
(* (cpu/o3/lsq_unit.cc, with the parts of iew.cc, commit.cc and rob.cc     *)
(* that drive it).                                                         *)
(*                                                                         *)
(* The thread runs a straight-line program; a squash refetches from the    *)
(* squashed position under new sequence numbers.  The value a store writes *)
(* is its position in the program, and an access is a set of adjacent      *)
(* bytes.  One tick is: what the stage does (IEWSquash first, then         *)
(* dispatch, execution and store writebacks in any order), then EndTick,   *)
(* which is the end of IEW::tick and Commit::tick behind it.  Cache        *)
(* responses and forwarding events arrive at any time.  The issue order is *)
(* free: dependence prediction may delay a load but is never needed.       *)
(* The walk of the reorder buffer is one step here (O3ROB has its width).  *)
(* Left out: atomics, store conditionals, masked stores, strictly ordered  *)
(* and local accesses, split requests, delayed translations, snoops from   *)
(* other cores and transactional memory.                                   *)
(***************************************************************************)
EXTENDS Naturals, Sequences, FiniteSetsExt, Functions

CONSTANTS Bytes,          \* byte addresses
          Programs,       \* programs: sequences of [op, bytes]
          LQEntries, SQEntries,
          TSOModes,       \* values of needsTSO to check
          CommitWidth,
          MaxSeq          \* bound: instructions ever dispatched

VARIABLES needsTSO,       \* stores are written back one at a time
          program, pc,    \* the program and the next position to dispatch
          next,           \* next sequence number
          inst,           \* DynInst of every live sequence number
          rob, lq, sq,    \* queues of sequence numbers, oldest first
          wb,             \* entries of sq before storeWBIt
          stalled,        \* stallingStoreIsn and stallingLoadIdx, 0 if none
          inFlight,       \* storeInFlight
          mem,            \* what the cache holds
          arch,           \* what the committed stores have written
          committed,      \* number of committed instructions
          youngest,       \* youngestSeqNum of commit
          toCommit, fromIEW,   \* iewQueue: written now, read now by commit
          fromCommit,     \* commitInfo read by IEW
          trained         \* violations reported in the last tick

vars == <<needsTSO, program, pc, next, inst, rob, lq, sq, wb, stalled,
          inFlight, mem, arch, committed, youngest, toCommit, fromIEW, fromCommit, trained>>

queues == <<rob, lq, sq, wb>>
fetch == <<needsTSO, program, pc, next>>
retired == <<arch, committed, youngest, fromIEW, fromCommit, trained>>

NoSquash == [done |-> {}, squash |-> 0, incl |-> FALSE]

NoStall == [store |-> 0, load |-> 0]

DynInst(p) ==
    [pos |-> p, phase |-> "ready", addrValid |-> FALSE, fwd |-> 0, viol |-> 0,
     data |-> [b \in {} |-> 0], canWB |-> FALSE, completed |-> FALSE,
     squashed |-> FALSE, memOrder |-> FALSE, canCommit |-> FALSE]

Op(s) == program[inst[s].pos].op
Access(s) == program[inst[s].pos].bytes

Init ==
    /\ needsTSO \in TSOModes /\ program \in Programs
    /\ pc = 1 /\ next = 1
    /\ inst = [s \in {} |-> DynInst(0)]
    /\ rob = <<>> /\ lq = <<>> /\ sq = <<>> /\ wb = 0
    /\ stalled = NoStall /\ inFlight = FALSE
    /\ mem = [b \in Bytes |-> 0] /\ arch = mem
    /\ committed = 0 /\ youngest = 0
    /\ toCommit = NoSquash /\ fromIEW = NoSquash
    /\ fromCommit = [squash |-> "no", num |-> 0]
    /\ trained = {}

-----------------------------------------------------------------------------
(* Dispatch: LSQUnit::insertLoad and insertStore, and the entry in the ROB. *)

Dispatch ==
    /\ fromCommit.squash = "no"
    /\ pc <= Len(program) /\ next <= MaxSeq
    /\ program[pc].op = "load" => Len(lq) < LQEntries
    /\ program[pc].op = "store" => Len(sq) < SQEntries
    /\ inst' = [s \in DOMAIN inst \cup {next} |->
                    IF s = next THEN DynInst(pc) ELSE inst[s]]
    /\ rob' = Append(rob, next)
    /\ lq' = IF program[pc].op = "load" THEN Append(lq, next) ELSE lq
    /\ sq' = IF program[pc].op = "store" THEN Append(sq, next) ELSE sq
    /\ youngest' = next
    /\ next' = next + 1 /\ pc' = pc + 1
    /\ UNCHANGED <<needsTSO, program, wb, stalled, inFlight, mem, arch, committed,
                   toCommit, fromIEW, fromCommit, trained>>

-----------------------------------------------------------------------------
(* Execution. *)

CanExecute(s) ==
    /\ fromCommit.squash # "yes"
    /\ s \in DOMAIN inst
    /\ inst[s].phase = "ready" /\ ~inst[s].squashed

\* Older stores from storeWBIt on whose address and data are known and that
\* share a byte with load s: indices into sq.
Sources(s) ==
    {i \in (wb + 1)..Len(sq) : /\ sq[i] < s
                               /\ inst[sq[i]].phase = "executed"
                               /\ Access(sq[i]) \cap Access(s) # {}}

Source(s) == sq[Max(Sources(s))]

FullCoverage(s) == Access(s) \subseteq Access(Source(s))

\* Full coverage: the data comes from the store; the writeback event follows.
ForwardLoad(s) ==
    /\ CanExecute(s) /\ Op(s) = "load"
    /\ Sources(s) # {} /\ FullCoverage(s)
    /\ inst' = [inst EXCEPT ![s].phase = "forwarded", ![s].addrValid = TRUE,
                            ![s].fwd = Source(s),
                            ![s].data = [b \in Access(s) |->
                                            inst[Source(s)].pos]]
    /\ UNCHANGED <<fetch, queues, stalled, inFlight, mem, retired, toCommit>>

\* A stall that keeps the first load that stalled, whatever its age.
StallLoadFirst(s) ==
    /\ CanExecute(s) /\ Op(s) = "load"
    /\ Sources(s) # {} /\ ~FullCoverage(s)
    /\ stalled' = IF stalled = NoStall
                  THEN [store |-> Source(s), load |-> s]
                  ELSE stalled
    /\ inst' = [inst EXCEPT ![s].phase = "replay", ![s].addrValid = FALSE]
    /\ UNCHANGED <<fetch, queues, inFlight, mem, retired, toCommit>>

\* Partial coverage: the load waits on the replay list for the store to be
\* sent; the oldest such load is the one the unit remembers.
StallLoad(s) ==
    /\ CanExecute(s) /\ Op(s) = "load"
    /\ Sources(s) # {} /\ ~FullCoverage(s)
    /\ stalled' = IF stalled = NoStall \/ s < stalled.load
                  THEN [store |-> Source(s), load |-> s]
                  ELSE stalled
    /\ inst' = [inst EXCEPT ![s].phase = "replay", ![s].addrValid = FALSE]
    /\ UNCHANGED <<fetch, queues, inFlight, mem, retired, toCommit>>

\* No store to take it from: the cache accepts the request, and its answer
\* is what it holds now.
SendLoad(s) ==
    /\ CanExecute(s) /\ Op(s) = "load" /\ Sources(s) = {}
    /\ inst' = [inst EXCEPT ![s].phase = "sent", ![s].addrValid = TRUE,
                            ![s].data = [b \in Access(s) |-> mem[b]]]
    /\ UNCHANGED <<fetch, queues, stalled, inFlight, mem, retired, toCommit>>

\* The cache refuses it: IEW::blockMemInst.
BlockLoad(s) ==
    /\ CanExecute(s) /\ Op(s) = "load" /\ Sources(s) = {}
    /\ inst' = [inst EXCEPT ![s].phase = "blocked", ![s].addrValid = TRUE]
    /\ UNCHANGED <<fetch, queues, stalled, inFlight, mem, retired, toCommit>>

\* IEW::cacheUnblocked.
CacheUnblocked ==
    /\ \E s \in DOMAIN inst : inst[s].phase = "blocked"
    /\ inst' = [s \in DOMAIN inst |->
                   IF inst[s].phase = "blocked"
                   THEN [inst[s] EXCEPT !.phase = "ready"] ELSE inst[s]]
    /\ UNCHANGED <<fetch, queues, stalled, inFlight, mem, retired, toCommit>>

\* LSQUnit::writeback, from the cache's response or the forwarding event.
\* A squashed load is ignored.
Writeback(s) ==
    /\ s \in DOMAIN inst
    /\ inst[s].phase \in {"sent", "forwarded"} /\ ~inst[s].squashed
    /\ inst' = [inst EXCEPT ![s].phase = "executed"]
    /\ toCommit' = [toCommit EXCEPT !.done = @ \cup {s}]
    /\ UNCHANGED <<fetch, queues, stalled, inFlight, mem, retired>>

\* A redirect found by s is considered only if no older one is in this tick.
Redirects(s) == toCommit.squash = 0 \/ toCommit.squash > s

SquashFrom(s, included) ==
    IF \/ toCommit.squash = 0
       \/ s < toCommit.squash
       \/ included /\ s = toCommit.squash
    THEN [toCommit EXCEPT !.squash = s, !.incl = included]
    ELSE toCommit

\* checkViolations: younger loads in the queue that read a byte of store s
\* and did not take their data from a store younger than s.
ViolatorsAny(s) ==
    {l \in Range(lq) : l > s /\ inst[l].addrValid
                             /\ Access(l) \cap Access(s) # {}}

\* A check that skips every load that was forwarded to.
ViolatorsFromCache(s) ==
    {l \in ViolatorsAny(s) : inst[l].fwd = 0}

Violators(s) ==
    {l \in ViolatorsAny(s) : ~(s < inst[l].fwd \/ s < inst[l].viol)}

ExecuteStore(s) ==
    /\ CanExecute(s) /\ Op(s) = "store"
    /\ \E violators \in {Violators(s)} :
          /\ inst' = [l \in DOMAIN inst |->
                 IF l = s
                 THEN [inst[l] EXCEPT !.phase = "executed", !.addrValid = TRUE]
                 ELSE IF violators # {} /\ l = Min(violators)
                 THEN [inst[l] EXCEPT !.viol = s]
                 ELSE inst[l]]
          /\ \E wire \in {IF violators # {} /\ Redirects(s)
                          THEN SquashFrom(Min(violators), TRUE)
                          ELSE toCommit} :
                toCommit' = [wire EXCEPT !.done = @ \cup {s}]
    /\ UNCHANGED <<fetch, queues, stalled, inFlight, mem, retired>>

ExecuteBranch(s) ==
    /\ CanExecute(s) /\ Op(s) = "branch"
    /\ inst' = [inst EXCEPT ![s].phase = "executed"]
    /\ \E mispredicted \in BOOLEAN :
          \E wire \in {IF mispredicted /\ Redirects(s)
                       THEN SquashFrom(s, FALSE) ELSE toCommit} :
             toCommit' = [wire EXCEPT !.done = @ \cup {s}]
    /\ UNCHANGED <<fetch, queues, stalled, inFlight, mem, retired>>

-----------------------------------------------------------------------------
(* Stores leave in order once committed. *)

\* MemDepUnit::replay makes every load on the list ready again.
Replay(instances) ==
    [s \in DOMAIN instances |->
        IF instances[s].phase = "replay"
        THEN [instances[s] EXCEPT !.phase = "ready"] ELSE instances[s]]

\* writebackStores with storePostSend: the cache takes the store (a refusal
\* changes nothing but isStoreBlocked, and the same store is tried again).
WritebackStore ==
    /\ fromCommit.squash # "yes"
    /\ wb < Len(sq) /\ inst[sq[wb + 1]].canWB
    /\ ~(needsTSO /\ inFlight)
    /\ LET s == sq[wb + 1] IN
          /\ mem' = [b \in Bytes |->
                        IF b \in Access(s) THEN inst[s].pos ELSE mem[b]]
          /\ stalled' = IF stalled.store = s THEN NoStall ELSE stalled
          /\ inst' = IF stalled.store = s THEN Replay(inst) ELSE inst
    /\ inFlight' = needsTSO
    /\ wb' = wb + 1
    /\ UNCHANGED <<fetch, rob, lq, sq, retired, toCommit>>

\* completeStore, from the cache's response: completed entries leave the
\* head of the queue.
CompleteStore ==
    \E i \in 1..wb :
      /\ ~inst[sq[i]].completed
      /\ \E done \in {[inst EXCEPT ![sq[i]].completed = TRUE]} :
         \E n \in {Max({k \in 0..Len(sq) :
                           \A j \in 1..k : done[sq[j]].completed})} :
            /\ sq' = SubSeq(sq, n + 1, Len(sq))
            /\ wb' = wb - n
            /\ inst' = Restrict(done, Range(rob) \cup Range(lq) \cup Range(sq'))
      /\ inFlight' = FALSE
      /\ UNCHANGED <<fetch, rob, lq, stalled, mem, retired, toCommit>>

-----------------------------------------------------------------------------
(* Squash in the queues, and the rest of the tick. *)

\* LSQUnit::squash and MemDepUnit::squash, first thing in the tick after
\* commit announced it; the program is refetched behind the squash number.
IEWSquash ==
    /\ fromCommit.squash = "yes"
    /\ LET gone == {s \in DOMAIN inst : s > fromCommit.num} IN
          /\ lq' = SelectSeq(lq, LAMBDA s : s \notin gone)
          /\ sq' = SelectSeq(sq, LAMBDA s : s \notin gone \/ inst[s].canWB)
          /\ stalled' = IF stalled.load \in gone THEN NoStall ELSE stalled
          /\ pc' = IF gone = {} THEN pc ELSE inst[Min(gone)].pos
          /\ inst' = [s \in DOMAIN inst |->
                         IF s \in gone /\ ~inst[s].canWB
                         THEN [inst[s] EXCEPT !.squashed = TRUE,
                                              !.phase = "gone"]
                         ELSE inst[s]]
    /\ fromCommit' = [fromCommit EXCEPT !.squash = "done"]
    /\ UNCHANGED <<needsTSO, program, next, rob, wb, inFlight, mem, arch, committed,
                   youngest, fromIEW, toCommit, trained>>

\* A commit signal taken even when it is a squash number.
CommitStoresAlways ==
    [s \in DOMAIN inst |->
        IF s <= fromCommit.num /\ s \in Range(sq)
        THEN [inst[s] EXCEPT !.canWB = TRUE] ELSE inst[s]]

\* commitStores: with the sequence number commit sent, unless it squashed.
CommitStores ==
    [s \in DOMAIN inst |->
        IF /\ fromCommit.squash = "no" /\ s <= fromCommit.num
           /\ s \in Range(sq)
        THEN [inst[s] EXCEPT !.canWB = TRUE] ELSE inst[s]]

\* commitLoads.
CommitLoads ==
    IF fromCommit.squash = "no"
    THEN SelectSeq(lq, LAMBDA l : l > fromCommit.num) ELSE lq

Advance ==
    /\ fromIEW' = toCommit
    /\ toCommit' = NoSquash

\* Commit acts on a squash that is not already covered by an earlier one:
\* ROB::squash with the violation marker, and the announcement to IEW.
Squashing == fromIEW.squash # 0 /\ fromIEW.squash <= youngest

\* ROB::doSquash and updateViolationMarker.
MarkSquashed(instances, num) ==
    [s \in DOMAIN instances |->
        IF s > num /\ s \in Range(rob)
        THEN [instances[s] EXCEPT !.squashed = TRUE, !.canCommit = TRUE,
                                  !.memOrder = fromIEW.incl]
        ELSE instances[s]]

EndTickSquash ==
    /\ fromCommit.squash # "yes" /\ Squashing
    /\ \E num \in {IF fromIEW.incl THEN fromIEW.squash - 1
                   ELSE fromIEW.squash} :
       \E marked \in {MarkSquashed(CommitStores, num)} :
          /\ lq' = CommitLoads
          /\ inst' = [s \in (Range(rob) \cup Range(lq') \cup Range(sq)) |->
                         IF s \in fromIEW.done
                         THEN [marked[s] EXCEPT !.canCommit = TRUE]
                         ELSE marked[s]]
          /\ youngest' = num
          /\ fromCommit' = [squash |-> "yes", num |-> num]
    /\ trained' = {}
    /\ Advance
    /\ UNCHANGED <<fetch, rob, sq, wb, stalled, inFlight, mem, arch,
                   committed>>

\* The head instructions that commitInsts handles: squashed ones retire
\* without counting against the width.
Committed(n) == Cardinality({i \in 1..n : ~inst[rob[i]].squashed})

Retiring ==
    Max({n \in 0..Len(rob) : \A i \in 1..n : /\ inst[rob[i]].canCommit
                                             /\ Committed(i - 1) < CommitWidth})

\* The training condition of commitInsts: the first squashed load in the
\* tick that carries a violation and was squashed for one.
Reported(n) ==
    {i \in 1..n : /\ inst[rob[i]].squashed /\ inst[rob[i]].memOrder
                  /\ Op(rob[i]) = "load" /\ inst[rob[i]].viol # 0}

\* Training without updatedMemDep.
TrainedEvery(n) == Reported(n)

Trained(n) == IF Reported(n) = {} THEN {} ELSE {Min(Reported(n))}

EndTickCommit ==
    /\ fromCommit.squash # "yes" /\ ~Squashing
    /\ \E n \in {Retiring} :
       \E stores \in {{i \in 1..n : ~inst[rob[i]].squashed
                                    /\ Op(rob[i]) = "store"}} :
          /\ rob' = SubSeq(rob, n + 1, Len(rob))
          /\ committed' = committed + Committed(n)
          /\ arch' = [b \in Bytes |->
                LET writers == {i \in stores : b \in Access(rob[i])} IN
                IF writers = {} THEN arch[b]
                ELSE inst[rob[Max(writers)]].pos]
          /\ trained' = {[pos |-> inst[rob[i]].pos,
                          before |-> committed + Committed(i)] :
                            i \in Trained(n)}
          /\ fromCommit' =
                [squash |-> "no",
                 num |-> Max({0} \cup {rob[i] : i \in {j \in 1..n :
                                            ~inst[rob[j]].squashed}})]
          /\ lq' = CommitLoads
          /\ \E stored \in {CommitStores} :
                inst' = [s \in (Range(rob') \cup Range(lq') \cup Range(sq)) |->
                            IF s \in fromIEW.done
                            THEN [stored[s] EXCEPT !.canCommit = TRUE]
                            ELSE stored[s]]
    /\ Advance
    /\ UNCHANGED <<fetch, sq, wb, stalled, inFlight, mem, youngest>>

-----------------------------------------------------------------------------
Next ==
    \/ Dispatch
    \/ \E s \in DOMAIN inst : ForwardLoad(s)
    \/ \E s \in DOMAIN inst : StallLoad(s)
    \/ \E s \in DOMAIN inst : SendLoad(s)
    \/ \E s \in DOMAIN inst : BlockLoad(s)
    \/ \E s \in DOMAIN inst : ExecuteStore(s)
    \/ \E s \in DOMAIN inst : ExecuteBranch(s)
    \/ \E s \in DOMAIN inst : Writeback(s)
    \/ CacheUnblocked
    \/ WritebackStore
    \/ CompleteStore
    \/ IEWSquash
    \/ EndTickSquash
    \/ EndTickCommit

Spec == Init /\ [][Next]_vars

-----------------------------------------------------------------------------
(* Properties. *)

InFlight == {s \in Range(rob) : ~inst[s].squashed}

\* What program order says load l must read, when every older store in
\* flight is known.
Expected(l) ==
    [b \in Access(l) |->
        LET older == {s \in InFlight : /\ s < l /\ Op(s) = "store"
                                       /\ b \in Access(s)} IN
        IF older = {} THEN arch[b] ELSE inst[Max(older)].pos]

\* A squash that will take load l is on its way to commit or from it.
Doomed(l) ==
    \/ inst[l].squashed
    \/ \E wire \in {toCommit, fromIEW} : wire.squash # 0 /\ wire.squash <= l

\* A load that has its data, with every older store executed and no squash
\* under way for it, has read the bytes that the program order prescribes.
LoadsCorrect ==
    \A l \in InFlight :
        ( /\ Op(l) = "load" /\ inst[l].phase \in {"sent", "forwarded", "executed"}
          /\ \A s \in InFlight : s < l /\ Op(s) = "store"
                                    => inst[s].phase = "executed"
          /\ ~Doomed(l) )
        => inst[l].data = Expected(l)

\* While a load waits on the replay list, the unit remembers the oldest such
\* load and a store, older than it and not yet sent, that will wake it.
ReplayWatched ==
    LET waiting == {s \in DOMAIN inst : inst[s].phase = "replay"
                                        /\ ~inst[s].squashed} IN
    waiting # {} => /\ stalled.load = Min(waiting)
                    /\ stalled.store < stalled.load
                    /\ \E i \in (wb + 1)..Len(sq) : sq[i] = stalled.store

\* The predictor hears of a violation only for a load on the right path:
\* everything before the load in the program has committed, nothing else.
TrainedOnPath == \A t \in trained : t.pos = t.before + 1

\* The cache ends with what the committed stores wrote: when no store is
\* left in the queue, the two agree.
StoresLand == sq = <<>> /\ fromCommit.num = 0 => mem = arch
=============================================================================
