----------------------------- MODULE MemDepUnit ------------------------------
(***************************************************************************)
(* The memory dependence unit of the issue queue (cpu/o3/mem_dep_unit.cc)  *)
(* with the calls inst_queue.cc makes to it.  An instruction waits for its *)
(* registers, for the store the predictor names and for the barriers in    *)
(* flight; each of those keeps a list of its dependents and releases them  *)
(* when it completes.                                                      *)
(*                                                                         *)
(* The prediction is any store still in the instruction window or none,    *)
(* which covers PHAST's distance into the store queue and store sets.  The *)
(* window stands for the reorder buffer: it releases a non-speculative     *)
(* instruction at its head, retires what has completed and traps on what   *)
(* has faulted.                                                            *)
(***************************************************************************)
EXTENDS Naturals, Sequences, FiniteSetsExt, SequencesExt

CONSTANTS Kinds,       \* kinds dispatched, see below
          MaxInFlight, \* bound: window size
          MaxSeq       \* bound: instructions ever dispatched

VARIABLES next,        \* next sequence number
          window,      \* in-flight sequence numbers, oldest first
          hash,        \* memDepHash: entries by sequence number
          loadBarrierSNs, storeBarrierSNs,
          ready,       \* readyInsts of the issue queue
          issued,      \* issued, not completed
          replay,      \* instsToReplay
          ended        \* completed or faulted, waiting for commit

vars == <<next, window, hash, loadBarrierSNs, storeBarrierSNs, ready, issued,
          replay, ended>>

barriers == <<loadBarrierSNs, storeBarrierSNs>>

\* A plain load or store, a store that is also a full barrier (release), an
\* atomic, a read, write or full barrier that does not access memory.
IsLoad(k) == k = "load"
IsStore(k) == k \in {"store", "release"}
IsAtomic(k) == k = "atomic"
IsMemRef(k) == IsLoad(k) \/ IsStore(k) \/ IsAtomic(k)
IsReadBarrier(k) == k \in {"rfence", "mfence", "release"}
IsWriteBarrier(k) == k \in {"wfence", "mfence", "release"}
NonSpec(k) == IsAtomic(k) \/ ~IsMemRef(k)

Init ==
    /\ next = 1 /\ window = <<>>
    /\ hash = [s \in {} |-> {}]
    /\ loadBarrierSNs = {} /\ storeBarrierSNs = {}
    /\ ready = {} /\ issued = {} /\ replay = {} /\ ended = {}

-----------------------------------------------------------------------------
(* Insertion. *)

\* What an instruction of kind k waits for, given the predicted store: a
\* sequence, since an entry may appear in it more than once.
Dependencies(k, predicted) ==
    (IF predicted # 0 THEN <<predicted>> ELSE <<>>)
    \o (IF IsLoad(k) \/ IsAtomic(k)
        THEN SetToSeq(loadBarrierSNs \cap DOMAIN hash) ELSE <<>>)
    \o (IF IsStore(k) \/ IsAtomic(k)
        THEN SetToSeq(storeBarrierSNs \cap DOMAIN hash) ELSE <<>>)

\* One dependency is counted however many there are.
EntryOnce(k, regs, deps, predicted) ==
    [kind |-> k, regsReady |-> regs, memDeps |-> IF deps = 0 THEN 0 ELSE 1,
     dependInsts |-> <<>>, predicted |-> predicted, predStore |-> 0]

\* predicted is the store the predictor named, predStore the one whose address
\* is in predStoreAddr, 0 if none.
Entry(k, regs, deps, predicted) ==
    [kind |-> k, regsReady |-> regs, memDeps |-> deps, dependInsts |-> <<>>,
     predicted |-> predicted, predStore |-> 0]

Count(seq, e) == Cardinality({i \in DOMAIN seq : seq[i] = e})

\* The dependent s is appended once for each time an entry is named.
DependOn(deps, s) ==
    [e \in DOMAIN hash |->
        [hash[e] EXCEPT !.dependInsts = @ \o [i \in 1..Count(deps, e) |-> s]]]

\* Only barriers that do not access memory are recorded for later stores.
InsertFenceSN(k, s) ==
    /\ loadBarrierSNs' = IF IsReadBarrier(k) THEN loadBarrierSNs \cup {s}
                         ELSE loadBarrierSNs
    /\ storeBarrierSNs' = IF IsWriteBarrier(k) /\ ~IsMemRef(k)
                          THEN storeBarrierSNs \cup {s}
                          ELSE storeBarrierSNs

InsertBarrierSN(k, s) ==
    /\ loadBarrierSNs' = IF IsReadBarrier(k) THEN loadBarrierSNs \cup {s}
                         ELSE loadBarrierSNs
    /\ storeBarrierSNs' = IF IsWriteBarrier(k) THEN storeBarrierSNs \cup {s}
                          ELSE storeBarrierSNs

Dispatch ==
    /\ next <= MaxSeq /\ Len(window) < MaxInFlight
    /\ window' = Append(window, next)
    /\ next' = next + 1

\* The predictor speaks of loads only, and names a store in the store queue;
\* one that has executed has left the hash and is no dependency.
Predictions(k) ==
    {0} \cup {s \in DOMAIN hash : IsLoad(k) /\ (\/ IsStore(hash[s].kind)
                                                \/ IsAtomic(hash[s].kind))}

\* MemDepUnit::insert.
Insert(k, predicted, regs) ==
    /\ Dispatch
    /\ \E deps \in {Dependencies(k, predicted)} :
       \E entries \in {DependOn(deps, next)} :
          /\ hash' = [e \in DOMAIN hash \cup {next} |->
                         IF e = next THEN Entry(k, regs, Len(deps), predicted)
                         ELSE entries[e]]
          /\ ready' = IF regs /\ deps = <<>> THEN ready \cup {next} ELSE ready
    /\ InsertBarrierSN(k, next)
    /\ UNCHANGED <<issued, replay, ended>>

\* MemDepUnit::insertNonSpec and insertBarrier: no dependencies, since it
\* issues only at the head of the reorder buffer.
InsertNonSpec(k) ==
    /\ Dispatch
    /\ hash' = [e \in DOMAIN hash \cup {next} |->
                   IF e = next THEN Entry(k, FALSE, 0, 0) ELSE hash[e]]
    /\ InsertBarrierSN(k, next)
    /\ UNCHANGED <<ready, issued, replay, ended>>

-----------------------------------------------------------------------------
(* Wake-up and issue. *)

\* MemDepUnit::regsReady, when the last source register is written.
RegsReady(s) ==
    /\ s \in DOMAIN hash /\ ~NonSpec(hash[s].kind) /\ ~hash[s].regsReady
    /\ hash' = [hash EXCEPT ![s].regsReady = TRUE]
    /\ ready' = IF hash[s].memDeps = 0 THEN ready \cup {s} ELSE ready
    /\ UNCHANGED <<next, window, barriers, issued, replay, ended>>

\* InstructionQueue::scheduleNonSpec at the head of the window.
NonSpecInstReady ==
    /\ window # <<>>
    /\ LET s == Head(window) IN
          /\ s \in DOMAIN hash /\ NonSpec(hash[s].kind) /\ ~hash[s].regsReady
          /\ hash' = [hash EXCEPT ![s].regsReady = TRUE]
          /\ ready' = ready \cup {s}
    /\ UNCHANGED <<next, window, barriers, issued, replay, ended>>

Issue(s) ==
    /\ s \in ready
    /\ ready' = ready \ {s} /\ issued' = issued \cup {s}
    /\ UNCHANGED <<next, window, hash, barriers, replay, ended>>

\* A load that must be tried again: MemDepUnit::reschedule, and the replay of
\* every such load.
Reschedule(s) ==
    /\ s \in issued /\ IsLoad(hash[s].kind)
    /\ issued' = issued \ {s} /\ replay' = replay \cup {s}
    /\ UNCHANGED <<next, window, hash, barriers, ready, ended>>

Replay ==
    /\ replay # {}
    /\ ready' = ready \cup replay /\ replay' = {}
    /\ UNCHANGED <<next, window, hash, barriers, issued, ended>>

\* wakeDependents: an entry that lost its last dependency and has its
\* registers becomes ready.  Dependents that were squashed are gone from the
\* hash.
Released(s, e) == Count(hash[s].dependInsts, e)

\* The wake-up does not look at the registers.
WokenAnyway(s) ==
    {e \in DOMAIN hash : Released(s, e) > 0 /\ hash[e].memDeps = Released(s, e)}

Woken(s) ==
    {e \in DOMAIN hash : /\ Released(s, e) > 0
                         /\ hash[e].memDeps = Released(s, e)
                         /\ hash[e].regsReady}

\* The address of the store that releases a predicted load last is kept for
\* the check at commit.
PredStore(s, e) ==
    IF /\ Released(s, e) > 0 /\ hash[e].memDeps = Released(s, e)
       /\ hash[e].predicted # 0 /\ IsStore(hash[s].kind)
    THEN s ELSE hash[e].predStore

\* The barrier sets are cleaned, the dependents are not woken.
CompleteSilently(s) ==
    /\ s \in issued
    /\ hash' = [e \in DOMAIN hash \ {s} |-> hash[e]]
    /\ issued' = issued \ {s} /\ ended' = ended \cup {s}
    /\ loadBarrierSNs' = loadBarrierSNs \ {s}
    /\ storeBarrierSNs' = storeBarrierSNs \ {s}
    /\ UNCHANGED <<next, window, ready, replay>>

\* completeInst, when the instruction writes back without a fault.
Complete(s) ==
    /\ s \in issued
    /\ hash' = [e \in DOMAIN hash \ {s} |->
                   [hash[e] EXCEPT !.memDeps = @ - Released(s, e),
                                   !.predStore = PredStore(s, e)]]
    /\ ready' = ready \cup Woken(s)
    /\ issued' = issued \ {s} /\ ended' = ended \cup {s}
    /\ loadBarrierSNs' = loadBarrierSNs \ {s}
    /\ storeBarrierSNs' = storeBarrierSNs \ {s}
    /\ UNCHANGED <<next, window, replay>>

\* It faulted: writebackInsts does not wake its dependents, and its entry
\* stays until the trap.
Fault(s) ==
    /\ s \in issued /\ IsMemRef(hash[s].kind)
    /\ issued' = issued \ {s} /\ ended' = ended \cup {s}
    /\ UNCHANGED <<next, window, hash, barriers, ready, replay>>

-----------------------------------------------------------------------------
(* Commit and squash. *)

Commit ==
    /\ window # <<>> /\ Head(window) \in ended \ DOMAIN hash
    /\ window' = Tail(window) /\ ended' = ended \ {Head(window)}
    /\ UNCHANGED <<next, hash, barriers, ready, issued, replay>>

\* MemDepUnit::squash; the issue queue drops the squashed instructions from
\* its own lists before it issues or executes them.
SquashTo(num) ==
    /\ window' = SelectSeq(window, LAMBDA s : s <= num)
    /\ hash' = [e \in {s \in DOMAIN hash : s <= num} |->
                   [hash[e] EXCEPT !.dependInsts =
                       SelectSeq(@, LAMBDA s : s <= num)]]
    /\ loadBarrierSNs' = {s \in loadBarrierSNs : s <= num}
    /\ storeBarrierSNs' = {s \in storeBarrierSNs : s <= num}
    /\ replay' = {s \in replay : s <= num}
    /\ ready' = {s \in ready : s <= num}
    /\ issued' = {s \in issued : s <= num}
    /\ ended' = {s \in ended : s <= num}
    /\ UNCHANGED next

Squash == \E num \in Range(window) : num # Last(window) /\ SquashTo(num)

\* A faulted instruction at the head traps: everything from it on goes.
Trap ==
    /\ window # <<>> /\ Head(window) \in ended \cap DOMAIN hash
    /\ SquashTo(Head(window) - 1)

-----------------------------------------------------------------------------
Next ==
    \/ \E k \in {k \in Kinds : ~NonSpec(k)}, regs \in BOOLEAN :
          \E predicted \in Predictions(k) : Insert(k, predicted, regs)
    \/ \E k \in {k \in Kinds : NonSpec(k)} : InsertNonSpec(k)
    \/ \E s \in DOMAIN hash : RegsReady(s)
    \/ NonSpecInstReady
    \/ \E s \in ready : Issue(s)
    \/ \E s \in issued : Reschedule(s)
    \/ Replay
    \/ \E s \in issued : Complete(s)
    \/ \E s \in issued : Fault(s)
    \/ Commit
    \/ Squash
    \/ Trap

Spec == Init /\ [][Next]_vars

\* Producers write their registers, ready instructions issue, the store that
\* stalls a load leaves (LSQUnit shows it), and a load is not stalled forever.
Fairness ==
    /\ \A s \in 1..MaxSeq :
          /\ WF_vars(RegsReady(s)) /\ WF_vars(Issue(s))
          /\ SF_vars(Complete(s) \/ Fault(s))
    /\ WF_vars(NonSpecInstReady) /\ WF_vars(Replay)
    /\ WF_vars(Commit) /\ WF_vars(Trap)

FairSpec == Spec /\ Fairness

-----------------------------------------------------------------------------
(* Properties. *)

\* The count of an entry is the number of times the entries it waits for name
\* it: no release is lost, none is counted twice.
DepsExact ==
    \A e \in DOMAIN hash :
        hash[e].memDeps =
            MapThenSumSet(LAMBDA d : Released(d, e), DOMAIN hash)

\* An instruction with registers and no dependency left is neither forgotten
\* nor woken twice: it is in exactly one of the queues it moves through, and
\* any other instruction is in none.
NoneForgotten ==
    \A e \in DOMAIN hash :
        LET places == Cardinality({i \in 1..4 :
                          e \in <<ready, issued, replay, ended>>[i]}) IN
        IF hash[e].regsReady /\ hash[e].memDeps = 0
        THEN places = 1 ELSE places = 0

\* No load issues ahead of an older read barrier, no store ahead of an older
\* write barrier: while the barrier is in flight, the access is not ready.
BarriersHold ==
    \A e \in ready \cup issued : \A b \in DOMAIN hash :
        b < e => /\ IsLoad(hash[e].kind) => ~IsReadBarrier(hash[b].kind)
                 /\ IsStore(hash[e].kind) => ~IsWriteBarrier(hash[b].kind)

\* When a predicted load is released, the address kept for the check at
\* commit is that of the store it was predicted to depend on.
PredStoreKnown ==
    \A e \in DOMAIN hash : hash[e].predicted # 0 /\ hash[e].memDeps = 0
                               => hash[e].predStore = hash[e].predicted

\* Every instruction leaves the window.
EveryoneLeaves ==
    \A s \in 1..MaxSeq : (s \in Range(window)) ~> (s \notin Range(window))
=============================================================================
