# gem5's out-of-order CPU and what it runs on, in TLA+

This repository is gem5 with a PHAST memory dependence predictor, driven by
scripts that sweep the sizes of the reorder buffer and of the load/store queues
and feed the results to McPAT. The specifications here follow the path of such
a sweep: the script, the simulator's event loop, the out-of-order CPU in
`src/gem5/src/cpu/o3` with the predictor, and the memory system behind it.

`PROJECT.json` lists every part of the system (also those not modelled), the
lines each definition stands for, the runs, the theorems, and the hazards with
the line where each bites.

## The parts and how they interact

| Part | What is hard about it | Modules |
|---|---|---|
| Fetch, decode, rename, IEW, commit, ROB | stages agree only through signals that are at least a cycle old; squashes overlap and take many cycles | `O3Fetch` `O3Decode` `O3Rename` `O3IEW` `O3Commit` `O3ROB` on `O3Inst`, `TimeBuffer`; composed in `O3CPU` |
| Register renaming | registers change hands under out-of-order execution and delayed squashes | `RegRename`, `RegRenameProofs`, `RegWriteProofs`, `RegDataProofs` |
| Load/store unit | speculative loads, forwarding, stalls and replays, violations reported late | `LSQUnit` |
| Memory dependence unit | counts raised and lowered over replays, faults, squashes | `MemDepUnit` |
| PHAST | entries judged after others have used, trained or evicted them | `Phast`, `PhastProofs` |
| Return address stack | repaired by undo records of wrong paths | `BranchPred` |
| Activity, sleeping, draining | a CPU that sleeps with work left sleeps for ever | `O3Activity` |
| Crossbar, memory, packet queues, drain manager | retries that must be owed exactly once; draining repeated | `MemSystem`, `XBarLayer` |
| Event queue | linked bins with stale pointers | `EventQueue` implements `EventAgenda`, `EventAgendaProofs` |
| Host threads | quanta, global events, barriers, asynchronous insertion | `ParallelSim`, `UncontendedMutex`, `Barrier` and their proofs |
| Sweep and simulation scripts | jobs polled while they end, directories reused | `Sweep`, `SweepProofs` |

Some modules rest on what another one shows. `ParallelSim` takes a queue to be
the agenda of `EventAgenda` and a barrier to let its threads through together,
as `Barrier` has it. `O3Activity` reduces the pipeline to what its instructions
wait for. `MemDepUnit` lets the predictor say anything, so that it holds for
PHAST whatever `Phast` predicts. `LSQUnit` issues in any order, since the
predictor may delay a load but is never needed for correctness.

### How state and actions correspond to the code

- **Pipeline.** An instruction is a sequence number with a kind. Each stage has
  one tick action, in the order of `CPU::tick`; `TrapEvent` is the event commit
  schedules. A machine (widths, delays, queue sizes, kinds of instructions) is
  a record chosen in `Init`. Whether a branch was mispredicted, when an
  instruction issues, when data returns and when a store is written are free.
  A committed store waits in `storesToWB` until it is written back; it leaves
  the store queue from its head, and the credit is reported a cycle later.
- **Renaming.** A register holds the number of its last writer, so "reads the
  right value" is "reads what the last older instruction wrote". Commit's
  messages reach rename after any delay.
- **Load/store unit.** The value of a store is its position in the program, an
  access a set of bytes. A tick is what IEW does, then `EndTick`.
- **Memory system.** A call that goes through requestor, crossbar and memory is
  one step, as in the code. Latencies are events that are pending.
- **Event queue.** `nextBin` and `nextInBin` are functions on events, changed as
  the code changes the pointers; stale ones are kept.
- **Host threads.** A lock or barrier step is one atomic operation; condition
  variables may wake without reason.
- **PHAST.** `loads` are the predictions of loads in flight, oldest first. They
  outlive the training and the eviction of the entry they came from; the head
  is judged when its load commits, or when it retires squashed and its
  violation is reported, and is dropped when the violation is not
  (`ViolationUnused`).
- **Activity.** `tick` is the tick event. Only a thread's own instruction
  suspends an O3 thread. A second activation in the same tick of time, or of a
  drained CPU, only marks the thread. A CPU that is done has `Signalled`; the
  drain manager asks again once everybody has (`DrainAgain`), and only then is
  the CPU `Drained`, to be resumed or switched out.
- **Sweep.** A file is the run its numbers come from: an earlier sweep, this
  one, or cut off. Each of the three files of a job may be left over by itself.

## Runs

| Run | Bounds | Distinct states |
|---|---|---|
| `reg_rename` | 2 registers, 1 misc register, 5 physical, 3 instructions | 155,910 |
| `pipe_safe` | 7 machines of 3 to 7 instructions (`MCO3CPU`) | 1,278,103 |
| `pipe_live` | 3 machines of 3 instructions, fair | 378,068 |
| `lsq` | every program of 3 over 2 bytes, and 6 chosen ones of 3 or 4; 7 sequence numbers | 497,476 |
| `memdep` | 4 instructions of 5 kinds, 3 in flight, fair | 32,671 |
| `memdep_pred` | 3 instructions; finds the violation below | |
| `bpred` | 6 branches, 4 in flight, stack of 3 | 158,245 |
| `activity` | 1 instruction in flight, 1 write to the thread context, activity buffer of 3, fair | 14,137 |
| `mem_system` | 2 requestors, 2 memories, 2 workloads of 3 packets sent over and over, fair | 58,055 |
| `event_queue` | 4 events, 2 priorities, 2 ticks | 82,132 |
| `parallel` | 2 threads, quantum 2, 4 ticks, 2 exit events, fair | 139,573 |
| `parallel_stat` | the same with a statistics event; finds the violation below | |

What a run asks is in its `about` in `PROJECT.json`. All pass except
`memdep_pred` and `parallel_stat`. Why the bounds are enough for the case each is for:

- `pipe_safe`. `Narrow`: with 6 instructions decode's and rename's skid buffers
  reach their maximum of 2; IEW's fills only when dispatch is narrower than
  rename. `Serializing` and `Memory`: 3 instructions are one that waits, one it
  waits for and one behind it. `Branches`: with a ROB of 4 and one entry marked
  per cycle a walk is overtaken by a second squash. `Jumps`: decode corrects the
  target of a jump, or of a conditional branch that execute then finds
  mispredicted all the same; ROB 2 with IQ 4 makes the ROB, not the IQ, the
  limit. `LongWalk`: with a ROB of 6 the walk is long enough for the new path
  to reach IEW while it is on: IEW drops what arrives then, which is safe only
  because its block signal stops rename in time. `Trapping`: traps,
  squash-after instructions and mispredictions meet.
- `pipe_live`: full queues, traps, and serializing instructions that wait for
  an empty ROB.
- `lsq`: a load needs two older stores to be forwarded from the wrong one, and
  a refetch needs sequence numbers beyond the program.
- `memdep`: three in flight are a load, its predicted store and a barrier that
  completes after it.
- `bpred`: four calls fill the stack of three; the run stops there, because the
  code gives addresses up on purpose beyond it.
- `activity`: one instruction at a time reaches every way to wait; the write to
  the thread context squashes it in any of them, and what it leaves behind
  answers later. The squash takes three cycles, hence the buffer. Two
  instructions at a time would show a wake-up of one masking a lost one of the
  other; there the invariants hold (468,000 states), but liveness is out of
  reach.
- `mem_system`: in one workload two requestors contend for a memory, in the
  other two memories contend for the way back. Requests and draining repeat.
- `event_queue`: a bin of three, between bins of the same time; an event may be
  squashed while it is not scheduled, which a later reschedule undoes.
- `parallel`: either thread may schedule either exit event before or after it
  merged its queue, in two quanta, across a second `simulate()`. Priorities are
  those of `eventq.hh`: an exit event (100) comes after the sync event (95) of
  its tick, a statistics event (90) before it.

### Fairness

- `pipe_live`: the clock ticks; the IQ issues its oldest ready instruction,
  which is its order; memory answers; a scheduled trap event fires. That the
  clock keeps ticking while there is work is what `activity` shows.
- `activity`: scheduled events happen and units that owe an answer give it, to
  squashed instructions too. The drain manager asks again once all are done.
  Ready instructions find a functional unit while the CPU ticks, and one that can
  commit again and again retires (strong): a handler removes the cause of its
  fault.
- `memdep`: producers write their registers and ready instructions issue. A load
  is not refused for ever (strong): the store it stalls on leaves, which is in
  `lsq`.
- `mem_system`: pending events happen, a requestor takes its response in the
  end, and `drain()` is called again when the simulation loop returns, which is
  what `m5.drain` does. Nothing is fair about new requests.
- `parallel`: host threads run, and Python calls `simulate()` again.

### Refinement

`EventQueue` states as its property that it implements `EventAgenda`:
`agenda` is mapped to the events met when the bins are read from the head, top
of each stack first. The promise is one ordered list; the code has two kinds of
links and repairs them lazily. `EventAgendaProofs` proves of the list what the
simulator relies on.

### A constraint between parameters

`MachineAssumption` requires `RenameToROBDelay <= RenameToIEWDelay`. Rename counts
an instruction as in progress until IEW dispatches it. If the ROB got it later
than IEW, its credit would come back too early; with delays 3 and 1 TLC finds
`ROBFits` violated. The default configuration satisfies the constraint; the code
does not check it.

## Proofs

All are checked by TLAPS and hold for every value of the constants.

| Theorem | States | Assumes | Inductive invariant |
|---|---|---|---|
| `RegsSafe` | `RegsConserved`, `HistoryChain`, types | misc registers distinct, initial map injective | `RegInv` |
| `WritesSafe` | `NoStrayWrite` | the same | with `WriteInv` |
| `DataFlowSafe`, `StatePrecise` | `DataFlow`, `PreciseState` | the same | with `DataInv` |
| `AgendaSafe`, `AgendaTime` | the agenda is sorted, nothing is in the past, time never goes back | priorities and times are numbers | `AgendaInv` |
| `MutexSafe` | one owner; who sleeps will be woken | the mark for "no thread" is none of the threads | `MutexInv` |
| `BarrierSafe` | nobody passes for the nth time before all came n times | finitely many threads, at least two generations | `BarrierInv` |
| `PhastSafe`, `PhastSilent`, `PhastTrains` | entries can be found and predict the last violation; only training makes one predict; training takes effect | at least one way and one counter value; 0 is a tag and no distance | `PhastInv` |
| `SweepSafe` | bound on live jobs, one row each, no mixed results | none but types | `SweepInv` |

- `RegInv`. `RegsConserved` is not inductive: undoing a squash restores the
  oldest previous mapping of a register, and that nobody else holds it follows
  from `HistoryChain`, that the entries of a register form a chain ending in
  the map. `HistoryShape` says what an entry may look like.
- `WriteInv` says where the destinations of an instruction in flight are: in the
  history, or set aside by rename when the instruction is doomed, and then the
  walk that will mark it is still on (`WalkOrder`). So nobody is given the
  register before the instruction is gone.
- `DataInv` speaks of the map as it was at a sequence number (`MapAt`), read off
  the history: the previous mapping of the oldest later entry, or the map
  itself. A source is the map just before its instruction, commit's map the one
  at the last committed instruction. Renames, squashes and the dropping of
  committed entries move neither. Two points of the map agree when no entry lies
  between, and the entries between the last commit and an instruction on the
  right path are of right-path instructions (`HistoryOwned`); hence the source
  is the destination of the last older writer, or commit's mapping if none is
  left.
- `MutexInv` ties the flag to the threads that own the lock and the inner mutex
  to the thread inside it; a thread in the wait implies a flag of at least 2,
  which forces the slow unlock.
- `BarrierInv` says that there is a round `n` such that every thread came `n` or
  `n + 1` times, that those who came wait with the current generation and the
  stragglers of the last round with another one, and that the count left is
  right. Generations may wrap.
- `PhastInv` needs that every entry in use is the first with its tag. An evicted
  tag then finds at most an unused way, which does not predict, so that nothing
  older shows through. Steps are of two kinds: those that train nothing
  (`QuietStep`) and those that train one tag after a judgement (`TrainStep`).
- `SweepInv` says that every started job is still to be collected or settled
  (`JobInv`), where what is to be collected depends on the loop the script is
  in, and that a settled job has its row (`RowInv`). Jobs alive are to be
  collected, hence in the list, which is short.

The modules without a run (`UncontendedMutex`, `Barrier`, `Phast`, `Sweep`, and
`EventAgenda` on its own) are proved instead of checked. Their theorems take
the assumptions on constants as a hypothesis.

Only model-checked: everything about the pipeline, the load/store unit, the
memory dependence unit, the return address stack, the activity recorder, the
memory system and the host threads; the refinement of the event queue, which uses recursive definitions; and all
liveness.

## Where the code and its comments disagree

`memdep_pred` finds `PredStoreKnown` violated: `wakeDependents`
(`mem_dep_unit.cc:573`) fills in the address of the predicted store from
whatever releases the load last, which may be a barrier. The predictor then
judges the prediction by an address nobody wrote.

`parallel_stat` finds `GlobalEventsHappen` violated. `schedStatEvent`
(`stat_control.cc:112`) schedules a statistics event one quantum ahead, so that
it "happens only after the next sync". Its priority puts it before the sync
event of that tick. The main thread may schedule it right after a sync, when
another thread has not merged its queue yet: that thread then has the event in
this quantum, the main thread only in the next, and they wait at different
barriers for ever.

These were met while modelling. The runs leave out the case, as said:

- `bpred_unit.cc:556`: a call that missed the BTB and is corrected pushes the
  address after the callee's first instruction. In `bpred`, calls do not miss.
- `cpu.cc:734`: a CPU whose thread was never activated answers Draining and
  never signals. `activity` has `DrainHalted = FALSE`.
- `decode.cc:737`: a branch whose target decode corrects is not recorded in the
  decoded history, while commit records it. `HistoryOnPath` states the
  decoded history with this exception.
- `xbar.cc:603`: a layer that is idle reports Drained although somebody waits,
  contrary to the comment above it. `DrainSound` asks for empty queues only.
- `phast.cc:120`: a short history lowers `maxBranches` until the next violation
  on a long path, though it is called the largest seen.
- `vary_rob_lsq.py:126`: return codes are not looked at, and line 150 prints
  that all simulations completed successfully. The row of a failed simulation
  may hold numbers of an earlier sweep; `NoMixedResults` is about those that
  ended well.

## Abstractions

- Pipeline: one thread, delays of one cycle except from rename, no interrupts,
  thread-context squashes, transactions, nops or atomics. The two ROB squashing
  states are one, since they differ only for violation markers and SMT. A
  sequence number is given when an instruction leaves fetch.
- `RegRename`: no pinned writes, no destination named twice, free list without
  order, one squash message in flight per thread.
- `LSQUnit`: straight-line programs; no atomics, store conditionals, split or
  uncacheable accesses, delayed translations or snoops. The ROB walk is one step.
- `MemDepUnit`: a window stands for the ROB.
- `Phast`: a set of a table, any tag for any load and path.
- `BranchPred`: directions, BTB and indirect predictor are free; calls are
  unconditional, as on x86.
- `MemSystem`: no data, latencies, ranges, atomic or functional accesses.
- `Sweep`: the host's load is a free choice.

## Not modelled

- SMT fetch policies and ROB sharing: the sweep runs one thread, and a second
  squares the largest state spaces here.
- Caches, the coherent crossbar and its snoop filter, Ruby: coherence state,
  MSHRs, deferred snoops and write queues make sense only together.
- Wake-up by registers, functional unit pools: free choices in `O3IEW`.
- Store sets: not built; `MemDepUnit` covers any prediction.
- Checkpoints, remote debugging, statistics, instruction sets, devices,
  full-system boot, the Python configuration: no state that a property here
  depends on.
- Direction predictors, tag hashes, floating-point power models, text
  converters: computations whose values affect no property stated here.
- Container and benchmark scripts: one-shot commands.
