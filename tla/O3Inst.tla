------------------------------- MODULE O3Inst -------------------------------
(***************************************************************************)
(* What the stages of the O3 CPU share: the dynamic instructions and their *)
(* status bits (dyn_inst.hh), and the time buffers that connect the stages *)
(* (comm.hh, cpu.cc).  One hardware thread.  An instruction is its         *)
(* sequence number; all it computes is abstracted to its kind.             *)
(***************************************************************************)
EXTENDS Integers, Sequences, FiniteSets, FiniteSetsExt, SequencesExt,
        TimeBuffer

CONSTANTS
  Machines,           \* the machines, each with a class of programs, to check
  MaxSeq              \* bound on the sequence numbers handed out

AllKinds == {"alu",        \* one destination register
             "branch",     \* resolved at execute, writes a link register
             "jump",       \* direct branch, its target is checked at decode
             "misdirected", \* direct conditional branch that was predicted
                           \* taken, to a target that decode finds wrong
             "load", "store",
             "serBefore",  \* waits in rename for an empty ROB
             "serAfter",   \* makes the instruction after it wait
             "nonSpec",    \* executes at the head of the ROB, then squashes
             "fault"}      \* faults when it executes

(* A machine: the parameters of BaseO3CPU that the stages copy when they are *)
(* constructed, the kinds of instruction its programs contain, and a bound   *)
(* on how many of them are fetched.                                          *)
Positive == Nat \ {0}
MachineType ==
  [kinds : SUBSET AllKinds, insts : 0 .. MaxSeq,
   decodeWidth : Positive, renameWidth : Positive, dispatchWidth : Positive,
   issueWidth : Positive, commitWidth : Positive, squashWidth : Positive,
   renameToIEWDelay : Positive, renameToROBDelay : Positive,
   numROBEntries : Positive, numIQEntries : Positive,
   LQEntries : Positive, SQEntries : Positive,
   freeRegs : Positive, maxBranchHistory : Positive]

ASSUME MachineAssumption ==
  /\ MaxSeq \in Nat
  /\ \A m \in Machines : /\ m \in MachineType
                        /\ m.renameToROBDelay <= m.renameToIEWDelay

Seqs == 1 .. MaxSeq
None == 0             \* no instruction, no sequence number

VARIABLES
  machine,      \* the parameters, fixed at construction
  stage,        \* the stage CPU::tick runs next
  nextSeq,      \* CPU::globalSeqNum
  kind,         \* kind of every instruction fetched
  squashed,     \* DynInst::Squashed
  executed,     \* DynInst::Executed
  canCommit,    \* DynInst::CanCommit
  committed,    \* DynInst::Committed: left the ROB
  tempSerialize,    \* DynInst::SerializeBefore
  serializeHandled, \* DynInst::SerializeHandled
  fetchQueue, decodeQueue, renameQueue, iewQueue,   \* forward time buffers
  timeBuffer    \* backward communication, one record per writing stage

Kinds            == machine.kinds
DecodeWidth      == machine.decodeWidth
RenameWidth      == machine.renameWidth
DispatchWidth    == machine.dispatchWidth
IssueWidth       == machine.issueWidth
CommitWidth      == machine.commitWidth
SquashWidth      == machine.squashWidth       \* ROB::squashWidth
RenameToIEWDelay == machine.renameToIEWDelay
RenameToROBDelay == machine.renameToROBDelay
NumROBEntries    == machine.numROBEntries     \* ROB::numEntries
NumIQEntries     == machine.numIQEntries
LQEntries        == machine.LQEntries
SQEntries        == machine.SQEntries
NumFreeRegs      == machine.freeRegs          \* free when the CPU starts
MaxBranchHistory == machine.maxBranchHistory  \* MAX_BRANCH_HISTORY

instVars == <<nextSeq, kind, squashed, executed, canCommit, committed,
              tempSerialize, serializeHandled>>
wireVars == <<fetchQueue, decodeQueue, renameQueue, iewQueue, timeBuffer>>

IsLoad(s)  == kind[s] = "load"
IsStore(s) == kind[s] = "store"
IsMem(s)   == kind[s] \in {"load", "store"}
HasDest(s) == kind[s] \in {"alu", "branch", "load", "serAfter", "nonSpec"}
IsNonSpec(s) == kind[s] = "nonSpec"
IsSquashAfter(s) == kind[s] = "nonSpec"
IsSerializeAfter(s) == kind[s] = "serAfter"
IsResolved(s) == kind[s] \in {"branch", "misdirected"}   \* at execute

Live(s)     == s \notin squashed
Fetched     == {s \in Seqs : s < nextSeq}
Younger(s)  == {q \in Fetched : q > s}

(* TimeStruct, IEWStruct: what a stage leaves in the slot of a new cycle. *)
NoSignal == [block |-> FALSE, unblock |-> FALSE]
EmptyDecodeInfo == [block |-> FALSE, unblock |-> FALSE, squash |-> None]
EmptyIewInfo == [block |-> FALSE, unblock |-> FALSE, dispatched |-> 0,
                 toLQ |-> 0, toSQ |-> 0, used |-> FALSE,
                 iq |-> 0, lq |-> 0, sq |-> 0]
EmptyCommitInfo == [squash |-> FALSE, robSquashing |-> FALSE, done |-> None,
                    usedROB |-> FALSE, freeROB |-> 0, emptyROB |-> FALSE,
                    nonSpec |-> None]
EmptyTimeStruct == [decode |-> EmptyDecodeInfo, rename |-> NoSignal,
                    iew |-> EmptyIewInfo, commit |-> EmptyCommitInfo]
EmptyIEW == [insts |-> {}, squash |-> None, include |-> FALSE]

(* The wires a stage reads: every backward delay is 1, as are fetch to       *)
(* decode, decode to rename and IEW to commit.                               *)
fromDecodeInfo == timeBuffer[1].decode
fromRenameInfo == timeBuffer[1].rename
fromIewInfo    == timeBuffer[1].iew
fromCommit     == timeBuffer[1].commit

InitInst ==
  /\ machine \in Machines
  /\ stage = "fetch"
  /\ nextSeq = 1
  /\ kind = <<>>
  /\ squashed = {} /\ executed = {} /\ canCommit = {}
  /\ committed = {}
  /\ tempSerialize = {} /\ serializeHandled = {}
  /\ fetchQueue = NewBuffer(1, <<>>)
  /\ decodeQueue = NewBuffer(1, <<>>)
  /\ renameQueue = NewBuffer(RenameToIEWDelay, <<>>)
  /\ iewQueue = NewBuffer(1, EmptyIEW)
  /\ timeBuffer = NewBuffer(1, EmptyTimeStruct)

(* CPU::tick's tail: every time buffer advances. *)
AdvanceTimeBuffers(f, d, r, i, t) ==
  /\ fetchQueue' = Advance(f, <<>>)
  /\ decodeQueue' = Advance(d, <<>>)
  /\ renameQueue' = Advance(r, <<>>)
  /\ iewQueue' = Advance(i, EmptyIEW)
  /\ timeBuffer' = Advance(t, EmptyTimeStruct)

(* The longest prefix of a queue whose elements all satisfy P; every loop   *)
(* over a stage's input is such a prefix.                                   *)
Prefix(len, P(_)) == Max({n \in 0 .. len : \A i \in 1 .. n : P(i)})
Count(S) == Cardinality(S)
Drop(q, n) == SubSeq(q, n + 1, Len(q))
=============================================================================
