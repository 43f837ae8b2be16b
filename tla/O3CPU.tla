------------------------------- MODULE O3CPU --------------------------------
(***************************************************************************)
(* The O3 pipeline of one thread: CPU::tick runs fetch, decode, rename,    *)
(* IEW and commit once each per cycle and advances the time buffers        *)
(* between them (cpu.cc).  The invariants below are stated at the point of *)
(* the cycle where the code relies on them.                                *)
(***************************************************************************)
EXTENDS O3Commit

vars == <<machine, stage, instVars, wireVars, rob, fetch, decode, branchHistory,
          rename, historyBuffer, freeingInProgress, iewVars, commit>>

Init == /\ InitInst /\ InitROB /\ InitFetch /\ InitDecode /\ InitRename
        /\ InitIEW /\ InitCommit

(* CPU::tick, one stage at a time, and the trap event between two ticks. *)
FetchStep  == FetchTick /\ UNCHANGED <<machine, decode, branchHistory, rename,
                historyBuffer, freeingInProgress, iewVars, commit>>
DecodeStep == DecodeTick /\ UNCHANGED <<machine, rename, historyBuffer,
                freeingInProgress, iewVars, commit>>
RenameStep == RenameTick /\ UNCHANGED <<machine, iewVars, commit>>
IEWStep    == IEWTick /\ UNCHANGED <<machine, commit>>
CommitStep == CommitTick /\ UNCHANGED machine
TrapStep   == TrapEvent /\ UNCHANGED machine

Next == \/ FetchStep \/ DecodeStep \/ RenameStep \/ IEWStep
        \/ CommitStep \/ TrapStep

Spec == Init /\ [][Next]_vars

(* The clock ticks forever (a tick is always enabled, so this is the weak     *)
(* fairness of Next), and what the choices in IEWTick and TrapEvent stand for *)
(* happens in the end: the IQ issues its oldest ready instruction, a load's   *)
(* data comes back, a committed store is written, the trap event fires.       *)
OldestReady(s) == /\ s \in Issuable(iq \ issued)
                  /\ \A q \in Issuable(iq \ issued) : s <= q
TrapWaits == commit.status = "TrapPending" /\ ~commit.trapSquash
Fairness ==
  /\ []<><<Next>>_vars
  /\ \A s \in Seqs : /\ []<>(~OldestReady(s))
                      /\ []<>(s \notin loadsPending)
                      /\ []<>(s \notin storesToWB)
  /\ []<>(~TrapWaits)
FairSpec == Spec /\ Fairness

-----------------------------------------------------------------------------
TypeOK ==
  /\ stage \in {"fetch", "decode", "rename", "iew", "commit"}
  /\ nextSeq \in 1 .. machine.insts + 1 /\ Len(kind) = nextSeq - 1
  /\ \A s \in 1 .. Len(kind) : kind[s] \in Kinds
  /\ UNION {squashed, executed, canCommit, committed, iq, issued, loadsPending,
            lq, sq, storesToWB, completed, historyBuffer, freeingInProgress} \subseteq Fetched
  /\ {rename.insts, rename.loads, rename.stores} \subseteq Nat
  /\ rename.status \in {"Idle", "Running", "Blocked", "Unblocking",
                        "Squashing", "SerializeStall"}
  /\ rename.status = "SerializeStall" <=> rename.serializeInst # None
  /\ Count(iq) <= NumIQEntries /\ Count(lq) <= LQEntries
  /\ Count(sq) <= SQEntries
  /\ FreeRegs >= 0

(* No skid buffer exceeds its size: the assertions of the three skidInsert.  *)
(* The instructions in flight when a stage blocks must fit.                  *)
SkidsBounded ==
  /\ Len(decode.skid) <= DecodeSkidMax
  /\ Len(rename.skid) <= RenameSkidMax
  /\ Len(iew.skid) <= IEWSkidMax

(* A stage is told to unblock only when it is blocked: the assertions of     *)
(* fetch, decode and rename where they read the stall signals.               *)
StallsAgree ==
  /\ stage = "fetch" /\ fromDecodeInfo.unblock =>
       fetch.stalled /\ ~fromDecodeInfo.block
  /\ stage = "decode" /\ fromRenameInfo.unblock =>
       decode.stalled \/ fromRenameInfo.block
  /\ stage = "rename" /\ fromIewInfo.unblock =>
       rename.stalled \/ fromIewInfo.block

(* The ROB never overflows (the assertion in ROB::insertInst): commit        *)
(* inserts without a check and relies on rename's credits.                   *)
ROBFits == Len(rob.list) <= NumROBEntries

(* Rename's count of instructions in progress is exact: those on the wire to *)
(* IEW, in IEW's skid buffer, and those whose dispatch is being reported.    *)
CreditsExact ==
  stage = "fetch" =>
    LET flight == FlattenSeq([i \in 1 .. RenameToIEWDelay |-> renameQueue[i]])
                  \o iew.skid
    IN  /\ rename.insts = Len(flight) + fromIewInfo.dispatched
        /\ rename.loads = Len(SelectSeq(flight, IsLoad)) + fromIewInfo.toLQ
        /\ rename.stores = Len(SelectSeq(flight, IsStore)) + fromIewInfo.toSQ

(* An instruction that serializes, or whose predecessor on the path makes it  *)
(* serialize, leaves rename only when everything older has left the ROB and  *)
(* no store is outstanding, although rename's view of the ROB is a cycle old *)
(* and the mark on the successor must survive stalls and squashes.           *)
SerializeAlone ==
  stage = "iew" =>
    \A s \in ToSet(renameQueue[0]) :
      LET older == 1 .. s - 1
          after == \E p \in older \ squashed :
                     /\ IsSerializeAfter(p)
                     /\ p + 1 .. s - 1 \subseteq squashed
      IN  kind[s] = "serBefore" \/ after =>
            older \subseteq committed \cup squashed /\ storesToWB = {}

(* Commit never obeys a squash request of an instruction that is itself      *)
(* squashed.                                                                 *)
SquashFresh ==
  stage = "commit" =>
    LET c == CommitSquashAll(WalkROB(CommitInput))
    IN  AcceptSquash(c) => ~Gone(c, iewQueue[1].squash)

(* A register goes back to the free list only when its last owner is marked  *)
(* squashed, so that it can no longer execute and write it.                  *)
FreedRegsQuiet ==
  stage = "rename" /\ FreeingDone => freeingInProgress \subseteq squashed

(* What is being squashed: marked already, or younger than the squash that   *)
(* commit signals or the ROB walks for.  What will not be squashed for any   *)
(* reason known to commit: a pending trap will squash everything.            *)
Doomed(s) ==
  \/ s \in squashed
  \/ fromCommit.squash /\ s > fromCommit.done
  \/ ~rob.doneSquashing /\ s > rob.squashedSeqNum
OnPath == {s \in Fetched \ committed :
             ~Doomed(s) /\ commit.status # "TrapPending"}
InOrder(S) == SelectSeq([i \in Seqs |-> i], LAMBDA s : s \in S)

(* Instructions commit in program order, none is skipped, and none commits   *)
(* that a squash already under way removes.                                   *)
ProgramOrder ==
  \A s \in committed \ squashed :
    1 .. s - 1 \subseteq committed \cup squashed /\ ~Doomed(s)

(* Between two cycles the instructions that will not be squashed stand in    *)
(* program order between the ROB's head and fetch, none missing and none     *)
(* twice, whatever skid buffers, stalls and squashes did to them.            *)
PathInOrder ==
  stage = "fetch" =>
    LET toROB == FlattenSeq([i \in 1 .. RenameToROBDelay |->
                               renameQueue[RenameToROBDelay + 1 - i]])
        ser   == IF rename.serializeInst = None THEN <<>>
                 ELSE <<rename.serializeInst>>
        path  == rob.list \o toROB \o ser \o rename.skid \o decodeQueue[1]
                   \o decode.skid \o fetchQueue[1]
    IN  SelectSeq(path, LAMBDA s : s \in OnPath) = InOrder(OnPath)

(* An instruction in the ROB that is not executed is still on its way to IEW *)
(* or held by it.  IEW drops what rename sends during a ROB walk without     *)
(* looking at it: none of that may be on the path.                           *)
NoneStranded ==
  stage = "fetch" =>
    \A s \in ToSet(rob.list) \cap OnPath :
      s \in UNION {executed, iq, issued, loadsPending, ToSet(iew.skid)}
              \cup UNION {ToSet(renameQueue[i]) : i \in 1 .. RenameToIEWDelay}

(* The branch history that the memory dependence predictor reads when an     *)
(* instruction is dispatched is exactly the branches decoded on the path,    *)
(* newest first, the oldest missing only if MAX_BRANCH_HISTORY cut them.     *)
(* One exception: a direct conditional branch whose target decode corrects   *)
(* is on the path and not in the history, which decodeInsts leaves before it *)
(* records the branch.                                                       *)
HistoryOnPath ==
  stage = "iew" =>
    LET waiting == ToSet(fetchQueue[0]) \cup ToSet(decode.skid)
        exact == Reverse(InOrder({s \in Fetched \ waiting :
                   /\ kind[s] = "branch"
                   /\ s \in committed \/ ~Doomed(s)
                   /\ s \notin squashed}))
    IN  /\ IsPrefix(branchHistory, exact)
        /\ Len(branchHistory) < Len(exact) =>
             Count({s \in Fetched : kind[s] = "branch"}) > MaxBranchHistory

(* The store queue hands memory only stores that were committed, and no load *)
(* or store leaves its queue while it is still in the ROB on the path.  One   *)
(* field, doneSeqNum, carries both the commit and the squash number.         *)
MemInOrder ==
  /\ storesToWB \cup completed \subseteq committed \ squashed
  /\ stage = "fetch" =>
       \A s \in ToSet(rob.list) \cap OnPath :
         IsMem(s) /\ s \in UNION {executed, iq, issued, loadsPending} =>
           s \in lq \cup sq

(* Every instruction is committed or squashed in the end: no stage waits     *)
(* forever for a credit, an unblock signal or an empty ROB.                   *)
Progress == \A s \in Seqs : s < nextSeq ~> s \in committed \cup squashed
=============================================================================
