------------------------------- MODULE O3IEW --------------------------------
(***************************************************************************)
(* Issue, execute, writeback (iew.cc): dispatch from rename into the IQ    *)
(* and the load/store queues, execution in any order the dependences       *)
(* allow, squash requests to commit, and the credits sent to rename.       *)
(* Which instruction is ready, mispredicted or violates memory order is a  *)
(* free choice.  Operators transform the record d of one tick.             *)
(***************************************************************************)
EXTENDS O3Rename

VARIABLES
  iew,        \* dispatchStatus, skidBuffer, updateLSQNextCycle
  iq,         \* instructions that hold an IQ entry
  issued,     \* issueToExecQueue: issued last cycle, execute in this one
  loadsPending, \* loads whose data has not come back
  nonSpecReady, \* non-speculative instructions commit told the IQ to issue
  lq, sq,     \* instructions in the load and store queues
  storesToWB, \* committed stores not yet written back
  completed   \* stores written back, but behind the head of the store queue

iewVars == <<iew, iq, issued, loadsPending, nonSpecReady, lq, sq, storesToWB,
             completed>>

InitIEW ==
  /\ iew = [status |-> "Running", skid |-> <<>>, updateLSQ |-> FALSE]
  /\ iq = {} /\ issued = {} /\ loadsPending = {} /\ nonSpecReady = {}
  /\ lq = {} /\ sq = {} /\ storesToWB = {} /\ completed = {}

IEWSkidMax == (RenameToIEWDelay + 1) * RenameWidth

(* The tick's record: sortInsts; gone collects what leaves the stage's       *)
(* input, dispatched or dropped, added what enters the IQ.                    *)
IEWInput ==
  [status |-> iew.status, skid |-> iew.skid,
   in |-> renameQueue[RenameToIEWDelay], block |-> FALSE, unblock |-> FALSE,
   gone |-> <<>>, added |-> {}]

(* Mutant of EmptyRenameInsts: what is dropped is not reported to rename. *)
EmptyRenameInstsSilent(d) == [d EXCEPT !.in = <<>>]

(* IEW::emptyRenameInsts: rename is told they were dispatched. *)
EmptyRenameInsts(d) == [d EXCEPT !.gone = @ \o d.in, !.in = <<>>]

IEWSkidInsert(d) == [d EXCEPT !.skid = @ \o d.in, !.in = <<>>]

(* Mutant of IEWBlock: rename is not told. *)
IEWBlockSilent(d) == [IEWSkidInsert(d) EXCEPT !.status = "Blocked"]

IEWBlock(d) ==
  [IEWSkidInsert(d) EXCEPT
     !.block = @ \/ d.status \notin {"Blocked", "Unblocking"},
     !.status = "Blocked"]

IEWUnblock(d) ==
  IF d.skid = <<>> THEN [d EXCEPT !.unblock = TRUE, !.status = "Running"] ELSE d

(* IEW::squash: the skid buffer and the input are dropped; the queues are    *)
(* cut in IEWTick.                                                           *)
IEWSquash(d) ==
  [EmptyRenameInsts([d EXCEPT !.gone = @ \o d.skid, !.skid = <<>>])
     EXCEPT !.unblock = d.status \in {"Blocked", "Unblocking"},
            !.status = "Squashing"]

(* The queues as the squash leaves them. *)
Kept(S) == IF fromCommit.squash THEN {s \in S : s <= fromCommit.done} ELSE S
IQKept == Kept(iq)
IQFull == Count(IQKept) >= NumIQEntries

(* checkSignalsAndUpdate while the ROB walks: rename's instructions are      *)
(* dropped, squashed or not.                                                 *)
RobSquashing(d) ==
  IF fromCommit.robSquashing
  THEN EmptyRenameInsts([d EXCEPT !.status = "Squashing"]) ELSE d

(* IEW::checkSignalsAndUpdate *)
IEWCheckSignals(d) ==
  IF fromCommit.squash THEN IEWSquash(d)
  ELSE IF fromCommit.robSquashing \/ IQFull THEN IEWBlock(RobSquashing(d))
  ELSE CASE d.status = "Blocked" ->
              IEWUnblock([d EXCEPT !.status = "Unblocking"])
         [] d.status = "Squashing" -> [d EXCEPT !.status = "Running"]
         [] OTHER -> d

(* dispatchInsts' loop: squashed instructions pass, others need an entry in  *)
(* each queue they go to.                                                    *)
DispatchSource(d) == IF d.status = "Unblocking" THEN d.skid ELSE d.in
\* Mutant of Dispatchable: one entry too many is handed out.
DispatchableOffByOne(q, i) ==
  /\ i <= DispatchWidth
  /\ Live(q[i]) =>
       /\ Count(iq) + Before(q, i, LAMBDA s : TRUE) <= NumIQEntries
       /\ IsLoad(q[i]) => Count(lq) + Before(q, i, IsLoad) <= LQEntries
       /\ IsStore(q[i]) => Count(sq) + Before(q, i, IsStore) <= SQEntries

Dispatchable(q, i) ==
  /\ i <= DispatchWidth
  /\ Live(q[i]) =>
       /\ Count(iq) + Before(q, i, LAMBDA s : TRUE) < NumIQEntries
       /\ IsLoad(q[i]) => Count(lq) + Before(q, i, IsLoad) < LQEntries
       /\ IsStore(q[i]) => Count(sq) + Before(q, i, IsStore) < SQEntries

(* IEW::dispatchInsts: what does not fit blocks the stage. *)
DispatchInsts(d) ==
  LET q    == DispatchSource(d)
      n    == Prefix(Len(q), LAMBDA i : Dispatchable(q, i))
      rest == Drop(q, n)
      s == [d EXCEPT !.gone = @ \o SubSeq(q, 1, n),
                     !.added = {x \in ToSet(SubSeq(q, 1, n)) : Live(x)},
                     !.skid = IF d.status = "Unblocking" THEN rest ELSE @,
                     !.in = IF d.status = "Unblocking" THEN @ ELSE rest]
  IN  IF rest = <<>> THEN s ELSE [IEWBlock(s) EXCEPT !.unblock = FALSE]

(* IEW::dispatch *)
Dispatch(d) ==
  CASE d.status = "Running" -> DispatchInsts(d)
    [] d.status = "Unblocking" -> IEWUnblock(IEWSkidInsert(DispatchInsts(d)))
    [] OTHER -> d

(* executeInsts, on what was issued last cycle.  The squashes of the IQ and  *)
(* the LSQ mark what they remove, so those do not execute.                   *)
IQSquashed == iq \ IQKept
LSQSquashed == (lq \cup sq) \ Kept(lq \cup sq)
Executing == {s \in issued : Live(s) /\ s \notin IQSquashed \cup LSQSquashed}
Finished == {s \in Executing : ~IsLoad(s)}   \* instToCommit in executeInsts

(* The squashes executeInsts may ask for: a mispredicted branch, or a load   *)
(* whose address was known before that of an older store.  Of several, the   *)
(* oldest is sent.                                                           *)
Violators == {v \in Kept(lq) :
                /\ v \in executed \cup loadsPending \cup Executing
                /\ \E s \in Executing : IsStore(s) /\ s < v}
Culprits == {b \in Executing : IsResolved(b)} \cup Violators

(* scheduleReadyInsts: any set of instructions whose operands are ready. *)
Issuable(S) == {s \in S \ loadsPending :
                  IsNonSpec(s) => s \in nonSpecReady}

(* Mutant of CommitSignal: the number of a squash is taken for a commit. *)
CommitSignalAlways == fromCommit.done # None

(* The commit IEW passes on to the queues. *)
CommitSignal == /\ fromCommit.done # None
                /\ ~fromCommit.squash /\ ~fromCommit.robSquashing
Committing(S) == IF CommitSignal THEN {s \in S : s <= fromCommit.done} ELSE {}

(* LSQUnit::completeStore of the stores C: entries leave the queue Q from its *)
(* head only.                                                                *)
StoresLeft(Q, C) == {s \in Q : \E t \in Q \ C : t <= s}

IEWTick ==
  /\ stage = "iew" /\ stage' = "commit"
  /\ \E input \in {IEWInput} :
     \E checked \in {IEWCheckSignals(input)} :
     \E d \in {Dispatch(checked)} :
     \E lq1 \in {Kept(lq) \cup {s \in d.added : IsLoad(s)}},
        sq1 \in {Kept(sq) \cup {s \in d.added : IsStore(s)}} :
     \E data \in SUBSET Kept(loadsPending),   \* loads that complete
        wb \in SUBSET storesToWB,                \* stores that complete
        culprit \in {None} \cup Culprits :
       LET iq1 == (IQKept \cup d.added) \ (data \cup {s \in Finished : IsStore(s)})
       IN
       \E new \in {I \in SUBSET Issuable(iq1 \ issued) : Count(I) <= IssueWidth} :
         /\ iq' = iq1 \ {s \in new : ~IsMem(s)}
         /\ issued' = new
         /\ loadsPending' = (Kept(loadsPending) \ data)
                              \cup {s \in Executing : IsLoad(s)}
         /\ lq' = lq1 \ Committing(lq1)
         /\ sq' = StoresLeft(sq1, completed \cup wb)
         /\ completed' = (completed \cup wb) \cap sq'
         /\ storesToWB' = (storesToWB \ wb)
                            \cup (Committing(sq1) \ (completed \cup wb))
         /\ executed' = executed \cup (issued \ {s \in Executing : IsLoad(s)})
                          \cup data
         /\ canCommit' = canCommit \cup (issued \ Executing)
              \cup IQSquashed \cup {s \in d.added : IsNonSpec(s)}
         /\ squashed' = squashed \cup IQSquashed \cup LSQSquashed
         /\ branchHistory' = IF fromCommit.squash
                             THEN RevertHistory(branchHistory, fromCommit.done)
                             ELSE branchHistory
         /\ nonSpecReady' = nonSpecReady \cup
                              ({fromCommit.nonSpec} \ {None})
         /\ iewQueue' = Write(iewQueue,
              [insts |-> Finished \cup data, squash |-> culprit,
               include |-> culprit # None /\ IsLoad(culprit)])
         /\ LET used == fromCommit.squash \/ issued # {} \/ iew.updateLSQ IN
            /\ iew' = [status |-> d.status, skid |-> d.skid,
                       updateLSQ |-> CommitSignal \/ sq' # sq1]
            /\ timeBuffer' = [timeBuffer EXCEPT ![0].iew =
                 [block |-> d.block, unblock |-> d.unblock,
                  dispatched |-> Len(d.gone),
                  toLQ |-> Len(SelectSeq(d.gone, IsLoad)),
                  toSQ |-> Len(SelectSeq(d.gone, IsStore)),
                  used |-> used,
                  iq |-> IF used THEN NumIQEntries - Count(iq') ELSE 0,
                  lq |-> IF used THEN LQEntries - Count(lq') ELSE 0,
                  sq |-> IF used THEN SQEntries - Count(sq') ELSE 0]]
  /\ UNCHANGED <<nextSeq, kind, committed, tempSerialize, serializeHandled,
                 fetchQueue, decodeQueue, renameQueue, rob, fetch, decode,
                 rename, historyBuffer, freeingInProgress>>
=============================================================================
