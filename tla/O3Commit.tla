------------------------------ MODULE O3Commit ------------------------------
(***************************************************************************)
(* Commit (commit.cc): squash requests from IEW, traps and squash-after    *)
(* instructions, insertion into the ROB, in-order commit.  Operators       *)
(* transform the record c of one tick: commit's own state, the ROB, the    *)
(* instructions marked squashed, and what is sent back (info).             *)
(***************************************************************************)
EXTENDS O3IEW

VARIABLE commit   \* commitStatus, youngestSeqNum, lastCommitedSeqNum,
                  \* checkEmptyROB, trapSquash

InitCommit == commit = [status |-> "Idle", youngest |-> None, last |-> None,
                        checkEmptyROB |-> FALSE, trapSquash |-> FALSE]

CommitInput ==
  commit @@ [rob |-> rob, marked |-> {}, changed |-> FALSE, retired |-> {},
             cleared |-> {}, stores |-> FALSE, info |-> EmptyCommitInfo]

(* Mutant of WalkROB: commit runs again before the walk is done. *)
WalkROBOnce(c) ==
  IF c.status # "ROBSquashing" THEN c
  ELSE IF c.rob.doneSquashing THEN [c EXCEPT !.status = "Running"]
  ELSE [c EXCEPT !.rob = DoSquash(@), !.marked = Walked(c.rob),
                 !.status = "Running"]

(* The start of Commit::tick: a walk goes on, or is found to be done. *)
WalkROB(c) ==
  IF c.status # "ROBSquashing" THEN c
  ELSE IF c.rob.doneSquashing THEN [c EXCEPT !.status = "Running"]
  ELSE [c EXCEPT !.rob = DoSquash(@), !.marked = Walked(c.rob),
                 !.info.robSquashing = TRUE]

(* A squash above seq starts: what squashAll and the handling of IEW's       *)
(* request have in common.                                                   *)
StartSquash(c, seq, youngest) ==
  [c EXCEPT !.status = "ROBSquashing", !.youngest = youngest,
            !.rob = SquashROB(@, seq),
            !.marked = @ \cup SquashMarks(c.rob, seq), !.changed = TRUE,
            !.info.done = seq, !.info.squash = TRUE,
            !.info.robSquashing = TRUE]

(* Commit::squashAll, from a trap or after an instruction. *)
SquashAll(c) ==
  StartSquash(c, IF IsEmpty(c.rob) THEN c.last ELSE ReadHeadInst(c.rob) - 1,
              c.last)

CommitSquashAll(c) ==
  IF c.trapSquash THEN [SquashAll(c) EXCEPT !.trapSquash = FALSE]
  ELSE IF c.status = "SquashAfterPending" THEN SquashAll(c)
  ELSE c

(* Mutant of AcceptSquash: a request of a squashed instruction is obeyed. *)
AcceptSquashAny(c) == iewQueue[1].squash # None /\ c.status # "TrapPending"

(* Commit obeys IEW unless a trap is pending or the instruction is younger   *)
(* than the youngest one that the last squash kept.                          *)
AcceptSquash(c) ==
  /\ iewQueue[1].squash # None
  /\ c.status # "TrapPending"
  /\ iewQueue[1].squash <= c.youngest

CommitSquashIEW(c) ==
  LET seq == IF iewQueue[1].include THEN iewQueue[1].squash - 1
             ELSE iewQueue[1].squash
  IN  IF AcceptSquash(c) THEN StartSquash(c, seq, seq) ELSE c

(* Commit::getInsts *)
GetInsts(c) ==
  LET q == SelectSeq(renameQueue[RenameToROBDelay],
                     LAMBDA s : Live(s) /\ s \notin c.marked)
  IN  IF c.status = "TrapPending" \/ q = <<>> THEN c
      ELSE [c EXCEPT !.rob = InsertInsts(@, q), !.changed = TRUE,
                     !.youngest = Last(q)]

(* commitInsts' loop over the list q.  An instruction retires when it is     *)
(* ready, and squashed or executed without a fault; squashed ones are free,  *)
(* others count against commitWidth, and none follows a squash-after.        *)
Gone(c, s) == s \in squashed \cup c.marked
Committed(c, q, i) == {j \in 1 .. i - 1 : ~Gone(c, q[j])}
Reached(c, q, i) ==
  /\ c.status \in {"Running", "Idle"}
  /\ Count(Committed(c, q, i)) < CommitWidth
  /\ \A j \in Committed(c, q, i) : ~IsSquashAfter(q[j])
  /\ q[i] \in canCommit \cup c.marked
Retires(c, q, i) ==
  Reached(c, q, i) /\ (Gone(c, q[i]) \/ (q[i] \in executed /\ kind[q[i]] # "fault"))

(* The rest of commitHead: an instruction that is not executed is sent to    *)
(* IEW, and a fault traps, each when it is the first of the cycle and no     *)
(* store is outstanding.                                                     *)
CommitHeadStop(c, q, n) ==
  IF \/ n >= Len(q) \/ ~Reached(c, q, n + 1)
     \/ Committed(c, q, n + 1) # {} \/ storesToWB # {}
  THEN c
  ELSE IF q[n + 1] \notin executed
       THEN [c EXCEPT !.info.nonSpec = q[n + 1], !.cleared = {q[n + 1]}]
       ELSE [c EXCEPT !.status = "TrapPending"]

(* Mutant of CommitInsts: the entries that retired are not reported. *)
CommitInstsUnreported(c) ==
  LET q    == c.rob.list
      n    == Prefix(Len(q), LAMBDA i : Retires(c, q, i))
      done == {q[j] : j \in Committed(c, q, n + 1)}
      s == [c EXCEPT !.rob = RetireHeads(@, n),
                     !.retired = {q[j] : j \in 1 .. n},
                     !.stores = \E x \in done : IsStore(x)]
      t == CommitHeadStop(s, q, n)
  IN  IF done = {} THEN t
      ELSE [t EXCEPT !.info.done = Max(done), !.last = Max(done),
                     !.status = IF \E x \in done : IsSquashAfter(x)
                                THEN "SquashAfterPending" ELSE @]

(* Commit::commitInsts *)
CommitInsts(c) ==
  LET q    == c.rob.list
      n    == Prefix(Len(q), LAMBDA i : Retires(c, q, i))
      done == {q[j] : j \in Committed(c, q, n + 1)}
      s == [c EXCEPT !.rob = RetireHeads(@, n), !.changed = @ \/ n > 0,
                     !.retired = {q[j] : j \in 1 .. n},
                     !.stores = \E x \in done : IsStore(x)]
      t == CommitHeadStop(s, q, n)
  IN  IF done = {} THEN t
      ELSE [t EXCEPT !.info.done = Max(done), !.last = Max(done),
                     !.status = IF \E x \in done : IsSquashAfter(x)
                                THEN "SquashAfterPending" ELSE @]

(* Mutant of ReportROB: the ROB counts as empty with stores outstanding. *)
ReportROBNoStores(c) ==
  LET free  == NumFreeEntries(c.rob)
      empty == c.changed /\ IsEmpty(c.rob)
  IN  [c EXCEPT !.checkEmptyROB = FALSE, !.info.usedROB = c.changed,
                !.info.emptyROB = empty,
                !.info.freeROB = IF c.changed THEN free ELSE 0]

(* The end of Commit::commit: the ROB's free entries when they changed, and  *)
(* "empty" once no store of this thread is outstanding either.               *)
ReportROB(c) ==
  LET free  == NumFreeEntries(c.rob)
      check == c.checkEmptyROB \/ (c.changed /\ IsEmpty(c.rob))
      empty == check /\ IsEmpty(c.rob) /\ storesToWB = {} /\ ~c.stores
  IN  [c EXCEPT !.checkEmptyROB = check /\ ~empty,
                !.info.usedROB = c.changed \/ empty,
                !.info.emptyROB = empty,
                !.info.freeROB = IF c.changed \/ empty THEN free ELSE 0]

(* Commit::commit after the squashes: nothing commits while the ROB walks. *)
CommitAll(c, inserted) ==
  IF c.status = "ROBSquashing" THEN c ELSE CommitInsts(inserted)

(* Commit::tick, with markCompletedInsts, then the end of CPU::tick, which   *)
(* destroys the instructions that left the ROB.  Each \E over a singleton     *)
(* names the record after one part of the tick.                              *)
CommitTick ==
  /\ stage = "commit" /\ stage' = "fetch"
  /\ \E walked \in {WalkROB(CommitInput)} :
     \E all \in {CommitSquashAll(walked)} :
     \E squashes \in {CommitSquashIEW(all)} :
     \E inserted \in {GetInsts(squashes)} :
     \E commits \in {CommitAll(squashes, inserted)} :
     \E c \in {ReportROB(commits)} :
     /\ commit' = [f \in DOMAIN commit |-> c[f]]
     /\ rob' = c.rob
     /\ squashed' = squashed \cup c.marked
     /\ committed' = committed \cup c.retired
     /\ executed' = executed \ c.retired
     /\ canCommit' = (canCommit \cup c.marked \cup
                       {s \in iewQueue[1].insts : ~Gone(c, s)})
                      \ (c.cleared \cup c.retired)
     /\ AdvanceTimeBuffers(fetchQueue, decodeQueue, renameQueue, iewQueue,
                           [timeBuffer EXCEPT ![0].commit = c.info])
  /\ UNCHANGED <<nextSeq, kind, tempSerialize, serializeHandled, fetch,
                 decode, branchHistory, rename, historyBuffer,
                 freeingInProgress, iewVars>>

(* Commit::processTrapEvent, some cycles after the trap. *)
TrapEvent ==
  /\ stage = "fetch"
  /\ commit.status = "TrapPending" /\ ~commit.trapSquash
  /\ commit' = [commit EXCEPT !.trapSquash = TRUE]
  /\ UNCHANGED <<stage, instVars, wireVars, rob, fetch, decode, branchHistory,
                 rename, historyBuffer, freeingInProgress, iewVars>>
=============================================================================
