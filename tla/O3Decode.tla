------------------------------ MODULE O3Decode ------------------------------
(***************************************************************************)
(* Decode (decode.cc).  The operators transform the record d of one tick:  *)
(* decode's own state, the instructions just read (insts), and what the    *)
(* tick writes to fetch (block, unblock, squash) and to rename (out).      *)
(***************************************************************************)
EXTENDS O3Fetch

VARIABLES decode,         \* decodeStatus, skidBuffer, stalls[tid].rename
          branchHistory   \* Decode::decodedBranchHistory, newest first

InitDecode == /\ decode = [status |-> "Idle", skid |-> <<>>, stalled |-> FALSE]
              /\ branchHistory = <<>>

DecodeSkidMax == 2 * DecodeWidth   \* (fetchToDecodeDelay + 1) * decodeWidth

(* The tick's record: sortInsts, and readStallSignals. *)
DecodeInput ==
  [status |-> decode.status, skid |-> decode.skid, insts |-> fetchQueue[1],
   stalled |-> /\ decode.stalled \/ fromRenameInfo.block
               /\ ~fromRenameInfo.unblock,
   block |-> FALSE, unblock |-> FALSE, squash |-> None, out |-> <<>>]

DecodeSkidInsert(d) == [d EXCEPT !.skid = @ \o d.insts, !.insts = <<>>]

(* Decode::block: fetch is told once, or an unblock of this cycle withdrawn. *)
DecodeBlock(d) ==
  LET s == DecodeSkidInsert(d)
  IN  IF d.status = "Blocked" THEN s
      ELSE [s EXCEPT !.status = "Blocked", !.unblock = FALSE,
                     !.block = @ \/ ~d.unblock]

DecodeUnblock(d) ==
  IF d.skid = <<>> THEN [d EXCEPT !.unblock = TRUE, !.status = "Running"] ELSE d

(* Decode::squash, on commit's signal (inst = None) or on decode's own       *)
(* check of a branch target.                                                 *)
DecodeSquash(d, inst) ==
  [d EXCEPT !.unblock = @ \/ d.status \in {"Blocked", "Unblocking"},
            !.squash = inst, !.status = "Squashing",
            !.insts = <<>>, !.skid = <<>>]

(* Decode::checkSignalsAndUpdate *)
DecodeCheckSignals(d) ==
  IF fromCommit.squash THEN DecodeSquash(d, None)
  ELSE IF d.stalled THEN DecodeBlock(d)
  ELSE CASE d.status = "Blocked" ->
              DecodeUnblock([d EXCEPT !.status = "Unblocking"])
         [] d.status = "Squashing" -> [d EXCEPT !.status = "Running"]
         [] OTHER -> d

(* decodeInsts' source, and the part of it the loop consumes: up to          *)
(* decodeWidth instructions that are not squashed.                           *)
DecodeSource(d) == IF d.status = "Unblocking" THEN d.skid ELSE d.insts
DecodeCount(q) ==
  Prefix(Len(q), LAMBDA i :
           Count({j \in 1 .. i - 1 : Live(q[j])}) < DecodeWidth)
Decodable(d) == SelectSeq(SubSeq(DecodeSource(d), 1,
                                 DecodeCount(DecodeSource(d))), Live)

(* Decode::decodeInsts.  The m-th instruction sent, if any, is a branch      *)
(* whose target turns out wrong: it is the last one, and decode squashes.    *)
DecodeInsts(d, m) ==
  LET rest == Drop(DecodeSource(d), DecodeCount(DecodeSource(d)))
      left == IF d.status = "Unblocking" THEN [d EXCEPT !.skid = rest]
                                         ELSE [d EXCEPT !.insts = rest]
  IN  IF m # None
      THEN DecodeSquash([left EXCEPT !.out = SubSeq(Decodable(d), 1, m)],
                        Decodable(d)[m])
      ELSE LET sent == [left EXCEPT !.out = Decodable(d)]
           IN  IF rest = <<>> THEN sent ELSE DecodeBlock(sent)

(* Decode::decode *)
DecodeRun(d, m) ==
  CASE d.status \in {"Running", "Idle"} -> DecodeInsts(d, m)
    [] d.status = "Unblocking" ->
         DecodeUnblock(DecodeSkidInsert(DecodeInsts(d, m)))
    [] OTHER -> d

DecodeRuns(d) == d.status \in {"Running", "Idle", "Unblocking"}

(* Mutant of RevertHistory: squashed branches stay in the history. *)
RevertHistoryKeep(h, seq) == h

(* The loops "revert branch history" of the squashes of decode, rename and   *)
(* IEW: pop_front while the newest branch is younger than seq.               *)
RevertHistory(h, seq) == SelectSeq(h, LAMBDA s : s <= seq)

(* push_front of the branches decoded, and the cut at MAX_BRANCH_HISTORY.  A *)
(* branch that squashes in decode is not recorded: the loop breaks before.   *)
(* Commit records it all the same when it commits.                           *)
RecordBranches(d) ==
  LET b == SelectSeq(d.out, LAMBDA s : kind[s] = "branch")
      h == Reverse(b) \o branchHistory
      c == SubSeq(h, 1, Min({Len(h), MaxBranchHistory}))
  IN  IF d.squash = None THEN c ELSE RevertHistory(c, d.squash)

(* Where the loop may break, in the list q: at a jump whose predicted target *)
(* is wrong or right, and at the first misdirected branch at the latest.     *)
Corrections(q) ==
  LET wrong == {j \in 1 .. Len(q) : kind[q[j]] = "misdirected"}
      jumps == {j \in 1 .. Len(q) : kind[q[j]] = "jump"}
  IN  IF wrong = {} THEN {None} \cup jumps
      ELSE {Min(wrong)} \cup {j \in jumps : j < Min(wrong)}

DecodeTick ==
  /\ stage = "decode" /\ stage' = "rename"
  /\ \E input \in {DecodeInput} :
     \E d \in {DecodeCheckSignals(input)} :
     \E m \in IF DecodeRuns(d) THEN Corrections(Decodable(d)) ELSE {None} :
       \E e \in {DecodeRun(d, m)} :
       /\ decode' = [status |-> e.status, skid |-> e.skid,
                     stalled |-> e.stalled]
       /\ squashed' = squashed \cup
            IF fromCommit.squash THEN ToSet(fetchQueue[1])
            ELSE IF e.squash = None THEN {} ELSE Younger(e.squash)
       /\ branchHistory' = RecordBranches(e)
       /\ decodeQueue' = Write(decodeQueue, e.out)
       /\ timeBuffer' = [timeBuffer EXCEPT ![0].decode =
            [block |-> e.block, unblock |-> e.unblock, squash |-> e.squash]]
  /\ UNCHANGED <<nextSeq, kind, executed, canCommit, committed, tempSerialize,
                 serializeHandled, fetchQueue, renameQueue, iewQueue, rob,
                 fetch>>
=============================================================================
