------------------------------ MODULE O3Rename ------------------------------
(***************************************************************************)
(* Rename (rename.cc), cycle by cycle: the credits it holds for the ROB,   *)
(* the IQ and the load and store queues, its skid buffer, serializing      *)
(* instructions, and squashes.  The register maps are in RegRename; here   *)
(* an instruction with a destination takes one of NumFreeRegs registers    *)
(* and the history buffer is the set of those that hold one.  Operators    *)
(* transform the record r of one tick.                                     *)
(***************************************************************************)
EXTENDS O3Decode

VARIABLES
  rename,   \* renameStatus, skidBuffer, stalls[tid].iew, freeEntries, emptyROB,
            \* insts/loads/storesInProgress, serializeInst,
            \* serializeOnNextInst, resumeSerialize
  historyBuffer, freeingInProgress

InitRename ==
  /\ rename = [status |-> "Idle", skid |-> <<>>, stalled |-> FALSE,
               rob |-> NumROBEntries, iq |-> NumIQEntries,
               lq |-> LQEntries, sq |-> SQEntries, emptyROB |-> TRUE,
               insts |-> 0, loads |-> 0, stores |-> 0,
               serializeInst |-> None, serializeOnNext |-> FALSE,
               resumeSerialize |-> FALSE]
  /\ historyBuffer = {} /\ freeingInProgress = {}

RenameSkidMax == 2 * DecodeWidth   \* (decodeToRenameDelay + 1) * decodeWidth

(* sortInsts, readFreeEntries, readStallSignals.  in and out are what the   *)
(* tick has still to rename and has renamed.                                *)
RenameInput ==
  [in |-> decodeQueue[1], out |-> <<>>, block |-> FALSE, unblock |-> FALSE,
   temp |-> tempSerialize, handled |-> serializeHandled] @@
  [rename EXCEPT
     !.iq = IF fromIewInfo.used THEN fromIewInfo.iq ELSE @,
     !.lq = IF fromIewInfo.used THEN fromIewInfo.lq ELSE @,
     !.sq = IF fromIewInfo.used THEN fromIewInfo.sq ELSE @,
     !.rob = IF fromCommit.usedROB THEN fromCommit.freeROB ELSE @,
     !.emptyROB = IF fromCommit.usedROB THEN fromCommit.emptyROB ELSE @,
     !.stalled = (@ \/ fromIewInfo.block) /\ ~fromIewInfo.unblock]

(* calcFree{ROB,IQ,LQ,SQ}Entries: the entries last reported, less the        *)
(* instructions renamed and not known to be dispatched.                      *)
CalcFree(free, inProgress, dispatched) == free - (inProgress - dispatched)

FreeROB(r) == CalcFree(r.rob, r.insts, fromIewInfo.dispatched)
FreeIQ(r)  == CalcFree(r.iq, r.insts, fromIewInfo.dispatched)
FreeLQ(r)  == CalcFree(r.lq, r.loads, fromIewInfo.toLQ)
FreeSQ(r)  == CalcFree(r.sq, r.stores, fromIewInfo.toSQ)

(* The ROB is empty and nothing is on its way to it. *)
SerializeDone(r) == r.emptyROB /\ r.insts = 0

(* Rename::checkStall *)
RenameStall(r) ==
  \/ r.stalled
  \/ FreeROB(r) <= 0 \/ FreeIQ(r) <= 0
  \/ FreeLQ(r) <= 0 /\ FreeSQ(r) <= 0
  \/ r.status = "SerializeStall" /\ ~SerializeDone(r)

(* Mutant of RenameSkidInsert: new instructions go in front of old ones. *)
RenameSkidInsertFront(r) == [r EXCEPT !.skid = r.in \o @, !.in = <<>>]

RenameSkidInsert(r) == [r EXCEPT !.skid = @ \o r.in, !.in = <<>>]

(* Mutant of RenameBlock: decode is not told. *)
RenameBlockSilent(r) ==
  LET s == RenameSkidInsert(r)
  IN  IF r.status = "SerializeStall" THEN s ELSE [s EXCEPT !.status = "Blocked"]

(* Rename::block: decode is told unless it already is blocked; a serialize   *)
(* stall is not left.  resumeUnblocking is never set.                        *)
RenameBlock(r) ==
  LET s == RenameSkidInsert(r)
      t == IF r.status \in {"Blocked", "Unblocking"} THEN s
           ELSE [s EXCEPT !.block = TRUE, !.unblock = FALSE]
  IN  IF r.status = "SerializeStall" THEN t ELSE [t EXCEPT !.status = "Blocked"]

RenameUnblock(r) ==
  IF r.skid = <<>> /\ r.status # "SerializeStall"
  THEN [r EXCEPT !.unblock = TRUE, !.status = "Running"] ELSE r

(* Rename::squash; doSquash is in RenameTick. *)
RenameSquash(r, seq) ==
  LET clear == [r EXCEPT !.in = <<>>, !.skid = <<>>, !.status = "Squashing"]
      reset == [clear EXCEPT !.unblock = TRUE, !.resumeSerialize = FALSE,
                             !.serializeInst = None]
  IN  CASE r.status \in {"Blocked", "Unblocking"} -> reset
        [] r.status = "SerializeStall" ->
             IF r.serializeInst <= seq
             THEN [clear EXCEPT !.resumeSerialize = TRUE] ELSE reset
        [] OTHER -> clear

(* The end of a serialize stall: the instruction goes to the front of the    *)
(* skid buffer, or of the input when unblock found the skid buffer empty.    *)
EndSerialize(r) ==
  LET u == RenameUnblock([r EXCEPT !.status = "Unblocking"])
      t == [u EXCEPT !.temp = @ \ {r.serializeInst}, !.serializeInst = None]
      f == <<r.serializeInst>>
  IN  IF r.skid = <<>> THEN [t EXCEPT !.in = f \o @] ELSE [t EXCEPT !.skid = f \o @]

(* Rename::checkSignalsAndUpdate *)
RenameCheckSignals(r) ==
  IF fromCommit.squash THEN RenameSquash(r, fromCommit.done)
  ELSE IF RenameStall(r) THEN RenameBlock(r)
  ELSE CASE r.status = "Blocked" ->
              RenameUnblock([r EXCEPT !.status = "Unblocking"])
         [] r.status = "Squashing" ->
              [r EXCEPT !.status = IF r.resumeSerialize THEN "SerializeStall"
                                                        ELSE "Running"]
         [] r.status = "SerializeStall" -> EndSerialize(r)
         [] OTHER -> r

(* Mutant of FreeingDone: registers are freed while the walk goes on. *)
FreeingDoneEarly == ~fromCommit.squash

(* checkSignalsAndUpdate: freeingInProgress goes to the free list once       *)
(* commit signals neither a squash nor a walk.                               *)
FreeingDone == ~fromCommit.squash /\ ~fromCommit.robSquashing

FreeRegs == NumFreeRegs - Count(historyBuffer) -
            IF FreeingDone THEN 0 ELSE Count(freeingInProgress)

(* renameInsts' loop over the queue q.  Before(q, i, P) counts the           *)
(* instructions renamed before position i that satisfy P.                    *)
RenameSource(r) == IF r.status = "Unblocking" THEN r.skid ELSE r.in
Before(q, i, P(_)) == Count({j \in 1 .. i - 1 : Live(q[j]) /\ P(q[j])})
Marks(r, q, i) ==      \* q[i] makes the instruction after it serialize
  Live(q[i]) /\ IsSerializeAfter(q[i]) /\ q[i] \notin r.handled
Temp(r, q, i) ==       \* isTempSerializeBefore
  \/ q[i] \in r.temp
  \/ i = 1 /\ r.serializeOnNext /\ ~SerializeDone(r)
  \/ i > 1 /\ Marks(r, q, i - 1)
Serializes(r, q, i) ==
  (kind[q[i]] = "serBefore" \/ Temp(r, q, i)) /\ q[i] \notin r.handled
Fits(r, q, i) ==       \* width, queues and registers suffice for q[i]
  /\ Before(q, i, LAMBDA s : TRUE) < RenameWidth
  /\ IsLoad(q[i]) => FreeLQ(r) - Before(q, i, IsLoad) > 0
  /\ IsStore(q[i]) => FreeSQ(r) - Before(q, i, IsStore) > 0
  /\ Live(q[i]) /\ HasDest(q[i]) => FreeRegs - Before(q, i, HasDest) > 0

(* Mutant of Available: the instructions already on their way to the ROB     *)
(* are not counted.                                                          *)
AvailableUncounted(r) == Min({Len(RenameSource(r)), r.rob, FreeIQ(r)})

(* insts_available: limited by the free ROB and IQ entries. *)
Available(r) == Min({Len(RenameSource(r)), FreeROB(r), FreeIQ(r)})

(* Rename::renameInsts *)
RenameInsts(r) ==
  LET q     == RenameSource(r)
      avail == Available(r)
      n     == Prefix(avail, LAMBDA i :
                        Fits(r, q, i) /\ (Live(q[i]) => ~Serializes(r, q, i)))
      ser   == IF /\ n < avail /\ Fits(r, q, n + 1)
                  /\ Live(q[n + 1]) /\ Serializes(r, q, n + 1)
               THEN q[n + 1] ELSE None
      out   == SelectSeq(SubSeq(q, 1, n), Live)
      rest  == Drop(q, IF ser = None THEN n ELSE n + 1)
      marks == n > 0 /\ Marks(r, q, n)
      s == [r EXCEPT
              !.out = out,
              !.insts = @ + Len(out),
              !.loads = @ + Len(SelectSeq(out, IsLoad)),
              !.stores = @ + Len(SelectSeq(out, IsStore)),
              !.serializeOnNext = \/ @ /\ ~SerializeDone(r)
                                  \/ marks /\ n = Len(q),
              !.temp = @ \cup {q[i] : i \in {j \in {1, n + 1} \cap 1 .. Len(q) :
                                               Temp(r, q, j)}},
              !.handled = @ \cup {x \in ToSet(out) : IsSerializeAfter(x)}
                            \cup IF ser # None /\ ~Temp(r, q, n + 1)
                                 THEN {ser} ELSE {},
              !.serializeInst = IF ser = None THEN @ ELSE ser,
              !.status = IF ser = None THEN @ ELSE "SerializeStall",
              !.skid = IF r.status = "Unblocking" THEN rest ELSE @,
              !.in = IF r.status = "Unblocking" THEN @ ELSE rest]
  IN  IF q = <<>> THEN r
      ELSE IF avail <= 0 THEN RenameBlock(r)
      ELSE IF n < Len(q)   \* blockThisCycle
           THEN [RenameBlock(s) EXCEPT !.unblock = FALSE]
           ELSE s

(* Rename::rename *)
RenameRun(r) ==
  CASE r.status = "SerializeStall" /\ r.resumeSerialize ->
         [RenameBlock([r EXCEPT !.resumeSerialize = FALSE])
            EXCEPT !.unblock = FALSE]
    [] r.status \in {"Running", "Idle"} -> RenameInsts(r)
    [] r.status = "Unblocking" ->
         RenameUnblock(RenameSkidInsert(RenameInsts(r)))
    [] OTHER -> r

(* Rename::doSquash and removeFromHistory *)
RenameHistory(r) ==
  IF fromCommit.squash
  THEN {s \in historyBuffer : s <= fromCommit.done}
  ELSE {s \in historyBuffer \cup {x \in ToSet(r.out) : HasDest(x)} :
          fromCommit.done = None \/ s > fromCommit.done}

RenameTick ==
  /\ stage = "rename" /\ stage' = "iew"
  /\ \E input \in {RenameInput} :
     \E checked \in {RenameCheckSignals(input)} :
     \E r \in {RenameRun(checked)} :
     /\ rename' = [f \in DOMAIN rename |->
          CASE f = "insts"  -> r.insts - fromIewInfo.dispatched
            [] f = "loads"  -> r.loads - fromIewInfo.toLQ
            [] f = "stores" -> r.stores - fromIewInfo.toSQ
            [] OTHER        -> r[f]]
     /\ historyBuffer' = RenameHistory(r)
     /\ freeingInProgress' =
          IF fromCommit.squash
          THEN freeingInProgress \cup
                 {s \in historyBuffer : s > fromCommit.done}
          ELSE IF FreeingDone THEN {} ELSE freeingInProgress
     /\ branchHistory' = IF fromCommit.squash
                         THEN RevertHistory(branchHistory, fromCommit.done)
                         ELSE branchHistory
     /\ tempSerialize' = r.temp /\ serializeHandled' = r.handled
     /\ renameQueue' = Write(renameQueue, r.out)
     /\ timeBuffer' = [timeBuffer EXCEPT ![0].rename =
                         [block |-> r.block, unblock |-> r.unblock]]
     /\ squashed' = squashed \cup
          IF fromCommit.squash
          THEN {s \in ToSet(decodeQueue[1]) : s > fromCommit.done} ELSE {}
  /\ UNCHANGED <<nextSeq, kind, executed, canCommit, committed, fetchQueue,
                 decodeQueue, iewQueue, rob, fetch, decode>>
=============================================================================
