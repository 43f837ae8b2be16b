------------------------------ MODULE O3Fetch -------------------------------
(***************************************************************************)
(* Fetch (fetch.cc) as the stages behind it see it: it reads decode's      *)
(* block signals and the squashes of commit and decode, and otherwise      *)
(* hands decode any number of new instructions.  The instruction cache,    *)
(* the TLB and the fetch queue are in that choice.                         *)
(***************************************************************************)
EXTENDS O3ROB

VARIABLE fetch  \* fetchStatus (squashing or not) and stalls[tid].decode

InitFetch == fetch = [squashing |-> FALSE, stalled |-> FALSE]

(* checkSignalsAndUpdate: block is read before unblock. *)
FetchStalled == /\ fetch.stalled \/ fromDecodeInfo.block
                /\ ~fromDecodeInfo.unblock

(* CPU::removeInstsNotInROB: all that entered instList after the ROB's tail. *)
InstsNotInROB ==
  IF IsEmpty(rob) THEN Fetched \ committed ELSE Younger(ReadTailInst(rob))

(* Fetch::squash *)
FetchSquash ==
  /\ fromCommit.squash
  /\ squashed' = squashed \cup InstsNotInROB
  /\ fetch' = [squashing |-> TRUE, stalled |-> FetchStalled]
  /\ UNCHANGED <<nextSeq, kind, fetchQueue>>

(* Fetch::squashFromDecode, unless commit squashes or fetch already is. *)
FetchSquashFromDecode ==
  /\ ~fromCommit.squash
  /\ fromDecodeInfo.squash # None /\ ~fetch.squashing
  /\ squashed' = squashed \cup Younger(fromDecodeInfo.squash)
  /\ fetch' = [squashing |-> TRUE, stalled |-> FetchStalled]
  /\ UNCHANGED <<nextSeq, kind, fetchQueue>>

(* Fetch::tick without a squash: buildInst gives each instruction the next   *)
(* sequence number; at most decodeWidth of them reach decode, none while     *)
(* decode is blocked.                                                        *)
FetchInsts ==
  /\ ~fromCommit.squash
  /\ fromDecodeInfo.squash = None \/ fetch.squashing
  /\ fetch' = [squashing |-> FALSE, stalled |-> FetchStalled]
  /\ \E n \in 0 .. IF FetchStalled THEN 0 ELSE DecodeWidth :
       \E new \in [1 .. n -> Kinds] :
         /\ nextSeq + n <= machine.insts + 1
         /\ kind' = kind \o new
         /\ fetchQueue' = Write(fetchQueue, [i \in 1 .. n |-> nextSeq + i - 1])
         /\ nextSeq' = nextSeq + n
  /\ UNCHANGED squashed

FetchTick ==
  /\ stage = "fetch" /\ stage' = "decode"
  /\ FetchSquash \/ FetchSquashFromDecode \/ FetchInsts
  /\ UNCHANGED <<executed, canCommit, committed, tempSerialize,
                 serializeHandled, decodeQueue, renameQueue, iewQueue,
                 timeBuffer, rob>>
=============================================================================
