------------------------------- MODULE O3ROB --------------------------------
(***************************************************************************)
(* The reorder buffer (rob.cc) of one thread: the instruction list, and    *)
(* the walk that marks squashWidth instructions as squashed per cycle.     *)
(* Every operator takes and returns the ROB's own state r.                 *)
(***************************************************************************)
EXTENDS O3Inst

VARIABLE rob  \* instList, squashIt (a position, None is end()), squashedSeqNum,
              \* doneSquashing

InitROB == rob = [list |-> <<>>, squashIt |-> None, squashedSeqNum |-> None,
                  doneSquashing |-> TRUE]

IsEmpty(r)       == r.list = <<>>
NumFreeEntries(r) == NumROBEntries - Len(r.list)
ReadHeadInst(r)  == Head(r.list)
ReadTailInst(r)  == Last(r.list)
InsertInsts(r, q) == [r EXCEPT !.list = @ \o q]
RetireHeads(r, n) == [r EXCEPT !.list = Drop(@, n)]

(* The position doSquash stops at: squashWidth instructions on, or at the   *)
(* first one that the squash keeps.                                          *)
WalkLimit(r) == r.squashIt - SquashWidth

(* The instructions one doSquash call marks. *)
Walked(r) == {r.list[i] : i \in {j \in 1 .. Len(r.list) :
                /\ j <= r.squashIt /\ j > WalkLimit(r)
                /\ r.list[j] > r.squashedSeqNum}}

(* ROB::doSquash: mark Walked, then move squashIt; done when it reaches the  *)
(* head or an instruction the squash keeps.                                  *)
DoSquash(r) ==
  LET it   == r.squashIt - Cardinality(Walked(r))
      done == it = 0 \/ r.list[it] <= r.squashedSeqNum
  IN  [r EXCEPT !.squashIt = IF done THEN None ELSE it,
                !.doneSquashing = done]

(* ROB::squash: nothing when empty, otherwise a new walk from the tail, whose *)
(* first doSquash happens at once.                                            *)
WalkFrom(r, num) ==
  [r EXCEPT !.squashIt = Len(r.list), !.squashedSeqNum = num,
            !.doneSquashing = FALSE]
SquashROB(r, num) == IF IsEmpty(r) THEN r ELSE DoSquash(WalkFrom(r, num))
SquashMarks(r, num) == IF IsEmpty(r) THEN {} ELSE Walked(WalkFrom(r, num))
=============================================================================
