----------------------------- MODULE BranchPred ------------------------------
(***************************************************************************)
(* The return address stack (cpu/pred/ras.cc) and the prediction history   *)
(* that repairs it (cpu/pred/bpred_unit.cc).  Fetch predicts calls and     *)
(* returns on paths that may be wrong; each records what it did to the     *)
(* stack, and a squash undoes the records newest first.  One thread.       *)
(*                                                                         *)
(* The return address of a call is its sequence number.  Directions, the   *)
(* indirect predictor and the tables of the BTB are free choices.  Calls   *)
(* are unconditional, as on x86.                                           *)
(***************************************************************************)
EXTENDS Integers, SequencesExt

CONSTANTS NumEntries,     \* numEntries of the stack
          Misses,         \* the types of branch that can miss the BTB when
                          \* requiresBTBHit is set
          MaxInFlight,    \* bound: branches in predHist
          MaxSeq          \* bound: branches ever predicted

VARIABLES requiresBTBHit, \* a parameter of the predictor
          next,           \* next sequence number
          stack,          \* addrStack, tos and usedEntries
          predHist,       \* records of branches in flight, newest first
          callers         \* history variable: return addresses of the calls
                          \* the fetched path is in, innermost first

vars == <<requiresBTBHit, next, stack, predHist, callers>>

Types == {"call", "return", "other"}

\* No address: a slot that was never written.
Null == 0

\* No rasHistory: the branch did not touch the stack.
NoRAS == [pushed |-> FALSE, popped |-> FALSE, tos |-> 0, entry |-> Null]

Init ==
    /\ requiresBTBHit \in BOOLEAN
    /\ next = 1
    /\ stack = [addr |-> [i \in 0..(NumEntries - 1) |-> Null], tos |-> 0,
                used |-> 0]
    /\ predHist = <<>>
    /\ callers = <<>>

-----------------------------------------------------------------------------
(* The stack. *)

Increment(tos) == (tos + 1) % NumEntries

Decrement(tos) == IF tos = 0 THEN NumEntries - 1 ELSE tos - 1

Top(s) == s.addr[s.tos]

Push(s, address) ==
    [addr |-> [s.addr EXCEPT ![Increment(s.tos)] = address],
     tos |-> Increment(s.tos),
     used |-> IF s.used # NumEntries THEN s.used + 1 ELSE s.used]

Pop(s) ==
    [s EXCEPT !.tos = Decrement(@), !.used = IF @ > 0 THEN @ - 1 ELSE @]

\* The index is restored, the address is not.
RestoreIndex(s, tos, address) ==
    [s EXCEPT !.tos = tos, !.used = IF @ # NumEntries THEN @ + 1 ELSE @]

Restore(s, tos, address) ==
    [addr |-> [s.addr EXCEPT ![tos] = address], tos |-> tos,
     used |-> IF s.used # NumEntries THEN s.used + 1 ELSE s.used]

\* ReturnAddrStack::squash.
Undo(s, ras) ==
    LET p == IF ras.pushed THEN Pop(s) ELSE s
    IN  IF ras.popped THEN Restore(p, ras.tos, ras.entry) ELSE p

PushRAS == [NoRAS EXCEPT !.pushed = TRUE]

PopRAS(s) == [NoRAS EXCEPT !.popped = TRUE, !.tos = s.tos, !.entry = Top(s)]

-----------------------------------------------------------------------------
(* BPredUnit. *)

\* What a branch does to the callers.
Effect(before, type, seq) ==
    CASE type = "call" -> <<seq>> \o before
      [] type = "return" -> IF before = <<>> THEN <<>> ELSE Tail(before)
      [] type = "other" -> before

\* BPredUnit::predict.  Bound: no call is fetched when the stack is full, which
\* would give up the oldest address.  lost: the branch is taken but fetch found
\* no target and falls through.
Predict(type, btbHit) ==
    /\ next <= MaxSeq /\ Len(predHist) < MaxInFlight
    /\ type = "call" => stack.used < NumEntries
    /\ ~btbHit /\ requiresBTBHit => type \in Misses
    /\ \E detected \in {btbHit \/ ~requiresBTBHit} :
       \E ras \in {IF ~detected \/ type = "other" THEN NoRAS
                   ELSE IF type = "call" THEN PushRAS ELSE PopRAS(stack)} :
          /\ stack' = IF ras.pushed THEN Push(stack, next)
                      ELSE IF ras.popped THEN Pop(stack) ELSE stack
          /\ predHist' = <<[seq |-> next, type |-> type, ras |-> ras,
                            lost |-> /\ type # "other" /\ ~btbHit
                                     /\ ras.entry = Null,
                            before |-> callers]>> \o predHist
    /\ callers' = Effect(callers, type, next)
    /\ next' = next + 1 /\ UNCHANGED requiresBTBHit

\* The stack after the n newest records are undone, newest first.
Undone(n) ==
    FoldLeft(LAMBDA s, h : Undo(s, h.ras), stack, SubSeq(predHist, 1, n))

\* BPredUnit::update: the oldest branch commits.  One that lost its target is
\* corrected before.
Update ==
    /\ predHist # <<>> /\ ~Last(predHist).lost
    /\ predHist' = Front(predHist)
    /\ UNCHANGED <<requiresBTBHit, next, stack, callers>>

\* BPredUnit::squash without a mispredicted branch: a trap or an order
\* violation.
Squash(n) ==
    /\ n <= Len(predHist)
    /\ stack' = Undone(n)
    /\ callers' = predHist[n].before
    /\ predHist' = SubSeq(predHist, n + 1, Len(predHist))
    /\ UNCHANGED <<requiresBTBHit, next>>

\* The address BPredUnit::squash builds from the corrected target: the one
\* after the first instruction of the callee.
AfterTarget(seq) == MaxSeq + seq

\* BPredUnit::squash of a mispredicted branch, the n-th newest, by decode or
\* commit: what is younger is undone, and a call or return that did not touch
\* the stack does so now.
Mispredict(n) ==
    /\ n <= Len(predHist)
    /\ \E h \in {predHist[n]}, s \in {Undone(n - 1)} :
          /\ \E missed \in {~h.ras.pushed /\ ~h.ras.popped} :
             \E ras \in {IF missed /\ h.type = "return" THEN PopRAS(s)
                         ELSE IF missed /\ h.type = "call" THEN PushRAS
                         ELSE h.ras} :
                /\ stack' = IF missed /\ h.type = "return" THEN Pop(s)
                            ELSE IF missed /\ h.type = "call"
                            THEN Push(s, AfterTarget(h.seq))
                            ELSE s
                /\ predHist' = <<[h EXCEPT !.ras = ras, !.lost = FALSE]>>
                               \o SubSeq(predHist, n + 1, Len(predHist))
          /\ callers' = Effect(h.before, h.type, h.seq)
    /\ UNCHANGED <<requiresBTBHit, next>>

Next ==
    \/ \E type \in Types, btbHit \in BOOLEAN : Predict(type, btbHit)
    \/ Update
    \/ \E n \in 1..MaxInFlight : Squash(n)
    \/ \E n \in 1..MaxInFlight : Mispredict(n)

Spec == Init /\ [][Next]_vars

-----------------------------------------------------------------------------
(* Properties. *)

\* The i-th address from the top.
Below(i) == stack.addr[(stack.tos - i + 1 + NumEntries) % NumEntries]

\* Unless fetch is on a path where it missed a call or return, the stack
\* holds the return addresses of all calls the path is in, whatever was
\* fetched, undone and corrected before: a return is predicted right.
ReturnsRight ==
    (\A i \in DOMAIN predHist : ~predHist[i].lost)
        => \A i \in 1..Len(callers) : Below(i) = callers[i]
=============================================================================
