------------------------------ MODULE MCO3CPU -------------------------------
(***************************************************************************)
(* The machines the model-checking runs of O3CPU build, each with the      *)
(* programs it is fed: any sequence of instructions of its kinds.          *)
(***************************************************************************)
EXTENDS O3CPU

Base == [kinds |-> {}, insts |-> 3,
         decodeWidth |-> 2, renameWidth |-> 2, dispatchWidth |-> 2,
         issueWidth |-> 1, commitWidth |-> 2, squashWidth |-> 1,
         renameToIEWDelay |-> 2, renameToROBDelay |-> 1,
         numROBEntries |-> 2, numIQEntries |-> 2,
         LQEntries |-> 1, SQEntries |-> 1,
         freeRegs |-> 2, maxBranchHistory |-> 2]

(* Nothing squashes; the widths make every skid buffer fill. *)
Narrow == [Base EXCEPT !.kinds = {"alu"}, !.insts = 6, !.decodeWidth = 1,
             !.dispatchWidth = 1, !.numROBEntries = 4, !.freeRegs = 4]

Serializing == [Base EXCEPT !.kinds = {"branch", "store", "serBefore", "serAfter"}]

Memory == [Base EXCEPT !.kinds = {"load", "store"}, !.LQEntries = 2,
             !.SQEntries = 2, !.numROBEntries = 3, !.freeRegs = 3]

(* Branches right or mispredicted: squashes overlap and arrive late. *)
Branches == [Base EXCEPT !.kinds = {"branch"}, !.insts = 4, !.numROBEntries = 4,
               !.numIQEntries = 4, !.freeRegs = 4]

(* Decode's squashes race commit's; a branch that decode corrected may be   *)
(* found mispredicted all the same.                                         *)
Jumps == [Base EXCEPT !.kinds = {"jump", "misdirected", "branch"},
            !.numIQEntries = 4]

(* The head commits and squashes a full ROB, one entry per cycle. *)
LongWalk == [Base EXCEPT !.kinds = {"nonSpec"}, !.insts = 7,
               !.renameToIEWDelay = 1, !.numROBEntries = 6, !.numIQEntries = 6,
               !.freeRegs = 7]

(* For liveness: queues that fill, traps, and waits for an empty ROB. *)
Straight == [Base EXCEPT !.kinds = {"alu", "load", "store"}]
Trapping == [Base EXCEPT !.kinds = {"branch", "nonSpec", "fault"}]
Waiting  == [Base EXCEPT !.kinds = {"branch", "serBefore", "serAfter"}]

SafeMachines == {Narrow, Serializing, Memory, Branches, Jumps, LongWalk, Trapping}
LiveMachines == {Straight, Trapping, Waiting}
=============================================================================
