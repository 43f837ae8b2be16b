----------------------------- MODULE RegRename -----------------------------
(***************************************************************************)
(* Register renaming of the O3 CPU, at the granularity of one instruction: *)
(* Rename's maps, free list and history buffer (rename.cc, rename_map.cc,  *)
(* free_list.hh), the scoreboard and the physical registers (iew.cc,       *)
(* regfile.hh) and the commit map (commit.cc).  The pipeline's clock is    *)
(* left out: a signal from commit to rename is a variable (squashMsg) or a *)
(* free choice among the values already sent (RemoveFromHistory).          *)
(*                                                                         *)
(* A register value is the sequence number of the instruction that wrote   *)
(* it, 0 for the initial state, so "reads the right value" means "reads    *)
(* what the last older instruction of the program wrote".                  *)
(***************************************************************************)
EXTENDS Integers, FiniteSets

CONSTANTS
  Threads,    \* SMT hardware threads
  ArchRegs,   \* renameable architectural registers
  MiscRegs,   \* architectural registers that are never renamed
  PhysRegs,   \* physical registers, handed out by the unified free list
  Shapes,     \* operand shapes of the program's instructions
  InitMap,    \* the map the CPU constructor builds
  MaxSeq      \* bound on the sequence numbers handed out

Regs == Threads \X ArchRegs
None == -1

ASSUME RegsAssumption ==
  /\ ArchRegs \cap MiscRegs = {}
  /\ PhysRegs \cap MiscRegs = {}
ASSUME InitMapAssumption ==
  /\ InitMap \in [Regs -> PhysRegs]
  /\ \A r, q \in Regs : InitMap[r] = InitMap[q] => r = q
ASSUME ShapesAssumption ==
  Shapes \subseteq [srcs : SUBSET ArchRegs, dests : SUBSET ArchRegs,
                    misc : SUBSET MiscRegs]
ASSUME MaxSeqAssumption == MaxSeq \in Nat

VARIABLES
  renameMap,          \* Rename::renameMap
  freeList,           \* Rename::freeList
  historyBuffer,      \* Rename::historyBuffer, one record per destination
  freeingInProgress,  \* Rename::freeingInProgress, per thread
  scoreboard,         \* Scoreboard::regScoreBoard
  regFile,            \* PhysRegFile
  commitMap,          \* Commit::renameMap
  lastCommitted,      \* Commit::lastCommitedSeqNum, per thread
  squashing,          \* ROB::squashedSeqNum while the walk is not done
  doomed,             \* instructions the walk has still to mark
  squashMsg,          \* commitInfo[tid].doneSeqNum of a squash on its way
  insts,              \* instructions renamed, not committed, not yet squashed
  nextSeq,            \* CPU::globalSeqNum
  archWriter          \* last committed writer of each register (history)

renameVars == <<renameMap, freeList, historyBuffer, freeingInProgress>>
execVars   == <<scoreboard, regFile>>
commitVars == <<commitMap, lastCommitted, squashing, doomed, squashMsg,
                archWriter>>
vars == <<renameVars, execVars, commitVars, insts, nextSeq>>

SeqNums == 0 .. MaxSeq
History == [tid : Threads, seq : SeqNums, arch : ArchRegs \cup MiscRegs,
            new : PhysRegs \cup MiscRegs, prev : PhysRegs \cup MiscRegs]
States == {"renamed", "executed", "written"}
Insts == [tid : Threads, seq : SeqNums, srcs : SUBSET (ArchRegs \X PhysRegs),
          dests : SUBSET (ArchRegs \X PhysRegs), st : States]

TypeOK ==
  /\ renameMap \in [Regs -> PhysRegs]
  /\ freeList \in SUBSET PhysRegs
  /\ historyBuffer \in SUBSET History
  /\ freeingInProgress \in [Threads -> SUBSET PhysRegs]
  /\ scoreboard \in [PhysRegs -> BOOLEAN]
  /\ regFile \in [PhysRegs -> SeqNums]
  /\ commitMap \in [Regs -> PhysRegs]
  /\ lastCommitted \in [Threads -> SeqNums]
  /\ squashing \in [Threads -> SeqNums \cup {None}]
  /\ doomed \in SUBSET SeqNums
  /\ squashMsg \in [Threads -> SeqNums \cup {None}]
  /\ insts \in SUBSET Insts
  /\ nextSeq \in 1 .. MaxSeq + 1
  /\ archWriter \in [Regs -> SeqNums]

(* CPU::CPU takes one register per thread and architectural register from   *)
(* the free list, enters it in both maps, and leaves the rest free.          *)
Init ==
  /\ renameMap = InitMap
  /\ commitMap = InitMap
  /\ freeList = PhysRegs \ {InitMap[r] : r \in Regs}
  /\ historyBuffer = {}
  /\ freeingInProgress = [t \in Threads |-> {}]
  /\ scoreboard = [p \in PhysRegs |-> TRUE]
  /\ regFile = [p \in PhysRegs |-> 0]
  /\ lastCommitted = [t \in Threads |-> 0]
  /\ squashing = [t \in Threads |-> None]
  /\ doomed = {}
  /\ squashMsg = [t \in Threads |-> None]
  /\ insts = {}
  /\ nextSeq = 1
  /\ archWriter = [r \in Regs |-> 0]

-----------------------------------------------------------------------------
(* Rename *)

(* UnifiedRenameMap::canRename: enough free registers for the destinations. *)
CanRename(D) == Cardinality(D) <= Cardinality(freeList)

(* Rename::renameSrcRegs: sources are looked up before any destination of   *)
(* the same instruction is renamed.                                          *)
RenameSrcRegs(t, S) == {<<a, renameMap[<<t, a>>]>> : a \in S}

(* The entries renameDestRegs pushes: a misc register keeps its own          *)
(* identifier as new and previous mapping.                                   *)
DestHistory(t, D, M, new) ==
  {[tid |-> t, seq |-> nextSeq, arch |-> a, new |-> new[a],
    prev |-> renameMap[<<t, a>>]] : a \in D}
  \cup
  {[tid |-> t, seq |-> nextSeq, arch |-> m, new |-> m, prev |-> m] : m \in M}

(* Mutant of UnsetRegs: the scoreboard still shows the old value as ready. *)
UnsetRegsMissing(N) == scoreboard
(* Scoreboard::unsetReg for every new destination. *)
UnsetRegs(N) == [p \in PhysRegs |-> IF p \in N THEN FALSE ELSE scoreboard[p]]

(* One instruction of shape op; new is the choice of registers from the      *)
(* free list.                                                                *)
RenameInst(t, op) ==
  LET D == op.dests IN
  /\ nextSeq <= MaxSeq
  /\ squashMsg[t] = None
  /\ CanRename(D)
  /\ \E new \in [D -> freeList] :
       /\ \A a, b \in D : new[a] = new[b] => a = b
       /\ renameMap' = [r \in Regs |-> IF r[1] = t /\ r[2] \in D
                                         THEN new[r[2]] ELSE renameMap[r]]
       /\ freeList' = freeList \ {new[a] : a \in D}
       /\ scoreboard' = UnsetRegs({new[a] : a \in D})
       /\ historyBuffer' = historyBuffer \cup DestHistory(t, D, op.misc, new)
       /\ insts' = insts \cup
            {[tid |-> t, seq |-> nextSeq, srcs |-> RenameSrcRegs(t, op.srcs),
              dests |-> {<<a, new[a]>> : a \in D}, st |-> "renamed"]}
  /\ nextSeq' = nextSeq + 1
  /\ UNCHANGED <<freeingInProgress, regFile, commitVars>>

(* Mutant of DoneSeqNum: one instruction too many. *)
DoneSeqNumOffByOne(t, s) == s <= lastCommitted[t] + 1
(* commitInfo[tid].doneSeqNum, at some earlier point, was s. *)
DoneSeqNum(t, s) == s <= lastCommitted[t]

(* Mutant of Released: the new mapping is freed instead of the superseded. *)
ReleasedNew(H) == {h.new : h \in {g \in H : g.new # g.prev}}
(* The registers removeFromHistory frees with the entries it drops. *)
Released(H) == {h.prev : h \in {g \in H : g.new # g.prev}}

(* Rename::removeFromHistory: entries up to the committed instruction are    *)
(* dropped and the registers they superseded are freed.                      *)
RemoveFromHistory(t, s) ==
  /\ squashMsg[t] = None
  /\ DoneSeqNum(t, s)
  /\ LET gone == {h \in historyBuffer : h.tid = t /\ h.seq <= s}
     IN  /\ gone # {}
         /\ historyBuffer' = historyBuffer \ gone
         /\ freeList' = freeList \cup Released(gone)
  /\ UNCHANGED <<renameMap, freeingInProgress, execVars, commitVars, insts,
                 nextSeq>>

(* The undone entries: the loop of doSquash restores the previous mapping of *)
(* each, newest first, so the oldest one of a register is what stays         *)
(* (OldestReversed is the mutant that walks the other way).                  *)
Undone(t, s) == {h \in historyBuffer : h.tid = t /\ h.seq > s /\ h.new # h.prev}
OldestReversed(h, H) == \A g \in H : g.arch = h.arch => h.seq >= g.seq
Oldest(h, H) == \A g \in H : g.arch = h.arch => h.seq <= g.seq

(* Rename::squash and doSquash, on commit's squash signal.                   *)
RenameSquash(t) ==
  /\ squashMsg[t] # None
  /\ LET U == Undone(t, squashMsg[t])
     IN  /\ renameMap' = [r \in Regs |->
              IF \E h \in U : r = <<h.tid, h.arch>>
                THEN (CHOOSE h \in U : r = <<h.tid, h.arch>> /\ Oldest(h, U)).prev
                ELSE renameMap[r]]
         /\ freeingInProgress' = [freeingInProgress EXCEPT
              ![t] = @ \cup {h.new : h \in U}]
  /\ historyBuffer' = {h \in historyBuffer :
                         ~(h.tid = t /\ h.seq > squashMsg[t])}
  /\ squashMsg' = [squashMsg EXCEPT ![t] = None]
  /\ UNCHANGED <<freeList, execVars, commitMap, lastCommitted, squashing,
                 doomed, archWriter, insts, nextSeq>>

(* Mutant of NotSquashing: the walk is not waited for. *)
NotSquashingEarly(t) == squashMsg[t] = None
(* No squash on its way and no walk in progress: what rename reads as the    *)
(* absence of both commitInfo[tid].squash and robSquashing.                  *)
NotSquashing(t) == squashMsg[t] = None /\ squashing[t] = None

(* checkSignalsAndUpdate: once commit no longer reports robSquashing, the    *)
(* registers of squashed instructions go back to the free list.              *)
FreeSquashed(t) ==
  /\ NotSquashing(t)
  /\ freeingInProgress[t] # {}
  /\ freeList' = freeList \cup freeingInProgress[t]
  /\ freeingInProgress' = [freeingInProgress EXCEPT ![t] = {}]
  /\ UNCHANGED <<renameMap, historyBuffer, execVars, commitVars, insts, nextSeq>>

-----------------------------------------------------------------------------
(* IEW *)

SetState(i, st) == (insts \ {i}) \cup {[i EXCEPT !.st = st]}

(* IEW::executeInsts: a ready instruction that is not (yet) marked squashed  *)
(* executes, and its results go straight to the physical registers.          *)
Execute(i) ==
  /\ i.st = "renamed"
  /\ \A x \in i.srcs : scoreboard[x[2]]
  /\ regFile' = [p \in PhysRegs |-> IF \E x \in i.dests : x[2] = p
                                      THEN i.seq ELSE regFile[p]]
  /\ insts' = SetState(i, "executed")
  /\ UNCHANGED <<renameVars, scoreboard, commitVars, nextSeq>>

(* IEW::writebackInsts: the destinations become ready on the scoreboard.     *)
Writeback(i) ==
  /\ i.st = "executed"
  /\ scoreboard' = [p \in PhysRegs |-> IF \E x \in i.dests : x[2] = p
                                         THEN TRUE ELSE scoreboard[p]]
  /\ insts' = SetState(i, "written")
  /\ UNCHANGED <<renameVars, regFile, commitVars, nextSeq>>

-----------------------------------------------------------------------------
(* Commit *)

(* Commit::commitHead for the oldest instruction of a thread that is not     *)
(* squashing: the commit map takes its destinations.                         *)
CommitHead(i) ==
  /\ i.st = "written"
  /\ squashing[i.tid] = None
  /\ \A j \in insts : j.tid = i.tid => i.seq <= j.seq
  /\ commitMap' = [r \in Regs |->
       IF r[1] = i.tid /\ \E x \in i.dests : x[1] = r[2]
         THEN (CHOOSE x \in i.dests : x[1] = r[2])[2] ELSE commitMap[r]]
  /\ archWriter' = [r \in Regs |->
       IF r[1] = i.tid /\ \E x \in i.dests : x[1] = r[2]
         THEN i.seq ELSE archWriter[r]]
  /\ lastCommitted' = [lastCommitted EXCEPT ![i.tid] = i.seq]
  /\ insts' = insts \ {i}
  /\ UNCHANGED <<renameVars, execVars, squashing, doomed, squashMsg, nextSeq>>

(* Commit::commit accepts a squash (branch, memory order, trap, ...) that    *)
(* keeps the instructions up to s, and tells rename.  During a walk only an  *)
(* older squash is accepted.                                                 *)
CommitSquash(t, s) ==
  /\ squashMsg[t] = None
  /\ lastCommitted[t] <= s /\ s < nextSeq
  /\ squashing[t] # None => s <= squashing[t]
  /\ squashing' = [squashing EXCEPT ![t] = s]
  /\ doomed' = doomed \cup {i.seq : i \in {j \in insts : j.tid = t /\ j.seq > s}}
  /\ squashMsg' = [squashMsg EXCEPT ![t] = s]
  /\ UNCHANGED <<renameVars, execVars, commitMap, lastCommitted, archWriter,
                 insts, nextSeq>>

(* ROB::doSquash (and CPU::squashInstIt for instructions not in the ROB)     *)
(* marks a part of the doomed instructions; a marked one has no effect.      *)
MarkSquashed(t) ==
  /\ squashing[t] # None
  /\ \E K \in SUBSET {i \in insts : i.tid = t /\ i.seq \in doomed} :
       /\ K # {}
       /\ insts' = insts \ K
       /\ doomed' = doomed \ {i.seq : i \in K}
  /\ UNCHANGED <<renameVars, execVars, commitMap, lastCommitted, squashing,
                 squashMsg, archWriter, nextSeq>>

(* Commit::tick finds the ROB done squashing and goes back to Running.       *)
SquashDone(t) ==
  /\ squashing[t] # None
  /\ ~ \E i \in insts : i.tid = t /\ i.seq \in doomed
  /\ squashing' = [squashing EXCEPT ![t] = None]
  /\ UNCHANGED <<renameVars, execVars, commitMap, lastCommitted, doomed,
                 squashMsg, archWriter, insts, nextSeq>>

Next ==
  \/ \E t \in Threads, op \in Shapes : RenameInst(t, op)
  \/ \E t \in Threads, s \in SeqNums : RemoveFromHistory(t, s)
  \/ \E t \in Threads : RenameSquash(t)
  \/ \E t \in Threads : FreeSquashed(t)
  \/ \E i \in insts : Execute(i)
  \/ \E i \in insts : Writeback(i)
  \/ \E i \in insts : CommitHead(i)
  \/ \E t \in Threads, s \in SeqNums : CommitSquash(t, s)
  \/ \E t \in Threads : MarkSquashed(t)
  \/ \E t \in Threads : SquashDone(t)

Spec == Init /\ [][Next]_vars

-----------------------------------------------------------------------------
(* Properties *)

(* Who holds a physical register.  An entry whose new and previous mapping   *)
(* are the same (a misc register) holds none.                                *)
Renames == {h \in historyBuffer : h.new # h.prev}
Mapped == {renameMap[r] : r \in Regs}
Superseded == {h.prev : h \in Renames}
Freeing == UNION {freeingInProgress[t] : t \in Threads}

(* No physical register is lost and none is held twice: every one is either  *)
(* free, the current mapping of one register, the superseded mapping of one  *)
(* history entry, or waiting in one thread's freeingInProgress.              *)
RegsConserved ==
  /\ PhysRegs = freeList \cup Mapped \cup Superseded \cup Freeing
  /\ freeList \cap (Mapped \cup Superseded \cup Freeing) = {}
  /\ Mapped \cap (Superseded \cup Freeing) = {}
  /\ Superseded \cap Freeing = {}
  /\ \A r, q \in Regs : renameMap[r] = renameMap[q] => r = q
  /\ \A g, h \in Renames : g.prev = h.prev => g = h
  /\ \A t, u \in Threads : t # u =>
       freeingInProgress[t] \cap freeingInProgress[u] = {}

(* The history entries of one register form a chain that ends in the rename  *)
(* map: each entry supersedes exactly what the entry before it mapped.  This *)
(* is what lets doSquash and removeFromHistory work from either end.         *)
SameReg(g, h) == g.tid = h.tid /\ g.arch = h.arch
HistoryChain ==
  \A g \in Renames :
    /\ (\A h \in Renames : SameReg(g, h) => h.seq <= g.seq) =>
         g.new = renameMap[<<g.tid, g.arch>>]
    /\ \A h \in Renames : SameReg(g, h) =>
         /\ g.seq = h.seq => g = h
         /\ g.seq < h.seq /\ (\A k \in Renames :
                 SameReg(g, k) => k.seq <= g.seq \/ h.seq <= k.seq) =>
              g.new = h.prev

RightPath(i) == i.seq \notin doomed

(* The last older instruction of i's thread that writes a, committed or not. *)
Writers(i, a) ==
  {j.seq : j \in {k \in insts : k.tid = i.tid /\ k.seq < i.seq /\ RightPath(k)
                                /\ \E x \in k.dests : x[1] = a}}
ProgramWriter(i, a) ==
  IF Writers(i, a) = {} THEN archWriter[<<i.tid, a>>]
  ELSE CHOOSE s \in Writers(i, a) : \A u \in Writers(i, a) : u <= s

(* Whenever an instruction on the right path may execute, each source        *)
(* register holds the value of the last older instruction that writes it,    *)
(* whatever was renamed, squashed, freed and reallocated in between.         *)
DataFlow ==
  \A i \in insts : i.st = "renamed" /\ RightPath(i) =>
    \A x \in i.srcs : scoreboard[x[2]] =>
      regFile[x[2]] = ProgramWriter(i, x[1])

(* The committed state is precise: what commit's map points at is ready and  *)
(* holds the value of the last committed writer.                             *)
PreciseState ==
  \A r \in Regs : scoreboard[commitMap[r]]
                  /\ regFile[commitMap[r]] = archWriter[r]

(* While an instruction can still write its destinations, wrong path or not, *)
(* none of them is free and no other instruction writes them.                *)
NoStrayWrite ==
  \A i \in insts : \A x \in i.dests :
    /\ x[2] \notin freeList
    /\ \A j \in insts : (\E y \in j.dests : y[2] = x[2]) => j = i
=============================================================================
