--------------------------- MODULE RegDataProofs ---------------------------
(***************************************************************************)
(* Machine-checked proofs that RegRename's instructions read the values the*)
(* program order gives them and that the committed state is precise, for   *)
(* any number of threads, registers and instructions.                      *)
(***************************************************************************)
EXTENDS RegWriteProofs

(* p is what the map of register r holds once the renames up to sequence     *)
(* number s are done and the later ones are not: with the entries R and the  *)
(* map m, and in the current state.                                          *)
MapIn(R, m, r, s, p) ==
  \/ /\ p = m[r]
     /\ \A h \in R : RegOf(h) = r => h.seq <= s
  \/ \E h \in R :
       /\ RegOf(h) = r /\ s < h.seq /\ h.prev = p
       /\ \A g \in R : RegOf(g) = r /\ s < g.seq => h.seq <= g.seq
MapAt(r, s, p) == MapIn(Renames, renameMap, r, s, p)

(* An entry that is not committed is of an instruction in flight, or rename   *)
(* is about to undo it; and it will undo those of the doomed.                 *)
HistoryOwned ==
  /\ \A h \in Renames : lastCommitted[h.tid] < h.seq =>
       \/ \E i \in insts : i.tid = h.tid /\ i.seq = h.seq
                           /\ <<h.arch, h.new>> \in i.dests
       \/ squashMsg[h.tid] # None /\ squashMsg[h.tid] < h.seq
  /\ \A i \in insts, h \in Renames :
       i.seq \in doomed /\ h.tid = i.tid /\ h.seq = i.seq =>
         squashMsg[i.tid] # None /\ squashMsg[i.tid] < i.seq

(* The commit map is the map at the last committed instruction, and a source  *)
(* was looked up in the map just before its instruction.                      *)
CommitAt == \A r \in Regs : MapAt(r, lastCommitted[r[1]], commitMap[r])
SourcesAt ==
  \A i \in insts : RightPath(i) =>
    \A x \in i.srcs : MapAt(<<i.tid, x[1]>>, i.seq - 1, x[2])

(* A destination is ready when it is written, and has its value before.       *)
DestValues ==
  \A i \in insts : \A x \in i.dests :
    /\ scoreboard[x[2]] => i.st = "written"
    /\ i.st = "written" => scoreboard[x[2]]
    /\ i.st # "renamed" => regFile[x[2]] = i.seq

DataInv == HistoryOwned /\ CommitAt /\ SourcesAt /\ DestValues /\ PreciseState

-----------------------------------------------------------------------------
(* The map at a sequence number *)

(* The map at any point holds registers that are neither free nor set aside. *)
LEMMA MapAtHeld ==
  ASSUME RegInv, NEW r \in Regs, NEW s, NEW p, MapAt(r, s, p)
  PROVE  p \notin freeList /\ \A t \in Threads : p \notin freeingInProgress[t]
<1>1. p \in Mapped \/ p \in Superseded
  BY DEF MapAt, MapIn, Mapped, Superseded
<1>2. \A t \in Threads : freeingInProgress[t] \subseteq Freeing
  BY DEF Freeing
<1> QED BY <1>1, <1>2 DEF RegInv, RegsConserved

(* Only entries up to s map the register the map holds at s. *)
LEMMA MapAtNew ==
  ASSUME RegInv, NEW r \in Regs, NEW s \in Int, NEW p, MapAt(r, s, p),
         NEW h \in Renames, h.new = p
  PROVE  RegOf(h) = r /\ h.seq <= s
<1>0. RegOf(h) \in Regs /\ h.seq \in Int
  BY RenamesType
<1>1. \/ h.new = renameMap[RegOf(h)]
      \/ \E g \in Renames : SameReg(h, g) /\ h.seq < g.seq /\ g.prev = h.new
  BY NextEntry DEF RegOf
<1>2. \A g \in Renames, q \in Regs : g.prev # renameMap[q]
  BY DEF RegInv, RegsConserved, Mapped, Superseded
<1>3. CASE /\ p = renameMap[r]
           /\ \A g \in Renames : RegOf(g) = r => g.seq <= s
  <2>1. h.new = renameMap[RegOf(h)]
    BY <1>1, <1>2, <1>3
  <2>2. RegOf(h) = r
    BY <2>1, <1>0, <1>3, Zenon DEF RegInv, RegsConserved
  <2> QED BY <2>2, <1>3
<1>4. ASSUME NEW o \in Renames, RegOf(o) = r, s < o.seq, o.prev = p,
             \A g \in Renames : RegOf(g) = r /\ s < g.seq => o.seq <= g.seq
      PROVE  RegOf(h) = r /\ h.seq <= s
  <2>1. PICK g \in Renames : SameReg(h, g) /\ h.seq < g.seq /\ g.prev = h.new
    BY <1>0, <1>1, <1>2, <1>4
  <2>2. g = o
    BY <2>1, <1>4 DEF RegInv, RegsConserved
  <2>3. RegOf(h) = r
    BY <2>1, <2>2, <1>4, SameRegOf
  <2>4. o.seq \in Int
    BY RenamesType
  <2>5. ~(s < h.seq)
    <3> SUFFICES ASSUME s < h.seq PROVE FALSE
      OBVIOUS
    <3>1. o.seq <= h.seq
      BY <2>3, <1>4
    <3> QED BY <3>1, <2>1, <2>2, <2>4, <1>0
  <2> QED BY <2>3, <2>5, <1>0
<1> QED BY <1>3, <1>4 DEF MapAt, MapIn

(* After an entry the map holds what the entry mapped. *)
LEMMA EntryMapAt ==
  ASSUME RegInv, NEW h \in Renames
  PROVE  MapAt(RegOf(h), h.seq, h.new)
<1> DEFINE H == {k \in Renames : RegOf(k) = RegOf(h) /\ h.seq < k.seq}
<1>0. \A k \in Renames : k \in historyBuffer /\ k.seq \in Int
  BY RenamesType
<1>1. CASE H = {}
  <2>1. ASSUME NEW k \in Renames, RegOf(k) = RegOf(h) PROVE k.seq <= h.seq
    <3>1. ~(h.seq < k.seq)
      BY <2>1, <1>1
    <3> QED BY <3>1, <1>0
  <2>2. h.new = renameMap[<<h.tid, h.arch>>]
    <3>1. \A k \in Renames : SameReg(h, k) => k.seq <= h.seq
      BY <2>1, SameRegOf
    <3> QED BY <3>1 DEF RegInv, HistoryChain
  <2> QED BY <2>1, <2>2 DEF MapAt, MapIn, RegOf
<1>2. ASSUME NEW x \in H PROVE MapAt(RegOf(h), h.seq, h.new)
  <2>1. PICK g \in H : \A k \in H : SameReg(x, k) => g.seq <= k.seq
    <3>1. H \in SUBSET historyBuffer
      BY <1>0
    <3> HIDE DEF H
    <3> QED BY <3>1, <1>2, OldestEntry DEF RegInv
  <2>2. \A k \in H : g.seq <= k.seq
    BY <2>1, <1>2, SameRegOf
  <2>3. ASSUME NEW k \in Renames, SameReg(h, k)
        PROVE  k.seq <= h.seq \/ g.seq <= k.seq
    <3>1. k \in H \/ ~(h.seq < k.seq)
      BY <2>3, SameRegOf
    <3> QED BY <3>1, <2>2, <1>0
  <2>4. SameReg(h, g)
    BY SameRegOf
  <2>5. h.new = g.prev
    BY <2>3, <2>4, Zenon DEF RegInv, HistoryChain
  <2> QED BY <2>2, <2>5 DEF MapAt, MapIn
<1> QED BY <1>1, <1>2

(* The map at a point is unique. *)
LEMMA MapAtUnique ==
  ASSUME RegInv, NEW r, NEW s \in Int, NEW p, NEW q, MapAt(r, s, p), MapAt(r, s, q)
  PROVE  p = q
<1>0. \A k \in Renames : k.seq \in Int
  BY RenamesType
<1>1. ASSUME NEW g \in Renames, NEW h \in Renames, RegOf(g) = r, RegOf(h) = r,
             s < g.seq, s < h.seq,
             \A k \in Renames : RegOf(k) = r /\ s < k.seq => g.seq <= k.seq,
             \A k \in Renames : RegOf(k) = r /\ s < k.seq => h.seq <= k.seq
      PROVE  g.prev = h.prev
  <2>1. g.seq <= h.seq /\ h.seq <= g.seq
    BY <1>1
  <2>2. g.seq = h.seq
    BY <2>1, <1>0
  <2>3. SameReg(g, h)
    BY <1>1, SameRegOf
  <2>4. g = h
    BY <2>2, <2>3, Zenon DEF RegInv, HistoryChain
  <2> QED BY <2>4
<1>2. ASSUME NEW h \in Renames, h.seq <= s, s < h.seq PROVE FALSE
  BY <1>0, <1>2
<1> QED BY <1>1, <1>2 DEF MapAt, MapIn

(* The map is the same at two points with no rename of r between them. *)
LEMMA MapAtShift ==
  ASSUME RegInv, NEW r, NEW s \in Int, NEW u \in Int, s <= u, NEW p,
         MapAt(r, s, p),
         \A h \in Renames : RegOf(h) = r /\ s < h.seq => u < h.seq
  PROVE  MapAt(r, u, p)
<1>0. \A k \in Renames : k.seq \in Int
  BY RenamesType
<1>1. \A k \in Renames : /\ k.seq <= s => k.seq <= u
                         /\ u < k.seq => s < k.seq
  BY <1>0
<1> QED BY <1>1 DEF MapAt, MapIn

-----------------------------------------------------------------------------
(* How the steps move the map at a point *)

LEMMA RenamingMapAt ==
  ASSUME RegInv, NEW t, NEW D, NEW new, NEW E, NEW n, Renaming(t, D, new, E, n),
         NEW r \in Regs, NEW s \in Int, s < nextSeq, NEW p, MapAt(r, s, p)
  PROVE  MapIn(Renames', renameMap', r, s, p)
<1>1. /\ Renames' = Renames \cup E
      /\ \A h \in E : /\ h.tid = t /\ h.seq = nextSeq /\ h.arch \in D
                      /\ h.prev = renameMap[<<t, h.arch>>]
      /\ \A a \in D : \E h \in E : h.arch = a
  BY Zenon DEF Renaming
<1>2. renameMap'[r] = IF r[1] = t /\ r[2] \in D THEN new[r[2]] ELSE renameMap[r]
  BY Zenon DEF Renaming
<1>3. nextSeq \in Int /\ \A h \in Renames : h.seq \in Int /\ h.seq < nextSeq
  BY SeqType, RenamesType DEF RegInv
<1>4. r = <<r[1], r[2]>>
  BY DEF Regs
<1>7. \A h \in E : h.seq = nextSeq
  BY <1>1, Zenon
<1>8. \A h \in E : RegOf(h)[1] = t /\ RegOf(h)[2] \in D
  <2> SUFFICES ASSUME NEW h \in E PROVE RegOf(h)[1] = t /\ RegOf(h)[2] \in D
    OBVIOUS
  <2>1. h.tid = t /\ h.arch \in D
    BY <1>1, Zenon
  <2> QED BY <2>1 DEF RegOf
<1>5. CASE r[1] = t /\ r[2] \in D
  <2>1. PICK e \in E : RegOf(e) = r /\ e.seq = nextSeq /\ e.prev = renameMap[r]
    BY <1>1, <1>4, <1>5 DEF RegOf
  <2>2. CASE /\ p = renameMap[r]
             /\ \A h \in Renames : RegOf(h) = r => h.seq <= s
    <3>1. ASSUME NEW g \in Renames', RegOf(g) = r, s < g.seq PROVE e.seq <= g.seq
      <4>1. g \in E
        BY <3>1, <2>2, <1>1, <1>3
      <4> QED BY <4>1, <2>1, <1>7, <1>3
    <3> QED BY <3>1, <2>1, <2>2, <1>1 DEF MapIn
  <2>3. ASSUME NEW o \in Renames, RegOf(o) = r, s < o.seq, o.prev = p,
               \A g \in Renames : RegOf(g) = r /\ s < g.seq => o.seq <= g.seq
        PROVE  MapIn(Renames', renameMap', r, s, p)
    <3>1. \A g \in E : o.seq <= g.seq
      BY <1>3, <1>7
    <3> QED BY <3>1, <2>3, <1>1 DEF MapIn
  <2> QED BY <2>2, <2>3 DEF MapAt, MapIn
<1>6. CASE ~(r[1] = t /\ r[2] \in D)
  <2>1. \A h \in E : RegOf(h) # r
    BY <1>6, <1>8
  <2> QED BY <2>1, <1>1, <1>2, <1>6 DEF MapAt, MapIn
<1> QED BY <1>5, <1>6

LEMMA RemoveMapAt ==
  ASSUME RegInv, NEW t, NEW u \in SeqNums, RemoveFromHistory(t, u),
         NEW r \in Regs, NEW s \in Int, r[1] = t => u <= s, NEW p, MapAt(r, s, p)
  PROVE  MapIn(Renames', renameMap', r, s, p)
<1>1. renameMap' = renameMap
  BY DEF RemoveFromHistory
<1>2. Renames' \in SUBSET Renames
  BY RemoveStep
<1>3. ASSUME NEW h \in Renames, RegOf(h) = r, s < h.seq PROVE h \in Renames'
  <2>1. h.seq \in Int /\ u \in Int
    BY RenamesType DEF SeqNums
  <2>2. ~(h.tid = t /\ h.seq <= u)
    BY <2>1, <1>3 DEF RegOf
  <2> QED BY <2>2, RemoveStep
<1> QED BY <1>1, <1>2, <1>3 DEF MapAt, MapIn

(* doSquash restores what the oldest undone entry of a register superseded. *)
LEMMA SquashRestores ==
  ASSUME RegInv, NEW t, RenameSquash(t), NEW r \in Regs
  PROVE  LET U == Undone(t, squashMsg[t]) IN
         \/ (\A h \in U : RegOf(h) # r) /\ renameMap'[r] = renameMap[r]
         \/ \E o \in U : /\ RegOf(o) = r /\ renameMap'[r] = o.prev
                         /\ \A g \in U : RegOf(g) = r => o.seq <= g.seq
<1> DEFINE U == Undone(t, squashMsg[t])
           o == CHOOSE x \in U : r = <<x.tid, x.arch>> /\ Oldest(x, U)
<1>1. renameMap'[r] = IF \E h \in U : r = <<h.tid, h.arch>> THEN o.prev
                      ELSE renameMap[r]
  BY Zenon DEF RenameSquash
<1>2. \A g \in U : g.tid = t /\ g \in historyBuffer
  BY DEF Undone
<1>3. ASSUME NEW h \in U, RegOf(h) = r
      PROVE  o \in U /\ RegOf(o) = r /\ \A g \in U : RegOf(g) = r => o.seq <= g.seq
  <2>1. PICK x \in U : /\ SameReg(h, x)
                       /\ \A g \in U : SameReg(h, g) => x.seq <= g.seq
    <3>1. U \in SUBSET historyBuffer
      BY <1>2
    <3> HIDE DEF U
    <3> QED BY <3>1, <1>3, OldestEntry DEF RegInv
  <2>2. r = <<x.tid, x.arch>> /\ Oldest(x, U)
    BY <2>1, <1>2, <1>3 DEF SameReg, RegOf, Oldest
  <2>3. o \in U /\ r = <<o.tid, o.arch>> /\ Oldest(o, U)
    BY <2>2
  <2> HIDE DEF o
  <2> QED BY <2>3 DEF RegOf, Oldest
<1> HIDE DEF o, U
<1>4. CASE \A h \in U : RegOf(h) # r
  BY <1>1, <1>4 DEF RegOf, U
<1>5. ASSUME NEW h \in U, RegOf(h) = r
      PROVE  \E x \in U : /\ RegOf(x) = r /\ renameMap'[r] = x.prev
                          /\ \A g \in U : RegOf(g) = r => x.seq <= g.seq
  <2>1. renameMap'[r] = o.prev
    BY <1>1, <1>5 DEF RegOf
  <2> QED BY <2>1, <1>3, <1>5
<1> QED BY <1>4, <1>5 DEF U

LEMMA SquashMapAt ==
  ASSUME RegInv, NEW t \in Threads, RenameSquash(t), NEW r \in Regs, NEW s \in Int,
         r[1] = t => s <= squashMsg[t], NEW p, MapAt(r, s, p)
  PROVE  MapIn(Renames', renameMap', r, s, p)
<1> DEFINE U == Undone(t, squashMsg[t])
           m == squashMsg[t]
<1>1. /\ U = {h \in Renames : h.tid = t /\ h.seq > m}
      /\ Renames' = Renames \ U
  BY SquashStep
<1>2. \/ (\A h \in U : RegOf(h) # r) /\ renameMap'[r] = renameMap[r]
      \/ \E o \in U : /\ RegOf(o) = r /\ renameMap'[r] = o.prev
                      /\ \A g \in U : RegOf(g) = r => o.seq <= g.seq
  BY SquashRestores
<1>3. m \in Int /\ \A h \in Renames : h.seq \in Int
  BY SeqType, RenamesType DEF RegInv
<1> HIDE DEF U, m
<1>4. CASE (\A h \in U : RegOf(h) # r) /\ renameMap'[r] = renameMap[r]
  BY <1>1, <1>4 DEF MapAt, MapIn
<1>5. ASSUME NEW o \in U, RegOf(o) = r, renameMap'[r] = o.prev,
             \A g \in U : RegOf(g) = r => o.seq <= g.seq
      PROVE  MapIn(Renames', renameMap', r, s, p)
  <2>1. r[1] = t /\ s <= m
    BY <1>1, <1>5 DEF RegOf, m
  <2>2. s < o.seq /\ o \in Renames
    BY <2>1, <1>1, <1>3
  <2>3. PICK f \in Renames :
          /\ RegOf(f) = r /\ s < f.seq /\ f.prev = p
          /\ \A g \in Renames : RegOf(g) = r /\ s < g.seq => f.seq <= g.seq
    <3>1. ~(o.seq <= s)
      BY <2>2, <1>3
    <3> QED BY <3>1, <2>2, <1>5 DEF MapAt, MapIn
  <2>4. CASE f \in U
    <3>1. o.seq = f.seq
      <4>1. o.seq <= f.seq /\ f.seq <= o.seq
        BY <2>2, <2>3, <2>4, <1>5
      <4> QED BY <4>1, <2>2, <1>3
    <3>2. o = f
      BY <3>1, <2>2, <2>3, <1>5, SameEntry
    <3>3. ASSUME NEW h \in Renames', RegOf(h) = r PROVE h.seq <= s
      <4>1. h \in Renames /\ h \notin U /\ h.tid = t
        BY <3>3, <2>1, <1>1 DEF RegOf
      <4>2. ~(h.seq > m)
        BY <4>1, <1>1
      <4>3. f.seq > m
        BY <2>4, <1>1
      <4>4. ~(f.seq <= h.seq)
        BY <4>1, <4>2, <4>3, <1>3
      <4>5. ~(s < h.seq)
        BY <4>1, <4>4, <3>3, <2>3
      <4> QED BY <4>1, <4>5, <1>3
    <3> QED BY <3>2, <3>3, <2>3, <1>5 DEF MapIn
  <2>5. CASE f \notin U
    BY <2>3, <2>5, <1>1 DEF MapIn
  <2> QED BY <2>4, <2>5
<1> QED BY <1>2, <1>4, <1>5

-----------------------------------------------------------------------------
(* What the registers hold *)

(* No instruction in flight writes a register of the commit map. *)
LEMMA CommitNotDest ==
  ASSUME RegInv, WriteInv, CommitAt, NEW r \in Regs,
         NEW i \in insts, NEW x \in i.dests
  PROVE  commitMap[r] # x[2]
<1> SUFFICES ASSUME commitMap[r] = x[2] PROVE FALSE
  OBVIOUS
<1>0. TypeOK /\ r[1] \in Threads
  BY DEF RegInv, Regs
<1>1. lastCommitted[r[1]] \in Int /\ MapAt(r, lastCommitted[r[1]], x[2])
  BY <1>0, SeqType DEF CommitAt
<1>2. i.tid \in Threads /\ i.seq \in Int /\ lastCommitted[i.tid] < i.seq
  BY <1>0, InstsType DEF WriteInv, InstOrder
<1>3. x[2] \notin freeingInProgress[i.tid]
  BY <1>1, <1>2, MapAtHeld
<1>4. PICK h \in Renames : h.tid = i.tid /\ h.seq = i.seq /\ h.new = x[2]
  BY <1>3 DEF WriteInv, DestsHeld
<1>5. RegOf(h) = r /\ h.seq <= lastCommitted[r[1]]
  BY <1>1, <1>4, MapAtNew
<1> QED BY <1>1, <1>2, <1>4, <1>5 DEF RegOf

LEMMA InitDataInv == Init => DataInv
<1> SUFFICES ASSUME Init PROVE DataInv
  OBVIOUS
<1>1. insts = {} /\ Renames = {}
  BY DEF Init, Renames
<1>2. HistoryOwned /\ SourcesAt /\ DestValues
  BY <1>1 DEF HistoryOwned, SourcesAt, DestValues
<1>3. CommitAt
  BY <1>1 DEF Init, CommitAt, MapAt, MapIn
<1>4. PreciseState
  BY InitMapAssumption DEF Init, PreciseState
<1> QED BY <1>2, <1>3, <1>4 DEF DataInv

LEMMA RenameInstDataInv ==
  ASSUME RegInv, WriteInv, DataInv,
         NEW t \in Threads, NEW op \in Shapes, RenameInst(t, op)
  PROVE  DataInv'
<1>1. PICK D, new, E, n : Renaming(t, D, new, E, n)
  BY RenameInstStep
<1>2. /\ insts' = insts \cup {n} /\ n.tid = t /\ n.seq = nextSeq /\ n.st = "renamed"
      /\ \A x \in n.dests : x[1] \in D /\ x[2] = new[x[1]]
      /\ \A a \in D : <<a, new[a]>> \in n.dests
      /\ \A x \in n.srcs : x[1] \in ArchRegs /\ x[2] = renameMap[<<t, x[1]>>]
      /\ Renames' = Renames \cup E
  BY <1>1, Zenon DEF Renaming
<1>3. /\ \A h \in E : /\ h.tid = t /\ h.seq = nextSeq /\ h.arch \in D
                      /\ h.new = new[h.arch]
      /\ \A a \in D : new[a] \in freeList
  BY <1>1, Zenon DEF Renaming
<1>4. \A p \in PhysRegs : scoreboard'[p] = IF \E a \in D : new[a] = p
                                             THEN FALSE ELSE scoreboard[p]
  BY <1>1, Zenon DEF Renaming
<1>5. /\ regFile' = regFile /\ commitMap' = commitMap
      /\ lastCommitted' = lastCommitted /\ doomed' = doomed
      /\ squashMsg' = squashMsg /\ archWriter' = archWriter
  BY DEF RenameInst, commitVars
<1>6. /\ HistoryOwned /\ CommitAt /\ SourcesAt /\ DestValues /\ PreciseState
      /\ InstOrder /\ DestsHeld /\ TypeOK
  BY DEF WriteInv, RegInv, DataInv
<1>7. nextSeq \in Int /\ \A u \in Threads : lastCommitted[u] \in Int
  BY <1>6, SeqType
<1>8. \A i \in insts : i.seq \in Int /\ i.seq < nextSeq /\ i.tid \in Threads
  BY <1>6, InstsType DEF InstOrder
<1>9. nextSeq \notin doomed
  BY <1>6, <1>7 DEF InstOrder
<1>10. \A r \in Regs : r[1] \in Threads
  BY DEF Regs
<1>11. HistoryOwned'
  <2>1. ASSUME NEW h \in E
        PROVE  \E i \in insts' : i.tid = h.tid /\ i.seq = h.seq
                                 /\ <<h.arch, h.new>> \in i.dests
    <3>1. n \in insts' /\ n.tid = h.tid /\ n.seq = h.seq /\ <<h.arch, h.new>> \in n.dests
      BY <1>2, <1>3
    <3> QED BY <3>1
  <2>2. ASSUME NEW h \in Renames, lastCommitted[h.tid] < h.seq
        PROVE  \/ \E i \in insts' : i.tid = h.tid /\ i.seq = h.seq
                                    /\ <<h.arch, h.new>> \in i.dests
               \/ squashMsg[h.tid] # None /\ squashMsg[h.tid] < h.seq
    BY <2>2, <1>2, <1>6, Zenon DEF HistoryOwned
  <2>3. ASSUME NEW i \in insts', NEW h \in Renames', i.seq \in doomed,
               h.tid = i.tid, h.seq = i.seq
        PROVE  squashMsg[i.tid] # None /\ squashMsg[i.tid] < i.seq
    <3>1. i \in insts
      BY <2>3, <1>2, <1>9
    <3>2. h \notin E
      BY <3>1, <2>3, <1>3, <1>7, <1>8
    <3> QED BY <3>1, <3>2, <2>3, <1>2, <1>6 DEF HistoryOwned
  <2> QED BY <2>1, <2>2, <2>3, <1>2, <1>5, Zenon DEF HistoryOwned
<1>12. CommitAt'
  <2>1. ASSUME NEW r \in Regs
        PROVE  MapIn(Renames', renameMap', r, lastCommitted[r[1]], commitMap[r])
    <3>1. lastCommitted[r[1]] < nextSeq
      BY <1>6, <1>10 DEF InstOrder
    <3> QED BY <3>1, <1>1, <1>6, <1>7, <1>10, RenamingMapAt DEF CommitAt
  <2> QED BY <2>1, <1>5 DEF CommitAt, MapAt
<1>13. SourcesAt'
  <2>1. ASSUME NEW i \in insts, i.seq \notin doomed, NEW x \in i.srcs
        PROVE  MapIn(Renames', renameMap', <<i.tid, x[1]>>, i.seq - 1, x[2])
    <3>1. MapAt(<<i.tid, x[1]>>, i.seq - 1, x[2])
      BY <2>1, <1>6 DEF SourcesAt, RightPath
    <3>2. <<i.tid, x[1]>> \in Regs
      BY <1>6, InstsType DEF Regs
    <3>3. i.seq - 1 \in Int /\ i.seq - 1 < nextSeq
      BY <1>7, <1>8
    <3> QED BY <3>1, <3>2, <3>3, <1>1, RenamingMapAt, Zenon
  <2>2. ASSUME NEW x \in n.srcs
        PROVE  MapIn(Renames', renameMap', <<t, x[1]>>, nextSeq - 1, x[2])
    <3>1. <<t, x[1]>> \in Regs /\ x[2] = renameMap[<<t, x[1]>>]
      BY <1>2 DEF Regs
    <3>2. nextSeq - 1 \in Int /\ nextSeq - 1 < nextSeq
      BY <1>7
    <3>3. \A h \in Renames : h.seq <= nextSeq - 1
      BY <1>7, RenamesType
    <3>4. MapAt(<<t, x[1]>>, nextSeq - 1, x[2])
      BY <3>1, <3>3 DEF MapAt, MapIn
    <3> QED BY <3>1, <3>2, <3>4, <1>1, RenamingMapAt
  <2> QED BY <2>1, <2>2, <1>2, <1>5, Zenon DEF SourcesAt, RightPath, MapAt
<1>14. ASSUME NEW p \in PhysRegs, p \notin freeList
       PROVE  scoreboard'[p] = scoreboard[p]
  <2>1. ~ \E a \in D : new[a] = p
    BY <1>3, <1>14, Zenon
  <2>2. scoreboard'[p] = IF \E a \in D : new[a] = p THEN FALSE ELSE scoreboard[p]
    BY <1>4, Zenon
  <2> QED BY <2>1, <2>2, Zenon
<1>15. DestValues'
  <2>1. ASSUME NEW i \in insts, NEW x \in i.dests
        PROVE  scoreboard'[x[2]] = scoreboard[x[2]]
    <3>1. x[2] \in PhysRegs /\ x[2] \notin freeList
      BY <1>6, InstsType, DestNotFree
    <3> QED BY <3>1, <1>14
  <2>2. ASSUME NEW x \in n.dests PROVE ~scoreboard'[x[2]]
    <3>1. x[2] = new[x[1]] /\ x[1] \in D /\ x[2] \in PhysRegs
      BY <1>2, <1>3, <1>6 DEF TypeOK
    <3> QED BY <3>1, <1>4, Zenon
  <2> QED BY <2>1, <2>2, <1>2, <1>5, <1>6 DEF DestValues
<1>16. PreciseState'
  <2>1. ASSUME NEW r \in Regs PROVE scoreboard'[commitMap[r]] = scoreboard[commitMap[r]]
    <3>1. commitMap[r] \in PhysRegs /\ commitMap[r] \notin freeList
      BY <1>6, MapAtHeld DEF CommitAt, TypeOK
    <3> QED BY <3>1, <1>14
  <2> QED BY <2>1, <1>5, <1>6, Zenon DEF PreciseState
<1> QED BY <1>11, <1>12, <1>13, <1>15, <1>16 DEF DataInv

LEMMA RemoveFromHistoryDataInv ==
  ASSUME RegInv, WriteInv, DataInv, NEW t \in Threads, NEW s \in SeqNums,
         RemoveFromHistory(t, s)
  PROVE  DataInv'
<1>1. /\ insts' = insts /\ scoreboard' = scoreboard /\ regFile' = regFile
      /\ commitMap' = commitMap /\ lastCommitted' = lastCommitted
      /\ doomed' = doomed /\ squashMsg' = squashMsg /\ archWriter' = archWriter
      /\ s <= lastCommitted[t]
  BY DEF RemoveFromHistory, DoneSeqNum, execVars, commitVars
<1>2. /\ HistoryOwned /\ CommitAt /\ SourcesAt /\ DestValues /\ PreciseState
      /\ InstOrder /\ TypeOK
  BY DEF WriteInv, RegInv, DataInv
<1>3. s \in Int /\ \A u \in Threads : lastCommitted[u] \in Int
  BY <1>2, SeqType DEF SeqNums
<1>4. \A r \in Regs : r[1] \in Threads
  BY DEF Regs
<1>5. HistoryOwned'
  <2>1. Renames' \in SUBSET Renames
    BY RemoveStep
  <2> QED BY <2>1, <1>1, <1>2 DEF HistoryOwned
<1>6. CommitAt'
  <2>1. ASSUME NEW r \in Regs
        PROVE  MapIn(Renames', renameMap', r, lastCommitted[r[1]], commitMap[r])
    <3>1. r[1] = t => s <= lastCommitted[r[1]]
      BY <1>1, Zenon
    <3> QED BY <3>1, <1>2, <1>3, <1>4, RemoveMapAt, Zenon DEF CommitAt
  <2> QED BY <2>1, <1>1 DEF CommitAt, MapAt
<1>7. SourcesAt'
  <2>1. ASSUME NEW i \in insts, i.seq \notin doomed, NEW x \in i.srcs
        PROVE  MapIn(Renames', renameMap', <<i.tid, x[1]>>, i.seq - 1, x[2])
    <3>1. MapAt(<<i.tid, x[1]>>, i.seq - 1, x[2])
      BY <2>1, <1>2 DEF SourcesAt, RightPath
    <3>2. <<i.tid, x[1]>> \in Regs /\ i.seq \in Int /\ i.tid \in Threads
      BY <1>2, InstsType DEF Regs
    <3>3. i.tid = t => s <= i.seq - 1
      BY <3>2, <1>1, <1>2, <1>3 DEF InstOrder
    <3>4. <<i.tid, x[1]>>[1] = i.tid /\ i.seq - 1 \in Int
      BY <3>2
    <3> QED BY <3>1, <3>2, <3>3, <3>4, RemoveMapAt
  <2> QED BY <2>1, <1>1, Zenon DEF SourcesAt, RightPath, MapAt
<1>8. DestValues' /\ PreciseState'
  BY <1>1, <1>2 DEF DestValues, PreciseState
<1> QED BY <1>5, <1>6, <1>7, <1>8 DEF DataInv

LEMMA RenameSquashDataInv ==
  ASSUME RegInv, WriteInv, DataInv, NEW t \in Threads, RenameSquash(t)
  PROVE  DataInv'
<1>1. /\ insts' = insts /\ scoreboard' = scoreboard /\ regFile' = regFile
      /\ commitMap' = commitMap /\ lastCommitted' = lastCommitted
      /\ doomed' = doomed /\ archWriter' = archWriter
      /\ squashMsg[t] # None /\ squashMsg' = [squashMsg EXCEPT ![t] = None]
  BY DEF RenameSquash, execVars
<1>2. /\ HistoryOwned /\ CommitAt /\ SourcesAt /\ DestValues /\ PreciseState
      /\ InstOrder /\ WalkOrder /\ TypeOK
  BY DEF WriteInv, RegInv, DataInv
<1>3. \A u \in Threads : lastCommitted[u] \in Int /\ squashMsg[u] \in Int
  BY <1>2, SeqType
<1>4. \A r \in Regs : r[1] \in Threads
  BY DEF Regs
<1>5. Renames' = {h \in Renames : ~(h.tid = t /\ h.seq > squashMsg[t])}
  BY SquashStep
<1>6. \A u \in Threads : u # t => squashMsg'[u] = squashMsg[u]
  BY <1>1, <1>2 DEF TypeOK
<1>7. \A h \in Renames : h.tid \in Threads /\ h.seq \in Int
  BY RenamesType
<1>8. \A i \in insts : i.tid \in Threads /\ i.seq \in Int
  BY <1>2, InstsType
<1>9. HistoryOwned'
  <2>1. ASSUME NEW h \in Renames', lastCommitted[h.tid] < h.seq
        PROVE  \/ \E i \in insts : i.tid = h.tid /\ i.seq = h.seq
                                   /\ <<h.arch, h.new>> \in i.dests
               \/ squashMsg'[h.tid] # None /\ squashMsg'[h.tid] < h.seq
    <3>1. h \in Renames /\ (h.tid = t => ~(squashMsg[t] < h.seq))
      BY <1>3, <1>5, <1>7
    <3>2. \/ \E i \in insts : i.tid = h.tid /\ i.seq = h.seq
                              /\ <<h.arch, h.new>> \in i.dests
          \/ squashMsg[h.tid] # None /\ squashMsg[h.tid] < h.seq
      BY <3>1, <2>1, <1>2 DEF HistoryOwned
    <3> QED BY <3>1, <3>2, <1>6, <1>7
  <2>2. ASSUME NEW i \in insts, NEW h \in Renames', i.seq \in doomed,
               h.tid = i.tid, h.seq = i.seq
        PROVE  squashMsg'[i.tid] # None /\ squashMsg'[i.tid] < i.seq
    <3>1. h \in Renames /\ (h.tid = t => ~(squashMsg[t] < h.seq))
      BY <1>3, <1>5, <1>7
    <3>2. squashMsg[i.tid] # None /\ squashMsg[i.tid] < i.seq
      BY <3>1, <2>2, <1>2 DEF HistoryOwned
    <3> QED BY <3>1, <3>2, <2>2, <1>6, <1>8
  <2> QED BY <2>1, <2>2, <1>1, Zenon DEF HistoryOwned
<1>10. CommitAt'
  <2>1. ASSUME NEW r \in Regs
        PROVE  MapIn(Renames', renameMap', r, lastCommitted[r[1]], commitMap[r])
    <3>1. r[1] = t => lastCommitted[r[1]] <= squashMsg[t]
      BY <1>1, <1>2 DEF WalkOrder
    <3> QED BY <3>1, <1>2, <1>3, <1>4, SquashMapAt DEF CommitAt
  <2> QED BY <2>1, <1>1 DEF CommitAt, MapAt
<1>11. SourcesAt'
  <2>1. ASSUME NEW i \in insts, i.seq \notin doomed, NEW x \in i.srcs
        PROVE  MapIn(Renames', renameMap', <<i.tid, x[1]>>, i.seq - 1, x[2])
    <3>1. MapAt(<<i.tid, x[1]>>, i.seq - 1, x[2])
      BY <2>1, <1>2 DEF SourcesAt, RightPath
    <3>2. <<i.tid, x[1]>> \in Regs
      BY <1>2, InstsType DEF Regs
    <3>3. i.tid = t => ~(squashMsg[t] < i.seq)
      BY <2>1, <1>1, <1>2 DEF WalkOrder
    <3>4. i.tid = t => i.seq - 1 <= squashMsg[t]
      BY <3>3, <1>3, <1>8
    <3>5. <<i.tid, x[1]>>[1] = i.tid /\ i.seq - 1 \in Int
      BY <1>8
    <3> QED BY <3>1, <3>2, <3>4, <3>5, SquashMapAt
  <2> QED BY <2>1, <1>1 DEF SourcesAt, RightPath, MapAt
<1>12. DestValues' /\ PreciseState'
  BY <1>1, <1>2 DEF DestValues, PreciseState
<1> QED BY <1>9, <1>10, <1>11, <1>12 DEF DataInv

(* The map at every point depends on the entries and the map alone. *)
LEMMA MapFrame ==
  ASSUME UNCHANGED <<renameMap, historyBuffer>>
  PROVE  Renames' = Renames /\ renameMap' = renameMap
BY DEF Renames

LEMMA FreeSquashedDataInv ==
  ASSUME DataInv, NEW t \in Threads, FreeSquashed(t)
  PROVE  DataInv'
<1>1. /\ insts' = insts /\ scoreboard' = scoreboard /\ regFile' = regFile
      /\ commitMap' = commitMap /\ lastCommitted' = lastCommitted
      /\ doomed' = doomed /\ squashMsg' = squashMsg /\ archWriter' = archWriter
      /\ Renames' = Renames /\ renameMap' = renameMap
  BY MapFrame DEF FreeSquashed, execVars, commitVars
<1>2. HistoryOwned' /\ DestValues' /\ PreciseState'
  BY <1>1 DEF DataInv, HistoryOwned, DestValues, PreciseState
<1>3. CommitAt' /\ SourcesAt'
  BY <1>1 DEF DataInv, CommitAt, SourcesAt, RightPath, MapAt
<1> QED BY <1>2, <1>3 DEF DataInv

LEMMA SetStateDataInv ==
  ASSUME RegInv, DataInv, NEW i \in insts, NEW st, insts' = SetState(i, st),
         UNCHANGED <<renameVars, commitVars>>
  PROVE  HistoryOwned' /\ CommitAt' /\ SourcesAt'
<1>1. /\ commitMap' = commitMap /\ lastCommitted' = lastCommitted
      /\ doomed' = doomed /\ squashMsg' = squashMsg
      /\ Renames' = Renames /\ renameMap' = renameMap
  BY MapFrame DEF renameVars, commitVars
<1>2. HistoryOwned /\ CommitAt /\ SourcesAt /\ TypeOK
  BY DEF DataInv, RegInv
<1>3. \A j \in insts' : \E k \in insts :
        j.tid = k.tid /\ j.seq = k.seq /\ j.srcs = k.srcs /\ j.dests = k.dests
  BY <1>2, SetStateStep
<1>4. \A k \in insts : \E j \in insts' :
        j.tid = k.tid /\ j.seq = k.seq /\ j.srcs = k.srcs /\ j.dests = k.dests
  BY <1>2, SetStateKeeps
<1>5. HistoryOwned'
  <2>1. ASSUME NEW h \in Renames, lastCommitted[h.tid] < h.seq
        PROVE  \/ \E j \in insts' : j.tid = h.tid /\ j.seq = h.seq
                                    /\ <<h.arch, h.new>> \in j.dests
               \/ squashMsg[h.tid] # None /\ squashMsg[h.tid] < h.seq
    <3>1. ASSUME NEW k \in insts, k.tid = h.tid, k.seq = h.seq,
                 <<h.arch, h.new>> \in k.dests
          PROVE  \E j \in insts' : j.tid = h.tid /\ j.seq = h.seq
                                   /\ <<h.arch, h.new>> \in j.dests
      <4>1. PICK j \in insts' : j.tid = k.tid /\ j.seq = k.seq /\ j.dests = k.dests
        BY <1>4
      <4> QED BY <4>1, <3>1
    <3> QED BY <3>1, <2>1, <1>2 DEF HistoryOwned
  <2>2. ASSUME NEW j \in insts', NEW h \in Renames, j.seq \in doomed,
               h.tid = j.tid, h.seq = j.seq
        PROVE  squashMsg[j.tid] # None /\ squashMsg[j.tid] < j.seq
    <3>1. PICK k \in insts : j.tid = k.tid /\ j.seq = k.seq
      BY <1>3
    <3> QED BY <3>1, <2>2, <1>2 DEF HistoryOwned
  <2> QED BY <2>1, <2>2, <1>1 DEF HistoryOwned
<1>6. CommitAt'
  BY <1>1, <1>2 DEF CommitAt, MapAt
<1>7. SourcesAt'
  <2>1. ASSUME NEW j \in insts', j.seq \notin doomed, NEW x \in j.srcs
        PROVE  MapIn(Renames, renameMap, <<j.tid, x[1]>>, j.seq - 1, x[2])
    <3>1. PICK k \in insts : j.tid = k.tid /\ j.seq = k.seq /\ j.srcs = k.srcs
      BY <1>3
    <3>2. k.seq \notin doomed /\ x \in k.srcs
      BY <3>1, <2>1
    <3>3. MapIn(Renames, renameMap, <<k.tid, x[1]>>, k.seq - 1, x[2])
      BY <3>2, <1>2 DEF SourcesAt, RightPath, MapAt
    <3> QED BY <3>1, <3>3
  <2> QED BY <2>1, <1>1 DEF SourcesAt, RightPath, MapAt
<1> QED BY <1>5, <1>6, <1>7

LEMMA ExecuteDataInv ==
  ASSUME RegInv, WriteInv, DataInv, NEW i \in insts, Execute(i)
  PROVE  DataInv'
<1>1. /\ i.st = "renamed" /\ insts' = SetState(i, "executed")
      /\ regFile' = [p \in PhysRegs |-> IF \E x \in i.dests : x[2] = p
                                          THEN i.seq ELSE regFile[p]]
      /\ scoreboard' = scoreboard /\ commitMap' = commitMap
      /\ archWriter' = archWriter /\ UNCHANGED <<renameVars, commitVars>>
  BY DEF Execute, commitVars
<1>2. CommitAt /\ DestValues /\ PreciseState /\ OneWriter /\ TypeOK
  BY DEF DataInv, WriteInv, RegInv
<1>3. HistoryOwned' /\ CommitAt' /\ SourcesAt'
  BY <1>1, SetStateDataInv
<1>4. DestValues'
  <2> SUFFICES ASSUME NEW j \in insts', NEW x \in j.dests
               PROVE  /\ scoreboard[x[2]] => j.st = "written"
                      /\ j.st = "written" => scoreboard[x[2]]
                      /\ j.st # "renamed" => regFile'[x[2]] = j.seq
    BY <1>1 DEF DestValues
  <2>1. PICK k \in insts : /\ j.seq = k.seq /\ j.dests = k.dests
                           /\ k = i => j.st = "executed"
                           /\ k # i => j = k
    BY <1>1, <1>2, SetStateStep
  <2>2. x[2] \in PhysRegs /\ x \in k.dests
    BY <2>1, <1>2, InstsType
  <2>3. CASE k = i
    <3>1. regFile'[x[2]] = i.seq
      BY <2>2, <2>3, <1>1
    <3>2. ~scoreboard[x[2]]
      BY <2>2, <2>3, <1>1, <1>2 DEF DestValues
    <3> QED BY <3>1, <3>2, <2>1, <2>3
  <2>4. CASE k # i
    <3>1. ~ \E y \in i.dests : y[2] = x[2]
      BY <2>2, <2>4, <1>2 DEF OneWriter
    <3>2. regFile'[x[2]] = regFile[x[2]]
      BY <3>1, <2>2, <1>1
    <3> QED BY <3>2, <2>1, <2>2, <2>4, <1>2 DEF DestValues
  <2> QED BY <2>3, <2>4
<1>5. PreciseState'
  <2>1. ASSUME NEW r \in Regs PROVE regFile'[commitMap[r]] = regFile[commitMap[r]]
    <3>1. commitMap[r] \in PhysRegs /\ ~ \E x \in i.dests : x[2] = commitMap[r]
      BY <1>2, CommitNotDest DEF TypeOK
    <3> QED BY <3>1, <1>1
  <2> QED BY <2>1, <1>1, <1>2 DEF PreciseState
<1> QED BY <1>3, <1>4, <1>5 DEF DataInv

LEMMA WritebackDataInv ==
  ASSUME RegInv, WriteInv, DataInv, NEW i \in insts, Writeback(i)
  PROVE  DataInv'
<1>1. /\ i.st = "executed" /\ insts' = SetState(i, "written")
      /\ scoreboard' = [p \in PhysRegs |-> IF \E x \in i.dests : x[2] = p
                                             THEN TRUE ELSE scoreboard[p]]
      /\ regFile' = regFile /\ commitMap' = commitMap
      /\ archWriter' = archWriter /\ UNCHANGED <<renameVars, commitVars>>
  BY DEF Writeback, commitVars
<1>2. CommitAt /\ DestValues /\ PreciseState /\ OneWriter /\ TypeOK
  BY DEF DataInv, WriteInv, RegInv
<1>3. HistoryOwned' /\ CommitAt' /\ SourcesAt'
  BY <1>1, SetStateDataInv
<1>4. DestValues'
  <2> SUFFICES ASSUME NEW j \in insts', NEW x \in j.dests
               PROVE  /\ scoreboard'[x[2]] => j.st = "written"
                      /\ j.st = "written" => scoreboard'[x[2]]
                      /\ j.st # "renamed" => regFile[x[2]] = j.seq
    BY <1>1, Zenon DEF DestValues
  <2>1. PICK k \in insts : /\ j.seq = k.seq /\ j.dests = k.dests
                           /\ k = i => j.st = "written"
                           /\ k # i => j = k
    BY <1>1, <1>2, SetStateStep
  <2>2. x[2] \in PhysRegs /\ x \in k.dests
    BY <2>1, <1>2, InstsType
  <2>3. CASE k = i
    <3>1. scoreboard'[x[2]] = TRUE
      BY <2>2, <2>3, <1>1
    <3>2. regFile[x[2]] = i.seq
      BY <2>2, <2>3, <1>1, <1>2 DEF DestValues
    <3> QED BY <3>1, <3>2, <2>1, <2>3
  <2>4. CASE k # i
    <3>1. ~ \E y \in i.dests : y[2] = x[2]
      BY <2>2, <2>4, <1>2 DEF OneWriter
    <3>2. scoreboard'[x[2]] = scoreboard[x[2]]
      BY <3>1, <2>2, <1>1, Zenon
    <3> QED BY <3>2, <2>1, <2>2, <2>4, <1>2, Zenon DEF DestValues
  <2> QED BY <2>3, <2>4
<1>5. PreciseState'
  <2>1. ASSUME NEW r \in Regs PROVE scoreboard'[commitMap[r]]
    <3>1. commitMap[r] \in PhysRegs /\ scoreboard[commitMap[r]]
      BY <1>2 DEF TypeOK, PreciseState
    <3>2. scoreboard'[commitMap[r]] = IF \E x \in i.dests : x[2] = commitMap[r]
                                        THEN TRUE ELSE scoreboard[commitMap[r]]
      BY <3>1, <1>1, Zenon
    <3> QED BY <3>1, <3>2, Zenon
  <2> QED BY <2>1, <1>1, <1>2, Zenon DEF PreciseState
<1> QED BY <1>3, <1>4, <1>5 DEF DataInv

(* The entries between the last committed instruction and the next one. *)
LEMMA HeadEntries ==
  ASSUME RegInv, WriteInv, HistoryOwned, NEW i \in insts, squashing[i.tid] = None,
         \A j \in insts : j.tid = i.tid => i.seq <= j.seq,
         NEW h \in Renames, h.tid = i.tid, lastCommitted[i.tid] < h.seq,
         h.seq <= i.seq
  PROVE  h.seq = i.seq /\ <<h.arch, h.new>> \in i.dests
<1>1. h.seq \in Int /\ i.seq \in Int /\ i.tid \in Threads /\ squashMsg[i.tid] \in Int
  BY RenamesType, InstsType, SeqType DEF RegInv
<1>2. ~(squashMsg[h.tid] # None /\ squashMsg[h.tid] < h.seq)
  <2>1. i.seq \notin doomed
    BY DEF WriteInv, WalkOrder
  <2>2. ~(squashMsg[i.tid] # None /\ squashMsg[i.tid] < i.seq)
    BY <2>1 DEF WriteInv, WalkOrder
  <2> QED BY <2>2, <1>1
<1>3. PICK j \in insts : j.tid = h.tid /\ j.seq = h.seq /\ <<h.arch, h.new>> \in j.dests
  BY <1>2 DEF HistoryOwned
<1>4. j.seq = i.seq
  <2>1. i.seq <= j.seq
    BY <1>3
  <2> QED BY <2>1, <1>1, <1>3
<1>5. j = i
  BY <1>4 DEF WriteInv, InstOrder
<1> QED BY <1>3, <1>5

LEMMA CommitHeadDataInv ==
  ASSUME RegInv, WriteInv, DataInv, NEW i \in insts, CommitHead(i)
  PROVE  DataInv'
<1> DEFINE Writes(r) == r[1] = i.tid /\ \E x \in i.dests : x[1] = r[2]
<1>1. /\ i.st = "written" /\ squashing[i.tid] = None
      /\ \A j \in insts : j.tid = i.tid => i.seq <= j.seq
      /\ lastCommitted' = [lastCommitted EXCEPT ![i.tid] = i.seq]
      /\ insts' = insts \ {i} /\ scoreboard' = scoreboard /\ regFile' = regFile
      /\ doomed' = doomed /\ squashMsg' = squashMsg
      /\ Renames' = Renames /\ renameMap' = renameMap
  BY MapFrame DEF CommitHead, renameVars, execVars
<1>2. \A r \in Regs :
        /\ commitMap'[r] = IF Writes(r) THEN (CHOOSE x \in i.dests : x[1] = r[2])[2]
                           ELSE commitMap[r]
        /\ archWriter'[r] = IF Writes(r) THEN i.seq ELSE archWriter[r]
  BY DEF CommitHead
<1>3. /\ HistoryOwned /\ CommitAt /\ SourcesAt /\ DestValues /\ PreciseState
      /\ InstOrder /\ WalkOrder /\ DestsHeld /\ TypeOK
  BY DEF WriteInv, RegInv, DataInv
<1>4. /\ i.tid \in Threads /\ i.seq \in Int
      /\ \A r \in Regs : r = <<r[1], r[2]>> /\ r[1] \in Threads
  BY <1>3, InstsType DEF Regs
<1>5. \A t \in Threads : /\ lastCommitted[t] \in Int
                         /\ lastCommitted'[t] = IF t = i.tid THEN i.seq
                                                 ELSE lastCommitted[t]
  BY <1>1, <1>3, SeqType DEF TypeOK
<1>6. lastCommitted[i.tid] < i.seq /\ i.seq \notin doomed
  BY <1>1, <1>3, Zenon DEF InstOrder, WalkOrder
<1>7. \A h \in Renames : h.tid \in Threads /\ h.seq \in Int
  BY RenamesType
(* A register the head writes, and one it does not. *)
<1>8. ASSUME NEW r \in Regs, Writes(r)
      PROVE  \E x \in i.dests : x[1] = r[2] /\ commitMap'[r] = x[2]
                                /\ archWriter'[r] = i.seq
  <2> DEFINE c == CHOOSE x \in i.dests : x[1] = r[2]
  <2>1. c \in i.dests /\ c[1] = r[2]
    BY <1>8
  <2>2. commitMap'[r] = c[2] /\ archWriter'[r] = i.seq
    BY <1>2, <1>8
  <2> HIDE DEF c
  <2> QED BY <2>1, <2>2
<1>9. ASSUME NEW r \in Regs, ~Writes(r)
      PROVE  commitMap'[r] = commitMap[r] /\ archWriter'[r] = archWriter[r]
  BY <1>2, <1>9
<1> HIDE DEF Writes
<1>10. HistoryOwned'
  <2>1. ASSUME NEW h \in Renames, lastCommitted'[h.tid] < h.seq
        PROVE  \/ \E j \in insts' : j.tid = h.tid /\ j.seq = h.seq
                                    /\ <<h.arch, h.new>> \in j.dests
               \/ squashMsg[h.tid] # None /\ squashMsg[h.tid] < h.seq
    <3>1. lastCommitted[h.tid] < h.seq /\ (h.tid = i.tid => h.seq # i.seq)
      BY <2>1, <1>4, <1>5, <1>6, <1>7
    <3> QED BY <3>1, <1>1, <1>3 DEF HistoryOwned
  <2> QED BY <2>1, <1>1, <1>3 DEF HistoryOwned
<1>11. CommitAt'
  <2>1. ASSUME NEW r \in Regs
        PROVE  MapIn(Renames, renameMap, r, lastCommitted'[r[1]], commitMap'[r])
    <3>1. CASE Writes(r)
      <4>1. PICK x \in i.dests : x[1] = r[2] /\ commitMap'[r] = x[2]
        BY <3>1, <1>8
      <4>2. PICK h \in Renames : h.tid = i.tid /\ h.seq = i.seq
                                 /\ h.arch = x[1] /\ h.new = x[2]
        BY <1>3, <1>6 DEF DestsHeld
      <4>3. r[1] = i.tid /\ RegOf(h) = r
        BY <3>1, <4>1, <4>2, <1>4 DEF RegOf, Writes
      <4>4. MapAt(r, i.seq, x[2])
        BY <4>2, <4>3, EntryMapAt
      <4> QED BY <4>1, <4>3, <4>4, <1>4, <1>5 DEF MapAt
    <3>2. CASE ~Writes(r) /\ r[1] = i.tid
      <4>1. ASSUME NEW h \in Renames, RegOf(h) = r, lastCommitted[i.tid] < h.seq
            PROVE  i.seq < h.seq
        <5> SUFFICES ASSUME h.seq <= i.seq PROVE FALSE
          BY <1>4, <1>7
        <5>1. h.tid = i.tid /\ h.arch = r[2]
          BY <4>1, <3>2 DEF RegOf
        <5>2. <<h.arch, h.new>> \in i.dests
          BY <5>1, <4>1, <1>1, <1>3, HeadEntries
        <5>3. <<h.arch, h.new>>[1] = r[2]
          BY <5>1
        <5> QED BY <5>2, <5>3, <3>2 DEF Writes
      <4>2. MapAt(r, lastCommitted[i.tid], commitMap[r])
        BY <3>2, <1>3 DEF CommitAt
      <4>3. lastCommitted[i.tid] <= i.seq /\ lastCommitted[i.tid] \in Int
        BY <1>4, <1>5, <1>6
      <4>4. MapAt(r, i.seq, commitMap[r])
        BY <4>1, <4>2, <4>3, <1>4, MapAtShift
      <4> QED BY <4>4, <3>2, <1>4, <1>5, <1>9 DEF MapAt
    <3>3. CASE ~Writes(r) /\ r[1] # i.tid
      BY <3>3, <1>3, <1>4, <1>5, <1>9 DEF CommitAt, MapAt
    <3> QED BY <3>1, <3>2, <3>3
  <2> QED BY <2>1, <1>1, Zenon DEF CommitAt, MapAt
<1>12. SourcesAt'
  BY <1>1, <1>3 DEF SourcesAt, RightPath, MapAt
<1>13. DestValues'
  BY <1>1, <1>3 DEF DestValues
<1>14. PreciseState'
  <2>1. ASSUME NEW r \in Regs
        PROVE  scoreboard[commitMap'[r]] /\ regFile[commitMap'[r]] = archWriter'[r]
    <3>1. CASE Writes(r)
      <4>1. PICK x \in i.dests : commitMap'[r] = x[2] /\ archWriter'[r] = i.seq
        BY <3>1, <1>8
      <4>2. scoreboard[x[2]] /\ regFile[x[2]] = i.seq
        BY <1>1, <1>3 DEF DestValues
      <4> QED BY <4>1, <4>2
    <3>2. CASE ~Writes(r)
      BY <3>2, <1>3, <1>9 DEF PreciseState
    <3> QED BY <3>1, <3>2
  <2> QED BY <2>1, <1>1 DEF PreciseState
<1> QED BY <1>10, <1>11, <1>12, <1>13, <1>14 DEF DataInv

LEMMA CommitSquashDataInv ==
  ASSUME RegInv, WriteInv, DataInv, NEW t \in Threads, NEW s \in SeqNums,
         CommitSquash(t, s)
  PROVE  DataInv'
<1>1. /\ squashMsg[t] = None
      /\ doomed' = doomed \cup {i.seq : i \in {j \in insts : j.tid = t /\ j.seq > s}}
      /\ squashMsg' = [squashMsg EXCEPT ![t] = s]
      /\ insts' = insts /\ scoreboard' = scoreboard /\ regFile' = regFile
      /\ commitMap' = commitMap /\ lastCommitted' = lastCommitted
      /\ archWriter' = archWriter /\ Renames' = Renames /\ renameMap' = renameMap
  BY MapFrame DEF CommitSquash, renameVars, execVars
<1>2. /\ HistoryOwned /\ CommitAt /\ SourcesAt /\ DestValues /\ PreciseState
      /\ InstOrder /\ TypeOK
  BY DEF WriteInv, RegInv, DataInv
<1>3. s \in Int /\ s # None
  BY MaxSeqAssumption DEF SeqNums, None
<1>4. \A u \in Threads : squashMsg'[u] = IF u = t THEN s ELSE squashMsg[u]
  BY <1>1, <1>2 DEF TypeOK
<1>5. /\ \A i \in insts : i.tid \in Threads /\ i.seq \in Int
      /\ \A h \in Renames : h.tid \in Threads
  BY <1>2, InstsType, RenamesType
<1>6. ASSUME NEW i \in insts, i.seq \in doomed'
      PROVE  i.seq \in doomed \/ (i.tid = t /\ i.seq > s)
  <2>1. ASSUME i.seq \notin doomed PROVE i.tid = t /\ i.seq > s
    <3>1. PICK j \in insts : j.tid = t /\ j.seq > s /\ i.seq = j.seq
      BY <2>1, <1>1, <1>6
    <3> QED BY <3>1, <1>2 DEF InstOrder
  <2> QED BY <2>1
<1>7. HistoryOwned'
  <2>1. ASSUME NEW h \in Renames, lastCommitted[h.tid] < h.seq
        PROVE  \/ \E i \in insts : i.tid = h.tid /\ i.seq = h.seq
                                   /\ <<h.arch, h.new>> \in i.dests
               \/ squashMsg'[h.tid] # None /\ squashMsg'[h.tid] < h.seq
    <3>1. CASE h.tid = t
      BY <3>1, <2>1, <1>1, <1>2 DEF HistoryOwned
    <3>2. CASE h.tid # t
      <4>1. squashMsg'[h.tid] = squashMsg[h.tid]
        BY <3>2, <1>4, <1>5
      <4> QED BY <4>1, <2>1, <1>2 DEF HistoryOwned
    <3> QED BY <3>1, <3>2
  <2>2. ASSUME NEW i \in insts, NEW h \in Renames, i.seq \in doomed',
               h.tid = i.tid, h.seq = i.seq
        PROVE  squashMsg'[i.tid] # None /\ squashMsg'[i.tid] < i.seq
    <3>1. CASE i.seq \in doomed
      <4>1. squashMsg[i.tid] # None /\ squashMsg[i.tid] < i.seq
        BY <3>1, <2>2, <1>2 DEF HistoryOwned
      <4>2. i.tid # t
        BY <4>1, <1>1
      <4> QED BY <4>1, <4>2, <1>4, <1>5
    <3>2. CASE i.tid = t /\ i.seq > s
      BY <3>2, <1>3, <1>4, <1>5
    <3> QED BY <3>1, <3>2, <2>2, <1>6
  <2> QED BY <2>1, <2>2, <1>1 DEF HistoryOwned
<1>8. CommitAt'
  BY <1>1, <1>2 DEF CommitAt, MapAt
<1>9. SourcesAt'
  <2>1. \A i \in insts : i.seq \notin doomed' => i.seq \notin doomed
    BY <1>1
  <2> QED BY <2>1, <1>1, <1>2 DEF SourcesAt, RightPath, MapAt
<1>10. DestValues' /\ PreciseState'
  BY <1>1, <1>2 DEF DestValues, PreciseState
<1> QED BY <1>7, <1>8, <1>9, <1>10 DEF DataInv

LEMMA WalkDataInv ==
  ASSUME WriteInv, DataInv, NEW t \in Threads, MarkSquashed(t) \/ SquashDone(t)
  PROVE  DataInv'
<1>1. /\ squashMsg' = squashMsg /\ scoreboard' = scoreboard /\ regFile' = regFile
      /\ commitMap' = commitMap /\ lastCommitted' = lastCommitted
      /\ archWriter' = archWriter /\ Renames' = Renames /\ renameMap' = renameMap
  BY MapFrame DEF MarkSquashed, SquashDone, renameVars, execVars
<1>2. HistoryOwned /\ CommitAt /\ SourcesAt /\ DestValues /\ PreciseState
  BY DEF DataInv
<1>3. /\ insts' \in SUBSET insts
      /\ \A i \in insts \ insts' : i.seq \in doomed
      /\ \A i \in insts' : i.seq \in doomed' <=> i.seq \in doomed
  BY MarkSquashedStep DEF SquashDone
<1>4. HistoryOwned'
  <2>1. ASSUME NEW h \in Renames, lastCommitted[h.tid] < h.seq
        PROVE  \/ \E i \in insts' : i.tid = h.tid /\ i.seq = h.seq
                                    /\ <<h.arch, h.new>> \in i.dests
               \/ squashMsg[h.tid] # None /\ squashMsg[h.tid] < h.seq
    <3>1. ASSUME NEW i \in insts, i.tid = h.tid, i.seq = h.seq, i \notin insts'
          PROVE  squashMsg[h.tid] # None /\ squashMsg[h.tid] < h.seq
      <4>1. i.seq \in doomed
        BY <3>1, <1>3
      <4>2. squashMsg[i.tid] # None /\ squashMsg[i.tid] < i.seq
        BY <3>1, <4>1, <1>2 DEF HistoryOwned
      <4> QED BY <4>2, <3>1
    <3> QED BY <3>1, <2>1, <1>2 DEF HistoryOwned
  <2>2. ASSUME NEW i \in insts', NEW h \in Renames, i.seq \in doomed',
               h.tid = i.tid, h.seq = i.seq
        PROVE  squashMsg[i.tid] # None /\ squashMsg[i.tid] < i.seq
    BY <2>2, <1>2, <1>3 DEF HistoryOwned
  <2> QED BY <2>1, <2>2, <1>1 DEF HistoryOwned
<1>5. CommitAt'
  BY <1>1, <1>2 DEF CommitAt, MapAt
<1>6. SourcesAt'
  BY <1>1, <1>2, <1>3, Zenon DEF SourcesAt, RightPath, MapAt
<1>7. DestValues' /\ PreciseState'
  BY <1>1, <1>2, <1>3, Zenon DEF DestValues, PreciseState
<1> QED BY <1>4, <1>5, <1>6, <1>7 DEF DataInv

LEMMA NextDataInv ==
  ASSUME RegInv, WriteInv, DataInv, [Next]_vars
  PROVE  DataInv'
<1>1. CASE UNCHANGED vars
  <2>1. /\ insts' = insts /\ scoreboard' = scoreboard /\ regFile' = regFile
        /\ commitMap' = commitMap /\ lastCommitted' = lastCommitted
        /\ doomed' = doomed /\ squashMsg' = squashMsg /\ archWriter' = archWriter
        /\ Renames' = Renames /\ renameMap' = renameMap
    BY <1>1, MapFrame DEF vars, renameVars, execVars, commitVars
  <2>2. HistoryOwned' /\ DestValues' /\ PreciseState'
    BY <2>1 DEF DataInv, HistoryOwned, DestValues, PreciseState
  <2>3. CommitAt' /\ SourcesAt'
    BY <2>1 DEF DataInv, CommitAt, SourcesAt, RightPath, MapAt
  <2> QED BY <2>2, <2>3 DEF DataInv
<1> QED BY <1>1, RenameInstDataInv, RemoveFromHistoryDataInv, RenameSquashDataInv,
           FreeSquashedDataInv, ExecuteDataInv, WritebackDataInv,
           CommitHeadDataInv, CommitSquashDataInv, WalkDataInv DEF Next

(* An entry between the last committed instruction and one on the right path *)
(* is of an instruction on the right path.                                    *)
LEMMA EntryWriter ==
  ASSUME RegInv, WriteInv, HistoryOwned, NEW i \in insts, RightPath(i),
         NEW h \in Renames, h.tid = i.tid, lastCommitted[i.tid] < h.seq, h.seq < i.seq
  PROVE  h.seq \in Writers(i, h.arch)
<1>1. /\ h.seq \in Int /\ i.seq \in Int
      /\ squashMsg[i.tid] \in Int
  BY RenamesType, InstsType, SeqType DEF RegInv
<1>2. ~(squashMsg[i.tid] # None /\ squashMsg[i.tid] < h.seq)
  <2>1. ~(squashMsg[i.tid] # None /\ squashMsg[i.tid] < i.seq)
    BY DEF WriteInv, WalkOrder, RightPath
  <2> QED BY <2>1, <1>1
<1>3. PICK j \in insts : j.tid = h.tid /\ j.seq = h.seq /\ <<h.arch, h.new>> \in j.dests
  BY <1>2 DEF HistoryOwned
<1>4. j.seq \notin doomed
  BY <1>2, <1>3 DEF HistoryOwned
<1>5. \E x \in j.dests : x[1] = h.arch
  <2>1. <<h.arch, h.new>>[1] = h.arch
    OBVIOUS
  <2> QED BY <1>3, <2>1
<1> QED BY <1>3, <1>4, <1>5 DEF Writers, RightPath

LEMMA DataInvFlow ==
  ASSUME RegInv, WriteInv, DataInv
  PROVE  DataFlow
<1> SUFFICES ASSUME NEW i \in insts, RightPath(i), NEW x \in i.srcs, scoreboard[x[2]]
             PROVE  regFile[x[2]] = ProgramWriter(i, x[1])
  BY DEF DataFlow
<1> DEFINE r == <<i.tid, x[1]>>
           W == Writers(i, x[1])
           c == lastCommitted[i.tid]
<1>1. /\ HistoryOwned /\ CommitAt /\ SourcesAt /\ DestValues /\ PreciseState
      /\ InstOrder /\ DestsHeld /\ TypeOK
  BY DEF WriteInv, RegInv, DataInv
<1>2. /\ i.seq \in Int /\ i.seq - 1 \in Int /\ c \in Int /\ c < i.seq
      /\ c <= i.seq - 1 /\ r \in Regs /\ r[1] = i.tid
  <2>1. i.seq \in Int /\ i.tid \in Threads /\ x[1] \in ArchRegs
    BY <1>1, InstsType
  <2>2. c \in Int /\ c < i.seq
    BY <2>1, <1>1, SeqType DEF InstOrder
  <2>3. r \in Regs /\ r[1] = i.tid
    BY <2>1 DEF Regs
  <2> QED BY <2>1, <2>2, <2>3
<1>3. MapAt(r, i.seq - 1, x[2])
  BY <1>1 DEF SourcesAt
<1>4. ASSUME NEW h \in Renames, RegOf(h) = r
      PROVE  h.seq \in Int /\ (c < h.seq => h.seq \in W \/ i.seq - 1 < h.seq)
  <2>1. h.tid = i.tid /\ h.arch = x[1] /\ h.seq \in Int
    BY <1>4, RenamesType, Zenon DEF RegOf
  <2>2. ASSUME c < h.seq, h.seq < i.seq PROVE h.seq \in W
    BY <2>1, <2>2, <1>1, EntryWriter
  <2> QED BY <2>1, <2>2, <1>2
<1>5. CASE W = {}
  <2>1. \A h \in Renames : RegOf(h) = r /\ c < h.seq => i.seq - 1 < h.seq
    BY <1>4, <1>5
  <2>2. MapAt(r, c, commitMap[r])
    BY <1>1, <1>2 DEF CommitAt
  <2>3. MapAt(r, i.seq - 1, commitMap[r])
    BY <2>1, <2>2, <1>2, MapAtShift
  <2>4. x[2] = commitMap[r]
    BY <2>3, <1>2, <1>3, MapAtUnique
  <2>5. regFile[commitMap[r]] = archWriter[r]
    BY <1>1, <1>2 DEF PreciseState
  <2> QED BY <2>4, <2>5, <1>5 DEF ProgramWriter
<1>6. CASE W # {}
  <2>1. W \in SUBSET (0 .. MaxSeq)
    BY <1>1, InstsType DEF Writers, SeqNums
  <2>2. PICK m \in W : \A u \in W : u <= m
    BY <2>1, <1>6, NatMax, MaxSeqAssumption, Zenon
  <2>3. PICK j \in insts : /\ j.tid = i.tid /\ j.seq = m /\ j.seq < i.seq
                           /\ j.seq \notin doomed /\ \E y \in j.dests : y[1] = x[1]
    BY <2>2 DEF Writers, RightPath
  <2>4. PICK y \in j.dests : y[1] = x[1]
    BY <2>3
  <2>5. PICK h \in Renames : h.tid = j.tid /\ h.seq = j.seq
                             /\ h.arch = y[1] /\ h.new = y[2]
    BY <2>3, <1>1 DEF DestsHeld
  <2>6. RegOf(h) = r
    BY <2>3, <2>4, <2>5 DEF RegOf
  <2>7. MapAt(r, m, y[2])
    BY <2>3, <2>5, <2>6, EntryMapAt
  <2>8. m \in Int /\ m <= i.seq - 1 /\ c < m
    <3>1. j.seq \in Int /\ c < j.seq
      BY <2>3, <1>1, InstsType DEF InstOrder
    <3> HIDE DEF c
    <3> QED BY <3>1, <2>3, <1>2
  <2>9. ASSUME NEW g \in Renames, RegOf(g) = r, m < g.seq PROVE i.seq - 1 < g.seq
    <3>1. g.seq \in Int /\ (c < g.seq => g.seq \in W \/ i.seq - 1 < g.seq)
      BY <2>9, <1>4
    <3>2. c \in Int
      BY <1>2
    <3> HIDE DEF W, c
    <3>3. c < g.seq
      BY <3>1, <3>2, <2>8, <2>9
    <3>4. ~(g.seq <= m)
      BY <3>1, <2>8, <2>9
    <3>5. g.seq \notin W
      BY <3>4, <2>2
    <3> QED BY <3>1, <3>3, <3>5
  <2>10. MapAt(r, i.seq - 1, y[2])
    BY <2>7, <2>8, <2>9, <1>2, MapAtShift, Zenon
  <2>11. x[2] = y[2]
    BY <2>10, <1>2, <1>3, MapAtUnique, Zenon
  <2>12. regFile[x[2]] = m
    BY <2>3, <2>11, <1>1 DEF DestValues
  <2>13. ProgramWriter(i, x[1]) = m
    <3>1. \A u \in W : (\A v \in W : v <= u) => u = m
      BY <2>1, <2>2, MaxSeqAssumption
    <3>2. (CHOOSE u \in W : \A v \in W : v <= u) = m
      <4> HIDE DEF W
      <4> QED BY <3>1, <2>2
    <3> QED BY <3>2, <1>6 DEF ProgramWriter
  <2> QED BY <2>12, <2>13
<1> QED BY <1>5, <1>6

(* The three invariants together are inductive. *)
LEMMA DataInvHolds == Spec => [](RegInv /\ WriteInv /\ DataInv)
<1>1. Init => RegInv /\ WriteInv /\ DataInv
  BY InitRegInv, InitWriteInv, InitDataInv
<1>2. (RegInv /\ WriteInv /\ DataInv) /\ [Next]_vars
        => (RegInv /\ WriteInv /\ DataInv)'
  BY NextWriteInv, NextDataInv
<1> QED BY <1>1, <1>2, PTL DEF Spec

(* The committed state is precise at every moment: the registers Commit's map *)
(* points at are ready and hold what the last committed writer wrote, however *)
(* commits, squashes and the reuse of registers interleave.                   *)
THEOREM StatePrecise == Spec => []PreciseState
<1>1. RegInv /\ WriteInv /\ DataInv => PreciseState
  BY DEF DataInv
<1> QED BY <1>1, DataInvHolds, PTL

(* Renaming keeps the program's data flow: an instruction on the right path   *)
(* that finds its source ready on the scoreboard reads the value of the last  *)
(* older instruction that writes the register.                                *)
THEOREM DataFlowSafe == Spec => []DataFlow
<1>1. RegInv /\ WriteInv /\ DataInv => DataFlow
  BY DataInvFlow
<1> QED BY <1>1, DataInvHolds, PTL
=============================================================================
