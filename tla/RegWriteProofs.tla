--------------------------- MODULE RegWriteProofs --------------------------
(***************************************************************************)
(* Machine-checked proof that no instruction of RegRename writes a register*)
(* that is free or another's, for any number of threads, registers and     *)
(* instructions.                                                           *)
(***************************************************************************)
EXTENDS RegRenameProofs

RegOf(h) == <<h.tid, h.arch>>

(* The instructions in flight are younger than the committed ones, and no two *)
(* have the same number.                                                      *)
InstOrder ==
  /\ \A t \in Threads : lastCommitted[t] < nextSeq
  /\ \A s \in doomed : s < nextSeq
  /\ \A i \in insts : lastCommitted[i.tid] < i.seq /\ i.seq < nextSeq
  /\ \A i, j \in insts : i.seq = j.seq => i = j

(* A doomed instruction has a walk that will mark it, and a squash rename has *)
(* yet to hear of has doomed the instructions it is about.                    *)
WalkOrder ==
  /\ \A t \in Threads : squashMsg[t] # None => lastCommitted[t] <= squashMsg[t]
  /\ \A i \in insts :
       /\ i.seq \in doomed => squashing[i.tid] # None
       /\ squashMsg[i.tid] # None /\ squashMsg[i.tid] < i.seq => i.seq \in doomed

(* An instruction's destination is in the history, or it is doomed and rename *)
(* has set the register aside.                                                *)
DestsHeld ==
  \A i \in insts : \A x \in i.dests :
    \/ \E h \in Renames : h.tid = i.tid /\ h.seq = i.seq
                          /\ h.arch = x[1] /\ h.new = x[2]
    \/ i.seq \in doomed /\ x[2] \in freeingInProgress[i.tid]

OneWriter ==
  \A i, j \in insts : \A x \in i.dests, y \in j.dests : x[2] = y[2] => i = j

WriteInv == InstOrder /\ WalkOrder /\ DestsHeld /\ OneWriter

-----------------------------------------------------------------------------
(* What the steps do to the entries and the instructions *)

(* What the type invariant says of one history entry and one instruction. *)
LEMMA RenamesType ==
  ASSUME RegInv, NEW h \in Renames
  PROVE  /\ h \in historyBuffer /\ h.seq \in Int /\ h.seq < nextSeq
         /\ h.tid \in Threads /\ h.arch \in ArchRegs /\ RegOf(h) \in Regs
         /\ h.new \in PhysRegs /\ h.prev \in PhysRegs /\ h.new # h.prev
BY DEF RegInv, TypeOK, HistoryShape, Renames, History, SeqNums, RegOf, Regs

LEMMA InstsType ==
  ASSUME TypeOK, NEW i \in insts
  PROVE  /\ i.tid \in Threads /\ i.seq \in SeqNums /\ i.seq \in Int
         /\ \A x \in i.dests : /\ x[1] \in ArchRegs /\ x[2] \in PhysRegs
                               /\ x = <<x[1], x[2]>>
         /\ \A x \in i.srcs : x[1] \in ArchRegs /\ x[2] \in PhysRegs
         /\ i.st \in States
BY DEF TypeOK, Insts, SeqNums

LEMMA SeqType ==
  ASSUME TypeOK
  PROVE  /\ nextSeq \in Int
         /\ \A t \in Threads : /\ lastCommitted[t] \in Int /\ lastCommitted[t] # None
                               /\ squashMsg[t] \in Int
BY MaxSeqAssumption DEF TypeOK, SeqNums, None

LEMMA SameRegOf ==
  ASSUME NEW g, NEW h PROVE SameReg(g, h) <=> RegOf(g) = RegOf(h)
BY DEF SameReg, RegOf

(* A register has one entry per instruction. *)
LEMMA SameEntry ==
  ASSUME RegInv, NEW g \in Renames, NEW h \in Renames, RegOf(g) = RegOf(h),
         g.seq = h.seq
  PROVE  g = h
<1>1. HistoryChain /\ SameReg(g, h)
  BY SameRegOf DEF RegInv
<1> QED BY <1>1, Zenon DEF HistoryChain

(* Rename adds the instruction n, and one entry of E for each destination. *)
Renaming(t, D, new, E, n) ==
  /\ D \in SUBSET ArchRegs
  /\ \A a \in D : new[a] \in freeList
  /\ \A a, b \in D : new[a] = new[b] => a = b
  /\ insts' = insts \cup {n}
  /\ n.tid = t /\ n.seq = nextSeq /\ n.st = "renamed"
  /\ \A x \in n.dests : x[1] \in D /\ x[2] = new[x[1]]
  /\ \A a \in D : <<a, new[a]>> \in n.dests
  /\ \A x \in n.srcs : x[1] \in ArchRegs /\ x[2] = renameMap[<<t, x[1]>>]
  /\ Renames' = Renames \cup E
  /\ \A h \in E : /\ h.tid = t /\ h.seq = nextSeq /\ h.arch \in D
                  /\ h.new = new[h.arch] /\ h.prev = renameMap[<<t, h.arch>>]
  /\ \A a \in D : \E h \in E : h.arch = a
  /\ \A r \in Regs : renameMap'[r] = IF r[1] = t /\ r[2] \in D
                                       THEN new[r[2]] ELSE renameMap[r]
  /\ freeList' = freeList \ {new[a] : a \in D}
  /\ \A p \in PhysRegs : scoreboard'[p] = IF \E a \in D : new[a] = p
                                            THEN FALSE ELSE scoreboard[p]

LEMMA RenameInstStep ==
  ASSUME RegInv, NEW t \in Threads, NEW op \in Shapes, RenameInst(t, op)
  PROVE  \E D, new, E, n : Renaming(t, D, new, E, n)
<1> DEFINE D == op.dests
<1>a. D \in SUBSET ArchRegs /\ op.misc \in SUBSET MiscRegs
      /\ op.srcs \in SUBSET ArchRegs
  BY ShapesAssumption
<1>1. PICK new \in [D -> freeList] :
       /\ \A a, b \in D : new[a] = new[b] => a = b
       /\ renameMap' = [r \in Regs |-> IF r[1] = t /\ r[2] \in D
                                         THEN new[r[2]] ELSE renameMap[r]]
       /\ freeList' = freeList \ {new[a] : a \in D}
       /\ scoreboard' = UnsetRegs({new[a] : a \in D})
       /\ historyBuffer' = historyBuffer \cup DestHistory(t, D, op.misc, new)
       /\ insts' = insts \cup
            {[tid |-> t, seq |-> nextSeq, srcs |-> RenameSrcRegs(t, op.srcs),
              dests |-> {<<a, new[a]>> : a \in D}, st |-> "renamed"]}
  BY Zenon DEF RenameInst
<1> HIDE DEF D
<1> DEFINE E == {[tid |-> t, seq |-> nextSeq, arch |-> a, new |-> new[a],
                  prev |-> renameMap[<<t, a>>]] : a \in D}
           F == {[tid |-> t, seq |-> nextSeq, arch |-> m, new |-> m,
                  prev |-> m] : m \in op.misc}
           n == [tid |-> t, seq |-> nextSeq, srcs |-> RenameSrcRegs(t, op.srcs),
                 dests |-> {<<a, new[a]>> : a \in D}, st |-> "renamed"]
<1>3. \A a \in D : /\ new[a] \in freeList /\ new[a] \in PhysRegs
                   /\ <<t, a>> \in Regs /\ renameMap[<<t, a>>] \in PhysRegs
                   /\ new[a] # renameMap[<<t, a>>]
  BY <1>1, <1>a DEF RegInv, TypeOK, RegsConserved, Mapped, Regs
<1>6. \A h \in E : /\ h.tid = t /\ h.seq = nextSeq /\ h.arch \in D
                   /\ h.new = new[h.arch] /\ h.prev = renameMap[<<t, h.arch>>]
  <2> SUFFICES ASSUME NEW a \in D,
                      NEW h, h = [tid |-> t, seq |-> nextSeq, arch |-> a,
                                  new |-> new[a], prev |-> renameMap[<<t, a>>]]
               PROVE  /\ h.tid = t /\ h.seq = nextSeq /\ h.arch \in D
                      /\ h.new = new[h.arch] /\ h.prev = renameMap[<<t, h.arch>>]
    BY Zenon
  <2> QED OBVIOUS
<1>7. \A a \in D : \E h \in E : h.arch = a
  <2> SUFFICES ASSUME NEW a \in D PROVE \E h \in E : h.arch = a
    OBVIOUS
  <2> DEFINE e == [tid |-> t, seq |-> nextSeq, arch |-> a, new |-> new[a],
                   prev |-> renameMap[<<t, a>>]]
  <2>1. e \in E
    BY Zenon
  <2>2. e.arch = a
    OBVIOUS
  <2> QED BY <2>1, <2>2, Zenon
<1>8. \A h \in F : h.new = h.prev
  OBVIOUS
<1>9. historyBuffer' = historyBuffer \cup E \cup F
  BY <1>1 DEF DestHistory
<1> HIDE DEF E, F
<1>b. \A h \in E : h.new # h.prev
  BY <1>3, <1>6, Zenon
<1>10. Renames' = Renames \cup E
  BY <1>8, <1>9, <1>b DEF Renames
<1>11. /\ n.tid = t /\ n.seq = nextSeq /\ n.st = "renamed"
       /\ n.srcs = RenameSrcRegs(t, op.srcs)
       /\ n.dests = {<<a, new[a]>> : a \in D}
  OBVIOUS
<1>12. insts' = insts \cup {n} /\ n \in insts'
  BY <1>1
<1> HIDE DEF n
<1>13. /\ \A x \in n.dests : x[1] \in D /\ x[2] = new[x[1]]
       /\ \A a \in D : <<a, new[a]>> \in n.dests
  BY <1>11
<1>14. \A x \in n.srcs : x[1] \in ArchRegs /\ x[2] = renameMap[<<t, x[1]>>]
  <2> SUFFICES ASSUME NEW x \in n.srcs
               PROVE  x[1] \in ArchRegs /\ x[2] = renameMap[<<t, x[1]>>]
    OBVIOUS
  <2>1. PICK b \in op.srcs : x = <<b, renameMap[<<t, b>>]>>
    BY <1>11, Zenon DEF RenameSrcRegs
  <2>2. x[1] = b /\ x[2] = renameMap[<<t, b>>]
    BY <2>1
  <2> QED BY <2>2, <1>a
<1>15. \A p \in PhysRegs : scoreboard'[p] = IF \E a \in D : new[a] = p
                                              THEN FALSE ELSE scoreboard[p]
  BY <1>1, Zenon DEF UnsetRegs
<1>16. \A r \in Regs : renameMap'[r] = IF r[1] = t /\ r[2] \in D
                                         THEN new[r[2]] ELSE renameMap[r]
  BY <1>1
<1>17. /\ \A a, b \in D : new[a] = new[b] => a = b
       /\ freeList' = freeList \ {new[a] : a \in D}
       /\ \A a \in D : new[a] \in freeList
  BY <1>1
<1>18. Renaming(t, D, new, E, n)
  BY <1>6, <1>7, <1>10, <1>11, <1>12, <1>13, <1>14, <1>15, <1>16, <1>17, <1>a, Zenon
     DEF Renaming
<1> QED BY <1>18, Zenon

(* Execution and writeback change the state of one instruction. *)
LEMMA SetStateStep ==
  ASSUME TypeOK, NEW i \in insts, NEW st, insts' = SetState(i, st)
  PROVE  \A j \in insts' : \E k \in insts :
           /\ j.tid = k.tid /\ j.seq = k.seq /\ j.srcs = k.srcs /\ j.dests = k.dests
           /\ k = i => j.st = st
           /\ k # i => j = k
<1> DEFINE e == [i EXCEPT !.st = st]
<1>1. /\ e.tid = i.tid /\ e.seq = i.seq /\ e.srcs = i.srcs /\ e.dests = i.dests
      /\ e.st = st
  BY DEF TypeOK, Insts
<1>2. insts' = (insts \ {i}) \cup {e}
  BY DEF SetState
<1> HIDE DEF e
<1> QED BY <1>1, <1>2

LEMMA SetStateKeeps ==
  ASSUME TypeOK, NEW i \in insts, NEW st, insts' = SetState(i, st), NEW k \in insts
  PROVE  \E j \in insts' : /\ j.tid = k.tid /\ j.seq = k.seq
                           /\ j.srcs = k.srcs /\ j.dests = k.dests
<1> DEFINE e == [i EXCEPT !.st = st]
<1>1. e.tid = i.tid /\ e.seq = i.seq /\ e.srcs = i.srcs /\ e.dests = i.dests
  BY DEF TypeOK, Insts
<1>2. insts' = (insts \ {i}) \cup {e}
  BY DEF SetState
<1> HIDE DEF e
<1> QED BY <1>1, <1>2

(* The entries removeFromHistory and doSquash leave. *)
LEMMA RemoveStep ==
  ASSUME NEW t, NEW s, RemoveFromHistory(t, s)
  PROVE  Renames' = {h \in Renames : ~(h.tid = t /\ h.seq <= s)}
BY DEF RemoveFromHistory, Renames

LEMMA SquashStep ==
  ASSUME NEW t, RenameSquash(t)
  PROVE  /\ Undone(t, squashMsg[t]) =
              {h \in Renames : h.tid = t /\ h.seq > squashMsg[t]}
         /\ Renames' = Renames \ Undone(t, squashMsg[t])
BY DEF RenameSquash, Renames, Undone

-----------------------------------------------------------------------------
(* Who writes which register *)

(* A destination is never free. *)
LEMMA DestNotFree ==
  ASSUME RegInv, DestsHeld, NEW i \in insts, NEW x \in i.dests
  PROVE  x[2] \notin freeList
<1>0. i.tid \in Threads
  BY InstsType DEF RegInv
<1>1. ASSUME NEW h \in Renames PROVE h.new \notin freeList
  <2>1. h.seq \in Int /\ RegOf(h) \in Regs
    BY RenamesType
  <2>2. h.new \in Mapped \/ h.new \in Superseded
    BY <2>1, NextEntry DEF Mapped, Superseded, RegOf
  <2> QED BY <2>2 DEF RegInv, RegsConserved
<1>2. freeingInProgress[i.tid] \cap freeList = {}
  BY <1>0 DEF RegInv, RegsConserved, Freeing
<1> QED BY <1>1, <1>2 DEF DestsHeld

LEMMA InitWriteInv == Init => WriteInv
BY DEF Init, WriteInv, InstOrder, WalkOrder, DestsHeld, OneWriter

LEMMA RenameInstWriteInv ==
  ASSUME RegInv, RegInv', WriteInv,
         NEW t \in Threads, NEW op \in Shapes, RenameInst(t, op)
  PROVE  WriteInv'
<1>1. PICK D, new, E, n : Renaming(t, D, new, E, n)
  BY RenameInstStep
<1>2. /\ insts' = insts \cup {n} /\ n.tid = t /\ n.seq = nextSeq
      /\ \A x \in n.dests : x[1] \in D /\ x[2] = new[x[1]]
      /\ Renames' = Renames \cup E
      /\ \A h \in E : h.tid = t /\ h.seq = nextSeq /\ h.new = new[h.arch]
      /\ \A a \in D : \E h \in E : h.arch = a
      /\ \A a \in D : new[a] \in freeList
  BY <1>1, Zenon DEF Renaming
<1>3. /\ nextSeq' = nextSeq + 1 /\ freeingInProgress' = freeingInProgress
      /\ lastCommitted' = lastCommitted /\ squashing' = squashing
      /\ doomed' = doomed /\ squashMsg' = squashMsg /\ squashMsg[t] = None
  BY DEF RenameInst, commitVars
<1>4. InstOrder /\ WalkOrder /\ DestsHeld /\ OneWriter /\ TypeOK
  BY DEF WriteInv, RegInv
<1>5. nextSeq \in Int /\ \A u \in Threads : lastCommitted[u] \in Int
  BY <1>4, SeqType
<1>6. \A i \in insts : i.seq \in Int /\ i.seq < nextSeq /\ i.tid \in Threads
  BY <1>4, InstsType DEF InstOrder
<1>7. \A s \in doomed : s \in Int /\ s < nextSeq
  BY <1>4 DEF InstOrder, TypeOK, SeqNums
<1>8. InstOrder'
  <2>1. \A i, j \in insts' : i.seq = j.seq => i = j
    BY <1>2, <1>4, <1>5, <1>6 DEF InstOrder
  <2>2. \A i \in insts' : lastCommitted[i.tid] < i.seq /\ i.seq < nextSeq'
    BY <1>2, <1>3, <1>4, <1>5, <1>6 DEF InstOrder
  <2>3. \A u \in Threads : lastCommitted[u] < nextSeq'
    BY <1>3, <1>4, <1>5 DEF InstOrder
  <2>4. \A s \in doomed : s < nextSeq'
    BY <1>3, <1>5, <1>7
  <2> QED BY <2>1, <2>2, <2>3, <2>4, <1>3 DEF InstOrder
<1>9. WalkOrder'
  <2>1. n.seq \notin doomed
    BY <1>2, <1>5, <1>7
  <2> QED BY <2>1, <1>2, <1>3, <1>4 DEF WalkOrder
<1>10. DestsHeld'
  <2>1. ASSUME NEW x \in n.dests
        PROVE  \E h \in Renames' : h.tid = n.tid /\ h.seq = n.seq
                                   /\ h.arch = x[1] /\ h.new = x[2]
    BY <1>2
  <2> QED BY <2>1, <1>2, <1>3, <1>4 DEF DestsHeld
<1>11. OneWriter'
  <2>1. \A i \in insts : \A x \in i.dests : x[2] \notin freeList
    BY <1>4, DestNotFree
  <2> QED BY <2>1, <1>2, <1>4 DEF OneWriter
<1> QED BY <1>8, <1>9, <1>10, <1>11 DEF WriteInv

LEMMA RemoveFromHistoryWriteInv ==
  ASSUME RegInv, WriteInv, NEW t \in Threads, NEW s \in SeqNums,
         RemoveFromHistory(t, s)
  PROVE  WriteInv'
<1>1. /\ insts' = insts /\ nextSeq' = nextSeq
      /\ freeingInProgress' = freeingInProgress /\ lastCommitted' = lastCommitted
      /\ squashing' = squashing /\ doomed' = doomed /\ squashMsg' = squashMsg
      /\ s <= lastCommitted[t]
  BY DEF RemoveFromHistory, DoneSeqNum, commitVars
<1>2. InstOrder /\ WalkOrder /\ DestsHeld /\ OneWriter /\ TypeOK
  BY DEF WriteInv, RegInv
<1>3. ASSUME NEW i \in insts, NEW h \in Renames, h.tid = i.tid, h.seq = i.seq
      PROVE  h \in Renames'
  <2>1. h.tid = t => ~(h.seq <= s)
    <3>1. lastCommitted[i.tid] < i.seq
      BY <1>2 DEF InstOrder
    <3>2. i.seq \in Int /\ s \in Int /\ lastCommitted[t] \in Int
      BY <1>2, InstsType, SeqType DEF SeqNums
    <3> QED BY <3>1, <3>2, <1>1, <1>3
  <2> QED BY <2>1, RemoveStep
<1>4. InstOrder' /\ WalkOrder' /\ OneWriter'
  BY <1>1, <1>2 DEF InstOrder, WalkOrder, OneWriter
<1>5. DestsHeld'
  BY <1>1, <1>2, <1>3 DEF DestsHeld
<1> QED BY <1>4, <1>5 DEF WriteInv

LEMMA RenameSquashWriteInv ==
  ASSUME RegInv, WriteInv, NEW t \in Threads, RenameSquash(t)
  PROVE  WriteInv'
<1> DEFINE U == Undone(t, squashMsg[t])
<1>1. /\ insts' = insts /\ nextSeq' = nextSeq /\ lastCommitted' = lastCommitted
      /\ squashing' = squashing /\ doomed' = doomed
      /\ squashMsg[t] # None /\ squashMsg' = [squashMsg EXCEPT ![t] = None]
      /\ freeingInProgress' = [freeingInProgress EXCEPT ![t] = @ \cup {h.new : h \in U}]
  BY DEF RenameSquash
<1>2. InstOrder /\ WalkOrder /\ DestsHeld /\ OneWriter /\ TypeOK
  BY DEF WriteInv, RegInv
<1>3. /\ U = {h \in Renames : h.tid = t /\ h.seq > squashMsg[t]}
      /\ Renames' = Renames \ U
  BY SquashStep
<1>4. /\ freeingInProgress'[t] = freeingInProgress[t] \cup {h.new : h \in U}
      /\ \A u \in Threads : u # t => freeingInProgress'[u] = freeingInProgress[u]
      /\ squashMsg'[t] = None
      /\ \A u \in Threads : u # t => squashMsg'[u] = squashMsg[u]
  BY <1>1, <1>2 DEF TypeOK
<1> HIDE DEF U
<1>5. \A i \in insts : i.tid \in Threads /\ i.seq \in Int
  BY <1>2, InstsType
<1>6. InstOrder' /\ OneWriter'
  BY <1>1, <1>2 DEF InstOrder, OneWriter
<1>7. WalkOrder'
  BY <1>1, <1>2, <1>4, <1>5 DEF WalkOrder
<1>8. DestsHeld'
  <2> SUFFICES ASSUME NEW i \in insts, NEW x \in i.dests
               PROVE  \/ \E h \in Renames' : h.tid = i.tid /\ h.seq = i.seq
                                             /\ h.arch = x[1] /\ h.new = x[2]
                      \/ i.seq \in doomed /\ x[2] \in freeingInProgress'[i.tid]
    BY <1>1 DEF DestsHeld
  <2>1. ASSUME NEW h \in Renames, h.tid = i.tid, h.seq = i.seq, h.new = x[2],
               h \notin Renames'
        PROVE  i.seq \in doomed /\ x[2] \in freeingInProgress'[i.tid]
    <3>1. h \in U /\ i.tid = t /\ squashMsg[t] < i.seq
      BY <2>1, <1>3, <1>5, <1>2, SeqType
    <3>2. i.seq \in doomed
      BY <3>1, <1>1, <1>2 DEF WalkOrder
    <3> QED BY <3>1, <3>2, <2>1, <1>4
  <2>2. CASE i.seq \in doomed /\ x[2] \in freeingInProgress[i.tid]
    <3>1. x[2] \in freeingInProgress'[i.tid]
      BY <2>2, <1>4, <1>5
    <3> QED BY <2>2, <3>1
  <2> QED BY <2>1, <2>2, <1>2 DEF DestsHeld
<1> QED BY <1>6, <1>7, <1>8 DEF WriteInv

LEMMA FreeSquashedWriteInv ==
  ASSUME RegInv, WriteInv, NEW t \in Threads, FreeSquashed(t)
  PROVE  WriteInv'
<1>1. /\ insts' = insts /\ nextSeq' = nextSeq /\ lastCommitted' = lastCommitted
      /\ squashing' = squashing /\ doomed' = doomed /\ squashMsg' = squashMsg
      /\ Renames' = Renames /\ squashing[t] = None
      /\ freeingInProgress' = [freeingInProgress EXCEPT ![t] = {}]
  BY DEF FreeSquashed, NotSquashing, commitVars, Renames
<1>2. InstOrder /\ WalkOrder /\ DestsHeld /\ OneWriter /\ TypeOK
  BY DEF WriteInv, RegInv
<1>3. InstOrder' /\ WalkOrder' /\ OneWriter'
  BY <1>1, <1>2 DEF InstOrder, WalkOrder, OneWriter
<1>4. ASSUME NEW i \in insts, i.seq \in doomed
      PROVE  freeingInProgress'[i.tid] = freeingInProgress[i.tid]
  <2>1. i.tid \in Threads /\ i.tid # t
    BY <1>1, <1>2, <1>4, InstsType DEF WalkOrder
  <2> QED BY <2>1, <1>1, <1>2 DEF TypeOK
<1>5. DestsHeld'
  BY <1>1, <1>2, <1>4 DEF DestsHeld
<1> QED BY <1>3, <1>5 DEF WriteInv

LEMMA SetStateWriteInv ==
  ASSUME RegInv, WriteInv, NEW i \in insts, NEW st, insts' = SetState(i, st),
         UNCHANGED <<renameVars, commitVars, nextSeq>>
  PROVE  WriteInv'
<1>1. /\ nextSeq' = nextSeq /\ freeingInProgress' = freeingInProgress
      /\ lastCommitted' = lastCommitted /\ squashing' = squashing
      /\ doomed' = doomed /\ squashMsg' = squashMsg /\ Renames' = Renames
  BY DEF renameVars, commitVars, Renames
<1>2. InstOrder /\ WalkOrder /\ DestsHeld /\ OneWriter /\ TypeOK
  BY DEF WriteInv, RegInv
<1>3. \A j \in insts' : \E k \in insts :
        /\ j.tid = k.tid /\ j.seq = k.seq /\ j.srcs = k.srcs /\ j.dests = k.dests
        /\ k = i => j.st = st
        /\ k # i => j = k
  BY <1>2, SetStateStep
<1>4. \A j, k \in insts' : j.seq = k.seq => j = k
  <2> SUFFICES ASSUME NEW j \in insts', NEW k \in insts', j.seq = k.seq
               PROVE  j = k
    OBVIOUS
  <2>1. CASE j \in insts /\ k \in insts
    BY <2>1, <1>2 DEF InstOrder
  <2> DEFINE e == [i EXCEPT !.st = st]
  <2>2. insts' = (insts \ {i}) \cup {e} /\ e.seq = i.seq
    BY <1>2 DEF SetState, TypeOK, Insts
  <2> HIDE DEF e
  <2>3. \A l \in insts \ {i} : l.seq # e.seq
    BY <2>2, <1>2 DEF InstOrder
  <2> QED BY <2>1, <2>2, <2>3
<1>5. InstOrder'
  BY <1>1, <1>2, <1>3, <1>4 DEF InstOrder
<1>6. WalkOrder'
  BY <1>1, <1>2, <1>3 DEF WalkOrder
<1>7. DestsHeld'
  <2> SUFFICES ASSUME NEW j \in insts', NEW x \in j.dests
               PROVE  \/ \E h \in Renames : h.tid = j.tid /\ h.seq = j.seq
                                            /\ h.arch = x[1] /\ h.new = x[2]
                      \/ j.seq \in doomed /\ x[2] \in freeingInProgress[j.tid]
    BY <1>1 DEF DestsHeld
  <2>1. PICK k \in insts : j.tid = k.tid /\ j.seq = k.seq /\ j.dests = k.dests
    BY <1>3
  <2> QED BY <2>1, <1>2 DEF DestsHeld
<1>8. OneWriter'
  <2> SUFFICES ASSUME NEW j \in insts', NEW l \in insts', NEW x \in j.dests,
                      NEW y \in l.dests, x[2] = y[2]
               PROVE  j = l
    BY DEF OneWriter
  <2>1. PICK k \in insts : j.seq = k.seq /\ j.dests = k.dests
    BY <1>3
  <2>2. PICK m \in insts : l.seq = m.seq /\ l.dests = m.dests
    BY <1>3
  <2>3. k = m
    BY <2>1, <2>2, <1>2 DEF OneWriter
  <2> QED BY <2>1, <2>2, <2>3, <1>4
<1> QED BY <1>5, <1>6, <1>7, <1>8 DEF WriteInv

LEMMA CommitHeadWriteInv ==
  ASSUME RegInv, WriteInv, NEW i \in insts, CommitHead(i)
  PROVE  WriteInv'
<1>1. /\ nextSeq' = nextSeq /\ freeingInProgress' = freeingInProgress
      /\ lastCommitted' = [lastCommitted EXCEPT ![i.tid] = i.seq]
      /\ squashing' = squashing /\ doomed' = doomed /\ squashMsg' = squashMsg
      /\ Renames' = Renames /\ insts' = insts \ {i}
      /\ squashing[i.tid] = None
      /\ \A j \in insts : j.tid = i.tid => i.seq <= j.seq
  BY DEF CommitHead, renameVars, Renames
<1>2. InstOrder /\ WalkOrder /\ DestsHeld /\ OneWriter /\ TypeOK
  BY DEF WriteInv, RegInv
<1>3. \A j \in insts : j.tid \in Threads /\ j.seq \in Int
  BY <1>2, InstsType
<1>4. \A t \in Threads : /\ lastCommitted[t] \in Int /\ squashMsg[t] \in Int
                         /\ lastCommitted'[t] = IF t = i.tid THEN i.seq
                                                 ELSE lastCommitted[t]
  BY <1>1, <1>2, SeqType DEF TypeOK
<1>5. InstOrder'
  <2>1. ASSUME NEW j \in insts' PROVE lastCommitted'[j.tid] < j.seq
    <3>1. j \in insts /\ j # i /\ j.seq # i.seq
      BY <1>1, <1>2 DEF InstOrder
    <3>2. CASE j.tid = i.tid
      BY <3>1, <3>2, <1>1, <1>3, <1>4
    <3>3. CASE j.tid # i.tid
      BY <3>1, <3>3, <1>2, <1>3, <1>4 DEF InstOrder
    <3> QED BY <3>2, <3>3
  <2>2. \A t \in Threads : lastCommitted'[t] < nextSeq
    BY <1>2, <1>4 DEF InstOrder
  <2> QED BY <2>1, <2>2, <1>1, <1>2 DEF InstOrder
<1>6. WalkOrder'
  <2>1. ASSUME NEW t \in Threads, squashMsg[t] # None
        PROVE  lastCommitted'[t] <= squashMsg[t]
    <3>1. CASE t = i.tid
      <4>1. ~(squashMsg[t] < i.seq)
        BY <3>1, <2>1, <1>1, <1>2 DEF WalkOrder
      <4> QED BY <3>1, <4>1, <1>3, <1>4
    <3>2. CASE t # i.tid
      BY <3>2, <2>1, <1>2, <1>4 DEF WalkOrder
    <3> QED BY <3>1, <3>2
  <2> QED BY <2>1, <1>1, <1>2 DEF WalkOrder
<1>7. DestsHeld' /\ OneWriter'
  BY <1>1, <1>2 DEF DestsHeld, OneWriter
<1> QED BY <1>5, <1>6, <1>7 DEF WriteInv

LEMMA CommitSquashWriteInv ==
  ASSUME RegInv, WriteInv, NEW t \in Threads, NEW s \in SeqNums, CommitSquash(t, s)
  PROVE  WriteInv'
<1>1. /\ nextSeq' = nextSeq /\ freeingInProgress' = freeingInProgress
      /\ lastCommitted' = lastCommitted /\ insts' = insts /\ Renames' = Renames
      /\ squashing' = [squashing EXCEPT ![t] = s]
      /\ squashMsg' = [squashMsg EXCEPT ![t] = s]
      /\ doomed' = doomed \cup {i.seq : i \in {j \in insts : j.tid = t /\ j.seq > s}}
      /\ lastCommitted[t] <= s
  BY DEF CommitSquash, renameVars, Renames
<1>2. InstOrder /\ WalkOrder /\ DestsHeld /\ OneWriter /\ TypeOK
  BY DEF WriteInv, RegInv
<1>3. s # None /\ s \in Int
  BY MaxSeqAssumption DEF SeqNums, None
<1>4. \A u \in Threads : /\ squashing'[u] = IF u = t THEN s ELSE squashing[u]
                         /\ squashMsg'[u] = IF u = t THEN s ELSE squashMsg[u]
  BY <1>1, <1>2 DEF TypeOK
<1>5. \A i \in insts : i.tid \in Threads /\ i.seq \in Int
  BY <1>2, InstsType
<1>6. ASSUME NEW i \in insts, i.seq \in doomed'
      PROVE  i.seq \in doomed \/ i.tid = t
  <2>1. ASSUME i.seq \notin doomed PROVE i.tid = t
    <3>1. PICK j \in insts : j.tid = t /\ i.seq = j.seq
      BY <2>1, <1>1, <1>6
    <3> QED BY <3>1, <1>2 DEF InstOrder
  <2> QED BY <2>1
<1>7. InstOrder'
  BY <1>1, <1>2 DEF InstOrder
<1>8. WalkOrder'
  <2>1. ASSUME NEW i \in insts, i.seq \in doomed' PROVE squashing'[i.tid] # None
    <3>1. CASE i.tid = t
      BY <3>1, <1>3, <1>4
    <3>2. CASE i.tid # t
      BY <3>2, <2>1, <1>2, <1>4, <1>5, <1>6 DEF WalkOrder
    <3> QED BY <3>1, <3>2
  <2>2. ASSUME NEW i \in insts, squashMsg'[i.tid] # None, squashMsg'[i.tid] < i.seq
        PROVE  i.seq \in doomed'
    <3>1. CASE i.tid = t
      BY <3>1, <2>2, <1>1, <1>3, <1>4, <1>5
    <3>2. CASE i.tid # t
      BY <3>2, <2>2, <1>1, <1>2, <1>4, <1>5 DEF WalkOrder
    <3> QED BY <3>1, <3>2
  <2>3. ASSUME NEW u \in Threads, squashMsg'[u] # None
        PROVE  lastCommitted[u] <= squashMsg'[u]
    BY <2>3, <1>1, <1>2, <1>4 DEF WalkOrder
  <2> QED BY <2>1, <2>2, <2>3, <1>1 DEF WalkOrder
<1>9. DestsHeld' /\ OneWriter'
  BY <1>1, <1>2 DEF DestsHeld, OneWriter
<1> QED BY <1>7, <1>8, <1>9 DEF WriteInv

(* A marked instruction leaves alone: nobody else has its number. *)
LEMMA MarkSquashedStep ==
  ASSUME WriteInv, NEW t, MarkSquashed(t)
  PROVE  /\ insts' \in SUBSET insts
         /\ doomed' \in SUBSET doomed
         /\ \A i \in insts \ insts' : i.tid = t /\ i.seq \in doomed
         /\ \A i \in insts' : i.seq \in doomed' <=> i.seq \in doomed
<1>1. PICK K \in SUBSET {i \in insts : i.tid = t /\ i.seq \in doomed} :
        insts' = insts \ K /\ doomed' = doomed \ {i.seq : i \in K}
  BY DEF MarkSquashed
<1>2. \A i \in insts \ K, j \in K : i.seq # j.seq
  BY <1>1 DEF WriteInv, InstOrder
<1> QED BY <1>1, <1>2

LEMMA WalkWriteInv ==
  ASSUME RegInv, WriteInv, NEW t \in Threads, MarkSquashed(t) \/ SquashDone(t)
  PROVE  WriteInv'
<1>1. /\ nextSeq' = nextSeq /\ freeingInProgress' = freeingInProgress
      /\ lastCommitted' = lastCommitted /\ squashMsg' = squashMsg
      /\ Renames' = Renames
  BY DEF MarkSquashed, SquashDone, renameVars, Renames
<1>2. InstOrder /\ WalkOrder /\ DestsHeld /\ OneWriter /\ TypeOK
  BY DEF WriteInv, RegInv
<1>3. CASE MarkSquashed(t)
  <2>1. /\ insts' \in SUBSET insts /\ doomed' \in SUBSET doomed
        /\ \A i \in insts' : i.seq \in doomed' <=> i.seq \in doomed
        /\ squashing' = squashing
    BY <1>3, MarkSquashedStep DEF MarkSquashed
  <2>2. InstOrder'
    BY <2>1, <1>1, <1>2 DEF InstOrder
  <2>3. WalkOrder' /\ DestsHeld' /\ OneWriter'
    BY <2>1, <1>1, <1>2 DEF WalkOrder, DestsHeld, OneWriter
  <2> QED BY <2>2, <2>3 DEF WriteInv
<1>4. CASE SquashDone(t)
  <2>1. /\ insts' = insts /\ doomed' = doomed
        /\ squashing' = [squashing EXCEPT ![t] = None]
        /\ \A i \in insts : i.seq \in doomed => i.tid # t
    BY <1>4 DEF SquashDone
  <2>2. \A i \in insts : i.seq \in doomed => squashing'[i.tid] = squashing[i.tid]
    BY <2>1, <1>2, InstsType DEF TypeOK
  <2>3. InstOrder' /\ DestsHeld' /\ OneWriter'
    BY <2>1, <1>1, <1>2 DEF InstOrder, DestsHeld, OneWriter
  <2>4. WalkOrder'
    BY <2>1, <2>2, <1>1, <1>2 DEF WalkOrder
  <2> QED BY <2>3, <2>4 DEF WriteInv
<1> QED BY <1>3, <1>4

(* Every step preserves both invariants. *)
LEMMA NextWriteInv ==
  ASSUME RegInv, WriteInv, [Next]_vars
  PROVE  RegInv' /\ WriteInv'
<1>1. RegInv'
  BY RenameInstRegInv, RemoveFromHistoryRegInv, RenameSquashRegInv,
     FreeSquashedRegInv, OtherStepsRegInv DEF Next
<1>2. ASSUME NEW i \in insts, Execute(i) \/ Writeback(i) PROVE WriteInv'
  BY <1>2, SetStateWriteInv, Zenon DEF Execute, Writeback
<1>3. CASE UNCHANGED vars
  <2>1. /\ nextSeq' = nextSeq /\ freeingInProgress' = freeingInProgress
        /\ lastCommitted' = lastCommitted /\ squashing' = squashing
        /\ doomed' = doomed /\ squashMsg' = squashMsg /\ insts' = insts
        /\ Renames' = Renames
    BY <1>3 DEF vars, renameVars, commitVars, Renames
  <2>2. InstOrder' /\ WalkOrder'
    BY <2>1 DEF WriteInv, InstOrder, WalkOrder
  <2>3. DestsHeld' /\ OneWriter'
    BY <2>1 DEF WriteInv, DestsHeld, OneWriter
  <2> QED BY <1>1, <2>2, <2>3 DEF WriteInv
<1>4. WriteInv'
  BY <1>1, <1>2, <1>3, RenameInstWriteInv, RemoveFromHistoryWriteInv,
     RenameSquashWriteInv, FreeSquashedWriteInv, CommitHeadWriteInv,
     CommitSquashWriteInv, WalkWriteInv DEF Next
<1> QED BY <1>1, <1>4

(* An instruction never writes a register that is free or that another one   *)
(* writes, wrong path or not: rename gives no register away before the walk  *)
(* has marked the squashed instruction that held it.                         *)
THEOREM WritesSafe == Spec => []NoStrayWrite
<1>1. Init => RegInv /\ WriteInv
  BY InitRegInv, InitWriteInv
<1>2. (RegInv /\ WriteInv) /\ [Next]_vars => (RegInv /\ WriteInv)'
  BY NextWriteInv
<1>3. RegInv /\ WriteInv => NoStrayWrite
  BY DestNotFree DEF WriteInv, OneWriter, NoStrayWrite
<1> QED BY <1>1, <1>2, <1>3, PTL DEF Spec

=============================================================================
