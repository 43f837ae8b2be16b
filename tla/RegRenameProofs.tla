-------------------------- MODULE RegRenameProofs --------------------------
(***************************************************************************)
(* Machine-checked proofs about RegRename, for any number of threads,      *)
(* registers and instructions.                                             *)
(***************************************************************************)
EXTENDS RegRename, WellFoundedInduction, TLAPS

(* What an entry of the history buffer looks like. *)
HistoryShape ==
  \A h \in historyBuffer :
    /\ h.seq < nextSeq
    /\ \/ h.arch \in MiscRegs /\ h.new = h.arch /\ h.prev = h.arch
       \/ /\ h.arch \in ArchRegs /\ h.new \in PhysRegs /\ h.prev \in PhysRegs
          /\ h.new # h.prev

(* The inductive invariant behind type correctness and conservation. *)
RegInv == TypeOK /\ HistoryShape /\ HistoryChain /\ RegsConserved

-----------------------------------------------------------------------------
(* Smallest and largest elements *)

(* A non-empty set of naturals has a smallest element. *)
LEMMA NatMin ==
  ASSUME NEW S \in SUBSET Nat, S # {}
  PROVE \E x \in S : \A y \in S : x <= y
<1> DEFINE R == {ss \in Nat \X Nat : ss[1] < ss[2]}
<1>1. IsWellFoundedOn(R, Nat)
  BY NatLessThanWellFounded, Zenon DEF OpToRel
<1>2. PICK x \in S : \A y \in S : ~ (<<y, x>> \in R)
  BY <1>1, WFMin, Zenon
<1>3. \A y, z \in Nat : y < z => <<y, z>> \in R
  OBVIOUS
<1>4. \A y \in S : ~(y < x)
  BY <1>2, <1>3, Zenon
<1> HIDE DEF R
<1> QED BY <1>4

(* A non-empty set of naturals up to n has a largest element. *)
LEMMA NatMax ==
  ASSUME NEW n \in Nat, NEW S \in SUBSET (0 .. n), S # {}
  PROVE \E x \in S : \A y \in S : y <= x
<1> DEFINE T == {n - x : x \in S}
<1>0. PICK w \in S : TRUE
  OBVIOUS
<1>1. T \in SUBSET Nat /\ n - w \in T
  BY <1>0
<1>2. PICK z \in T : \A y \in T : z <= y
  BY <1>1, NatMin, Zenon
<1>3. PICK x \in S : z = n - x
  BY <1>2
<1>4. \A y \in S : y <= x
  BY <1>2, <1>3
<1> QED BY <1>4

-----------------------------------------------------------------------------
(* The invariant holds initially. *)
LEMMA InitRegInv == Init => RegInv
<1> SUFFICES ASSUME Init PROVE RegInv
  OBVIOUS
<1>1. TypeOK
  BY InitMapAssumption, MaxSeqAssumption DEF Init, TypeOK, SeqNums, None
<1>2. HistoryShape /\ HistoryChain
  BY DEF Init, HistoryShape, HistoryChain, Renames
<1>3. RegsConserved
  BY InitMapAssumption DEF Init, RegsConserved, Renames, Mapped, Superseded, Freeing
<1> QED BY <1>1, <1>2, <1>3 DEF RegInv

(* The chain depends on the renaming entries and the map alone. *)
LEMMA HistoryChainFrame ==
  ASSUME HistoryChain, Renames' = Renames, renameMap' = renameMap
  PROVE  HistoryChain'
<1> DEFINE Same(g, h) == g.tid = h.tid /\ g.arch = h.arch
           Chain(R, M) ==
             \A g \in R :
               /\ (\A h \in R : Same(g, h) => h.seq <= g.seq) =>
                    g.new = M[<<g.tid, g.arch>>]
               /\ \A h \in R : Same(g, h) =>
                    /\ g.seq = h.seq => g = h
                    /\ g.seq < h.seq /\ (\A k \in R :
                            Same(g, k) => k.seq <= g.seq \/ h.seq <= k.seq) =>
                         g.new = h.prev
<1>1. HistoryChain <=> Chain(Renames, renameMap)
  BY DEF HistoryChain, SameReg
<1>2. HistoryChain' <=> Chain(Renames', renameMap')
  BY DEF HistoryChain, SameReg
<1> HIDE DEF Chain
<1> QED BY <1>1, <1>2

(* Steps that leave rename's variables alone only owe type correctness. *)
LEMMA RegFrame ==
  ASSUME RegInv, TypeOK', UNCHANGED renameVars, nextSeq' = nextSeq
  PROVE  RegInv'
<1>1. /\ renameMap' = renameMap /\ freeList' = freeList
      /\ historyBuffer' = historyBuffer
      /\ freeingInProgress' = freeingInProgress
  BY DEF renameVars
<1>2. HistoryShape'
  BY <1>1 DEF RegInv, HistoryShape
<1>3. Renames' = Renames
  BY <1>1 DEF Renames
<1>4. HistoryChain'
  BY HistoryChainFrame, <1>1, <1>3 DEF RegInv
<1>5. Mapped' = Mapped /\ Superseded' = Superseded /\ Freeing' = Freeing
  BY <1>1, <1>3 DEF Mapped, Superseded, Freeing
<1>6. RegsConserved'
  BY <1>1, <1>3, <1>5 DEF RegInv, RegsConserved
<1> QED BY <1>2, <1>4, <1>6 DEF RegInv

(* Rename gives each destination a register nobody holds. *)
LEMMA RenameInstRegInv ==
  ASSUME RegInv, NEW t \in Threads, NEW op \in Shapes, RenameInst(t, op)
  PROVE  RegInv'
<1> DEFINE D == op.dests
<1>a. D \in SUBSET ArchRegs /\ op.misc \in SUBSET MiscRegs
      /\ op.srcs \in SUBSET ArchRegs
  BY ShapesAssumption
<1>1. PICK new \in [D -> freeList] :
       /\ \A a, b \in D : new[a] = new[b] => a = b
       /\ renameMap' = [r \in Regs |-> IF r[1] = t /\ r[2] \in D
                                         THEN new[r[2]] ELSE renameMap[r]]
       /\ freeList' = freeList \ {new[a] : a \in D}
       /\ scoreboard' = UnsetRegs({new[a] : a \in D})
       /\ historyBuffer' = historyBuffer \cup DestHistory(t, D, op.misc, new)
       /\ insts' = insts \cup
            {[tid |-> t, seq |-> nextSeq, srcs |-> RenameSrcRegs(t, op.srcs),
              dests |-> {<<a, new[a]>> : a \in D}, st |-> "renamed"]}
  BY DEF RenameInst
<1>2. /\ nextSeq <= MaxSeq /\ nextSeq' = nextSeq + 1
      /\ UNCHANGED <<freeingInProgress, regFile, commitVars>>
  BY DEF RenameInst
<1> HIDE DEF D
<1>3. TypeOK
  BY DEF RegInv
<1>4. nextSeq \in SeqNums
  BY <1>2, <1>3, MaxSeqAssumption DEF TypeOK, SeqNums
<1>5. \A a \in D : new[a] \in PhysRegs /\ new[a] \in freeList
                   /\ <<t, a>> \in Regs /\ renameMap[<<t, a>>] \in PhysRegs
  BY <1>1, <1>3, <1>a DEF TypeOK, Regs
<1> DEFINE E == {[tid |-> t, seq |-> nextSeq, arch |-> a, new |-> new[a],
                  prev |-> renameMap[<<t, a>>]] : a \in D}
           F == {[tid |-> t, seq |-> nextSeq, arch |-> m, new |-> m,
                  prev |-> m] : m \in op.misc}
<1>6. historyBuffer' = historyBuffer \cup E \cup F
  BY <1>1 DEF DestHistory
<1>7. E \in SUBSET History /\ F \in SUBSET History
  <2>1. \A a \in D : [tid |-> t, seq |-> nextSeq, arch |-> a, new |-> new[a],
                      prev |-> renameMap[<<t, a>>]] \in History
    BY <1>4, <1>5, <1>a DEF History
  <2>2. \A m \in op.misc : [tid |-> t, seq |-> nextSeq, arch |-> m,
                            new |-> m, prev |-> m] \in History
    BY <1>4, <1>a DEF History
  <2> QED BY <2>1, <2>2, Zenon
<1>8. \A a \in D, r \in Regs : new[a] # renameMap[r]
  BY <1>5 DEF RegInv, RegsConserved, Mapped
<1>9. TypeOK'
  <2>1. renameMap' \in [Regs -> PhysRegs]
    BY <1>1, <1>3, <1>5 DEF TypeOK
  <2>2. insts' \in SUBSET Insts
    <3>1. RenameSrcRegs(t, op.srcs) \in SUBSET (ArchRegs \X PhysRegs)
      <4>1. \A a \in op.srcs : <<a, renameMap[<<t, a>>]>> \in ArchRegs \X PhysRegs
        BY <1>3, <1>a DEF TypeOK, Regs
      <4> QED BY <4>1, Zenon DEF RenameSrcRegs
    <3>2. {<<a, new[a]>> : a \in D} \in SUBSET (ArchRegs \X PhysRegs)
      <4>1. \A a \in D : <<a, new[a]>> \in ArchRegs \X PhysRegs
        BY <1>5, <1>a
      <4> QED BY <4>1, Zenon
    <3> QED BY <1>1, <1>3, <1>4, <3>1, <3>2 DEF TypeOK, Insts, States
  <2>3. historyBuffer' \in SUBSET History
    BY <1>3, <1>6, <1>7 DEF TypeOK
  <2>4. /\ freeList' \in SUBSET PhysRegs
        /\ scoreboard' \in [PhysRegs -> BOOLEAN]
    BY <1>1, <1>3 DEF TypeOK, UnsetRegs
  <2>5. nextSeq' \in 1 .. MaxSeq + 1
    BY <1>2, <1>3, MaxSeqAssumption DEF TypeOK
  <2> QED BY <1>2, <1>3, <2>1, <2>2, <2>3, <2>4, <2>5 DEF TypeOK, commitVars
<1>10. \A h \in E : /\ h.tid = t /\ h.seq = nextSeq /\ h.arch \in D
                    /\ h.new = new[h.arch] /\ h.prev = renameMap[<<t, h.arch>>]
                    /\ h.new # h.prev
  <2> SUFFICES ASSUME NEW a \in D,
                      NEW h, h = [tid |-> t, seq |-> nextSeq, arch |-> a,
                                  new |-> new[a], prev |-> renameMap[<<t, a>>]]
               PROVE  /\ h.tid = t /\ h.seq = nextSeq /\ h.arch \in D
                      /\ h.new = new[h.arch] /\ h.prev = renameMap[<<t, h.arch>>]
                      /\ h.new # h.prev
    OBVIOUS
  <2>1. new[a] # renameMap[<<t, a>>]
    BY <1>5, <1>8
  <2> QED BY <2>1
<1>e. /\ \A g, h \in E : g.arch = h.arch => g = h
      /\ \A a \in D : \E h \in E : h.arch = a
  <2>1. \A a \in D : [tid |-> t, seq |-> nextSeq, arch |-> a, new |-> new[a],
                      prev |-> renameMap[<<t, a>>]].arch = a
    OBVIOUS
  <2>2. ASSUME NEW g \in E, NEW h \in E, g.arch = h.arch PROVE g = h
    <3>1. PICK a \in D : g = [tid |-> t, seq |-> nextSeq, arch |-> a,
                             new |-> new[a], prev |-> renameMap[<<t, a>>]]
      BY Zenon
    <3>2. PICK b \in D : h = [tid |-> t, seq |-> nextSeq, arch |-> b,
                             new |-> new[b], prev |-> renameMap[<<t, b>>]]
      BY Zenon
    <3>3. g.arch = a /\ h.arch = b
      BY <3>1, <3>2
    <3> QED BY <2>2, <3>1, <3>2, <3>3, Zenon
  <2>3. ASSUME NEW a \in D PROVE \E h \in E : h.arch = a
    <3> DEFINE e == [tid |-> t, seq |-> nextSeq, arch |-> a, new |-> new[a],
                     prev |-> renameMap[<<t, a>>]]
    <3>1. e \in E
      BY Zenon
    <3>2. e.arch = a
      BY <2>1
    <3> QED BY <3>1, <3>2, Zenon
  <2> QED BY <2>2, <2>3, Zenon
<1>11. \A h \in F : h.seq = nextSeq /\ h.arch \in op.misc /\ h.new = h.arch
                    /\ h.prev = h.arch
  OBVIOUS
<1> HIDE DEF E, F
<1>12. HistoryShape'
  <2> SUFFICES ASSUME NEW h \in historyBuffer'
               PROVE  /\ h.seq < nextSeq'
                      /\ \/ h.arch \in MiscRegs /\ h.new = h.arch /\ h.prev = h.arch
                         \/ /\ h.arch \in ArchRegs /\ h.new \in PhysRegs
                            /\ h.prev \in PhysRegs /\ h.new # h.prev
    BY DEF HistoryShape
  <2>0. nextSeq \in Int
    BY <1>4 DEF SeqNums
  <2>1. CASE h \in historyBuffer
    <3>1. h.seq \in Int
      BY <2>1, <1>3 DEF TypeOK, History, SeqNums
    <3> QED BY <2>0, <2>1, <3>1, <1>2 DEF RegInv, HistoryShape
  <2>2. CASE h \in E
    <3>1. h.arch \in D /\ h.new = new[h.arch] /\ h.new # h.prev
          /\ h.prev = renameMap[<<t, h.arch>>]
      BY <2>2, <1>10
    <3>2. h.arch \in ArchRegs /\ h.new \in PhysRegs /\ h.prev \in PhysRegs
      BY <3>1, <1>5, <1>a
    <3>3. h.seq = nextSeq
      BY <2>2, <1>10
    <3> QED BY <3>1, <3>2, <3>3, <2>0, <1>2
  <2>3. CASE h \in F
    <3>1. h.arch \in MiscRegs
      BY <2>3, <1>11, <1>a
    <3>2. h.seq < nextSeq'
      BY <2>0, <2>3, <1>2, <1>11
    <3>3. h.new = h.arch /\ h.prev = h.arch
      BY <2>3, <1>11
    <3> QED BY <3>1, <3>2, <3>3
  <2> QED BY <2>1, <2>2, <2>3, <1>6
<1>13. Renames' = Renames \cup E
  BY <1>6, <1>10, <1>11 DEF Renames
<1> HIDE DEF D
<1>b. \A h \in Renames : /\ h.seq \in Int /\ h.seq < nextSeq
                         /\ h.tid \in Threads /\ h.arch \in ArchRegs
  BY <1>3 DEF Renames, TypeOK, History, SeqNums, RegInv, HistoryShape
<1>c. nextSeq \in Int
  BY <1>4 DEF SeqNums
<1>f. ASSUME NEW g \in Renames, NEW h \in E
      PROVE  ~(h.seq <= g.seq) /\ ~(h.seq < g.seq) /\ g.seq # h.seq
  <2>1. h.seq = nextSeq
    BY <1>10
  <2>2. g.seq \in Int /\ g.seq < nextSeq
    BY <1>b
  <2> QED BY <2>1, <2>2, <1>c
<1>14. HistoryChain'
  <2>1. ASSUME NEW g \in Renames',
               \A h \in Renames' : SameReg(g, h) => h.seq <= g.seq
        PROVE  g.new = renameMap'[<<g.tid, g.arch>>]
    <3>1. CASE g \in E
      BY <3>1, <1>1, <1>5, <1>10
    <3>2. CASE g \in Renames
      <4>1. ~(g.tid = t /\ g.arch \in D)
        <5> SUFFICES ASSUME g.tid = t, g.arch \in D PROVE FALSE
          OBVIOUS
        <5>1. PICK h \in E : h.arch = g.arch
          BY <1>e
        <5>2. SameReg(g, h) /\ h \in Renames'
          BY <5>1, <1>10, <1>13 DEF SameReg
        <5> QED BY <5>2, <3>2, <2>1, <1>f
      <4>2. <<g.tid, g.arch>> \in Regs
        BY <3>2, <1>b DEF Regs
      <4>3. renameMap'[<<g.tid, g.arch>>] = renameMap[<<g.tid, g.arch>>]
        BY <4>1, <4>2, <1>1
      <4>4. g.new = renameMap[<<g.tid, g.arch>>]
        BY <3>2, <2>1, <1>13 DEF RegInv, HistoryChain
      <4> QED BY <4>3, <4>4
    <3> QED BY <3>1, <3>2, <1>13
  <2>2. ASSUME NEW g \in Renames', NEW h \in Renames', SameReg(g, h), g.seq = h.seq
        PROVE  g = h
    <3>1. CASE g \in Renames /\ h \in Renames
      BY <3>1, <2>2 DEF RegInv, HistoryChain
    <3>2. CASE g \in E /\ h \in E
      BY <3>2, <2>2, <1>e DEF SameReg
    <3>3. ~(g \in Renames /\ h \in E) /\ ~(h \in Renames /\ g \in E)
      BY <2>2, <1>f
    <3> QED BY <3>1, <3>2, <3>3, <1>13
  <2>3. ASSUME NEW g \in Renames', NEW h \in Renames', SameReg(g, h),
               g.seq < h.seq,
               \A k \in Renames' :
                 SameReg(g, k) => k.seq <= g.seq \/ h.seq <= k.seq
        PROVE  g.new = h.prev
    <3>1. g \in Renames
      <4> SUFFICES ASSUME g \in E PROVE FALSE
        BY <1>13
      <4>1. h \in Renames => FALSE
        BY <2>3, <1>f
      <4>2. h \in E => g.seq = h.seq
        BY <1>10
      <4>3. g.seq = nextSeq
        BY <1>10
      <4> QED BY <4>1, <4>2, <4>3, <2>3, <1>13, <1>c
    <3>2. CASE h \in Renames
      BY <3>1, <3>2, <2>3, <1>13 DEF RegInv, HistoryChain
    <3>3. CASE h \in E
      <4>1. \A k \in Renames : SameReg(g, k) => k.seq <= g.seq
        BY <3>3, <2>3, <1>13, <1>f
      <4>2. g.new = renameMap[<<g.tid, g.arch>>]
        BY <3>1, <4>1 DEF RegInv, HistoryChain
      <4> QED BY <4>2, <3>3, <2>3, <1>10 DEF SameReg
    <3> QED BY <3>2, <3>3, <1>13
  <2> QED BY <2>1, <2>2, <2>3, Zenon DEF HistoryChain, SameReg
<1>15. RegsConserved'
  <2> DEFINE N == {new[a] : a \in D}
             P == {renameMap[<<t, a>>] : a \in D}
  <2>0. /\ \A r \in Regs : renameMap'[r] = IF r[1] = t /\ r[2] \in D
                                            THEN new[r[2]] ELSE renameMap[r]
        /\ \A r \in Regs : r = <<r[1], r[2]>> /\ r[1] \in Threads /\ r[2] \in ArchRegs
        /\ \A r, q \in Regs : renameMap[r] = renameMap[q] => r = q
    BY <1>1 DEF RegInv, RegsConserved, Regs
  <2>1. Mapped' = (Mapped \ P) \cup N
    <3>1. ASSUME NEW r \in Regs PROVE renameMap'[r] \in (Mapped \ P) \cup N
      <4>1. CASE r[1] = t /\ r[2] \in D
        <5>1. renameMap'[r] = new[r[2]]
          BY <4>1, <2>0
        <5> QED BY <4>1, <5>1
      <4>2. CASE ~(r[1] = t /\ r[2] \in D)
        <5>1. renameMap'[r] = renameMap[r]
          BY <4>2, <2>0
        <5>2. ASSUME NEW a \in D PROVE renameMap[r] # renameMap[<<t, a>>]
          <6>1. <<t, a>> \in Regs /\ r # <<t, a>>
            BY <4>2, <1>5
          <6> QED BY <6>1, <2>0
        <5>3. renameMap[r] \notin P
          BY <5>2
        <5>4. renameMap[r] \in Mapped
          BY DEF Mapped
        <5> QED BY <5>1, <5>3, <5>4
      <4> QED BY <4>1, <4>2
    <3>2. ASSUME NEW r \in Regs, renameMap[r] \notin P
          PROVE  renameMap[r] \in Mapped'
      <4>1. ~(r[1] = t /\ r[2] \in D)
        <5> SUFFICES ASSUME r[1] = t, r[2] \in D PROVE FALSE
          OBVIOUS
        <5>1. renameMap[r] = renameMap[<<t, r[2]>>]
          BY <2>0
        <5> QED BY <5>1, <3>2
      <4> QED BY <4>1, <2>0 DEF Mapped
    <3>3. ASSUME NEW a \in D PROVE new[a] \in Mapped'
      <4>1. <<t, a>> \in Regs /\ renameMap'[<<t, a>>] = new[a]
        BY <2>0, <1>5
      <4> QED BY <4>1 DEF Mapped
    <3> QED BY <3>1, <3>2, <3>3 DEF Mapped
  <2>2. Superseded' = Superseded \cup P
    <3>1. \A h \in E : h.prev \in P
      BY <1>10
    <3>2. ASSUME NEW a \in D PROVE \E h \in E : h.prev = renameMap[<<t, a>>]
      BY <1>e, <1>10
    <3> QED BY <3>1, <3>2, <1>13 DEF Superseded
  <2>3. Freeing' = Freeing
    BY <1>2 DEF Freeing
  <2>4. N \subseteq freeList /\ P \subseteq Mapped /\ freeList' = freeList \ N
    BY <1>1, <1>5 DEF Mapped
  <2>5. \A r, q \in Regs : renameMap'[r] = renameMap'[q] => r = q
    <3> SUFFICES ASSUME NEW r \in Regs, NEW q \in Regs, renameMap'[r] = renameMap'[q]
                 PROVE  r = q
      OBVIOUS
    <3> QED BY <2>0, <1>1, <1>8
  <2>6. \A g, h \in Renames' : g.prev = h.prev => g = h
    <3> SUFFICES ASSUME NEW g \in Renames', NEW h \in Renames', g.prev = h.prev
                 PROVE  g = h
      OBVIOUS
    <3>1. CASE g \in Renames /\ h \in Renames
      BY <3>1 DEF RegInv, RegsConserved
    <3>2. CASE g \in E /\ h \in E
      <4>1. <<t, g.arch>> \in Regs /\ <<t, h.arch>> \in Regs
        BY <3>2, <1>10, <1>5
      <4>2. g.arch = h.arch
        BY <3>2, <4>1, <2>0, <1>10
      <4> QED BY <3>2, <4>2, <1>e
    <3>3. \A k \in Renames : k.prev \in Superseded
      BY DEF Superseded
    <3>4. \A k \in E : k.prev \in Mapped
      BY <1>10, <1>5 DEF Mapped
    <3> QED BY <3>1, <3>2, <3>3, <3>4, <1>13 DEF RegInv, RegsConserved
  <2> HIDE DEF N, P
  <2>7. /\ PhysRegs = freeList' \cup Mapped' \cup Superseded' \cup Freeing'
        /\ freeList' \cap (Mapped' \cup Superseded' \cup Freeing') = {}
        /\ Mapped' \cap (Superseded' \cup Freeing') = {}
        /\ Superseded' \cap Freeing' = {}
    BY <2>1, <2>2, <2>3, <2>4 DEF RegInv, RegsConserved
  <2>8. \A u, v \in Threads : u # v =>
          freeingInProgress'[u] \cap freeingInProgress'[v] = {}
    BY <1>2 DEF RegInv, RegsConserved
  <2> QED BY <2>5, <2>6, <2>7, <2>8 DEF RegsConserved
<1> QED BY <1>9, <1>12, <1>14, <1>15 DEF RegInv
-----------------------------------------------------------------------------
(* Walking the history of a register *)

(* A set of history entries has an oldest entry for each register in it. *)
LEMMA OldestEntry ==
  ASSUME TypeOK, NEW H \in SUBSET historyBuffer, NEW h \in H
  PROVE  \E o \in H : /\ SameReg(h, o)
                      /\ \A g \in H : SameReg(h, g) => o.seq <= g.seq
<1> DEFINE S == {g.seq : g \in {k \in H : SameReg(h, k)}}
<1>1. S \in SUBSET Nat /\ h.seq \in S
  BY DEF TypeOK, History, SeqNums, SameReg
<1>2. PICK x \in S : \A y \in S : x <= y
  BY <1>1, NatMin, Zenon
<1> QED BY <1>2

(* ... and a newest one. *)
LEMMA NewestEntry ==
  ASSUME TypeOK, NEW H \in SUBSET historyBuffer, NEW h \in H
  PROVE  \E o \in H : /\ SameReg(h, o)
                      /\ \A g \in H : SameReg(h, g) => g.seq <= o.seq
<1> DEFINE S == {g.seq : g \in {k \in H : SameReg(h, k)}}
<1>1. S \in SUBSET (0 .. MaxSeq) /\ h.seq \in S
  BY DEF TypeOK, History, SeqNums, SameReg
<1>2. PICK x \in S : \A y \in S : y <= x
  BY <1>1, NatMax, MaxSeqAssumption, Zenon
<1> QED BY <1>2

(* What an entry maps is the current mapping or superseded by a newer entry. *)
LEMMA NextEntry ==
  ASSUME RegInv, NEW h \in Renames
  PROVE  \/ h.new = renameMap[<<h.tid, h.arch>>]
         \/ \E g \in Renames : SameReg(h, g) /\ h.seq < g.seq /\ g.prev = h.new
<1> DEFINE H == {k \in Renames : SameReg(h, k) /\ h.seq < k.seq}
<1>0. \A k \in Renames : k \in historyBuffer /\ k.seq \in Int
  BY DEF Renames, RegInv, TypeOK, History, SeqNums
<1>1. CASE H = {}
  <2>1. \A k \in Renames : SameReg(h, k) => k.seq <= h.seq
    <3> SUFFICES ASSUME NEW k \in Renames, SameReg(h, k) PROVE k.seq <= h.seq
      OBVIOUS
    <3>1. ~(h.seq < k.seq)
      BY <1>1
    <3>2. k.seq \in Int /\ h.seq \in Int
      BY <1>0
    <3> QED BY <3>1, <3>2
  <2> QED BY <2>1 DEF RegInv, HistoryChain
<1>2. ASSUME NEW x \in H
      PROVE  \E g \in Renames : SameReg(h, g) /\ h.seq < g.seq /\ g.prev = h.new
  <2>1. PICK g \in H : \A k \in H : SameReg(x, k) => g.seq <= k.seq
    <3>1. H \in SUBSET historyBuffer
      BY <1>0
    <3> HIDE DEF H
    <3> QED BY <3>1, <1>2, OldestEntry DEF RegInv
  <2>2. ASSUME NEW k \in Renames, SameReg(h, k)
        PROVE  k.seq <= h.seq \/ g.seq <= k.seq
    <3>1. k \in H => g.seq <= k.seq
      BY <2>1, <2>2, <1>2 DEF SameReg
    <3>2. k \notin H => ~(h.seq < k.seq)
      BY <2>2
    <3>3. k.seq \in Int /\ h.seq \in Int
      BY <1>0
    <3> QED BY <3>1, <3>2, <3>3
  <2> QED BY <2>1, <2>2 DEF RegInv, HistoryChain
<1> QED BY <1>1, <1>2

(* If an older entry of the register exists, one maps what h supersedes. *)
LEMMA PrevEntry ==
  ASSUME RegInv, NEW h \in Renames, NEW x \in Renames, SameReg(h, x),
         x.seq < h.seq
  PROVE  \E g \in Renames : /\ SameReg(h, g) /\ x.seq <= g.seq
                            /\ g.seq < h.seq /\ g.new = h.prev
<1> DEFINE H == {k \in Renames : SameReg(h, k) /\ k.seq < h.seq}
<1>0. \A k \in Renames : k \in historyBuffer /\ k.seq \in Int
  BY DEF Renames, RegInv, TypeOK, History, SeqNums
<1>1. x \in H /\ H \in SUBSET historyBuffer
  BY <1>0
<1>2. PICK g \in H : \A k \in H : SameReg(x, k) => k.seq <= g.seq
  <2> HIDE DEF H
  <2> QED BY <1>1, NewestEntry DEF RegInv
<1>3. SameReg(g, h) /\ x.seq <= g.seq
  BY <1>1, <1>2 DEF SameReg
<1>4. ASSUME NEW k \in Renames, SameReg(g, k)
      PROVE  k.seq <= g.seq \/ h.seq <= k.seq
  <2>1. k \in H => k.seq <= g.seq
    BY <1>2, <1>3, <1>4 DEF SameReg
  <2>2. k \notin H => ~(k.seq < h.seq)
    BY <1>3, <1>4 DEF SameReg
  <2>3. k.seq \in Int /\ h.seq \in Int
    BY <1>0
  <2> QED BY <2>1, <2>2, <2>3
<1> QED BY <1>2, <1>3, <1>4 DEF RegInv, HistoryChain
-----------------------------------------------------------------------------
(* Dropping committed history frees exactly what it superseded. *)
LEMMA RemoveFromHistoryRegInv ==
  ASSUME RegInv, NEW t \in Threads, NEW s \in SeqNums, RemoveFromHistory(t, s)
  PROVE  RegInv'
<1> DEFINE gone == {h \in historyBuffer : h.tid = t /\ h.seq <= s}
           G == {h \in Renames : h.tid = t /\ h.seq <= s}
           P == {h.prev : h \in G}
<1>1. /\ historyBuffer' = historyBuffer \ gone
      /\ freeList' = freeList \cup P
      /\ UNCHANGED <<renameMap, freeingInProgress, execVars, commitVars, insts,
                     nextSeq>>
  <2>1. Released(gone) = P
    BY DEF Released, Renames
  <2> QED BY <2>1 DEF RemoveFromHistory
<1>2. TypeOK /\ HistoryShape /\ HistoryChain /\ RegsConserved
  BY DEF RegInv
<1>3. Renames' = Renames \ G
  BY <1>1 DEF Renames
<1>4. P \subseteq Superseded /\ P \subseteq PhysRegs
  BY <1>2 DEF Superseded, RegsConserved
<1>5. TypeOK'
  BY <1>1, <1>2, <1>4 DEF TypeOK, execVars, commitVars
<1>6. HistoryShape'
  BY <1>1, <1>2 DEF HistoryShape
<1>7. \A h \in Renames : h.seq \in Int
  BY <1>2 DEF Renames, TypeOK, History, SeqNums
<1>8. ASSUME NEW g \in Renames', NEW k \in Renames, SameReg(g, k), k \notin Renames'
      PROVE  k.seq <= g.seq
  <2>1. k.tid = t /\ k.seq <= s /\ g.tid = t /\ g \in Renames
    BY <1>3, <1>8 DEF SameReg
  <2>2. ~(g.seq <= s)
    BY <1>3, <2>1
  <2>3. g.seq \in Int /\ k.seq \in Int /\ s \in Int
    BY <1>7, <2>1 DEF SeqNums
  <2> QED BY <2>1, <2>2, <2>3
<1>9. HistoryChain'
  <2>1. ASSUME NEW g \in Renames',
               \A h \in Renames' : SameReg(g, h) => h.seq <= g.seq
        PROVE  g.new = renameMap'[<<g.tid, g.arch>>]
    <3>1. \A h \in Renames : SameReg(g, h) => h.seq <= g.seq
      BY <2>1, <1>8
    <3> QED BY <3>1, <1>1, <1>2, <1>3 DEF HistoryChain
  <2>2. ASSUME NEW g \in Renames', NEW h \in Renames', SameReg(g, h), g.seq = h.seq
        PROVE  g = h
    BY <2>2, <1>2, <1>3 DEF HistoryChain
  <2>3. ASSUME NEW g \in Renames', NEW h \in Renames', SameReg(g, h),
               g.seq < h.seq,
               \A k \in Renames' :
                 SameReg(g, k) => k.seq <= g.seq \/ h.seq <= k.seq
        PROVE  g.new = h.prev
    <3>1. \A k \in Renames : SameReg(g, k) => k.seq <= g.seq \/ h.seq <= k.seq
      BY <2>3, <1>8
    <3> QED BY <3>1, <2>3, <1>2, <1>3 DEF HistoryChain
  <2> QED BY <2>1, <2>2, <2>3, Zenon DEF HistoryChain, SameReg
<1>10. RegsConserved'
  <2>1. Superseded' = Superseded \ P
    BY <1>2, <1>3 DEF Superseded, RegsConserved
  <2>2. Mapped' = Mapped /\ Freeing' = Freeing
    BY <1>1 DEF Mapped, Freeing
  <2>3. \A g, h \in Renames' : g.prev = h.prev => g = h
    BY <1>2, <1>3 DEF RegsConserved
  <2>4. /\ renameMap' = renameMap
        /\ freeingInProgress' = freeingInProgress
        /\ freeList' = freeList \cup P
    BY <1>1
  <2> HIDE DEF P, G, gone
  <2> QED BY <1>2, <1>4, <2>1, <2>2, <2>3, <2>4 DEF RegsConserved
<1> QED BY <1>5, <1>6, <1>9, <1>10 DEF RegInv

(* Undoing squashed history restores the map and sets aside its registers. *)
LEMMA RenameSquashRegInv ==
  ASSUME RegInv, NEW t \in Threads, RenameSquash(t)
  PROVE  RegInv'
<1> DEFINE s == squashMsg[t]
           U == Undone(t, s)
           N == {h.new : h \in U}
           P == {h.prev : h \in U}
<1>1. /\ renameMap' = [r \in Regs |->
              IF \E h \in U : r = <<h.tid, h.arch>>
                THEN (CHOOSE h \in U : r = <<h.tid, h.arch>> /\ Oldest(h, U)).prev
                ELSE renameMap[r]]
      /\ freeingInProgress' = [freeingInProgress EXCEPT ![t] = @ \cup N]
      /\ historyBuffer' = {h \in historyBuffer : ~(h.tid = t /\ h.seq > s)}
      /\ squashMsg' = [squashMsg EXCEPT ![t] = None]
      /\ UNCHANGED <<freeList, execVars, commitMap, lastCommitted, squashing,
                     doomed, archWriter, insts, nextSeq>>
  BY DEF RenameSquash
<1>2. TypeOK /\ HistoryShape /\ HistoryChain /\ RegsConserved
  BY DEF RegInv
<1>3. /\ U = {h \in Renames : h.tid = t /\ h.seq > s}
      /\ Renames' = Renames \ U
  BY <1>1 DEF Renames, Undone
<1>4. s \in Int
  BY <1>2 DEF TypeOK, SeqNums, RenameSquash, None
<1> HIDE DEF s, U
<1>5. \A h \in Renames : /\ h \in historyBuffer /\ h.seq \in Int
                         /\ h.arch \in ArchRegs /\ h.tid \in Threads
                         /\ h.new \in PhysRegs /\ h.prev \in PhysRegs
  BY <1>2 DEF Renames, TypeOK, History, SeqNums, HistoryShape
(* Of two entries of a register, undoing the older undoes the newer. *)
<1>6. ASSUME NEW g \in U, NEW h \in Renames, SameReg(g, h), g.seq <= h.seq
      PROVE  h \in U
  <2>1. g.tid = t /\ g.seq > s /\ h.tid = t
    BY <1>3, <1>6 DEF SameReg
  <2>2. g.seq \in Int /\ h.seq \in Int
    BY <1>3, <1>5
  <2>3. h.seq > s
    BY <2>1, <2>2, <1>4, <1>6
  <2> QED BY <2>1, <2>3, <1>3
(* The mapping an undone register gets back. *)
<1>7. ASSUME NEW h \in U
      PROVE  \E o \in U : /\ SameReg(h, o)
                          /\ \A g \in U : SameReg(h, g) => o.seq <= g.seq
                          /\ renameMap'[<<h.tid, h.arch>>] = o.prev
  <2> DEFINE r == <<h.tid, h.arch>>
             o == CHOOSE x \in U : r = <<x.tid, x.arch>> /\ Oldest(x, U)
  <2>1. PICK x \in U : /\ SameReg(h, x)
                       /\ \A g \in U : SameReg(h, g) => x.seq <= g.seq
    <3>1. U \in SUBSET historyBuffer
      BY <1>3, <1>5
    <3> QED BY <3>1, <1>2, OldestEntry
  <2>2. r = <<x.tid, x.arch>> /\ Oldest(x, U)
    BY <2>1, <1>3 DEF SameReg, Oldest
  <2>3. o \in U /\ r = <<o.tid, o.arch>> /\ Oldest(o, U)
    BY <2>2
  <2>4. r \in Regs
    BY <1>3, <1>5 DEF Regs
  <2>5. renameMap'[r] = o.prev
    BY <1>1, <2>4
  <2>6. SameReg(h, o) /\ \A g \in U : SameReg(h, g) => o.seq <= g.seq
    BY <2>3 DEF SameReg, Oldest
  <2> HIDE DEF o
  <2> QED BY <2>3, <2>5, <2>6
<1>8. ASSUME NEW r \in Regs, \A h \in U : r # <<h.tid, h.arch>>
      PROVE  renameMap'[r] = renameMap[r]
  BY <1>1, <1>8
(* What an undone entry mapped is the current mapping, or what another       *)
(* undone entry, not an oldest one, supersedes; and conversely.              *)
<1>9. ASSUME NEW h \in U
      PROVE  \/ h.new = renameMap[<<h.tid, h.arch>>]
             \/ \E g \in U : SameReg(h, g) /\ h.seq < g.seq /\ g.prev = h.new
  <2>1. h \in Renames
    BY <1>3
  <2>2. ASSUME NEW g \in Renames, SameReg(h, g), h.seq < g.seq PROVE g \in U
    <3>1. h.seq <= g.seq
      BY <1>5, <2>1, <2>2
    <3> QED BY <3>1, <2>2, <1>6
  <2> QED BY <2>1, <2>2, NextEntry
<1>10. ASSUME NEW h \in U, NEW x \in U, SameReg(h, x), x.seq < h.seq
       PROVE  \E g \in U : g.new = h.prev
  <2>1. PICK g \in Renames : /\ SameReg(h, g) /\ x.seq <= g.seq
                             /\ g.seq < h.seq /\ g.new = h.prev
    BY <1>3, <1>10, PrevEntry
  <2>2. g \in U
    BY <2>1, <1>6, <1>10 DEF SameReg
  <2> QED BY <2>1, <2>2
<1>11. ASSUME NEW h \in U
       PROVE  \E n \in U : n.new = renameMap[<<h.tid, h.arch>>]
  <2>1. Renames \in SUBSET historyBuffer /\ h \in Renames
    BY <1>3, <1>5
  <2>2. PICK n \in Renames : /\ SameReg(h, n)
                             /\ \A g \in Renames : SameReg(h, g) => g.seq <= n.seq
    BY <2>1, <1>2, NewestEntry
  <2>3. n \in U
    BY <2>1, <2>2, <1>6 DEF SameReg
  <2>4. n.new = renameMap[<<n.tid, n.arch>>]
    BY <2>2, <1>2 DEF HistoryChain, SameReg
  <2> QED BY <2>2, <2>3, <2>4 DEF SameReg
<1>12. TypeOK'
  <2>1. ASSUME NEW r \in Regs PROVE renameMap'[r] \in PhysRegs
    <3>1. CASE \E h \in U : r = <<h.tid, h.arch>>
      BY <3>1, <1>7, <1>3, <1>5
    <3>2. CASE \A h \in U : r # <<h.tid, h.arch>>
      BY <3>2, <1>8, <1>2 DEF TypeOK
    <3> QED BY <3>1, <3>2
  <2>2. renameMap' \in [Regs -> PhysRegs]
    BY <2>1, <1>1
  <2>3. N \in SUBSET PhysRegs
    BY <1>3, <1>5
  <2>4. freeingInProgress' \in [Threads -> SUBSET PhysRegs]
    BY <2>3, <1>1, <1>2 DEF TypeOK
  <2> HIDE DEF N
  <2>5. /\ historyBuffer' \in SUBSET History
        /\ squashMsg' \in [Threads -> SeqNums \cup {None}]
    BY <1>1, <1>2 DEF TypeOK
  <2> QED BY <2>2, <2>4, <2>5, <1>1, <1>2 DEF TypeOK, execVars
<1>13. HistoryShape'
  BY <1>1, <1>2 DEF HistoryShape
(* Entries left behind are older than the undone ones of their register. *)
<1>a. ASSUME NEW g \in Renames', NEW k \in U, SameReg(g, k)
      PROVE  g.seq < k.seq
  <2>1. g \in Renames /\ g \notin U /\ k \in Renames
    BY <1>3
  <2>2. ~(k.seq <= g.seq)
    BY <2>1, <1>a, <1>6 DEF SameReg
  <2> QED BY <2>1, <2>2, <1>5
<1>14. HistoryChain'
  <2>1. ASSUME NEW g \in Renames',
               \A h \in Renames' : SameReg(g, h) => h.seq <= g.seq
        PROVE  g.new = renameMap'[<<g.tid, g.arch>>]
    <3>0. g \in Renames /\ <<g.tid, g.arch>> \in Regs
      BY <1>3, <1>5 DEF Regs
    <3>1. CASE \A h \in U : ~SameReg(g, h)
      <4>1. \A h \in Renames : SameReg(g, h) => h.seq <= g.seq
        BY <3>1, <2>1, <1>3
      <4>2. g.new = renameMap[<<g.tid, g.arch>>]
        BY <3>0, <4>1, <1>2 DEF HistoryChain
      <4>3. renameMap'[<<g.tid, g.arch>>] = renameMap[<<g.tid, g.arch>>]
        BY <3>0, <3>1, <1>8 DEF SameReg
      <4> QED BY <4>2, <4>3
    <3>2. ASSUME NEW h \in U, SameReg(g, h)
          PROVE  g.new = renameMap'[<<g.tid, g.arch>>]
      <4>1. PICK o \in U : /\ SameReg(h, o)
                           /\ \A k \in U : SameReg(h, k) => o.seq <= k.seq
                           /\ renameMap'[<<h.tid, h.arch>>] = o.prev
        BY <1>7
      <4>2. SameReg(g, o) /\ o \in Renames /\ g.seq < o.seq
        BY <4>1, <3>2, <1>3, <1>a DEF SameReg
      <4>3. \A k \in Renames : SameReg(g, k) => k.seq <= g.seq \/ o.seq <= k.seq
        BY <4>1, <3>2, <2>1, <1>3 DEF SameReg
      <4>4. g.new = o.prev
        BY <3>0, <4>2, <4>3, <1>2 DEF HistoryChain
      <4> QED BY <4>1, <4>4, <3>2 DEF SameReg
    <3> QED BY <3>1, <3>2
  <2>2. ASSUME NEW g \in Renames', NEW h \in Renames', SameReg(g, h), g.seq = h.seq
        PROVE  g = h
    BY <2>2, <1>2, <1>3 DEF HistoryChain
  <2>3. ASSUME NEW g \in Renames', NEW h \in Renames', SameReg(g, h),
               g.seq < h.seq,
               \A k \in Renames' :
                 SameReg(g, k) => k.seq <= g.seq \/ h.seq <= k.seq
        PROVE  g.new = h.prev
    <3>1. ASSUME NEW k \in U, SameReg(g, k) PROVE h.seq <= k.seq
      <4>1. SameReg(h, k)
        BY <2>3, <3>1 DEF SameReg
      <4>2. h.seq < k.seq
        BY <4>1, <1>a
      <4> QED BY <4>2, <1>3, <1>5
    <3>2. \A k \in Renames : SameReg(g, k) => k.seq <= g.seq \/ h.seq <= k.seq
      BY <3>1, <2>3, <1>3
    <3> QED BY <3>2, <2>3, <1>2, <1>3 DEF HistoryChain
  <2> QED BY <2>1, <2>2, <2>3, Zenon DEF HistoryChain, SameReg
<1>15. RegsConserved'
  <2>1. Superseded' = Superseded \ P
    BY <1>2, <1>3 DEF Superseded, RegsConserved
  <2>2. Freeing' = Freeing \cup N
    <3>1. /\ freeingInProgress'[t] = freeingInProgress[t] \cup N
          /\ \A u \in Threads : u # t =>
               freeingInProgress'[u] = freeingInProgress[u]
      BY <1>1, <1>2 DEF TypeOK
    <3> HIDE DEF N
    <3>2. ASSUME NEW p, NEW u \in Threads, p \in freeingInProgress'[u]
          PROVE  p \in Freeing \cup N
      BY <3>1, <3>2 DEF Freeing
    <3>3. ASSUME NEW p, NEW u \in Threads, p \in freeingInProgress[u]
          PROVE  p \in Freeing'
      BY <3>1, <3>3 DEF Freeing
    <3>4. N \subseteq Freeing'
      BY <3>1 DEF Freeing
    <3> QED BY <3>2, <3>3, <3>4 DEF Freeing
  <2>3. P \subseteq Superseded
    BY <1>3 DEF Superseded
  (* Registers of undone entries were current or superseded. *)
  <2>4. ASSUME NEW h \in U
        PROVE  \/ h.new \in P
               \/ h.new \in Mapped
    <3>1. <<h.tid, h.arch>> \in Regs
      BY <1>3, <1>5 DEF Regs
    <3> QED BY <3>1, <1>9 DEF Mapped
  <2>5. N \subseteq Mapped \cup P
    BY <2>4
  (* A current mapping is kept, or it is one of N; nothing else changes. *)
  <2>6. ASSUME NEW r \in Regs
        PROVE  \/ /\ renameMap'[r] = renameMap[r]
                  /\ renameMap[r] \notin N
               \/ /\ \E o \in U : /\ r = <<o.tid, o.arch>>
                                   /\ renameMap'[r] = o.prev
                                   /\ o.prev \notin N
                  /\ renameMap[r] \in N
    <3>1. CASE \A h \in U : r # <<h.tid, h.arch>>
      <4>1. renameMap'[r] = renameMap[r]
        BY <3>1, <1>8
      <4>2. ASSUME NEW h \in U, h.new = renameMap[r] PROVE FALSE
        <5>1. h.new # renameMap[<<h.tid, h.arch>>]
          <6>1. <<h.tid, h.arch>> \in Regs
            BY <1>3, <1>5 DEF Regs
          <6> QED BY <6>1, <4>2, <3>1, <1>2 DEF RegsConserved
        <5>2. h.new \in P
          BY <5>1, <1>9
        <5> QED BY <5>2, <4>2, <2>3, <1>2 DEF RegsConserved, Mapped
      <4> QED BY <4>1, <4>2
    <3>2. ASSUME NEW h \in U, r = <<h.tid, h.arch>>
          PROVE  /\ \E o \in U : /\ r = <<o.tid, o.arch>>
                                  /\ renameMap'[r] = o.prev
                                  /\ o.prev \notin N
                 /\ renameMap[r] \in N
      <4>1. PICK o \in U : /\ SameReg(h, o)
                           /\ \A k \in U : SameReg(h, k) => o.seq <= k.seq
                           /\ renameMap'[<<h.tid, h.arch>>] = o.prev
        BY <1>7
      <4>2. ASSUME NEW n \in U, n.new = o.prev PROVE FALSE
        <5>1. o.prev \in Superseded /\ <<n.tid, n.arch>> \in Regs
          BY <1>3, <1>5 DEF Superseded, Regs
        <5>2. n.new # renameMap[<<n.tid, n.arch>>]
          BY <5>1, <4>2, <1>2 DEF RegsConserved, Mapped
        <5>3. PICK g \in U : SameReg(n, g) /\ n.seq < g.seq /\ g.prev = n.new
          BY <5>2, <1>9
        <5>4. g = o
          BY <5>3, <4>2, <1>2, <1>3 DEF RegsConserved
        <5>5. o.seq <= n.seq
          BY <5>3, <5>4, <4>1 DEF SameReg
        <5> QED BY <5>3, <5>4, <5>5, <1>3, <1>5
      <4>3. renameMap[r] \in N
        BY <3>2, <1>11
      <4> QED BY <4>1, <4>2, <4>3, <3>2 DEF SameReg
    <3> QED BY <3>1, <3>2
  (* What an undone entry superseded becomes current again or is one of N. *)
  <2>7. P \subseteq Mapped' \cup N
    <3> SUFFICES ASSUME NEW h \in U PROVE h.prev \in Mapped' \cup N
      OBVIOUS
    <3>1. PICK o \in U : /\ SameReg(h, o)
                         /\ \A k \in U : SameReg(h, k) => o.seq <= k.seq
                         /\ renameMap'[<<h.tid, h.arch>>] = o.prev
      BY <1>7
    <3>2. CASE o.seq < h.seq
      BY <3>1, <3>2, <1>10
    <3>3. CASE o.seq = h.seq
      <4>1. o = h
        BY <3>1, <3>3, <1>2, <1>3 DEF HistoryChain, SameReg
      <4>2. <<h.tid, h.arch>> \in Regs
        BY <1>3, <1>5 DEF Regs
      <4> QED BY <3>1, <4>1, <4>2 DEF Mapped
    <3>4. o.seq \in Int /\ h.seq \in Int /\ o.seq <= h.seq
      BY <3>1, <1>3, <1>5 DEF SameReg
    <3> QED BY <3>2, <3>3, <3>4
  <2>8. /\ Mapped' \subseteq (Mapped \cup P) \ N
        /\ Mapped \subseteq Mapped' \cup N
    <3>1. ASSUME NEW r \in Regs
          PROVE  /\ renameMap'[r] \in (Mapped \cup P) \ N
                 /\ renameMap[r] \in Mapped' \cup N
      BY <2>6 DEF Mapped
    <3> QED BY <3>1 DEF Mapped
  <2>9. ASSUME NEW r \in Regs, NEW q \in Regs, renameMap'[r] = renameMap'[q]
        PROVE  r = q
    <3> DEFINE Kept(x) == renameMap'[x] = renameMap[x]
               Back(x) == \E o \in U : x = <<o.tid, o.arch>> /\ renameMap'[x] = o.prev
    <3>1. (Kept(r) \/ Back(r)) /\ (Kept(q) \/ Back(q))
      BY <2>6
    <3>2. Kept(r) /\ Kept(q) => r = q
      BY <2>9, <1>2 DEF RegsConserved
    <3>3. Back(r) /\ Back(q) => r = q
      BY <2>9, <1>2, <1>3 DEF RegsConserved
    <3>4. \A x \in Regs : /\ Kept(x) => renameMap'[x] \in Mapped
                          /\ Back(x) => renameMap'[x] \in Superseded
      BY <1>3 DEF Mapped, Superseded
    <3>5. Mapped \cap Superseded = {}
      BY <1>2 DEF RegsConserved
    <3> HIDE DEF Kept, Back
    <3> QED BY <3>1, <3>2, <3>3, <3>4, <3>5, <2>9
  <2>10. \A g, h \in Renames' : g.prev = h.prev => g = h
    BY <1>2, <1>3 DEF RegsConserved
  <2>11. ASSUME NEW u \in Threads, NEW v \in Threads, u # v
         PROVE  freeingInProgress'[u] \cap freeingInProgress'[v] = {}
    <3>1. \A w \in Threads : freeingInProgress'[w] \subseteq freeingInProgress[w] \cup (IF w = t THEN N ELSE {})
      BY <1>1, <1>2 DEF TypeOK
    <3>2. \A w \in Threads : freeingInProgress[w] \subseteq Freeing
      BY DEF Freeing
    <3>3. N \cap Freeing = {}
      BY <2>3, <2>5, <1>2 DEF RegsConserved
    <3>4. freeingInProgress[u] \cap freeingInProgress[v] = {}
      BY <2>11, <1>2 DEF RegsConserved
    <3> HIDE DEF N
    <3> QED BY <3>1, <3>2, <3>3, <3>4, <2>11
  <2>12. freeList' = freeList
    BY <1>1
  <2> HIDE DEF N, P
  <2>13. /\ PhysRegs = freeList' \cup Mapped' \cup Superseded' \cup Freeing'
         /\ freeList' \cap (Mapped' \cup Superseded' \cup Freeing') = {}
         /\ Mapped' \cap (Superseded' \cup Freeing') = {}
         /\ Superseded' \cap Freeing' = {}
    BY <2>1, <2>2, <2>3, <2>5, <2>7, <2>8, <2>12, <1>2 DEF RegsConserved
  <2> QED BY <2>9, <2>10, <2>11, <2>13 DEF RegsConserved
<1> QED BY <1>12, <1>13, <1>14, <1>15 DEF RegInv
(* Registers set aside by a squash become free, and only those. *)
LEMMA FreeSquashedRegInv ==
  ASSUME RegInv, NEW t \in Threads, FreeSquashed(t)
  PROVE  RegInv'
<1>1. /\ freeList' = freeList \cup freeingInProgress[t]
      /\ freeingInProgress' = [freeingInProgress EXCEPT ![t] = {}]
      /\ UNCHANGED <<renameMap, historyBuffer, execVars, commitVars, insts, nextSeq>>
  BY DEF FreeSquashed
<1>2. TypeOK /\ HistoryShape /\ HistoryChain /\ RegsConserved
  BY DEF RegInv
<1>3. TypeOK'
  BY <1>1, <1>2 DEF TypeOK, execVars, commitVars
<1>4. HistoryShape'
  BY <1>1, <1>2 DEF HistoryShape
<1>5. Renames' = Renames /\ renameMap' = renameMap
  BY <1>1 DEF Renames
<1>6. HistoryChain'
  BY HistoryChainFrame, <1>2, <1>5
<1>7. RegsConserved'
  <2>1. Mapped' = Mapped /\ Superseded' = Superseded
    BY <1>5 DEF Mapped, Superseded
  <2>2. /\ \A u \in Threads : freeingInProgress'[u] =
                               IF u = t THEN {} ELSE freeingInProgress[u]
        /\ \A u \in Threads : u # t => freeingInProgress[u] \cap freeingInProgress[t] = {}
    BY <1>1, <1>2 DEF TypeOK, RegsConserved
  <2>3. Freeing' = Freeing \ freeingInProgress[t]
    BY <2>2 DEF Freeing
  <2>4. freeingInProgress[t] \subseteq Freeing
    BY DEF Freeing
  <2>5. \A u, v \in Threads : u # v =>
          freeingInProgress'[u] \cap freeingInProgress'[v] = {}
    BY <2>2, <1>2 DEF RegsConserved
  <2>6. /\ PhysRegs = freeList' \cup Mapped' \cup Superseded' \cup Freeing'
        /\ freeList' \cap (Mapped' \cup Superseded' \cup Freeing') = {}
        /\ Mapped' \cap (Superseded' \cup Freeing') = {}
        /\ Superseded' \cap Freeing' = {}
    BY <2>1, <2>3, <2>4, <1>1, <1>2 DEF RegsConserved
  <2> QED BY <2>5, <2>6, <1>2, <1>5 DEF RegsConserved
<1> QED BY <1>3, <1>4, <1>6, <1>7 DEF RegInv

(* Execution and commit do not touch rename's bookkeeping. *)
LEMMA OtherStepsRegInv ==
  ASSUME RegInv,
         \/ \E i \in insts : Execute(i) \/ Writeback(i) \/ CommitHead(i)
         \/ \E t \in Threads, s \in SeqNums : CommitSquash(t, s)
         \/ \E t \in Threads : MarkSquashed(t) \/ SquashDone(t)
         \/ UNCHANGED vars
  PROVE  RegInv'
<1> SUFFICES /\ TypeOK'
             /\ UNCHANGED renameVars /\ nextSeq' = nextSeq
  BY RegFrame
<1>0. TypeOK
  BY DEF RegInv
<1>1. ASSUME NEW i \in insts, NEW st \in States
      PROVE  SetState(i, st) \in SUBSET Insts
  BY <1>0 DEF TypeOK, SetState, Insts
<1>2. ASSUME NEW i \in insts, Execute(i)
      PROVE  TypeOK' /\ UNCHANGED renameVars /\ nextSeq' = nextSeq
  <2>1. i.seq \in SeqNums
    BY <1>0 DEF TypeOK, Insts
  <2>2. insts' \in SUBSET Insts
    BY <1>1, <1>2 DEF Execute, States
  <2>3. regFile' \in [PhysRegs -> SeqNums]
    BY <2>1, <1>0, <1>2 DEF Execute, TypeOK
  <2> QED BY <2>2, <2>3, <1>0, <1>2 DEF Execute, TypeOK, renameVars, commitVars
<1>3. ASSUME NEW i \in insts, Writeback(i)
      PROVE  TypeOK' /\ UNCHANGED renameVars /\ nextSeq' = nextSeq
  <2>1. insts' \in SUBSET Insts
    BY <1>1, <1>3 DEF Writeback, States
  <2>2. scoreboard' \in [PhysRegs -> BOOLEAN]
    BY <1>0, <1>3 DEF Writeback, TypeOK
  <2> QED BY <2>1, <2>2, <1>0, <1>3 DEF Writeback, TypeOK, renameVars, commitVars
<1>4. ASSUME NEW i \in insts, CommitHead(i)
      PROVE  TypeOK' /\ UNCHANGED renameVars /\ nextSeq' = nextSeq
  <2>1. i.seq \in SeqNums /\ i.dests \in SUBSET (ArchRegs \X PhysRegs)
    BY <1>0 DEF TypeOK, Insts
  <2>2. commitMap' \in [Regs -> PhysRegs]
    <3>1. ASSUME NEW r \in Regs, \E x \in i.dests : x[1] = r[2]
          PROVE  (CHOOSE x \in i.dests : x[1] = r[2])[2] \in PhysRegs
      BY <3>1, <2>1
    <3> QED BY <3>1, <1>0, <1>4 DEF CommitHead, TypeOK
  <2>3. archWriter' \in [Regs -> SeqNums]
    BY <2>1, <1>0, <1>4 DEF CommitHead, TypeOK
  <2>4. lastCommitted' \in [Threads -> SeqNums]
    BY <2>1, <1>0, <1>4 DEF CommitHead, TypeOK
  <2> QED BY <2>2, <2>3, <2>4, <1>0, <1>4 DEF CommitHead, TypeOK, renameVars, execVars
<1>5. ASSUME NEW t \in Threads, NEW s \in SeqNums, CommitSquash(t, s)
      PROVE  TypeOK' /\ UNCHANGED renameVars /\ nextSeq' = nextSeq
  <2>1. \A i \in insts : i.seq \in SeqNums
    BY <1>0 DEF TypeOK, Insts
  <2>2. doomed' \in SUBSET SeqNums
    BY <2>1, <1>0, <1>5 DEF CommitSquash, TypeOK
  <2> QED BY <2>2, <1>0, <1>5 DEF CommitSquash, TypeOK, renameVars, execVars
<1>6. ASSUME NEW t \in Threads, MarkSquashed(t)
      PROVE  TypeOK' /\ UNCHANGED renameVars /\ nextSeq' = nextSeq
  BY <1>0, <1>6 DEF MarkSquashed, TypeOK, renameVars, execVars
<1>7. ASSUME NEW t \in Threads, SquashDone(t)
      PROVE  TypeOK' /\ UNCHANGED renameVars /\ nextSeq' = nextSeq
  BY <1>0, <1>7 DEF SquashDone, TypeOK, renameVars, execVars
<1>8. ASSUME UNCHANGED vars
      PROVE  TypeOK' /\ UNCHANGED renameVars /\ nextSeq' = nextSeq
  BY <1>0, <1>8 DEF vars, TypeOK, renameVars, execVars, commitVars
<1> QED BY <1>2, <1>3, <1>4, <1>5, <1>6, <1>7, <1>8

-----------------------------------------------------------------------------
(* Type correctness and conservation of the physical registers, with the     *)
(* history chain they rest on, hold in every reachable state.                *)
THEOREM RegsSafe == Spec => [](TypeOK /\ RegsConserved /\ HistoryChain)
<1>1. Init => RegInv
  BY InitRegInv
<1>2. RegInv /\ [Next]_vars => RegInv'
  BY RenameInstRegInv, RemoveFromHistoryRegInv, RenameSquashRegInv,
     FreeSquashedRegInv, OtherStepsRegInv DEF Next
<1>3. RegInv => TypeOK /\ RegsConserved /\ HistoryChain
  BY DEF RegInv
<1> QED BY <1>1, <1>2, <1>3, PTL DEF Spec
=============================================================================
