--------------------------- MODULE BarrierProofs ---------------------------
(* The barrier of the host threads is a barrier, for any number of threads  *)
(* and any width of the generation counter.                                 *)
EXTENDS Barrier, FiniteSetTheorems, TLAPS

\* The round in progress is n: those who came to it wait with its generation;
\* those still inside from the round before hold another one.
Come(n) == {t \in Threads : arrived[t] = n + 1}

BarrierInv ==
    /\ BarrierTypeOK
    /\ \E n \in Nat :
        /\ \A t \in Threads : arrived[t] \in {n, n + 1}
        /\ \A t \in Come(n) : t \in waiting /\ gen[t] = generation
        /\ \A t \in waiting : arrived[t] = n => gen[t] # generation
        /\ \A t \in waiting : arrived[t] > 0
        /\ numLeft + Cardinality(Come(n)) = numWaiting

LEMMA GenerationMoves ==
    ASSUME BarrierConstants, NEW g \in 0..(Generations - 1)
    PROVE  (g + 1) % Generations \in 0..(Generations - 1) /\ (g + 1) % Generations # g
<1>1. CASE g + 1 = Generations
  <2>1. (g + 1) % Generations = 0
    BY <1>1 DEF BarrierConstants
  <2> QED
    BY <2>1, <1>1 DEF BarrierConstants
<1>2. CASE g + 1 < Generations
  <2>1. (g + 1) % Generations = g + 1
    BY <1>2 DEF BarrierConstants
  <2> QED
    BY <2>1, <1>2 DEF BarrierConstants
<1> QED
  BY <1>1, <1>2 DEF BarrierConstants

LEMMA NumWaitingPositive == ASSUME BarrierConstants PROVE numWaiting \in Nat \ {0}
  BY FS_CardinalityType, FS_EmptySet DEF BarrierConstants, numWaiting

LEMMA BarrierInvInit == ASSUME BarrierConstants PROVE Init => BarrierInv
<1> SUFFICES ASSUME Init PROVE BarrierInv
  OBVIOUS
<1>1. BarrierTypeOK
  BY NumWaitingPositive DEF BarrierConstants, Init, BarrierTypeOK
<1>2. Come(0) = {}
  BY DEF Come, Init
<1>3. numLeft + Cardinality(Come(0)) = numWaiting
  BY <1>2, FS_EmptySet, NumWaitingPositive DEF Init
<1> QED
  BY <1>1, <1>2, <1>3 DEF BarrierInv, Init

LEMMA BarrierInvArrive ==
    ASSUME BarrierConstants, BarrierInv, NEW t \in Threads, Arrive(t)
    PROVE  BarrierInv'
<1> PICK n \in Nat :
        /\ \A u \in Threads : arrived[u] \in {n, n + 1}
        /\ \A u \in Come(n) : u \in waiting /\ gen[u] = generation
        /\ \A u \in waiting : arrived[u] = n => gen[u] # generation
        /\ \A u \in waiting : arrived[u] > 0
        /\ numLeft + Cardinality(Come(n)) = numWaiting
  BY DEF BarrierInv
<1> USE NumWaitingPositive
<1>1. arrived[t] = n /\ t \notin Come(n) /\ arrived'[t] = n + 1
  BY DEF Arrive, Come, BarrierInv, BarrierTypeOK
<1>2. IsFiniteSet(Come(n)) /\ Cardinality(Come(n)) \in Nat /\ Come(n) \subseteq Threads
  <2>1. Come(n) \subseteq Threads
    BY DEF Come
  <2> QED
    BY <2>1, FS_Subset, FS_CardinalityType DEF BarrierConstants
<1>3. \A u \in Threads : arrived'[u] = IF u = t THEN n + 1 ELSE arrived[u]
  BY <1>1 DEF Arrive, BarrierInv, BarrierTypeOK
<1>4. BarrierTypeOK'
  BY GenerationMoves DEF Arrive, BarrierInv, BarrierTypeOK
<1>a. Cardinality(Come(n) \cup {t}) = Cardinality(Come(n)) + 1
  BY <1>1, <1>2, FS_AddElement, Zenon
<1>5. CASE numLeft = 1
  \* Everybody has come: the round n + 1 begins and nobody has come to it yet.
  <2>1. Cardinality(Come(n) \cup {t}) = Cardinality(Threads)
    BY <1>a, <1>2, <1>5 DEF numWaiting
  <2>2. Come(n) \cup {t} = Threads
    BY <2>1, <1>2, FS_Subset DEF BarrierConstants
  <2>3. \A u \in Threads : arrived'[u] = n + 1
    BY <2>2, <1>3 DEF Come
  <2>4. Come(n + 1)' = {}
    BY <2>3 DEF Come
  <2>5. generation' # generation /\ numLeft' = numWaiting /\ waiting' = waiting /\ gen' = gen
    BY <1>5, GenerationMoves DEF Arrive, BarrierInv, BarrierTypeOK
  <2>6. \A u \in waiting : gen[u] = generation
    <3>1. t \notin waiting
      BY DEF Arrive
    <3> QED
      BY <3>1, <2>2 DEF BarrierInv, BarrierTypeOK
  <2>7. numLeft' + Cardinality(Come(n + 1)') = numWaiting
    BY <2>4, <2>5, FS_EmptySet
  <2>8. \A u \in waiting' : u \in Threads
    BY <2>5 DEF BarrierInv, BarrierTypeOK
  <2> QED
    BY <1>4, <2>3, <2>4, <2>5, <2>6, <2>7, <2>8 DEF BarrierInv
<1>6. CASE numLeft > 1
  <2>1. Come(n)' = Come(n) \cup {t}
    BY <1>1, <1>3 DEF Come
  <2>2. Cardinality(Come(n)') = Cardinality(Come(n)) + 1
    BY <2>1, <1>a
  <2>3. /\ generation' = generation /\ numLeft' = numLeft - 1
        /\ waiting' = waiting \cup {t} /\ gen' = [gen EXCEPT ![t] = generation]
    BY <1>6 DEF Arrive
  <2>4. numLeft' + Cardinality(Come(n)') = numWaiting
    BY <2>2, <2>3, <1>2 DEF BarrierInv, BarrierTypeOK
  <2>5. \A u \in Come(n)' : u \in waiting' /\ gen'[u] = generation'
    BY <2>1, <2>3, <1>2 DEF BarrierInv, BarrierTypeOK
  <2>6. \A u \in waiting' : /\ arrived'[u] = n => gen'[u] # generation'
                            /\ arrived'[u] > 0
    BY <2>3, <1>3, <1>1 DEF BarrierInv, BarrierTypeOK
  <2> QED
    BY <1>3, <1>4, <2>4, <2>5, <2>6 DEF BarrierInv
<1> QED
  BY <1>5, <1>6 DEF Arrive

LEMMA BarrierInvLeave ==
    ASSUME BarrierInv, NEW t \in Threads, Leave(t)
    PROVE  BarrierInv'
<1> PICK n \in Nat :
        /\ \A u \in Threads : arrived[u] \in {n, n + 1}
        /\ \A u \in Come(n) : u \in waiting /\ gen[u] = generation
        /\ \A u \in waiting : arrived[u] = n => gen[u] # generation
        /\ \A u \in waiting : arrived[u] > 0
        /\ numLeft + Cardinality(Come(n)) = numWaiting
  BY DEF BarrierInv
<1>1. Come(n)' = Come(n) /\ t \notin Come(n)
  BY DEF Leave, Come
<1>2. BarrierTypeOK'
  BY DEF Leave, BarrierInv, BarrierTypeOK
<1>3. /\ \A u \in Threads : arrived'[u] \in {n, n + 1}
      /\ \A u \in Come(n)' : u \in waiting' /\ gen'[u] = generation'
      /\ \A u \in waiting' : arrived'[u] = n => gen'[u] # generation'
      /\ \A u \in waiting' : arrived'[u] > 0
      /\ numLeft' + Cardinality(Come(n)') = numWaiting
  BY <1>1 DEF Leave
<1> QED
  BY <1>2, <1>3 DEF BarrierInv

LEMMA BarrierInvStutter == BarrierInv /\ UNCHANGED vars => BarrierInv'
  BY DEF BarrierInv, BarrierTypeOK, Come, vars

LEMMA BarrierInvImplies == BarrierInv => NobodyPassesEarly
<1> SUFFICES ASSUME BarrierInv, NEW t \in Threads, NEW u \in Threads
             PROVE  Left(t) <= arrived[u]
  BY DEF NobodyPassesEarly
<1> PICK n \in Nat :
        /\ \A v \in Threads : arrived[v] \in {n, n + 1}
        /\ \A v \in Come(n) : v \in waiting
  BY DEF BarrierInv
<1>1. arrived[t] = n + 1 => t \in waiting
  BY DEF Come
<1> QED
  BY <1>1 DEF Left, BarrierInv, BarrierTypeOK

\* No host thread passes the barrier early (Barrier::wait), for any number of
\* threads and a generation counter of any width of at least one bit.
THEOREM BarrierSafe == ASSUME BarrierConstants PROVE Spec => []NobodyPassesEarly
<1>0. Init => BarrierInv
  BY BarrierInvInit
<1>1. BarrierInv /\ [Next]_vars => BarrierInv'
  BY BarrierInvArrive, BarrierInvLeave, BarrierInvStutter DEF Next
<1> QED
  BY <1>0, <1>1, BarrierInvImplies, PTL DEF Spec
=============================================================================
