------------------------------ MODULE Barrier ------------------------------
(***************************************************************************)
(* The reusable barrier of the host threads, base/barrier.hh.  bMutex makes*)
(* the arrival of a thread one step, up to the point where it sleeps on    *)
(* bCond; it leaves when it finds the generation changed.                  *)
(***************************************************************************)
EXTENDS Naturals, FiniteSets

CONSTANTS Threads,     \* numWaiting is their number
          Generations, \* values of the unsigned generation counter
          MaxRounds    \* bound on the arrivals of a thread

\* What the theorem assumes of the constants.
BarrierConstants ==
    /\ IsFiniteSet(Threads) /\ Threads # {}
    /\ Generations \in Nat /\ Generations >= 2
    /\ MaxRounds \in Nat

numWaiting == Cardinality(Threads)

VARIABLES generation, numLeft,
          waiting,  \* the threads inside wait()
          gen,      \* their local copy of the generation
          arrived   \* how often a thread has entered wait()

vars == <<generation, numLeft, waiting, gen, arrived>>

BarrierTypeOK ==
    /\ generation \in 0..(Generations - 1)
    /\ numLeft \in 1..numWaiting
    /\ waiting \in SUBSET Threads
    /\ gen \in [Threads -> 0..(Generations - 1)]
    /\ arrived \in [Threads -> Nat]

Init ==
    /\ generation = 0 /\ numLeft = numWaiting
    /\ waiting = {} /\ gen = [t \in Threads |-> 0]
    /\ arrived = [t \in Threads |-> 0]

\* The last thread to arrive opens the barrier and returns true at once.
Arrive(t) ==
    /\ t \notin waiting /\ arrived[t] < MaxRounds
    /\ arrived' = [arrived EXCEPT ![t] = @ + 1]
    /\ \/ /\ numLeft = 1
          /\ generation' = (generation + 1) % Generations
          /\ numLeft' = numWaiting
          /\ UNCHANGED <<waiting, gen>>
       \/ /\ numLeft > 1
          /\ numLeft' = numLeft - 1
          /\ waiting' = waiting \cup {t}
          /\ gen' = [gen EXCEPT ![t] = generation]
          /\ UNCHANGED generation

\* while (gen == generation) bCond.wait(lock); return false.  A spurious wake-up
\* finds the generation unchanged and sleeps again.
Leave(t) ==
    /\ t \in waiting /\ gen[t] # generation
    /\ waiting' = waiting \ {t}
    /\ UNCHANGED <<generation, numLeft, gen, arrived>>

Next == \E t \in Threads : Arrive(t) \/ Leave(t)

Spec == Init /\ [][Next]_vars

-----------------------------------------------------------------------------
Left(t) == IF t \in waiting THEN arrived[t] - 1 ELSE arrived[t]

\* Nobody passes the barrier for the nth time before everybody has come to it n
\* times, although fast threads enter the next round while slow ones still have
\* to wake up from the last, and although the generation counter wraps around.
NobodyPassesEarly == \A t, u \in Threads : Left(t) <= arrived[u]
=============================================================================
