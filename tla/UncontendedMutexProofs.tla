----------------------- MODULE UncontendedMutexProofs -----------------------
(* The lock of the event queues is a lock, for any number of threads. *)
EXTENDS UncontendedMutex, TLAPS

\* flag is zero exactly when nobody owns the lock, and the inner mutex belongs to
\* the thread whose program counter says so.
MutexInv ==
    /\ MutexTypeOK
    /\ MutualExclusion
    /\ \A t \in Threads : pc[t] \in Owning => flag # 0
    /\ flag # 0 => \E t \in Threads : pc[t] \in Owning
    /\ \A t \in Threads : m = t <=> pc[t] \in Inside
    /\ \A t \in Threads : pc[t] = "wait" => flag >= 2
    /\ NoLostWakeup

LEMMA MutexInvInit == ASSUME MutexConstants PROVE Init => MutexInv
  BY DEF MutexConstants, Init, MutexInv, MutexTypeOK, MutualExclusion, NoLostWakeup,
     Owning, Inside, States

LEMMA MutexInvStep == ASSUME MutexConstants PROVE MutexInv /\ [Next]_vars => MutexInv'
<1> SUFFICES ASSUME MutexInv, [Next]_vars PROVE MutexInv'
  OBVIOUS
<1> USE DEF MutexConstants, MutexInv, MutexTypeOK, MutualExclusion, NoLostWakeup,
        Owning, Inside, States, Goto, EnterM, LeaveM
<1>0. CASE UNCHANGED vars
  BY <1>0 DEF vars
<1>1. ASSUME NEW t \in Threads, Call(t) PROVE MutexInv'
  BY <1>1 DEF Call
<1>2. ASSUME NEW t \in Threads, TryLock(t) PROVE MutexInv'
  BY <1>2 DEF TryLock
<1>3. ASSUME NEW t \in Threads, LockInner(t) PROVE MutexInv'
  BY <1>3 DEF LockInner
<1>4. ASSUME NEW t \in Threads, AddWaiter(t) PROVE MutexInv'
  BY <1>4 DEF AddWaiter
<1>5. ASSUME NEW t \in Threads, Leave(t) PROVE MutexInv'
  BY <1>5 DEF Leave
<1>6. ASSUME NEW t \in Threads, Sleep(t) PROVE MutexInv'
  BY <1>6 DEF Sleep
<1>7. ASSUME NEW t \in Threads, WakeSpuriously(t) PROVE MutexInv'
  BY <1>7 DEF WakeSpuriously
<1>8. ASSUME NEW t \in Threads, Relock(t) PROVE MutexInv'
  BY <1>8 DEF Relock
<1>9. ASSUME NEW t \in Threads, LoopBack(t) PROVE MutexInv'
  BY <1>9 DEF LoopBack
<1>10. ASSUME NEW t \in Threads, Return(t) PROVE MutexInv'
  BY <1>10 DEF Return
<1>11. ASSUME NEW t \in Threads, FastUnlock(t) PROVE MutexInv'
  BY <1>11 DEF FastUnlock
<1>12. ASSUME NEW t \in Threads, SlowUnlock(t) PROVE MutexInv'
  BY <1>12 DEF SlowUnlock
<1>13. ASSUME NEW t \in Threads, Clear(t) PROVE MutexInv'
  BY <1>13 DEF Clear
<1>14. ASSUME NEW t \in Threads, Release(t) PROVE MutexInv'
  BY <1>14 DEF Release
<1>15. ASSUME NEW t \in Threads, NotifyAll(t) PROVE MutexInv'
  BY <1>15 DEF NotifyAll
<1> QED
  BY <1>0, <1>1, <1>2, <1>3, <1>4, <1>5, <1>6, <1>7, <1>8, <1>9, <1>10, <1>11,
     <1>12, <1>13, <1>14, <1>15 DEF Next, Step

\* Two threads never hold an event queue's lock together, and no thread sleeps
\* without somebody bound to wake it: lock() and unlock(), any number of threads.
THEOREM MutexSafe ==
    ASSUME MutexConstants PROVE Spec => [](MutualExclusion /\ NoLostWakeup)
<1>1. Init => MutexInv
  BY MutexInvInit
<1>2. MutexInv /\ [Next]_vars => MutexInv'
  BY MutexInvStep
<1>3. MutexInv => MutualExclusion /\ NoLostWakeup
  BY DEF MutexInv
<1> QED
  BY <1>1, <1>2, <1>3, PTL DEF Spec
=============================================================================
