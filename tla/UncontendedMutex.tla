-------------------------- MODULE UncontendedMutex --------------------------
(***************************************************************************)
(* The lock of the event queues, base/uncontended_mutex.hh: one atomic     *)
(* compare-and-exchange when nobody competes, a mutex m and a condition    *)
(* variable cv otherwise.  Every access to flag, m and cv is a step.       *)
(***************************************************************************)
EXTENDS Naturals

CONSTANTS Threads,   \* the host threads that use the lock
          NoThread,  \* nobody holds m
          MaxFlag    \* cv wakes a thread without a cause while flag is below this

\* What the theorems assume of the constants.
MutexConstants == NoThread \notin Threads /\ MaxFlag \in Nat

VARIABLES flag,  \* 0: free, 1: held, more: held and somebody waits
          m,     \* the thread that holds the inner mutex
          pc     \* where a thread is in lock() or unlock()

vars == <<flag, m, pc>>

\* States that hold the lock: from the step that took it to the one that frees it.
Owning == {"leave", "locked", "unlock", "slow", "clear"}
\* States that hold the inner mutex.
Inside == {"add", "wait", "leave", "awake", "clear", "release"}
States == Owning \cup Inside \cup {"idle", "try", "enter", "asleep", "woken", "notify"}

MutexTypeOK ==
    /\ flag \in Nat
    /\ m \in Threads \cup {NoThread}
    /\ pc \in [Threads -> States]

Init == flag = 0 /\ m = NoThread /\ pc = [t \in Threads |-> "idle"]

Goto(t, s) == pc' = [pc EXCEPT ![t] = s]
EnterM(t) == m = NoThread /\ m' = t
LeaveM == m' = NoThread

-----------------------------------------------------------------------------
Call(t) == pc[t] = "idle" /\ Goto(t, "try") /\ UNCHANGED <<flag, m>>

\* while (!testAndSet(0, 1))
TryLock(t) ==
    /\ pc[t] = "try"
    /\ \/ flag = 0 /\ flag' = 1 /\ Goto(t, "locked")
       \/ flag # 0 /\ UNCHANGED flag /\ Goto(t, "enter")
    /\ UNCHANGED m

LockInner(t) == pc[t] = "enter" /\ EnterM(t) /\ Goto(t, "add") /\ UNCHANGED flag

\* if (flag++ == 0) break;
AddWaiter(t) ==
    /\ pc[t] = "add"
    /\ flag' = flag + 1
    /\ Goto(t, IF flag = 0 THEN "leave" ELSE "wait")
    /\ UNCHANGED m

\* The guard of the inner mutex goes out of scope after the break.
Leave(t) == pc[t] = "leave" /\ LeaveM /\ Goto(t, "locked") /\ UNCHANGED flag

\* cv.wait(ul) releases m and sleeps; it locks m again before it returns, and
\* the guard releases it at the end of the loop body.
Sleep(t) == pc[t] = "wait" /\ LeaveM /\ Goto(t, "asleep") /\ UNCHANGED flag
WakeSpuriously(t) ==
    /\ pc[t] = "asleep" /\ flag < MaxFlag /\ Goto(t, "woken") /\ UNCHANGED <<flag, m>>
Relock(t) == pc[t] = "woken" /\ EnterM(t) /\ Goto(t, "awake") /\ UNCHANGED flag
LoopBack(t) == pc[t] = "awake" /\ LeaveM /\ Goto(t, "try") /\ UNCHANGED flag

Return(t) == pc[t] = "locked" /\ Goto(t, "unlock") /\ UNCHANGED <<flag, m>>

\* if (testAndSet(1, 0)) return;
FastUnlock(t) ==
    /\ pc[t] = "unlock"
    /\ \/ flag = 1 /\ flag' = 0 /\ Goto(t, "idle")
       \/ flag # 1 /\ UNCHANGED flag /\ Goto(t, "slow")
    /\ UNCHANGED m

SlowUnlock(t) == pc[t] = "slow" /\ EnterM(t) /\ Goto(t, "clear") /\ UNCHANGED flag

Clear(t) == pc[t] = "clear" /\ flag' = 0 /\ Goto(t, "release") /\ UNCHANGED m

Release(t) == pc[t] = "release" /\ LeaveM /\ Goto(t, "notify") /\ UNCHANGED flag

\* cv.notify_all()
NotifyAll(t) ==
    /\ pc[t] = "notify"
    /\ pc' = [u \in Threads |-> IF u = t THEN "idle"
                                ELSE IF pc[u] = "asleep" THEN "woken" ELSE pc[u]]
    /\ UNCHANGED <<flag, m>>

Step(t) ==
    \/ Call(t) \/ WakeSpuriously(t) \/ TryLock(t) \/ LockInner(t) \/ AddWaiter(t) \/ Leave(t) \/ Sleep(t)
    \/ Relock(t) \/ LoopBack(t) \/ Return(t)
    \/ FastUnlock(t) \/ SlowUnlock(t) \/ Clear(t) \/ Release(t) \/ NotifyAll(t)

Next == \E t \in Threads : Step(t)

Spec == Init /\ [][Next]_vars

-----------------------------------------------------------------------------
\* No two threads hold the lock, whichever of the two ways they took it: the
\* exchange outside m or the increment under m (lock()).
MutualExclusion ==
    \A t, u \in Threads : pc[t] \in Owning /\ pc[u] \in Owning => t = u

\* A thread sleeps on cv only while the owner is bound to find flag above 1, and
\* so to notify, or while a notification is on its way (unlock()).
NoLostWakeup ==
    \A t \in Threads : pc[t] = "asleep" =>
        flag >= 2 \/ \E u \in Threads : pc[u] \in {"release", "notify"}
=============================================================================
