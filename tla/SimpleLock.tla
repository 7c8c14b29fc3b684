----------------------------- MODULE SimpleLock ------------------------------
(***************************************************************************)
(* nn::os::SimpleLock, the lock under CriticalSection and LightEvent.  The *)
(* counter is positive when the lock is free and negative when it is held; *)
(* its magnitude is one more than the number of registered waiters.        *)
(*                                                                         *)
(* pc[t] is where thread t stands:                                         *)
(*   "idle"      outside the lock                                          *)
(*   "register"  LockImpl, first loop: about to count itself as a waiter   *)
(*   "retry"     LockImpl, first loop: found it free, about to TryLock     *)
(*   "wait"      LockImpl, second loop: about to call WaitIfLessThan(0)    *)
(*   "wake"      returned from the wait, or asleep in it (t \in blocked)   *)
(*   "locked"    owns the lock                                             *)
(*   "signal"    Unlock: gave the lock up, about to wake a waiter          *)
(***************************************************************************)
EXTENDS WaitableCounter

CONSTANT Threads

ASSUME ThreadsFinite == IsFiniteSet(Threads)

VARIABLE pc         \* `counter' and `blocked' are m_Counter's

vars == <<counter, blocked, pc>>

Goto(t, place) == pc' = [pc EXCEPT ![t] = place]

Init ==
    /\ counter = 1
    /\ blocked = {}
    /\ pc = [t \in Threads |-> "idle"]

\* TryLock: reverse the counter if it is positive; otherwise go on at `failed'.
TryLockOr(t, failed) ==
    /\ IF counter > 0
       THEN counter' = -counter /\ Goto(t, "locked")
       ELSE counter' = counter /\ Goto(t, failed)
    /\ UNCHANGED blocked

\* The public TryLock, and the TryLock that Lock starts with.
TryLock(t) == pc[t] = "idle" /\ TryLockOr(t, "idle")
Lock(t) == pc[t] = "idle" /\ TryLockOr(t, "register")

\* LockImpl: incrementNumWaiterIfLocked, and TryLock when it was not locked.
Register(t) ==
    /\ pc[t] = "register"
    /\ IF counter < 0
       THEN counter' = counter - 1 /\ Goto(t, "wait")
       ELSE counter' = counter /\ Goto(t, "retry")
    /\ UNCHANGED blocked

Retry(t) == pc[t] = "retry" /\ TryLockOr(t, "register")

\* LockImpl: the wait, and decrementNumWaiterAndLockIfUnlocked after it.
Wait(t) ==
    /\ pc[t] = "wait"
    /\ WaitIfLessThan(t, 0)
    /\ Goto(t, "wake")

\* Mutants of Wake: the woken waiter takes the lock without looking; the
\* waiter that gets it stays counted.
WakeBlindly(t) ==
    /\ pc[t] = "wake"
    /\ t \notin blocked
    /\ counter' = IF counter > 0 THEN -counter + 1 ELSE counter
    /\ Goto(t, "locked")
    /\ UNCHANGED blocked

WakeStillCounted(t) ==
    /\ pc[t] = "wake"
    /\ t \notin blocked
    /\ TryLockOr(t, "wait")

Wake(t) ==
    /\ pc[t] = "wake"
    /\ t \notin blocked
    /\ IF counter > 0
       THEN counter' = -counter + 1 /\ Goto(t, "locked")
       ELSE counter' = counter /\ Goto(t, "wait")
    /\ UNCHANGED blocked

\* Mutant of Unlock: the test for waiters is off by one.
UnlockOffByOne(t) ==
    /\ pc[t] = "locked"
    /\ counter' = -counter
    /\ Goto(t, IF counter' > 2 THEN "signal" ELSE "idle")
    /\ UNCHANGED blocked

\* Unlock: reverse the counter, then wake one waiter if any is registered.
Unlock(t) ==
    /\ pc[t] = "locked"
    /\ counter' = -counter
    /\ Goto(t, IF counter' > 1 THEN "signal" ELSE "idle")
    /\ UNCHANGED blocked

SignalOne(t) ==
    /\ pc[t] = "signal"
    /\ Signal(1)
    /\ Goto(t, "idle")

\* The steps a thread takes by itself once it has called Lock or Unlock.
Step(t) == Register(t) \/ Retry(t) \/ Wait(t) \/ Wake(t) \/ SignalOne(t)

Next == \E t \in Threads : Lock(t) \/ TryLock(t) \/ Step(t) \/ Unlock(t)

SafeSpec == Init /\ [][Next]_vars

\* A thread inside Lock or Unlock keeps running unless it sleeps, and the
\* owner eventually unlocks; nobody has to call Lock.
Fairness == \A t \in Threads : WF_vars(Step(t)) /\ WF_vars(Unlock(t))

Spec == SafeSpec /\ Fairness

------------------------------------------------------------------------------
Owners  == {t \in Threads : pc[t] = "locked"}
Waiters == {t \in Threads : pc[t] \in {"wait", "wake"}}

\* Every variable has its type; the counter is never 0, which would be neither
\* free nor held and which no update would ever leave.
TypeOK ==
    /\ counter \in Int \ {0}
    /\ blocked \subseteq Threads
    /\ pc \in [Threads -> {"idle", "register", "retry", "wait", "wake",
                           "locked", "signal"}]

\* At most one thread owns the lock.
MutualExclusion == \A t, u \in Owners : t = u

\* The counter tells the truth: negative exactly while the lock is owned, and
\* its magnitude is one more than the number of registered waiters, whatever
\* the order of registrations, barging, wake-ups and releases.
CounterExact ==
    /\ counter < 0 <=> Owners # {}
    /\ IF counter < 0 THEN -counter = 1 + Cardinality(Waiters)
                      ELSE counter = 1 + Cardinality(Waiters)

\* No wake-up is lost: whenever the lock is free and a thread sleeps on it,
\* a signal is still to come or a registered waiter is awake to take it.
NoLostWakeup ==
    counter > 0 /\ blocked # {} =>
        \/ \E t \in Threads : pc[t] = "signal"
        \/ Waiters \ blocked # {}

Phase == [t \in Threads |->
            IF pc[t] = "locked" THEN "in"
            ELSE IF pc[t] \in {"idle", "signal"} THEN "out"
            ELSE "trying"]

Abstract == INSTANCE Mutex WITH phase <- Phase

\* SimpleLock implements the abstract lock, its progress promise included.
ImplementsMutex == Abstract!Spec
==============================================================================
