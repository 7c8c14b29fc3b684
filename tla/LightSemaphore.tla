--------------------------- MODULE LightSemaphore ----------------------------
(***************************************************************************)
(* nn::os::LightSemaphore, and InterCoreLightSemaphore, which differs only *)
(* in memory barriers.  m_Counter holds the tokens; m_NumWaiting lets      *)
(* Release skip the kernel call when nobody can be asleep.                 *)
(*                                                                         *)
(* pc[t]: "idle", then in Acquire "try" (TryAcquire), "count" (about to    *)
(* add itself to m_NumWaiting), "wait" (about to call WaitIfLessThan(1)),  *)
(* "wake" (asleep, or about to take itself off m_NumWaiting); in Release   *)
(* "check" (tokens added, about to decide) and "signal".                   *)
(***************************************************************************)
EXTENDS WaitableCounter

CONSTANTS Threads,
          Initial,      \* initialCount
          MaxCount,          \* maxCount
          MaxRelease    \* bound on the releaseCount of one call

ASSUME SemaphoreAssumption ==
    /\ IsFiniteSet(Threads)
    /\ Initial \in Nat /\ MaxCount \in Nat \ {0} /\ MaxRelease \in Nat \ {0}
    /\ Initial <= MaxCount

VARIABLES numWaiting,   \* m_NumWaiting
          pc,
          release       \* release[t]: Release's releaseCount and beforeUpdate

vars == <<counter, blocked, numWaiting, pc, release>>

Goto(t, place) == pc' = [pc EXCEPT ![t] = place]

NoRelease == [count |-> 0, before |-> 0]

Init ==
    /\ counter = Initial
    /\ blocked = {}
    /\ numWaiting = 0
    /\ pc = [t \in Threads |-> "idle"]
    /\ release = [t \in Threads |-> NoRelease]

\* TryAcquire: DecrementIfPositive; without a token go on at `failed'.
TryAcquireOr(t, failed) ==
    /\ IF counter > 0
       THEN counter' = counter - 1 /\ Goto(t, "idle")
       ELSE counter' = counter /\ Goto(t, failed)
    /\ UNCHANGED <<blocked, numWaiting, release>>

TryAcquire(t) == pc[t] = "idle" /\ TryAcquireOr(t, "idle")

\* Acquire: the loop of TryAcquire and, when it fails, a counted wait.
Acquire(t) == pc[t] = "idle" /\ TryAcquireOr(t, "count")

CountIn(t) ==
    /\ pc[t] = "count"
    /\ numWaiting' = numWaiting + 1
    /\ Goto(t, "wait")
    /\ UNCHANGED <<counter, blocked, release>>

Wait(t) ==
    /\ pc[t] = "wait"
    /\ WaitIfLessThan(t, 1)
    /\ Goto(t, "wake")
    /\ UNCHANGED <<numWaiting, release>>

CountOut(t) ==
    /\ pc[t] = "wake"
    /\ t \notin blocked
    /\ numWaiting' = numWaiting - 1
    /\ Goto(t, "try")
    /\ UNCHANGED <<counter, blocked, release>>

Retry(t) == pc[t] = "try" /\ TryAcquireOr(t, "count")

\* Release: LimitedAdd, then the decision to signal, then the signal.
Release(t, n) ==
    /\ pc[t] = "idle"
    /\ counter' = IF counter > MaxCount - n THEN MaxCount ELSE counter + n
    /\ release' = [release EXCEPT ![t] = [count |-> n, before |-> counter]]
    /\ Goto(t, "check")
    /\ UNCHANGED <<blocked, numWaiting>>

\* Mutant of Check: only a semaphore that was empty is signalled.
CheckEmptyOnly(t) ==
    /\ pc[t] = "check"
    /\ IF release[t].before <= 0
       THEN Goto(t, "signal") /\ UNCHANGED release
       ELSE Goto(t, "idle") /\ release' = [release EXCEPT ![t] = NoRelease]
    /\ UNCHANGED <<counter, blocked, numWaiting>>

Check(t) ==
    /\ pc[t] = "check"
    /\ IF release[t].before <= 0 \/ numWaiting > 0
       THEN Goto(t, "signal") /\ UNCHANGED release
       ELSE Goto(t, "idle") /\ release' = [release EXCEPT ![t] = NoRelease]
    /\ UNCHANGED <<counter, blocked, numWaiting>>

SignalWaiters(t) ==
    /\ pc[t] = "signal"
    /\ Signal(release[t].count)
    /\ Goto(t, "idle")
    /\ release' = [release EXCEPT ![t] = NoRelease]
    /\ UNCHANGED numWaiting

\* The steps a thread takes by itself inside Acquire and Release.
Step(t) ==
    CountIn(t) \/ Wait(t) \/ CountOut(t) \/ Retry(t) \/ Check(t)
    \/ SignalWaiters(t)

Next ==
    \E t \in Threads :
        \/ Acquire(t)
        \/ TryAcquire(t)
        \/ \E n \in 1..MaxRelease : Release(t, n)
        \/ Step(t)

SafeSpec == Init /\ [][Next]_vars

\* A thread inside Acquire or Release keeps running unless it sleeps.
Spec == SafeSpec /\ \A t \in Threads : WF_vars(Step(t))

------------------------------------------------------------------------------
\* Acquirers that will look at the counter again without being woken.
Awake    == {t \in Threads : pc[t] \in {"try", "count", "wait", "wake"}} \ blocked
Releasing == {t \in Threads : pc[t] \in {"check", "signal"}}

\* No wake-up is lost: every token that a sleeper could take is matched by an
\* awake acquirer or by a signal still to come, counted with its releaseCount.
\* Release's two tests (beforeUpdate and m_NumWaiting) are both needed for it.
ToWake == {w \in Releasing \X (1..MaxRelease) : w[2] <= release[w[1]].count}
PendingSignals == Cardinality(ToWake)

EnoughWakeups ==
    \/ counter <= Cardinality(Awake) + PendingSignals
    \/ Cardinality(blocked) <= PendingSignals

Waiting == {t \in Threads : pc[t] \in {"try", "count", "wait", "wake"}}

Abstract == INSTANCE Semaphore WITH tokens <- counter, waiting <- Waiting

\* LightSemaphore implements the abstract semaphore and its progress promise.
ImplementsSemaphore == Abstract!Spec
==============================================================================
