------------------------ MODULE SynchronizationProofs ------------------------
(***************************************************************************)
(* Proofs about LightSemaphore, LightEvent and the critical section of SDK  *)
(* 2.4.1 for every set of threads and every bound, and, put together, for   *)
(* Synchronization. A Release that finds tokens left and nobody counted     *)
(* does not signal; that it need not stands on m_NumWaiting counting every  *)
(* thread that sleeps. A manual-reset event under both locks stays          *)
(* signalled from the store to SignalAll. The counter of the 2.4.1 section  *)
(* says too much, never too little, of the sleepers.                        *)
(***************************************************************************)
EXTENDS Synchronization, FiniteSetTheorems, TLAPS

TypeOK ==
    /\ counter \in 0..MaxCount
    /\ blocked \subseteq Threads
    /\ numWaiting \in Int
    /\ pc \in [Threads -> {"idle", "try", "count", "wait", "wake", "check", "signal"}]
    /\ release \in [Threads -> [count : 0..MaxRelease, before : 0..MaxCount]]

\* Only a thread that has counted itself sleeps, and m_NumWaiting counts them all.
Counted == {t \in Threads : pc[t] \in {"wait", "wake"}}
WaitersCounted ==
    /\ \A t \in blocked : pc[t] = "wake"
    /\ numWaiting = Cardinality(Counted)

IInv == TypeOK /\ WaitersCounted /\ EnoughWakeups

\* The wake-ups of one Release.
WakesOf(t, n) == {t} \X (1..n)

------------------------------------------------------------------------------
\* The sets that are counted are finite.
LEMMA FiniteParts ==
    ASSUME TypeOK
    PROVE  /\ IsFiniteSet(Threads) /\ IsFiniteSet(blocked) /\ IsFiniteSet(Awake)
           /\ IsFiniteSet(Counted) /\ IsFiniteSet(ToWake)
           /\ Cardinality(blocked) \in Nat /\ Cardinality(Awake) \in Nat
           /\ Cardinality(Counted) \in Nat /\ PendingSignals \in Nat
<1>1. IsFiniteSet(Threads) /\ MaxRelease \in Nat
  BY SemaphoreAssumption
<1>2. /\ blocked \in SUBSET Threads /\ Awake \in SUBSET Threads
      /\ Counted \in SUBSET Threads
  BY DEF TypeOK, Awake, Counted
<1>3. IsFiniteSet(blocked) /\ IsFiniteSet(Awake) /\ IsFiniteSet(Counted)
  BY <1>1, <1>2, FS_Subset
<1>4. IsFiniteSet(1..MaxRelease)
  BY <1>1, FS_Interval
<1>5. IsFiniteSet(Threads \X (1..MaxRelease))
  BY <1>1, <1>4, FS_Product
<1>6. ToWake \in SUBSET (Threads \X (1..MaxRelease))
  BY DEF ToWake, Releasing
<1>7. IsFiniteSet(ToWake)
  BY <1>5, <1>6, FS_Subset
<1>8. QED
  BY <1>1, <1>3, <1>7, FS_CardinalityType DEF PendingSignals

\* The same of the state after a step.
LEMMA FinitePartsNext ==
    TypeOK' => (/\ Cardinality(Awake) \in Nat
                /\ PendingSignals \in Nat)'
<1>1. TypeOK => Cardinality(Awake) \in Nat /\ PendingSignals \in Nat
  BY FiniteParts
<1>2. QED
  BY <1>1, PTL

\* Removing one element takes at most one off the count.
LEMMA RemoveOne ==
    ASSUME NEW S, IsFiniteSet(S), NEW x
    PROVE  Cardinality(S \ {x}) >= Cardinality(S) - 1
<1>1. Cardinality(S) \in Nat
  BY FS_CardinalityType
<1>2. QED
  BY <1>1, FS_RemoveElement

\* Removing a subset takes its count off.
LEMMA RemovePart ==
    ASSUME NEW S, IsFiniteSet(S), NEW T \in SUBSET S
    PROVE  Cardinality(S \ T) = Cardinality(S) - Cardinality(T)
<1>1. S \cap T = T
  OBVIOUS
<1>2. QED
  BY <1>1, FS_Difference

\* Disjoint sets are counted one after the other.
LEMMA JoinDisjoint ==
    ASSUME NEW S, NEW T, IsFiniteSet(S), IsFiniteSet(T), S \cap T = {}
    PROVE  Cardinality(S \cup T) = Cardinality(S) + Cardinality(T)
<1>1. Cardinality(S) \in Nat /\ Cardinality(T) \in Nat
  BY FS_CardinalityType
<1>2. Cardinality(S \cap T) = 0
  BY FS_EmptySet
<1>3. Cardinality(S \cup T) = Cardinality(S) + Cardinality(T) - Cardinality(S \cap T)
  BY FS_Union
<1>4. QED
  BY <1>1, <1>2, <1>3

\* A Release of n tokens stands for n wake-ups.
LEMMA CountWakes ==
    ASSUME NEW t, NEW n \in Nat
    PROVE  IsFiniteSet(WakesOf(t, n)) /\ Cardinality(WakesOf(t, n)) = n
<1>1. IsFiniteSet(1..n) /\ Cardinality(1..n) = n
  BY FS_Interval
<1>2. IsFiniteSet({t}) /\ Cardinality({t}) = 1
  BY FS_Singleton
<1>3. QED
  BY <1>1, <1>2, FS_Product DEF WakesOf

\* While no Release begins or ends, the wake-ups to come stay the same.
LEMMA SameWakes ==
    ASSUME TypeOK, UNCHANGED release, Releasing' = Releasing
    PROVE  PendingSignals' = PendingSignals
BY DEF PendingSignals, ToWake

\* The semaphore starts with the invariant.
LEMMA InitInv == Init => IInv
<1> SUFFICES ASSUME Init PROVE IInv
  OBVIOUS
<1>1. TypeOK
  BY SemaphoreAssumption DEF Init, TypeOK, NoRelease
<1>2. Counted = {} /\ blocked = {}
  BY DEF Init, Counted
<1>3. Cardinality({}) = 0
  BY FS_EmptySet
<1>4. WaitersCounted
  BY <1>2, <1>3 DEF Init, WaitersCounted
<1>5. EnoughWakeups
  BY <1>1, <1>2, <1>3, FiniteParts DEF EnoughWakeups
<1>6. QED
  BY <1>1, <1>4, <1>5 DEF IInv

\* An attempt to take a token, wherever it stands: one token less needs one awake
\* acquirer less, and without tokens nobody need be awake.
LEMMA TryInv ==
    ASSUME IInv, NEW t \in Threads, NEW failed \in {"idle", "count"},
           pc[t] \in {"idle", "try"}, TryAcquireOr(t, failed)
    PROVE  IInv'
<1> USE DEF IInv
<1>1. TypeOK'
  BY SemaphoreAssumption DEF TypeOK, TryAcquireOr, Goto
<1>2. Counted' = Counted /\ Releasing' = Releasing
  BY DEF TypeOK, TryAcquireOr, Goto, Counted, Releasing
<1>3. WaitersCounted'
  BY <1>2 DEF TypeOK, TryAcquireOr, Goto, WaitersCounted
<1>4. PendingSignals' = PendingSignals
  BY <1>2, SameWakes DEF TryAcquireOr
<1>5. CASE counter > 0
  <2>1. counter' = counter - 1 /\ blocked' = blocked
    BY <1>5 DEF TryAcquireOr
  <2>2. Awake' = Awake \ {t}
    BY <1>5 DEF TypeOK, WaitersCounted, TryAcquireOr, Goto, Awake
  <2>3. Cardinality(Awake') >= Cardinality(Awake) - 1
    BY <2>2, FiniteParts, RemoveOne
  <2>4. PendingSignals \in Nat /\ Cardinality(Awake) \in Nat /\ (Cardinality(Awake) \in Nat)'
    BY <1>1, FiniteParts, FinitePartsNext
  <2>5. EnoughWakeups'
    BY <1>4, <2>1, <2>3, <2>4 DEF EnoughWakeups, TypeOK
  <2>6. QED
    BY <1>1, <1>3, <2>5
<1>6. CASE ~(counter > 0)
  <2>1. counter' = 0
    BY <1>6 DEF TypeOK, TryAcquireOr
  <2>2. (Cardinality(Awake) \in Nat)' /\ (PendingSignals \in Nat)'
    BY <1>1, FinitePartsNext
  <2>3. EnoughWakeups'
    BY <2>1, <2>2 DEF EnoughWakeups
  <2>4. QED
    BY <1>1, <1>3, <2>3
<1>7. QED
  BY <1>5, <1>6

\* Every step keeps the invariant.
LEMMA NextInv == IInv /\ [Next]_vars => IInv'
<1> SUFFICES ASSUME IInv, [Next]_vars PROVE IInv'
  OBVIOUS
<1> USE DEF IInv
<1>1. ASSUME NEW t \in Threads, Acquire(t) \/ TryAcquire(t) \/ Retry(t) PROVE IInv'
  BY <1>1, TryInv DEF Acquire, TryAcquire, Retry
<1>2. ASSUME NEW t \in Threads, CountIn(t) PROVE IInv'
  <2>1. TypeOK'
    BY <1>2 DEF TypeOK, CountIn, Goto
  <2>2. Counted' = Counted \cup {t} /\ t \notin Counted
    BY <1>2 DEF TypeOK, CountIn, Goto, Counted
  <2>3. Cardinality(Counted') = Cardinality(Counted) + 1
    BY <2>2, FiniteParts, FS_AddElement
  <2>4. WaitersCounted'
    BY <1>2, <2>3 DEF TypeOK, CountIn, Goto, WaitersCounted
  <2>5. Awake' = Awake /\ Releasing' = Releasing
    BY <1>2 DEF TypeOK, CountIn, Goto, Awake, Releasing
  <2>6. EnoughWakeups'
    BY <1>2, <2>5, SameWakes DEF CountIn, EnoughWakeups
  <2>7. QED
    BY <2>1, <2>4, <2>6
<1>3. ASSUME NEW t \in Threads, Wait(t) PROVE IInv'
  <2>1. TypeOK'
    BY <1>3 DEF TypeOK, Wait, WaitIfLessThan, Goto
  <2>2. Counted' = Counted /\ Releasing' = Releasing
    BY <1>3 DEF TypeOK, Wait, WaitIfLessThan, Goto, Counted, Releasing
  <2>3. WaitersCounted'
    BY <1>3, <2>2 DEF TypeOK, Wait, WaitIfLessThan, Goto, WaitersCounted
  <2>4. CASE counter < 1
    <3>1. counter' = 0
      BY <1>3, <2>4 DEF TypeOK, Wait, WaitIfLessThan
    <3>2. (Cardinality(Awake) \in Nat)' /\ (PendingSignals \in Nat)'
      BY <2>1, FinitePartsNext
    <3>3. QED
      BY <2>1, <2>3, <3>1, <3>2 DEF EnoughWakeups
  <2>5. CASE ~(counter < 1)
    <3>1. blocked' = blocked /\ counter' = counter
      BY <1>3, <2>5 DEF Wait, WaitIfLessThan
    <3>2. Awake' = Awake
      BY <1>3, <3>1 DEF TypeOK, Wait, Goto, Awake
    <3>3. PendingSignals' = PendingSignals
      BY <1>3, <2>2, SameWakes DEF Wait
    <3>4. QED
      BY <2>1, <2>3, <3>1, <3>2, <3>3 DEF EnoughWakeups
  <2>6. QED
    BY <2>4, <2>5
<1>4. ASSUME NEW t \in Threads, CountOut(t) PROVE IInv'
  <2>1. TypeOK'
    BY <1>4 DEF TypeOK, CountOut, Goto
  <2>2. Counted' = Counted \ {t} /\ t \in Counted
    BY <1>4 DEF TypeOK, CountOut, Goto, Counted
  <2>3. Cardinality(Counted') = Cardinality(Counted) - 1
    BY <2>2, FiniteParts, FS_RemoveElement
  <2>4. WaitersCounted'
    BY <1>4, <2>3 DEF TypeOK, CountOut, Goto, WaitersCounted
  <2>5. Awake' = Awake /\ Releasing' = Releasing
    BY <1>4 DEF TypeOK, CountOut, Goto, Awake, Releasing
  <2>6. EnoughWakeups'
    BY <1>4, <2>5, SameWakes DEF CountOut, EnoughWakeups
  <2>7. QED
    BY <2>1, <2>4, <2>6
<1>5. ASSUME NEW t \in Threads, NEW n \in 1..MaxRelease, Release(t, n) PROVE IInv'
  <2>0. n \in Nat \ {0} /\ MaxCount \in Nat
    BY SemaphoreAssumption
  <2>1. TypeOK'
    BY <1>5, <2>0, SemaphoreAssumption DEF TypeOK, Release, Goto
  <2>2. Counted' = Counted /\ Awake' = Awake /\ blocked' = blocked
    BY <1>5 DEF TypeOK, Release, Goto, Counted, Awake
  <2>3. WaitersCounted'
    BY <1>5, <2>2 DEF TypeOK, Release, Goto, WaitersCounted
  <2>4. /\ Releasing' = Releasing \cup {t} /\ t \notin Releasing
        /\ release'[t].count = n
        /\ \A u \in Threads \ {t} : release'[u] = release[u]
    BY <1>5 DEF TypeOK, Release, Goto, Releasing
  <2>5. ToWake' = ToWake \cup WakesOf(t, n)
    BY <2>4, SemaphoreAssumption DEF ToWake, WakesOf, Releasing
  <2>6. ToWake \cap WakesOf(t, n) = {}
    BY <2>4 DEF ToWake, WakesOf
  <2>7. PendingSignals' = PendingSignals + n
    BY <2>0, <2>5, <2>6, FiniteParts, CountWakes, JoinDisjoint DEF PendingSignals
  <2>8. counter' <= counter + n
    BY <1>5, <2>0 DEF Release, TypeOK
  <2>9. EnoughWakeups'
    BY <2>0, <2>1, <2>2, <2>7, <2>8, FiniteParts DEF EnoughWakeups, TypeOK
  <2>10. QED
    BY <2>1, <2>3, <2>9
<1>6. ASSUME NEW t \in Threads, Check(t) PROVE IInv'
  <2>1. TypeOK'
    BY SMTT(30), <1>6, SemaphoreAssumption DEF TypeOK, Check, Goto, NoRelease
  <2>2. Counted' = Counted /\ Awake' = Awake
    BY <1>6 DEF TypeOK, Check, Goto, Counted, Awake
  <2>3. WaitersCounted'
    BY <1>6, <2>2 DEF TypeOK, Check, Goto, WaitersCounted
  <2>4. CASE release[t].before <= 0 \/ numWaiting > 0
    <3>1. Releasing' = Releasing /\ UNCHANGED release
      BY <1>6, <2>4 DEF TypeOK, Check, Goto, Releasing
    <3>2. EnoughWakeups'
      BY <1>6, <2>2, <3>1, SameWakes DEF Check, EnoughWakeups
    <3>3. QED
      BY <2>1, <2>3, <3>2
  <2>5. CASE ~(release[t].before <= 0 \/ numWaiting > 0)
    <3>1. Cardinality(Counted) = 0
      BY <2>5, FiniteParts DEF WaitersCounted
    <3>2. Counted = {}
      BY <3>1, FiniteParts, FS_EmptySet
    <3>3. blocked = {}
      BY <3>2 DEF WaitersCounted, Counted, TypeOK
    <3>4. Cardinality(blocked') = 0
      BY <1>6, <3>3, FS_EmptySet DEF Check
    <3>5. (PendingSignals \in Nat)'
      BY <2>1, FinitePartsNext
    <3>6. QED
      BY <2>1, <2>3, <3>4, <3>5 DEF EnoughWakeups
  <2>6. QED
    BY <2>4, <2>5
<1>7. ASSUME NEW t \in Threads, SignalWaiters(t) PROVE IInv'
  <2> DEFINE n == release[t].count
  <2>0. n \in Nat /\ n <= MaxRelease
    BY SemaphoreAssumption DEF TypeOK
  <2>1. TypeOK'
    BY <1>7, SemaphoreAssumption DEF TypeOK, SignalWaiters, Signal, Goto, NoRelease
  <2>2. Counted' = Counted
    BY <1>7 DEF TypeOK, SignalWaiters, Goto, Counted
  <2>3. WaitersCounted'
    BY <1>7, <2>2 DEF TypeOK, SignalWaiters, Signal, Goto, WaitersCounted
  <2>4. /\ Releasing' = Releasing \ {t} /\ t \in Releasing
        /\ \A u \in Threads \ {t} : release'[u] = release[u]
    BY <1>7 DEF TypeOK, SignalWaiters, Goto, Releasing
  <2>5. ToWake' = ToWake \ WakesOf(t, n)
    BY <2>4 DEF ToWake, WakesOf, Releasing
  <2>6. WakesOf(t, n) \in SUBSET ToWake
    BY <2>0, <2>4, SemaphoreAssumption DEF ToWake, WakesOf
  <2>7. PendingSignals' = PendingSignals - n
    BY <2>0, <2>5, <2>6, FiniteParts, CountWakes, RemovePart DEF PendingSignals
  <2>8. (PendingSignals \in Nat)' /\ (Cardinality(Awake) \in Nat)'
    BY <2>1, FinitePartsNext
  <2>9. PICK woken \in SUBSET blocked :
            /\ IF Cardinality(blocked) <= n THEN woken = blocked ELSE Cardinality(woken) = n
            /\ blocked' = blocked \ woken
    BY <1>7 DEF SignalWaiters, Signal
  <2>10. counter' = counter
    BY <1>7 DEF SignalWaiters, Signal
  <2>11. CASE Cardinality(blocked) <= n
    <3>1. Cardinality(blocked') = 0
      BY <2>9, <2>11, FS_EmptySet
    <3>2. QED
      BY <2>1, <2>3, <2>8, <3>1 DEF EnoughWakeups
  <2>12. CASE ~(Cardinality(blocked) <= n)
    <3>1. IsFiniteSet(woken) /\ Cardinality(woken) = n
      BY <2>9, <2>12, FiniteParts, FS_Subset
    <3>3. Cardinality(blocked') = Cardinality(blocked) - n
      BY <2>9, <3>1, FiniteParts, RemovePart
    <3>4. Awake' = Awake \cup woken /\ Awake \cap woken = {}
      BY <1>7, <2>9 DEF TypeOK, WaitersCounted, SignalWaiters, Goto, Awake
    <3>5. Cardinality(Awake') = Cardinality(Awake) + n
      BY <3>1, <3>4, FiniteParts, JoinDisjoint
    <3>6. EnoughWakeups'
      BY <2>0, <2>7, <2>10, <3>3, <3>5, FiniteParts DEF EnoughWakeups, TypeOK
    <3>7. QED
      BY <2>1, <2>3, <3>6
  <2>13. QED
    BY <2>11, <2>12
<1>8. CASE UNCHANGED vars
  BY <1>8 DEF vars, TypeOK, WaitersCounted, Counted, EnoughWakeups, Awake, Releasing,
              PendingSignals, ToWake
<1>9. QED
  BY <1>1, <1>2, <1>3, <1>4, <1>5, <1>6, <1>7, <1>8 DEF Next, Step

\* The invariant holds throughout.
LEMMA Invariance == SafeSpec => []IInv
BY InitInv, NextInv, PTL DEF SafeSpec

\* LightSemaphore keeps its types; the tokens stay between 0 and the maximum.
THEOREM TypeCorrect == SafeSpec => []TypeOK
<1>1. IInv => TypeOK
  BY DEF IInv
<1>2. QED
  BY <1>1, Invariance, PTL

\* No wake-up is lost: tokens that sleepers could take are matched by awake
\* acquirers or signals to come, whatever releaseCounts and maximum.
THEOREM WakeupsAreEnough == SafeSpec => []EnoughWakeups
<1>1. IInv => EnoughWakeups
  BY DEF IInv
<1>2. QED
  BY <1>1, Invariance, PTL

------------------------------------------------------------------------------
\* Every step is one of the abstract semaphore's, or changes nothing it knows of.
LEMMA StepRefines == IInv /\ [Next]_vars => [Abstract!Next]_<<counter, Waiting>>
<1> SUFFICES ASSUME IInv, [Next]_vars PROVE [Abstract!Next]_<<counter, Waiting>>
  OBVIOUS
<1> USE DEF IInv
<1>1. ASSUME NEW t \in Threads, NEW failed \in {"idle", "count"},
             pc[t] \in {"idle", "try"}, pc[t] = "try" => failed = "count",
             TryAcquireOr(t, failed)
      PROVE  [Abstract!Next]_<<counter, Waiting>>
  <2>1. CASE counter > 0
    <3>1. Waiting' = Waiting \ {t}
      BY <1>1, <2>1 DEF TypeOK, TryAcquireOr, Goto, Waiting
    <3>2. Abstract!Acquire(t)
      BY <1>1, <2>1, <3>1 DEF TryAcquireOr, Abstract!Acquire
    <3>3. QED
      BY <3>2 DEF Abstract!Next
  <2>2. CASE ~(counter > 0) /\ pc[t] = "idle" /\ failed = "count"
    <3>1. Waiting' = Waiting \cup {t} /\ t \notin Waiting
      BY <1>1, <2>2 DEF TypeOK, TryAcquireOr, Goto, Waiting
    <3>2. Abstract!Await(t)
      BY <1>1, <2>2, <3>1 DEF TryAcquireOr, Abstract!Await
    <3>3. QED
      BY <3>2 DEF Abstract!Next
  <2>3. CASE ~(counter > 0) /\ ~(pc[t] = "idle" /\ failed = "count")
    <3>1. Waiting' = Waiting /\ counter' = counter
      BY <1>1, <2>3 DEF TypeOK, TryAcquireOr, Goto, Waiting
    <3>2. QED
      BY <3>1
  <2>4. QED
    BY <2>1, <2>2, <2>3
<1>2. ASSUME NEW t \in Threads, Acquire(t) \/ TryAcquire(t) \/ Retry(t)
      PROVE  [Abstract!Next]_<<counter, Waiting>>
  BY <1>1, <1>2 DEF Acquire, TryAcquire, Retry
<1>3. ASSUME NEW t \in Threads, CountIn(t) \/ Wait(t) \/ CountOut(t) \/ Check(t) \/ SignalWaiters(t)
      PROVE  [Abstract!Next]_<<counter, Waiting>>
  <2>1. Waiting' = Waiting /\ counter' = counter
    BY <1>3 DEF TypeOK, CountIn, Wait, WaitIfLessThan, CountOut, Check, SignalWaiters, Signal, Goto, Waiting
  <2>2. QED
    BY <2>1
<1>4. ASSUME NEW t \in Threads, NEW n \in 1..MaxRelease, Release(t, n)
      PROVE  [Abstract!Next]_<<counter, Waiting>>
  <2>1. Waiting' = Waiting
    BY <1>4 DEF TypeOK, Release, Goto, Waiting
  <2>2. Abstract!Release(n)
    BY <1>4, <2>1, SemaphoreAssumption DEF TypeOK, Release, Abstract!Release
  <2>3. QED
    BY <2>2 DEF Abstract!Next
<1>5. CASE UNCHANGED vars
  BY <1>5 DEF vars, Waiting
<1>6. QED
  BY <1>2, <1>3, <1>4, <1>5 DEF Next, Step

\* LightSemaphore implements the safety of the abstract semaphore: tokens are taken
\* one at a time by a thread that calls or waits, and never exceed the maximum.
THEOREM Refinement == SafeSpec => Abstract!SafeSpec
<1>1. Init => Abstract!Init
  BY DEF Init, Abstract!Init, Waiting
<1>2. QED
  BY <1>1, Invariance, StepRefines, PTL DEF SafeSpec, Abstract!SafeSpec, Abstract!vars

------------------------------------------------------------------------------
\* The places of a manual-reset event; at the second set a thread has m_Lock.
ManualPlaces ==
    {"idle", "read", "manual", "manualWake", "clearLock", "setLock"}
LockedPlaces == {"clearManual", "clearUnlock", "setManual", "wakeAll", "setUnlock"}

\* A manual-reset event under both locks. A wait that found it signalled, or is
\* woken, has seen it signalled, for it stays so between the store and SignalAll.
EventInv ==
    build = "4.2" /\ manualReset =>
      /\ eventCounter \in {-2, 1}
      /\ eventPc \in [Waiters -> ManualPlaces \cup LockedPlaces]
      /\ \A t \in Waiters : eventPc[t] \in LockedPlaces <=> lockOwner = {t}
      /\ \A t \in Waiters : eventPc[t] = "wakeAll" => eventCounter = 1
      /\ \A t \in Waiters : eventCounter = 1 /\ eventPc[t] \in Event!WaitPlaces => t \in sawSignal
      /\ \A t \in Waiters : eventPc[t] = "manualWake" /\ t \notin eventBlocked => t \in sawSignal

(* Nobody waits and nobody has the lock. *)
LEMMA EventInitInv == Event!Init => EventInv
BY DEF Event!Init, EventInv, ManualPlaces, LockedPlaces, Event!WaitPlaces, Event!NOT_RESETED_MANUAL

\* Each step of a thread keeps the invariant, and a wait returns when it may.
LEMMA EventStepInv ==
    ASSUME EventInv, NEW t \in Waiters, Event!Call(t) \/ Event!Step(t), Event!Observe,
           build = "4.2" /\ manualReset
    PROVE  /\ EventInv'
           /\ eventPc[t] \in Event!WaitPlaces /\ eventPc'[t] = "idle" => t \in sawSignal
           /\ \A u \in Waiters : u # t => eventPc'[u] = eventPc[u]
<1> USE DEF EventInv, ManualPlaces, LockedPlaces, Event!WaitPlaces, Event!Goto, Event!Keep,
            Event!NOT_RESETED_MANUAL, Event!NOT_RESETED_AUTO, Event!RESETED_AUTO, Event!RESETED_MANUAL,
            Event!ClearLocks, Event!SignalLocks
<1>0. /\ \A u \in Waiters : u \in sawSignal' <=>
              eventPc'[u] \in Event!WaitPlaces /\ (eventCounter' >= 0 \/ u \in sawSignal)
      /\ UNCHANGED <<build, manualReset>>
  BY DEF Event!Observe
<1>1. CASE Event!Wait(t)
  BY <1>0, <1>1 DEF Event!Wait
<1>2. CASE Event!TryWait(t)
  BY <1>0, <1>2 DEF Event!TryWait, Event!Swap
<1>3. CASE Event!ClearSignal(t)
  BY <1>0, <1>3 DEF Event!ClearSignal
<1>4. CASE Event!SignalEvent(t)
  BY <1>0, <1>4 DEF Event!SignalEvent
<1>5. CASE Event!Read(t)
  BY <1>0, <1>5 DEF Event!Read
<1>6. CASE Event!Woken(t)
  BY <1>0, <1>6 DEF Event!Woken
<1>7. CASE Event!Sleep(t, "manual", "manualWake")
  BY <1>0, <1>7 DEF Event!Sleep, Event!WaitIfLessThan
<1>8. CASE Event!TakeLock(t)
  BY <1>0, <1>8 DEF Event!TakeLock
<1>9. CASE Event!Unlock(t)
  BY <1>0, <1>9 DEF Event!Unlock
<1>10. CASE Event!Store(t)
  BY <1>0, <1>10 DEF Event!Store
<1>11. CASE Event!WakeAll(t)
  BY <1>0, <1>11 DEF Event!WakeAll, Event!SignalAll
<1>12. ~Event!SwapInWait(t) /\ ~Event!Sleep(t, "auto", "autoWake") /\ ~Event!WakeOne(t)
  BY DEF Event!SwapInWait, Event!Sleep, Event!WakeOne
<1>13. QED
  BY <1>1, <1>2, <1>3, <1>4, <1>5, <1>6, <1>7, <1>8, <1>9, <1>10, <1>11, <1>12 DEF Event!Call, Event!Step

(* The invariant is inductive, and holds of any other event for want of a claim. *)
LEMMA EventNextInv == EventInv /\ [Event!Next]_eventVars => EventInv'
<1> SUFFICES ASSUME EventInv, [Event!Next]_eventVars PROVE EventInv'
  OBVIOUS
<1>1. CASE Event!Next /\ build = "4.2" /\ manualReset
  BY <1>1, EventStepInv DEF Event!Next
<1>2. CASE Event!Next /\ ~(build = "4.2" /\ manualReset)
  BY <1>2 DEF Event!Next, Event!Observe, EventInv
<1>3. CASE UNCHANGED eventVars
  BY <1>3 DEF eventVars, EventInv
<1>4. QED
  BY <1>1, <1>2, <1>3

\* For any threads, no wait for a manual-reset event under both locks returns
\* unless the event was signalled in the course of it.
THEOREM WaitsSawSignals == Event!SafeSpec => Event!WaitSawSignal
<1>1. EventInv /\ [Event!Next]_Event!vars =>
        [\A t \in Waiters : build = "4.2" /\ manualReset /\ eventPc[t] \in Event!WaitPlaces /\ eventPc'[t] = "idle"
              => t \in sawSignal]_Event!vars
  <2> SUFFICES ASSUME EventInv, Event!Next, NEW t \in Waiters, build = "4.2", manualReset,
                      eventPc[t] \in Event!WaitPlaces, eventPc'[t] = "idle"
               PROVE  t \in sawSignal
    OBVIOUS
  <2>1. PICK u \in Waiters : (Event!Call(u) \/ Event!Step(u)) /\ Event!Observe
    BY DEF Event!Next
  <2>2. QED
    BY <2>1, EventStepInv DEF Event!WaitPlaces
<1>2. EventInv /\ [Event!Next]_Event!vars => EventInv'
  BY EventNextInv DEF Event!vars, eventVars
<1>3. QED
  BY <1>1, <1>2, EventInitInv, PTL DEF Event!SafeSpec, Event!WaitSawSignal

------------------------------------------------------------------------------
\* The section counts its sleepers as this module does.
LEMMA SectionCounts == \A S : Section!Cardinality(S) = Cardinality(S)
BY DEF Cardinality, Section!Cardinality

\* No contended wait makes the counter leave its word: fewer than 2^31 of them.
WaitsFit == \A n \in -(MaxWaits + 1) .. MaxWaits + 1 : Section!Wrap(n) = n

SectionPlaces == {"ready", "try", "look", "tryAgain", "wait", "own", "count", "clear", "reverse", "signal"}

SectionTypeOK ==
    /\ sectionCounter \in Int
    /\ sectionBlocked \subseteq Contenders
    /\ owner \in Contenders \cup {Nobody}
    /\ lockCount \in Nat
    /\ place \in [Contenders -> SectionPlaces]
    /\ depth \in [Contenders -> Nat]
    /\ waits \in 0 .. MaxWaits

\* What a thread's place says of its depth and of the owner.
PlaceSays(t) ==
    /\ place[t] = "ready" => (owner = t <=> depth[t] > 0)
    /\ place[t] \in {"try", "look", "tryAgain", "wait", "own", "reverse", "signal"} => depth[t] = 0 /\ owner # t
    /\ place[t] = "count" => owner = t
    /\ place[t] = "clear" => depth[t] = 0 /\ owner = t

SectionInv ==
    /\ SectionTypeOK
    /\ Section!CounterIsWaits
    /\ \A t, u \in Section!Owners : t = u
    /\ \A t \in Contenders : PlaceSays(t)
    /\ \A t \in sectionBlocked : place[t] = "look"
    /\ lockCount = IF owner = Nobody THEN 0 ELSE depth[owner]

\* Nobody is in, sleeps or has waited.
LEMMA SectionInitInv == Section!Init => SectionInv
<1> SUFFICES ASSUME Section!Init PROVE SectionInv
  OBVIOUS
<1> USE SectionAssumption
<1>1. SectionTypeOK /\ Section!Owners = {} /\ \A t \in Contenders : PlaceSays(t)
  BY DEF Section!Init, SectionTypeOK, SectionPlaces, Section!Owners, Section!Inside, PlaceSays
<1>2. Section!CounterIsWaits
  <2>1. sectionCounter = 1 /\ waits = 0 /\ Cardinality(sectionBlocked) = 0
    BY FS_EmptySet DEF Section!Init
  <2>2. QED
    BY <1>1, <2>1, SectionCounts DEF Section!CounterIsWaits, Section!Magnitude
<1>3. QED
  BY <1>1, <1>2 DEF Section!Init, SectionInv

\* At most one more thread sleeps after one more wait, and not more after a signal.
LEMMA SleepersCount ==
    ASSUME SectionTypeOK, NEW t
    PROVE  /\ Cardinality(sectionBlocked) \in Nat
           /\ Cardinality(sectionBlocked \cup {t}) <= Cardinality(sectionBlocked) + 1
           /\ \A S \in SUBSET sectionBlocked : Cardinality(S) <= Cardinality(sectionBlocked) /\ Cardinality(S) \in Nat
           /\ Cardinality(sectionBlocked \cup {t}) \in Nat
<1>1. IsFiniteSet(sectionBlocked)
  BY SectionAssumption, FS_Subset DEF SectionTypeOK
<1>2. QED
  BY <1>1, FS_AddElement, FS_CardinalityType, FS_Subset

\* Where no thread sleeps or wakes and the counter keeps its sign and size, so does
\* what it says, if the set of those who are in does.
LEMMA QuietStep ==
    ASSUME SectionInv, UNCHANGED <<sectionCounter, sectionBlocked, waits>>,
           (Section!Owners = {}) <=> (Section!Owners' = {})
    PROVE  Section!CounterIsWaits'
BY DEF SectionInv, Section!CounterIsWaits, Section!Magnitude

\* The exclusive load and store of a thread that is not in.
LEMMA TryEnterKeeps ==
    ASSUME SectionInv, NEW t \in Contenders, NEW failed \in {"look", "wait", "ready"},
           place[t] \in {"ready", "try", "tryAgain"}, owner # t,
           Section!TryEnterImpl(t, failed)
    PROVE  SectionInv'
<1> USE DEF Section!TryEnterImpl, Section!Goto, SectionInv
<1>1. depth[t] = 0 /\ PlaceSays(t)
  BY DEF PlaceSays, SectionTypeOK
<1>2. SectionTypeOK'
  BY DEF SectionTypeOK, SectionPlaces
<1>3. t \notin sectionBlocked
  OBVIOUS
<1>4. \A u \in Contenders : PlaceSays(u)'
  BY <1>1 DEF PlaceSays, SectionTypeOK
<1>5. CASE sectionCounter > 0
  <2>1. Section!Owners = {} /\ place' = [place EXCEPT ![t] = "own"] /\ sectionCounter' = -sectionCounter
    BY <1>5 DEF Section!CounterIsWaits, SectionTypeOK
  <2>2. Section!Owners' = {t}
    BY <2>1 DEF Section!Owners, Section!Inside, SectionTypeOK
  <2>3. Section!CounterIsWaits'
    BY <1>5, <2>1, <2>2 DEF Section!CounterIsWaits, Section!Magnitude, SectionTypeOK
  <2>4. QED
    BY <1>2, <1>3, <1>4, <2>2, <2>3 DEF SectionTypeOK
<1>6. CASE ~(sectionCounter > 0)
  <2>1. place' = [place EXCEPT ![t] = failed] /\ sectionCounter' = sectionCounter
    BY <1>6
  <2>2. Section!Owners' = Section!Owners
    BY <1>1, <2>1 DEF Section!Owners, Section!Inside, SectionTypeOK
  <2>3. QED
    BY <1>2, <1>3, <1>4, <2>1, <2>2, QuietStep DEF SectionTypeOK
<1>7. QED
  BY <1>5, <1>6

\* Each step of a thread keeps the invariant.
LEMMA SectionStepInv ==
    ASSUME WaitsFit, SectionInv, NEW t \in Contenders,
           Section!Enter(t) \/ Section!TryEnter(t) \/ Section!Leave(t) \/ Section!Step(t)
    PROVE  SectionInv'
<1> USE SectionAssumption DEF Section!Goto
<1>0. PlaceSays(t) /\ SectionTypeOK
  BY DEF SectionInv
<1>1. CASE Section!Enter(t)
  <2>1. SectionTypeOK'
    BY <1>0, <1>1 DEF Section!Enter, SectionTypeOK, SectionPlaces
  <2>2. Section!Owners' = Section!Owners
    BY <1>0, <1>1 DEF Section!Enter, Section!Owners, Section!Inside, SectionTypeOK, PlaceSays,
       Section!LockedByCurrentThread
  <2>3. \A u \in Contenders : PlaceSays(u)'
    BY <1>1 DEF SectionInv, Section!Enter, SectionTypeOK, PlaceSays, Section!LockedByCurrentThread
  <2>4. QED
    BY <1>0, <1>1, <2>1, <2>2, <2>3, QuietStep DEF SectionInv, Section!Enter, SectionTypeOK
<1>2. CASE Section!TryEnter(t)
  <2>1. CASE owner = t
    <3>1. place[t] = "ready" /\ place' = [place EXCEPT ![t] = "count"]
          /\ UNCHANGED <<sectionCounter, sectionBlocked, owner, lockCount, depth, waits>>
      BY <1>2, <2>1 DEF Section!TryEnter, Section!LockedByCurrentThread
    <3>2. SectionTypeOK'
      BY <1>0, <3>1 DEF SectionTypeOK, SectionPlaces
    <3>3. Section!Owners' = Section!Owners
      BY <1>0, <2>1, <3>1 DEF Section!Owners, Section!Inside, SectionTypeOK, PlaceSays
    <3>4. \A u \in Contenders : PlaceSays(u)'
      BY <2>1, <3>1 DEF SectionInv, SectionTypeOK, PlaceSays
    <3>5. QED
      BY <1>0, <3>1, <3>2, <3>3, <3>4, QuietStep DEF SectionInv, SectionTypeOK
  <2>2. CASE owner # t
    BY <1>2, <2>2, TryEnterKeeps DEF Section!TryEnter, Section!LockedByCurrentThread
  <2>3. QED
    BY <2>1, <2>2
<1>3. CASE Section!Leave(t)
  <2>1. /\ place[t] = "ready" /\ depth[t] > 0 /\ owner = t /\ owner # Nobody /\ lockCount = depth[t]
        /\ lockCount' = depth[t] - 1 /\ depth' = [depth EXCEPT ![t] = depth[t] - 1]
        /\ place' = [place EXCEPT ![t] = IF lockCount' = 0 THEN "clear" ELSE "ready"]
        /\ UNCHANGED <<sectionCounter, sectionBlocked, owner, waits>>
    BY <1>0, <1>3 DEF Section!Leave, SectionInv, SectionTypeOK, PlaceSays
  <2>2. SectionTypeOK'
    BY <1>0, <2>1 DEF SectionTypeOK, SectionPlaces
  <2>3. Section!Owners' = Section!Owners
    BY <1>0, <2>1 DEF Section!Owners, Section!Inside, SectionTypeOK
  <2>4. \A u \in Contenders : PlaceSays(u)'
    BY <2>1 DEF SectionInv, SectionTypeOK, PlaceSays
  <2>5. QED
    BY <1>0, <2>1, <2>2, <2>3, <2>4, QuietStep DEF SectionInv, SectionTypeOK
<1>4. CASE t \notin sectionBlocked /\ Section!TryFirst(t)
  BY <1>0, <1>4, TryEnterKeeps DEF Section!TryFirst, PlaceSays
<1>5. CASE t \notin sectionBlocked /\ Section!Look(t)
  <2>1. SectionTypeOK'
    BY <1>0, <1>5 DEF Section!Look, SectionTypeOK, SectionPlaces
  <2>2. Section!Owners' = Section!Owners
    BY <1>0, <1>5 DEF Section!Look, Section!Owners, Section!Inside, SectionTypeOK
  <2>3. \A u \in Contenders : PlaceSays(u)'
    BY <1>5 DEF SectionInv, Section!Look, SectionTypeOK, PlaceSays
  <2>4. QED
    BY <1>0, <1>5, <2>1, <2>2, <2>3, QuietStep DEF SectionInv, Section!Look, SectionTypeOK
<1>6. CASE t \notin sectionBlocked /\ Section!TryAgain(t)
  BY <1>0, <1>6, TryEnterKeeps DEF Section!TryAgain, PlaceSays
<1>7. CASE t \notin sectionBlocked /\ Section!Wait(t)
  <2>1. place[t] = "wait" /\ place' = [place EXCEPT ![t] = "look"] /\ UNCHANGED <<owner, lockCount, depth>>
    BY <1>7 DEF Section!Wait
  <2>2. Section!Owners' = Section!Owners
    BY <1>0, <2>1 DEF Section!Owners, Section!Inside, SectionTypeOK
  <2>3. \A u \in Contenders : PlaceSays(u)'
    BY <2>1 DEF SectionInv, SectionTypeOK, PlaceSays
  <2>4. CASE sectionCounter < 0 /\ waits < MaxWaits /\ sectionCounter' = Section!Wrap(sectionCounter - 1)
             /\ sectionBlocked' = sectionBlocked \cup {t} /\ waits' = waits + 1
    <3>1. sectionCounter = -(waits + 1) /\ waits \in Nat /\ MaxWaits \in Nat
      BY <1>0, <2>4 DEF SectionInv, Section!CounterIsWaits, Section!Magnitude, SectionTypeOK
    <3>2. sectionCounter - 1 \in -(MaxWaits + 1) .. MaxWaits + 1
      BY <2>4, <3>1
    <3>3. sectionCounter' = sectionCounter - 1
      BY <2>4, <3>2 DEF WaitsFit
    <3>4. SectionTypeOK'
      BY <1>0, <2>1, <2>4, <3>1, <3>3 DEF SectionTypeOK, SectionPlaces
    <3>5. Cardinality(sectionBlocked') < waits + 2
      <4>1. Cardinality(sectionBlocked) < waits + 1
        BY <2>4, <3>1, SectionCounts DEF SectionInv, Section!CounterIsWaits, Section!Magnitude
      <4>2. Cardinality(sectionBlocked') <= Cardinality(sectionBlocked) + 1
            /\ Cardinality(sectionBlocked) \in Nat /\ Cardinality(sectionBlocked') \in Nat
        BY <1>0, <2>4, SleepersCount
      <4>3. QED
        BY <3>1, <4>1, <4>2
    <3>6. Section!Magnitude' = waits' + 1 /\ sectionCounter' < 0 /\ sectionCounter < 0
      BY <2>4, <3>1, <3>3 DEF Section!Magnitude
    <3>7. Section!CounterIsWaits'
      BY <1>0, <2>2, <2>4, <3>1, <3>5, <3>6, SectionCounts DEF SectionInv, Section!CounterIsWaits
    <3>8. QED
      BY <1>0, <2>1, <2>2, <2>3, <2>4, <3>4, <3>7 DEF SectionInv, SectionTypeOK
  <2>5. CASE sectionCounter >= 0 /\ UNCHANGED <<sectionCounter, sectionBlocked, waits>>
    <3>1. SectionTypeOK'
      BY <1>0, <2>1, <2>5 DEF SectionTypeOK, SectionPlaces
    <3>2. QED
      BY <1>0, <1>7, <2>1, <2>2, <2>3, <2>5, <3>1, QuietStep DEF SectionInv, SectionTypeOK
  <2>6. QED
    BY <1>7, <2>4, <2>5 DEF Section!Wait
<1>8. CASE t \notin sectionBlocked /\ Section!Own(t)
  <2>1. /\ place[t] = "own" /\ owner' = t /\ place' = [place EXCEPT ![t] = "count"]
        /\ UNCHANGED <<sectionCounter, sectionBlocked, lockCount, depth, waits>>
    BY <1>8 DEF Section!Own
  <2>2. SectionTypeOK'
    BY <1>0, <2>1 DEF SectionTypeOK, SectionPlaces
  <2>3. Section!Owners' = Section!Owners /\ t \in Section!Owners
    BY <1>0, <2>1 DEF Section!Owners, Section!Inside, SectionTypeOK
  <2>4. \A u \in Contenders : u # t => u \notin Section!Owners
    BY <2>3 DEF SectionInv
  <2>5. owner = Nobody
    <3>1. SUFFICES ASSUME owner \in Contenders, owner # t PROVE FALSE
      BY <1>0, <2>1 DEF SectionTypeOK, PlaceSays
    <3>2. PlaceSays(owner) /\ owner \notin Section!Owners /\ place[owner] \in SectionPlaces /\ depth[owner] \in Nat
      BY <1>0, <2>4, <3>1 DEF SectionInv, SectionTypeOK
    <3>3. QED
      BY <3>1, <3>2 DEF PlaceSays, Section!Owners, Section!Inside, SectionPlaces
  <2>6. depth[t] = 0 /\ lockCount = 0
    BY <1>0, <2>1, <2>5 DEF PlaceSays, SectionInv
  <2>7. \A u \in Contenders : PlaceSays(u)'
    <3>1. SUFFICES ASSUME NEW u \in Contenders, u # t PROVE PlaceSays(u)'
      BY <1>0, <2>1 DEF PlaceSays, SectionTypeOK
    <3>2. place'[u] = place[u] /\ depth'[u] = depth[u] /\ u # owner /\ PlaceSays(u)
      BY <1>0, <2>1, <2>5, <3>1, SectionCounts DEF SectionInv, SectionTypeOK
    <3>3. QED
      BY <2>1, <3>1, <3>2 DEF PlaceSays
  <2>8. QED
    BY <1>0, <2>1, <2>2, <2>3, <2>6, <2>7, QuietStep DEF SectionInv, SectionTypeOK
<1>9. CASE t \notin sectionBlocked /\ Section!Count(t)
  <2>1. /\ place[t] = "count" /\ owner = t /\ t # Nobody /\ lockCount = depth[t] /\ lockCount' = depth[t] + 1
        /\ depth' = [depth EXCEPT ![t] = depth[t] + 1] /\ place' = [place EXCEPT ![t] = "ready"]
        /\ UNCHANGED <<sectionCounter, sectionBlocked, owner, waits>>
    BY <1>0, <1>9 DEF Section!Count, PlaceSays, SectionInv
  <2>2. SectionTypeOK'
    BY <1>0, <2>1 DEF SectionTypeOK, SectionPlaces
  <2>3. Section!Owners' = Section!Owners
    BY <1>0, <2>1 DEF Section!Owners, Section!Inside, SectionTypeOK
  <2>4. \A u \in Contenders : PlaceSays(u)'
    BY <2>1 DEF SectionInv, SectionTypeOK, PlaceSays
  <2>5. QED
    BY <1>0, <2>1, <2>2, <2>3, <2>4, QuietStep DEF SectionInv, SectionTypeOK
<1>10. CASE t \notin sectionBlocked /\ Section!Clear(t)
  <2>1. /\ place[t] = "clear" /\ owner = t /\ t # Nobody /\ depth[t] = 0 /\ lockCount = 0
        /\ owner' = Nobody /\ place' = [place EXCEPT ![t] = "reverse"]
        /\ UNCHANGED <<sectionCounter, sectionBlocked, lockCount, depth, waits>>
    BY <1>0, <1>10 DEF Section!Clear, PlaceSays, SectionInv
  <2>2. SectionTypeOK'
    BY <1>0, <2>1 DEF SectionTypeOK, SectionPlaces
  <2>3. Section!Owners' = Section!Owners
    BY <1>0, <2>1 DEF Section!Owners, Section!Inside, SectionTypeOK
  <2>4. \A u \in Contenders : PlaceSays(u)'
    BY <2>1 DEF SectionInv, SectionTypeOK, PlaceSays
  <2>5. QED
    BY <1>0, <2>1, <2>2, <2>3, <2>4, QuietStep DEF SectionInv, SectionTypeOK
<1>11. CASE t \notin sectionBlocked /\ Section!Reverse(t)
  <2>1. /\ place[t] = "reverse" /\ sectionCounter' = Section!Wrap(-sectionCounter)
        /\ \E p \in {"signal", "ready"} : place' = [place EXCEPT ![t] = p]
        /\ UNCHANGED <<sectionBlocked, owner, lockCount, depth, waits>>
    BY <1>11 DEF Section!Reverse
  <2>2. t \in Section!Owners /\ depth[t] = 0 /\ owner # t
    BY <1>0, <2>1 DEF Section!Owners, Section!Inside, PlaceSays
  <2>3. sectionCounter < 0 /\ sectionCounter = -(waits + 1) /\ waits \in Nat /\ MaxWaits \in Nat /\ waits <= MaxWaits
    BY <1>0, <2>2 DEF SectionInv, Section!CounterIsWaits, Section!Magnitude, SectionTypeOK
  <2>4. -sectionCounter \in -(MaxWaits + 1) .. MaxWaits + 1
    BY <2>3
  <2>5. sectionCounter' = -sectionCounter
    BY <2>1, <2>4 DEF WaitsFit
  <2>6. Section!Owners' = {}
    BY <1>0, <2>1, <2>2 DEF SectionInv, Section!Owners, Section!Inside, SectionTypeOK
  <2>7. SectionTypeOK'
    BY <1>0, <2>1, <2>3, <2>5 DEF SectionTypeOK, SectionPlaces
  <2>8. Section!CounterIsWaits'
    BY <2>1, <2>3, <2>5, <2>6 DEF SectionInv, Section!CounterIsWaits, Section!Magnitude
  <2>9. \A u \in Contenders : PlaceSays(u)'
    BY <2>1, <2>2 DEF SectionInv, SectionTypeOK, PlaceSays
  <2>10. QED
    BY <1>0, <1>11, <2>1, <2>6, <2>7, <2>8, <2>9 DEF SectionInv, SectionTypeOK
<1>12. CASE t \notin sectionBlocked /\ Section!SignalOne(t)
  <2>1. /\ place[t] = "signal" /\ place' = [place EXCEPT ![t] = "ready"]
        /\ sectionBlocked' \subseteq sectionBlocked
        /\ UNCHANGED <<sectionCounter, owner, lockCount, depth, waits>>
    BY <1>12 DEF Section!SignalOne, Section!Signal
  <2>2. SectionTypeOK'
    BY <1>0, <2>1 DEF SectionTypeOK, SectionPlaces
  <2>3. Section!Owners' = Section!Owners
    BY <1>0, <2>1 DEF Section!Owners, Section!Inside, SectionTypeOK
  <2>4. \A u \in Contenders : PlaceSays(u)'
    BY <2>1 DEF SectionInv, SectionTypeOK, PlaceSays
  <2>5. Cardinality(sectionBlocked') <= Cardinality(sectionBlocked) /\ Cardinality(sectionBlocked') \in Nat
        /\ Cardinality(sectionBlocked) \in Nat
    BY <1>0, <2>1, SleepersCount
  <2>6. Section!CounterIsWaits'
    <3>1. Section!Magnitude' = Section!Magnitude /\ Section!Magnitude \in Int
      BY <1>0, <2>1 DEF Section!Magnitude, SectionTypeOK
    <3>2. QED
      BY <1>0, <2>1, <2>3, <2>5, <3>1, SectionCounts DEF SectionInv, Section!CounterIsWaits
  <2>7. QED
    BY <1>0, <1>12, <2>1, <2>2, <2>3, <2>4, <2>6 DEF SectionInv, SectionTypeOK
<1>13. QED
  BY <1>1, <1>2, <1>3, <1>4, <1>5, <1>6, <1>7, <1>8, <1>9, <1>10, <1>11, <1>12 DEF Section!Step

\* The invariant is inductive.
LEMMA SectionNextInv ==
    ASSUME WaitsFit
    PROVE  SectionInv /\ [Section!Next]_sectionVars => SectionInv'
<1> SUFFICES ASSUME SectionInv, [Section!Next]_sectionVars PROVE SectionInv'
  OBVIOUS
<1>1. CASE Section!Next
  BY <1>1, SectionStepInv DEF Section!Next
<1>2. CASE UNCHANGED sectionVars
  BY <1>2 DEF sectionVars, SectionInv, SectionTypeOK, PlaceSays, Section!CounterIsWaits, Section!Magnitude,
     Section!Owners
<1>3. QED
  BY <1>1, <1>2

\* The invariant holds as long as the counter stays within its word.
LEMMA SectionInvariance ==
    ASSUME WaitsFit
    PROVE  Section!SafeSpec => []SectionInv
<1>1. SectionInv /\ [Section!Next]_Section!vars => SectionInv'
  BY SectionNextInv DEF Section!vars, sectionVars
<1>2. QED
  BY <1>1, SectionInitInv, PTL DEF Section!SafeSpec

\* The decrements that nothing takes back make the counter too small, never too
\* large: for any contenders, it counts the contended waits so far, is negative exactly while a
\* thread is in, and exceeds the number of sleepers.
THEOREM CountersAreWaits ==
    ASSUME WaitsFit
    PROVE  Section!SafeSpec => []Section!CounterIsWaits
<1>1. SectionInv => Section!CounterIsWaits
  BY DEF SectionInv
<1>2. QED
  BY <1>1, SectionInvariance, PTL

\* The 2.4.1 lock seen from outside; the part of ImplementsMutex that is not progress.
SectionAsMutex == INSTANCE Mutex WITH Threads <- Contenders, phase <- Section!Phase

TryingPlaces == {"try", "look", "tryAgain", "wait", "own", "count"}

\* A thread that goes on inside a call is where it was for those outside.
LEMMA InsideStep ==
    ASSUME SectionTypeOK, UNCHANGED depth, NEW t \in Contenders, NEW p, place' = [place EXCEPT ![t] = p],
           depth[t] > 0 \/ (place[t] \in TryingPlaces <=> p \in TryingPlaces)
    PROVE  Section!Phase' = Section!Phase
<1>1. \A u \in Contenders : u # t => place'[u] = place[u]
  BY DEF SectionTypeOK
<1>2. place'[t] = p
  BY DEF SectionTypeOK
<1>3. QED
  BY <1>1, <1>2 DEF Section!Phase, TryingPlaces

\* A step of one thread that those outside see.
LEMMA PhaseChanges ==
    ASSUME NEW t \in Contenders, NEW value,
           \A u \in Contenders : u # t => place'[u] = place[u] /\ depth'[u] = depth[u],
           Section!Phase'[t] = value
    PROVE  Section!Phase' = [Section!Phase EXCEPT ![t] = value]
<1> DEFINE ph(u) == IF depth[u] > 0 THEN "in" ELSE IF place[u] \in TryingPlaces THEN "trying" ELSE "out"
<1>1. Section!Phase = [u \in Contenders |-> ph(u)] /\ Section!Phase' = [u \in Contenders |-> ph(u)']
  BY DEF Section!Phase, TryingPlaces
<1>2. \A u \in Contenders : u # t => ph(u)' = ph(u)
  OBVIOUS
<1>3. ph(t)' = value
  BY <1>1
<1> HIDE DEF ph
<1>4. QED
  BY <1>1, <1>2, <1>3

\* A thread that begins to try.
LEMMA TryingStep ==
    ASSUME SectionTypeOK, UNCHANGED depth, NEW t \in Contenders, NEW p \in TryingPlaces,
           place' = [place EXCEPT ![t] = p], depth[t] = 0, place[t] = "ready"
    PROVE  SectionAsMutex!Try(t)
<1>1. Section!Phase[t] = "out"
  BY DEF Section!Phase
<1>2. Section!Phase' = [Section!Phase EXCEPT ![t] = "trying"]
  <2>1. Section!Phase'[t] = "trying"
    BY DEF Section!Phase, SectionTypeOK, TryingPlaces
  <2>2. \A u \in Contenders : u # t => place'[u] = place[u] /\ depth'[u] = depth[u]
    BY DEF SectionTypeOK
  <2>3. QED
    BY <2>1, <2>2, PhaseChanges
<1>3. QED
  BY <1>1, <1>2 DEF SectionAsMutex!Try

\* Whoever counts an Enter is alone in, and a Leave that is not the last changes nothing
\* outside.
LEMMA SectionStepRefines ==
    ASSUME SectionInv, NEW t \in Contenders,
           Section!Enter(t) \/ Section!TryEnter(t) \/ Section!Leave(t) \/ Section!Step(t)
    PROVE  SectionAsMutex!Next \/ Section!Phase' = Section!Phase
<1> USE DEF Section!Goto
<1>0. PlaceSays(t) /\ SectionTypeOK
  BY DEF SectionInv
<1>1. CASE Section!Enter(t)
  <2>1. CASE owner = t
    BY <1>0, <1>1, <2>1, InsideStep DEF Section!Enter, Section!LockedByCurrentThread, PlaceSays
  <2>2. CASE owner # t
    <3>1. depth[t] = 0
      BY <1>0, <1>1, <2>2 DEF PlaceSays, Section!Enter, SectionTypeOK
    <3>2. QED
      BY <1>0, <1>1, <2>2, <3>1, TryingStep
      DEF Section!Enter, Section!LockedByCurrentThread, SectionAsMutex!Next, TryingPlaces
  <2>3. QED
    BY <2>1, <2>2
<1>2. CASE Section!TryEnter(t)
  <2>1. CASE owner = t
    BY <1>0, <1>2, <2>1, InsideStep DEF Section!TryEnter, Section!LockedByCurrentThread, PlaceSays
  <2>2. CASE owner # t /\ sectionCounter > 0
    <3>1. depth[t] = 0
      BY <1>0, <1>2, <2>2 DEF PlaceSays, Section!TryEnter, SectionTypeOK
    <3>2. QED
      BY <1>0, <1>2, <2>2, <3>1, TryingStep
      DEF Section!TryEnter, Section!TryEnterImpl, Section!LockedByCurrentThread, SectionAsMutex!Next, TryingPlaces
  <2>3. CASE owner # t /\ ~(sectionCounter > 0)
    BY <1>0, <1>2, <2>3, InsideStep
    DEF Section!TryEnter, Section!TryEnterImpl, Section!LockedByCurrentThread, TryingPlaces
  <2>4. QED
    BY <2>1, <2>2, <2>3
<1>3. CASE Section!Leave(t)
  <2>1. /\ place[t] = "ready" /\ depth[t] > 0 /\ owner = t /\ owner # Nobody /\ lockCount = depth[t]
        /\ lockCount' = depth[t] - 1
        /\ depth' = [depth EXCEPT ![t] = depth[t] - 1]
        /\ place' = [place EXCEPT ![t] = IF lockCount' = 0 THEN "clear" ELSE "ready"]
    BY <1>0, <1>3, SectionAssumption DEF Section!Leave, SectionInv, SectionTypeOK, PlaceSays
  <2>5. depth[t] \in Nat
    BY <1>0 DEF SectionTypeOK
  <2>2. CASE depth[t] = 1
    <3>1. Section!Phase[t] = "in"
      BY <2>1 DEF Section!Phase
    <3>2. place' = [place EXCEPT ![t] = "clear"] /\ depth' = [depth EXCEPT ![t] = 0]
      BY <2>1, <2>2, <2>5
    <3>3. Section!Phase' = [Section!Phase EXCEPT ![t] = "out"]
      <4>1. Section!Phase'[t] = "out"
        BY <1>0, <3>2 DEF Section!Phase, SectionTypeOK
      <4>2. \A u \in Contenders : u # t => place'[u] = place[u] /\ depth'[u] = depth[u]
        BY <1>0, <3>2 DEF SectionTypeOK
      <4>3. QED
        BY <4>1, <4>2, PhaseChanges
    <3>4. QED
      BY <3>1, <3>3 DEF SectionAsMutex!Exit, SectionAsMutex!Next
  <2>3. CASE depth[t] # 1
    <3>1. place' = place /\ depth'[t] > 0
      BY <1>0, <2>1, <2>3, <2>5 DEF SectionTypeOK
    <3>2. \A u \in Contenders : u # t => depth'[u] = depth[u]
      BY <1>0, <2>1 DEF SectionTypeOK
    <3>3. QED
      BY <2>1, <3>1, <3>2 DEF Section!Phase
  <2>4. QED
    BY <2>2, <2>3
<1>4. CASE Section!Count(t)
  <2>1. /\ place[t] = "count" /\ depth[t] \in Nat /\ t \in Section!Owners
        /\ depth' = [depth EXCEPT ![t] = depth[t] + 1] /\ place' = [place EXCEPT ![t] = "ready"]
    BY <1>0, <1>4 DEF Section!Count, SectionTypeOK, Section!Owners, Section!Inside
  <2>2. CASE depth[t] = 0
    <3>1. Section!Phase[t] = "trying"
      BY <2>1, <2>2 DEF Section!Phase
    <3>2. \A u \in Contenders : Section!Phase[u] # "in"
      <4>1. SUFFICES ASSUME NEW u \in Contenders, depth[u] > 0 PROVE FALSE
        BY DEF Section!Phase
      <4>2. u \in Section!Owners
        BY <4>1 DEF Section!Owners
      <4>3. QED
        BY <2>1, <2>2, <4>1, <4>2 DEF SectionInv
    <3>3. Section!Phase' = [Section!Phase EXCEPT ![t] = "in"]
      <4>1. Section!Phase'[t] = "in"
        BY <1>0, <2>1, <2>2 DEF Section!Phase, SectionTypeOK
      <4>2. \A u \in Contenders : u # t => place'[u] = place[u] /\ depth'[u] = depth[u]
        BY <1>0, <2>1 DEF SectionTypeOK
      <4>3. QED
        BY <4>1, <4>2, PhaseChanges
    <3>4. QED
      BY <3>1, <3>2, <3>3 DEF SectionAsMutex!Enter, SectionAsMutex!Free, SectionAsMutex!Next
  <2>3. CASE depth[t] # 0
    <3>1. depth[t] > 0 /\ depth'[t] > 0
      BY <1>0, <2>1, <2>3 DEF SectionTypeOK
    <3>2. \A u \in Contenders : u # t => depth'[u] = depth[u] /\ place'[u] = place[u]
      BY <1>0, <2>1 DEF SectionTypeOK
    <3>3. QED
      BY <3>1, <3>2 DEF Section!Phase
  <2>4. QED
    BY <2>2, <2>3
<1>5. CASE Section!TryFirst(t) \/ Section!TryAgain(t)
  BY <1>0, <1>5, InsideStep DEF Section!TryFirst, Section!TryAgain, Section!TryEnterImpl, TryingPlaces
<1>6. CASE Section!Look(t) \/ Section!Wait(t) \/ Section!Own(t)
  BY <1>0, <1>6, InsideStep DEF Section!Look, Section!Wait, Section!Own, TryingPlaces
<1>7. CASE Section!Clear(t) \/ Section!Reverse(t) \/ Section!SignalOne(t)
  BY <1>0, <1>7, InsideStep DEF Section!Clear, Section!Reverse, Section!SignalOne, TryingPlaces
<1>8. QED
  BY <1>1, <1>2, <1>3, <1>4, <1>5, <1>6, <1>7 DEF Section!Step

\* The lock of the default build implements the safety of the abstract Mutex, for any
\* contenders and any nesting, as long as its counter stays within its word.
THEOREM SectionIsMutex ==
    ASSUME WaitsFit
    PROVE  Section!SafeSpec => SectionAsMutex!SafeSpec
<1>1. Section!Init => SectionAsMutex!Init
  BY DEF Section!Init, SectionAsMutex!Init, Section!Phase
<1>2. SectionInv /\ [Section!Next]_Section!vars => [SectionAsMutex!Next]_(Section!Phase)
  <2>1. CASE Section!Next
    BY <2>1, SectionStepRefines DEF Section!Next
  <2>2. CASE UNCHANGED Section!vars
    BY <2>2 DEF Section!vars, Section!Phase
  <2>3. QED
    BY <2>1, <2>2
<1>3. QED
  BY <1>1, <1>2, SectionInvariance, PTL DEF Section!SafeSpec, SectionAsMutex!SafeSpec

------------------------------------------------------------------------------
\* What each object does in a behaviour of the three is a behaviour of its own.
LEMMA EachAlone == SyncSpec => SafeSpec /\ Event!SafeSpec /\ Section!SafeSpec
<1>1. SyncInit => Init /\ Event!Init /\ Section!Init
  BY DEF SyncInit
<1>2. [SyncNext]_allVars => [Next]_vars
  BY DEF SyncNext, allVars, OnSemaphore, OnEvent, OnSection
<1>3. [SyncNext]_allVars => [Event!Next]_Event!vars
  BY DEF SyncNext, allVars, OnSemaphore, OnEvent, OnSection, eventVars, Event!vars
<1>4. [SyncNext]_allVars => [Section!Next]_Section!vars
  BY DEF SyncNext, allVars, OnSemaphore, OnEvent, OnSection, sectionVars, Section!vars
<1>5. QED
  BY <1>1, <1>2, <1>3, <1>4, PTL DEF SyncSpec, SafeSpec, Event!SafeSpec, Section!SafeSpec

\* All that is safety in what the run checks of the three objects.
THEOREM ObjectsAreExact ==
    ASSUME WaitsFit
    PROVE  SyncSpec => /\ [](EnoughWakeups /\ CounterIsWaits)
                       /\ Event!WaitSawSignal
                       /\ Abstract!SafeSpec /\ SectionAsMutex!SafeSpec
<1>1. Section!SafeSpec => []CounterIsWaits
  BY CountersAreWaits, PTL DEF CounterIsWaits
<1>2. Section!SafeSpec => SectionAsMutex!SafeSpec
  BY SectionIsMutex
<1>3. QED
  BY <1>1, <1>2, EachAlone, WakeupsAreEnough, Refinement, WaitsSawSignals, PTL
==============================================================================
