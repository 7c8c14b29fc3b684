------------------------ MODULE CriticalSectionProofs ------------------------
(***************************************************************************)
(* Proofs about SimpleLock and the CriticalSection on it, for every finite *)
(* set of threads and every depth.  In the lock, CounterExact is what      *)
(* makes the rest inductive: Unlock decides from the counter alone whether *)
(* a waiter must be woken, so mutual exclusion and the absence of lost     *)
(* wake-ups both stand on the counter never lying about the waiters.  The  *)
(* lock's invariant holds under the calls of the section because each of   *)
(* them leaves the lock alone or makes one of its steps.  On it stands     *)
(* what the unprotected words say: only the thread that has the lock       *)
(* writes them, and no other thread's reading of them can look like its    *)
(* own identity.                                                           *)
(***************************************************************************)
EXTENDS CriticalSection, FiniteSetTheorems, TLAPS

------------------------------------------------------------------------------
(* SimpleLock. *)

\* Only a registered waiter sleeps in the kernel.
SleepersAreWaiters == \A t \in blocked : pc[t] = "wake"

IInv ==
    /\ TypeOK
    /\ SleepersAreWaiters
    /\ MutualExclusion
    /\ CounterExact
    /\ NoLostWakeup

\* The waiters are finitely many, so counting them up or down is arithmetic.
LEMMA WaitersCount ==
    ASSUME TypeOK
    PROVE  /\ IsFiniteSet(Waiters)
           /\ Cardinality(Waiters) \in Nat
           /\ Cardinality(Waiters) = 0 <=> Waiters = {}
<1>1. Waiters \subseteq Threads
  BY DEF Waiters
<1>2. IsFiniteSet(Waiters)
  BY <1>1, ThreadsFinite, FS_Subset
<1>3. QED
  BY <1>2, FS_CardinalityType, FS_EmptySet

\* A thread that leaves the waiters is counted out of them.
LEMMA OneWaiterLess ==
    ASSUME TypeOK, NEW t \in Waiters
    PROVE  Cardinality(Waiters \ {t}) = Cardinality(Waiters) - 1
BY WaitersCount, FS_RemoveElement

\* A thread that joins the waiters is counted among them.
LEMMA OneWaiterMore ==
    ASSUME TypeOK, NEW t, t \notin Waiters
    PROVE  Cardinality(Waiters \cup {t}) = Cardinality(Waiters) + 1
BY WaitersCount, FS_AddElement

\* SimpleLock starts with the invariant.
LEMMA InitInv == Init => IInv
<1> SUFFICES ASSUME Init PROVE IInv
  OBVIOUS
<1>1. TypeOK /\ SleepersAreWaiters /\ MutualExclusion /\ NoLostWakeup
  BY DEF Init, TypeOK, SleepersAreWaiters, MutualExclusion, NoLostWakeup, Owners
<1>2. Waiters = {} /\ Owners = {}
  BY DEF Init, Waiters, Owners
<1>3. CounterExact
  BY <1>2, FS_EmptySet DEF Init, CounterExact
<1>4. QED
  BY <1>1, <1>3 DEF IInv

\* A TryLock, wherever it stands, keeps the invariant if `failed' is a place
\* of a thread that neither owns, waits nor signals.
LEMMA TryLockInv ==
    ASSUME IInv, NEW t \in Threads, NEW failed \in {"idle", "register"},
           pc[t] \in {"idle", "retry"}, TryLockOr(t, failed)
    PROVE  IInv'
<1> USE DEF IInv
<1>1. TypeOK'
  BY DEF TypeOK, TryLockOr, Goto
<1>2. SleepersAreWaiters'
  BY DEF TypeOK, TryLockOr, Goto, SleepersAreWaiters
<1>3. Waiters' = Waiters
  BY DEF TypeOK, TryLockOr, Goto, Waiters
<1>4. CASE counter > 0
  <2>1. Owners = {} /\ Owners' = {t} /\ counter' = -counter
    BY <1>4 DEF TypeOK, TryLockOr, Goto, Owners, CounterExact
  <2>2. CounterExact'
    BY <1>3, <1>4, <2>1 DEF CounterExact, TypeOK
  <2>3. MutualExclusion'
    BY <2>1 DEF MutualExclusion
  <2>4. NoLostWakeup'
    BY <1>4, <2>1 DEF NoLostWakeup, TypeOK
  <2>5. QED
    BY <1>1, <1>2, <2>2, <2>3, <2>4
<1>5. CASE ~(counter > 0)
  <2>1. Owners' = Owners /\ counter' = counter
    BY <1>5 DEF TypeOK, TryLockOr, Goto, Owners
  <2>2. CounterExact' /\ MutualExclusion'
    BY <1>3, <2>1 DEF CounterExact, MutualExclusion
  <2>3. NoLostWakeup'
    BY <1>5, <2>1 DEF NoLostWakeup, TypeOK
  <2>4. QED
    BY <1>1, <1>2, <2>2, <2>3
<1>6. QED
  BY <1>4, <1>5

\* Every step of the lock keeps the invariant.
LEMMA NextInv == IInv /\ [Next]_vars => IInv'
<1> SUFFICES ASSUME IInv, [Next]_vars PROVE IInv'
  OBVIOUS
<1> USE DEF IInv
<1>1. ASSUME NEW t \in Threads, Lock(t) PROVE IInv'
  BY <1>1, TryLockInv DEF Lock
<1>2. ASSUME NEW t \in Threads, TryLock(t) PROVE IInv'
  BY <1>2, TryLockInv DEF TryLock
<1>3. ASSUME NEW t \in Threads, Retry(t) PROVE IInv'
  BY <1>3, TryLockInv DEF Retry
<1>4. ASSUME NEW t \in Threads, Register(t) PROVE IInv'
  <2>1. TypeOK' /\ SleepersAreWaiters'
    BY <1>4 DEF TypeOK, Register, Goto, SleepersAreWaiters
  <2>2. Owners' = Owners
    BY <1>4 DEF TypeOK, Register, Goto, Owners
  <2>3. CASE counter < 0
    <3>1. Waiters' = Waiters \cup {t} /\ t \notin Waiters
      BY <1>4, <2>3 DEF TypeOK, Register, Goto, Waiters
    <3>2. Cardinality(Waiters') = Cardinality(Waiters) + 1
      BY <3>1, OneWaiterMore
    <3>3. CounterExact'
      BY <1>4, <2>2, <2>3, <3>2, WaitersCount
         DEF CounterExact, Register, TypeOK
    <3>4. NoLostWakeup'
      BY <1>4, <2>3 DEF NoLostWakeup, Register, TypeOK
    <3>5. QED
      BY <2>1, <2>2, <3>3, <3>4 DEF MutualExclusion
  <2>4. CASE ~(counter < 0)
    <3>1. Waiters' = Waiters /\ counter' = counter /\ blocked' = blocked
      BY <1>4, <2>4 DEF TypeOK, Register, Goto, Waiters
    <3>2. CounterExact'
      BY <2>2, <3>1 DEF CounterExact
    <3>3. NoLostWakeup'
      BY <1>4, <2>4, <3>1 DEF NoLostWakeup, Register, Goto, TypeOK
    <3>4. QED
      BY <2>1, <2>2, <3>2, <3>3 DEF MutualExclusion
  <2>5. QED
    BY <2>3, <2>4
<1>5. ASSUME NEW t \in Threads, Wait(t) PROVE IInv'
  <2>1. TypeOK' /\ SleepersAreWaiters' /\ counter' = counter
    BY <1>5 DEF TypeOK, Wait, WaitIfLessThan, Goto, SleepersAreWaiters
  <2>2. Owners' = Owners /\ Waiters' = Waiters /\ t \in Waiters'
    BY <1>5 DEF TypeOK, Wait, WaitIfLessThan, Goto, Owners, Waiters
  <2>3. CounterExact' /\ MutualExclusion'
    BY <2>1, <2>2 DEF CounterExact, MutualExclusion
  <2>4. NoLostWakeup'
    <3>1. SUFFICES ASSUME counter' > 0 PROVE t \in Waiters' \ blocked'
      BY DEF NoLostWakeup
    <3>2. blocked' = blocked /\ t \notin blocked
      BY <1>5, <2>1, <3>1
         DEF TypeOK, Wait, WaitIfLessThan, SleepersAreWaiters
    <3>3. QED
      BY <2>2, <3>2
  <2>5. QED
    BY <2>1, <2>3, <2>4
<1>6. ASSUME NEW t \in Threads, Wake(t) PROVE IInv'
  <2>1. SleepersAreWaiters' /\ blocked' = blocked
    BY <1>6 DEF TypeOK, Wake, Goto, SleepersAreWaiters
  <2>2. CASE counter > 0
    <3>1. /\ Owners = {} /\ Owners' = {t}
          /\ t \in Waiters /\ Waiters' = Waiters \ {t}
      BY <1>6, <2>2
         DEF TypeOK, Wake, Goto, Owners, Waiters, CounterExact
    <3>2. Cardinality(Waiters') = Cardinality(Waiters) - 1
      BY <3>1, OneWaiterLess
    <3>3. counter' \in Int /\ counter' < 0 /\ -counter' = 1 + Cardinality(Waiters')
      <4>1. Cardinality(Waiters) \in Nat /\ Cardinality(Waiters) # 0
        BY <3>1, WaitersCount
      <4>2. counter = 1 + Cardinality(Waiters) /\ counter' = -counter + 1
        BY <1>6, <2>2 DEF CounterExact, Wake, TypeOK
      <4>3. QED
        BY <3>2, <4>1, <4>2
    <3>4. CounterExact' /\ MutualExclusion' /\ NoLostWakeup'
      BY <3>1, <3>3 DEF CounterExact, MutualExclusion, NoLostWakeup
    <3>5. TypeOK'
      BY <1>6, <3>3 DEF TypeOK, Wake, Goto
    <3>6. QED
      BY <2>1, <3>4, <3>5
  <2>3. CASE ~(counter > 0)
    <3>1. Owners' = Owners /\ Waiters' = Waiters /\ counter' = counter
      BY <1>6, <2>3 DEF TypeOK, Wake, Goto, Owners, Waiters
    <3>2. CounterExact' /\ MutualExclusion' /\ NoLostWakeup'
      BY <2>3, <3>1 DEF CounterExact, MutualExclusion, NoLostWakeup, TypeOK
    <3>3. TypeOK'
      BY <1>6, <3>1 DEF TypeOK, Wake, Goto
    <3>4. QED
      BY <2>1, <3>2, <3>3
  <2>4. QED
    BY <2>2, <2>3
<1>7. ASSUME NEW t \in Threads, Unlock(t) PROVE IInv'
  <2>1. TypeOK' /\ SleepersAreWaiters' /\ blocked' = blocked
    BY <1>7 DEF TypeOK, Unlock, Goto, SleepersAreWaiters
  <2>2. Owners = {t} /\ Owners' = {} /\ Waiters' = Waiters
    BY <1>7 DEF TypeOK, Unlock, Goto, Owners, Waiters, MutualExclusion
  <2>3. counter < 0 /\ counter' = -counter
    BY <1>7, <2>2 DEF CounterExact, Unlock
  <2>4. CounterExact' /\ MutualExclusion'
    BY <2>2, <2>3 DEF CounterExact, MutualExclusion, TypeOK
  <2>5. NoLostWakeup'
    <3>1. CASE counter' > 1
      BY <1>7, <3>1 DEF TypeOK, Unlock, Goto, NoLostWakeup
    <3>2. CASE ~(counter' > 1)
      <4>1. Waiters = {}
        BY <2>2, <2>3, <3>2, WaitersCount DEF CounterExact, TypeOK
      <4>2. blocked' = {}
        BY <2>1, <4>1 DEF TypeOK, SleepersAreWaiters, Waiters
      <4>3. QED
        BY <4>2 DEF NoLostWakeup
    <3>3. QED
      BY <3>1, <3>2
  <2>6. QED
    BY <2>1, <2>4, <2>5
<1>8. ASSUME NEW t \in Threads, SignalOne(t) PROVE IInv'
  <2>1. TypeOK' /\ SleepersAreWaiters' /\ counter' = counter
    BY <1>8 DEF TypeOK, SignalOne, Signal, Goto, SleepersAreWaiters
  <2>2. Owners' = Owners /\ Waiters' = Waiters
    BY <1>8 DEF TypeOK, SignalOne, Signal, Goto, Owners, Waiters
  <2>3. CounterExact' /\ MutualExclusion'
    BY <2>1, <2>2 DEF CounterExact, MutualExclusion
  <2>4. NoLostWakeup'
    <3>1. SUFFICES ASSUME blocked' # {} PROVE Waiters' \ blocked' # {}
      BY DEF NoLostWakeup
    <3>2. PICK woken \in SUBSET blocked :
            /\ IF Cardinality(blocked) <= 1
               THEN woken = blocked
               ELSE Cardinality(woken) = 1
            /\ blocked' = blocked \ woken
      BY <1>8 DEF SignalOne, Signal
    <3>3. Cardinality(woken) = 1
      BY <3>1, <3>2
    <3>4. woken # {}
      BY <3>3, FS_EmptySet
    <3>5. woken \subseteq Waiters
      BY <3>2 DEF TypeOK, SleepersAreWaiters, Waiters
    <3>6. QED
      BY <2>2, <3>2, <3>4, <3>5
  <2>5. QED
    BY <2>1, <2>3, <2>4
<1>9. CASE UNCHANGED vars
  BY <1>9 DEF vars, TypeOK, SleepersAreWaiters, MutualExclusion, CounterExact,
              NoLostWakeup, Owners, Waiters
<1>10. QED
  BY <1>1, <1>2, <1>3, <1>4, <1>5, <1>6, <1>7, <1>8, <1>9 DEF Next, Step

(* The invariant holds in every state of the lock. *)
LEMMA Invariance == SafeSpec => []IInv
BY InitInv, NextInv, PTL DEF SafeSpec

\* The variables of the lock keep their types.
THEOREM TypeCorrect == SafeSpec => []TypeOK
BY Invariance, PTL DEF IInv

\* At most one thread owns a SimpleLock (os_SimpleLock.cpp, Lock and TryLock).
THEOREM LockIsExclusive == SafeSpec => []MutualExclusion
BY Invariance, PTL DEF IInv

\* m_Counter is exact: its sign is the lock's state and its magnitude counts
\* the registered waiters, for every number of threads and interleaving.
THEOREM CounterIsExact == SafeSpec => []CounterExact
BY Invariance, PTL DEF IInv

\* Unlock never forgets a sleeping waiter, although it updates the counter
\* and signals in two steps.
THEOREM WakeupsAreNotLost == SafeSpec => []NoLostWakeup
BY Invariance, PTL DEF IInv

\* Phase, place by place.
LEMMA PhaseOf ==
    ASSUME TypeOK, NEW t \in Threads
    PROVE  /\ Phase[t] = "in" <=> t \in Owners
           /\ pc[t] \in {"idle", "signal"} => Phase[t] = "out"
           /\ pc[t] \in {"register", "retry", "wait", "wake"} =>
                  Phase[t] = "trying"
BY DEF TypeOK, Phase, Owners

\* A step that moves only thread t changes only t's phase.
LEMMA PhaseMoves ==
    ASSUME TypeOK, TypeOK', NEW t \in Threads,
           \A u \in Threads \ {t} : pc'[u] = pc[u]
    PROVE  Phase' = [Phase EXCEPT ![t] = Phase'[t]]
BY DEF Phase, TypeOK

\* A step of SimpleLock is a step of the abstract lock or leaves it alone.
LEMMA StepRefines == IInv /\ IInv' /\ [Next]_vars => [Abstract!Next]_Phase
<1> SUFFICES ASSUME IInv, IInv', [Next]_vars PROVE [Abstract!Next]_Phase
  OBVIOUS
<1> USE DEF IInv
<1>1. ASSUME NEW t \in Threads, NEW failed \in {"idle", "register"},
             pc[t] \in {"idle", "retry"}, pc[t] = "retry" => failed = "register",
             TryLockOr(t, failed)
      PROVE  [Abstract!Next]_Phase
  <2>1. Phase' = [Phase EXCEPT ![t] = Phase'[t]]
    BY <1>1, PhaseMoves DEF TryLockOr, Goto, TypeOK
  <2>2. CASE counter > 0
    <3>1. Abstract!Free
      BY <2>2, PhaseOf DEF Abstract!Free, CounterExact, TypeOK
    <3>2. Phase'[t] = "in"
      BY <1>1, <2>2 DEF TryLockOr, Goto, TypeOK, Phase
    <3>3. Abstract!Barge(t) \/ Abstract!Enter(t)
      BY <1>1, <2>1, <3>1, <3>2, PhaseOf DEF Abstract!Barge, Abstract!Enter
    <3>4. QED
      BY <3>3 DEF Abstract!Next
  <2>3. CASE ~(counter > 0)
    <3>1. pc'[t] = failed
      BY <1>1, <2>3 DEF TryLockOr, Goto, TypeOK
    <3>2. CASE failed = "idle"
      <4>1. Phase'[t] = Phase[t]
        BY <1>1, <3>1, <3>2 DEF Phase, TypeOK
      <4>2. Phase' = Phase
        BY <2>1, <4>1 DEF Phase
      <4>3. QED
        BY <4>2
    <3>3. CASE failed = "register" /\ pc[t] = "idle"
      <4>1. Abstract!Try(t)
        BY <2>1, <3>1, <3>3 DEF Abstract!Try, Phase, TypeOK
      <4>2. QED
        BY <4>1 DEF Abstract!Next
    <3>4. CASE failed = "register" /\ pc[t] = "retry"
      <4>1. Phase'[t] = Phase[t]
        BY <3>1, <3>4 DEF Phase, TypeOK
      <4>2. Phase' = Phase
        BY <2>1, <4>1 DEF Phase
      <4>3. QED
        BY <4>2
    <3>5. QED
      BY <1>1, <3>2, <3>3, <3>4
  <2>4. QED
    BY <2>2, <2>3
<1>2. ASSUME NEW t \in Threads, Lock(t) \/ TryLock(t) \/ Retry(t)
      PROVE  [Abstract!Next]_Phase
  BY <1>1, <1>2 DEF Lock, TryLock, Retry
<1>3. ASSUME NEW t \in Threads, Register(t) \/ Wait(t) \/ SignalOne(t)
      PROVE  [Abstract!Next]_Phase
  <2>1. Phase' = Phase
    BY <1>3 DEF Register, Wait, SignalOne, Goto, TypeOK, Phase
  <2>2. QED
    BY <2>1
<1>4. ASSUME NEW t \in Threads, Wake(t) PROVE [Abstract!Next]_Phase
  <2>1. CASE counter > 0
    <3>1. Abstract!Free
      BY <2>1, PhaseOf DEF Abstract!Free, CounterExact, TypeOK
    <3>2. Phase[t] = "trying" /\ Phase'[t] = "in"
      BY <1>4, <2>1 DEF Wake, Goto, TypeOK, Phase
    <3>3. Phase' = [Phase EXCEPT ![t] = Phase'[t]]
      BY <1>4, PhaseMoves DEF Wake, Goto, TypeOK
    <3>4. Abstract!Enter(t)
      BY <3>1, <3>2, <3>3 DEF Abstract!Enter
    <3>5. QED
      BY <3>4 DEF Abstract!Next
  <2>2. CASE ~(counter > 0)
    <3>1. Phase' = Phase
      BY <1>4, <2>2 DEF Wake, Goto, TypeOK, Phase
    <3>2. QED
      BY <3>1
  <2>3. QED
    BY <2>1, <2>2
<1>5. ASSUME NEW t \in Threads, Unlock(t) PROVE [Abstract!Next]_Phase
  <2>1. Phase[t] = "in" /\ Phase'[t] = "out"
    BY <1>5 DEF Unlock, Goto, TypeOK, Phase
  <2>2. Phase' = [Phase EXCEPT ![t] = Phase'[t]]
    BY <1>5, PhaseMoves DEF Unlock, Goto, TypeOK
  <2>3. Abstract!Exit(t)
    BY <2>1, <2>2 DEF Abstract!Exit
  <2>4. QED
    BY <2>3 DEF Abstract!Next
<1>6. CASE UNCHANGED vars
  BY <1>6 DEF vars, Phase
<1>7. QED
  BY <1>2, <1>3, <1>4, <1>5, <1>6 DEF Next, Step

\* SimpleLock implements the safety of the abstract lock of Mutex.
THEOREM Refinement == SafeSpec => Abstract!SafeSpec
<1>1. Init => Abstract!Init
  BY DEF Init, Abstract!Init, Phase
<1>2. QED
  BY <1>1, Invariance, StepRefines, PTL DEF SafeSpec, Abstract!SafeSpec
------------------------------------------------------------------------------
(* CriticalSection. *)

SectionTypeOK ==
    /\ owner \in Threads \cup {Nobody}
    /\ lockCount \in Nat
    /\ place \in [Threads -> {"ready", "lock", "locking", "count", "clear", "unlock"}]
    /\ depth \in [Threads -> Nat]

\* What a thread's place in this class says of its place in the lock, of its
\* depth and of the owner.
PlaceSays(t) ==
    /\ place[t] = "ready" =>
         /\ pc[t] \in {"idle", "signal", "locked"}
         /\ pc[t] = "locked" <=> depth[t] > 0
         /\ owner = t <=> depth[t] > 0
    /\ place[t] = "lock" => pc[t] = "idle" /\ depth[t] = 0 /\ owner # t
    /\ place[t] = "locking" =>
         pc[t] \in {"register", "retry", "wait", "wake", "locked"} /\ depth[t] = 0 /\ owner # t
    /\ place[t] = "count" => pc[t] = "locked" /\ owner = t
    /\ place[t] = "clear" => pc[t] = "locked" /\ depth[t] = 0 /\ owner = t
    /\ place[t] = "unlock" => pc[t] = "locked" /\ depth[t] = 0 /\ owner # t

\* The owner's Enters are counted, and without owner there are none.
CountSays == lockCount = IF owner = Nobody THEN 0 ELSE depth[owner]

SectionInv ==
    /\ IInv /\ SectionTypeOK /\ CountSays
    /\ \A t \in Threads : PlaceSays(t)

\* The recorded owner has the lock, so there is one at most; a thread that is in
\* is the owner.
LEMMA OwnerHasTheLock ==
    ASSUME SectionInv
    PROVE  /\ \A t \in Threads : owner = t => pc[t] = "locked"
           /\ \A t \in Threads : depth[t] > 0 => owner = t
           /\ \A t, u \in Threads : pc[t] = "locked" /\ owner = u => t = u
<1> USE DEF SectionInv, SectionTypeOK
<1>1. ASSUME NEW t \in Threads
      PROVE  /\ owner = t => pc[t] = "locked"
             /\ depth[t] > 0 => owner = t
  <2>1. PlaceSays(t)
    OBVIOUS
  <2>2. place[t] \in {"ready", "lock", "locking", "count", "clear", "unlock"} /\ depth[t] \in Nat
    OBVIOUS
  <2>3. QED
    BY <2>1, <2>2 DEF PlaceSays
<1>2. QED
  BY <1>1 DEF IInv, MutualExclusion, Owners

\* Every step of this class leaves the lock alone or is one of its steps.
LEMMA SectionStepsTheLock == [SectionNext]_sectionVars => [Next]_vars
<1> SUFFICES ASSUME [SectionNext]_sectionVars PROVE [Next]_vars
  OBVIOUS
<1>1. CASE UNCHANGED sectionVars
  BY <1>1 DEF sectionVars
<1>2. ASSUME NEW t \in Threads, Enter(t) \/ Leave(t) \/ OnLocked(t) \/ Count(t) \/ Clear(t)
      PROVE  [Next]_vars
  BY <1>2 DEF Enter, Leave, OnLocked, Count, Clear
<1>3. ASSUME NEW t \in Threads, TryEnter(t) \/ CallLock(t) \/ CallUnlock(t) \/ LockStep(t)
      PROVE  [Next]_vars
  BY <1>3 DEF TryEnter, CallLock, CallUnlock, LockStep, Next
<1>4. QED
  BY <1>1, <1>2, <1>3 DEF SectionNext, SectionStep

\* A critical section starts with the invariant.
LEMMA SectionInitInv == SectionInit => SectionInv
<1> SUFFICES ASSUME SectionInit PROVE SectionInv
  OBVIOUS
<1>1. IInv
  BY InitInv DEF SectionInit
<1>2. SectionTypeOK /\ CountSays
  BY DEF SectionInit, SectionTypeOK, CountSays
<1>3. \A t \in Threads : PlaceSays(t)
  BY NestingAssumption DEF SectionInit, Init, PlaceSays
<1>4. QED
  BY <1>1, <1>2, <1>3 DEF SectionInv

\* A step of one thread does not change what the places of the others say.
LEMMA OthersStay ==
    ASSUME SectionInv, NEW t \in Threads, NEW u \in Threads \ {t},
           pc'[u] = pc[u], place'[u] = place[u], depth'[u] = depth[u],
           owner' = owner \/ (owner # u /\ owner' # u)
    PROVE  PlaceSays(u)'
<1>1. PlaceSays(u)
  BY DEF SectionInv
<1>2. owner' = u <=> owner = u
  OBVIOUS
<1>3. QED
  BY <1>1, <1>2 DEF PlaceSays

\* Every step of a critical section keeps the invariant.
LEMMA SectionNextInv == SectionInv /\ [SectionNext]_sectionVars => SectionInv'
<1> SUFFICES ASSUME SectionInv, [SectionNext]_sectionVars PROVE SectionInv'
  OBVIOUS
<1>1. IInv'
  BY SectionStepsTheLock, NextInv DEF SectionInv
<1>2. IInv /\ TypeOK /\ SectionTypeOK /\ CountSays /\ Nobody \notin Threads
  BY NestingAssumption DEF SectionInv, IInv
<1>3. ASSUME NEW t \in Threads, Enter(t) PROVE SectionInv'
  <2>1. /\ UNCHANGED <<counter, blocked, pc, owner, lockCount, depth>>
        /\ place[t] = "ready" /\ pc[t] \in {"idle", "locked"}
        /\ place' = [place EXCEPT ![t] = IF owner = t THEN "count" ELSE "lock"]
    BY <1>3 DEF Enter, Ready, GotoPlace, LockedByCurrentThread, vars
  <2>2. SectionTypeOK' /\ CountSays'
    BY <1>2, <2>1 DEF SectionTypeOK, CountSays
  <2>3. PlaceSays(t)'
    <3>1. PlaceSays(t) /\ place'[t] = IF owner = t THEN "count" ELSE "lock"
      BY <1>2, <2>1 DEF SectionInv, SectionTypeOK
    <3>2. QED
      BY <1>2, <2>1, <3>1 DEF PlaceSays, SectionTypeOK
  <2>4. \A u \in Threads \ {t} : PlaceSays(u)'
    BY <1>2, <2>1, OthersStay DEF SectionTypeOK
  <2>5. QED
    BY <1>1, <2>2, <2>3, <2>4 DEF SectionInv
<1>4. ASSUME NEW t \in Threads, CallLock(t) PROVE SectionInv'
  <2>1. /\ place[t] = "lock" /\ place' = [place EXCEPT ![t] = "locking"]
        /\ UNCHANGED <<owner, lockCount, depth>>
        /\ \/ pc' = [pc EXCEPT ![t] = "locked"]
           \/ pc' = [pc EXCEPT ![t] = "register"]
    BY <1>4 DEF CallLock, Lock, TryLockOr, Goto, GotoPlace
  <2>2. SectionTypeOK' /\ CountSays'
    BY <1>2, <2>1 DEF SectionTypeOK, CountSays
  <2>3. PlaceSays(t)'
    <3>1. PlaceSays(t) /\ place'[t] = "locking" /\ pc'[t] \in {"locked", "register"}
      BY <1>2, <2>1 DEF SectionInv, SectionTypeOK, TypeOK
    <3>2. QED
      BY <2>1, <3>1 DEF PlaceSays
  <2>4. \A u \in Threads \ {t} : PlaceSays(u)'
    BY <1>2, <2>1, OthersStay DEF SectionTypeOK, TypeOK
  <2>5. QED
    BY <1>1, <2>2, <2>3, <2>4 DEF SectionInv
<1>5. ASSUME NEW t \in Threads, TryEnter(t) PROVE SectionInv'
  <2>1. place[t] = "ready" /\ UNCHANGED <<owner, lockCount, depth>>
    BY <1>5 DEF TryEnter, Ready
  <2>2. PlaceSays(t) /\ depth[t] \in Nat
    BY <1>2 DEF SectionInv, SectionTypeOK
  <2>3. CASE owner = t /\ place' = [place EXCEPT ![t] = "count"] /\ pc' = pc
    <3>1. SectionTypeOK' /\ CountSays'
      BY <1>2, <2>1, <2>3 DEF SectionTypeOK, CountSays
    <3>2. place'[t] = "count"
      BY <1>2, <2>3 DEF SectionTypeOK
    <3>3. PlaceSays(t)'
      BY <2>1, <2>2, <2>3, <3>2 DEF PlaceSays
    <3>4. \A u \in Threads \ {t} : PlaceSays(u)'
      BY <1>2, <2>1, <2>3, OthersStay DEF SectionTypeOK
    <3>5. QED
      BY <1>1, <3>1, <3>3, <3>4 DEF SectionInv
  <2>4. CASE /\ owner # t /\ pc[t] = "idle" /\ pc' = [pc EXCEPT ![t] = "locked"]
             /\ place' = [place EXCEPT ![t] = "locking"]
    <3>1. SectionTypeOK' /\ CountSays'
      BY <1>2, <2>1, <2>4 DEF SectionTypeOK, CountSays
    <3>2. place'[t] = "locking" /\ pc'[t] = "locked"
      BY <1>2, <2>4 DEF SectionTypeOK, TypeOK
    <3>3. PlaceSays(t)'
      BY <2>1, <2>2, <2>4, <3>2 DEF PlaceSays
    <3>4. \A u \in Threads \ {t} : PlaceSays(u)'
      BY <1>2, <2>1, <2>4, OthersStay DEF SectionTypeOK, TypeOK
    <3>5. QED
      BY <1>1, <3>1, <3>3, <3>4 DEF SectionInv
  <2>5. CASE pc' = pc /\ place' = place
    <3>1. SectionTypeOK' /\ CountSays'
      BY <1>2, <2>1, <2>5 DEF SectionTypeOK, CountSays
    <3>2. \A u \in Threads : PlaceSays(u)'
      BY <2>1, <2>5 DEF SectionInv, PlaceSays
    <3>3. QED
      BY <1>1, <3>1, <3>2 DEF SectionInv
  <2>6. QED
    <3>1. CASE LockedByCurrentThread(t)
      BY <1>5, <2>3, <3>1 DEF TryEnter, LockedByCurrentThread, GotoPlace, vars
    <3>2. CASE ~LockedByCurrentThread(t)
      <4>1. TryLock(t) /\ IF pc'[t] = "locked" THEN GotoPlace(t, "locking") ELSE UNCHANGED place
        BY <1>5, <3>2 DEF TryEnter
      <4>2. pc[t] = "idle" /\ (pc' = [pc EXCEPT ![t] = "locked"] \/ pc' = [pc EXCEPT ![t] = "idle"])
        BY <4>1 DEF TryLock, TryLockOr, Goto
      <4>3. CASE pc' = [pc EXCEPT ![t] = "locked"]
        BY <1>2, <2>4, <3>2, <4>1, <4>2, <4>3 DEF LockedByCurrentThread, GotoPlace, TypeOK
      <4>4. CASE pc' = [pc EXCEPT ![t] = "idle"]
        <5>1. pc' = pc /\ pc'[t] = "idle"
          BY <1>2, <4>2, <4>4 DEF TypeOK
        <5>2. QED
          BY <2>5, <4>1, <5>1
      <4>5. QED
        BY <4>2, <4>3, <4>4
    <3>3. QED
      BY <3>1, <3>2
<1>6. ASSUME NEW t \in Threads, OnLocked(t) PROVE SectionInv'
  <2>1. /\ place[t] = "locking" /\ pc[t] = "locked" /\ owner' = t
        /\ place' = [place EXCEPT ![t] = "count"]
        /\ UNCHANGED <<counter, blocked, pc, lockCount, depth>>
    BY <1>6 DEF OnLocked, GotoPlace, vars
  <2>2. PlaceSays(t)
    BY DEF SectionInv
  <2>3. owner = Nobody
    BY <1>2, <2>1, <2>2, OwnerHasTheLock DEF SectionTypeOK, PlaceSays
  <2>4. SectionTypeOK' /\ CountSays' /\ place'[t] = "count"
    BY <1>2, <2>1, <2>2, <2>3 DEF SectionTypeOK, CountSays, PlaceSays
  <2>5. PlaceSays(t)'
    BY <2>1, <2>4 DEF PlaceSays
  <2>6. \A u \in Threads \ {t} : PlaceSays(u)'
    BY <1>2, <2>1, <2>3, OthersStay DEF SectionTypeOK
  <2>7. QED
    BY <1>1, <2>4, <2>5, <2>6 DEF SectionInv
<1>7. ASSUME NEW t \in Threads, Count(t) PROVE SectionInv'
  <2>1. /\ place[t] = "count" /\ lockCount' = lockCount + 1
        /\ depth' = [depth EXCEPT ![t] = depth[t] + 1]
        /\ place' = [place EXCEPT ![t] = "ready"]
        /\ UNCHANGED <<counter, blocked, pc, owner>>
    BY <1>7 DEF Count, GotoPlace, vars
  <2>2. PlaceSays(t)
    BY DEF SectionInv
  <2>3. owner = t /\ pc[t] = "locked" /\ depth'[t] = depth[t] + 1 /\ depth[t] \in Nat /\ place'[t] = "ready"
    BY <1>2, <2>1, <2>2 DEF PlaceSays, SectionTypeOK
  <2>4. SectionTypeOK' /\ CountSays'
    BY <1>2, <2>1, <2>3 DEF SectionTypeOK, CountSays
  <2>5. PlaceSays(t)'
    BY <2>1, <2>3 DEF PlaceSays
  <2>6. \A u \in Threads \ {t} : PlaceSays(u)'
    BY <1>2, <2>1, OthersStay DEF SectionTypeOK
  <2>7. QED
    BY <1>1, <2>4, <2>5, <2>6 DEF SectionInv
<1>8. ASSUME NEW t \in Threads, Leave(t) PROVE SectionInv'
  <2>1. /\ place[t] = "ready" /\ depth[t] > 0 /\ lockCount' = lockCount - 1
        /\ depth' = [depth EXCEPT ![t] = depth[t] - 1]
        /\ place' = [place EXCEPT ![t] = IF lockCount' = 0 THEN "clear" ELSE "ready"]
        /\ UNCHANGED <<counter, blocked, pc, owner>>
    BY <1>8 DEF Leave, Ready, GotoPlace, vars
  <2>2. PlaceSays(t)
    BY DEF SectionInv
  <2>3. /\ owner = t /\ pc[t] = "locked" /\ lockCount = depth[t]
        /\ depth[t] \in Nat /\ depth'[t] = depth[t] - 1
        /\ place'[t] = IF lockCount' = 0 THEN "clear" ELSE "ready"
    BY <1>2, <2>1, <2>2 DEF PlaceSays, SectionTypeOK, CountSays
  <2>4. SectionTypeOK' /\ CountSays'
    BY <1>2, <2>1, <2>3 DEF SectionTypeOK, CountSays
  <2>5. PlaceSays(t)'
    BY <2>1, <2>3 DEF PlaceSays
  <2>6. \A u \in Threads \ {t} : PlaceSays(u)'
    BY <1>2, <2>1, OthersStay DEF SectionTypeOK
  <2>7. QED
    BY <1>1, <2>4, <2>5, <2>6 DEF SectionInv
<1>9. ASSUME NEW t \in Threads, Clear(t) PROVE SectionInv'
  <2>1. /\ place[t] = "clear" /\ owner' = Nobody
        /\ place' = [place EXCEPT ![t] = "unlock"]
        /\ UNCHANGED <<counter, blocked, pc, lockCount, depth>>
    BY <1>9 DEF Clear, GotoPlace, vars
  <2>2. PlaceSays(t)
    BY DEF SectionInv
  <2>3. owner = t /\ pc[t] = "locked" /\ depth[t] = 0 /\ lockCount = 0 /\ place'[t] = "unlock"
    BY <1>2, <2>1, <2>2 DEF PlaceSays, SectionTypeOK, CountSays
  <2>4. SectionTypeOK' /\ CountSays'
    BY <1>2, <2>1, <2>3 DEF SectionTypeOK, CountSays
  <2>5. PlaceSays(t)'
    BY <1>2, <2>1, <2>3 DEF PlaceSays
  <2>6. \A u \in Threads \ {t} : PlaceSays(u)'
    BY <1>2, <2>1, <2>3, OthersStay DEF SectionTypeOK
  <2>7. QED
    BY <1>1, <2>4, <2>5, <2>6 DEF SectionInv
<1>10. ASSUME NEW t \in Threads, CallUnlock(t) PROVE SectionInv'
  <2>1. /\ place[t] = "unlock" /\ place' = [place EXCEPT ![t] = "ready"]
        /\ \/ pc' = [pc EXCEPT ![t] = "signal"]
           \/ pc' = [pc EXCEPT ![t] = "idle"]
        /\ UNCHANGED <<owner, lockCount, depth>>
    BY <1>10 DEF CallUnlock, Unlock, Goto, GotoPlace
  <2>2. PlaceSays(t)
    BY DEF SectionInv
  <2>3. pc'[t] \in {"signal", "idle"} /\ place'[t] = "ready"
    BY <1>2, <2>1 DEF SectionTypeOK, TypeOK
  <2>4. SectionTypeOK' /\ CountSays'
    BY <1>2, <2>1 DEF SectionTypeOK, CountSays
  <2>5. PlaceSays(t)'
    BY <2>1, <2>2, <2>3 DEF PlaceSays
  <2>6. \A u \in Threads \ {t} : PlaceSays(u)'
    BY <1>2, <2>1, OthersStay DEF SectionTypeOK, TypeOK
  <2>7. QED
    BY <1>1, <2>4, <2>5, <2>6 DEF SectionInv
<1>11. ASSUME NEW t \in Threads, LockStep(t) PROVE SectionInv'
  <2>1. UNCHANGED <<owner, lockCount, place, depth>>
    BY <1>11 DEF LockStep
  <2>2. \/ pc[t] = "signal" /\ pc' = [pc EXCEPT ![t] = "idle"]
        \/ \E p \in {"register", "retry", "wait", "wake", "locked"} :
             /\ pc[t] \in {"register", "retry", "wait", "wake"}
             /\ pc' = [pc EXCEPT ![t] = p]
    BY <1>11 DEF LockStep, Step, Register, Retry, TryLockOr, Wait, Wake, SignalOne, Goto
  <2>3. PlaceSays(t) /\ place[t] \in {"ready", "lock", "locking", "count", "clear", "unlock"}
    BY <1>2 DEF SectionInv, SectionTypeOK
  <2>4. SectionTypeOK' /\ CountSays'
    BY <1>2, <2>1 DEF SectionTypeOK, CountSays
  <2>5. PlaceSays(t)'
    <3>1. CASE pc[t] = "signal" /\ pc' = [pc EXCEPT ![t] = "idle"]
      <4>1. pc'[t] = "idle" /\ place[t] = "ready"
        BY <1>2, <2>3, <3>1 DEF PlaceSays, TypeOK
      <4>2. QED
        BY <2>1, <2>3, <3>1, <4>1 DEF PlaceSays
    <3>2. CASE \E p \in {"register", "retry", "wait", "wake", "locked"} :
                 /\ pc[t] \in {"register", "retry", "wait", "wake"}
                 /\ pc' = [pc EXCEPT ![t] = p]
      <4>1. pc'[t] \in {"register", "retry", "wait", "wake", "locked"} /\ place[t] = "locking"
        BY <1>2, <2>3, <3>2 DEF PlaceSays, TypeOK
      <4>2. QED
        BY <2>1, <2>3, <4>1 DEF PlaceSays
    <3>3. QED
      BY <2>2, <3>1, <3>2
  <2>6. \A u \in Threads \ {t} : PlaceSays(u)'
    BY <1>2, <2>1, <2>2, OthersStay DEF TypeOK
  <2>7. QED
    BY <1>1, <2>4, <2>5, <2>6 DEF SectionInv
<1>12. CASE UNCHANGED sectionVars
  <2>1. UNCHANGED <<counter, blocked, pc, owner, lockCount, place, depth>>
    BY <1>12 DEF sectionVars, vars
  <2>2. SectionTypeOK' /\ CountSays'
    BY <1>2, <2>1 DEF SectionTypeOK, CountSays
  <2>3. \A u \in Threads : PlaceSays(u)'
    BY <2>1 DEF SectionInv, PlaceSays
  <2>4. QED
    BY <1>1, <2>2, <2>3 DEF SectionInv
<1>13. QED
  BY <1>3, <1>4, <1>5, <1>6, <1>7, <1>8, <1>9, <1>10, <1>11, <1>12 DEF SectionNext, SectionStep

(* The invariant holds in every state of the critical section. *)
LEMMA SectionInvariance == SectionSafeSpec => []SectionInv
BY SectionInitInv, SectionNextInv, PTL DEF SectionSafeSpec

\* The SimpleLock keeps its promises under the calls of CriticalSection.
THEOREM SectionKeepsTheLock ==
    SectionSafeSpec => [](MutualExclusion /\ CounterExact /\ NoLostWakeup)
<1>1. SectionInv => MutualExclusion /\ CounterExact /\ NoLostWakeup
  BY DEF SectionInv, IInv
<1>2. QED
  BY <1>1, SectionInvariance, PTL

\* m_ThreadUniqueValue and m_LockCount are what the thread inside takes them for,
\* however deep it nests and whatever other threads read meanwhile.
THEOREM RecursionIsExact == SectionSafeSpec => []RecursionExact
<1>1. SectionInv => RecursionExact
  <2> SUFFICES ASSUME SectionInv PROVE RecursionExact
    OBVIOUS
  <2>1. \A t \in Threads : depth[t] > 0 => owner = t /\ lockCount = depth[t]
    BY OwnerHasTheLock, NestingAssumption DEF SectionInv, CountSays
  <2>2. owner # Nobody => pc[owner] = "locked"
    BY OwnerHasTheLock DEF SectionInv, SectionTypeOK
  <2>3. QED
    BY <2>1, <2>2 DEF RecursionExact
<1>2. QED
  BY <1>1, SectionInvariance, PTL

\* A step of a critical section is a step of the abstract lock or leaves it alone.
LEMMA SectionStepRefines ==
    SectionInv /\ [SectionNext]_sectionVars => [SectionAsMutex!Next]_SectionPhase
<1> SUFFICES ASSUME SectionInv, [SectionNext]_sectionVars PROVE [SectionAsMutex!Next]_SectionPhase
  OBVIOUS
<1>1. SectionTypeOK /\ \A t \in Threads : PlaceSays(t)
  BY DEF SectionInv
<1>2. ASSUME NEW t \in Threads, Enter(t) PROVE [SectionAsMutex!Next]_SectionPhase
  <2>1. /\ place[t] = "ready" /\ depth' = depth
        /\ place' = [place EXCEPT ![t] = IF owner = t THEN "count" ELSE "lock"]
    BY <1>2 DEF Enter, Ready, GotoPlace, LockedByCurrentThread
  <2>2. owner = t <=> depth[t] > 0
    BY <1>1, <2>1 DEF PlaceSays
  <2>3. CASE owner = t
    <3>1. SectionPhase' = SectionPhase
      BY <1>1, <2>1, <2>2, <2>3 DEF SectionPhase, SectionTypeOK
    <3>2. QED
      BY <3>1
  <2>4. CASE owner # t
    <3>1. SectionPhase[t] = "out" /\ SectionPhase' = [SectionPhase EXCEPT ![t] = "trying"]
      BY <1>1, <2>1, <2>2, <2>4 DEF SectionPhase, SectionTypeOK
    <3>2. SectionAsMutex!Try(t)
      BY <3>1 DEF SectionAsMutex!Try
    <3>3. QED
      BY <3>2 DEF SectionAsMutex!Next
  <2>5. QED
    BY <2>3, <2>4
<1>3. ASSUME NEW t \in Threads, TryEnter(t) PROVE [SectionAsMutex!Next]_SectionPhase
  <2>1. place[t] = "ready" /\ depth' = depth
    BY <1>3 DEF TryEnter, Ready
  <2>2. owner = t <=> depth[t] > 0
    BY <1>1, <2>1 DEF PlaceSays
  <2>3. CASE owner = t /\ place' = [place EXCEPT ![t] = "count"]
    <3>1. SectionPhase' = SectionPhase
      BY <1>1, <2>1, <2>2, <2>3 DEF SectionPhase, SectionTypeOK
    <3>2. QED
      BY <3>1
  <2>4. CASE owner # t /\ place' = [place EXCEPT ![t] = "locking"]
    <3>1. SectionPhase[t] = "out" /\ SectionPhase' = [SectionPhase EXCEPT ![t] = "trying"]
      BY <1>1, <2>1, <2>2, <2>4 DEF SectionPhase, SectionTypeOK
    <3>2. SectionAsMutex!Try(t)
      BY <3>1 DEF SectionAsMutex!Try
    <3>3. QED
      BY <3>2 DEF SectionAsMutex!Next
  <2>5. CASE place' = place
    <3>1. SectionPhase' = SectionPhase
      BY <2>1, <2>5 DEF SectionPhase
    <3>2. QED
      BY <3>1
  <2>6. QED
    BY <1>3, <2>3, <2>4, <2>5 DEF TryEnter, GotoPlace, LockedByCurrentThread
<1>4. ASSUME NEW t \in Threads, CallLock(t) \/ OnLocked(t) \/ Clear(t) \/ CallUnlock(t) \/ LockStep(t)
      PROVE  [SectionAsMutex!Next]_SectionPhase
  <2>1. SectionPhase' = SectionPhase
    BY <1>1, <1>4 DEF CallLock, OnLocked, Clear, CallUnlock, LockStep, GotoPlace, SectionPhase, SectionTypeOK
  <2>2. QED
    BY <2>1
<1>5. ASSUME NEW t \in Threads, Count(t) PROVE [SectionAsMutex!Next]_SectionPhase
  <2>1. /\ place[t] = "count" /\ depth' = [depth EXCEPT ![t] = depth[t] + 1]
        /\ place' = [place EXCEPT ![t] = "ready"]
    BY <1>5 DEF Count, GotoPlace
  <2>2. owner = t
    BY <1>1, <2>1 DEF PlaceSays
  <2>3. CASE depth[t] > 0
    <3>1. SectionPhase' = SectionPhase
      BY <1>1, <2>1, <2>3 DEF SectionPhase, SectionTypeOK
    <3>2. QED
      BY <3>1
  <2>4. CASE ~(depth[t] > 0)
    <3>1. \A u \in Threads : ~(depth[u] > 0)
      BY <2>2, <2>4, OwnerHasTheLock
    <3>2. SectionAsMutex!Free
      BY <3>1 DEF SectionAsMutex!Free, SectionPhase
    <3>3. SectionPhase[t] = "trying" /\ SectionPhase' = [SectionPhase EXCEPT ![t] = "in"]
      <4>1. depth[t] \in Nat
        BY <1>1 DEF SectionTypeOK
      <4>2. depth[t] = 0
        BY <2>4, <4>1
      <4>3. depth' = [depth EXCEPT ![t] = 1]
        BY <2>1, <4>2
      <4>4. SectionPhase[t] = "trying"
        BY <2>1, <4>2 DEF SectionPhase
      <4>5. \A u \in Threads : SectionPhase'[u] = IF u = t THEN "in" ELSE SectionPhase[u]
        BY <1>1, <2>1, <4>3 DEF SectionPhase, SectionTypeOK
      <4>6. QED
        BY <4>4, <4>5 DEF SectionPhase
    <3>4. SectionAsMutex!Enter(t)
      BY <3>2, <3>3 DEF SectionAsMutex!Enter
    <3>5. QED
      BY <3>4 DEF SectionAsMutex!Next
  <2>5. QED
    BY <2>3, <2>4
<1>6. ASSUME NEW t \in Threads, Leave(t) PROVE [SectionAsMutex!Next]_SectionPhase
  <2>1. /\ place[t] = "ready" /\ depth[t] > 0 /\ lockCount' = lockCount - 1
        /\ depth' = [depth EXCEPT ![t] = depth[t] - 1]
        /\ place' = [place EXCEPT ![t] = IF lockCount' = 0 THEN "clear" ELSE "ready"]
    BY <1>6 DEF Leave, Ready, GotoPlace
  <2>2. SectionPhase[t] = "in"
    BY <2>1 DEF SectionPhase
  <2>3. CASE depth[t] = 1
    <3>1. SectionPhase' = [SectionPhase EXCEPT ![t] = "out"]
      <4>1. depth' = [depth EXCEPT ![t] = 0]
        BY <1>1, <2>1, <2>3 DEF SectionTypeOK
      <4>2. place'[t] \in {"clear", "ready"} /\ \A u \in Threads \ {t} : place'[u] = place[u]
        BY <1>1, <2>1 DEF SectionTypeOK
      <4>3. \A u \in Threads : SectionPhase'[u] = IF u = t THEN "out" ELSE SectionPhase[u]
        BY <1>1, <4>1, <4>2 DEF SectionPhase, SectionTypeOK
      <4>4. QED
        BY <4>3 DEF SectionPhase
    <3>2. SectionAsMutex!Exit(t)
      BY <2>2, <3>1 DEF SectionAsMutex!Exit
    <3>3. QED
      BY <3>2 DEF SectionAsMutex!Next
  <2>4. CASE depth[t] # 1
    <3>1. SectionPhase' = SectionPhase
      BY <1>1, <2>1, <2>4 DEF SectionPhase, SectionTypeOK
    <3>2. QED
      BY <3>1
  <2>5. QED
    BY <2>3, <2>4
<1>7. CASE UNCHANGED sectionVars
  BY <1>7 DEF sectionVars, SectionPhase
<1>8. QED
  BY <1>2, <1>3, <1>4, <1>5, <1>6, <1>7 DEF SectionNext, SectionStep

\* Seen from outside, a critical section is a lock: the safety of Mutex, which
\* SectionImplementsMutex states with its progress.
THEOREM SectionRefinement == SectionSafeSpec => SectionAsMutex!SafeSpec
<1>1. SectionInit => SectionAsMutex!Init
  BY DEF SectionInit, SectionAsMutex!Init, SectionPhase
<1>2. QED
  BY <1>1, SectionInvariance, SectionStepRefines, PTL DEF SectionSafeSpec, SectionAsMutex!SafeSpec
==============================================================================
