--------------------------- MODULE CriticalSection ---------------------------
(***************************************************************************)
(* nn::os::CriticalSection as built for SDK versions above 2.4.1: a        *)
(* recursive lock made of a SimpleLock, the identity of its owner and a    *)
(* count.  Owner and count are plain words, read and written without       *)
(* further protection: a thread only relies on reading its own identity.   *)
(*                                                                         *)
(* The SimpleLock is the detailed one, whose properties are checked again  *)
(* here, under the calls of this class.  place[t] is where thread t stands *)
(* in this class: "ready", "lock" (about to call Lock), "locking" (in      *)
(* Lock, or out of it and about to call OnLocked), "count", "clear" (about *)
(* to forget the owner) and "unlock".                                      *)
(***************************************************************************)
EXTENDS SimpleLock

CONSTANTS Nobody,       \* a ThreadUniqueValue that no thread has
          MaxDepth      \* bound on the nesting of Enter in one thread

ASSUME NestingAssumption ==
    /\ Nobody \notin Threads
    /\ MaxDepth \in Nat

VARIABLES owner,        \* m_ThreadUniqueValue
          lockCount,    \* m_LockCount
          place,
          depth         \* the Enters of each thread not yet left

sectionVars == <<vars, owner, lockCount, place, depth>>

GotoPlace(t, p) == place' = [place EXCEPT ![t] = p]

SectionInit ==
    /\ Init
    /\ owner = Nobody
    /\ lockCount = 0
    /\ place = [t \in Threads |-> "ready"]
    /\ depth = [t \in Threads |-> 0]

\* A thread between calls; the last Unlock may not be over before its signal.
Ready(t) == place[t] = "ready" /\ pc[t] \in {"idle", "locked"}

LockedByCurrentThread(t) == owner = t

Enter(t) ==
    /\ Ready(t) /\ depth[t] < MaxDepth
    /\ GotoPlace(t, IF LockedByCurrentThread(t) THEN "count" ELSE "lock")
    /\ UNCHANGED <<vars, owner, lockCount, depth>>

CallLock(t) ==
    /\ place[t] = "lock"
    /\ Lock(t)
    /\ GotoPlace(t, "locking")
    /\ UNCHANGED <<owner, lockCount, depth>>

\* TryEnter gives up, without a change, when TryLock fails.
TryEnter(t) ==
    /\ Ready(t) /\ depth[t] < MaxDepth
    /\ \/ /\ LockedByCurrentThread(t)
          /\ GotoPlace(t, "count")
          /\ UNCHANGED vars
       \/ /\ ~LockedByCurrentThread(t)
          /\ TryLock(t)
          /\ IF pc'[t] = "locked" THEN GotoPlace(t, "locking")
                                  ELSE UNCHANGED place
    /\ UNCHANGED <<owner, lockCount, depth>>

OnLocked(t) ==
    /\ place[t] = "locking" /\ pc[t] = "locked"
    /\ owner' = t
    /\ GotoPlace(t, "count")
    /\ UNCHANGED <<vars, lockCount, depth>>

Count(t) ==
    /\ place[t] = "count"
    /\ lockCount' = lockCount + 1
    /\ depth' = [depth EXCEPT ![t] = @ + 1]
    /\ GotoPlace(t, "ready")
    /\ UNCHANGED <<vars, owner>>

\* Mutant of Leave: a nested Leave is not counted.
LeaveUncounted(t) ==
    /\ Ready(t) /\ depth[t] > 0
    /\ lockCount' = IF depth[t] = 1 THEN 0 ELSE lockCount
    /\ depth' = [depth EXCEPT ![t] = @ - 1]
    /\ GotoPlace(t, IF lockCount' = 0 THEN "clear" ELSE "ready")
    /\ UNCHANGED <<vars, owner>>

\* Leave is called by a thread that is in, as its assertion asks.
Leave(t) ==
    /\ Ready(t) /\ depth[t] > 0
    /\ lockCount' = lockCount - 1
    /\ depth' = [depth EXCEPT ![t] = @ - 1]
    /\ GotoPlace(t, IF lockCount' = 0 THEN "clear" ELSE "ready")
    /\ UNCHANGED <<vars, owner>>

\* Mutant of Clear: the owner is not forgotten.
ClearForgotten(t) ==
    /\ place[t] = "clear"
    /\ GotoPlace(t, "unlock")
    /\ UNCHANGED <<vars, owner, lockCount, depth>>

Clear(t) ==
    /\ place[t] = "clear"
    /\ owner' = Nobody
    /\ GotoPlace(t, "unlock")
    /\ UNCHANGED <<vars, lockCount, depth>>

CallUnlock(t) ==
    /\ place[t] = "unlock"
    /\ Unlock(t)
    /\ GotoPlace(t, "ready")
    /\ UNCHANGED <<owner, lockCount, depth>>

LockStep(t) ==
    /\ Step(t)
    /\ UNCHANGED <<owner, lockCount, place, depth>>

\* What a thread does by itself inside Enter and Leave.
SectionStep(t) ==
    CallLock(t) \/ OnLocked(t) \/ Count(t) \/ Clear(t) \/ CallUnlock(t)
    \/ LockStep(t)

SectionNext ==
    \E t \in Threads : Enter(t) \/ TryEnter(t) \/ Leave(t) \/ SectionStep(t)

SectionSafeSpec == SectionInit /\ [][SectionNext]_sectionVars

\* Threads keep running inside the calls, and whoever is in eventually leaves.
SectionSpec ==
    /\ SectionSafeSpec
    /\ \A t \in Threads :
          WF_sectionVars(SectionStep(t)) /\ WF_sectionVars(Leave(t))

------------------------------------------------------------------------------
\* A thread that entered is the recorded owner and its unmatched Enters are
\* exactly m_LockCount: no other thread's unprotected write of the owner or the
\* count shows through.  The recorded owner really owns the SimpleLock, so that
\* an Enter that skips the lock on reading its own identity is never wrong.
RecursionExact ==
    /\ \A t \in Threads : depth[t] > 0 => owner = t /\ lockCount = depth[t]
    /\ owner # Nobody => pc[owner] = "locked"

SectionPhase == [t \in Threads |->
            IF depth[t] > 0 THEN "in"
            ELSE IF place[t] \in {"lock", "locking", "count"} THEN "trying"
            ELSE "out"]

SectionAsMutex == INSTANCE Mutex WITH phase <- SectionPhase

\* Seen from outside, a recursive critical section is still a lock: threads
\* with unmatched Enters exclude each other, and it does not stay free while
\* threads wait in Enter.
SectionImplementsMutex == SectionAsMutex!Spec

\* Every registered waiter gets the lock, unless calls to Enter or TryEnter keep
\* coming for ever: a newcomer may overtake a woken waiter each time, and the
\* owner may nest again and again.
WaitersServed ==
    \A t \in Threads :
        \/ pc[t] = "wait" ~> pc[t] = "locked"
        \/ []<><<\E u \in Threads : Enter(u) \/ TryEnter(u)>>_sectionVars
==============================================================================
