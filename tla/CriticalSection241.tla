-------------------------- MODULE CriticalSection241 -------------------------
(***************************************************************************)
(* nn::os::CriticalSection up to SDK version 2.4.1 (the version the build  *)
(* selects by default), and InterCoreCriticalSection, which adds memory    *)
(* barriers: the recursive lock keeps its counter itself.  A waiter        *)
(* decrements the counter in the kernel call that puts it to sleep, and    *)
(* nothing ever takes the decrement back: the magnitude of the counter     *)
(* grows with every contended wait and only bounds the sleepers from       *)
(* above.  The counter is a signed word of Width bits; MaxWaits bounds the *)
(* contended waits of a behaviour.                                         *)
(*                                                                         *)
(* place[t]: "ready"; in Enter "try" (TryEnterImpl), "look" (EnterImpl     *)
(* reads the counter), "tryAgain", "wait" (about to call the kernel, or    *)
(* asleep in it), "own" (about to write the owner), "count"; in Leave      *)
(* "clear", "reverse" and "signal".                                        *)
(***************************************************************************)
EXTENDS WaitableCounter

CONSTANTS Threads,
          Nobody,       \* GetInvalidThreadUniqueValue()
          MaxDepth,     \* bound on the nesting of Enter in one thread
          Width,        \* bits of the counter
          MaxWaits      \* bound on the decrements

VARIABLES owner,        \* m_ThreadUniqueValue
          lockCount,    \* m_LockCount
          place,
          depth,        \* the Enters of each thread not yet left
          waits         \* the decrements so far

vars == <<counter, blocked, owner, lockCount, place, depth, waits>>

\* Two's complement at Width bits.
Wrap(n) == ((n + 2^(Width - 1)) % 2^Width) - 2^(Width - 1)

Goto(t, p) == place' = [place EXCEPT ![t] = p]

Init ==
    /\ counter = 1
    /\ blocked = {}
    /\ owner = Nobody
    /\ lockCount = 0
    /\ place = [t \in Threads |-> "ready"]
    /\ depth = [t \in Threads |-> 0]
    /\ waits = 0

LockedByCurrentThread(t) == owner = t

Enter(t) ==
    /\ place[t] = "ready" /\ depth[t] < MaxDepth
    /\ Goto(t, IF LockedByCurrentThread(t) THEN "count" ELSE "try")
    /\ UNCHANGED <<counter, blocked, owner, lockCount, depth, waits>>

\* Mutant of TryEnterImpl: the winner takes a waiter off the counter.
TryEnterImplUncounting(t, failed) ==
    /\ IF counter > 0
       THEN counter' = -counter + 1 /\ Goto(t, "own")
       ELSE counter' = counter /\ Goto(t, failed)
    /\ UNCHANGED <<blocked, owner, lockCount, depth, waits>>

\* TryEnterImpl: reverse the counter if positive, else go on at `failed'.
TryEnterImpl(t, failed) ==
    /\ IF counter > 0
       THEN counter' = -counter /\ Goto(t, "own")
       ELSE counter' = counter /\ Goto(t, failed)
    /\ UNCHANGED <<blocked, owner, lockCount, depth, waits>>

TryEnter(t) ==
    /\ place[t] = "ready" /\ depth[t] < MaxDepth
    /\ \/ /\ LockedByCurrentThread(t)
          /\ Goto(t, "count")
          /\ UNCHANGED <<counter, blocked, owner, lockCount, depth, waits>>
       \/ ~LockedByCurrentThread(t) /\ TryEnterImpl(t, "ready")

TryFirst(t) == place[t] = "try" /\ TryEnterImpl(t, "look")

\* EnterImpl: look, try if it is free, otherwise or if that fails wait.
Look(t) ==
    /\ place[t] = "look"
    /\ Goto(t, IF counter > 0 THEN "tryAgain" ELSE "wait")
    /\ UNCHANGED <<counter, blocked, owner, lockCount, depth, waits>>

TryAgain(t) == place[t] = "tryAgain" /\ TryEnterImpl(t, "wait")

\* DecrementAndWaitIfLessThan(0), and the way back to the top of the loop.
Wait(t) ==
    /\ place[t] = "wait" /\ t \notin blocked
    /\ \/ /\ counter < 0 /\ waits < MaxWaits
          /\ counter' = Wrap(counter - 1)
          /\ blocked' = blocked \cup {t}
          /\ waits' = waits + 1
       \/ counter >= 0 /\ UNCHANGED <<counter, blocked, waits>>
    /\ Goto(t, "look")
    /\ UNCHANGED <<owner, lockCount, depth>>

Own(t) ==
    /\ place[t] = "own"
    /\ owner' = t
    /\ Goto(t, "count")
    /\ UNCHANGED <<counter, blocked, lockCount, depth, waits>>

Count(t) ==
    /\ place[t] = "count"
    /\ lockCount' = lockCount + 1
    /\ depth' = [depth EXCEPT ![t] = @ + 1]
    /\ Goto(t, "ready")
    /\ UNCHANGED <<counter, blocked, owner, waits>>

\* Leave is called by a thread that is in, as its assertion asks.
Leave(t) ==
    /\ place[t] = "ready" /\ depth[t] > 0
    /\ lockCount' = lockCount - 1
    /\ depth' = [depth EXCEPT ![t] = @ - 1]
    /\ Goto(t, IF lockCount' = 0 THEN "clear" ELSE "ready")
    /\ UNCHANGED <<counter, blocked, owner, waits>>

Clear(t) ==
    /\ place[t] = "clear"
    /\ owner' = Nobody
    /\ Goto(t, "reverse")
    /\ UNCHANGED <<counter, blocked, lockCount, depth, waits>>

\* Mutant of Reverse: the test for waiters is off by one.
ReverseOffByOne(t) ==
    /\ place[t] = "reverse"
    /\ counter' = Wrap(-counter)
    /\ Goto(t, IF counter' > 2 THEN "signal" ELSE "ready")
    /\ UNCHANGED <<blocked, owner, lockCount, depth, waits>>

Reverse(t) ==
    /\ place[t] = "reverse"
    /\ counter' = Wrap(-counter)
    /\ Goto(t, IF counter' > 1 THEN "signal" ELSE "ready")
    /\ UNCHANGED <<blocked, owner, lockCount, depth, waits>>

SignalOne(t) ==
    /\ place[t] = "signal"
    /\ Signal(1)
    /\ Goto(t, "ready")
    /\ UNCHANGED <<owner, lockCount, depth, waits>>

Step(t) ==
    /\ t \notin blocked
    /\ \/ TryFirst(t) \/ Look(t) \/ TryAgain(t) \/ Wait(t) \/ Own(t)
       \/ Count(t) \/ Clear(t) \/ Reverse(t) \/ SignalOne(t)

Next == \E t \in Threads : Enter(t) \/ TryEnter(t) \/ Leave(t) \/ Step(t)

SafeSpec == Init /\ [][Next]_vars

\* Threads keep running inside the calls, and whoever is in eventually leaves.
Spec == SafeSpec /\ \A t \in Threads : WF_vars(Step(t)) /\ WF_vars(Leave(t))

------------------------------------------------------------------------------
\* The places at which a thread holds the lock.
Inside == {"own", "count", "clear", "reverse"}
Owners == {t \in Threads : place[t] \in Inside \/ depth[t] > 0}

Magnitude == IF counter < 0 THEN -counter ELSE counter

\* The counter leaks one per contended wait: it is always the waits so far, not
\* the waiters, that its magnitude counts; so it never misses a sleeper.
CounterIsWaits ==
    /\ Magnitude = waits + 1
    /\ counter < 0 <=> Owners # {}
    /\ Cardinality(blocked) < Magnitude

Phase == [t \in Threads |->
            IF depth[t] > 0 THEN "in"
            ELSE IF place[t] \in {"try", "look", "tryAgain", "wait", "own",
                                  "count"} THEN "trying"
            ELSE "out"]

Abstract == INSTANCE Mutex WITH phase <- Phase

\* Seen from outside it is a lock like any other, progress included: although
\* the leaked counter sends more signals than there are sleepers, and wakes
\* them in vain, no thread waits for ever at a lock that stays free.
ImplementsMutex == Abstract!Spec
==============================================================================
