--------------------------- MODULE Synchronization ---------------------------
(***************************************************************************)
(* The objects of nn::os that keep a WaitableCounter of their own: the      *)
(* semaphore, the event, and the critical section of SDK 2.4.1. They share  *)
(* no state; every behaviour is one of the object that is used, with the    *)
(* others at rest.                                                          *)
(***************************************************************************)
EXTENDS LightSemaphore

CONSTANTS Waiters,      \* the threads that use the event
          Contenders,   \* the threads that use the 2.4.1 lock
          Nobody,       \* GetInvalidThreadUniqueValue()
          MaxDepth,     \* bound on the nesting of Enter in one thread
          Width,        \* bits of the counter
          MaxWaits      \* bound on the contended waits of the 2.4.1 lock

ASSUME SectionAssumption ==
    /\ IsFiniteSet(Contenders) /\ Nobody \notin Contenders
    /\ MaxDepth \in Nat /\ MaxWaits \in Nat /\ Width \in Nat \ {0}

VARIABLES
    used,   \* the object that is used
    eventCounter, eventBlocked, build, manualReset, lockOwner, eventPc, sawSignal,
    sectionCounter, sectionBlocked, owner, lockCount, place, depth, waits

Event == INSTANCE LightEvent
           WITH Threads <- Waiters, counter <- eventCounter,
                blocked <- eventBlocked, pc <- eventPc

Section == INSTANCE CriticalSection241
             WITH Threads <- Contenders, counter <- sectionCounter,
                  blocked <- sectionBlocked

eventVars ==
    <<eventCounter, eventBlocked, build, manualReset, lockOwner, eventPc, sawSignal>>
sectionVars ==
    <<sectionCounter, sectionBlocked, owner, lockCount, place, depth, waits>>
allVars == <<vars, eventVars, sectionVars, used>>

\* Only the writes of a manual-reset event differ between the builds.
SyncInit ==
    /\ Init /\ Event!Init /\ Section!Init
    /\ used \in {"semaphore", "event", "section"}
    /\ ~manualReset => build = "4.2"
    /\ used # "event" => build = "4.2" /\ manualReset

Uses(which) == used = which /\ UNCHANGED used

OnSemaphore(A) == Uses("semaphore") /\ A /\ UNCHANGED <<eventVars, sectionVars>>
OnEvent(A) == Uses("event") /\ A /\ UNCHANGED <<vars, sectionVars>>
OnSection(A) == Uses("section") /\ A /\ UNCHANGED <<vars, eventVars>>

SyncNext ==
    \/ OnSemaphore(Next)
    \/ OnEvent(Event!Next)
    \/ OnSection(Section!Next)

\* The fairness of each object: threads keep running inside its calls, and
\* whoever is in the section leaves it.
SyncFairness ==
    /\ \A t \in Threads : WF_allVars(OnSemaphore(Step(t)))
    /\ \A t \in Waiters : WF_allVars(OnEvent(Event!Step(t) /\ Event!Observe))
    /\ \A t \in Contenders :
          /\ WF_allVars(OnSection(Section!Step(t)))
          /\ WF_allVars(OnSection(Section!Leave(t)))

SyncSpec == SyncInit /\ [][SyncNext]_allVars /\ SyncFairness

------------------------------------------------------------------------------
\* A waiter of a signalled event returns, unless the event is taken by another
\* waiter or cleared first; and with both locks no wait for a manual-reset event
\* returns unless it was signalled in the course of it (LightEvent's Signal,
\* ClearSignal and Wait).
EventIsExact == Event!SignalReleases /\ Event!WaitSawSignal

\* The counter of the 2.4.1 lock counts the contended waits so far and never
\* misses a sleeper (CriticalSection's DecrementAndWaitIfLessThan).
CounterIsWaits == Section!CounterIsWaits

\* The 2.4.1 lock is a lock like any other, progress included.
ImplementsMutex == Section!ImplementsMutex
==============================================================================
