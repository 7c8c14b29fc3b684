----------------------------- MODULE LightEvent ------------------------------
(***************************************************************************)
(* nn::os::LightEvent: an event on one WaitableCounter, with four values.  *)
(* Every access but the compare-and-swap of the auto-reset wait reads the  *)
(* counter first and writes it in a later step.  Builds later than 2.4.1   *)
(* take m_Lock around the writes of a manual-reset event, but the version  *)
(* tests of ClearSignal and Signal are not the same expression: a 2.4.1    *)
(* build has neither lock, a 2.5.0 build only the first, a 4.2 build both. *)
(* m_Lock is a SimpleLock, taken here as the Mutex it implements.          *)
(*                                                                         *)
(* pc[t]: "idle"; in Wait "read", "swap", "manual", "auto" (about to call  *)
(* WaitIfLessThan in the two kinds of event), "manualWake", "autoWake"; in *)
(* ClearSignal "clearLock", "clearManual", "clearAuto", "clearUnlock"; in  *)
(* Signal "setAuto", "wakeOne", "setLock", "setManual", "wakeAll",         *)
(* "setUnlock".                                                            *)
(***************************************************************************)
EXTENDS WaitableCounter

CONSTANT Threads  \* a finite set

NOT_RESETED_MANUAL == -2
NOT_RESETED_AUTO   == -1
RESETED_AUTO       == 0
RESETED_MANUAL     == 1

VARIABLES build,        \* the version built, which never changes
          manualReset,  \* Initialize's isManualReset, for the event's whole life
          lockOwner,    \* {} or the one thread that owns m_Lock
          pc,
          sawSignal     \* history: the waiters that saw the event signalled

vars == <<counter, blocked, build, manualReset, lockOwner, pc, sawSignal>>

\* Whether the writes of a manual-reset event are made under m_Lock.
ClearLocks == build # "2.4.1"
SignalLocks == build = "4.2"

Goto(t, place) == pc' = [pc EXCEPT ![t] = place]

\* The places inside Wait from which it may still return.
WaitPlaces == {"read", "swap", "manual", "auto", "manualWake", "autoWake"}

Init ==
    /\ build \in {"2.4.1", "2.5.0", "4.2"}
    /\ manualReset \in BOOLEAN
    /\ counter = IF manualReset THEN NOT_RESETED_MANUAL ELSE NOT_RESETED_AUTO
    /\ blocked = {}
    /\ lockOwner = {}
    /\ pc = [t \in Threads |-> "idle"]
    /\ sawSignal = {}

\* The history every step keeps: whoever is in Wait while the event is
\* signalled has seen it signalled; whoever is not in Wait has seen nothing.
Observe ==
    LET waiting == {t \in Threads : pc'[t] \in WaitPlaces}
    IN  /\ sawSignal' = IF counter' >= 0 THEN waiting ELSE sawSignal \cap waiting
        /\ UNCHANGED <<build, manualReset>>

Keep == UNCHANGED <<counter, blocked, lockOwner>>

\* Wait: the switch on the counter.
Wait(t) == pc[t] = "idle" /\ Goto(t, "read") /\ Keep

Read(t) ==
    /\ pc[t] = "read"
    /\ Goto(t, CASE counter = NOT_RESETED_MANUAL -> "manual"
                 [] counter = RESETED_MANUAL     -> "idle"
                 [] counter = NOT_RESETED_AUTO   -> "auto"
                 [] counter = RESETED_AUTO       -> "swap")
    /\ Keep

\* CompareAndSwap(RESETED_AUTO, NOT_RESETED_AUTO).
Swap(t, done, failed) ==
    /\ IF counter = RESETED_AUTO
       THEN counter' = NOT_RESETED_AUTO /\ Goto(t, done)
       ELSE counter' = counter /\ Goto(t, failed)
    /\ UNCHANGED <<blocked, lockOwner>>

SwapInWait(t) == pc[t] = "swap" /\ Swap(t, "idle", "auto")

Sleep(t, from, to) ==
    /\ pc[t] = from
    /\ WaitIfLessThan(t, 0)
    /\ Goto(t, to)
    /\ UNCHANGED lockOwner

\* A manual-reset wait returns when the kernel call does; an auto-reset wait
\* starts over.
Woken(t) ==
    /\ t \notin blocked
    /\ \/ pc[t] = "manualWake" /\ Goto(t, "idle")
       \/ pc[t] = "autoWake" /\ Goto(t, "read")
    /\ Keep

\* TryWait reads, then swaps; a manual-reset event is never swapped.
TryWait(t) == pc[t] = "idle" /\ counter # RESETED_MANUAL /\ Swap(t, "idle", "idle")

\* ClearSignal.
ClearSignal(t) ==
    /\ pc[t] = "idle"
    /\ \/ counter = RESETED_MANUAL
          /\ Goto(t, IF ClearLocks THEN "clearLock" ELSE "clearManual")
       \/ counter = RESETED_AUTO /\ Goto(t, "clearAuto")
    /\ Keep

\* Mutant of SignalEvent: the writes of a manual-reset event without m_Lock.
SignalEventUnlocked(t) ==
    /\ pc[t] = "idle"
    /\ \/ counter = NOT_RESETED_AUTO /\ Goto(t, "setAuto")
       \/ counter = NOT_RESETED_MANUAL /\ Goto(t, "setManual")
    /\ Keep

\* Signal.
SignalEvent(t) ==
    /\ pc[t] = "idle"
    /\ \/ counter = NOT_RESETED_AUTO /\ Goto(t, "setAuto")
       \/ counter = NOT_RESETED_MANUAL
          /\ Goto(t, IF SignalLocks THEN "setLock" ELSE "setManual")
    /\ Keep

\* SimpleLock::ScopedLock around the writes of a manual-reset event.
TakeLock(t) ==
    /\ lockOwner = {}
    /\ \/ pc[t] = "clearLock" /\ Goto(t, "clearManual")
       \/ pc[t] = "setLock" /\ Goto(t, "setManual")
    /\ lockOwner' = {t}
    /\ UNCHANGED <<counter, blocked>>

Unlock(t) ==
    /\ pc[t] \in {"clearUnlock", "setUnlock"}
    /\ lockOwner' = {}
    /\ Goto(t, "idle")
    /\ UNCHANGED <<counter, blocked>>

\* Mutant of Store: the event is set and nobody woken.
StoreSilently(t) ==
    /\ \/ pc[t] = "clearManual" /\ counter' = NOT_RESETED_MANUAL /\ Goto(t, "clearUnlock")
       \/ pc[t] = "clearAuto" /\ counter' = NOT_RESETED_AUTO /\ Goto(t, "idle")
       \/ pc[t] = "setAuto" /\ counter' = RESETED_AUTO /\ Goto(t, "idle")
       \/ pc[t] = "setManual" /\ counter' = RESETED_MANUAL /\ Goto(t, "setUnlock")
    /\ UNCHANGED <<blocked, lockOwner>>

\* The writes, each in a step of its own after the read that led to it.
Store(t) ==
    /\ \/ /\ pc[t] = "clearManual"
          /\ counter' = NOT_RESETED_MANUAL
          /\ Goto(t, IF ClearLocks THEN "clearUnlock" ELSE "idle")
       \/ pc[t] = "clearAuto" /\ counter' = NOT_RESETED_AUTO /\ Goto(t, "idle")
       \/ pc[t] = "setAuto" /\ counter' = RESETED_AUTO /\ Goto(t, "wakeOne")
       \/ pc[t] = "setManual" /\ counter' = RESETED_MANUAL /\ Goto(t, "wakeAll")
    /\ UNCHANGED <<blocked, lockOwner>>

WakeOne(t) ==
    /\ pc[t] = "wakeOne"
    /\ Signal(1)
    /\ Goto(t, "idle")
    /\ UNCHANGED lockOwner

WakeAll(t) ==
    /\ pc[t] = "wakeAll"
    /\ SignalAll
    /\ Goto(t, IF SignalLocks THEN "setUnlock" ELSE "idle")
    /\ UNCHANGED lockOwner

Call(t) == Wait(t) \/ TryWait(t) \/ ClearSignal(t) \/ SignalEvent(t)

Step(t) ==
    \/ Read(t) \/ SwapInWait(t) \/ Woken(t)
    \/ Sleep(t, "manual", "manualWake") \/ Sleep(t, "auto", "autoWake")
    \/ TakeLock(t) \/ Unlock(t) \/ Store(t) \/ WakeOne(t) \/ WakeAll(t)

Next == \E t \in Threads : (Call(t) \/ Step(t)) /\ Observe

SafeSpec == Init /\ [][Next]_vars

\* A thread inside a call keeps running unless it sleeps or waits for m_Lock.
Spec == SafeSpec /\ \A t \in Threads : WF_vars(Step(t) /\ Observe)

------------------------------------------------------------------------------
\* With both locks, Wait for a manual-reset event returns only if the event was
\* signalled at some moment of the call.  Without them, a SignalAll that comes
\* after another thread's ClearSignal releases threads that began to wait after
\* the event was cleared.
WaitSawSignal ==
    [][\A t \in Threads :
          build = "4.2" /\ manualReset /\ pc[t] \in WaitPlaces /\ pc'[t] = "idle"
              => t \in sawSignal]_vars

\* A waiter of a signalled event returns, unless the event is taken by another
\* waiter or cleared first.
SignalReleases ==
    \A t \in Threads :
        pc[t] \in WaitPlaces /\ counter >= 0 ~> pc[t] = "idle" \/ counter < 0
==============================================================================
