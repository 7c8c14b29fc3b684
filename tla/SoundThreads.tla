---------------------------- MODULE SoundThreads -----------------------------
(***************************************************************************)
(* The threads of nn::snd (snd_ThreadManager.cpp) and the functions of      *)
(* snd_Api.cpp that tie them to the frames of the DSP and to its sleep.     *)
(*                                                                         *)
(* The sound thread, once a frame: waits for the interrupt of the DSP, has  *)
(* the user thread run the application's callback, waits for its answer,    *)
(* and sends the parameters. The application starts and finalizes both      *)
(* threads and, when the console sleeps, calls Sleep, then WakeUp or        *)
(* OrderToWaitForFinalize; it makes one call at a time and finalizes no     *)
(* thread while it sleeps.                                                  *)
(***************************************************************************)

VARIABLES at,        \* where each thread is: "sound", "user" and the application, "app"
          manager,   \* the fields of ThreadManager, and which callbacks are set
          api,       \* the variables of snd_Api.cpp, and which call is which
          dsp,       \* the DSP, its interrupt and Dspsnd's m_CriticalSection
          spoiled    \* history: what has gone wrong between the threads

soundVars == <<at, manager, api, dsp, spoiled>>

Init ==
    /\ at = [sound |-> "none", user |-> "none", app |-> "idle"]
    /\ manager = [isSoundThreadCreated |-> FALSE, isSoundThreadEnabled |-> FALSE,
                  isUserSoundThreadCreated |-> FALSE, isUserSoundThreadEnabled |-> FALSE,
                  coreNo |-> 0, callback |-> FALSE, aux |-> FALSE,
                  eventSystem2User |-> FALSE, eventUser2System |-> FALSE,
                  startsBoth |-> FALSE, finalizesBoth |-> FALSE]
    /\ api = [isSleeping |-> FALSE, isSleepPrepare |-> FALSE, isWaitingForFinalize |-> FALSE,
              sleepEvent |-> FALSE, syncState |-> "send"]
    /\ dsp = [power |-> "on", interrupt |-> FALSE, lock |-> "free"]
    /\ spoiled = {}

Goes(thread, from, to) == at[thread] = from /\ at' = [at EXCEPT ![thread] = to]

SetManager(field, value) == manager' = [manager EXCEPT ![field] = value]
SetApi(field, value) == api' = [api EXCEPT ![field] = value]
Spoil(what, condition) == spoiled' = IF condition THEN spoiled \cup {what} ELSE spoiled

------------------------------------------------------------------------------
\* The DSP, from how the code uses it: an interrupt a frame; told to sleep, it
\* ends the frame with an interrupt and answers.
DspFrame ==
    /\ dsp.power = "on" /\ ~dsp.interrupt
    /\ dsp' = [dsp EXCEPT !.interrupt = TRUE]
    /\ UNCHANGED <<at, manager, api, spoiled>>

DspStops ==
    /\ dsp.power = "stopping"
    /\ dsp' = [dsp EXCEPT !.power = "off", !.interrupt = TRUE]
    /\ UNCHANGED <<at, manager, api, spoiled>>

------------------------------------------------------------------------------
(* The sound thread. *)

\* A thread enables itself when it begins to run.
SoundStarts ==
    /\ Goes("sound", "start", "check")
    /\ SetManager("isSoundThreadEnabled", TRUE)
    /\ UNCHANGED <<api, dsp, spoiled>>

SoundCheck ==
    /\ Goes("sound", "check", IF manager.isSoundThreadEnabled THEN "sync" ELSE "ended")
    /\ UNCHANGED <<manager, api, dsp, spoiled>>

\* WaitForDspSync looks at its three flags one after the other.
LookAtFlags ==
    /\ \/ Goes("sound", "sync", IF api.isSleepPrepare THEN "timedPipe" ELSE "sleeping")
       \/ Goes("sound", "sleeping", IF api.isSleeping THEN "waitSleepEvent" ELSE "final")
       \/ Goes("sound", "final", IF api.isWaitingForFinalize THEN "frame" ELSE "enterPipe")
    /\ UNCHANGED <<manager, api, dsp, spoiled>>

\* WaitPipe with a time-out of two frames, then SyncFrameData.
TimedPipe ==
    /\ IF dsp.interrupt
       THEN /\ Goes("sound", "timedPipe", "frame")
            /\ dsp' = [dsp EXCEPT !.interrupt = FALSE]
            /\ SetApi("syncState", "wait")
       ELSE Goes("sound", "timedPipe", "mark") /\ UNCHANGED <<api, dsp>>
    /\ UNCHANGED <<manager, spoiled>>

\* The wait has timed out: the DSP is taken to be asleep, even if it has been
\* woken up since.
MarkSleeping ==
    /\ Goes("sound", "mark", "sleeping")
    /\ SetApi("isSleeping", TRUE)
    /\ Spoil("markedAfterWakeUp", ~api.isSleepPrepare \/ at.app = "unprepare")
    /\ UNCHANGED <<manager, dsp>>

WaitSleepEvent ==
    /\ Goes("sound", "waitSleepEvent", "clearSleepEvent")
    /\ api.sleepEvent
    /\ UNCHANGED <<manager, api, dsp, spoiled>>

ClearSleepEvent ==
    /\ Goes("sound", "clearSleepEvent", "final")
    /\ SetApi("sleepEvent", FALSE)
    /\ UNCHANGED <<manager, dsp, spoiled>>

\* Dspsnd::WaitPipe, under Dspsnd's lock, then SyncFrameData.
EnterPipe ==
    /\ Goes("sound", "enterPipe", "waitPipe")
    /\ dsp.lock = "free"
    /\ dsp' = [dsp EXCEPT !.lock = "sound"]
    /\ UNCHANGED <<manager, api, spoiled>>

WaitPipe ==
    /\ Goes("sound", "waitPipe", "leavePipe")
    /\ dsp.interrupt
    /\ UNCHANGED <<manager, api, dsp, spoiled>>

LeavePipe ==
    /\ Goes("sound", "leavePipe", "frame")
    /\ dsp' = [dsp EXCEPT !.interrupt = FALSE, !.lock = "free"]
    /\ SetApi("syncState", "wait")
    /\ UNCHANGED <<manager, spoiled>>

\* Whether this frame needs the user thread is decided once.
SoundFrame ==
    /\ Goes("sound", "frame",
            IF manager.isUserSoundThreadCreated /\ (manager.callback \/ manager.aux)
            THEN "signalUser" ELSE "send")
    /\ UNCHANGED <<manager, api, dsp, spoiled>>

SignalUser ==
    /\ Goes("sound", "signalUser", "waitUser")
    /\ SetManager("eventSystem2User", TRUE)
    /\ UNCHANGED <<api, dsp, spoiled>>

WaitUser ==
    /\ Goes("sound", "waitUser", "send")
    /\ manager.eventUser2System /\ SetManager("eventUser2System", FALSE)
    /\ UNCHANGED <<api, dsp, spoiled>>

\* The state is "wait" whenever it is asked for: the thread has waited in the
\* same frame, or waits for its end.
SendParameterToDsp ==
    /\ Goes("sound", "send",
            IF api.isSleeping \/ api.isWaitingForFinalize THEN "check" ELSE "sendParameter")
    /\ UNCHANGED <<manager, api, dsp, spoiled>>

SendParameter ==
    /\ Goes("sound", "sendParameter", "check")
    /\ SetApi("syncState", "send")
    /\ UNCHANGED <<manager, dsp, spoiled>>

SoundStep ==
    \/ SoundStarts \/ SoundCheck \/ LookAtFlags \/ TimedPipe \/ MarkSleeping
    \/ WaitSleepEvent \/ ClearSleepEvent \/ EnterPipe \/ WaitPipe \/ LeavePipe
    \/ SoundFrame \/ SignalUser \/ WaitUser \/ SendParameterToDsp \/ SendParameter

------------------------------------------------------------------------------
(* The user thread. *)

UserStarts ==
    /\ Goes("user", "start", "check")
    /\ SetManager("isUserSoundThreadEnabled", TRUE)
    /\ UNCHANGED <<api, dsp, spoiled>>

UserCheck ==
    /\ Goes("user", "check", IF manager.isUserSoundThreadEnabled THEN "wait" ELSE "ended")
    /\ UNCHANGED <<manager, api, dsp, spoiled>>

WaitSystem ==
    /\ Goes("user", "wait", "callback")
    /\ manager.eventSystem2User /\ SetManager("eventSystem2User", FALSE)
    /\ UNCHANGED <<api, dsp, spoiled>>

UserCallback ==
    /\ Goes("user", "callback", "signalSystem")
    /\ UNCHANGED <<manager, api, dsp, spoiled>>

SignalSystem ==
    /\ Goes("user", "signalSystem", "check")
    /\ SetManager("eventUser2System", TRUE)
    /\ UNCHANGED <<api, dsp, spoiled>>

UserStep == UserStarts \/ UserCheck \/ WaitSystem \/ UserCallback \/ SignalSystem

------------------------------------------------------------------------------
(* The application: starting the threads. *)

\* The thread runs before the fields it reads are set.
StartSoundThread ==
    /\ at.app = "idle" /\ ~manager.isSoundThreadCreated
    /\ at' = [at EXCEPT !.app = "setSound", !.sound = "start"]
    /\ UNCHANGED <<manager, api, dsp, spoiled>>

SetSoundThread ==
    \E callback, both \in BOOLEAN, core \in {0, 1} :
        /\ Goes("app", "setSound", IF both THEN "startUser" ELSE "idle")
        /\ manager' = [manager EXCEPT !.callback = callback, !.coreNo = core,
                                      !.isSoundThreadCreated = TRUE, !.startsBoth = both]
        /\ UNCHANGED <<api, dsp, spoiled>>

\* Mutant of StartUserSoundThread: the events of the last time are used again.
StartUserSoundThreadKeepingEvents ==
    /\ Goes("app", IF manager.startsBoth THEN "startUser" ELSE "idle", "tryStartUser")
    /\ manager.isSoundThreadCreated
    /\ ~manager.isUserSoundThreadCreated
    /\ manager.coreNo = 1
    /\ Spoil("restartedInFrame", at.sound \in {"signalUser", "waitUser"})
    /\ UNCHANGED <<manager, api, dsp>>

\* The events are initialized whatever the sound thread makes of them.
StartUserSoundThread ==
    /\ Goes("app", IF manager.startsBoth THEN "startUser" ELSE "idle", "tryStartUser")
    /\ manager.isSoundThreadCreated
    /\ ~manager.isUserSoundThreadCreated
    /\ manager.coreNo = 1
    /\ manager' = [manager EXCEPT !.eventUser2System = FALSE, !.eventSystem2User = FALSE]
    /\ Spoil("restartedInFrame", at.sound \in {"signalUser", "waitUser"})
    /\ UNCHANGED <<api, dsp>>

\* StartSoundThread finalizes what it started if the user thread is refused.
StartUserFails ==
    /\ \/ at.app = "tryStartUser"
       \/ at.app = "startUser" /\ manager.coreNo # 1
    /\ Goes("app", at.app, IF manager.startsBoth THEN "finalizeUser" ELSE "idle")
    /\ manager' = [manager EXCEPT !.finalizesBoth = manager.startsBoth, !.startsBoth = FALSE]
    /\ UNCHANGED <<api, dsp, spoiled>>

TryStartUser ==
    /\ at.app = "tryStartUser"
    /\ at' = [at EXCEPT !.app = "setUser", !.user = "start"]
    /\ UNCHANGED <<manager, api, dsp, spoiled>>

SetUserSoundThread ==
    /\ Goes("app", "setUser", "idle")
    /\ manager' = [manager EXCEPT !.isUserSoundThreadCreated = TRUE, !.startsBoth = FALSE]
    /\ UNCHANGED <<api, dsp, spoiled>>

\* RegisterAuxCallback and ClearAuxCallback.
RegisterAuxCallback ==
    /\ at.app = "idle"
    /\ SetManager("aux", ~manager.aux)
    /\ UNCHANGED <<at, api, dsp, spoiled>>

------------------------------------------------------------------------------
(* Finalizing the threads. *)

CallFinalize ==
    /\ Goes("app", "idle", "finalizeUser")
    /\ manager.isSoundThreadCreated
    /\ \E both \in BOOLEAN : SetManager("finalizesBoth", both)
    /\ UNCHANGED <<api, dsp, spoiled>>

AfterUser == IF manager.finalizesBoth THEN "finalizeSound" ELSE "idle"

\* FinalizeUserSoundThread, alone or first in FinalizeSoundThread. A thread that
\* has not run yet enables itself again afterwards.
FinalizeUserSoundThread ==
    /\ IF manager.isUserSoundThreadCreated
       THEN /\ Goes("app", "finalizeUser", "joinUser")
            /\ SetManager("isUserSoundThreadEnabled", FALSE)
            /\ Spoil("stoppedBeforeRun", at.user = "start")
       ELSE Goes("app", "finalizeUser", AfterUser) /\ UNCHANGED <<manager, spoiled>>
    /\ UNCHANGED <<api, dsp>>

JoinUser ==
    /\ at.app = "joinUser" /\ at.user = "ended"
    /\ at' = [at EXCEPT !.app = "lastSignal", !.user = "none"]
    /\ SetManager("isUserSoundThreadCreated", FALSE)
    /\ UNCHANGED <<api, dsp, spoiled>>

\* Mutant of LastSignal: the sound thread is forgotten.
LastSignalForgotten ==
    /\ Goes("app", "lastSignal", AfterUser)
    /\ UNCHANGED <<manager, api, dsp, spoiled>>

LastSignal ==
    /\ Goes("app", "lastSignal", AfterUser)
    /\ SetManager("eventUser2System", TRUE)
    /\ UNCHANGED <<api, dsp, spoiled>>

FinalizeSoundThread ==
    /\ Goes("app", "finalizeSound", "joinSound")
    /\ SetManager("isSoundThreadEnabled", FALSE)
    /\ Spoil("stoppedBeforeRun", at.sound = "start")
    /\ UNCHANGED <<api, dsp>>

JoinSound ==
    /\ at.app = "joinSound" /\ at.sound = "ended"
    /\ at' = [at EXCEPT !.app = "idle", !.sound = "none"]
    /\ manager' = [manager EXCEPT !.callback = FALSE, !.coreNo = 0, !.finalizesBoth = FALSE,
                                  !.isSoundThreadCreated = FALSE]
    /\ UNCHANGED <<api, dsp, spoiled>>

------------------------------------------------------------------------------
(* Sleeping and waking up. *)

Sleep ==
    /\ Goes("app", "idle", "prepare")
    /\ dsp.power = "on" /\ ~api.isSleeping /\ ~api.isWaitingForFinalize
    /\ SetApi("sleepEvent", FALSE)
    /\ UNCHANGED <<manager, dsp, spoiled>>

\* Mutant of Prepare: the sound thread is not told.
PrepareForgotten ==
    /\ Goes("app", "prepare", "command")
    /\ UNCHANGED <<manager, api, dsp, spoiled>>

Prepare ==
    /\ Goes("app", "prepare", "command")
    /\ SetApi("isSleepPrepare", TRUE)
    /\ UNCHANGED <<manager, dsp, spoiled>>

\* Dspsnd::Finalize: the command, the answer, and the end under the lock.
CommandSleep ==
    /\ Goes("app", "command", "awaitReply")
    /\ dsp' = [dsp EXCEPT !.power = "stopping"]
    /\ UNCHANGED <<manager, api, spoiled>>

AwaitReply ==
    /\ Goes("app", "awaitReply", "enterLock")
    /\ dsp.power = "off"
    /\ UNCHANGED <<manager, api, dsp, spoiled>>

EnterLock ==
    /\ Goes("app", "enterLock", "setSleeping")
    /\ dsp.lock = "free"
    /\ UNCHANGED <<manager, api, dsp, spoiled>>

SetSleeping ==
    /\ Goes("app", "setSleeping", "asleep")
    /\ SetApi("isSleeping", TRUE)
    /\ UNCHANGED <<manager, dsp, spoiled>>

\* Dspsnd::Initialize makes the event and the lock anew and waits for the first
\* interrupt under the lock.
WakeUp ==
    /\ Goes("app", "asleep", "firstInterrupt")
    /\ dsp' = [power |-> "on", interrupt |-> FALSE, lock |-> "app"]
    /\ UNCHANGED <<manager, api, spoiled>>

FirstInterrupt ==
    /\ Goes("app", "firstInterrupt", "awake")
    /\ dsp.interrupt
    /\ dsp' = [dsp EXCEPT !.interrupt = FALSE, !.lock = "free"]
    /\ UNCHANGED <<manager, api, spoiled>>

OrderToWaitForFinalize ==
    /\ Goes("app", "asleep", "awake")
    /\ SetApi("isWaitingForFinalize", TRUE)
    /\ UNCHANGED <<manager, dsp, spoiled>>

\* Mutant of Awake: the signal is given before the flags are cleared.
AwakeSignalsFirst ==
    /\ \/ Goes("app", "awake", "unprepare") /\ SetApi("sleepEvent", TRUE)
       \/ Goes("app", "unprepare", "signal") /\ SetApi("isSleepPrepare", FALSE)
       \/ Goes("app", "signal", "idle") /\ SetApi("isSleeping", FALSE)
    /\ UNCHANGED <<manager, dsp, spoiled>>

\* Both clear the two flags one after the other and then signal.
Awake ==
    /\ \/ Goes("app", "awake", "unprepare") /\ SetApi("isSleeping", FALSE)
       \/ Goes("app", "unprepare", "signal") /\ SetApi("isSleepPrepare", FALSE)
       \/ Goes("app", "signal", "idle") /\ SetApi("sleepEvent", TRUE)
    /\ UNCHANGED <<manager, dsp, spoiled>>

Call ==
    \/ StartSoundThread \/ (at.app = "idle" /\ StartUserSoundThread) \/ RegisterAuxCallback
    \/ CallFinalize \/ Sleep \/ WakeUp \/ OrderToWaitForFinalize

AppStep ==
    \/ SetSoundThread \/ (at.app = "startUser" /\ StartUserSoundThread) \/ StartUserFails
    \/ TryStartUser \/ SetUserSoundThread
    \/ FinalizeUserSoundThread \/ JoinUser \/ LastSignal \/ FinalizeSoundThread \/ JoinSound
    \/ Prepare \/ CommandSleep \/ AwaitReply \/ EnterLock \/ SetSleeping
    \/ FirstInterrupt \/ Awake

Next == Call \/ AppStep \/ SoundStep \/ UserStep \/ DspFrame \/ DspStops

\* Every thread inside a call or its loop runs on; the DSP raises its interrupts.
Spec ==
    /\ Init /\ [][Next]_soundVars
    /\ WF_soundVars(AppStep) /\ WF_soundVars(SoundStep) /\ WF_soundVars(UserStep)
    /\ WF_soundVars(DspFrame) /\ WF_soundVars(DspStops)

------------------------------------------------------------------------------
\* The parameters of a frame are not sent while the user thread still runs the
\* callback that sets them: the answer waited for is this frame's, whatever
\* signals an earlier user thread or its finalization left behind.
CallbackBeforeSend == ~(at.sound = "sendParameter" /\ at.user = "callback")

\* A sound thread that sleeps is woken: the event is signalled, or the
\* application is still putting the DSP to sleep or waking it. Not if the thread
\* marked itself asleep after the wake-up.
NoMissedWakeUp ==
    at.sound = "waitSleepEvent" /\ "markedAfterWakeUp" \notin spoiled =>
        \/ api.sleepEvent
        \/ at.app \in {"prepare", "command", "awaitReply", "enterLock", "setSleeping",
                       "asleep", "firstInterrupt", "awake", "unprepare", "signal"}

\* A sound thread that waits for the user thread goes on, though the user thread
\* is stopped behind its back. Not if one is started again in that moment, which
\* takes the last signal back.
FrameGoesOn ==
    at.sound = "waitUser" ~> at.sound # "waitUser" \/ "restartedInFrame" \in spoiled

\* The joins of the finalize functions return. Not if a thread was stopped
\* before it ran, nothing ever wakes the user thread, or one of the above. And Sleep
\* gets hold of Dspsnd's lock, under which the sound thread waits for interrupts of
\* the DSP that Sleep stops.
FinalizeReturns ==
    at.app \in {"joinUser", "joinSound"}
        /\ (manager.callback \/ manager.aux \/ ~manager.isUserSoundThreadCreated)
    ~> at.app = "idle" \/ spoiled # {}
SleepReturns == at.app = "prepare" ~> at.app = "asleep"
CallsReturn == FinalizeReturns /\ SleepReturns

\* What WaitForDspSync asserts when it is called.
SyncAfterSend == at.sound = "sync" => api.syncState = "send"
==============================================================================
