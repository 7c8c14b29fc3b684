-------------------------- MODULE InterruptReceiver --------------------------
(***************************************************************************)
(* nn::gxlow: the thread that receives the GPU's interrupts and calls      *)
(* their handlers, the threads that wait for "any handler done", and the   *)
(* initialization and finalization of both.  The graphics server (GSP) is  *)
(* external: it appends interrupts to the relay queue, a ring in shared    *)
(* memory, and signals m_RxEvent.                                          *)
(*                                                                         *)
(* The table lock is held by the receiver from LockTable in                *)
(* CallHandlerFunc to UnlockTable, so in the places "handler" and          *)
(* "finish"; the other sections under it are one step each.  A handler     *)
(* runs where receiver is "handler".  The general lock (nngxlowLock) is    *)
(* held by Finalize while the finalizer is "signalling" or "joining".      *)
(***************************************************************************)
EXTENDS Integers, Sequences

CONSTANTS Waiters,                  \* the threads that call nngxlowYieldThread
          QUEUE_HIGH_WATERMARK,     \* above it the GSP drops display interrupts
          MaxP3D                    \* bound on the command interrupts in the relay

ASSUME ReceiverAssumption ==
    /\ QUEUE_HIGH_WATERMARK \in Nat \ {0}
    /\ MaxP3D \in Nat \ {0}

VARIABLES relay,            \* the relay queue, oldest first
          rxEvent,          \* m_RxEvent (auto reset) is signalled
          receiver,         \* where the receiver thread is
          handling,         \* src, the interrupt it has dequeued, or "none"
          waitStatus,       \* m_HandlerWaitStatus
          doneEvent,        \* m_AnyHandlerDoneEvent (auto reset) is signalled
          waiting,          \* where each waiter is in WaitAnyHandlerDone
          doneSince,        \* history: a handler finished since the wait began
          finalizeRequest,  \* m_FinalizeRequest
          finalizer         \* where Initialize and Finalize are

queue == <<relay, rxEvent>>
thread == <<receiver, handling>>
anyDone == <<waitStatus, doneEvent, waiting, doneSince>>
life == <<finalizeRequest, finalizer>>
receiverVars == <<queue, thread, anyDone, life>>

\* "P3D" stands for every interrupt that ends a command request, "PDC" for
\* the vertical blanks.
Interrupts == {"P3D", "PDC"}

ReceiverInit ==
    /\ relay = <<>>
    /\ rxEvent = FALSE
    /\ receiver = "wait"
    /\ handling = "none"
    /\ waitStatus = "NOT_WAITING"
    /\ doneEvent = FALSE
    /\ waiting = [t \in Waiters |-> "idle"]
    /\ doneSince = [t \in Waiters |-> FALSE]
    /\ finalizeRequest = FALSE
    /\ finalizer = "running"

\* The GSP relays an interrupt.
Raise(i) ==
    /\ finalizer # "finalized"
    /\ i = "PDC" => Len(relay) < QUEUE_HIGH_WATERMARK
    /\ relay' = Append(relay, i)
    /\ rxEvent' = TRUE
    /\ UNCHANGED <<thread, anyDone, life>>

------------------------------------------------------------------------------
(* ReceiverThreadFunc *)

ReceiverGoes(from, to) == receiver = from /\ receiver' = to

TakeSignal ==
    /\ ReceiverGoes("wait", "clear")
    /\ rxEvent
    /\ rxEvent' = FALSE
    /\ UNCHANGED <<relay, handling, anyDone, life>>

ClearSignal ==
    /\ ReceiverGoes("clear", "check")
    /\ rxEvent' = FALSE
    /\ UNCHANGED <<relay, handling, anyDone, life>>

\* Mutant of CheckFinalize: the request is not looked at.
CheckFinalizeNever ==
    /\ ReceiverGoes("check", "drain")
    /\ UNCHANGED <<queue, handling, anyDone, life>>

CheckFinalize ==
    /\ ReceiverGoes("check", IF finalizeRequest THEN "ended" ELSE "drain")
    /\ UNCHANGED <<queue, handling, anyDone, life>>

TryDequeue ==
    /\ IF relay = <<>>
       THEN ReceiverGoes("drain", "wait") /\ UNCHANGED <<relay, handling>>
       ELSE /\ ReceiverGoes("drain", "call")
            /\ handling' = Head(relay)
            /\ relay' = Tail(relay)
    /\ UNCHANGED <<rxEvent, anyDone, life>>

\* LockTable; then the handler runs.
CallHandler ==
    /\ ReceiverGoes("call", "handler")
    /\ UNCHANGED <<queue, handling, anyDone, life>>

\* Mutants of FinishHandler: the status changes only if somebody waits; one
\* interrupt is handled for every signal.
FinishHandlerQuietly ==
    /\ ReceiverGoes("finish", "drain")
    /\ handling' = "none"
    /\ waitStatus' = IF waitStatus = "WAITING" THEN "ANY_HANDLER_DONE" ELSE waitStatus
    /\ doneEvent' = (doneEvent \/ waitStatus = "WAITING")
    /\ doneSince' = [t \in Waiters |-> waiting[t] # "idle"]
    /\ UNCHANGED <<queue, waiting, life>>

FinishHandlerOnce ==
    /\ ReceiverGoes("finish", "wait")
    /\ handling' = "none"
    /\ waitStatus' = "ANY_HANDLER_DONE"
    /\ doneEvent' = (doneEvent \/ waitStatus = "WAITING")
    /\ doneSince' = [t \in Waiters |-> waiting[t] # "idle"]
    /\ UNCHANGED <<queue, waiting, life>>

\* After the handler: the status, the event, UnlockTable.
FinishHandler ==
    /\ ReceiverGoes("finish", "drain")
    /\ handling' = "none"
    /\ waitStatus' = "ANY_HANDLER_DONE"
    /\ doneEvent' = (doneEvent \/ waitStatus = "WAITING")
    /\ doneSince' = [t \in Waiters |-> waiting[t] # "idle"]
    /\ UNCHANGED <<queue, waiting, life>>

ReceiverStep ==
    \/ TakeSignal \/ ClearSignal \/ CheckFinalize
    \/ TryDequeue \/ CallHandler \/ FinishHandler

------------------------------------------------------------------------------
(* WaitAnyHandlerDone *)

TableLocked == receiver \in {"handler", "commit", "finish"}

Return(t) ==
    /\ waiting' = [waiting EXCEPT ![t] = "idle"]
    /\ doneSince' = [doneSince EXCEPT ![t] = FALSE]

WaitAnyHandlerDone(t) ==
    /\ waiting[t] = "idle"
    /\ waiting' = [waiting EXCEPT ![t] = "lock"]
    /\ UNCHANGED <<queue, thread, waitStatus, doneEvent, doneSince, life>>

\* The section under the table lock.
LookAtStatus(t) ==
    /\ waiting[t] = "lock"
    /\ ~TableLocked
    /\ \/ /\ waitStatus # "ANY_HANDLER_DONE"
          /\ waitStatus' = "WAITING"
          /\ waiting' = [waiting EXCEPT ![t] = "sleep"]
          /\ UNCHANGED doneSince
       \/ /\ waitStatus = "ANY_HANDLER_DONE"
          /\ waitStatus' = "NOT_WAITING"
          /\ Return(t)
    /\ UNCHANGED <<queue, thread, doneEvent, life>>

WakeUp(t) ==
    /\ waiting[t] = "sleep"
    /\ doneEvent
    /\ doneEvent' = FALSE
    /\ Return(t)
    /\ UNCHANGED <<queue, thread, waitStatus, life>>

------------------------------------------------------------------------------
(* Finalize and Initialize *)

GeneralLocked == finalizer \in {"signalling", "joining"}

P3DPending ==
    \/ handling = "P3D" /\ receiver \in {"call", "handler", "commit"}
    \/ \E i \in 1..Len(relay) : relay[i] = "P3D"

\* Mutant of Finalize: the thread is woken before the request is made.
FinalizeSignalsFirst ==
    \/ /\ finalizer = "running"
       /\ ~P3DPending
       /\ \A t \in Waiters : waiting[t] = "idle"
       /\ rxEvent' = TRUE
       /\ finalizer' = "signalling"
       /\ UNCHANGED <<relay, thread, anyDone, finalizeRequest>>
    \/ /\ finalizer = "signalling"
       /\ finalizeRequest' = TRUE
       /\ finalizer' = "joining"
       /\ UNCHANGED <<queue, thread, anyDone>>

\* The request, then the signal.  The application calls Finalize after its
\* commands are done and from the thread that waited for them: an interrupt
\* whose handler wants the general lock would never let Join return.
Finalize ==
    \/ /\ finalizer = "running"
       /\ ~P3DPending
       /\ \A t \in Waiters : waiting[t] = "idle"
       /\ finalizeRequest' = TRUE
       /\ finalizer' = "signalling"
       /\ UNCHANGED <<queue, thread, anyDone>>
    \/ /\ finalizer = "signalling"
       /\ rxEvent' = TRUE
       /\ finalizer' = "joining"
       /\ UNCHANGED <<relay, thread, anyDone, finalizeRequest>>

\* Join returns; the queues are detached and the GSP relays no more.
JoinReceiver ==
    /\ finalizer = "joining"
    /\ receiver = "ended"
    /\ finalizer' = "finalized"
    /\ relay' = <<>>
    /\ UNCHANGED <<rxEvent, thread, anyDone, finalizeRequest>>

Initialize ==
    /\ finalizer = "finalized"
    /\ finalizer' = "running"
    /\ finalizeRequest' = FALSE
    /\ rxEvent' = FALSE
    /\ receiver' = "wait"
    /\ waitStatus' = "NOT_WAITING"
    /\ doneEvent' = FALSE
    /\ UNCHANGED <<relay, handling, waiting, doneSince>>

------------------------------------------------------------------------------
(* The receiver on its own: handlers only take the general lock they need. *)

HandlerReturns ==
    /\ handling = "P3D" => ~GeneralLocked
    /\ ReceiverGoes("handler", "finish")
    /\ UNCHANGED <<queue, handling, anyDone, life>>

RaiseBounded ==
    \/ Raise("PDC")
    \/ /\ finalizer = "running"
       /\ Len(SelectSeq(relay, LAMBDA i : i = "P3D")) < MaxP3D
       /\ Raise("P3D")

ReceiverNext ==
    \/ RaiseBounded
    \/ ReceiverStep \/ HandlerReturns
    \/ \E t \in Waiters :
          \/ finalizer = "running" /\ WaitAnyHandlerDone(t)
          \/ LookAtStatus(t) \/ WakeUp(t)
    \/ Finalize \/ JoinReceiver \/ Initialize

\* Threads keep running when they can.  The display interrupts leave the table
\* lock free for long enough between two handlers.
ReceiverSpec ==
    /\ ReceiverInit /\ [][ReceiverNext]_receiverVars
    /\ WF_receiverVars(ReceiverStep \/ HandlerReturns)
    /\ WF_receiverVars(finalizer # "running" /\ Finalize)
    /\ WF_receiverVars(JoinReceiver)
    /\ \A t \in Waiters : /\ SF_receiverVars(LookAtStatus(t))
                          /\ WF_receiverVars(WakeUp(t))

------------------------------------------------------------------------------
\* Every variable keeps its type.
TypeOKReceiver ==
    /\ relay \in Seq(Interrupts)
    /\ {rxEvent, doneEvent, finalizeRequest} \subseteq BOOLEAN
    /\ receiver \in {"wait", "clear", "check", "drain", "call", "handler",
                     "commit", "finish", "ended"}
    /\ handling \in Interrupts \cup {"none"}
    /\ waitStatus \in {"NOT_WAITING", "WAITING", "ANY_HANDLER_DONE"}
    /\ waiting \in [Waiters -> {"idle", "lock", "sleep"}]
    /\ doneSince \in [Waiters -> BOOLEAN]
    /\ finalizer \in {"running", "signalling", "joining", "finalized"}

\* The receiver never sleeps on interrupts: the signal of one that came after
\* the last look at the queue is not cleared with the signals before it.
NoInterruptStranded == receiver = "wait" /\ relay # <<>> => rxEvent

\* A handler that finished after a thread began its wait, also one between its
\* decision to wait and the wait itself, wakes that thread.  (For one waiter:
\* the status and the event are shared by all.)
NoMissedHandler ==
    \A t \in Waiters : waiting[t] = "sleep" /\ doneSince[t] => doneEvent

\* The thread Finalize waits for sees the request, however its own signal and
\* those of interrupts are merged and cleared, if it ever drains the queue.
FinalizeReturns ==
    []<>(receiver \in {"wait", "clear", "check", "ended"})
        => (finalizer = "joining" ~> finalizer = "finalized")
==============================================================================
