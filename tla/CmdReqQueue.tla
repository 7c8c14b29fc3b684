----------------------------- MODULE CmdReqQueue -----------------------------
(***************************************************************************)
(* nn::gxlow::CTR::CmdReqQueueTx: the ring in which an application leaves   *)
(* its requests to the GPU for the GSP process. Head and count share a word *)
(* that both sides change by exclusive load and store; the slot written is  *)
(* computed once, from the first load.                                      *)
(*                                                                         *)
(* place[p] in TryEnqueue: "idle", "load" (it has seen room), "write",      *)
(* "store", "reload" (the exclusive store has failed), "trigger".           *)
(***************************************************************************)
EXTENDS Integers, Sequences, FiniteSets

CONSTANTS Producers,     \* threads of the application that enqueue
          QUEUE_LENGTH,
          Requests,      \* what they enqueue
          NoRequest

ASSUME RequestAssumption ==
    /\ IsFiniteSet(Producers)
    /\ QUEUE_LENGTH \in Nat \ {0}
    /\ NoRequest \notin Requests

VARIABLES control,    \* m_pBody->control: head and usedCount
          data,       \* m_pBody->data
          place,
          local,      \* local[p]: the request, the loaded control and the slot
          exclusive,  \* the producers whose exclusive load still holds
          gsp,        \* the GSP process: "busy", "asleep" or "triggered"
          expected,   \* history: the requests enqueued and not yet taken, in order
          overlapped  \* history: two producers were past their look at the count

crqVars == <<control, data, place, local, exclusive, gsp, expected, overlapped>>

CrqInit ==
    /\ control = [head |-> 0, usedCount |-> 0]
    /\ data = [i \in 0..QUEUE_LENGTH - 1 |-> NoRequest]
    /\ place = [p \in Producers |-> "idle"]
    /\ local = [p \in Producers |-> [request |-> NoRequest, control |-> control, slot |-> 0]]
    /\ exclusive = {}
    /\ gsp = "asleep"
    /\ expected = <<>>
    /\ overlapped = FALSE

GoesTo(p, to) == place' = [place EXCEPT ![p] = to]

\* TryEnqueue: a full ring refuses the request.
SeeRoom(p, request) ==
    /\ place[p] = "idle" /\ control.usedCount < QUEUE_LENGTH
    /\ local' = [local EXCEPT ![p].request = request]
    /\ overlapped' = (overlapped \/ \E q \in Producers : place[q] \notin {"idle", "trigger"})
    /\ GoesTo(p, "load")
    /\ UNCHANGED <<control, data, exclusive, gsp, expected>>

LoadControl(p) ==
    /\ place[p] \in {"load", "reload"}
    /\ exclusive' = exclusive \cup {p}
    /\ local' = [local EXCEPT
                   ![p].control = control,
                   ![p].slot = IF place[p] = "reload" THEN @
                               ELSE (control.head + control.usedCount) % QUEUE_LENGTH]
    /\ GoesTo(p, IF place[p] = "load" THEN "write" ELSE "store")
    /\ UNCHANGED <<control, data, gsp, expected, overlapped>>

WriteRequest(p) ==
    /\ place[p] = "write"
    /\ data' = [data EXCEPT ![local[p].slot] = local[p].request]
    /\ GoesTo(p, "store")
    /\ UNCHANGED <<control, local, exclusive, gsp, expected, overlapped>>

\* Mutant of StoreControl: an ordinary store, whatever was stored since.
StoreControlPlainly(p) ==
    /\ place[p] = "store"
    /\ control' = [local[p].control EXCEPT !.usedCount = @ + 1]
    /\ exclusive' = {}
    /\ expected' = Append(expected, local[p].request)
    /\ GoesTo(p, IF control'.usedCount = 1 THEN "trigger" ELSE "idle")
    /\ UNCHANGED <<data, local, gsp, overlapped>>

\* Mutant of StoreControl: the count before the request decides on the trigger.
StoreControlTriggersLate(p) ==
    /\ place[p] = "store"
    /\ IF p \in exclusive
       THEN /\ control' = [local[p].control EXCEPT !.usedCount = @ + 1]
            /\ exclusive' = {}
            /\ expected' = Append(expected, local[p].request)
            /\ GoesTo(p, IF control.usedCount = 1 THEN "trigger" ELSE "idle")
       ELSE GoesTo(p, "reload") /\ UNCHANGED <<control, exclusive, expected>>
    /\ UNCHANGED <<data, local, gsp, overlapped>>

\* The store fails if the word was stored to since it was loaded.
StoreControl(p) ==
    /\ place[p] = "store"
    /\ IF p \in exclusive
       THEN /\ control' = [local[p].control EXCEPT !.usedCount = @ + 1]
            /\ exclusive' = {}
            /\ expected' = Append(expected, local[p].request)
            /\ GoesTo(p, IF control'.usedCount = 1 THEN "trigger" ELSE "idle")
       ELSE GoesTo(p, "reload") /\ UNCHANGED <<control, exclusive, expected>>
    /\ UNCHANGED <<data, local, gsp, overlapped>>

TriggerCmdReqQueue(p) ==
    /\ place[p] = "trigger"
    /\ gsp' = IF gsp = "asleep" THEN "triggered" ELSE gsp
    /\ GoesTo(p, "idle")
    /\ UNCHANGED <<control, data, local, exclusive, expected, overlapped>>

\* Reset, from Initialize and Finalize, while no request is being enqueued.
Reset ==
    /\ \A p \in Producers : place[p] = "idle"
    /\ control' = [control EXCEPT !.usedCount = 0]
    /\ exclusive' = {}
    /\ expected' = <<>>
    /\ UNCHANGED <<data, place, local, gsp, overlapped>>

\* The GSP process takes requests until it finds none, then sleeps until it is
\* triggered.
TakeRequest ==
    /\ gsp = "busy"
    /\ IF control.usedCount > 0
       THEN /\ control' = [head |-> (control.head + 1) % QUEUE_LENGTH,
                           usedCount |-> control.usedCount - 1]
            /\ exclusive' = {}
            /\ expected' = Tail(expected)
            /\ UNCHANGED gsp
       ELSE gsp' = "asleep" /\ UNCHANGED <<control, exclusive, expected>>
    /\ UNCHANGED <<data, place, local, overlapped>>

WakeGsp ==
    /\ gsp = "triggered" /\ gsp' = "busy"
    /\ UNCHANGED <<control, data, place, local, exclusive, expected, overlapped>>

EnqueueStep(p) ==
    LoadControl(p) \/ WriteRequest(p) \/ StoreControl(p) \/ TriggerCmdReqQueue(p)

CrqNext ==
    \/ \E p \in Producers, r \in Requests : SeeRoom(p, r)
    \/ \E p \in Producers : EnqueueStep(p)
    \/ Reset \/ TakeRequest \/ WakeGsp

CrqSpec == CrqInit /\ [][CrqNext]_crqVars

------------------------------------------------------------------------------
\* The ring holds exactly the requests enqueued and not yet taken, in their
\* order, whatever the GSP process takes while one is being written. Not if two
\* producers overlap: the slot of the second is computed before the request of
\* the first is counted, or the last room is given to both.
RingIsExact ==
    ~overlapped =>
        /\ control.usedCount = Len(expected)
        /\ \A i \in 1..Len(expected) :
              data[(control.head + i - 1) % QUEUE_LENGTH] = expected[i]

\* Requests in the ring do not wait for a GSP process that sleeps: it is busy or
\* has been triggered, or a producer is about to, also if producers overlap.
NoRequestSleeps ==
    control.usedCount > 0 =>
        gsp # "asleep" \/ \E p \in Producers : place[p] = "trigger"
==============================================================================
