-------------------------------- MODULE Rings --------------------------------
(***************************************************************************)
(* What is handed over piece by piece: the blocking queue between threads,  *)
(* the requests to the GSP process, the input samples of the hid process,   *)
(* the list of notification handlers, and compressed data. They share       *)
(* nothing; every behaviour is one of that which is used, with the others   *)
(* at rest.                                                                 *)
(***************************************************************************)
EXTENDS BlockingQueue, CmdReqQueue, LifoRing, NotificationHandlers, StreamingLZ

VARIABLE inUse  \* what is used

ringsVars == <<vars, crqVars, lifoVars, handlerVars, lzVars, inUse>>

RingsInit ==
    /\ Init /\ CrqInit /\ LifoInit /\ HandlersInit /\ InitUncompContextLZ
    /\ inUse \in {"queue", "requests", "samples", "handlers", "data"}
    /\ inUse # "data" => context.forceDestCount = 0

Uses(which) == inUse = which /\ UNCHANGED inUse

RingsNext ==
    \/ Uses("queue") /\ Next /\ UNCHANGED <<crqVars, lifoVars, handlerVars, lzVars>>
    \/ Uses("requests") /\ CrqNext /\ UNCHANGED <<vars, lifoVars, handlerVars, lzVars>>
    \/ Uses("samples") /\ LifoNext /\ UNCHANGED <<vars, crqVars, handlerVars, lzVars>>
    \/ Uses("handlers") /\ HandlersNext /\ UNCHANGED <<vars, crqVars, lifoVars, lzVars>>
    \/ Uses("data") /\ LzNext /\ UNCHANGED <<vars, crqVars, lifoVars, handlerVars>>

QueueStep(t) ==
    Uses("queue") /\ Step(t) /\ UNCHANGED <<crqVars, lifoVars, handlerVars, lzVars>>

\* The fairness of the blocking queue.
RingsSpec ==
    /\ RingsInit /\ [][RingsNext]_ringsVars
    /\ \A t \in Threads : WF_ringsVars(QueueStep(t))
==============================================================================
