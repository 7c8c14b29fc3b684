----------------------------- MODULE CommandList -----------------------------
(***************************************************************************)
(* The command lists of gles2/systemmanager.c over the interrupt receiver: *)
(* one application thread records requests in lists, runs, stops, clears   *)
(* and deletes them and waits for them; the receiver's handler counts each *)
(* finished request and issues the next ones, at most NumSpeculative ahead *)
(* of the finished ones.                                                   *)
(*                                                                         *)
(* A section under nngxlowLock is one step.  What the code reads outside   *)
(* it, the handler's request and the application's is_running, is read in  *)
(* a step before.  The GPU is external: it finishes the issued requests in *)
(* order and raises one interrupt for each.                                *)
(***************************************************************************)
EXTENDS InterruptReceiver, FiniteSets

CONSTANTS App,              \* the application's thread
          Lists, NoList,
          Room,             \* nngxCmdlistStorage's requestcount for each list
          NumSpeculative    \* num_speculative

ASSUME CommandAssumption ==
    /\ Waiters = {App}
    /\ IsFiniteSet(Lists) /\ NoList \notin Lists
    /\ Room \in [Lists -> Nat \ {0}]
    /\ NumSpeculative \in Nat \ {0}

VARIABLES list,             \* the record of each list: see Fresh
          bound,            \* bound_cmdlist
          runList,          \* run_cmdlist
          startRun,         \* start_run
          isRunning,        \* is_running
          stopSpeculative,  \* stop_speculative
          request,          \* the list and index the handler read
          app,              \* where the application's thread is
          gpu,              \* how many requests the GPU has not finished
          outstanding       \* history: the requests issued and not yet counted

system == <<list, bound, runList, startRun, isRunning, stopSpeculative>>
ghosts == <<gpu, outstanding>>
vars == <<receiverVars, system, request, app, ghosts>>

\* max_, used_, issued_ and run_reqcount; stops holds the numbers, from 1, of
\* the requests with stop_enabled.  A list that does not exist is Fresh.
Fresh == [max |-> 0, used |-> 0, issued |-> 0, run |-> 0, stops |-> {}]

Init ==
    /\ ReceiverInit
    /\ list = [l \in Lists |-> Fresh]
    /\ bound = NoList
    /\ runList = NoList
    /\ startRun = FALSE
    /\ isRunning = FALSE
    /\ stopSpeculative = FALSE
    /\ request = <<NoList, 0>>
    /\ app = "idle"
    /\ gpu = 0
    /\ outstanding = <<>>

\* Mutant of BoundRuns: a running list is started over as well.
BoundRunsNever == FALSE

\* The bound list may still be changed by the handlers.
BoundRuns == bound = runList /\ isRunning

Least(a, b) == IF a < b THEN a ELSE b

\* Mutant of LastToIssue: one request too many.
LastToIssueOffByOne(r) ==
    LET upto == Least(r.used, r.run + NumSpeculative + 1)
        stops == {k \in r.stops : r.issued < k /\ k <= upto}
    IN  IF stops = {} THEN upto ELSE CHOOSE k \in stops : \A h \in stops : k <= h

\* Requests are issued as far as there are any and as the speculation goes,
\* and no further than the first that is to stop the list.
LastToIssue(r) ==
    LET upto == Least(r.used, r.run + NumSpeculative)
        stops == {k \in r.stops : r.issued < k /\ k <= upto}
    IN  IF stops = {} THEN upto ELSE CHOOSE k \in stops : \A h \in stops : k <= h

\* sys_issueSpeculativeCommandRequests, on the run list l with the record r;
\* `pending' are the requests outstanding before.
Issue(l, r, pending) ==
    LET last == IF stopSpeculative THEN r.issued ELSE LastToIssue(r)
    IN  /\ list' = [list EXCEPT ![l] = [r EXCEPT !.issued = last]]
        /\ stopSpeculative' = (stopSpeculative \/ last \in r.stops \ {r.issued})
        /\ gpu' = gpu + (last - r.issued)
        /\ outstanding' =
              pending \o [k \in 1..last - r.issued |-> <<l, r.issued + k>>]

------------------------------------------------------------------------------
(* The application's thread *)

Idle == app = "idle" /\ app' = "idle"

\* nngxBindCmdlist, which creates a list that does not exist.
BindCmdlist(l) ==
    /\ Idle
    /\ bound' = l
    /\ UNCHANGED <<receiverVars, list, runList, startRun, isRunning,
                   stopSpeculative, request, ghosts>>

\* nngxCmdlistStorage and nngxClearCmdlist start a list over; they refuse one
\* that is running.
StartOver(r) ==
    /\ list' = [list EXCEPT ![bound] = r]
    /\ UNCHANGED <<receiverVars, bound, runList, startRun, isRunning,
                   stopSpeculative, request, ghosts>>

CmdlistStorage ==
    /\ Idle
    /\ bound # NoList
    /\ ~BoundRuns
    /\ StartOver([Fresh EXCEPT !.max = Room[bound]])

ClearCmdlist ==
    /\ Idle
    /\ bound # NoList /\ list[bound].max > 0
    /\ ~BoundRuns
    /\ StartOver([Fresh EXCEPT !.max = list[bound].max])

\* nngxDeleteCmdlists of one list.
DeleteCmdlist(l) ==
    /\ Idle
    /\ list[l] # Fresh \/ bound = l
    /\ ~(runList = l /\ isRunning)
    /\ list' = [list EXCEPT ![l] = Fresh]
    /\ bound' = IF bound = l THEN NoList ELSE bound
    /\ IF runList = l THEN runList' = NoList /\ startRun' = FALSE
                      ELSE UNCHANGED <<runList, startRun>>
    /\ UNCHANGED <<receiverVars, isRunning, stopSpeculative, request, ghosts>>

\* Mutant of Restarts: a list that has run out of requests is not restarted.
RestartsNever == FALSE

HasRoom(r) == r.used # r.max
Restarts == bound = runList /\ startRun /\ ~isRunning

\* nngxSplitDrawCmdlist and every other function that adds a request: one that
\* is added to a started list that has run out of requests is issued at once.
AddRequest ==
    /\ Idle
    /\ bound # NoList
    /\ HasRoom(list[bound])
    /\ LET r == [list[bound] EXCEPT !.used = @ + 1] IN
       IF Restarts
       THEN isRunning' = TRUE /\ Issue(bound, r, outstanding)
       ELSE /\ list' = [list EXCEPT ![bound] = r]
            /\ UNCHANGED <<isRunning, stopSpeculative, ghosts>>
    /\ UNCHANGED <<receiverVars, bound, runList, startRun, request>>

\* nngxRunCmdlist: is_running and the counts are read, and the run list set,
\* outside the lock that protects the issue.
RunCmdlist ==
    /\ app = "idle"
    /\ bound # NoList /\ list[bound].max > 0
    /\ ~isRunning
    /\ runList' = bound
    /\ startRun' = TRUE
    /\ isRunning' = (list[bound].run < list[bound].used)
    /\ app' = IF isRunning' THEN "issue" ELSE "idle"
    /\ UNCHANGED <<receiverVars, list, bound, stopSpeculative, request, ghosts>>

IssueFirst ==
    /\ app = "issue" /\ app' = "idle"
    /\ Issue(runList, list[runList], outstanding)
    /\ UNCHANGED <<receiverVars, bound, runList, startRun, isRunning, request>>

\* Mutant of StopPoint: the next request to be issued is to stop the list.
StopPointOffByOne == list[runList].issued + 1

StopPoint == list[runList].issued

\* nngxStopCmdlist: the list stops when the last request issued is finished.
StopCmdlist ==
    /\ Idle
    /\ runList # NoList
    /\ IF isRunning
       THEN /\ list' = [list EXCEPT ![runList].stops = @ \cup {StopPoint}]
            /\ stopSpeculative' = TRUE
            /\ UNCHANGED startRun
       ELSE startRun' = FALSE /\ UNCHANGED <<list, stopSpeculative>>
    /\ UNCHANGED <<receiverVars, bound, runList, isRunning, request, ghosts>>

\* nngxWaitCmdlistDone: a loop that looks at is_running and yields.
WaitCmdlistDone ==
    /\ app = "idle" /\ app' = "look"
    /\ UNCHANGED <<receiverVars, system, request, ghosts>>

LookIfDone ==
    /\ app = "look"
    /\ \/ ~isRunning /\ app' = "idle" /\ UNCHANGED receiverVars
       \/ isRunning /\ app' = "yield" /\ WaitAnyHandlerDone(App)
    /\ UNCHANGED <<system, request, ghosts>>

Yield ==
    /\ app = "yield"
    /\ \/ app' = "yield" /\ (LookAtStatus(App) \/ WakeUp(App))
       \/ waiting[App] = "idle" /\ app' = "look" /\ UNCHANGED receiverVars
    /\ UNCHANGED <<system, request, ghosts>>

\* The time set by nngxSetTimeout has passed.
TimeOut ==
    /\ app = "look" /\ app' = "idle"
    /\ isRunning
    /\ UNCHANGED <<receiverVars, system, request, ghosts>>

\* nngxFinalize, called by an application whose lists have come to rest: it
\* joins the receiver under the general lock, then frees every list.
FinalizeSystem ==
    /\ app = "idle" /\ app' = "finalize"
    /\ ~isRunning
    /\ Finalize
    /\ UNCHANGED <<system, request, ghosts>>

\* The lists are freed; the next nngxInitialize clears the rest.
FreeLists ==
    /\ list' = [l \in Lists |-> Fresh]
    /\ bound' = NoList /\ runList' = NoList
    /\ startRun' = FALSE
    /\ isRunning' = FALSE /\ stopSpeculative' = FALSE

SystemIsFinal ==
    \/ /\ app = "finalize" /\ app' = "finalize"
       /\ finalizer = "signalling" /\ Finalize
       /\ UNCHANGED <<system, request, ghosts>>
    \/ /\ app = "finalize" /\ app' = "final"
       /\ JoinReceiver
       /\ FreeLists
       /\ UNCHANGED <<request, ghosts>>

\* nngxInitialize, whose own list has been run and deleted when it returns.
InitializeSystem ==
    /\ app = "final" /\ app' = "idle"
    /\ Initialize
    /\ UNCHANGED <<system, request, ghosts>>

------------------------------------------------------------------------------
(* The handlers, called by the receiver *)

\* A vertical blank leaves the lists alone.
DisplayHandler ==
    /\ handling = "PDC"
    /\ ReceiverGoes("handler", "finish")
    /\ UNCHANGED <<queue, handling, anyDone, life, system, request, app, ghosts>>

\* sys_P3DCallback and sys_commonIntrHandler: the request that finished is
\* looked up, and then counted under nngxlowLock.
LookUpRequest ==
    /\ handling = "P3D"
    /\ ReceiverGoes("handler", "commit")
    /\ request' = <<runList, list[runList].run + 1>>
    /\ UNCHANGED <<queue, handling, anyDone, life, system, app, ghosts>>

\* Mutants: the speculation stays off after a stop; a list is taken for done
\* when all its requests are issued.
StopHereOnly ==
    startRun' = FALSE /\ isRunning' = FALSE /\ UNCHANGED stopSpeculative
AllDoneEarly(r) == r.issued >= r.used

StopHere == startRun' = FALSE /\ isRunning' = FALSE /\ stopSpeculative' = FALSE
AllDone(r) == r.run >= r.used

CountRequest ==
    /\ ~GeneralLocked
    /\ ReceiverGoes("commit", "finish")
    /\ LET l == request[1]
           r == [list[l] EXCEPT !.run = @ + 1]
           rest == Tail(outstanding)
           onlyCount == /\ list' = [list EXCEPT ![l] = r]
                        /\ outstanding' = rest
                        /\ UNCHANGED gpu
       IN  \/ request[2] \in r.stops /\ StopHere /\ onlyCount
           \/ /\ request[2] \notin r.stops /\ AllDone(r)
              /\ isRunning' = FALSE
              /\ onlyCount
              /\ UNCHANGED <<startRun, stopSpeculative>>
           \/ /\ request[2] \notin r.stops /\ ~AllDone(r)
              /\ Issue(l, r, rest)
              /\ UNCHANGED <<startRun, isRunning>>
    /\ request' = <<NoList, 0>>
    /\ UNCHANGED <<queue, handling, anyDone, life, bound, runList, app>>

\* The GPU finishes a request.
Finish ==
    /\ gpu > 0 /\ gpu' = gpu - 1
    /\ Raise("P3D")
    /\ UNCHANGED <<system, request, app, outstanding>>

VerticalBlank ==
    /\ Raise("PDC")
    /\ UNCHANGED <<system, request, app, ghosts>>

------------------------------------------------------------------------------
Call ==
    \/ \E l \in Lists : BindCmdlist(l) \/ DeleteCmdlist(l)
    \/ CmdlistStorage \/ ClearCmdlist \/ AddRequest
    \/ RunCmdlist \/ StopCmdlist \/ WaitCmdlistDone
    \/ FinalizeSystem \/ InitializeSystem

Continue == IssueFirst \/ LookIfDone \/ Yield \/ SystemIsFinal

Receive ==
    \/ ReceiverStep /\ UNCHANGED <<system, request, app, ghosts>>
    \/ DisplayHandler \/ LookUpRequest \/ CountRequest

Next == Call \/ Continue \/ TimeOut \/ Receive \/ Finish \/ VerticalBlank

\* The application's thread and the receiver run when they can, the GPU
\* finishes what it was given.  The table lock, of which handlers take little
\* time, is not always taken when the application tries.
Spec ==
    /\ Init /\ [][Next]_vars
    /\ WF_vars(Receive) /\ WF_vars(Finish) /\ SF_vars(Continue)

------------------------------------------------------------------------------
\* What the GPU has been given and the handlers have not counted are the
\* requests of the run list from the first unfinished to the last issued, in
\* this order, each once: no interrupt is ever charged to another list or
\* request, whatever is bound, cleared, deleted or run in between.
OutstandingExact ==
    /\ outstanding =
          IF runList = NoList THEN <<>>
          ELSE [k \in 1..list[runList].issued - list[runList].run |->
                   <<runList, list[runList].run + k>>]
    /\ \A l \in Lists \ {runList} : list[l].issued = list[l].run
    /\ receiver = "commit" => request = Head(outstanding)

\* is_running, the one flag by which the functions refuse to touch a list, is
\* never false while the GPU still works on it.
QuietWhenIdle == ~isRunning => outstanding = <<>>

\* A running list always has a request whose interrupt will move it on, and a
\* reserved stop one that will carry it out.
BusyWhileRunning ==
    /\ isRunning /\ app # "issue" => outstanding # <<>>
    /\ stopSpeculative => isRunning /\ list[runList].issued \in list[runList].stops

\* A started list only rests when all its requests are done: one added while
\* the handler finds the list finished is not left behind.
NothingLeftBehind ==
    startRun /\ ~isRunning /\ runList # NoList
        => list[runList].run = list[runList].used

\* is_running, start_run and the stops agree with what the GPU has still to do,
\* whatever interrupt comes between two looks at them.
RunningExact == QuietWhenIdle /\ BusyWhileRunning /\ NothingLeftBehind

\* At most NumSpeculative requests are outstanding; the code drops the result
\* of enqueuing them and relies on the room in the queues.
QueuesHaveRoom ==
    /\ Len(outstanding) <= NumSpeculative
    /\ Len(relay) <= QUEUE_HIGH_WATERMARK + NumSpeculative

\* What the code counts of its requests is what it has issued, and the queues
\* of the GSP process have room for it.
RequestsExact == OutstandingExact /\ QueuesHaveRoom

\* nngxWaitCmdlistDone returns: no interrupt between its look at is_running
\* and its wait goes unnoticed.
WaitReturns == app \in {"look", "yield"} ~> app = "idle"
==============================================================================
