-------------------------- MODULE NotificationHandlers -------------------------
(***************************************************************************)
(* The handlers of notifications in srv: HandlerManager, a circular list    *)
(* (IntrusiveLinkedList) that the dispatching thread searches without a     *)
(* lock while another thread registers and unregisters handlers. Each load  *)
(* of the search and each store of the other thread is a step, in the order *)
(* of the program; both threads run on one core.                            *)
(*                                                                         *)
(* Unregister takes a lock, Register none: the model has one thread that    *)
(* calls them, since with two of them nothing could be said of the list.    *)
(***************************************************************************)
EXTENDS Integers, SequencesExt

CONSTANTS Handlers, Messages,
          Null   \* of a link, a handler and a message

ASSUME NullIsNone == Null \notin Handlers \cup Messages

VARIABLES head,             \* m_Head
          next, previous,   \* m_NextLink, m_PreviousLink
          attached,         \* m_AttachedMessage
          stores,           \* what Register or Unregister has yet to store
          order,            \* history: the handlers registered, first to last
          search            \* DispatchNotification: place and locals of Find; history:
                            \* the handlers that cannot be missed, and whether one was
                            \* unregistered while the search stood at it

handlerVars == <<head, next, previous, attached, stores, order, search>>

HandlersInit ==
    /\ head = Null
    /\ next = [h \in Handlers |-> Null] /\ previous = next /\ attached = next
    /\ stores = <<>> /\ order = <<>>
    /\ search = [place |-> "idle", message |-> Null, at |-> Null, front |-> Null,
                 due |-> {}, strayed |-> FALSE]

------------------------------------------------------------------------------
(* A store: which variable, of which handler, what value; the last step of Register *)
(* stores nothing, but returns.                                                     *)
Store(field, h, value) == [field |-> field, of |-> h, value |-> value]
ReturnOf(h) == Store("return", h, Null)

\* InsertBefore(p, q).
InsertBefore(p, q) ==
    <<Store("next", q, p), Store("next", previous[p], q),
      Store("previous", q, previous[p]), Store("previous", p, q)>>

PushBack(h) ==
    IF head = Null
    THEN <<Store("next", h, h), Store("previous", h, h), Store("head", h, h)>>
    ELSE InsertBefore(head, h)

\* Mutant of Unlink: the head stays where it is.
UnlinkKeepingHead(h) ==
    IF h = previous[h] THEN <<Store("head", h, Null)>>
    ELSE <<Store("previous", next[h], previous[h]), Store("next", previous[h], next[h])>>

\* Erase, but for the links of the node itself.
Unlink(h) ==
    IF h = previous[h] THEN <<Store("head", h, Null)>>
    ELSE (IF head = h THEN <<Store("head", h, next[h])>> ELSE <<>>)
         \o <<Store("previous", next[h], previous[h]), Store("next", previous[h], next[h])>>

ClearLinks(h) == <<Store("next", h, Null), Store("previous", h, Null)>>

\* The handler is not registered and the caller's message is one.
Register(h, message) ==
    /\ stores = <<>>
    /\ h \notin Range(order)
    /\ order' = Append(order, h)
    /\ stores' = <<Store("attached", h, message)>> \o PushBack(h) \o <<ReturnOf(h)>>
    /\ UNCHANGED <<head, next, previous, attached, search>>

Unregistered(h, i) ==
    /\ order' = RemoveAt(order, i)
    /\ stores' = Unlink(h) \o ClearLinks(h) \o <<Store("attached", h, Null)>>
    /\ search' = [search EXCEPT !.due = @ \ {h}, !.strayed = @ \/ search.at = h]

\* Nobody else writes: the search for the handler is one step.
Unregister(message) ==
    /\ stores = <<>>
    /\ \E i \in 1..Len(order) :
          /\ attached[order[i]] = message
          /\ \A j \in 1..i - 1 : attached[order[j]] # message
          /\ Unregistered(order[i], i)
    /\ UNCHANGED <<head, next, previous, attached>>

Stored(field, f) ==
    LET s == Head(stores) IN IF s.field = field THEN [f EXCEPT ![s.of] = s.value] ELSE f

DoStore ==
    /\ stores # <<>>
    /\ stores' = Tail(stores)
    /\ head' = IF Head(stores).field = "head" THEN Head(stores).value ELSE head
    /\ next' = Stored("next", next)
    /\ previous' = Stored("previous", previous)
    /\ attached' = Stored("attached", attached)
    /\ UNCHANGED <<order, search>>

------------------------------------------------------------------------------
\* A handler whose Register has returned when the search begins must be found.
ReceiveNotification(message) ==
    /\ search.place = "idle"
    /\ search' = [search EXCEPT
                     !.place = "front", !.message = message,
                     !.due = {h \in Range(order) :
                                 attached[h] = message /\ ReturnOf(h) \notin Range(stores)}]
    /\ UNCHANGED <<head, next, previous, attached, stores, order>>

\* The search goes to h, or ends. One that comes to a handler being unregistered strays.
GoTo(h) ==
    search' = [search EXCEPT
                  !.place = IF h = Null THEN "nothing" ELSE "look", !.at = h,
                  !.strayed = @ \/ (h # Null /\ h \notin Range(order))]

GetFront == search.place = "front" /\ GoTo(head)

LookAtMessage ==
    /\ search.place = "look"
    /\ search' = [search EXCEPT
                     !.place = IF attached[search.at] = search.message THEN "found" ELSE "head"]

\* GetNext: NULL after the back of the list, which GetBack takes from the front.
LoadHead ==
    /\ search.place = "head"
    /\ IF head = Null THEN GoTo(Null)
       ELSE search' = [search EXCEPT !.place = "back", !.front = head]

\* Mutant of LoadBack: the front is taken for the back.
LoadBackFront ==
    /\ search.place = "back"
    /\ IF search.at = search.front THEN GoTo(Null)
       ELSE search' = [search EXCEPT !.place = "next", !.front = Null]

LoadBack ==
    /\ search.place = "back"
    /\ IF search.at = previous[search.front] THEN GoTo(Null)
       ELSE search' = [search EXCEPT !.place = "next", !.front = Null]

LoadNext == search.place = "next" /\ GoTo(next[search.at])

\* The handler is called, if there was one; it takes no lock of these.
Dispatched ==
    /\ search.place \in {"found", "nothing"}
    /\ search' = [search EXCEPT !.place = "idle", !.message = Null, !.at = Null, !.due = {},
                                !.front = Null, !.strayed = FALSE]

DispatchStep ==
    /\ GetFront \/ LookAtMessage \/ LoadHead \/ LoadBack \/ LoadNext \/ Dispatched
    /\ UNCHANGED <<head, next, previous, attached, stores, order>>

HandlersNext ==
    \/ \E h \in Handlers, message \in Messages : Register(h, message)
    \/ \E message \in Messages : Unregister(message) \/ ReceiveNotification(message)
    \/ DoStore
    \/ DispatchStep

HandlersSpec == HandlersInit /\ [][HandlersNext]_handlerVars

------------------------------------------------------------------------------
\* When the list is not being changed it is that of the registered handlers, in
\* their order, closed both ways, and the others have no links.
ListIsExact ==
    LET n == Len(order)
        After(i) == order[(i % n) + 1]
    IN stores = <<>> =>
          /\ head = IF n = 0 THEN Null ELSE order[1]
          /\ \A i \in 1..n : next[order[i]] = After(i) /\ previous[After(i)] = order[i]
          /\ \A h \in Handlers \ Range(order) : {next[h], previous[h], attached[h]} = {Null}

\* A notification reaches a handler that was registered before it came, at whatever
\* places of a registration or of other handlers' unregistering the search looks;
\* it can only be lost by unregistering the very handler the search stands at.
NoneMissed == search.place = "nothing" /\ ~search.strayed => search.due = {}

HandlersReached == ListIsExact /\ NoneMissed
==============================================================================
