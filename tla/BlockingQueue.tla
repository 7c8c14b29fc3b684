---------------------------- MODULE BlockingQueue ----------------------------
(***************************************************************************)
(* nn::os::BlockingQueue (detail::BlockingQueueBase) and                   *)
(* InterCoreBlockingQueue, which adds only memory barriers: a ring of      *)
(* `used' items starting at `first', with two semaphores on which threads  *)
(* wait for an item or for a free slot.                                    *)
(*                                                                         *)
(* Each Try function runs under m_cs from its first line to its return, so *)
(* it is one step here: CriticalSection is a lock (module Mutex) and all   *)
(* it protects is used nowhere else.  The waiting counts are touched       *)
(* outside m_cs, in steps of their own, and the semaphores are taken as    *)
(* the abstract Semaphore that LightSemaphore implements.                  *)
(*                                                                         *)
(* pc[t]: "idle"; "put"/"take" about to try; "putWait"/"takeWait" about to *)
(* Acquire, or waiting in it; "putDone"/"takeDone" about to uncount.       *)
(* call[t] is the operation under way, with the item a producer brings.    *)
(***************************************************************************)
EXTENDS Integers, Sequences, FiniteSets

CONSTANTS Threads,
          Items,        \* what Enqueue puts last
          Urgent,       \* what Jam puts first
          NoItem,
          Size,         \* m_Size
          MaxTokens     \* LightSemaphore::MAX_MAX_COUNT

ASSUME QueueAssumption ==
    /\ IsFiniteSet(Threads)
    /\ NoItem \notin Items \cup Urgent
    /\ Size \in Nat \ {0}
    /\ MaxTokens \in Nat \ {0}

VARIABLES buffer,               \* m_ppBuffer
          first,                \* m_FirstIndex
          used,                 \* m_UsedCount
          enqueueTokens,        \* m_EnqueueSemaphore: items to come and get
          dequeueTokens,        \* m_DequeueSemaphore: slots to come and fill
          waitingEnqueue,       \* m_WaitingEnqueueCount: threads awaiting items
          waitingDequeue,       \* m_WaitingDequeueCount: threads awaiting slots
          pc, call,
          peeked                \* history: a GetFront has taken a token

ring == <<buffer, first, used>>
sync == <<enqueueTokens, dequeueTokens, waitingEnqueue, waitingDequeue>>
vars == <<ring, sync, pc, call, peeked>>

Idle == [op |-> "none", item |-> NoItem]
Producing == [op : {"Enqueue"}, item : Items] \cup [op : {"Jam"}, item : Urgent]
Consuming == [op : {"Dequeue", "GetFront"}, item : {NoItem}]

Goto(t, place) == pc' = [pc EXCEPT ![t] = place]
Return(t) == Goto(t, "idle") /\ call' = [call EXCEPT ![t] = Idle]

Init ==
    /\ buffer = [i \in 0..Size - 1 |-> NoItem]
    /\ first = 0
    /\ used = 0
    /\ enqueueTokens = 0
    /\ dequeueTokens = 0
    /\ waitingEnqueue = 0
    /\ waitingDequeue = 0
    /\ pc = [t \in Threads |-> "idle"]
    /\ call = [t \in Threads |-> Idle]
    /\ peeked = FALSE

Full == used >= Size
Empty == used <= 0

\* LightSemaphore::Release(1), saturating.
Released(tokens) == IF tokens > MaxTokens - 1 THEN MaxTokens ELSE tokens + 1

\* Mutant of NotifyEnqueue: only a queue that was empty is announced.
NotifyEnqueueIfEmpty ==
    /\ enqueueTokens' = IF waitingEnqueue > 0 /\ Empty
                        THEN Released(enqueueTokens) ELSE enqueueTokens
    /\ UNCHANGED <<dequeueTokens, waitingEnqueue, waitingDequeue>>

NotifyEnqueue ==
    /\ enqueueTokens' = IF waitingEnqueue > 0 THEN Released(enqueueTokens)
                                              ELSE enqueueTokens
    /\ UNCHANGED <<dequeueTokens, waitingEnqueue, waitingDequeue>>

NotifyDequeue ==
    /\ dequeueTokens' = IF waitingDequeue > 0 THEN Released(dequeueTokens)
                                              ELSE dequeueTokens
    /\ UNCHANGED <<enqueueTokens, waitingEnqueue, waitingDequeue>>

\* The successful part of TryEnqueue, TryJam, TryDequeue and TryGetFront.
PutLast(d) ==
    /\ ~Full
    /\ buffer' = [buffer EXCEPT ![(first + used) % Size] = d]
    /\ used' = used + 1
    /\ UNCHANGED first
    /\ NotifyEnqueue

\* Mutant of PutFirst: the item is written before the index moves.
PutFirstEarly(d) ==
    /\ ~Full
    /\ buffer' = [buffer EXCEPT ![first] = d]
    /\ first' = (first + Size - 1) % Size
    /\ used' = used + 1
    /\ NotifyEnqueue

PutFirst(d) ==
    /\ ~Full
    /\ first' = (first + Size - 1) % Size
    /\ buffer' = [buffer EXCEPT ![first'] = d]
    /\ used' = used + 1
    /\ NotifyEnqueue

TakeFirst ==
    /\ ~Empty
    /\ first' = (first + 1) % Size
    /\ used' = used - 1
    /\ UNCHANGED buffer
    /\ NotifyDequeue

SeeFirst == ~Empty /\ UNCHANGED <<ring, sync>>

Perform(c) ==
    CASE c.op = "Enqueue"  -> PutLast(c.item)
      [] c.op = "Jam"      -> PutFirst(c.item)
      [] c.op = "Dequeue"  -> TakeFirst
      [] c.op = "GetFront" -> SeeFirst

Calls == Producing \cup Consuming

\* The Try functions called directly: one step, whose failure changes nothing.
TryCall(t, c) ==
    /\ pc[t] = "idle"
    /\ Perform(c)
    /\ UNCHANGED <<pc, call, peeked>>

\* Enqueue, Jam, Dequeue and GetFront: count itself, try until it succeeds,
\* waiting on a semaphore after each failure, and uncount itself.
Begin(t, c) ==
    /\ pc[t] = "idle"
    /\ call' = [call EXCEPT ![t] = c]
    /\ \/ /\ c \in Producing
          /\ waitingDequeue' = waitingDequeue + 1
          /\ Goto(t, "put")
          /\ UNCHANGED waitingEnqueue
       \/ /\ c \in Consuming
          /\ waitingEnqueue' = waitingEnqueue + 1
          /\ Goto(t, "take")
          /\ UNCHANGED waitingDequeue
    /\ UNCHANGED <<ring, enqueueTokens, dequeueTokens, peeked>>

Attempt(t) ==
    /\ pc[t] \in {"put", "take"}
    /\ \/ /\ Perform(call[t])
          /\ Goto(t, IF pc[t] = "put" THEN "putDone" ELSE "takeDone")
       \/ /\ IF pc[t] = "put" THEN Full ELSE Empty
          /\ Goto(t, IF pc[t] = "put" THEN "putWait" ELSE "takeWait")
          /\ UNCHANGED <<ring, sync>>
    /\ UNCHANGED <<call, peeked>>

AcquireSlotToken(t) ==
    /\ pc[t] = "putWait"
    /\ dequeueTokens > 0
    /\ dequeueTokens' = dequeueTokens - 1
    /\ Goto(t, "put")
    /\ UNCHANGED <<ring, call, peeked, enqueueTokens, waitingEnqueue, waitingDequeue>>

AcquireItemToken(t) ==
    /\ pc[t] = "takeWait"
    /\ enqueueTokens > 0
    /\ enqueueTokens' = enqueueTokens - 1
    /\ peeked' = (peeked \/ call[t].op = "GetFront")
    /\ Goto(t, "take")
    /\ UNCHANGED <<ring, call, dequeueTokens, waitingEnqueue, waitingDequeue>>

Finish(t) ==
    /\ \/ pc[t] = "putDone" /\ waitingDequeue' = waitingDequeue - 1
          /\ UNCHANGED waitingEnqueue
       \/ pc[t] = "takeDone" /\ waitingEnqueue' = waitingEnqueue - 1
          /\ UNCHANGED waitingDequeue
    /\ Return(t)
    /\ UNCHANGED <<ring, enqueueTokens, dequeueTokens, peeked>>

Step(t) ==
    Attempt(t) \/ AcquireSlotToken(t) \/ AcquireItemToken(t) \/ Finish(t)

Next ==
    \E t \in Threads :
        \/ Step(t)
        \/ \E c \in Calls : TryCall(t, c) \/ Begin(t, c)

SafeSpec == Init /\ [][Next]_vars

\* A thread inside a blocking call keeps running when it can.
Spec == SafeSpec /\ \A t \in Threads : WF_vars(Step(t))

------------------------------------------------------------------------------
At(places) == {t \in Threads : pc[t] \in places}

Queue == [i \in 1..used |-> buffer[(first + i - 1) % Size]]

Abstract == INSTANCE BoundedDeque WITH
    queue <- Queue, Items <- Items \cup Urgent

\* The ring is the abstract bounded queue: items leave in the order of the
\* sequence, none is lost, duplicated or overwritten, wherever `first' wraps.
ImplementsDeque == Abstract!Spec

\* Items and threads waiting for them do not stay side by side for ever,
\* unless a GetFront takes their token.
ItemsReachWaiters ==
    (used > 0 /\ At({"takeWait"}) # {})
        ~> (used = 0 \/ At({"takeWait"}) = {} \/ peeked)
==============================================================================
