---------------------------- MODULE BoundedDeque -----------------------------
(***************************************************************************)
(* What a BlockingQueue promises whatever the interleaving of its callers: *)
(* a bounded sequence, extended at either end and consumed at the front,   *)
(* one item at a time, and read at the front.                              *)
(***************************************************************************)
EXTENDS Sequences, Naturals

CONSTANTS Items, Size

VARIABLE queue

Init == queue = <<>>

PushBack(d)  == Len(queue) < Size /\ queue' = Append(queue, d)
PushFront(d) == Len(queue) < Size /\ queue' = <<d>> \o queue
PopFront     == queue # <<>> /\ queue' = Tail(queue)

Next == PopFront \/ \E d \in Items : PushBack(d) \/ PushFront(d)

Spec == Init /\ [][Next]_queue
==============================================================================
