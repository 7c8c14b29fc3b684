-------------------------------- MODULE Mutex --------------------------------
(***************************************************************************)
(* What a lock of nn::os promises its callers: at most one thread is in,   *)
(* and a free lock that threads wait for does not stay free.  Nothing is   *)
(* promised about the order in which waiters get in: a thread that just    *)
(* arrives may overtake all of them.                                       *)
(***************************************************************************)
CONSTANT Threads

VARIABLE phase      \* phase[t] is "out", "trying" or "in"

Init == phase = [t \in Threads |-> "out"]

Free == \A t \in Threads : phase[t] # "in"

\* A call that finds the lock taken starts waiting.
Try(t) ==
    /\ phase[t] = "out"
    /\ phase' = [phase EXCEPT ![t] = "trying"]

\* A call that finds the lock free gets it at once, ahead of every waiter.
Barge(t) ==
    /\ phase[t] = "out"
    /\ Free
    /\ phase' = [phase EXCEPT ![t] = "in"]

\* A waiter gets the lock.
Enter(t) ==
    /\ phase[t] = "trying"
    /\ Free
    /\ phase' = [phase EXCEPT ![t] = "in"]

Exit(t) ==
    /\ phase[t] = "in"
    /\ phase' = [phase EXCEPT ![t] = "out"]

Next == \E t \in Threads : Try(t) \/ Barge(t) \/ Enter(t) \/ Exit(t)

SafeSpec == Init /\ [][Next]_phase

\* A lock that stays free while threads wait is eventually taken by one.
Spec == SafeSpec /\ WF_phase(\E t \in Threads : Enter(t))
==============================================================================
