------------------------------ MODULE Semaphore ------------------------------
(***************************************************************************)
(* What a counting semaphore of nn::os promises: never more tokens than    *)
(* its maximum, a token is taken by one thread only, and while tokens and  *)
(* waiting threads both remain, one of the waiters gets a token.           *)
(***************************************************************************)
EXTENDS Integers

CONSTANTS Threads, MaxCount, MaxRelease, Initial

VARIABLES tokens, waiting

vars == <<tokens, waiting>>

Init == tokens = Initial /\ waiting = {}

\* A call that finds no token starts waiting.
Await(t) ==
    /\ t \notin waiting
    /\ waiting' = waiting \cup {t}
    /\ UNCHANGED tokens

\* A waiter, or a thread that just calls, takes a token.
Acquire(t) ==
    /\ tokens > 0
    /\ tokens' = tokens - 1
    /\ waiting' = waiting \ {t}

\* n tokens come back; those above the maximum are dropped.
Release(n) ==
    /\ tokens' = IF tokens + n > MaxCount THEN MaxCount ELSE tokens + n
    /\ UNCHANGED waiting

Next ==
    \/ \E t \in Threads : Await(t) \/ Acquire(t)
    \/ \E n \in 1..MaxRelease : Release(n)

SafeSpec == Init /\ [][Next]_vars

\* Tokens and waiters do not stay side by side for ever.
Spec == SafeSpec /\ WF_vars(\E t \in waiting : Acquire(t))
==============================================================================
