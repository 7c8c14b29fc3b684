--------------------------- MODULE WaitableCounter ---------------------------
(***************************************************************************)
(* nn::os::WaitableCounter: an interlocked s32 on which threads block and  *)
(* are woken through the kernel call ArbitrateAddress.  The counter itself *)
(* belongs to the object that embeds one; this module is the kernel's half *)
(* of the contract: `blocked' is the set of threads asleep on the address. *)
(* The kernel compares and enqueues in one step, so a wait and a change of *)
(* the counter never cross.  Which sleepers a signal wakes depends on      *)
(* priorities the counter's users do not control: it is left open here.    *)
(***************************************************************************)
EXTENDS Integers, FiniteSets

VARIABLES counter, blocked

\* WaitIfLessThan(value): sleep while the counter is below value at the call.
WaitIfLessThan(t, value) ==
    /\ blocked' = IF counter < value THEN blocked \cup {t} ELSE blocked
    /\ UNCHANGED counter

\* Signal(n): n sleepers wake, or all of them when fewer sleep.
Signal(n) ==
    /\ \E woken \in SUBSET blocked :
          /\ IF Cardinality(blocked) <= n
             THEN woken = blocked
             ELSE Cardinality(woken) = n
          /\ blocked' = blocked \ woken
    /\ UNCHANGED counter

\* SignalAll(): Signal(-1) wakes every sleeper.
SignalAll ==
    /\ blocked' = {}
    /\ UNCHANGED counter
==============================================================================
