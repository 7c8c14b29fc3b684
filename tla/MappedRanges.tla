---------------------------- MODULE MappedRanges -----------------------------
(***************************************************************************)
(* What shared memory blocks promise: each reserves a range of pages that  *)
(* is inside the space and Skip pages away from all other ranges, has it   *)
(* mapped and unmapped, and keeps it reserved for as long as it is mapped. *)
(***************************************************************************)
EXTENDS Integers

CONSTANTS Blocks, SpaceBegin, SpaceSize, Skip, MaxSize

VARIABLES reserved, mapped  \* the range of each block

None == [begin |-> 0, size |-> 0]

Apart(r, s) ==
    r.begin + r.size + Skip <= s.begin \/ s.begin + s.size + Skip <= r.begin

Init ==
    /\ reserved = [b \in Blocks |-> None]
    /\ mapped = [b \in Blocks |-> None]

Free(range) == \A b \in Blocks : reserved[b] # None => Apart(range, reserved[b])

Reserve(b) ==
    /\ reserved[b] = None
    /\ \E first \in SpaceBegin..SpaceBegin + SpaceSize, n \in 1..MaxSize :
          LET range == [begin |-> first, size |-> n] IN
          /\ reserved' = [reserved EXCEPT ![b] = range]
          /\ first + n <= SpaceBegin + SpaceSize
          /\ Free(range)
    /\ UNCHANGED mapped

Map(b) ==
    /\ reserved[b] # None /\ mapped[b] = None
    /\ mapped' = [mapped EXCEPT ![b] = reserved[b]]
    /\ UNCHANGED reserved

Unmap(b) ==
    /\ mapped[b] # None
    /\ mapped' = [mapped EXCEPT ![b] = None]
    /\ UNCHANGED reserved

Release(b) ==
    /\ reserved[b] # None /\ mapped[b] = None
    /\ reserved' = [reserved EXCEPT ![b] = None]
    /\ UNCHANGED mapped

Next == \E b \in Blocks : Reserve(b) \/ Map(b) \/ Unmap(b) \/ Release(b)

Spec == Init /\ [][Next]_<<reserved, mapped>>
==============================================================================
