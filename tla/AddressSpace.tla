----------------------------- MODULE AddressSpace ----------------------------
(***************************************************************************)
(* nn::os::AddressSpaceManager: an intrusive list of memory blocks, sorted *)
(* by address, from which free address ranges are found.  Every operation  *)
(* runs under m_Lock and is one step.  Addresses and sizes are counted in  *)
(* pages; a word holds Word of them, and sums wrap around like a uptr.     *)
(* A block whose address is 0 (NULL) is not in use.                        *)
(*                                                                         *)
(* Left out: Switch, which nothing calls with a block of its manager.      *)
(***************************************************************************)
EXTENDS Integers, SequencesExt

CONSTANTS Blocks,
          Word,         \* pages in the address range of a uptr
          SpaceBegin, SpaceSize,
          Skip,         \* skipSize: pages kept free below every block
          MaxSize       \* bound on the pages of one block

ASSUME SpaceAssumption ==
    /\ Word \in Nat \ {0}
    /\ SpaceBegin \in 1..Word - 1
    /\ SpaceSize \in Nat \ {0}
    /\ Skip \in Nat
    /\ SpaceBegin + SpaceSize + Skip < Word
    /\ MaxSize \in 1..SpaceSize

VARIABLES list,         \* m_BlockList, from front to back
          address, size \* of each block

space == <<list, address, size>>

Add(a, b) == (a + b) % Word
Subtract(a, b) == (a - b) % Word

SpaceEnd == Add(SpaceBegin, SpaceSize)
EndOf(b) == Add(address[b], size[b])

InitSpace ==
    /\ list = <<>>
    /\ address = [b \in Blocks |-> 0]
    /\ size = [b \in Blocks |-> 0]

\* Mutant of RoomAbove: `end' stays at the end of the space.
RoomAboveToEnd(i) == Subtract(SpaceEnd, EndOf(list[i]))

\* FindSpace walks from the back; the room above the i-th block ends where the
\* next one's skipped pages begin, or at the end of the space.
RoomAbove(i) ==
    Subtract(IF i = Len(list) THEN SpaceEnd
                              ELSE Subtract(address[list[i + 1]], Skip),
             EndOf(list[i]))

\* Mutant of FindSpace: a room that fits exactly is refused.
FindSpaceStrict(n) ==
    SelectLastInSeq([i \in 1..Len(list) |-> RoomAbove(i)],
                    LAMBDA room : room > Add(n, Skip))

\* The position of the block FindSpace returns, or 0 for NULL.
FindSpace(n) ==
    SelectLastInSeq([i \in 1..Len(list) |-> RoomAbove(i)],
                    LAMBDA room : room >= Add(n, Skip))

\* The address at which Allocate puts a block of n pages, or 0 for NULL.
PlaceFor(n) ==
    LET prev == FindSpace(n) IN
    IF prev # 0 THEN Add(EndOf(list[prev]), Skip)
    ELSE IF list # <<>>
         THEN IF address[list[1]] < Add(Add(SpaceBegin, n), Skip)
              THEN 0 ELSE SpaceBegin
         ELSE IF SpaceEnd < Add(SpaceBegin, n) THEN 0 ELSE SpaceBegin

\* The list insertions want an unlinked node ("already listed" otherwise).
Listed(b) == \E i \in 1..Len(list) : list[i] = b

Allocate(b, n) ==
    /\ PlaceFor(n) # 0
    /\ ~Listed(b)
    /\ list' = InsertAt(list, FindSpace(n) + 1, b)
    /\ address' = [address EXCEPT ![b] = PlaceFor(n)]
    /\ size' = [size EXCEPT ![b] = n]

Free(b) ==
    /\ \E i \in 1..Len(list) : list[i] = b /\ list' = RemoveAt(list, i)
    /\ address' = [address EXCEPT ![b] = 0]
    /\ size' = [size EXCEPT ![b] = 0]

------------------------------------------------------------------------------
\* The list holds the blocks in use, which lie in the space, in the order of
\* their addresses; none overlaps another, and Skip pages stay free between
\* neighbours.
Disjoint ==
    /\ \A b \in Blocks : Listed(b) <=> address[b] # 0
    /\ \A i \in 1..Len(list) :
          /\ SpaceBegin <= address[list[i]]
          /\ address[list[i]] + size[list[i]] <= SpaceEnd
    /\ \A i \in 1..Len(list) - 1 :
          address[list[i]] + size[list[i]] + Skip <= address[list[i + 1]]

\* Where n pages could go: inside the space, Skip pages away from every block.
Fits(a, n) ==
    /\ SpaceBegin <= a /\ a + n <= SpaceEnd
    /\ \A b \in {list[i] : i \in 1..Len(list)} :
          \/ a + n + Skip <= address[b]
          \/ address[b] + size[b] + Skip <= a

\* The search is right and complete: it fails only if no place fits.
SearchExact ==
    \A n \in 1..SpaceSize :
        IF PlaceFor(n) # 0 THEN Fits(PlaceFor(n), n)
        ELSE \A a \in SpaceBegin..SpaceEnd : ~Fits(a, n)
==============================================================================
