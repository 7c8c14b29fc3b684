----------------------------- MODULE SharedMemory ----------------------------
(***************************************************************************)
(* nn::os::SharedMemoryBlock over its AddressSpaceManager.  Map allocates  *)
(* an address range, then asks the kernel to map the memory there; the two *)
(* are separate steps, between which other threads map and unmap theirs.   *)
(*                                                                         *)
(* Left out: MemoryBlock and StackMemoryBlock.  Both allocate through a    *)
(* pointer to a manager that is never set (AllocateFromMemoryBlockSpace);  *)
(* what they do is not determined by the source.                           *)
(*                                                                         *)
(* phase[b]: "none", "mapping" (the range is allocated, the kernel call is *)
(* pending), "unmapped" (the kernel has unmapped, the range is still to be *)
(* freed), "mapped" or "failed".                                           *)
(***************************************************************************)
EXTENDS AddressSpace

CONSTANT KernelFails    \* whether svc::MapMemoryBlock may fail

ASSUME KernelAssumption == KernelFails \in BOOLEAN

VARIABLES spaceAllocated,   \* m_SpaceAllocated
          phase,
          kernel,           \* the ranges the kernel has mapped, per block
          forgotten         \* history: has ForgetRange ever happened?

mapping == <<spaceAllocated, phase, kernel, forgotten>>
vars == <<space, mapping>>

Unmapped == [begin |-> 0, size |-> 0]

Init ==
    /\ InitSpace
    /\ spaceAllocated = [b \in Blocks |-> FALSE]
    /\ phase = [b \in Blocks |-> "none"]
    /\ kernel = [b \in Blocks |-> Unmapped]
    /\ forgotten = FALSE

SetPhase(b, p) == phase' = [phase EXCEPT ![b] = p]

\* Map: nothing happens to a block that has an address or finds no room.
Map(b, n) ==
    /\ phase[b] = "none"
    /\ address[b] = 0
    /\ Allocate(b, n)
    /\ SetPhase(b, "mapping")
    /\ UNCHANGED <<spaceAllocated, kernel, forgotten>>

MapInKernel(b) ==
    /\ phase[b] = "mapping"
    /\ \/ /\ spaceAllocated' = [spaceAllocated EXCEPT ![b] = TRUE]
          /\ kernel' = [kernel EXCEPT ![b] = [begin |-> address[b],
                                              size |-> size[b]]]
          /\ SetPhase(b, "mapped")
       \/ /\ KernelFails
          /\ SetPhase(b, "failed")
          /\ UNCHANGED <<spaceAllocated, kernel>>
    /\ UNCHANGED <<space, forgotten>>

\* Mutant of UnmapInKernel: the range is freed while the kernel still maps it.
UnmapTooLate(b) ==
    /\ phase[b] \in {"mapped", "failed"}
    /\ address[b] # 0
    /\ spaceAllocated[b]
    /\ Free(b)
    /\ SetPhase(b, "unmapped")
    /\ UNCHANGED <<spaceAllocated, kernel, forgotten>>

\* Unmap, also called by Finalize and the destructor: the kernel unmaps and
\* then the range is freed; or, when Map never got that far, only the
\* address is forgotten.  m_SpaceAllocated is never taken back.
UnmapInKernel(b) ==
    /\ phase[b] \in {"mapped", "failed"}
    /\ address[b] # 0
    /\ spaceAllocated[b]
    /\ kernel' = [kernel EXCEPT ![b] = Unmapped]
    /\ SetPhase(b, "unmapped")
    /\ UNCHANGED <<space, spaceAllocated, forgotten>>

\* Mutant of FreeRange: the address is forgotten and the range kept.
FreeRangeForgets(b) ==
    /\ phase[b] = "unmapped"
    /\ address' = [address EXCEPT ![b] = 0]
    /\ size' = [size EXCEPT ![b] = 0]
    /\ SetPhase(b, "none")
    /\ UNCHANGED <<list, spaceAllocated, kernel, forgotten>>

FreeRange(b) ==
    /\ phase[b] = "unmapped"
    /\ Free(b)
    /\ SetPhase(b, "none")
    /\ UNCHANGED <<spaceAllocated, kernel, forgotten>>

ForgetRange(b) ==
    /\ phase[b] = "failed"
    /\ ~spaceAllocated[b]
    /\ address' = [address EXCEPT ![b] = 0]
    /\ size' = [size EXCEPT ![b] = 0]
    /\ SetPhase(b, "none")
    /\ forgotten' = TRUE
    /\ UNCHANGED <<list, spaceAllocated, kernel>>

Next ==
    \E b \in Blocks :
        \/ \E n \in 1..MaxSize : Map(b, n)
        \/ MapInKernel(b) \/ UnmapInKernel(b)
        \/ FreeRange(b) \/ ForgetRange(b)

Spec == Init /\ [][Next]_vars

------------------------------------------------------------------------------
\* No two blocks are ever mapped over one another, whatever the order of the
\* allocation, mapping, unmapping and freeing steps of different blocks, and
\* even when some of the mappings fail, until a block's range is forgotten.
KernelDisjoint ==
    ~forgotten =>
        \A b, c \in Blocks :
            b # c /\ kernel[b].size > 0 /\ kernel[c].size > 0 =>
                \/ kernel[b].begin + kernel[b].size <= kernel[c].begin
                \/ kernel[c].begin + kernel[c].size <= kernel[b].begin

\* Until then the manager's list is sound and its search right, also while
\* ranges wait for the kernel and after mappings that failed.
ManagerSound == ~forgotten => Disjoint /\ SearchExact

\* A range the kernel maps is one the manager still counts as taken, whatever
\* failed and was forgotten before.
MappedIsAllocated ==
    \A b \in Blocks :
        kernel[b].size > 0 =>
            /\ Listed(b)
            /\ kernel[b] = [begin |-> address[b], size |-> size[b]]

\* What the kernel has mapped and what the manager has given out agree, while
\* blocks are mapped and unmapped side by side.
MappingsSound == ManagerSound /\ KernelDisjoint /\ MappedIsAllocated

\* "AlreadyListed": a block that Map accepts (its address is 0) is not in the
\* list any more, as the list asserts of every node it is asked to insert.
MappableIsUnlisted == \A b \in Blocks : address[b] = 0 => ~Listed(b)

\* The manager's list, its words that wrap and the two steps of mapping and of
\* unmapping amount to ranges that are reserved where nothing else is, and stay
\* reserved for as long as the kernel maps them.  A failed mapping gives its
\* range back; once one was forgotten, it is only the place of a range reserved
\* later that nothing is said of.
Ranges == INSTANCE MappedRanges WITH
    reserved <- [b \in Blocks |-> [begin |-> address[b], size |-> size[b]]],
    mapped <- kernel

ReservesAnywhere == \E b \in Blocks : phase[b] = "none" /\ phase'[b] = "mapping"

ImplementsRanges ==
    /\ Ranges!Init
    /\ [][Ranges!Next \/ (forgotten /\ ReservesAnywhere)]_<<address, size, kernel>>
==============================================================================
