---- MODULE DisplayBuffers ----
(***************************************************************************)
(* Display buffers of gles2/systemmanager.c: named, given memory and bound  *)
(* to a display or, for the second eye, to its extension; a swap hands the  *)
(* addresses of what is bound to the display hardware. Offsets and sizes    *)
(* within a buffer, and which of its two registers a display uses, are left *)
(* out.                                                                    *)
(***************************************************************************)
EXTENDS Naturals, FiniteSetsExt

CONSTANTS
  MaxDisplayBuffer,  \* bound: names above it are not used
  Layouts            \* formats, widths and areas

DisplayBuffers == 1 .. MaxDisplayBuffer
Displays == {"DISPLAY0", "DISPLAY1"}
BindingPoints == Displays \cup {"DISPLAY0_EXT"}

ASSUME DisplayAssumption == MaxDisplayBuffer \in Nat

VARIABLES
  dbList,         \* the names that have a node
  dbAddress,      \* the memory of each, or 0
  dbLayout,       \* as last stored with success, or "none"
  currentBuffer, activeDisplay,
  stereo,         \* extension_mode is STEREO
  scanned,        \* what each display has been told to show: two addresses
  dbMini,
  dbTaken         \* memory the application's allocator has handed out

dbVars == <<dbList, dbAddress, dbLayout, currentBuffer, activeDisplay, stereo, scanned, dbMini, dbTaken>>

Nowhere == [left |-> 0, right |-> 0]
Memory == 1 .. MaxDisplayBuffer + 1

DbInit ==
  /\ dbList = {}
  /\ dbAddress = [n \in DisplayBuffers |-> 0]
  /\ dbLayout = [n \in DisplayBuffers |-> "none"]
  /\ currentBuffer = [p \in BindingPoints |-> 0]
  /\ activeDisplay = "DISPLAY0"
  /\ stereo = FALSE
  /\ scanned = [d \in Displays |-> Nowhere]
  /\ dbMini = 1
  /\ dbTaken = {}

\* nngxGenDisplaybuffers: the first free name from dbMini on.
GenDisplaybuffer ==
  LET free == {n \in DisplayBuffers \ dbList : n >= dbMini} IN
  /\ free # {}
  /\ dbList' = dbList \cup {Min(free)}
  /\ dbMini' = Min(free) + 1
  /\ UNCHANGED <<dbAddress, dbLayout, currentBuffer, activeDisplay, stereo, scanned, dbTaken>>

\* Mutant of Unbound: the extension is forgotten.
UnboundDisplays(n) == [p \in BindingPoints |->
  IF p \in Displays /\ currentBuffer[p] = n THEN 0 ELSE currentBuffer[p]]

\* nngxDeleteDisplaybuffers, which unbinds what it deletes.
Unbound(n) == [p \in BindingPoints |-> IF currentBuffer[p] = n THEN 0 ELSE currentBuffer[p]]
DeleteDisplaybuffer(n) ==
  /\ n \in dbList
  /\ dbList' = dbList \ {n}
  /\ dbTaken' = dbTaken \ {dbAddress[n]}
  /\ dbAddress' = [dbAddress EXCEPT ![n] = 0]
  /\ dbLayout' = [dbLayout EXCEPT ![n] = "none"]
  /\ dbMini' = Min({dbMini, n})
  /\ currentBuffer' = Unbound(n)
  /\ UNCHANGED <<activeDisplay, stereo, scanned>>

ActiveDisplay(p) ==
  /\ activeDisplay' = p
  /\ UNCHANGED <<dbList, dbAddress, dbLayout, currentBuffer, stereo, scanned, dbMini, dbTaken>>
SetDisplayMode(on) ==
  /\ stereo' = on
  /\ UNCHANGED <<dbList, dbAddress, dbLayout, currentBuffer, activeDisplay, scanned, dbMini, dbTaken>>

\* Binding a name creates its node.
BindDisplaybuffer(n) ==
  /\ dbList' = dbList \cup ({n} \ {0})
  /\ currentBuffer' = [currentBuffer EXCEPT ![activeDisplay] = n]
  /\ UNCHANGED <<dbAddress, dbLayout, activeDisplay, stereo, scanned, dbMini, dbTaken>>

\* The old memory is freed first; if there is none to be had, the buffer has none.
DisplaybufferStorage(layout) ==
  LET n == currentBuffer[activeDisplay]
      kept == dbTaken \ {dbAddress[n]}
  IN /\ n # 0
     /\ \/ /\ dbAddress' = [dbAddress EXCEPT ![n] = Min(Memory \ kept)]
           /\ dbTaken' = kept \cup {Min(Memory \ kept)}
           /\ dbLayout' = [dbLayout EXCEPT ![n] = layout]
        \/ /\ dbAddress' = [dbAddress EXCEPT ![n] = 0]
           /\ dbTaken' = kept
           /\ UNCHANGED dbLayout
     /\ UNCHANGED <<dbList, currentBuffer, activeDisplay, stereo, scanned, dbMini>>

\* nngxSwapBuffers of one display, which skips what it refuses.
Shows(p) == currentBuffer[p] # 0 /\ dbAddress[currentBuffer[p]] # 0
SwapBuffers(d) ==
  LET left == currentBuffer[d]
      right == currentBuffer["DISPLAY0_EXT"]
      both == d = "DISPLAY0" /\ stereo
  IN /\ Shows(d)
     /\ both => Shows("DISPLAY0_EXT") /\ dbLayout[left] = dbLayout[right]
     /\ scanned' = [scanned EXCEPT ![d] = [left |-> dbAddress[left], right |-> IF both THEN dbAddress[right] ELSE 0]]
     /\ UNCHANGED <<dbList, dbAddress, dbLayout, currentBuffer, activeDisplay, stereo, dbMini, dbTaken>>

\* nngxFinalize and nngxInitialize; the displays go on showing what they show.
RestartDisplays ==
  /\ dbList' = {}
  /\ dbAddress' = [n \in DisplayBuffers |-> 0]
  /\ dbLayout' = [n \in DisplayBuffers |-> "none"]
  /\ currentBuffer' = [p \in BindingPoints |-> 0]
  /\ activeDisplay' = "DISPLAY0"
  /\ stereo' = FALSE
  /\ dbMini' = 1
  /\ dbTaken' = dbTaken \ {dbAddress[n] : n \in dbList}
  /\ UNCHANGED scanned

DbNext ==
  \/ GenDisplaybuffer
  \/ \E n \in DisplayBuffers : DeleteDisplaybuffer(n) \/ BindDisplaybuffer(n)
  \/ BindDisplaybuffer(0)
  \/ \E p \in BindingPoints : ActiveDisplay(p)
  \/ \E on \in BOOLEAN : SetDisplayMode(on)
  \/ \E layout \in Layouts : DisplaybufferStorage(layout)
  \/ \E d \in Displays : SwapBuffers(d)
  \/ RestartDisplays

DbSpec == DbInit /\ [][DbNext]_dbVars

\* What is bound exists, the memory handed out is what the buffers hold, each its
\* own: no storage that fails, deletion or restart leaves a buffer with memory
\* that nngxSwapBuffers would show though it was freed, or loses any.
DisplayMemoryOwned ==
  /\ \A p \in BindingPoints : currentBuffer[p] \in dbList \cup {0}
  /\ dbTaken = {dbAddress[n] : n \in dbList} \ {0}
  /\ \A n, m \in DisplayBuffers : n # m /\ dbAddress[n] # 0 => dbAddress[n] # dbAddress[m]
====
