--------------------------- MODULE GLObjectsProofs ---------------------------
(***************************************************************************)
(* Proofs about the managers of gles2, for every number of names, texture    *)
(* units, attributes and blocks of memory: what textures, vertex buffers,    *)
(* framebuffers and display buffers name is there, and memory is neither     *)
(* lost nor given back twice. Each manager has an inductive invariant of its *)
(* own; the last theorem puts them together for GLObjects.                   *)
(***************************************************************************)
EXTENDS GLObjects, FiniteSetTheorems, WellFoundedInduction, TLAPS

\* A set of natural numbers has a least element, which Min finds.
LEMMA LeastNat ==
    ASSUME NEW S \in SUBSET Nat, S # {}
    PROVE  Min(S) \in S /\ \A n \in S : Min(S) <= n
<1> DEFINE Less == {p \in Nat \X Nat : p[1] < p[2]}
<1>1. IsWellFoundedOn(Less, Nat)
  BY NatLessThanWellFounded DEF OpToRel
<1>2. PICK m \in S : \A n \in S : <<n, m>> \notin Less
  BY <1>1, WFMin
<1>3. \A n \in S : m <= n
  <2>1. SUFFICES ASSUME NEW n \in S, n < m PROVE FALSE
    OBVIOUS
  <2>2. <<n, m>> \in Less
    BY <2>1
  <2>3. QED
    BY <1>2, <2>2
<1>4. QED
  BY <1>3 DEF Min

------------------------------------------------------------------------------
FbTypeOK ==
    /\ fbList \subseteq Framebuffers /\ 0 \in fbList
    /\ rbList \subseteq Renderbuffers
    /\ attached \in [Framebuffers -> [AttachPoints -> {0} \cup Renderbuffers]]
    /\ currFB \in Framebuffers /\ currRB \in {0} \cup Renderbuffers

\* A name without framebuffer has nothing attached for the next one to find.
FbInv ==
    /\ FbTypeOK /\ AttachmentsLive
    /\ \A f \in Framebuffers \ fbList : attached[f] = NoAttachment

\* Framebuffers start with the invariant, and every call keeps it.
LEMMA FbInitInv == FbInit => FbInv
BY FramebufferAssumption DEF FbInit, FbInv, FbTypeOK, AttachmentsLive, NoAttachment, Framebuffers

(* Each operation on framebuffers keeps their invariant. *)
LEMMA FbNextInv == FbInv /\ [FbNext]_fbVars => FbInv'
<1> SUFFICES ASSUME FbInv, [FbNext]_fbVars PROVE FbInv'
  OBVIOUS
<1> USE DEF FbInv, FbTypeOK, AttachmentsLive
<1>1. ASSUME NEW k \in 1..2, GenRenderbuffers(k) PROVE FbInv'
  BY <1>1 DEF GenRenderbuffers, FirstNames
<1>2. ASSUME NEW k \in 1..2, GenFramebuffers(k) PROVE FbInv'
  <2>1. /\ fbList \subseteq fbList' /\ fbList' \subseteq Framebuffers
        /\ UNCHANGED <<rbList, attached, currFB, currRB>>
    BY <1>2 DEF GenFramebuffers, FirstNames
  <2>2. \A f \in fbList', p \in AttachPoints : attached[f][p] \in rbList \cup {0}
    BY <2>1 DEF NoAttachment
  <2>3. QED
    BY <2>1, <2>2
<1>3. ASSUME NEW r \in {0} \cup Renderbuffers, BindRenderbuffer(r) PROVE FbInv'
  BY <1>3 DEF BindRenderbuffer
<1>4. ASSUME NEW f \in Framebuffers, BindFramebuffer(f) PROVE FbInv'
  BY <1>4 DEF BindFramebuffer, NoAttachment
<1>5. ASSUME NEW p \in AttachPoints, NEW r \in {0} \cup Renderbuffers, FramebufferRenderbuffer(p, r)
      PROVE  FbInv'
  BY <1>5 DEF FramebufferRenderbuffer
<1>6. ASSUME NEW r \in Renderbuffers, DeleteRenderbuffer(r) PROVE FbInv'
  <2>1. \A f \in Framebuffers, p \in AttachPoints :
           attached'[f][p] = IF f \in fbList /\ attached[f][p] = r THEN 0 ELSE attached[f][p]
    BY <1>6 DEF DeleteRenderbuffer, Detach
  <2>2. \A f \in Framebuffers \ fbList : attached'[f] = NoAttachment
    BY <1>6 DEF DeleteRenderbuffer, Detach, NoAttachment
  <2>3. FbTypeOK'
    BY <1>6 DEF DeleteRenderbuffer, Detach
  <2>4. QED
    BY <1>6, <2>1, <2>2, <2>3 DEF DeleteRenderbuffer
<1>7. ASSUME NEW f \in Framebuffers, DeleteFramebuffer(f) PROVE FbInv'
  BY <1>7 DEF DeleteFramebuffer, NoAttachment
<1>8. CASE RestartFramebuffers
  BY <1>8, FramebufferAssumption DEF RestartFramebuffers, NoAttachment, Framebuffers
<1>9. CASE UNCHANGED fbVars
  BY <1>9 DEF fbVars
<1>10. QED
  BY <1>1, <1>2, <1>3, <1>4, <1>5, <1>6, <1>7, <1>8, <1>9 DEF FbNext

\* What framebuffers point into exists, however many names there are.
THEOREM AttachmentsAreLive == FbSpec => []AttachmentsLive
<1>1. FbInv => AttachmentsLive
  BY DEF FbInv
<1>2. QED
  BY FbInitInv, FbNextInv, <1>1, PTL DEF FbSpec

------------------------------------------------------------------------------
DbTypeOK ==
    /\ dbList \subseteq DisplayBuffers
    /\ dbAddress \in [DisplayBuffers -> {0} \cup Memory]
    /\ currentBuffer \in [BindingPoints -> {0} \cup DisplayBuffers]
    /\ activeDisplay \in BindingPoints
    /\ dbMini \in Nat

\* Only a name that has a node has memory.
DbInv ==
    /\ DbTypeOK /\ DisplayMemoryOwned
    /\ \A n \in DisplayBuffers : dbAddress[n] # 0 => n \in dbList

\* The buffers but one do not take all the memory there is.
LEMMA MemoryIsLeft ==
    ASSUME DbInv, NEW n \in DisplayBuffers
    PROVE  LET free == Memory \ (dbTaken \ {dbAddress[n]}) IN
           Min(free) \in free
<1> DEFINE kept == dbTaken \ {dbAddress[n]}
           free == Memory \ kept
<1>1. MaxDisplayBuffer \in Nat
  BY DisplayAssumption
<1>2. free # {}
  <2>1. SUFFICES ASSUME free = {} PROVE FALSE
    OBVIOUS
  <2>2. \A a \in Memory : \E m \in DisplayBuffers : dbAddress[m] = a
    BY <2>1 DEF DbInv, DbTypeOK, DisplayMemoryOwned
  <2> DEFINE holder == [a \in Memory |-> CHOOSE m \in DisplayBuffers : dbAddress[m] = a]
  <2>3. holder \in [Memory -> DisplayBuffers] /\ \A a \in Memory : dbAddress[holder[a]] = a
    BY <2>2
  <2>4. /\ IsFiniteSet(Memory) /\ Cardinality(Memory) = MaxDisplayBuffer + 1
        /\ IsFiniteSet(DisplayBuffers) /\ Cardinality(DisplayBuffers) = MaxDisplayBuffer
    BY <1>1, FS_Interval DEF Memory, DisplayBuffers
  <2> HIDE DEF holder
  <2>5. \E a, b \in Memory : a # b /\ holder[a] = holder[b]
    BY <1>1, <2>3, <2>4, FS_PigeonHole
  <2>6. QED
    BY <2>3, <2>5
<1>3. free \in SUBSET Nat
  BY DEF Memory
<1>4. QED
  BY <1>2, <1>3, LeastNat

\* Display buffers start with the invariant, and every call keeps it.
LEMMA DbInitInv == DbInit => DbInv
BY DEF DbInit, DbInv, DbTypeOK, DisplayMemoryOwned, BindingPoints, Displays

(* Each operation on display buffers keeps their invariant. *)
LEMMA DbNextInv == DbInv /\ [DbNext]_dbVars => DbInv'
<1> SUFFICES ASSUME DbInv, [DbNext]_dbVars PROVE DbInv'
  OBVIOUS
<1> USE DEF DbInv, DbTypeOK, DisplayMemoryOwned
<1>1. CASE GenDisplaybuffer
  <2> DEFINE free == {n \in DisplayBuffers \ dbList : n >= dbMini}
  <2>1. free \in SUBSET Nat /\ free # {}
    BY <1>1 DEF GenDisplaybuffer, DisplayBuffers
  <2>2. Min(free) \in free /\ Min(free) \in Nat
    BY <2>1, LeastNat
  <2>3. /\ dbList' = dbList \cup {Min(free)} /\ dbMini' = Min(free) + 1
        /\ UNCHANGED <<dbAddress, dbTaken, currentBuffer, activeDisplay>>
    BY <1>1 DEF GenDisplaybuffer
  <2>4. dbAddress[Min(free)] = 0
    BY <2>2
  <2>5. {dbAddress[n] : n \in dbList'} \ {0} = {dbAddress[n] : n \in dbList} \ {0}
    BY <2>3, <2>4
  <2>6. DbTypeOK' /\ \A n \in DisplayBuffers : dbAddress'[n] # 0 => n \in dbList'
    BY <2>2, <2>3
  <2>7. DisplayMemoryOwned'
    BY <2>3, <2>5
  <2>8. QED
    BY <2>6, <2>7
<1>2. ASSUME NEW n \in DisplayBuffers, DeleteDisplaybuffer(n) PROVE DbInv'
  <2>1. /\ n \in dbList /\ dbList' = dbList \ {n}
        /\ dbTaken' = dbTaken \ {dbAddress[n]}
        /\ dbAddress' = [dbAddress EXCEPT ![n] = 0]
        /\ currentBuffer' = Unbound(n)
        /\ UNCHANGED activeDisplay
    BY <1>2 DEF DeleteDisplaybuffer
  <2>2. dbMini' \in Nat
    <3>1. {dbMini, n} \in SUBSET Nat /\ {dbMini, n} # {}
      BY DEF DisplayBuffers
    <3>2. QED
      BY <1>2, <3>1, LeastNat DEF DeleteDisplaybuffer
  <2>3. DbTypeOK'
    BY <2>1, <2>2 DEF Unbound
  <2>4. dbTaken' = {dbAddress'[m] : m \in dbList'} \ {0}
    BY <2>1
  <2>5. QED
    BY <2>1, <2>3, <2>4 DEF Unbound
<1>3. ASSUME NEW n \in {0} \cup DisplayBuffers, BindDisplaybuffer(n) PROVE DbInv'
  <2>1. /\ dbList' = dbList \cup ({n} \ {0})
        /\ currentBuffer' = [currentBuffer EXCEPT ![activeDisplay] = n]
        /\ UNCHANGED <<dbAddress, dbTaken, activeDisplay, dbMini>>
    BY <1>3 DEF BindDisplaybuffer
  <2>2. {dbAddress[m] : m \in dbList'} \ {0} = {dbAddress[m] : m \in dbList} \ {0}
    BY <2>1
  <2>3. QED
    BY <2>1, <2>2
<1>4. ASSUME NEW p \in BindingPoints, ActiveDisplay(p) PROVE DbInv'
  BY <1>4 DEF ActiveDisplay
<1>5. ASSUME NEW layout \in Layouts, DisplaybufferStorage(layout) PROVE DbInv'
  <2> DEFINE n == currentBuffer[activeDisplay]
             kept == dbTaken \ {dbAddress[n]}
             granted == Min(Memory \ kept)
  <2>1. n \in DisplayBuffers /\ n \in dbList
    BY <1>5 DEF DisplaybufferStorage
  <2>2. granted \in Memory \ kept /\ granted # 0
    BY <2>1, MemoryIsLeft DEF Memory
  <2>3. kept = {dbAddress[m] : m \in dbList \ {n}} \ {0}
    BY <2>1
  <2>4. UNCHANGED <<dbList, currentBuffer, activeDisplay, dbMini>>
    BY <1>5 DEF DisplaybufferStorage
  <2>5. CASE dbAddress' = [dbAddress EXCEPT ![n] = granted] /\ dbTaken' = kept \cup {granted}
    <3> HIDE DEF kept, granted, n
    <3>1. dbTaken' = {dbAddress'[m] : m \in dbList'} \ {0}
      BY <2>1, <2>2, <2>3, <2>4, <2>5
    <3>2. \A m \in DisplayBuffers \ {n} : dbAddress'[m] # 0 => dbAddress'[m] # granted
      BY <2>1, <2>2, <2>3, <2>5
    <3>3. QED
      BY <2>1, <2>2, <2>4, <2>5, <3>1, <3>2
  <2>6. CASE dbAddress' = [dbAddress EXCEPT ![n] = 0] /\ dbTaken' = kept
    <3> HIDE DEF kept, granted, n
    <3>1. dbTaken' = {dbAddress'[m] : m \in dbList'} \ {0}
      BY <2>1, <2>3, <2>4, <2>6
    <3>2. QED
      BY <2>1, <2>4, <2>6, <3>1
  <2>7. QED
    BY <1>5, <2>5, <2>6 DEF DisplaybufferStorage
<1>6. CASE RestartDisplays
  <2>1. /\ dbList' = {} /\ dbAddress' = [n \in DisplayBuffers |-> 0]
        /\ currentBuffer' = [p \in BindingPoints |-> 0]
        /\ activeDisplay' = "DISPLAY0" /\ dbMini' = 1
        /\ dbTaken' = dbTaken \ {dbAddress[n] : n \in dbList}
    BY <1>6 DEF RestartDisplays
  <2>2. dbTaken' = {}
    BY <2>1
  <2>3. QED
    BY <2>1, <2>2 DEF BindingPoints, Displays
<1>7. CASE \/ \E on \in BOOLEAN : SetDisplayMode(on)
           \/ \E d \in Displays : SwapBuffers(d)
           \/ UNCHANGED dbVars
  BY <1>7 DEF SetDisplayMode, SwapBuffers, dbVars
<1>8. QED
  BY <1>1, <1>2, <1>3, <1>4, <1>5, <1>6, <1>7 DEF DbNext

\* The memory of display buffers is theirs, however many there are.
THEOREM DisplayMemoryIsOwned == DbSpec => []DisplayMemoryOwned
<1>1. DbInv => DisplayMemoryOwned
  BY DEF DbInv
<1>2. QED
  BY DbInitInv, DbNextInv, <1>1, PTL DEF DbSpec

------------------------------------------------------------------------------
SurfaceTypeOK ==
    /\ object \in Objects /\ transType \in TransTypes
    /\ pica \in [Faces -> {0, App} \cup Blocks] /\ copy \in [Faces -> {0} \cup Blocks]
    /\ torn \in BOOLEAN /\ misfreed \in BOOLEAN

\* What a face holds by the type of its object; a face the object lacks holds nothing.
Held(f) ==
    /\ transType = "in place" => pica[f] \in {0, App} /\ copy[f] = 0
    /\ transType = "filled" => pica[f] # App /\ copy[f] = 0
    /\ transType = "copied" => pica[f] # App /\ pica[f] = copy[f]
    /\ transType = "copied and filled" =>
         /\ pica[f] # App
         /\ pica[f] = 0 <=> copy[f] = 0
         /\ pica[f] # 0 => pica[f] # copy[f]
    /\ f \notin FacesOf(object) => pica[f] = 0 /\ copy[f] = 0

BlocksOf(f) == {pica[f], copy[f]} \ {0, App}

\* BlocksOwned for the two faces there are.
FacesOwn ==
    ~torn =>
      /\ allocated = BlocksOf(1) \cup BlocksOf(2)
      /\ ~misfreed
      /\ BlocksOf(1) \cap BlocksOf(2) = {}

SurfaceInv ==
    /\ SurfaceTypeOK /\ FacesOwn
    /\ ~torn => Held(1) /\ Held(2)

(* Ownership face by face gives the property of the blocks. *)
LEMMA FacesOwnBlocks == FacesOwn => BlocksOwned
<1> SUFFICES ASSUME FacesOwn, ~torn PROVE BlocksOwned
  BY DEF BlocksOwned
<1>1. ASSUME NEW b
      PROVE  b \in allocated <=> b \in (UNION {{pica[f], copy[f]} : f \in Faces}) \ {0, App}
  <2>1. b \in allocated <=> b \in BlocksOf(1) \/ b \in BlocksOf(2)
    BY DEF FacesOwn
  <2>2. b \in BlocksOf(1) \/ b \in BlocksOf(2) <=> \E f \in Faces : b \in {pica[f], copy[f]} \ {0, App}
    BY DEF Faces, BlocksOf
  <2>3. QED
    BY <2>1, <2>2
<1>2. \A f, e \in Faces : f # e => {pica[f], copy[f]} \cap {pica[e], copy[e]} \subseteq {0, App}
  BY DEF FacesOwn, Faces, BlocksOf
<1>3. allocated = (UNION {{pica[f], copy[f]} : f \in Faces}) \ {0, App}
  BY <1>1
<1>4. QED
  BY <1>2, <1>3 DEF FacesOwn, BlocksOwned

\* A face gives back what it holds, once.
LEMMA FaceGivesBack ==
    ASSUME SurfaceInv, ~torn, NEW f \in Faces
    PROVE  FreedOf(f) = BlocksOf(f) /\ ~Misfrees(f)
<1> USE DEF SurfaceInv, SurfaceTypeOK
<1>1. Held(f) /\ BlocksOf(f) \subseteq allocated
  BY DEF FacesOwn, Faces
<1>2. App \notin Blocks /\ App # 0 /\ 0 \notin Blocks
  BY SurfaceAssumption DEF App, Blocks
<1>3. pica[f] \in {0, App} \cup Blocks /\ copy[f] \in {0} \cup Blocks
  OBVIOUS
<1>4. CASE transType = "in place"
  <2>1. GivenBack(f) = <<>>
    BY <1>4 DEF GivenBack
  <2>2. FreedOf(f) = {} /\ ~Misfrees(f)
    BY <2>1 DEF FreedOf, Misfrees
  <2>3. BlocksOf(f) = {}
    BY <1>1, <1>4 DEF Held, BlocksOf
  <2>4. QED
    BY <2>2, <2>3
<1>5. CASE transType \in {"filled", "copied"}
  <2> DEFINE b == IF transType = "filled" THEN pica[f] ELSE copy[f]
  <2>1. GivenBack(f) = <<b>>
    BY <1>5 DEF GivenBack
  <2>2. BlocksOf(f) = {b} \ {0}
    BY <1>1, <1>2, <1>3, <1>5 DEF Held, BlocksOf
  <2> HIDE DEF b
  <2>3. FreedOf(f) = {b} \ {0}
    BY <2>1 DEF FreedOf
  <2>4. ~Misfrees(f)
    BY <1>1, <2>1, <2>2, <2>3 DEF Misfrees
  <2>5. QED
    BY <2>2, <2>3, <2>4
<1>6. CASE transType = "copied and filled"
  <2>1. GivenBack(f) = <<pica[f], copy[f]>>
    BY <1>6 DEF GivenBack
  <2>2. FreedOf(f) = {pica[f], copy[f]} \ {0}
    BY <2>1 DEF FreedOf
  <2>3. BlocksOf(f) = {pica[f], copy[f]} \ {0}
    BY <1>1, <1>2, <1>3, <1>6 DEF Held, BlocksOf
  <2>4. ~Misfrees(f)
    <3>1. FreedOf(f) \subseteq allocated
      BY <1>1, <2>2, <2>3
    <3>2. DOMAIN GivenBack(f) = {1, 2} /\ GivenBack(f)[1] = pica[f] /\ GivenBack(f)[2] = copy[f]
      BY <2>1
    <3>3. pica[f] # 0 => pica[f] # copy[f]
      BY <1>1, <1>6 DEF Held
    <3>4. QED
      BY <3>1, <3>2, <3>3 DEF Misfrees
  <2>5. QED
    BY <2>2, <2>3, <2>4
<1>7. QED
  BY <1>4, <1>5, <1>6 DEF TransTypes

\* Surfaces start with the invariant, and every load and release keeps it.
LEMMA SurfaceInitInv == SurfaceInit => SurfaceInv
<1> SUFFICES ASSUME SurfaceInit PROVE SurfaceInv
  OBVIOUS
<1> USE DEF SurfaceInit
<1>1. SurfaceTypeOK
  BY DEF SurfaceTypeOK, Objects, TransTypes, Empty
<1>2. Held(1) /\ Held(2) /\ BlocksOf(1) = {} /\ BlocksOf(2) = {}
  BY SurfaceAssumption DEF Held, Empty, Faces, BlocksOf, App
<1>3. QED
  BY <1>1, <1>2 DEF SurfaceInv, FacesOwn

(* Loading, refused or granted, and releasing keep the ownership. *)
LEMMA SurfaceNextInv == SurfaceInv /\ [SurfaceNext]_surfaceVars => SurfaceInv'
<1> SUFFICES ASSUME SurfaceInv, [SurfaceNext]_surfaceVars PROVE SurfaceInv'
  OBVIOUS
<1> USE DEF SurfaceInv, SurfaceTypeOK
<1>0. App \notin Blocks /\ App # 0 /\ 0 \notin Blocks
  BY SurfaceAssumption DEF App, Blocks
<1>1. ASSUME NEW f \in FacesOf(object), NEW d \in Sizes, NEW t \in TransTypes, NEW data \in BOOLEAN,
             LoadAgain(f, d, t, data)
      PROVE  SurfaceInv'
  <2>1. /\ pica[f] # 0 /\ transType = t /\ f \in Faces
        /\ pica' = IF t = "in place" /\ data THEN [pica EXCEPT ![f] = App] ELSE pica
        /\ UNCHANGED <<object, copy, transType, allocated, misfreed, torn>>
    BY <1>1 DEF LoadAgain, Stale, FacesOf, Faces
  <2>2. SurfaceTypeOK'
    BY <2>1
  <2>3. ASSUME ~torn, NEW e \in Faces PROVE Held(e)' /\ BlocksOf(e)' = BlocksOf(e)
    <3>1. Held(e) /\ Held(f)
      BY <2>1, <2>3 DEF Faces
    <3>2. CASE t = "in place" /\ data
      <4>1. pica[f] = App /\ pica' = pica
        BY <2>1, <3>1, <3>2 DEF Held
      <4>2. QED
        BY <2>1, <3>1, <4>1 DEF Held, BlocksOf
    <3>3. CASE ~(t = "in place" /\ data)
      BY <2>1, <3>1, <3>3 DEF Held, BlocksOf
    <3>4. QED
      BY <3>2, <3>3
  <2>4. FacesOwn' /\ (~torn' => Held(1)' /\ Held(2)')
    BY <2>1, <2>3 DEF FacesOwn, Faces
  <2>5. QED
    BY <2>2, <2>4
<1>2. ASSUME NEW f \in FacesOf(object), NEW d \in Sizes, NEW t \in TransTypes, NEW data \in BOOLEAN,
             LoadAnew(f, d, t, data)
      PROVE  SurfaceInv'
  <2> DEFINE kept == allocated \ (IF pica[f] = 0 THEN {} ELSE FreedOf(f))
  <2>1. PICK g \in Answers(t, Blocks \ kept) :
             /\ copy' = [copy EXCEPT ![f] = g.copy]
             /\ IF Refused(t, g)
                THEN /\ pica' = [pica EXCEPT ![f] = g.pica]
                     /\ allocated' = kept
                     /\ transType' = IF object = "buffer" THEN t ELSE transType
                     /\ torn' = (torn \/ g.pica # 0 \/ g.copy # 0)
                ELSE /\ pica' = [pica EXCEPT ![f] =
                          CASE t = "in place" -> IF data THEN App ELSE 0
                            [] t = "copied" -> g.copy
                            [] OTHER -> g.pica]
                     /\ allocated' = kept \cup ({g.pica, g.copy} \ {0})
                     /\ transType' = t
                     /\ torn' = (torn \/ Mixes(f, t))
    BY <1>2 DEF LoadAnew
  <2>2. /\ f \in Faces /\ object' = object
        /\ misfreed' = (misfreed \/ (pica[f] # 0 /\ Misfrees(f)))
    BY <1>2 DEF LoadAnew, FacesOf, Faces
  <2>3. /\ g.pica \in (Blocks \ kept) \cup {0} /\ g.copy \in (Blocks \ kept) \cup {0}
        /\ g.pica # 0 => FillsBlock(t)
        /\ g.copy # 0 => Copies(t) /\ g.copy # g.pica
    BY DEF Answers, Lowest
  <2> DEFINE loaded == CASE t = "in place" -> IF data THEN App ELSE 0
                         [] t = "copied" -> g.copy
                         [] OTHER -> g.pica
             held == IF Refused(t, g) THEN g.pica ELSE loaded
  <2>4. /\ pica' = [pica EXCEPT ![f] = held]
        /\ held \in {0, App} \cup Blocks
        /\ transType' \in TransTypes /\ torn' \in BOOLEAN
    BY <2>1, <2>3 DEF TransTypes
  <2>5. SurfaceTypeOK'
    BY <2>1, <2>2, <2>3, <2>4 DEF Misfrees
  <2>6. CASE torn'
    BY <2>5, <2>6 DEF FacesOwn
  <2>7. CASE ~torn'
    <3>0. PICK e \in Faces : e # f
      BY DEF Faces
    <3>1. ~torn /\ Held(e) /\ Held(f) /\ Faces = {e, f}
      <4>1. ~torn
        BY <2>1, <2>7
      <4>2. Faces = {e, f}
        BY <2>2, <3>0 DEF Faces
      <4>3. QED
        BY <2>2, <4>1, <4>2 DEF Faces
    <3>2. ~misfreed /\ ~misfreed'
      BY <2>2, <3>1, FaceGivesBack DEF FacesOwn
    <3>3. kept = BlocksOf(e)
      <4>1. pica[f] = 0 => BlocksOf(f) = {}
        BY <3>1 DEF Held, BlocksOf, TransTypes
      <4>2. FreedOf(f) = BlocksOf(f)
        BY <2>2, <3>1, FaceGivesBack
      <4>3. allocated = BlocksOf(e) \cup BlocksOf(f) /\ BlocksOf(e) \cap BlocksOf(f) = {}
        BY <2>2, <3>0, <3>1 DEF FacesOwn, Faces
      <4>4. QED
        BY <4>1, <4>2, <4>3
    <3> HIDE DEF kept
    <3>4. pica'[e] = pica[e] /\ copy'[e] = copy[e] /\ pica'[f] = held /\ copy'[f] = g.copy
      BY <2>1, <2>2, <2>4, <3>0
    <3>5. BlocksOf(e)' = BlocksOf(e)
      BY <3>4 DEF BlocksOf
    <3>6. /\ BlocksOf(f)' = {g.pica, g.copy} \ {0}
          /\ allocated' = kept \cup ({g.pica, g.copy} \ {0})
          /\ Held(f)'
      <4>1. CASE Refused(t, g)
        <5>1. g.pica = 0 /\ g.copy = 0
          BY <2>1, <2>7, <4>1
        <5>2. BlocksOf(f)' = {} /\ held = 0
          BY <3>4, <4>1, <5>1 DEF BlocksOf
        <5>3. Held(f)'
          BY <1>0, <3>4, <5>1, <5>2 DEF Held
        <5>4. QED
          BY <2>1, <4>1, <5>1, <5>2, <5>3
      <4>2. CASE ~Refused(t, g)
        <5>1. /\ transType' = t
              /\ allocated' = kept \cup ({g.pica, g.copy} \ {0})
              /\ held = loaded
          BY <2>1, <4>2
        <5>2. /\ t \in {"filled", "copied and filled"} <=> g.pica # 0
              /\ t \in {"copied", "copied and filled"} <=> g.copy # 0
          BY <2>3, <4>2 DEF Refused, FillsBlock, Copies
        <5>3. /\ t = "in place" => held \in {0, App} /\ g.pica = 0 /\ g.copy = 0
              /\ t = "filled" => held = g.pica /\ g.copy = 0
              /\ t = "copied" => held = g.copy /\ g.pica = 0
              /\ t = "copied and filled" => held = g.pica /\ g.copy # g.pica
          BY <2>3, <5>1, <5>2
        <5> HIDE DEF held, loaded
        <5>4. Held(f)'
          BY <1>0, <1>2, <2>2, <2>3, <3>4, <5>1, <5>2, <5>3 DEF Held
        <5>5. BlocksOf(f)' = {g.pica, g.copy} \ {0}
          BY <1>0, <2>3, <3>4, <5>2, <5>3 DEF BlocksOf, TransTypes
        <5>6. QED
          BY <5>1, <5>4, <5>5
      <4>3. QED
        BY <4>1, <4>2
    <3>7. BlocksOf(e)' \cap BlocksOf(f)' = {} /\ allocated' = BlocksOf(e)' \cup BlocksOf(f)'
      BY <2>3, <3>3, <3>5, <3>6
    <3>8. FacesOwn'
      BY <2>2, <3>0, <3>1, <3>2, <3>7 DEF FacesOwn, Faces
    <3>9. Held(e)'
      <4>1. CASE transType' = transType
        BY <2>2, <3>1, <3>4, <4>1 DEF Held
      <4>2. CASE transType' # transType
        <5>1. pica[e] = 0
          <6>1. (transType' = t /\ ~Mixes(f, t)) \/ object = "buffer"
            BY <2>1, <2>7, <4>2
          <6>2. e \in FacesOf(object) \ {f} => object # "buffer"
            BY <1>2, <3>0 DEF FacesOf, Faces
          <6>3. t # transType
            BY <2>1, <4>2
          <6>4. e \notin FacesOf(object) => pica[e] = 0
            BY <3>1 DEF Held
          <6>5. QED
            BY <3>0, <6>1, <6>2, <6>3, <6>4 DEF Mixes
        <5>2. copy[e] = 0
          BY <3>1, <5>1 DEF Held, TransTypes
        <5>3. QED
          BY <1>0, <3>4, <5>1, <5>2 DEF Held
      <4>3. QED
        BY <4>1, <4>2
    <3>10. QED
      BY <2>2, <2>5, <3>1, <3>6, <3>8, <3>9 DEF Faces
  <2>8. QED
    BY <2>6, <2>7
<1>3. CASE Release
  <2>1. /\ misfreed' = (misfreed \/ \E f \in Faces : Misfrees(f))
        /\ allocated' = allocated \ UNION {FreedOf(f) : f \in Faces}
        /\ object' \in Objects /\ pica' = Empty /\ copy' = Empty
        /\ transType' = "in place" /\ torn' = torn
    BY <1>3 DEF Release
  <2>2. SurfaceTypeOK'
    BY <2>1 DEF Empty, TransTypes, Misfrees
  <2>3. Held(1)' /\ Held(2)' /\ BlocksOf(1)' = {} /\ BlocksOf(2)' = {}
    BY <2>1 DEF Held, Empty, Faces, BlocksOf
  <2>4. ASSUME ~torn PROVE ~misfreed' /\ allocated' = {}
    <3>1. \A f \in Faces : FreedOf(f) = BlocksOf(f) /\ ~Misfrees(f)
      BY <2>4, FaceGivesBack
    <3>2. allocated = BlocksOf(1) \cup BlocksOf(2) /\ ~misfreed
      BY <2>4 DEF FacesOwn
    <3>3. UNION {FreedOf(f) : f \in Faces} = FreedOf(1) \cup FreedOf(2)
      BY DEF Faces
    <3>4. FreedOf(1) = BlocksOf(1) /\ FreedOf(2) = BlocksOf(2)
      BY <3>1 DEF Faces
    <3>5. QED
      BY <2>1, <3>1, <3>2, <3>3, <3>4
  <2>5. FacesOwn'
    BY <2>1, <2>3, <2>4 DEF FacesOwn
  <2>6. QED
    BY <2>2, <2>3, <2>5
<1>4. CASE UNCHANGED surfaceVars
  BY <1>4 DEF surfaceVars, FacesOwn, Held, BlocksOf
<1>5. QED
  BY <1>1, <1>2, <1>3, <1>4 DEF SurfaceNext

\* Blocks are owned by the faces that hold them, however many the allocator has.
THEOREM BlocksAreOwned == SurfaceSpec => []BlocksOwned
<1>1. SurfaceInv => BlocksOwned
  BY FacesOwnBlocks DEF SurfaceInv
<1>2. QED
  BY SurfaceInitInv, SurfaceNextInv, <1>1, PTL DEF SurfaceSpec

------------------------------------------------------------------------------
Kinds == {"absent", "named", "BUF", "COLL"}
Names == 0 .. MaxBuffer
Uses == [Points -> [id : Names, deleted : BOOLEAN]]

VbTypeOK ==
    /\ bufKind \in [Buffers -> Kinds]
    /\ vertState \in Uses
    /\ vertNode \in [Points -> -1 .. MaxBuffer]
    /\ savedVert \in [Names -> Uses]
    /\ vertColl \in Names /\ deleteVertColl \in {0, vertColl}
    /\ bufMini \in Nat

\* One point's name and node, as BuffersLive has it of all.
LiveAt(kinds, use, node) ==
    IF use.id = 0 THEN node = 0
    ELSE IF use.deleted THEN node = 0 \/ (node = use.id /\ kinds[use.id] # "absent")
    ELSE node = use.id /\ kinds[use.id] = "BUF"

AllLive(kinds, state, node) == \A p \in Points : LiveAt(kinds, state[p], node[p])

\* What collections have saved, but for the one that is bound.
AllKept(kinds, saved, bound) ==
    /\ \A c \in Buffers : saved[c] # NoState => kinds[c] = "COLL"
    /\ \A c \in Names \ {bound}, p \in Points :
         saved[c][p].id # 0 /\ ~saved[c][p].deleted => kinds[saved[c][p].id] = "BUF"

VbInv ==
    /\ VbTypeOK
    /\ AllLive(bufKind, vertState, vertNode)
    /\ AllKept(bufKind, savedVert, vertColl)
    /\ vertColl # 0 => bufKind[vertColl] = "COLL"
    /\ \A n \in Buffers : n < bufMini => bufKind[n] # "absent"

(* The pointers of an attribute are among those of the state. *)
LEMMA PointsOfState ==
    /\ {"array", "element"} \subseteq Points /\ Attributes \subseteq Points
    /\ "array" \notin Attributes /\ "element" \notin Attributes
    /\ MaxBuffer \in Nat /\ NoState \in Uses
    /\ Collectable \subseteq Names
BY BufferAssumption DEF Points, NoState, Nothing, Uses, Names

\* Collections are kept as long as what they name is.
LEMMA KeptStays ==
    ASSUME NEW kinds, NEW later, NEW saved \in [Names -> Uses], NEW bound \in Names,
           \A m \in Buffers : kinds[m] \in {"BUF", "COLL"} => later[m] = kinds[m],
           AllKept(kinds, saved, bound)
    PROVE  AllKept(later, saved, bound)
<1>1. ASSUME NEW c \in Names \ {bound}, NEW p \in Points,
             saved[c][p].id # 0, ~saved[c][p].deleted
      PROVE  later[saved[c][p].id] = "BUF"
  <2>1. kinds[saved[c][p].id] = "BUF"
    BY <1>1 DEF AllKept
  <2>2. saved[c][p] \in [id : Names, deleted : BOOLEAN]
    BY DEF Uses
  <2>3. saved[c][p].id \in Buffers
    BY <1>1, <2>2 DEF Names, Buffers
  <2>4. QED
    BY <2>1, <2>3
<1>2. QED
  BY <1>1 DEF AllKept

\* A deletion leaves points and collections with what lives, whatever is deleted
\* and whichever state it is deleted from.
LEMMA DeleteKeeps ==
    ASSUME NEW kinds \in [Buffers -> Kinds], NEW state \in Uses,
           NEW node \in [Points -> -1 .. MaxBuffer], NEW saved \in [Names -> Uses],
           NEW bound \in Names, NEW n \in Buffers, kinds[n] # "absent",
           AllLive(kinds, state, node), AllKept(kinds, saved, bound)
    PROVE  LET left == [kinds EXCEPT ![n] = "absent"] IN
           /\ left \in [Buffers -> Kinds]
           /\ LetGo(state, n) \in Uses
           /\ Forgotten(state, node, n) \in [Points -> -1 .. MaxBuffer]
           /\ Outlived(saved, n) \in [Names -> Uses]
           /\ AllLive(left, LetGo(state, n), Forgotten(state, node, n))
           /\ AllKept(left, Outlived(saved, n), bound)
<1> DEFINE left == [kinds EXCEPT ![n] = "absent"]
<1> USE PointsOfState
<1>1. n \in Names /\ n # 0 /\ Names \subseteq Nat /\ Buffers = Names \ {0}
  BY DEF Buffers, Names
<1>2. left \in [Buffers -> Kinds] /\ \A m \in Buffers : left[m] = IF m = n THEN "absent" ELSE kinds[m]
  BY DEF Kinds
<1>3. \A p \in Points :
         /\ state[p] \in [id : Names, deleted : BOOLEAN] /\ node[p] \in -1 .. MaxBuffer
         /\ LetGo(state, n)[p] = IF state[p].id # n THEN state[p]
                                 ELSE IF p \in Attributes THEN [id |-> n, deleted |-> TRUE] ELSE Nothing
         /\ Forgotten(state, node, n)[p] = CASE state[p].id = n -> 0
                                             [] state[p].id # n /\ node[p] = n -> -1
                                             [] OTHER -> node[p]
  BY DEF LetGo, Forgotten, Uses
<1>4. LetGo(state, n) \in Uses
  BY <1>1, <1>3 DEF LetGo, Uses, Nothing, Names
<1>5. Forgotten(state, node, n) \in [Points -> -1 .. MaxBuffer]
  BY <1>3 DEF Forgotten
<1>6. ASSUME NEW p \in Points PROVE LiveAt(left, LetGo(state, n)[p], Forgotten(state, node, n)[p])
  <2>1. LiveAt(kinds, state[p], node[p])
    BY DEF AllLive
  <2>2. CASE state[p].id = n
    BY <1>1, <1>3, <2>2 DEF LiveAt, Nothing
  <2>3. CASE state[p].id # n
    <3>1. node[p] # n
      BY <1>1, <2>1, <2>3 DEF LiveAt
    <3>2. LetGo(state, n)[p] = state[p] /\ Forgotten(state, node, n)[p] = node[p]
      BY <1>3, <2>3, <3>1
    <3>3. state[p].id # 0 => left[state[p].id] = kinds[state[p].id]
      BY <1>1, <1>2, <1>3, <2>3
    <3>4. QED
      BY <2>1, <3>2, <3>3 DEF LiveAt
  <2>4. QED
    BY <2>2, <2>3
<1>7. ASSUME NEW c \in Names
      PROVE  /\ Outlived(saved, n)[c] \in Uses
             /\ \A p \in Points : Outlived(saved, n)[c][p] =
                  IF c = n THEN Nothing
                  ELSE IF saved[c][p].id = n THEN [id |-> n, deleted |-> TRUE] ELSE saved[c][p]
  <2>1. Outlived(saved, n)[c] = IF c = n THEN NoState ELSE
          [p \in Points |-> IF saved[c][p].id = n THEN [id |-> n, deleted |-> TRUE] ELSE saved[c][p]]
    BY DEF Outlived, Names
  <2>2. saved[c] \in [Points -> [id : Names, deleted : BOOLEAN]]
    BY DEF Uses
  <2>3. CASE c = n
    BY <2>1, <2>3 DEF NoState
  <2>4. CASE c # n
    BY <1>1, <2>1, <2>2, <2>4 DEF Uses
  <2>5. QED
    BY <2>3, <2>4
<1>8. Outlived(saved, n) \in [Names -> Uses]
  BY <1>7 DEF Outlived, Names
<1>9. ASSUME NEW c \in Buffers, Outlived(saved, n)[c] # NoState PROVE left[c] = "COLL"
  <2>1. c # n
    BY <1>9 DEF Outlived, Names, Buffers
  <2>2. ASSUME saved[c] = NoState PROVE FALSE
    <3>1. \A p \in Points : saved[c][p].id = 0
      BY <2>2 DEF NoState, Nothing
    <3>2. Outlived(saved, n)[c] = [p \in Points |-> saved[c][p]]
      BY <1>1, <2>1, <3>1 DEF Outlived, Names
    <3>3. QED
      BY <1>9, <2>2, <3>2 DEF NoState
  <2>3. QED
    BY <1>2, <2>1, <2>2 DEF AllKept
<1>10. ASSUME NEW c \in Names \ {bound}, NEW p \in Points,
              Outlived(saved, n)[c][p].id # 0, ~Outlived(saved, n)[c][p].deleted
       PROVE  left[Outlived(saved, n)[c][p].id] = "BUF"
  <2>1. c # n /\ Outlived(saved, n)[c][p] = saved[c][p] /\ saved[c][p].id # n
    BY <1>7, <1>10 DEF Nothing
  <2>2. kinds[saved[c][p].id] = "BUF" /\ saved[c][p].id \in Buffers
    BY <1>1, <1>10, <2>1 DEF AllKept, Uses
  <2>3. QED
    BY <1>2, <2>1, <2>2
<1>11. AllLive(left, LetGo(state, n), Forgotten(state, node, n))
  BY <1>6 DEF AllLive
<1>12. AllKept(left, Outlived(saved, n), bound)
  BY <1>9, <1>10 DEF AllKept
<1>13. QED
  BY <1>2, <1>4, <1>5, <1>8, <1>11, <1>12

\* Vertex buffers start with the invariant, and every call keeps it.
LEMMA VbInitInv == VbInit => VbInv
<1> SUFFICES ASSUME VbInit PROVE VbInv
  OBVIOUS
<1> USE PointsOfState DEF VbInit
<1>1. \A p \in Points : NoState[p].id = 0
  BY DEF NoState, Nothing
<1>2. VbTypeOK
  BY DEF VbTypeOK, Kinds, Names
<1>3. AllLive(bufKind, vertState, vertNode)
  BY <1>1 DEF AllLive, LiveAt
<1>4. AllKept(bufKind, savedVert, vertColl)
  BY <1>1 DEF AllKept, Names, Buffers
<1>5. QED
  BY <1>2, <1>3, <1>4 DEF VbInv, Buffers

(* Each operation on vertex buffers keeps their invariant. *)
LEMMA VbNextInv == VbInv /\ [VbNext]_vbVars => VbInv'
<1> SUFFICES ASSUME VbInv, [VbNext]_vbVars PROVE VbInv'
  OBVIOUS
<1> USE PointsOfState DEF VbInv, VbTypeOK
<1>0. Buffers = Names \ {0} /\ Names \subseteq Nat /\ Buffers \subseteq Nat
  BY DEF Buffers, Names
<1>1. CASE GenBuffer
  <2> DEFINE unused == {n \in Buffers : n >= bufMini /\ bufKind[n] = "absent"}
  <2>1. unused \in SUBSET Nat /\ unused # {}
    BY <1>0, <1>1 DEF GenBuffer
  <2>2. Min(unused) \in unused /\ \A n \in unused : Min(unused) <= n
    BY <2>1, LeastNat
  <2> DEFINE m == Min(unused)
  <2>3. /\ bufKind' = [bufKind EXCEPT ![m] = "named"] /\ bufMini' = m + 1
        /\ UNCHANGED <<vertState, vertNode, savedVert, vertColl, deleteVertColl>>
    BY <1>1 DEF GenBuffer
  <2>4. m \in Buffers /\ m >= bufMini /\ bufKind[m] = "absent" /\ \A n \in unused : m <= n
    BY <2>2
  <2> HIDE DEF m
  <2>5. \A n \in Buffers : n < m + 1 => bufKind'[n] # "absent"
    BY <1>0, <2>3, <2>4
  <2>6. VbTypeOK'
    BY <1>0, <2>3, <2>4 DEF Kinds
  <2>7. \A n \in Buffers : bufKind[n] # "absent" => bufKind'[n] = bufKind[n]
    BY <2>3, <2>4
  <2>8. AllLive(bufKind, vertState, vertNode)'
    <3>1. ASSUME NEW p \in Points PROVE LiveAt(bufKind, vertState[p], vertNode[p])'
      <4>1. LiveAt(bufKind, vertState[p], vertNode[p]) /\ vertState[p].id \in Names
        BY DEF AllLive, Uses
      <4>2. QED
        BY <1>0, <2>3, <2>7, <4>1 DEF LiveAt
    <3>2. QED
      BY <3>1 DEF AllLive
  <2>9. AllKept(bufKind, savedVert, vertColl)'
    <3>1. AllKept(bufKind', savedVert, vertColl)
      BY <2>7, KeptStays
    <3>2. QED
      BY <2>3, <3>1
  <2>10. QED
    BY <1>0, <2>3, <2>5, <2>6, <2>7, <2>8, <2>9
<1>2. ASSUME NEW q \in {"array", "element"}, NEW n \in 0 .. MaxBuffer, BindBuffer(q, n) PROVE VbInv'
  <2>1. /\ bufKind' = BindTo(n, "BUF")
        /\ vertState' = [vertState EXCEPT ![q] = [id |-> n, deleted |-> FALSE]]
        /\ vertNode' = [vertNode EXCEPT ![q] = n]
        /\ UNCHANGED <<savedVert, vertColl, deleteVertColl, bufMini>>
        /\ n \in Names /\ q \in Points
        /\ n \in Buffers => bufKind[n] \in {"absent", "named", "BUF"}
    BY <1>2 DEF BindBuffer, Usable, Names
  <2>2. \A m \in Buffers : bufKind'[m] = IF m = n THEN "BUF" ELSE bufKind[m]
    BY <2>1 DEF BindTo
  <2>3. VbTypeOK'
    <3>1. bufKind' \in [Buffers -> Kinds]
      BY <2>1 DEF BindTo, Kinds
    <3>2. [id |-> n, deleted |-> FALSE] \in [id : Names, deleted : BOOLEAN]
      BY <2>1
    <3>3. vertState' \in Uses
      BY <2>1, <3>2 DEF Uses
    <3>4. vertNode' \in [Points -> -1 .. MaxBuffer]
      BY <2>1 DEF Names
    <3>5. QED
      BY <2>1, <3>1, <3>3, <3>4
  <2>4. AllLive(bufKind, vertState, vertNode)'
    <3>1. ASSUME NEW p \in Points PROVE LiveAt(bufKind, vertState[p], vertNode[p])'
      <4>1. LiveAt(bufKind, vertState[p], vertNode[p]) /\ vertState[p].id \in Names
        BY DEF AllLive, Uses
      <4>2. CASE p = q
        BY <1>0, <2>1, <2>2, <4>2 DEF LiveAt, Uses
      <4>3. CASE p # q
        BY <1>0, <2>1, <2>2, <4>1, <4>3 DEF LiveAt, Uses
      <4>4. QED
        BY <4>2, <4>3
    <3>2. QED
      BY <3>1 DEF AllLive
  <2>5. AllKept(bufKind, savedVert, vertColl)'
    <3>1. AllKept(bufKind', savedVert, vertColl)
      BY <2>1, <2>2, KeptStays
    <3>2. QED
      BY <2>1, <3>1
  <2>6. QED
    BY <1>0, <2>1, <2>2, <2>3, <2>4, <2>5
<1>3. ASSUME NEW a \in Attributes, AttribPointer(a) PROVE VbInv'
  <2>1. /\ vertState' = [vertState EXCEPT ![a] = vertState["array"]]
        /\ vertNode' = [vertNode EXCEPT ![a] = vertNode["array"]]
        /\ UNCHANGED <<bufKind, savedVert, vertColl, deleteVertColl, bufMini>>
        /\ a \in Points /\ "array" \in Points
    BY <1>3 DEF AttribPointer
  <2>2. VbTypeOK'
    BY <2>1 DEF Uses
  <2>3. AllLive(bufKind, vertState, vertNode)'
    <3>1. ASSUME NEW p \in Points PROVE LiveAt(bufKind, vertState[p], vertNode[p])'
      <4>1. LiveAt(bufKind, vertState[p], vertNode[p]) /\ LiveAt(bufKind, vertState["array"], vertNode["array"])
        BY DEF AllLive
      <4>2. QED
        BY <2>1, <4>1 DEF LiveAt, Uses
    <3>2. QED
      BY <3>1 DEF AllLive
  <2>4. QED
    BY <2>1, <2>2, <2>3 DEF AllKept
<1>4. ASSUME NEW n \in Buffers, DeleteBuffer(n) PROVE VbInv'
  <2>1. /\ bufKind[n] # "absent" /\ n # vertColl
        /\ bufKind' = [bufKind EXCEPT ![n] = "absent"]
        /\ vertState' = LetGo(vertState, n)
        /\ vertNode' = Forgotten(vertState, vertNode, n)
        /\ savedVert' = Outlived(savedVert, n)
        /\ bufMini' = Min({bufMini, n})
        /\ UNCHANGED <<vertColl, deleteVertColl>>
    BY <1>4 DEF DeleteBuffer, Delete
  <2>2. /\ bufKind' \in [Buffers -> Kinds] /\ vertState' \in Uses
        /\ vertNode' \in [Points -> -1 .. MaxBuffer] /\ savedVert' \in [Names -> Uses]
        /\ AllLive(bufKind, vertState, vertNode)'
        /\ AllKept(bufKind, savedVert, vertColl)'
    <3>1. AllLive([bufKind EXCEPT ![n] = "absent"], LetGo(vertState, n), Forgotten(vertState, vertNode, n))
      BY <2>1, DeleteKeeps
    <3>2. AllKept([bufKind EXCEPT ![n] = "absent"], Outlived(savedVert, n), vertColl)
      BY <2>1, DeleteKeeps
    <3>3. /\ LetGo(vertState, n) \in Uses
          /\ Forgotten(vertState, vertNode, n) \in [Points -> -1 .. MaxBuffer]
          /\ Outlived(savedVert, n) \in [Names -> Uses]
          /\ [bufKind EXCEPT ![n] = "absent"] \in [Buffers -> Kinds]
      BY <2>1, DeleteKeeps
    <3>4. QED
      BY <2>1, <3>1, <3>2, <3>3
  <2>3. bufMini' \in Nat /\ bufMini' <= bufMini /\ bufMini' <= n
    <3>1. {bufMini, n} \in SUBSET Nat /\ {bufMini, n} # {}
      BY <1>0
    <3>2. QED
      BY <1>0, <2>1, <3>1, LeastNat
  <2>4. \A m \in Buffers : m < bufMini' => bufKind'[m] # "absent"
    BY <1>0, <2>1, <2>3
  <2>5. vertColl' # 0 => bufKind'[vertColl'] = "COLL"
    BY <1>0, <2>1
  <2>6. QED
    BY <2>1, <2>2, <2>3, <2>4, <2>5
<1>5. CASE DeferVertexState
  BY <1>5 DEF DeferVertexState, AllLive, AllKept, LiveAt
<1>6. ASSUME NEW c \in {0} \cup Collectable, BindVertexState(c) PROVE VbInv'
  <2> DEFINE kinds == BindTo(c, "COLL")
             saved == [savedVert EXCEPT ![vertColl] = vertState, ![c] = NoState]
             state == savedVert[c]
             node == [p \in Points |-> LET n == state[p].id
                                       IN IF n = 0 THEN 0 ELSE IF kinds[n] = "absent" THEN 0 ELSE n]
  <2>1. /\ c \in Names /\ c # vertColl /\ vertColl' = c /\ deleteVertColl' = 0
        /\ c \in Buffers => bufKind[c] \in {"absent", "named", "COLL"}
        /\ IF deleteVertColl # 0 THEN Delete(kinds, state, node, saved, deleteVertColl)
           ELSE /\ bufKind' = kinds /\ vertState' = state /\ vertNode' = node /\ savedVert' = saved
                /\ UNCHANGED bufMini
    BY <1>6 DEF BindVertexState, Usable, Names
  <2>2. \A m \in Buffers : kinds[m] = IF m = c THEN "COLL" ELSE bufKind[m]
    BY DEF BindTo
  <2>3. kinds \in [Buffers -> Kinds]
    BY DEF BindTo, Kinds
  <2>4. saved \in [Names -> Uses] /\ state \in Uses
    BY <2>1
  <2>5. \A p \in Points : state[p].id \in Names
    BY <2>4 DEF Uses
  <2> HIDE DEF kinds
  <2>6. node \in [Points -> -1 .. MaxBuffer]
    BY <2>5 DEF Names
  <2>7. AllLive(kinds, state, node)
    <3>1. ASSUME NEW p \in Points PROVE LiveAt(kinds, state[p], node[p])
      <4>1. state[p].id # 0 /\ ~state[p].deleted => bufKind[state[p].id] = "BUF"
        BY <2>1 DEF AllKept
      <4>2. state[p].id # 0 /\ ~state[p].deleted => kinds[state[p].id] = "BUF"
        BY <1>0, <2>1, <2>2, <2>5, <4>1
      <4>3. node[p] = IF state[p].id = 0 THEN 0
                      ELSE IF kinds[state[p].id] = "absent" THEN 0 ELSE state[p].id
        OBVIOUS
      <4> HIDE DEF node, state
      <4>4. QED
        BY <4>2, <4>3 DEF LiveAt
    <3>2. QED
      BY <3>1 DEF AllLive
  <2>8. AllKept(kinds, saved, c)
    <3>1. ASSUME NEW d \in Buffers, saved[d] # NoState PROVE kinds[d] = "COLL"
      <4>1. CASE d = c
        BY <2>2, <4>1
      <4>2. CASE d # c /\ d = vertColl
        BY <1>0, <2>2, <4>2
      <4>3. CASE d # c /\ d # vertColl
        <5>1. saved[d] = savedVert[d]
          BY <1>0, <4>3
        <5>2. QED
          BY <2>2, <3>1, <4>3, <5>1 DEF AllKept
      <4>4. QED
        BY <4>1, <4>2, <4>3
    <3>2. ASSUME NEW d \in Names \ {c}, NEW p \in Points,
                 saved[d][p].id # 0, ~saved[d][p].deleted
          PROVE  kinds[saved[d][p].id] = "BUF"
      <4>1. saved[d] = IF d = vertColl THEN vertState ELSE savedVert[d]
        BY <2>1, <3>2
      <4>2. bufKind[saved[d][p].id] = "BUF"
        <5>1. CASE d = vertColl
          BY <3>2, <4>1, <5>1 DEF AllLive, LiveAt
        <5>2. CASE d # vertColl
          BY <3>2, <4>1, <5>2 DEF AllKept
        <5>3. QED
          BY <5>1, <5>2
      <4>3. saved[d][p].id \in Buffers
        BY <1>0, <2>4, <3>2 DEF Uses
      <4>4. QED
        BY <2>1, <2>2, <4>2, <4>3
    <3>3. QED
      BY <3>1, <3>2 DEF AllKept
  <2>9. c # 0 => kinds[c] = "COLL"
    BY <1>0, <2>1, <2>2
  <2>10. \A m \in Buffers : m < bufMini => kinds[m] # "absent"
    BY <2>2
  <2>11. CASE deleteVertColl = 0
    BY <2>1, <2>3, <2>4, <2>6, <2>7, <2>8, <2>9, <2>10, <2>11
  <2>12. CASE deleteVertColl # 0
    <3> DEFINE d == deleteVertColl
    <3>1. d \in Buffers /\ d = vertColl /\ d # c /\ kinds[d] # "absent"
      BY <1>0, <2>1, <2>2, <2>12
    <3> HIDE DEF node, state, saved, d
    <3>2. /\ bufKind' = [kinds EXCEPT ![d] = "absent"]
          /\ vertState' = LetGo(state, d)
          /\ vertNode' = Forgotten(state, node, d)
          /\ savedVert' = Outlived(saved, d)
          /\ bufMini' = Min({bufMini, d})
      BY <2>1, <2>12 DEF Delete, d
    <3>3. AllLive([kinds EXCEPT ![d] = "absent"], LetGo(state, d), Forgotten(state, node, d))
      BY <2>1, <2>3, <2>4, <2>6, <2>7, <2>8, <3>1, DeleteKeeps
    <3>4. AllKept([kinds EXCEPT ![d] = "absent"], Outlived(saved, d), c)
      BY <2>1, <2>3, <2>4, <2>6, <2>7, <2>8, <3>1, DeleteKeeps
    <3>5. /\ LetGo(state, d) \in Uses
          /\ Forgotten(state, node, d) \in [Points -> -1 .. MaxBuffer]
          /\ Outlived(saved, d) \in [Names -> Uses]
      <4>1. LetGo(state, d) \in Uses
        BY <2>1, <2>3, <2>4, <2>6, <2>7, <2>8, <3>1, DeleteKeeps
      <4>2. Forgotten(state, node, d) \in [Points -> -1 .. MaxBuffer]
        BY <2>6 DEF Forgotten
      <4>3. Outlived(saved, d) \in [Names -> Uses]
        BY <2>1, <2>3, <2>4, <2>6, <2>7, <2>8, <3>1, DeleteKeeps
      <4>4. QED
        BY <4>1, <4>2, <4>3
    <3>12. [kinds EXCEPT ![d] = "absent"] \in [Buffers -> Kinds]
      BY <2>3 DEF Kinds
    <3>6. bufMini' \in Nat /\ bufMini' <= bufMini /\ bufMini' <= d
      <4>1. {bufMini, d} \in SUBSET Nat /\ {bufMini, d} # {}
        BY <1>0, <3>1
      <4>2. QED
        BY <1>0, <3>1, <3>2, <4>1, LeastNat
    <3>7. \A m \in Buffers : m < bufMini' => bufKind'[m] # "absent"
      BY <1>0, <2>3, <2>10, <3>1, <3>2, <3>6
    <3>8. c # 0 => bufKind'[c] = "COLL"
      BY <1>0, <2>1, <2>3, <2>9, <3>1, <3>2
    <3>9. VbTypeOK'
      BY <2>1, <3>2, <3>5, <3>6, <3>12
    <3>10. AllLive(bufKind, vertState, vertNode)' /\ AllKept(bufKind, savedVert, vertColl)'
      BY <2>1, <3>2, <3>3, <3>4
    <3>11. QED
      BY <2>1, <3>7, <3>8, <3>9, <3>10
  <2>13. QED
    BY <2>11, <2>12
<1>7. CASE RestartBuffers
  <2>1. VbInit'
    BY <1>7 DEF RestartBuffers, VbInit
  <2>2. QED
    BY <2>1, VbInitInv, PTL
<1>8. CASE UNCHANGED vbVars
  BY <1>8 DEF vbVars, AllLive, AllKept, LiveAt
<1>9. QED
  BY <1>1, <1>2, <1>3, <1>4, <1>5, <1>6, <1>7, <1>8 DEF VbNext

(* The invariant gives the property that the run checks. *)
LEMMA VbInvIsSound == VbInv => BuffersSound
<1> SUFFICES ASSUME VbInv PROVE BuffersSound
  OBVIOUS
<1> USE DEF VbInv, VbTypeOK
<1>1. BuffersLive
  BY DEF BuffersLive, AllLive, LiveAt
<1>2. VertexCollectionsKept
  BY DEF VertexCollectionsKept, AllKept, Buffers, Names
<1>3. QED
  BY <1>1, <1>2 DEF BuffersSound

\* Every use of a vertex buffer is of a live one, however many names there are.
THEOREM BuffersAreSound == VbSpec => []BuffersSound
BY VbInitInv, VbNextInv, VbInvIsSound, PTL DEF VbSpec

------------------------------------------------------------------------------
TexKinds == {"absent", "named", "2D", "CUBE", "LUT", "COLL"}
TexNames == 0 .. MaxTexture

TexTypeOK ==
    /\ usedSlots \in SUBSET Slots
    /\ texKind \in [Textures -> TexKinds]
    /\ record \in [TexNames -> [Slots -> TexNames]]
    /\ boundTex \in [Slots -> TexNames]
    /\ boundNode \in [Slots -> -1 .. MaxTexture]
    /\ boundTexColl \in TexNames
    /\ texMini \in Nat

\* What any collection says of a slot, unless the texture was deleted since: it
\* is there, and the slot uses it if that is also what the slot names. The second
\* is needed of every collection: to bind one leaves alone the slots whose name
\* does not change.
RecordsHold ==
    \A c \in TexNames, s \in Slots :
      record[c][s] # 0 /\ <<c, s>> \notin outlived =>
        /\ texKind[record[c][s]] = s[1]
        /\ boundTex[s] = record[c][s] => boundNode[s] = boundTex[s]

TexInv ==
    /\ TexTypeOK /\ RecordsHold /\ CollectionExact
    /\ \A s \in Slots : boundTex[s] = 0 => boundNode[s] = Null

(* No texture and no slot is the value that stands for none. *)
LEMMA NamesAndSlots ==
    /\ TexNames \subseteq Nat /\ Textures = TexNames \ {0} /\ 0 \in TexNames
    /\ \A s \in Slots : s[1] \in {"2D", "CUBE", "LUT"} /\ s = <<s[1], s[2]>>
    /\ \A s \in Slots : s[1] # "LUT" => <<"2D", s[2]>> \in Slots /\ <<"CUBE", s[2]>> \in Slots
    /\ NoTextures \in [Slots -> TexNames]
BY TextureAssumption DEF TexNames, Textures, Slots, NoTextures

\* Textures start with the invariant, and every call keeps it.
LEMMA TexInitInv == TexInit => TexInv
<1> SUFFICES ASSUME TexInit PROVE TexInv
  OBVIOUS
<1> USE NamesAndSlots DEF TexInit
<1>1. TexTypeOK
  BY TextureAssumption DEF TexTypeOK, TexNames, TexKinds, Null
<1>2. RecordsHold /\ \A s \in Slots : boundTex[s] = 0 => boundNode[s] = Null
  BY DEF RecordsHold, NoTextures, TexNames
<1>3. CollectionExact
  BY DEF CollectionExact, TexNames
<1>4. QED
  BY <1>1, <1>2, <1>3 DEF TexInv

(* Each operation on textures keeps their invariant. *)
LEMMA TexNextInv == TexInv /\ [TexNext]_texVars => TexInv'
<1> SUFFICES ASSUME TexInv, [TexNext]_texVars PROVE TexInv'
  OBVIOUS
<1> USE NamesAndSlots DEF TexInv, TexTypeOK
<1>1. CASE GenTexture
  <2> DEFINE unused == {n \in Textures : n >= texMini /\ texKind[n] = "absent"}
             m == Min(unused)
  <2>1. unused \in SUBSET Nat /\ unused # {}
    BY <1>1 DEF GenTexture
  <2>2. m \in Textures /\ m >= texMini /\ texKind[m] = "absent" /\ \A n \in unused : m <= n
    BY <2>1, LeastNat
  <2>3. /\ texKind' = Create(m, "named") /\ texMini' = m + 1
        /\ UNCHANGED <<usedSlots, record, boundTex, boundNode, boundTexColl, deleteCollection, outlived>>
    BY <1>1 DEF GenTexture
  <2> HIDE DEF m
  <2>4. \A n \in Textures : texKind'[n] = IF n = m THEN "named" ELSE texKind[n]
    BY <2>3 DEF Create
  <2>5. TexTypeOK'
    BY <2>2, <2>3 DEF Create, TexKinds
  <2>6. RecordsHold'
    <3>1. \A n \in Textures : texKind[n] \in {"2D", "CUBE", "LUT"} => texKind'[n] = texKind[n]
      BY <2>2, <2>4
    <3>2. \A c \in TexNames, s \in Slots : record[c][s] \in TexNames
      OBVIOUS
    <3>3. QED
      BY <2>3, <3>1, <3>2 DEF RecordsHold
  <2>7. \A n \in Textures : n < texMini' => texKind'[n] # "absent"
    <3> HIDE DEF TexInv, TexTypeOK
    <3>1. m \in Nat /\ texMini \in Nat /\ texMini' = m + 1
      BY <2>2, <2>3 DEF TexInv, TexTypeOK
    <3>2. \A n \in Textures : n < m => texKind[n] # "absent"
      <4>1. SUFFICES ASSUME NEW n \in Textures, n < m, texKind[n] = "absent" PROVE FALSE
        OBVIOUS
      <4>2. n \in Nat /\ ~(n < texMini)
        BY <4>1 DEF TexInv, CollectionExact
      <4>3. n \in unused
        BY <3>1, <4>1, <4>2
      <4>4. QED
        BY <2>2, <3>1, <4>1, <4>2, <4>3
    <3>3. \A n \in Textures : n < m + 1 => n = m \/ n < m
      BY <3>1
    <3>4. QED
      BY <2>4, <3>1, <3>2, <3>3
  <2>8. CollectionExact'
    BY <2>2, <2>3, <2>4, <2>7 DEF CollectionExact
  <2>9. QED
    BY <2>3, <2>5, <2>6, <2>8
<1>2. ASSUME NEW s \in usedSlots, NEW n \in 0 .. MaxTexture, BindTexture(s, n) PROVE TexInv'
  <2>1. /\ s \in Slots /\ n \in TexNames
        /\ n \in Textures => texKind[n] \in {"absent", "named", s[1]}
        /\ texKind' = Create(n, s[1])
        /\ record' = [record EXCEPT ![boundTexColl][s] = n]
        /\ boundTex' = [boundTex EXCEPT ![s] = n]
        /\ boundNode' = [boundNode EXCEPT ![s] = n]
        /\ outlived' = outlived \ {<<boundTexColl, s>>}
        /\ UNCHANGED <<usedSlots, boundTexColl, deleteCollection, texMini>>
    BY <1>2 DEF BindTexture, Bindable, TexNames
  <2>2. \A m \in Textures : texKind'[m] = IF m = n THEN s[1] ELSE texKind[m]
    BY <2>1 DEF Create
  <2>3. texKind' \in [Textures -> TexKinds]
    BY <2>1 DEF Create, TexKinds
  <2>4. TexTypeOK'
    <3>1. n \in -1 .. MaxTexture
      BY <2>1 DEF TexNames
    <3>2. QED
      BY <2>1, <2>3, <3>1
  <2>5. \A c \in TexNames, r \in Slots :
           record'[c][r] = IF c = boundTexColl /\ r = s THEN n ELSE record[c][r]
    BY <2>1
  <2>6. RecordsHold'
    <3>1. SUFFICES ASSUME NEW c \in TexNames, NEW r \in Slots,
                          record'[c][r] # 0, <<c, r>> \notin outlived'
                   PROVE  /\ texKind'[record'[c][r]] = r[1]
                          /\ boundTex'[r] = record'[c][r] => boundNode'[r] = boundTex'[r]
      BY DEF RecordsHold
    <3>2. CASE c = boundTexColl /\ r = s
      BY <2>1, <2>2, <2>5, <3>1, <3>2
    <3>3. CASE ~(c = boundTexColl /\ r = s)
      <4>1. record'[c][r] = record[c][r] /\ <<c, r>> \notin outlived /\ record[c][r] \in Textures
        <5>1. record'[c][r] = record[c][r]
          BY <2>5, <3>3
        <5>2. <<c, r>> # <<boundTexColl, s>>
          BY <3>3
        <5>3. record[c][r] \in TexNames
          OBVIOUS
        <5>4. QED
          BY <2>1, <3>1, <5>1, <5>2, <5>3
      <4>2. texKind[record[c][r]] = r[1] /\ (boundTex[r] = record[c][r] => boundNode[r] = boundTex[r])
        BY <3>1, <4>1 DEF RecordsHold
      <4>3. texKind'[record[c][r]] = r[1]
        BY <2>1, <2>2, <4>1, <4>2
      <4>4. boundTex'[r] = record[c][r] => boundNode'[r] = boundTex'[r]
        BY <2>1, <4>2
      <4>5. QED
        BY <4>1, <4>3, <4>4
    <3>4. QED
      BY <3>2, <3>3
  <2>7. CollectionExact'
    <3>1. record'[boundTexColl'] = boundTex'
      BY <2>1 DEF CollectionExact
    <3>2. QED
      BY <2>1, <2>2, <3>1 DEF CollectionExact
  <2>8. QED
    BY <2>1, <2>4, <2>6, <2>7 DEF Null
<1>3. ASSUME NEW c \in 0 .. MaxTexture, BindCollection(c) PROVE TexInv'
  <2> DEFINE rec == record[c]
             known == Create(c, "COLL")
             Node(n) == IF n # 0 /\ known[n] # "absent" THEN n ELSE Null
             Loaded(s) == IF Reloaded(s, rec) THEN Node(rec[s]) ELSE boundNode[s]
  <2>1. /\ c \in TexNames /\ c # boundTexColl
        /\ c \in Textures => texKind[c] \in {"absent", "named", "COLL"}
        /\ texKind' = [n \in Textures |-> IF n \in Reap THEN "absent" ELSE known[n]]
        /\ boundTex' = rec
        /\ boundNode' = [s \in Slots |-> IF Loaded(s) \in Reap THEN Gone ELSE Loaded(s)]
        /\ record' = [d \in 0 .. MaxTexture |-> IF d \in Reap THEN NoTextures ELSE record[d]]
        /\ outlived' = {e \in outlived : e[1] \notin Reap}
        /\ boundTexColl' = c
        /\ deleteCollection' = 0
        /\ texMini' = Mini(Reap)
        /\ UNCHANGED usedSlots
    BY <1>3 DEF BindCollection, Bindable, TexNames
  <2>2. /\ Reap \subseteq {boundTexColl} \ {0} /\ c \notin Reap /\ Reap \subseteq Textures
        /\ \A n \in Reap : texKind[n] = "COLL"
    BY <2>1 DEF Reap, CollectionExact
  <2>3. \A n \in Textures : known[n] = IF n = c THEN "COLL" ELSE texKind[n]
    BY DEF Create
  <2>4. rec \in [Slots -> TexNames]
    BY <2>1
  <2>5. texKind' \in [Textures -> TexKinds]
    BY <2>1, <2>3 DEF TexKinds
  <2>6. \A s \in Slots : Loaded(s) \in -1 .. MaxTexture
    BY <2>4 DEF TexNames, Null
  <2>7. texMini' \in Nat /\ texMini' <= texMini /\ \A n \in Reap : texMini' <= n
    <3>1. {texMini} \cup Reap \in SUBSET Nat /\ {texMini} \cup Reap # {}
      BY <2>2
    <3>2. QED
      BY <2>1, <3>1, LeastNat DEF Mini
  <2>8. TexTypeOK'
    <3>1. record' \in [TexNames -> [Slots -> TexNames]]
      BY <2>1 DEF TexNames
    <3>2. boundNode' \in [Slots -> -1 .. MaxTexture]
      <4> HIDE DEF Loaded
      <4>1. \A s \in Slots : (IF Loaded(s) \in Reap THEN Gone ELSE Loaded(s)) \in -1 .. MaxTexture
        BY <2>6, TextureAssumption DEF Gone
      <4>2. QED
        BY <2>1, <4>1
    <3>3. QED
      BY <2>1, <2>4, <2>5, <2>7, <3>1, <3>2
  <2>9. ASSUME NEW s \in Slots, rec[s] = 0 PROVE boundNode'[s] = Null
    <3>1. ~Reloaded(s, rec) => boundTex[s] = rec[s]
      BY <2>4 DEF Reloaded
    <3>2. Loaded(s) = Null
      BY <2>9, <3>1
    <3> HIDE DEF Loaded
    <3>3. QED
      BY <2>1, <2>2, <3>2 DEF Null
  <2>10. RecordsHold'
    <3>1. SUFFICES ASSUME NEW d \in TexNames, NEW s \in Slots,
                          record'[d][s] # 0, <<d, s>> \notin outlived'
                   PROVE  /\ texKind'[record'[d][s]] = s[1]
                          /\ boundTex'[s] = record'[d][s] => boundNode'[s] = boundTex'[s]
      BY DEF RecordsHold
    <3>2. d \notin Reap /\ record'[d] = record[d] /\ <<d, s>> \notin outlived
      BY <2>1, <3>1 DEF NoTextures, TexNames
    <3> DEFINE n == record[d][s]
    <3>3. /\ n \in Textures /\ texKind[n] = s[1]
          /\ boundTex[s] = n => boundNode[s] = n
      BY <3>1, <3>2 DEF RecordsHold
    <3> HIDE DEF n
    <3>4. n \notin Reap /\ n # c
      BY <2>1, <2>2, <3>3
    <3>5. texKind'[n] = s[1] /\ known[n] # "absent"
      BY <2>1, <2>3, <3>3, <3>4
    <3> HIDE DEF known
    <3>6. rec[s] = n => Loaded(s) = n
      <4>1. ~Reloaded(s, rec) => boundTex[s] = rec[s]
        BY <2>4 DEF Reloaded
      <4>2. QED
        BY <3>3, <3>5, <4>1
    <3> HIDE DEF Loaded
    <3>7. rec[s] = n => boundNode'[s] = n
      BY <2>1, <3>4, <3>6
    <3>8. QED
      BY <2>1, <3>2, <3>5, <3>7 DEF n
  <2>11. CollectionExact'
    <3>1. record'[boundTexColl'] = boundTex'
      BY <2>1, <2>2 DEF TexNames
    <3>2. boundTexColl' # 0 => texKind'[boundTexColl'] = "COLL"
      BY <2>1, <2>2, <2>3
    <3>3. \A n \in Textures : n < texMini' => texKind'[n] # "absent"
      BY <2>1, <2>2, <2>3, <2>7 DEF CollectionExact
    <3>4. QED
      BY <2>1, <3>1, <3>2, <3>3 DEF CollectionExact
  <2>12. QED
    BY <2>1, <2>8, <2>9, <2>10, <2>11
<1>4. ASSUME NEW n \in Textures, DeferCollection(n) PROVE TexInv'
  BY <1>4 DEF DeferCollection, RecordsHold, CollectionExact
<1>5. ASSUME NEW n \in Textures, DeleteTexture(n) PROVE TexInv'
  <2>1. /\ n # boundTexColl /\ n # 0
        /\ texKind' = [texKind EXCEPT ![n] = "absent"]
        /\ texMini' = Mini({n})
        /\ UNCHANGED <<usedSlots, boundTexColl, deleteCollection>>
    BY <1>5 DEF DeleteTexture, CollectionExact
  <2>2. \A s \in Slots :
           /\ boundTex'[s] = IF Releases(s, n) THEN 0 ELSE boundTex[s]
           /\ boundNode'[s] = CASE Releases(s, n) -> Null
                                [] ~Releases(s, n) /\ boundNode[s] = n -> Gone
                                [] OTHER -> boundNode[s]
    BY <1>5 DEF DeleteTexture
  <2>3. boundTex' \in [Slots -> TexNames] /\ boundNode' \in [Slots -> -1 .. MaxTexture]
    <3>1. boundTex' = [s \in Slots |-> boundTex'[s]] /\ boundNode' = [s \in Slots |-> boundNode'[s]]
      BY <1>5 DEF DeleteTexture
    <3>2. \A s \in Slots : boundTex'[s] \in TexNames /\ boundNode'[s] \in -1 .. MaxTexture
      <4>1. TAKE s \in Slots
      <4>2. boundNode[s] \in -1 .. MaxTexture /\ boundTex[s] \in TexNames
        OBVIOUS
      <4>3. 0 \in -1 .. MaxTexture /\ -1 \in -1 .. MaxTexture
        BY TextureAssumption
      <4>4. boundNode'[s] \in {0, -1, boundNode[s]} /\ boundTex'[s] \in {0, boundTex[s]}
        BY <2>2 DEF Null, Gone
      <4>5. QED
        BY <4>2, <4>3, <4>4
    <3>3. QED
      BY <3>1, <3>2
  <2>4. record' \in [TexNames -> [Slots -> TexNames]]
    BY <1>5 DEF DeleteTexture, TexNames
  <2>5. \A c \in TexNames, s \in Slots :
           record'[c][s] = IF c = n THEN 0
                           ELSE IF c = boundTexColl /\ Releases(s, n) THEN 0 ELSE record[c][s]
    BY <1>5 DEF DeleteTexture, TexNames, NoTextures
  <2>6. \A c \in TexNames, s \in Slots :
           <<c, s>> \in outlived' <=>
             (<<c, s>> \in outlived \/ record[c][s] = n) /\ record'[c][s] # 0
    BY <1>5 DEF DeleteTexture, TexNames
  <2>7. texMini' \in Nat /\ texMini' <= texMini /\ texMini' <= n
    <3>1. {texMini, n} \in SUBSET Nat /\ {texMini, n} # {} /\ {texMini} \cup {n} = {texMini, n}
      OBVIOUS
    <3>2. QED
      BY <2>1, <3>1, LeastNat DEF Mini
  <2>8. TexTypeOK'
    BY <2>1, <2>3, <2>4, <2>7 DEF TexKinds
  <2>9. RecordsHold'
    <3>1. SUFFICES ASSUME NEW c \in TexNames, NEW s \in Slots,
                          record'[c][s] # 0, <<c, s>> \notin outlived'
                   PROVE  /\ texKind'[record'[c][s]] = s[1]
                          /\ boundTex'[s] = record'[c][s] => boundNode'[s] = boundTex'[s]
      BY DEF RecordsHold
    <3>2. record'[c][s] = record[c][s] /\ <<c, s>> \notin outlived /\ record[c][s] # n
      BY <2>5, <2>6, <3>1
    <3>3. /\ texKind[record[c][s]] = s[1] /\ record[c][s] \in Textures
          /\ boundTex[s] = record[c][s] => boundNode[s] = boundTex[s]
      BY <3>1, <3>2 DEF RecordsHold
    <3>4. texKind'[record[c][s]] = s[1]
      BY <2>1, <3>2, <3>3
    <3>5. boundTex'[s] = record[c][s] => boundNode'[s] = boundTex'[s]
      <4>1. SUFFICES ASSUME boundTex'[s] = record[c][s] PROVE boundNode'[s] = boundTex'[s]
        OBVIOUS
      <4>2. ~Releases(s, n) /\ boundTex[s] = record[c][s]
        BY <2>2, <3>1, <3>2, <4>1
      <4>3. QED
        BY <2>2, <3>2, <3>3, <4>2
    <3>6. QED
      BY <3>2, <3>4, <3>5
  <2>10. CollectionExact'
    <3>1. record'[boundTexColl'] = boundTex'
      <4>1. \A s \in Slots : record'[boundTexColl][s] = boundTex'[s]
        BY <2>1, <2>2, <2>5 DEF CollectionExact
      <4>2. record'[boundTexColl] \in [Slots -> TexNames]
        BY <2>4
      <4>3. QED
        BY <2>1, <2>3, <4>1, <4>2
    <3>2. QED
      BY <2>1, <2>7, <3>1 DEF CollectionExact
  <2>11. \A s \in Slots : boundTex'[s] = 0 => boundNode'[s] = Null
    BY <2>1, <2>2 DEF Null
  <2>12. QED
    BY <2>8, <2>9, <2>10, <2>11
<1>6. CASE RestartTextures
  <2>1. /\ texKind' = [n \in Textures |-> "absent"]
        /\ record' = [c \in 0 .. MaxTexture |-> NoTextures]
        /\ boundTex' = NoTextures /\ boundNode' = [s \in Slots |-> Null]
        /\ boundTexColl' = 0 /\ deleteCollection' = 0 /\ texMini' = 1 /\ outlived' = {}
        /\ usedSlots' \in SUBSET Slots
    BY <1>6, TextureAssumption DEF RestartTextures
  <2>2. TexTypeOK'
    BY <2>1, TextureAssumption DEF TexNames, TexKinds, Null
  <2>3. RecordsHold' /\ \A s \in Slots : boundTex'[s] = 0 => boundNode'[s] = Null
    BY <2>1 DEF RecordsHold, NoTextures, TexNames
  <2>4. CollectionExact'
    BY <2>1 DEF CollectionExact, TexNames
  <2>5. QED
    BY <2>2, <2>3, <2>4
<1>7. CASE UNCHANGED texVars
  BY <1>7 DEF texVars, RecordsHold, CollectionExact
<1>8. {0} \cup CollectionNames \subseteq 0 .. MaxTexture
  BY TextureAssumption DEF Textures
<1>9. QED
  BY <1>1, <1>2, <1>3, <1>4, <1>5, <1>6, <1>7, <1>8 DEF TexNext

(* The invariant gives the property that the run checks. *)
LEMMA TexInvIsSound == TexInv => TexturesSound
BY NamesAndSlots DEF TexInv, TexTypeOK, TexturesSound, TexturesUsable, CollectionExact, RecordsHold

\* Every use of a texture is of a live one of its kind, however many names and
\* units there are.
THEOREM TexturesAreSound == TexSpec => []TexturesSound
BY TexInitInv, TexNextInv, TexInvIsSound, PTL DEF TexSpec

------------------------------------------------------------------------------
\* The managers together: each keeps its own invariant while another is called.
ObjectsInv == TexInv /\ VbInv /\ FbInv /\ DbInv /\ SurfaceInv

(* A step of one part leaves the invariants of the others alone. *)
LEMMA ObjectsNextInv == ObjectsInv /\ [ObjectsNext]_objectsVars => ObjectsInv'
<1> SUFFICES ASSUME ObjectsInv, [ObjectsNext]_objectsVars PROVE ObjectsInv'
  OBVIOUS
<1>1. [TexNext]_texVars /\ [VbNext]_vbVars /\ [FbNext]_fbVars /\ [DbNext]_dbVars /\ [SurfaceNext]_surfaceVars
  <2>1. CASE UNCHANGED objectsVars
    BY <2>1 DEF objectsVars
  <2>2. CASE ObjectsNext
    BY <2>2 DEF ObjectsNext
  <2>3. QED
    BY <2>1, <2>2
<1>2. QED
  BY <1>1, TexNextInv, VbNextInv, FbNextInv, DbNextInv, SurfaceNextInv DEF ObjectsInv

\* Whatever is called of which manager, in whatever order: everything the others
\* check of one manager holds of all of them.
THEOREM ObjectsAreSound ==
    ObjectsSpec => [](TexturesSound /\ BuffersSound /\ AttachmentsLive /\ DisplayMemoryOwned /\ BlocksOwned)
<1>1. ObjectsInit => ObjectsInv
  BY TexInitInv, VbInitInv, FbInitInv, DbInitInv, SurfaceInitInv DEF ObjectsInit, ObjectsInv
<1>2. ObjectsInv => TexturesSound /\ BuffersSound /\ AttachmentsLive /\ DisplayMemoryOwned /\ BlocksOwned
  BY TexInvIsSound, VbInvIsSound, FacesOwnBlocks DEF ObjectsInv, FbInv, DbInv, SurfaceInv
<1>3. QED
  BY <1>1, <1>2, ObjectsNextInv, PTL DEF ObjectsSpec
==============================================================================
