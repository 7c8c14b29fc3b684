---- MODULE SurfaceMemory ----
(***************************************************************************)
(* The memory blocks behind one object of gles2: a texture or a cube map    *)
(* (tx_texImage, texmanager.c), whose faces share one transfer type, or a   *)
(* buffer (glBufferData, vbmanager.c). How the data travels decides which   *)
(* blocks there are; loading another size or type frees them and asks the   *)
(* application's allocator, which may fail, for new ones.                   *)
(***************************************************************************)
EXTENDS Naturals

CONSTANTS
  MaxBlock,  \* bound: blocks the allocator has
  Sizes      \* dimensions and formats

ASSUME SurfaceAssumption == MaxBlock \in Nat

\* GL_NO_COPY_NO_DMA: the application's data is read in place; GL_NO_COPY_DMA: a
\* block is filled from it; GL_COPY_NO_DMA: a copy is read; GL_COPY_DMA: a copy
\* fills a block.
TransTypes == {"in place", "filled", "copied", "copied and filled"}
Objects == {"texture", "cube map", "buffer"}
Blocks == 1 .. MaxBlock
App == MaxBlock + 1  \* memory of the application

VARIABLES
  object,     \* what kind of object this is
  pica, copy, \* picaaddr and copyaddr of each face: 0, a block or App
  surface,    \* the size each face was last set up for, or "none"
  transType,  \* of the whole object
  allocated,  \* blocks the allocator has handed out
  misfreed,   \* history: something was given back that was not handed out
  torn        \* history: an allocation has failed in part, or a cube map has
              \* changed its type with faces still loaded

surfaceVars == <<object, pica, copy, surface, transType, allocated, misfreed, torn>>

Faces == {1, 2}
FacesOf(o) == IF o = "cube map" THEN Faces ELSE {1}
Empty == [f \in Faces |-> 0]

SurfaceInit ==
  /\ object = "texture"
  /\ pica = Empty
  /\ copy = Empty
  /\ surface = [f \in Faces |-> "none"]
  /\ transType = "in place"
  /\ allocated = {}
  /\ misfreed = FALSE
  /\ torn = FALSE

\* Mutant of GivenBack: one of two blocks is kept.
GivenBackOnce(f) ==
  CASE transType = "in place" -> <<>>
    [] transType = "copied" -> <<copy[f]>>
    [] OTHER -> <<pica[f]>>

\* tx_freeTextureMemory, by the object's type: what it gives back, in order.
GivenBack(f) ==
  CASE transType = "in place" -> <<>>
    [] transType = "filled" -> <<pica[f]>>
    [] transType = "copied" -> <<copy[f]>>
    [] transType = "copied and filled" -> <<pica[f], copy[f]>>
FreedOf(f) == {GivenBack(f)[i] : i \in DOMAIN GivenBack(f)} \ {0}
Misfrees(f) ==
  \/ ~(FreedOf(f) \subseteq allocated)
  \/ \E i, j \in DOMAIN GivenBack(f) : i # j /\ GivenBack(f)[i] = GivenBack(f)[j] /\ GivenBack(f)[i] # 0

\* tx_allocTextureMemory: what the allocator may answer, 0 for failure. Which free
\* block it hands out is immaterial: the lowest.
FillsBlock(t) == t \in {"filled", "copied and filled"}
Copies(t) == t \in {"copied", "copied and filled"}
Lowest(free) == {b \in free : \A c \in free : b <= c}
Answers(t, free) == {g \in [pica : free \cup {0}, copy : free \cup {0}] :
  /\ g.pica # 0 => FillsBlock(t) /\ g.pica \in Lowest(free)
  /\ g.copy # 0 => Copies(t) /\ g.copy \in Lowest(free \ {g.pica})}
Refused(t, g) == (FillsBlock(t) /\ g.pica = 0) \/ (Copies(t) /\ g.copy = 0)

\* Whether a load finds memory of another size or type.
Stale(f, d, t) == pica[f] # 0 /\ (surface[f] # d \/ transType # t)

\* tx_texImage and glBufferData with memory that can be used again.
LoadAgain(f, d, t, data) ==
  /\ pica[f] # 0 /\ ~Stale(f, d, t)
  /\ pica' = IF t = "in place" /\ data THEN [pica EXCEPT ![f] = App] ELSE pica
  /\ UNCHANGED <<object, copy, surface, transType, allocated, misfreed, torn>>

\* The faces that stay loaded as the type of the object changes.
Mixes(f, t) == t # transType /\ \E e \in FacesOf(object) \ {f} : pica[e] # 0

\* With memory that is freed first, or without any. A texture that is refused
\* memory keeps its type, a buffer does not; addresses freed because only one of
\* two was refused stay in place.
LoadAnew(f, d, t, data) ==
  /\ pica[f] = 0 \/ Stale(f, d, t)
  /\ LET freed == IF pica[f] = 0 THEN {} ELSE FreedOf(f)
         kept == allocated \ freed
     IN /\ \E g \in Answers(t, Blocks \ kept) :
             /\ copy' = [copy EXCEPT ![f] = g.copy]
             /\ IF Refused(t, g)
                THEN /\ pica' = [pica EXCEPT ![f] = g.pica]
                     /\ allocated' = kept
                     /\ transType' = IF object = "buffer" THEN t ELSE transType
                     /\ torn' = (torn \/ g.pica # 0 \/ g.copy # 0)
                ELSE /\ pica' = [pica EXCEPT ![f] =
                          CASE t = "in place" -> IF data THEN App ELSE 0
                            [] t = "copied" -> g.copy
                            [] OTHER -> g.pica]
                     /\ allocated' = kept \cup ({g.pica, g.copy} \ {0})
                     /\ transType' = t
                     /\ torn' = (torn \/ Mixes(f, t))
        /\ misfreed' = (misfreed \/ (pica[f] # 0 /\ Misfrees(f)))
  /\ surface' = [surface EXCEPT ![f] = d]
  /\ UNCHANGED object

\* tx_releaseTexContainer, tx_releaseCubeTexContainer, vb_releaseVertBuffer: the
\* object gives its memory back, and another comes to be in its place.
Release ==
  /\ misfreed' = (misfreed \/ \E f \in Faces : Misfrees(f))
  /\ allocated' = allocated \ UNION {FreedOf(f) : f \in Faces}
  /\ object' \in Objects
  /\ pica' = Empty
  /\ copy' = Empty
  /\ surface' = [f \in Faces |-> "none"]
  /\ transType' = "in place"
  /\ UNCHANGED torn

SurfaceNext ==
  \/ \E f \in FacesOf(object), d \in Sizes, t \in TransTypes, data \in BOOLEAN :
       LoadAgain(f, d, t, data) \/ LoadAnew(f, d, t, data)
  \/ Release

SurfaceSpec == SurfaceInit /\ [][SurfaceNext]_surfaceVars

\* Until an allocation fails in part or a cube map changes its type with faces
\* loaded, what is handed out is what the faces hold: nothing is lost, shared
\* between faces, or given back twice, whatever sizes and types follow one another
\* and whichever whole allocations fail.
BlocksOwned ==
  ~torn =>
    /\ allocated = (UNION {{pica[f], copy[f]} : f \in Faces}) \ {0, App}
    /\ ~misfreed
    /\ \A f, e \in Faces : f # e => {pica[f], copy[f]} \cap {pica[e], copy[e]} \subseteq {0, App}

\* The assertion with which __srf_initSurface starts: a surface that is set up
\* holds nothing. (A data address is set only with a pica address.)
SurfaceIsClean == \A f \in FacesOf(object) : object # "buffer" /\ pica[f] = 0 => copy[f] = 0
====
