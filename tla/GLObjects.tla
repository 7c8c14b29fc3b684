------------------------------ MODULE GLObjects ------------------------------
(***************************************************************************)
(* The managers of gles2 that give out names and memory: textures, buffers, *)
(* framebuffers, display buffers and the memory behind one texture or       *)
(* buffer. They run on the one thread that owns the context and share no    *)
(* state; nngxFinalize and nngxInitialize restart each. Whatever is called  *)
(* of one, the others do not see: every behaviour of one manager is one     *)
(* with the others at rest.                                                 *)
(***************************************************************************)
EXTENDS Textures, VertexBuffers, Framebuffers, DisplayBuffers, SurfaceMemory

VARIABLE manager  \* the one that is called

objectsVars == <<texVars, vbVars, fbVars, dbVars, surfaceVars, manager>>

ObjectsInit ==
  /\ TexInit /\ VbInit /\ FbInit /\ DbInit /\ SurfaceInit
  /\ manager \in {"texture", "buffer", "framebuffer", "display", "memory"}

Called(which) == manager = which /\ UNCHANGED manager

ObjectsNext ==
  \/ Called("texture") /\ TexNext /\ UNCHANGED <<vbVars, fbVars, dbVars, surfaceVars>>
  \/ Called("buffer") /\ VbNext /\ UNCHANGED <<texVars, fbVars, dbVars, surfaceVars>>
  \/ Called("framebuffer") /\ FbNext /\ UNCHANGED <<texVars, vbVars, dbVars, surfaceVars>>
  \/ Called("display") /\ DbNext /\ UNCHANGED <<texVars, vbVars, fbVars, surfaceVars>>
  \/ Called("memory") /\ SurfaceNext /\ UNCHANGED <<texVars, vbVars, fbVars, dbVars>>

ObjectsSpec == ObjectsInit /\ [][ObjectsNext]_objectsVars
==============================================================================
