---- MODULE VertexBuffers ----
(***************************************************************************)
(* Buffer names and vertex state of gles2/vbmanager.c: the bindings of the  *)
(* array, the element array and the vertex attributes, the collections they *)
(* are saved in and loaded from, and the deletion of what they name.        *)
(*                                                                          *)
(* The guards are the conditions of BASE_GL_FAIL_IF: calls a checked build  *)
(* refuses, and an unchecked build expects not to be made.                  *)
(***************************************************************************)
EXTENDS Integers, FiniteSetsExt

CONSTANTS
  MaxBuffer,  \* bound: names above it are not used
  Collectable, \* bound: the names an application uses for collections at times
  Attributes  \* vertex attributes

ASSUME BufferAssumption == MaxBuffer \in Nat /\ Collectable \subseteq 1 .. MaxBuffer /\ {"array", "element"} \cap Attributes = {}

Buffers == 1 .. MaxBuffer
Points == {"array", "element"} \cup Attributes

VARIABLES
  bufKind,   \* node of a name: absent, without container, or of a kind
  vertState, \* gl_state.vertbuffer and vertarray: what each point names
  vertNode,  \* __vbman: the node each point uses; 0 is NULL, -1 one that is freed
  savedVert, \* what each unbound collection has saved; 0 is the default one
  vertColl, deleteVertColl, bufMini

vbVars == <<bufKind, vertState, vertNode, savedVert, vertColl, deleteVertColl, bufMini>>

\* A point names a buffer; whether that buffer was deleted since is history.
Nothing == [id |-> 0, deleted |-> FALSE]
NoState == [p \in Points |-> Nothing]

VbInit ==
  /\ bufKind = [n \in Buffers |-> "absent"]
  /\ vertState = NoState
  /\ vertNode = [p \in Points |-> 0]
  /\ savedVert = [c \in 0 .. MaxBuffer |-> NoState]
  /\ vertColl = 0
  /\ deleteVertColl = 0
  /\ bufMini = 1

\* glGenBuffers: the first name from bufMini on whose node is absent.
GenBuffer ==
  LET unused == {n \in Buffers : n >= bufMini /\ bufKind[n] = "absent"}
  IN /\ unused # {}
     /\ bufKind' = [bufKind EXCEPT ![Min(unused)] = "named"]
     /\ bufMini' = Min(unused) + 1
     /\ UNCHANGED <<vertState, vertNode, savedVert, vertColl, deleteVertColl>>

\* glBindBuffer creates the container of a name on its first use.
Usable(n, kind) == n \in Buffers => bufKind[n] \in {"absent", "named", kind}
BindTo(n, kind) == [m \in Buffers |-> IF m = n THEN kind ELSE bufKind[m]]

BindBuffer(p, n) ==
  /\ Usable(n, "BUF")
  /\ bufKind' = BindTo(n, "BUF")
  /\ vertState' = [vertState EXCEPT ![p] = [id |-> n, deleted |-> FALSE]]
  /\ vertNode' = [vertNode EXCEPT ![p] = n]
  /\ UNCHANGED <<savedVert, vertColl, deleteVertColl, bufMini>>

\* glVertexAttribPointer and __vb_setAttribArrayBuffer.
AttribPointer(a) ==
  /\ vertState' = [vertState EXCEPT ![a] = vertState["array"]]
  /\ vertNode' = [vertNode EXCEPT ![a] = vertNode["array"]]
  /\ UNCHANGED <<bufKind, savedVert, vertColl, deleteVertColl, bufMini>>

\* What the deletion of n leaves of the points' names: the array and the
\* element array let go, an attribute keeps the name.
LetGo(state, n) == [p \in Points |->
  IF state[p].id # n THEN state[p]
  ELSE IF p \in Attributes THEN [id |-> n, deleted |-> TRUE] ELSE Nothing]
\* Mutant of Forgotten: the attributes are not looked at.
ForgottenByTargets(state, node, n) == [p \in Points |->
  CASE p \notin Attributes /\ state[p].id = n -> 0
    [] p \in Attributes /\ node[p] = n -> -1
    [] OTHER -> node[p]]

\* A point that names n forgets its node.
Forgotten(state, node, n) == [p \in Points |->
  CASE state[p].id = n -> 0
    [] state[p].id # n /\ node[p] = n -> -1
    [] OTHER -> node[p]]
\* The collections keep the name, if they are not the one deleted.
Outlived(saved, n) == [c \in 0 .. MaxBuffer |-> IF c = n THEN NoState ELSE
  [p \in Points |-> IF saved[c][p].id = n THEN [id |-> n, deleted |-> TRUE] ELSE saved[c][p]]]

\* glDeleteBuffers of n from the given state.
Delete(kinds, state, node, saved, n) ==
  /\ bufKind' = [kinds EXCEPT ![n] = "absent"]
  /\ vertState' = LetGo(state, n)
  /\ vertNode' = Forgotten(state, node, n)
  /\ savedVert' = Outlived(saved, n)
  /\ bufMini' = Min({bufMini, n})

\* Mutant of DeleteBuffer: the bound collection is deleted at once.
DeleteAnyBuffer(n) ==
  /\ bufKind[n] # "absent"
  /\ Delete(bufKind, vertState, vertNode, savedVert, n)
  /\ UNCHANGED <<vertColl, deleteVertColl>>

DeleteBuffer(n) ==
  /\ bufKind[n] # "absent"
  /\ n # vertColl
  /\ Delete(bufKind, vertState, vertNode, savedVert, n)
  /\ UNCHANGED <<vertColl, deleteVertColl>>

\* The deletion of the bound collection is put off.
DeferVertexState ==
  /\ vertColl # 0
  /\ deleteVertColl' = vertColl
  /\ UNCHANGED <<bufKind, vertState, vertNode, savedVert, vertColl, bufMini>>

\* glBindBuffer of a collection: the state is saved to the bound one, loaded from
\* the new one, and its names are looked up; then a deletion put off is made.
BindVertexState(c) ==
  /\ c # vertColl
  /\ Usable(c, "COLL")
  /\ LET kinds == BindTo(c, "COLL")
         saved == [savedVert EXCEPT ![vertColl] = vertState, ![c] = NoState]
         state == savedVert[c]
         node == [p \in Points |-> LET n == state[p].id
                                   IN IF n = 0 THEN 0 ELSE IF kinds[n] = "absent" THEN 0 ELSE n]
     IN IF deleteVertColl # 0 THEN Delete(kinds, state, node, saved, deleteVertColl)
        ELSE /\ bufKind' = kinds
             /\ vertState' = state
             /\ vertNode' = node
             /\ savedVert' = saved
             /\ UNCHANGED bufMini
  /\ vertColl' = c
  /\ deleteVertColl' = 0

\* __vb_finalizeVBManager, and the initialization of manager and state anew.
RestartBuffers ==
  /\ bufKind' = [n \in Buffers |-> "absent"]
  /\ vertState' = NoState
  /\ vertNode' = [p \in Points |-> 0]
  /\ savedVert' = [c \in 0 .. MaxBuffer |-> NoState]
  /\ vertColl' = 0
  /\ deleteVertColl' = 0
  /\ bufMini' = 1

VbNext ==
  \/ GenBuffer
  \/ \E p \in {"array", "element"}, n \in 0 .. MaxBuffer : BindBuffer(p, n)
  \/ \E a \in Attributes : AttribPointer(a)
  \/ \E n \in Buffers : DeleteBuffer(n)
  \/ DeferVertexState
  \/ \E c \in {0} \cup Collectable : BindVertexState(c)
  \/ RestartBuffers

VbSpec == VbInit /\ [][VbNext]_vbVars

\* A point that names no buffer uses none; one whose buffer lives uses that
\* buffer; one whose buffer was deleted uses none, for which
\* __vbv_validateVBValidator raises bUseDeletedBuffer, or what the name now is.
\* No point ever uses freed memory.
BuffersLive == \A p \in Points :
  LET n == vertState[p].id IN
  IF n = 0 THEN vertNode[p] = 0
  ELSE IF vertState[p].deleted THEN vertNode[p] = 0 \/ (vertNode[p] = n /\ bufKind[n] # "absent")
  ELSE vertNode[p] = n /\ bufKind[n] = "BUF"

\* The bound collection exists, also when its deletion is put off; what it has
\* saved is only ever used when it is bound again; names below bufMini are taken.
VertexCollectionsKept ==
  /\ vertColl # 0 => bufKind[vertColl] = "COLL"
  /\ deleteVertColl \in {0, vertColl}
  /\ \A c \in 1 .. MaxBuffer : savedVert[c] # NoState => bufKind[c] = "COLL"
  /\ \A c \in 0 .. MaxBuffer \ {vertColl}, p \in Points :
       LET s == savedVert[c][p] IN s.id # 0 /\ ~s.deleted => bufKind[s.id] = "BUF"
  /\ \A n \in Buffers : n < bufMini => bufKind[n] # "absent"

\* Every use of a vertex buffer is of a live one, through collections and the
\* deletions they put off.
BuffersSound == BuffersLive /\ VertexCollectionsKept
====
