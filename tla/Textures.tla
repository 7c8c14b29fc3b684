---- MODULE Textures ----
(***************************************************************************)
(* Texture names and bindings of gles2/texmanager.c: names are generated,   *)
(* bound to the slots of a collection, and deleted, in any order a caller   *)
(* likes. A collection records which texture each slot holds; binding one   *)
(* loads its record back and looks the names up again.                      *)
(*                                                                          *)
(* The guards are the conditions of BASE_GL_FAIL_IF: calls a checked build  *)
(* refuses, and an unchecked build expects not to be made.                  *)
(***************************************************************************)
EXTENDS Integers, FiniteSetsExt

CONSTANTS
  MaxTexture,  \* bound: names above it are not used
  Units,       \* texture units
  Luts,        \* lookup table slots
  SlotChoices, \* bound: the sets of slots an application may confine itself to
  CollectionNames  \* bound: the names it uses for collections at times

Textures == 1 .. MaxTexture
Slots == ({"2D", "CUBE"} \X Units) \cup ({"LUT"} \X Luts)
ASSUME TextureAssumption ==
  /\ MaxTexture \in Nat /\ CollectionNames \subseteq Textures
  /\ SlotChoices \subseteq SUBSET Slots
\* Values of a pointer to a list node: the node of a name, or one of these.
Null == 0
Gone == -1  \* a node that has been freed

VARIABLES
  usedSlots,  \* the slots the application binds textures to until it finalizes
  texKind,    \* node of a name: absent, without container, or of a kind
  record,     \* what each collection says of each slot; 0 is the default one
  boundTex,   \* gl_state.textureunits: the name in each slot
  boundNode,  \* __texman: the node in each slot
  boundTexColl, deleteCollection, texMini,
  outlived    \* history: entries of records whose texture has been deleted

texVars == <<usedSlots, texKind, record, boundTex, boundNode, boundTexColl, deleteCollection, texMini, outlived>>

NoTextures == [s \in Slots |-> 0]
Bindable(n, kind) == n \in Textures => texKind[n] \in {"absent", "named", kind}
Create(n, kind) == [m \in Textures |-> IF m = n THEN kind ELSE texKind[m]]

TexInit ==
  /\ usedSlots = {}
  /\ texKind = [n \in Textures |-> "absent"]
  /\ record = [c \in 0 .. MaxTexture |-> NoTextures]
  /\ boundTex = NoTextures
  /\ boundNode = [s \in Slots |-> Null]
  /\ boundTexColl = 0
  /\ deleteCollection = 0
  /\ texMini = 1
  /\ outlived = {}

\* glGenTextures: the first name from texMini on whose node is absent.
GenTexture ==
  LET unused == {n \in Textures : n >= texMini /\ texKind[n] = "absent"}
  IN /\ unused # {}
     /\ texKind' = Create(Min(unused), "named")
     /\ texMini' = Min(unused) + 1
     /\ UNCHANGED <<usedSlots, record, boundTex, boundNode, boundTexColl, deleteCollection, outlived>>

\* glBindTexture of a slot: the bound collection's record follows.
BindTexture(s, n) ==
  /\ n # boundTex[s]
  /\ Bindable(n, s[1])
  /\ texKind' = Create(n, s[1])
  /\ record' = [record EXCEPT ![boundTexColl][s] = n]
  /\ boundTex' = [boundTex EXCEPT ![s] = n]
  /\ boundNode' = [boundNode EXCEPT ![s] = n]
  /\ outlived' = outlived \ {<<boundTexColl, s>>}
  /\ UNCHANGED <<usedSlots, boundTexColl, deleteCollection, texMini>>

\* Mutant of Reloaded: a slot that becomes empty is not looked at.
ReloadedIfNamed(s, rec) == rec[s] # 0 /\ boundTex[s] # rec[s]

\* glBindTexture of a collection: a lookup table is looked up again if its name
\* changes, the two textures of a unit if either does.
Reloaded(s, rec) ==
  IF s[1] = "LUT" THEN boundTex[s] # rec[s]
  ELSE \E kind \in {"2D", "CUBE"} : boundTex[<<kind, s[2]>>] # rec[<<kind, s[2]>>]
\* The collection whose deletion was put off is deleted now.
Reap == IF deleteCollection = 0 THEN {} ELSE {deleteCollection}
\* Mutant of Mini: the name that becomes free is not noted.
MiniKept(deleted) == texMini
Mini(deleted) == Min({texMini} \cup deleted)
BindCollection(c) ==
  /\ c # boundTexColl
  /\ Bindable(c, "COLL")
  /\ LET rec == record[c]
         known == Create(c, "COLL")
         Node(n) == IF n # 0 /\ known[n] # "absent" THEN n ELSE Null
         Loaded(s) == IF Reloaded(s, rec) THEN Node(rec[s]) ELSE boundNode[s]
     IN /\ texKind' = [n \in Textures |-> IF n \in Reap THEN "absent" ELSE known[n]]
        /\ boundTex' = rec
        /\ boundNode' = [s \in Slots |-> IF Loaded(s) \in Reap THEN Gone ELSE Loaded(s)]
  /\ record' = [d \in 0 .. MaxTexture |-> IF d \in Reap THEN NoTextures ELSE record[d]]
  /\ outlived' = {e \in outlived : e[1] \notin Reap}
  /\ boundTexColl' = c
  /\ deleteCollection' = 0
  /\ texMini' = Mini(Reap)
  /\ UNCHANGED usedSlots

\* glDeleteTextures of the bound collection only notes the name.
DeferCollection(c) ==
  /\ texKind[c] = "COLL"
  /\ c = boundTexColl
  /\ deleteCollection' = c
  /\ UNCHANGED <<usedSlots, texKind, record, boundTex, boundNode, boundTexColl, texMini, outlived>>

\* Of any other name: the slots of its kind let go of it, its node is freed.
Releases(s, n) == texKind[n] = s[1] /\ boundTex[s] = n
DeleteTexture(n) ==
  /\ texKind[n] # "absent"
  /\ ~(texKind[n] = "COLL" /\ n = boundTexColl)
  /\ texKind' = [texKind EXCEPT ![n] = "absent"]
  /\ boundTex' = [s \in Slots |-> IF Releases(s, n) THEN 0 ELSE boundTex[s]]
  /\ boundNode' = [s \in Slots |-> CASE Releases(s, n) -> Null
                                     [] ~Releases(s, n) /\ boundNode[s] = n -> Gone
                                     [] OTHER -> boundNode[s]]
  /\ record' = [c \in 0 .. MaxTexture |->
                  IF c = n THEN NoTextures  \* the container of a collection goes with it
                  ELSE [s \in Slots |-> IF c = boundTexColl /\ Releases(s, n) THEN 0 ELSE record[c][s]]]
  /\ outlived' = {e \in (0 .. MaxTexture) \X Slots :
                    (e \in outlived \/ record[e[1]][e[2]] = n) /\ record'[e[1]][e[2]] # 0}
  /\ texMini' = Mini({n})
  /\ UNCHANGED <<usedSlots, boundTexColl, deleteCollection>>

\* __tx_finalizeTexManager and __tx_initializeTexManager: everything anew.
RestartTextures ==
  /\ texKind' = [n \in Textures |-> "absent"]
  /\ record' = [c \in 0 .. MaxTexture |-> NoTextures]
  /\ boundTex' = NoTextures
  /\ boundNode' = [s \in Slots |-> Null]
  /\ boundTexColl' = 0
  /\ deleteCollection' = 0
  /\ texMini' = 1
  /\ outlived' = {}
  /\ usedSlots' \in SlotChoices

TexNext ==
  \/ GenTexture
  \/ \E s \in usedSlots, n \in 0 .. MaxTexture : BindTexture(s, n)
  \/ \E c \in {0} \cup CollectionNames : BindCollection(c)
  \/ \E n \in Textures : DeferCollection(n) \/ DeleteTexture(n)
  \/ RestartTextures

TexSpec == TexInit /\ [][TexNext]_texVars

\* A slot that names no texture uses none, and one that names a texture uses that
\* texture, of the slot's kind, whatever has been deleted, generated again and
\* bound to collections in between; unless the name comes from a collection whose
\* record has outlived the texture.
TexturesUsable == \A s \in Slots :
  IF boundTex[s] = 0 THEN boundNode[s] = Null
  ELSE <<boundTexColl, s>> \notin outlived =>
         boundNode[s] = boundTex[s] /\ texKind[boundTex[s]] = s[1]

\* The bound collection records what is bound, it exists while it is bound, also
\* when its deletion is put off, and no free name is passed over.
CollectionExact ==
  /\ record[boundTexColl] = boundTex
  /\ boundTexColl # 0 => texKind[boundTexColl] = "COLL"
  /\ deleteCollection \in {0, boundTexColl}
  /\ \A n \in Textures : n < texMini => texKind[n] # "absent"

\* Every use of a texture is of a live one of its kind, through collections and
\* the deletions they put off.
TexturesSound == TexturesUsable /\ CollectionExact
====
