---- MODULE Framebuffers ----
(***************************************************************************)
(* Framebuffers and renderbuffers of gles2/fbmanager.c: framebuffers hold   *)
(* pointers into renderbuffers, which are generated, bound, attached and    *)
(* deleted in any order. Framebuffer 0 always exists. The storage of a      *)
(* renderbuffer, which nothing in this repository allocates, is left out.   *)
(***************************************************************************)
EXTENDS Naturals, FiniteSetsExt

CONSTANTS
  MaxFb, MaxRb,  \* bounds: names above them are not used
  AttachPoints   \* FB_AP_COLOR0, FB_AP_DEPTH_STENCIL

ASSUME FramebufferAssumption == MaxFb \in Nat /\ MaxRb \in Nat

Framebuffers == 0 .. MaxFb
Renderbuffers == 1 .. MaxRb

VARIABLES
  fbList, rbList,  \* the names that have a node
  attached,        \* AttInfo: the renderbuffer at each point, or 0
  currFB, currRB

fbVars == <<fbList, rbList, attached, currFB, currRB>>

NoAttachment == [p \in AttachPoints |-> 0]

FbInit ==
  /\ fbList = {0}
  /\ rbList = {}
  /\ attached = [f \in Framebuffers |-> NoAttachment]
  /\ currFB = 0
  /\ currRB = 0

\* glGenRenderbuffers and glGenFramebuffers hand out the k lowest free names.
FirstNames(k, free) == {n \in free : Cardinality({m \in free : m <= n}) <= k}
GenRenderbuffers(k) ==
  LET free == Renderbuffers \ rbList IN
  /\ k <= Cardinality(free)
  /\ rbList' = rbList \cup FirstNames(k, free)
  /\ UNCHANGED <<fbList, attached, currFB, currRB>>
GenFramebuffers(k) ==
  LET free == Framebuffers \ fbList IN
  /\ k <= Cardinality(free)
  /\ fbList' = fbList \cup FirstNames(k, free)
  /\ UNCHANGED <<rbList, attached, currFB, currRB>>

\* Binding a name creates its node.
BindRenderbuffer(r) ==
  /\ r # currRB
  /\ rbList' = rbList \cup ({r} \ {0})
  /\ currRB' = r
  /\ UNCHANGED <<fbList, attached, currFB>>
BindFramebuffer(f) ==
  /\ f # currFB
  /\ fbList' = fbList \cup {f}
  /\ currFB' = f
  /\ UNCHANGED <<rbList, attached, currRB>>

\* glFramebufferRenderbuffer; 0 takes the attachment away.
FramebufferRenderbuffer(p, r) ==
  /\ r \in rbList \cup {0}
  /\ attached' = [attached EXCEPT ![currFB][p] = r]
  /\ UNCHANGED <<fbList, rbList, currFB, currRB>>

\* Mutant of Detach: only the bound framebuffer is looked at.
DetachBound(r) == [f \in Framebuffers |-> [p \in AttachPoints |->
  IF f = currFB /\ attached[f][p] = r THEN 0 ELSE attached[f][p]]]

\* __fb_detachSurfaceContainer looks through every framebuffer in the list.
Detach(r) == [f \in Framebuffers |-> [p \in AttachPoints |->
  IF f \in fbList /\ attached[f][p] = r THEN 0 ELSE attached[f][p]]]
DeleteRenderbuffer(r) ==
  /\ r \in rbList
  /\ rbList' = rbList \ {r}
  /\ currRB' = IF currRB = r THEN 0 ELSE currRB
  /\ attached' = Detach(r)
  /\ UNCHANGED <<fbList, currFB>>

\* A deleted framebuffer that is bound makes way for the default one.
DeleteFramebuffer(f) ==
  /\ f \in fbList \ {0}
  /\ fbList' = fbList \ {f}
  /\ currFB' = IF currFB = f THEN 0 ELSE currFB
  /\ attached' = [attached EXCEPT ![f] = NoAttachment]
  /\ UNCHANGED <<rbList, currRB>>

\* __fb_finalizeFBManager and __fb_initializeFBManager.
RestartFramebuffers ==
  /\ fbList' = {0}
  /\ rbList' = {}
  /\ attached' = [f \in Framebuffers |-> NoAttachment]
  /\ currFB' = 0
  /\ currRB' = 0

FbNext ==
  \/ \E k \in 1 .. 2 : GenRenderbuffers(k) \/ GenFramebuffers(k)
  \/ \E r \in {0} \cup Renderbuffers : BindRenderbuffer(r)
  \/ \E f \in Framebuffers : BindFramebuffer(f)
  \/ \E p \in AttachPoints, r \in {0} \cup Renderbuffers : FramebufferRenderbuffer(p, r)
  \/ \E r \in Renderbuffers : DeleteRenderbuffer(r)
  \/ \E f \in Framebuffers : DeleteFramebuffer(f)
  \/ RestartFramebuffers

FbSpec == FbInit /\ [][FbNext]_fbVars

\* What a framebuffer, bound or not, points into is a renderbuffer that still
\* exists, and so are the bound framebuffer and renderbuffer: fb_status and
\* __fbv_validateFBValidator follow these pointers without another look.
AttachmentsLive ==
  /\ currFB \in fbList
  /\ currRB \in rbList \cup {0}
  /\ \A f \in fbList, p \in AttachPoints : attached[f][p] \in rbList \cup {0}
====
