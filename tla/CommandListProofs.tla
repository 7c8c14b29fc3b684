--------------------------- MODULE CommandListProofs --------------------------
(***************************************************************************)
(* Proofs about CommandList for any lists, any room, any speculation and    *)
(* any watermark. The invariant has two halves: what the counts of the      *)
(* lists, their flags and stops say of the requests outstanding (ListsInv), *)
(* and where the interrupt of each of those requests is (Accounted): with   *)
(* the GPU, in the relay or in the receiver's hand. Neither is inductive    *)
(* alone: the handler counts a request because it has an interrupt, and     *)
(* that must be one of a request outstanding; and a list is only changed    *)
(* when it rests, which must mean that no interrupt of it is on its way.    *)
(***************************************************************************)
EXTENDS CommandList, FiniteSetTheorems, SequenceTheorems, TLAPS

------------------------------------------------------------------------------
(* The receiver by itself, for every watermark and bound: interrupts are not *)
(* stranded, and a single waiter misses no handler. The status word alone    *)
(* does not tell whether a handler finished since a wait began; Announced    *)
(* says what it does tell, place by place of the waiter.                     *)

\* Between Finalize and Initialize nobody waits, and the relay ends up empty.
QuietWhenFinal ==
    /\ finalizer = "finalized" => relay = <<>>
    /\ finalizer # "running" => \A t \in Waiters : waiting[t] = "idle"

\* A handler that finished before the waiter looks at the status left the
\* status behind; one that finishes while the waiter sleeps finds it WAITING.
Announced ==
    \A t \in Waiters :
        /\ waiting[t] = "lock" /\ doneSince[t] => waitStatus = "ANY_HANDLER_DONE"
        /\ waiting[t] = "sleep" => waitStatus = "WAITING" \/ doneEvent
        /\ waiting[t] = "idle" => ~doneSince[t]

ReceiverInv == TypeOKReceiver /\ QuietWhenFinal /\ NoInterruptStranded

WaiterInv == ReceiverInv /\ Announced /\ NoMissedHandler

\* The receiver's own steps keep its types and never leave it asleep beside an
\* interrupt.
LEMMA ReceiverStepInv ==
    ASSUME ReceiverInv, ReceiverStep \/ HandlerReturns
    PROVE  ReceiverInv'
<1> USE DEF ReceiverInv, TypeOKReceiver, QuietWhenFinal, NoInterruptStranded,
            ReceiverGoes, queue, thread, anyDone, life, Interrupts
<1>1. CASE TakeSignal
  BY <1>1 DEF TakeSignal
<1>2. CASE ClearSignal
  BY <1>2 DEF ClearSignal
<1>3. CASE CheckFinalize
  BY <1>3 DEF CheckFinalize
<1>4. CASE TryDequeue
  <2>1. CASE relay = <<>>
    BY <1>4, <2>1 DEF TryDequeue
  <2>2. CASE relay # <<>>
    <3> HIDE DEF ReceiverInv, TypeOKReceiver, QuietWhenFinal, NoInterruptStranded,
                 ReceiverGoes, queue, thread, anyDone, life, Interrupts
    <3>1. /\ receiver' = "call" /\ handling' = Head(relay) /\ relay' = Tail(relay)
          /\ UNCHANGED <<rxEvent, anyDone, life>>
      BY <1>4, <2>2 DEF TryDequeue, ReceiverGoes
    <3>2. Head(relay) \in Interrupts /\ Tail(relay) \in Seq(Interrupts)
      <4>1. relay \in Seq(Interrupts)
        BY DEF ReceiverInv, TypeOKReceiver
      <4>2. QED
        BY <2>2, <4>1
    <3>3. TypeOKReceiver'
      BY <3>1, <3>2 DEF ReceiverInv, TypeOKReceiver, anyDone, life
    <3>4. QuietWhenFinal'
      BY <2>2, <3>1 DEF ReceiverInv, QuietWhenFinal, anyDone, life
    <3>5. NoInterruptStranded'
      BY <3>1 DEF NoInterruptStranded
    <3>6. QED
      BY <3>3, <3>4, <3>5 DEF ReceiverInv
  <2>3. QED
    BY <2>1, <2>2
<1>5. CASE CallHandler
  BY <1>5 DEF CallHandler
<1>6. CASE FinishHandler
  BY <1>6 DEF FinishHandler
<1>7. CASE HandlerReturns
  BY <1>7 DEF HandlerReturns
<1>8. QED
  BY <1>1, <1>2, <1>3, <1>4, <1>5, <1>6, <1>7 DEF ReceiverStep

\* An interrupt that is relayed sets the event.
LEMMA RaiseInv ==
    ASSUME ReceiverInv, NEW i \in Interrupts, Raise(i)
    PROVE  ReceiverInv'
<1>1. relay \in Seq(Interrupts)
  BY DEF ReceiverInv, TypeOKReceiver
<1>2. Append(relay, i) \in Seq(Interrupts)
  BY <1>1
<1>3. TypeOKReceiver'
  BY <1>2 DEF ReceiverInv, TypeOKReceiver, Raise, thread, anyDone, life
<1>4. QuietWhenFinal' /\ NoInterruptStranded'
  BY DEF ReceiverInv, QuietWhenFinal, NoInterruptStranded, Raise, anyDone, life
<1>5. QED
  BY <1>3, <1>4 DEF ReceiverInv

\* Waiters leave the queue and the event alone and only wait while it runs.
LEMMA WaiterStepInv ==
    ASSUME ReceiverInv, NEW t \in Waiters,
           \/ finalizer = "running" /\ WaitAnyHandlerDone(t)
           \/ LookAtStatus(t) \/ WakeUp(t)
    PROVE  ReceiverInv'
<1> USE DEF ReceiverInv, TypeOKReceiver, QuietWhenFinal, NoInterruptStranded,
            queue, thread, life, Return
<1>1. CASE finalizer = "running" /\ WaitAnyHandlerDone(t)
  BY <1>1 DEF WaitAnyHandlerDone
<1>2. CASE LookAtStatus(t)
  BY <1>2 DEF LookAtStatus
<1>3. CASE WakeUp(t)
  BY <1>3 DEF WakeUp
<1>4. QED
  BY <1>1, <1>2, <1>3

\* Finalize, the join and Initialize.
LEMMA LifeInv ==
    ASSUME ReceiverInv, Finalize \/ JoinReceiver \/ Initialize
    PROVE  ReceiverInv'
<1> USE DEF ReceiverInv, TypeOKReceiver, QuietWhenFinal, NoInterruptStranded,
            queue, thread, anyDone, life
<1>1. CASE Finalize
  BY <1>1 DEF Finalize
<1>2. CASE JoinReceiver
  BY <1>2 DEF JoinReceiver
<1>3. CASE Initialize
  BY <1>3 DEF Initialize
<1>4. QED
  BY <1>1, <1>2, <1>3

\* Every step keeps the receiver's invariant.
LEMMA ReceiverNextInv == ReceiverInv /\ [ReceiverNext]_receiverVars => ReceiverInv'
<1> SUFFICES ASSUME ReceiverInv, [ReceiverNext]_receiverVars PROVE ReceiverInv'
  OBVIOUS
<1>1. CASE RaiseBounded
  BY <1>1, RaiseInv DEF RaiseBounded, Interrupts
<1>2. CASE ReceiverStep \/ HandlerReturns
  BY <1>2, ReceiverStepInv
<1>3. ASSUME NEW t \in Waiters,
             \/ finalizer = "running" /\ WaitAnyHandlerDone(t)
             \/ LookAtStatus(t) \/ WakeUp(t)
      PROVE  ReceiverInv'
  BY <1>3, WaiterStepInv
<1>4. CASE Finalize \/ JoinReceiver \/ Initialize
  BY <1>4, LifeInv
<1>5. CASE UNCHANGED receiverVars
  BY <1>5 DEF receiverVars, queue, thread, anyDone, life, ReceiverInv,
              TypeOKReceiver, QuietWhenFinal, NoInterruptStranded
<1>6. QED
  BY <1>1, <1>2, <1>3, <1>4, <1>5 DEF ReceiverNext

(* The receiver starts quiet, with nothing relayed. *)
LEMMA ReceiverInitInv == ReceiverInit => ReceiverInv
<1> SUFFICES ASSUME ReceiverInit PROVE ReceiverInv
  OBVIOUS
<1>1. relay \in Seq(Interrupts)
  BY DEF ReceiverInit
<1>2. TypeOKReceiver
  BY <1>1 DEF ReceiverInit, TypeOKReceiver
<1>3. QED
  BY <1>2 DEF ReceiverInit, ReceiverInv, QuietWhenFinal, NoInterruptStranded

(* The invariant holds in every state. *)
LEMMA ReceiverInvariance == ReceiverSpec => []ReceiverInv
BY ReceiverInitInv, ReceiverNextInv, PTL DEF ReceiverSpec

\* No interrupt is stranded (gxlow_InterruptReceiver.cpp, ReceiverThreadFunc):
\* taking the event, clearing it and draining the queue are separate steps, and
\* yet the receiver never sleeps on an interrupt, for every watermark.
THEOREM InterruptsAreNotStranded == ReceiverSpec => []NoInterruptStranded
BY ReceiverInvariance, PTL DEF ReceiverInv

------------------------------------------------------------------------------
\* The steps that leave the status, the event and the waiters alone.
LEMMA AnyDoneUnchanged ==
    ASSUME ReceiverInv, Announced, NoMissedHandler, UNCHANGED anyDone
    PROVE  Announced' /\ NoMissedHandler'
BY DEF Announced, NoMissedHandler, anyDone

\* A finished handler: who waits for the lock finds the status, who sleeps is
\* signalled.
LEMMA FinishHandlerInv ==
    ASSUME ReceiverInv, Announced, NoMissedHandler, FinishHandler
    PROVE  Announced' /\ NoMissedHandler'
BY DEF ReceiverInv, TypeOKReceiver, Announced, NoMissedHandler, FinishHandler

\* The one waiter begins, looks at the status and sleeps or returns.
LEMMA OneWaiterInv ==
    ASSUME \A s, t \in Waiters : s = t,
           ReceiverInv, Announced, NoMissedHandler, NEW t \in Waiters,
           WaitAnyHandlerDone(t) \/ LookAtStatus(t) \/ WakeUp(t)
    PROVE  Announced' /\ NoMissedHandler'
<1> USE DEF ReceiverInv, TypeOKReceiver, Announced, NoMissedHandler, Return
<1>1. CASE WaitAnyHandlerDone(t)
  BY <1>1 DEF WaitAnyHandlerDone
<1>2. CASE LookAtStatus(t)
  BY <1>2 DEF LookAtStatus
<1>3. CASE WakeUp(t)
  BY <1>3 DEF WakeUp
<1>4. QED
  BY <1>1, <1>2, <1>3

\* The receiver starts anew while nobody waits.
LEMMA InitializeInv ==
    ASSUME ReceiverInv, Announced, Initialize
    PROVE  Announced' /\ NoMissedHandler'
BY DEF ReceiverInv, TypeOKReceiver, QuietWhenFinal, Announced, NoMissedHandler,
       Initialize

(* Each step of the receiver and of the waiter keeps what the waiter relies on. *)
LEMMA WaiterNextInv ==
    ASSUME \A s, t \in Waiters : s = t
    PROVE  WaiterInv /\ [ReceiverNext]_receiverVars => WaiterInv'
<1> SUFFICES ASSUME ReceiverInv, Announced, NoMissedHandler,
                    [ReceiverNext]_receiverVars
             PROVE  ReceiverInv' /\ Announced' /\ NoMissedHandler'
  BY DEF WaiterInv
<1>1. ReceiverInv'
  BY ReceiverNextInv
<1>2. CASE UNCHANGED anyDone
  BY <1>1, <1>2, AnyDoneUnchanged
<1>3. CASE FinishHandler
  BY <1>1, <1>3, FinishHandlerInv
<1>4. ASSUME NEW t \in Waiters, WaitAnyHandlerDone(t) \/ LookAtStatus(t) \/ WakeUp(t)
      PROVE  Announced' /\ NoMissedHandler'
  BY <1>4, OneWaiterInv
<1>5. CASE Initialize
  BY <1>1, <1>5, InitializeInv
<1>6. ASSUME RaiseBounded \/ HandlerReturns \/ Finalize \/ JoinReceiver
             \/ TakeSignal \/ ClearSignal \/ CheckFinalize \/ TryDequeue
             \/ CallHandler \/ UNCHANGED receiverVars
      PROVE  UNCHANGED anyDone
  BY <1>6 DEF RaiseBounded, Raise, HandlerReturns, Finalize, JoinReceiver,
              TakeSignal, ClearSignal, CheckFinalize, TryDequeue, CallHandler,
              receiverVars
<1>7. QED
  BY <1>1, <1>2, <1>3, <1>4, <1>5, <1>6 DEF ReceiverNext, ReceiverStep

\* One waiter misses no handler (WaitAnyHandlerDone and CallHandlerFunc),
\* although it decides to wait under the table lock and waits outside it, and
\* although the receiver may be finalized and initialized in between.
THEOREM HandlersAreNotMissed ==
    ASSUME \A s, t \in Waiters : s = t
    PROVE  ReceiverSpec => []NoMissedHandler
<1>1. ReceiverInit => WaiterInv
  BY ReceiverInitInv DEF ReceiverInit, WaiterInv, Announced, NoMissedHandler
<1>2. WaiterInv /\ [ReceiverNext]_receiverVars => WaiterInv'
  BY WaiterNextInv
<1>3. WaiterInv => NoMissedHandler
  BY DEF WaiterInv
<1>4. QED
  BY <1>1, <1>2, <1>3, PTL DEF ReceiverSpec

------------------------------------------------------------------------------
(* Interrupts in the relay, and requests in their order. *)

\* The command interrupts in a sequence of interrupts.
P3Ds(s) == Cardinality({i \in 1 .. Len(s) : s[i] = "P3D"})

\* No interrupt is none of the commands.
LEMMA P3DsOfNone == P3Ds(<<>>) = 0
<1>1. Len(<<>>) = 0
  BY EmptySeq
<1>2. {i \in 1 .. Len(<<>>) : <<>>[i] = "P3D"} = {}
  BY <1>1
<1>3. QED
  BY <1>2, FS_EmptySet DEF P3Ds

\* The places of command interrupts are a finite set.
LEMMA P3DsFinite ==
    ASSUME NEW s \in Seq(Interrupts)
    PROVE  /\ IsFiniteSet({i \in 1 .. Len(s) : s[i] = "P3D"})
           /\ P3Ds(s) \in Nat
<1> DEFINE places == {i \in 1 .. Len(s) : s[i] = "P3D"}
<1>1. Len(s) \in Nat /\ IsFiniteSet(1 .. Len(s))
  BY LenProperties, FS_Interval
<1>2. places \in SUBSET (1 .. Len(s))
  OBVIOUS
<1>3. IsFiniteSet(places)
  BY <1>1, <1>2, FS_Subset
<1>4. QED
  BY <1>3, FS_CardinalityType DEF P3Ds

\* An interrupt that is relayed counts if it is one.
LEMMA P3DsAppend ==
    ASSUME NEW s \in Seq(Interrupts), NEW i \in Interrupts
    PROVE  P3Ds(Append(s, i)) = IF i = "P3D" THEN P3Ds(s) + 1 ELSE P3Ds(s)
<1> DEFINE n == Len(s)
           longer == Append(s, i)
           before == {k \in 1 .. n : s[k] = "P3D"}
           after == {k \in 1 .. Len(longer) : longer[k] = "P3D"}
<1>1. /\ n \in Nat /\ Len(longer) = n + 1 /\ longer[n + 1] = i
      /\ \A k \in 1 .. n : longer[k] = s[k]
  BY LenProperties, AppendProperties
<1>2. IsFiniteSet(before) /\ P3Ds(s) = Cardinality(before)
  BY P3DsFinite DEF P3Ds
<1>3. P3Ds(longer) = Cardinality(after)
  BY DEF P3Ds
<1> HIDE DEF n, longer
<1>4. 1 .. Len(longer) = (1 .. n) \cup {n + 1} /\ n + 1 \notin 1 .. n
  BY <1>1
<1>5. CASE i = "P3D"
  <2>1. \A k : k \in after <=> k \in before \cup {n + 1}
    BY <1>1, <1>4, <1>5
  <2>2. after = before \cup {n + 1} /\ n + 1 \notin before
    BY <1>4, <2>1
  <2> HIDE DEF before, after
  <2>3. Cardinality(after) = Cardinality(before) + 1
    BY <1>2, <2>2, FS_AddElement
  <2>4. QED
    BY <1>2, <1>3, <1>5, <2>3 DEF longer
<1>6. CASE i # "P3D"
  <2>1. \A k : k \in after <=> k \in before
    BY <1>1, <1>4, <1>6
  <2>2. after = before
    BY <2>1
  <2>3. QED
    BY <1>2, <1>3, <1>6, <2>2 DEF longer
<1>7. QED
  BY <1>5, <1>6

\* An interrupt that is dequeued counted if it is one.
LEMMA P3DsTail ==
    ASSUME NEW s \in Seq(Interrupts), s # <<>>
    PROVE  P3Ds(s) = IF Head(s) = "P3D" THEN P3Ds(Tail(s)) + 1 ELSE P3Ds(Tail(s))
<1> DEFINE n == Len(s)
           rest == Tail(s)
           before == {k \in 1 .. n : s[k] = "P3D"}
           later == before \ {1}
           after == {k \in 1 .. Len(rest) : rest[k] = "P3D"}
           f == [k \in later |-> k - 1]
<1>1. /\ n \in Nat \ {0} /\ rest \in Seq(Interrupts) /\ Len(rest) = n - 1 /\ Head(s) = s[1]
      /\ \A k \in 1 .. Len(rest) : rest[k] = s[k + 1]
  BY LenProperties, EmptySeq, HeadTailProperties
<1>2. IsFiniteSet(before) /\ P3Ds(s) = Cardinality(before) /\ Cardinality(before) \in Nat
  BY P3DsFinite DEF P3Ds
<1>3. P3Ds(rest) = Cardinality(after)
  BY DEF P3Ds
<1>4. /\ IsFiniteSet(later)
      /\ Cardinality(later) = IF 1 \in before THEN Cardinality(before) - 1 ELSE Cardinality(before)
  <2> HIDE DEF before
  <2> QED
    BY <1>2, FS_RemoveElement
<1>5. 1 \in before <=> Head(s) = "P3D"
  BY <1>1
<1> HIDE DEF n, rest
<1>6. ASSUME NEW k \in later PROVE k - 1 \in after
  <2>1. k \in 1 .. n /\ k # 1 /\ s[k] = "P3D" /\ k - 1 \in 1 .. Len(rest) /\ (k - 1) + 1 = k
    BY <1>1
  <2>2. rest[k - 1] = s[k]
    BY <1>1, <2>1
  <2>3. QED
    BY <2>1, <2>2
<1>7. ASSUME NEW k \in after PROVE k + 1 \in later /\ (k + 1) - 1 = k
  <2>1. k \in 1 .. Len(rest) /\ rest[k] = "P3D" /\ k + 1 \in 1 .. n /\ k + 1 # 1
    BY <1>1
  <2>2. s[k + 1] = "P3D"
    BY <1>1, <2>1
  <2>3. QED
    BY <1>1, <2>1, <2>2
<1>8. \A k \in later : k \in Int
  BY <1>1
<1> HIDE DEF before, after, later
<1>9. f \in Bijection(later, after)
  <2>1. f \in [later -> after]
    BY <1>6
  <2>2. \A a, b \in later : f[a] = f[b] => a = b
    BY <1>8
  <2>3. \A c \in after : \E a \in later : f[a] = c
    BY <1>7
  <2>4. QED
    BY <2>1, <2>2, <2>3 DEF Bijection, Injection, Surjection, IsInjective
<1>10. Cardinality(after) = Cardinality(later)
  <2>1. ExistsBijection(later, after)
    BY <1>9 DEF ExistsBijection
  <2>2. QED
    BY <1>4, <2>1, FS_Bijection
<1>11. QED
  BY <1>2, <1>3, <1>4, <1>5, <1>10 DEF rest

\* The requests of a list after the first a and up to b, in their order.
Requests(l, a, b) == [k \in 1 .. b - a |-> <<l, a + k>>]
Numbered == Lists \X Nat

\* They are a sequence.
LEMMA RequestsAreSequence ==
    ASSUME NEW l \in Lists, NEW a \in Nat, NEW b \in Nat, a <= b
    PROVE  /\ Requests(l, a, b) \in Seq(Numbered)
           /\ Len(Requests(l, a, b)) = b - a
           /\ \A k \in 1 .. b - a : Requests(l, a, b)[k] = <<l, a + k>>
<1> DEFINE n == b - a
           f == [k \in 1 .. n |-> <<l, a + k>>]
<1>1. n \in Nat
  OBVIOUS
<1>2. f \in [1 .. n -> Numbered]
  BY <1>1 DEF Numbered
<1>3. f \in Seq(Numbered) /\ Len(f) = n
  <2> HIDE DEF f, n
  <2>1. f \in Seq(Numbered)
    BY <1>1, <1>2, SeqDef
  <2>2. QED
    BY <1>1, <1>2, <2>1, LenProperties
<1>4. QED
  BY <1>3 DEF Requests

\* There is none after the last.
LEMMA NoRequests ==
    ASSUME NEW l \in Lists, NEW a \in Nat
    PROVE  Requests(l, a, a) = <<>>
<1>1. a <= a /\ a - a = 0
  OBVIOUS
<1>2. Requests(l, a, a) \in Seq(Numbered) /\ Len(Requests(l, a, a)) = 0
  BY <1>1, RequestsAreSequence
<1>3. QED
  BY <1>2, EmptySeq

\* The first of them, and those after it.
LEMMA FirstRequest ==
    ASSUME NEW l \in Lists, NEW a \in Nat, NEW b \in Nat, a < b
    PROVE  /\ Requests(l, a, b) # <<>>
           /\ Head(Requests(l, a, b)) = <<l, a + 1>>
           /\ Tail(Requests(l, a, b)) = Requests(l, a + 1, b)
<1> DEFINE all == Requests(l, a, b)
           rest == Requests(l, a + 1, b)
<1>0. a + 1 \in Nat /\ a <= b /\ a + 1 <= b
  OBVIOUS
<1>1. all \in Seq(Numbered) /\ Len(all) = b - a /\ \A k \in 1 .. b - a : all[k] = <<l, a + k>>
  BY <1>0, RequestsAreSequence
<1>2. /\ rest \in Seq(Numbered) /\ Len(rest) = b - (a + 1)
      /\ \A k \in 1 .. b - (a + 1) : rest[k] = <<l, (a + 1) + k>>
  <2> DEFINE a1 == a + 1
  <2>1. a1 \in Nat /\ a1 <= b
    BY <1>0
  <2> HIDE DEF a1
  <2>2. /\ Requests(l, a1, b) \in Seq(Numbered) /\ Len(Requests(l, a1, b)) = b - a1
        /\ \A k \in 1 .. b - a1 : Requests(l, a1, b)[k] = <<l, a1 + k>>
    BY <2>1, RequestsAreSequence
  <2>3. QED
    BY <2>2 DEF a1
<1> HIDE DEF all, rest
<1>3. all # <<>>
  BY <1>1, EmptySeq
<1>4. Head(all) = <<l, a + 1>>
  BY <1>1, <1>3
<1>5. Tail(all) = rest
  <2> DEFINE tail == Tail(all)
  <2>1. tail \in Seq(Numbered) /\ Len(tail) = Len(all) - 1 /\ \A k \in 1 .. Len(tail) : tail[k] = all[k + 1]
    BY <1>1, <1>3, HeadTailProperties
  <2> HIDE DEF tail
  <2>2. ASSUME NEW k \in 1 .. Len(tail) PROVE tail[k] = rest[k]
    <3>1. k + 1 \in 1 .. b - a /\ k \in 1 .. b - (a + 1) /\ a + (k + 1) = (a + 1) + k
      BY <1>1, <2>1
    <3>2. QED
      BY <1>1, <1>2, <2>1, <3>1
  <2>3. Len(tail) = Len(rest)
    BY <1>1, <1>2, <2>1
  <2>4. tail = rest
    BY <1>2, <2>1, <2>2, <2>3, SeqEqual
  <2>5. QED
    BY <2>4 DEF tail
<1>6. QED
  BY <1>3, <1>4, <1>5 DEF all, rest

\* Those up to b and those after it.
LEMMA MoreRequests ==
    ASSUME NEW l \in Lists, NEW a \in Nat, NEW b \in Nat, NEW c \in Nat, a <= b, b <= c
    PROVE  Requests(l, a, b) \o Requests(l, b, c) = Requests(l, a, c)
<1> DEFINE first == Requests(l, a, b)
           second == Requests(l, b, c)
           all == Requests(l, a, c)
           both == first \o second
<1>1. first \in Seq(Numbered) /\ Len(first) = b - a /\ \A k \in 1 .. b - a : first[k] = <<l, a + k>>
  BY RequestsAreSequence
<1>2. second \in Seq(Numbered) /\ Len(second) = c - b /\ \A k \in 1 .. c - b : second[k] = <<l, b + k>>
  BY RequestsAreSequence
<1>3. all \in Seq(Numbered) /\ Len(all) = c - a /\ \A k \in 1 .. c - a : all[k] = <<l, a + k>>
  <2>1. a <= c
    OBVIOUS
  <2>2. QED
    BY <2>1, RequestsAreSequence
<1> HIDE DEF first, second, all
<1>4. /\ both \in Seq(Numbered) /\ Len(both) = Len(first) + Len(second)
      /\ \A k \in 1 .. Len(first) + Len(second) :
            both[k] = IF k <= Len(first) THEN first[k] ELSE second[k - Len(first)]
  BY <1>1, <1>2, ConcatProperties
<1> HIDE DEF both
<1>5. Len(both) = c - a
  BY <1>1, <1>2, <1>4
<1>6. ASSUME NEW k \in 1 .. c - a PROVE both[k] = all[k]
  <2>1. k \in 1 .. Len(first) + Len(second)
    BY <1>1, <1>2
  <2>2. CASE k <= b - a
    <3>1. k \in 1 .. b - a /\ both[k] = first[k]
      BY <1>1, <1>4, <2>1, <2>2
    <3>2. QED
      BY <1>1, <1>3, <3>1
  <2>3. CASE ~(k <= b - a)
    <3>1. k - (b - a) \in 1 .. c - b /\ b + (k - (b - a)) = a + k
      BY <2>3
    <3>2. both[k] = second[k - (b - a)]
      BY <1>1, <1>4, <2>1, <2>3
    <3>3. QED
      BY <1>2, <1>3, <3>1, <3>2
  <2>4. QED
    BY <2>2, <2>3
<1>7. both = all
  BY <1>3, <1>4, <1>5, <1>6, SeqEqual
<1>8. QED
  BY <1>7 DEF both, first, second, all

------------------------------------------------------------------------------
(* The lists. *)

RecordType == [max : Nat, used : Nat, issued : Nat, run : Nat, stops : SUBSET Nat]

\* A list is issued from its first request on, no further than it has requests
\* and than the speculation goes.
InOrder(r) == r.run <= r.issued /\ r.issued <= r.used /\ r.issued <= r.run + NumSpeculative

ListsOK ==
    /\ list \in [Lists -> RecordType]
    /\ bound \in Lists \cup {NoList}
    /\ runList \in Lists \cup {NoList}
    /\ startRun \in BOOLEAN /\ isRunning \in BOOLEAN /\ stopSpeculative \in BOOLEAN
    /\ \A l \in Lists : InOrder(list[l])

\* What has been issued and not counted is of the run list.
OnlyRunList ==
    /\ outstanding = IF runList = NoList THEN <<>>
                     ELSE Requests(runList, list[runList].run, list[runList].issued)
    /\ \A l \in Lists \ {runList} : list[l].issued = list[l].run

\* A stop beyond the requests counted is the reserved one, at the last request
\* issued.
StopsAhead ==
    \A l \in Lists : \A k \in list[l].stops :
       /\ k <= list[l].issued
       /\ k > list[l].run => l = runList /\ k = list[l].issued /\ stopSpeculative

\* Between the two sections of nngxRunCmdlist the list runs, and nothing of it is
\* issued yet.
IssueIsDue ==
    app = "issue" =>
       /\ runList \in Lists /\ isRunning /\ ~stopSpeculative
       /\ list[runList].issued = list[runList].run
       /\ list[runList].run < list[runList].used

RunningHasList == isRunning => runList \in Lists /\ startRun

ListsInv ==
    /\ ListsOK /\ OnlyRunList /\ StopsAhead /\ IssueIsDue /\ RunningHasList
    /\ QuietWhenIdle /\ BusyWhileRunning /\ NothingLeftBehind

\* How many requests are outstanding.
LEMMA OutstandingCount ==
    ASSUME ListsInv
    PROVE  /\ outstanding \in Seq(Numbered)
           /\ runList = NoList => outstanding = <<>> /\ Len(outstanding) = 0
           /\ runList \in Lists =>
                Len(outstanding) = list[runList].issued - list[runList].run
           /\ outstanding = <<>> <=> Len(outstanding) = 0
           /\ Len(outstanding) <= NumSpeculative
<1> USE CommandAssumption DEF ListsInv, ListsOK, OnlyRunList, InOrder, RecordType
<1>1. CASE runList = NoList
  BY <1>1, EmptySeq
<1>2. CASE runList \in Lists
  <2> DEFINE a == list[runList].run
             b == list[runList].issued
  <2>1. a \in Nat /\ b \in Nat /\ a <= b /\ b <= a + NumSpeculative
    BY <1>2
  <2>2. outstanding = Requests(runList, a, b)
    BY <1>2
  <2> HIDE DEF a, b
  <2>3. Requests(runList, a, b) \in Seq(Numbered) /\ Len(Requests(runList, a, b)) = b - a
    BY <1>2, <2>1, RequestsAreSequence
  <2>4. outstanding = <<>> <=> Len(outstanding) = 0
    BY <2>2, <2>3, EmptySeq
  <2>5. b - a <= NumSpeculative
    BY <2>1
  <2>6. QED
    BY <1>2, <2>2, <2>3, <2>4, <2>5 DEF a, b
<1>3. QED
  BY <1>1, <1>2

\* The same of their number alone.
LEMMA OutstandingLength == ListsInv => Len(outstanding) \in Nat
BY OutstandingCount, LenProperties

\* A list at rest has nothing issued and no stop reserved.
LEMMA AtRestNothingIssued ==
    ASSUME ListsInv, ~isRunning
    PROVE  /\ outstanding = <<>> /\ ~stopSpeculative
           /\ \A l \in Lists : list[l].issued = list[l].run
           /\ \A l \in Lists : \A k \in list[l].stops : k <= list[l].run
<1> USE CommandAssumption DEF ListsInv, ListsOK, InOrder, RecordType
<1>1. outstanding = <<>> /\ ~stopSpeculative
  BY DEF QuietWhenIdle, BusyWhileRunning
<1>2. ASSUME NEW l \in Lists PROVE list[l].issued = list[l].run
  <2>1. CASE l # runList
    BY <2>1 DEF OnlyRunList
  <2>2. CASE l = runList
    <3> DEFINE a == list[l].issued
               b == list[l].run
    <3>1. a - b = 0
      BY <1>1, <2>2, OutstandingCount
    <3>2. a \in Nat /\ b \in Nat
      OBVIOUS
    <3> HIDE DEF a, b
    <3>3. a = b
      BY <3>1, <3>2
    <3>4. QED
      BY <3>3 DEF a, b
  <2>3. QED
    BY <2>1, <2>2
<1>3. ASSUME NEW l \in Lists, NEW k \in list[l].stops PROVE k <= list[l].run
  BY <1>1, <1>2 DEF StopsAhead
<1>4. QED
  BY <1>1, <1>2, <1>3

\* How far requests are issued when no stop lies ahead.
LEMMA LastToIssueIs ==
    ASSUME NEW r \in RecordType, InOrder(r), \A k \in r.stops : k <= r.issued
    PROVE  /\ LastToIssue(r) = Least(r.used, r.run + NumSpeculative)
           /\ LastToIssue(r) \in Nat
           /\ r.issued <= LastToIssue(r)
           /\ LastToIssue(r) <= r.used /\ LastToIssue(r) <= r.run + NumSpeculative
           /\ r.run < r.used => LastToIssue(r) > r.run
<1> USE CommandAssumption DEF RecordType, InOrder
<1> DEFINE upto == Least(r.used, r.run + NumSpeculative)
           stops == {k \in r.stops : r.issued < k /\ k <= upto}
<1>1. \A k \in r.stops : k \in Nat
  OBVIOUS
<1>2. r.issued \in Nat
  OBVIOUS
<1>3. stops = {}
  BY <1>1, <1>2
<1>4. LastToIssue(r) = upto
  BY <1>3 DEF LastToIssue
<1>5. QED
  BY <1>4 DEF Least

\* What sys_issueSpeculativeCommandRequests issues follows what is outstanding,
\* and nothing while a stop is reserved.
LEMMA IssueAdds ==
    ASSUME NEW l \in Lists, NEW r \in RecordType, InOrder(r), \A k \in r.stops : k <= r.issued,
           stopSpeculative \in BOOLEAN,
           NEW pending, pending = Requests(l, r.run, r.issued), Issue(l, r, pending)
    PROVE  \E last \in Nat :
             /\ r.issued <= last /\ last <= r.used /\ last <= r.run + NumSpeculative
             /\ list' = [list EXCEPT ![l] = [r EXCEPT !.issued = last]]
             /\ stopSpeculative' = stopSpeculative
             /\ gpu' = gpu + (last - r.issued)
             /\ outstanding' = Requests(l, r.run, last)
             /\ stopSpeculative => last = r.issued
             /\ ~stopSpeculative /\ r.run < r.used => last > r.run
<1> USE CommandAssumption
<1> DEFINE last == IF stopSpeculative THEN r.issued ELSE LastToIssue(r)
<1>1. /\ last \in Nat /\ r.issued <= last /\ last <= r.used /\ last <= r.run + NumSpeculative
      /\ ~stopSpeculative /\ r.run < r.used => last > r.run
  BY LastToIssueIs DEF RecordType, InOrder
<1>2. /\ list' = [list EXCEPT ![l] = [r EXCEPT !.issued = last]]
      /\ stopSpeculative' = (stopSpeculative \/ last \in r.stops \ {r.issued})
      /\ gpu' = gpu + (last - r.issued)
      /\ outstanding' = pending \o [k \in 1 .. last - r.issued |-> <<l, r.issued + k>>]
  BY DEF Issue
<1>3. stopSpeculative => last = r.issued
  OBVIOUS
<1> HIDE DEF last
<1>4. last \notin r.stops \ {r.issued}
  BY <1>1 DEF RecordType
<1>5. outstanding' = Requests(l, r.run, r.issued) \o Requests(l, r.issued, last)
  BY <1>2 DEF Requests
<1>6. outstanding' = Requests(l, r.run, last)
  <2>1. r.run \in Nat /\ r.issued \in Nat /\ r.run <= r.issued
    BY DEF RecordType, InOrder
  <2>2. QED
    BY <1>1, <1>5, <2>1, MoreRequests
<1>7. stopSpeculative' = stopSpeculative
  BY <1>2, <1>4
<1>8. QED
  BY <1>1, <1>2, <1>3, <1>6, <1>7

\* Steps that change neither the lists nor what is outstanding.
LEMMA ListsStay ==
    ASSUME ListsInv, UNCHANGED <<list, runList, startRun, isRunning, stopSpeculative, outstanding>>,
           bound' \in Lists \cup {NoList}, app' = "issue" <=> app = "issue"
    PROVE  ListsInv'
BY DEF ListsInv, ListsOK, OnlyRunList, StopsAhead, IssueIsDue, RunningHasList, QuietWhenIdle,
       BusyWhileRunning, NothingLeftBehind

\* A list at rest may be started over, and forgotten.
LEMMA StartedOver ==
    ASSUME ListsInv, NEW l \in Lists, ~(runList = l /\ isRunning), app # "issue", app' # "issue",
           NEW n \in Nat, list' = [list EXCEPT ![l] = [Fresh EXCEPT !.max = n]],
           bound' \in Lists \cup {NoList},
           \/ UNCHANGED <<runList, startRun>>
           \/ runList = l /\ runList' = NoList /\ startRun' = FALSE,
           UNCHANGED <<isRunning, stopSpeculative, outstanding>>
    PROVE  ListsInv'
<1> USE CommandAssumption
<1> DEFINE r == [Fresh EXCEPT !.max = n]
<1>1. r \in RecordType /\ r.used = 0 /\ r.issued = 0 /\ r.run = 0 /\ r.stops = {} /\ InOrder(r)
  BY DEF Fresh, RecordType, InOrder
<1>2. list \in [Lists -> RecordType] /\ list' = [list EXCEPT ![l] = r]
  BY DEF ListsInv, ListsOK
<1> HIDE DEF r
<1>3. list'[l] = r /\ \A m \in Lists : m # l => list'[m] = list[m]
  BY <1>2
<1>4. ListsOK'
  BY <1>1, <1>2, <1>3 DEF ListsInv, ListsOK
<1>5. StopsAhead'
  <2>1. ASSUME NEW m \in Lists, NEW k \in list'[m].stops
        PROVE  /\ k <= list'[m].issued
               /\ k > list'[m].run => m = runList' /\ k = list'[m].issued /\ stopSpeculative'
    <3>1. m # l
      BY <1>1, <1>3, <2>1
    <3>2. k \in list[m].stops /\ list'[m] = list[m]
      BY <1>3, <2>1, <3>1
    <3>3. k > list[m].run => m = runList /\ runList' = runList
      BY <3>1, <3>2 DEF ListsInv, StopsAhead
    <3>4. QED
      BY <3>2, <3>3 DEF ListsInv, StopsAhead
  <2>2. QED
    BY <2>1 DEF StopsAhead
<1>6. CASE runList = l
  <2>1. ~isRunning /\ outstanding = <<>> /\ ~stopSpeculative
        /\ \A m \in Lists : list[m].issued = list[m].run
    BY <1>6, AtRestNothingIssued
  <2>2. \A m \in Lists : list'[m].issued = list'[m].run
    BY <1>1, <1>3, <2>1
  <2>3. runList' = NoList \/ (runList' \in Lists /\ Requests(runList', 0, 0) = <<>>)
    <3>1. Requests(l, 0, 0) = <<>>
      BY NoRequests
    <3>2. QED
      BY <1>6, <3>1
  <2>4. OnlyRunList'
    BY <1>1, <1>3, <1>6, <2>1, <2>2, <2>3 DEF OnlyRunList
  <2>5. QuietWhenIdle' /\ BusyWhileRunning' /\ IssueIsDue' /\ RunningHasList'
    BY <2>1 DEF QuietWhenIdle, BusyWhileRunning, IssueIsDue, RunningHasList
  <2>6. NothingLeftBehind'
    BY <1>1, <1>3, <1>6 DEF NothingLeftBehind
  <2>7. QED
    BY <1>4, <1>5, <2>4, <2>5, <2>6 DEF ListsInv
<1>7. CASE runList # l
  <2>1. UNCHANGED <<runList, startRun>> /\ (runList \in Lists => list'[runList] = list[runList])
    BY <1>3, <1>7
  <2>2. OnlyRunList'
    <3>1. runList = NoList \/ runList \in Lists
      BY DEF ListsInv, ListsOK
    <3>2. \A m \in Lists \ {runList} : list'[m].issued = list'[m].run
      BY <1>1, <1>3 DEF ListsInv, OnlyRunList
    <3>3. QED
      BY <2>1, <3>1, <3>2 DEF ListsInv, OnlyRunList
  <2>3. QuietWhenIdle' /\ BusyWhileRunning' /\ IssueIsDue' /\ RunningHasList' /\ NothingLeftBehind'
    <3>1. isRunning => runList \in Lists
      BY DEF ListsInv, RunningHasList
    <3>2. stopSpeculative => isRunning /\ list[runList].issued \in list[runList].stops
      BY DEF ListsInv, BusyWhileRunning
    <3>3. runList = NoList \/ runList \in Lists
      BY DEF ListsInv, ListsOK
    <3>4. QED
      BY <2>1, <3>1, <3>2, <3>3 DEF ListsInv, QuietWhenIdle, BusyWhileRunning, IssueIsDue,
                               RunningHasList, NothingLeftBehind
  <2>4. QED
    BY <1>4, <1>5, <2>2, <2>3 DEF ListsInv
<1>8. QED
  BY <1>6, <1>7

\* nngxRunCmdlist: a list at rest runs if it has requests that were not run.
LEMMA RunCmdlistInv ==
    ASSUME ListsInv, RunCmdlist
    PROVE  ListsInv'
<1> USE CommandAssumption
<1>1. /\ app = "idle" /\ bound \in Lists /\ ~isRunning /\ runList' = bound /\ startRun' = TRUE
      /\ isRunning' = (list[bound].run < list[bound].used)
      /\ app' = (IF isRunning' THEN "issue" ELSE "idle")
      /\ UNCHANGED <<list, bound, stopSpeculative, outstanding>>
  BY DEF RunCmdlist, ListsInv, ListsOK, ghosts
<1>2. /\ outstanding = <<>> /\ ~stopSpeculative
      /\ \A l \in Lists : list[l].issued = list[l].run
      /\ \A l \in Lists : \A k \in list[l].stops : k <= list[l].run
  BY <1>1, AtRestNothingIssued
<1>3. ListsOK'
  BY <1>1 DEF ListsInv, ListsOK
<1>4. list[bound] \in RecordType /\ InOrder(list[bound])
  BY <1>1 DEF ListsInv, ListsOK
<1>5. OnlyRunList'
  <2> DEFINE a == list[bound].run
  <2>1. a \in Nat
    BY <1>4 DEF RecordType
  <2> HIDE DEF a
  <2>2. Requests(bound, a, a) = <<>>
    BY <1>1, <2>1, NoRequests
  <2>3. QED
    BY <1>1, <1>2, <2>2 DEF OnlyRunList, a
<1>6. StopsAhead'
  <2>1. ASSUME NEW l \in Lists, NEW k \in list[l].stops PROVE k <= list[l].issued /\ ~(k > list[l].run)
    <3>1. list[l].run \in Nat /\ k \in Nat
      BY DEF ListsInv, ListsOK, RecordType
    <3>2. k <= list[l].run /\ list[l].issued = list[l].run
      BY <1>2
    <3>3. QED
      BY <3>1, <3>2
  <2>2. QED
    BY <1>1, <2>1 DEF StopsAhead
<1>7. IssueIsDue' /\ RunningHasList' /\ QuietWhenIdle' /\ BusyWhileRunning'
  BY <1>1, <1>2 DEF IssueIsDue, RunningHasList, QuietWhenIdle, BusyWhileRunning
<1>8. NothingLeftBehind'
  <2> DEFINE run == list[bound].run
             used == list[bound].used
  <2>1. run \in Nat /\ used \in Nat /\ run <= used
    BY <1>4 DEF RecordType, InOrder
  <2> HIDE DEF run, used
  <2>2. ~(run < used) => run = used
    BY <2>1
  <2>3. QED
    BY <1>1, <2>2 DEF NothingLeftBehind, run, used
<1>9. QED
  BY <1>3, <1>5, <1>6, <1>7, <1>8 DEF ListsInv

\* nngxStopCmdlist: the stop is at the last request issued, which is not counted yet.
LEMMA StopCmdlistInv ==
    ASSUME ListsInv, StopCmdlist
    PROVE  ListsInv'
<1> USE CommandAssumption
<1>1. /\ app = "idle" /\ app' = "idle" /\ runList \in Lists
      /\ UNCHANGED <<bound, runList, isRunning, outstanding>>
  BY DEF StopCmdlist, Idle, ListsInv, ListsOK, ghosts
<1>2. CASE ~isRunning
  <2>1. startRun' = FALSE /\ UNCHANGED <<list, stopSpeculative>>
    BY <1>2 DEF StopCmdlist
  <2>2. QED
    BY <1>1, <1>2, <2>1 DEF ListsInv, ListsOK, OnlyRunList, StopsAhead, IssueIsDue, RunningHasList,
         QuietWhenIdle, BusyWhileRunning, NothingLeftBehind
<1>3. CASE isRunning
  <2> DEFINE r == list[runList]
             r1 == [r EXCEPT !.stops = @ \cup {StopPoint}]
  <2>1. list' = [list EXCEPT ![runList] = r1] /\ stopSpeculative' = TRUE /\ UNCHANGED startRun
    BY <1>3 DEF StopCmdlist
  <2>2. list \in [Lists -> RecordType] /\ r \in RecordType /\ InOrder(r) /\ StopPoint = r.issued
    BY <1>1 DEF ListsInv, ListsOK, StopPoint
  <2>3. /\ r1 \in RecordType /\ r1.used = r.used /\ r1.issued = r.issued /\ r1.run = r.run
        /\ r1.stops = r.stops \cup {r.issued} /\ InOrder(r1)
    BY <2>2 DEF RecordType, InOrder
  <2> HIDE DEF r1
  <2>4. list'[runList] = r1 /\ \A m \in Lists : m # runList => list'[m] = list[m]
    BY <1>1, <2>1, <2>2
  <2>5. ListsOK'
    BY <1>1, <2>1, <2>2, <2>3, <2>4 DEF ListsInv, ListsOK
  <2>6. OnlyRunList' /\ IssueIsDue' /\ RunningHasList' /\ QuietWhenIdle'
    BY <1>1, <1>3, <2>1, <2>3, <2>4 DEF ListsInv, OnlyRunList, IssueIsDue, RunningHasList, QuietWhenIdle
  <2>7. StopsAhead'
    <3>1. ASSUME NEW m \in Lists, NEW k \in list'[m].stops
          PROVE  /\ k <= list'[m].issued
                 /\ k > list'[m].run => m = runList' /\ k = list'[m].issued /\ stopSpeculative'
      <4>1. CASE m # runList
        BY <1>1, <2>4, <4>1, <3>1 DEF ListsInv, StopsAhead
      <4>2. CASE m = runList /\ k \in r.stops
        BY <1>1, <2>1, <2>3, <2>4, <4>2 DEF ListsInv, StopsAhead
      <4>3. CASE m = runList /\ k = r.issued
        BY <1>1, <2>1, <2>2, <2>3, <2>4, <4>3 DEF RecordType
      <4>4. QED
        BY <2>3, <2>4, <3>1, <4>1, <4>2, <4>3
    <3>2. QED
      BY <3>1 DEF StopsAhead
  <2>8. BusyWhileRunning' /\ NothingLeftBehind'
    BY <1>1, <1>3, <2>1, <2>3, <2>4 DEF ListsInv, BusyWhileRunning, NothingLeftBehind
  <2>9. QED
    BY <2>5, <2>6, <2>7, <2>8 DEF ListsInv
<1>4. QED
  BY <1>2, <1>3

\* The run list goes on: its next requests are issued, unless a stop is reserved.
LEMMA RunListGoesOn ==
    ASSUME ListsInv, NEW r \in RecordType, InOrder(r), runList \in Lists, startRun,
           \A k \in r.stops : k <= r.issued /\ (k > r.run => k = r.issued /\ stopSpeculative),
           stopSpeculative => r.issued \in r.stops /\ r.issued > r.run,
           r.run < r.used, gpu \in Nat,
           NEW pending, pending = Requests(runList, r.run, r.issued), Issue(runList, r, pending),
           UNCHANGED <<bound, runList, startRun>>, isRunning' = TRUE, app' # "issue"
    PROVE  /\ ListsInv'
           /\ gpu' \in Nat
           /\ gpu' - gpu = Len(outstanding') - (r.issued - r.run)
<1> USE CommandAssumption
<1>1. PICK last \in Nat :
             /\ r.issued <= last /\ last <= r.used /\ last <= r.run + NumSpeculative
             /\ list' = [list EXCEPT ![runList] = [r EXCEPT !.issued = last]]
             /\ stopSpeculative' = stopSpeculative
             /\ gpu' = gpu + (last - r.issued)
             /\ outstanding' = Requests(runList, r.run, last)
             /\ stopSpeculative => last = r.issued
             /\ ~stopSpeculative /\ r.run < r.used => last > r.run
  <2>1. stopSpeculative \in BOOLEAN /\ \A k \in r.stops : k <= r.issued
    BY DEF ListsInv, ListsOK
  <2>2. QED
    BY <2>1, IssueAdds
<1> DEFINE r1 == [r EXCEPT !.issued = last]
<1>2. /\ r1 \in RecordType /\ InOrder(r1) /\ r1.issued = last /\ r1.run = r.run
      /\ r1.stops = r.stops /\ r1.used = r.used /\ list' = [list EXCEPT ![runList] = r1]
  BY <1>1 DEF RecordType, InOrder
<1> HIDE DEF r1
<1>3. list \in [Lists -> RecordType]
  BY DEF ListsInv, ListsOK
<1>4. list'[runList] = r1 /\ \A m \in Lists : m # runList => list'[m] = list[m]
  BY <1>2, <1>3
<1>5. r.run \in Nat /\ r.issued \in Nat /\ r.run <= r.issued
  BY DEF RecordType, InOrder
<1>6. last > r.run
  BY <1>1, <1>5
<1>7. outstanding' # <<>> /\ Len(outstanding') = last - r.run
  BY SMTT(30), <1>1, <1>5, <1>6, FirstRequest, RequestsAreSequence
<1>8. ListsOK'
  BY <1>1, <1>2, <1>3, <1>4 DEF ListsInv, ListsOK
<1>9. OnlyRunList'
  BY <1>1, <1>2, <1>4 DEF ListsInv, OnlyRunList
<1>10. StopsAhead'
  <2>1. ASSUME NEW m \in Lists, NEW k \in list'[m].stops
        PROVE  /\ k <= list'[m].issued
               /\ k > list'[m].run => m = runList' /\ k = list'[m].issued /\ stopSpeculative'
    <3>1. CASE m # runList
      BY <1>1, <1>4, <2>1, <3>1 DEF ListsInv, StopsAhead
    <3>2. CASE m = runList
      <4>1. k \in Nat /\ k \in r.stops
        BY <1>2, <1>4, <2>1, <3>2 DEF RecordType
      <4>2. k <= r.issued /\ (k > r.run => k = r.issued /\ stopSpeculative)
        BY <4>1
      <4>3. k <= last
        BY <1>1, <1>5, <4>1, <4>2
      <4>4. QED
        BY <1>1, <1>2, <1>4, <3>2, <4>2, <4>3
    <3>3. QED
      BY <3>1, <3>2
  <2>2. QED
    BY <2>1 DEF StopsAhead
<1>11. IssueIsDue' /\ RunningHasList' /\ QuietWhenIdle' /\ NothingLeftBehind'
  BY DEF IssueIsDue, RunningHasList, QuietWhenIdle, NothingLeftBehind
<1>12. BusyWhileRunning'
  BY <1>1, <1>2, <1>4, <1>7 DEF BusyWhileRunning
<1>13. gpu' \in Nat /\ gpu' - gpu = Len(outstanding') - (r.issued - r.run)
  BY SMTT(30), <1>1, <1>5, <1>7
<1>14. QED
  BY <1>8, <1>9, <1>10, <1>11, <1>12, <1>13 DEF ListsInv

\* A request that is added waits for its turn, or is issued at once when the
\* list has run out of requests.
LEMMA AddRequestInv ==
    ASSUME ListsInv, AddRequest, gpu \in Nat
    PROVE  /\ ListsInv'
           /\ gpu' \in Nat
           /\ gpu' - gpu = Len(outstanding') - Len(outstanding)
           /\ isRunning => outstanding' = outstanding
<1> USE CommandAssumption
<1> DEFINE old == list[bound]
           r == [old EXCEPT !.used = @ + 1]
<1>1. /\ app = "idle" /\ app' = "idle" /\ bound \in Lists /\ UNCHANGED <<bound, runList, startRun>>
      /\ Restarts => isRunning' = TRUE /\ Issue(bound, r, outstanding)
      /\ ~Restarts => /\ list' = [list EXCEPT ![bound] = r]
                      /\ UNCHANGED <<isRunning, stopSpeculative, gpu, outstanding>>
  BY DEF AddRequest, Idle, ListsInv, ListsOK, ghosts
<1>2. list \in [Lists -> RecordType] /\ old \in RecordType /\ InOrder(old)
  BY <1>1 DEF ListsInv, ListsOK
<1>3. /\ r \in RecordType /\ r.used = old.used + 1 /\ r.issued = old.issued /\ r.run = old.run
      /\ r.stops = old.stops /\ InOrder(r)
  BY <1>2 DEF RecordType, InOrder
<1>4. old.run \in Nat /\ old.issued \in Nat /\ old.used \in Nat /\ old.run <= old.used
  BY <1>2 DEF RecordType, InOrder
<1>5. Len(outstanding) \in Nat
  BY OutstandingCount, LenProperties
<1> HIDE DEF r
<1>6. CASE Restarts
  <2>1. bound = runList /\ startRun /\ ~isRunning
    BY <1>6 DEF Restarts
  <2>2. /\ outstanding = <<>> /\ ~stopSpeculative /\ old.issued = old.run
        /\ \A k \in old.stops : k <= old.run
    BY <1>1, <2>1, AtRestNothingIssued
  <2>3. outstanding = Requests(runList, r.run, r.issued)
    BY <1>1, <1>3, <1>4, <2>1, <2>2, NoRequests
  <2>4. r.run < r.used /\ r.issued = r.run
    BY <1>3, <1>4, <2>2
  <2>5. \A k \in r.stops : k <= r.issued /\ (k > r.run => k = r.issued /\ stopSpeculative)
    <3>1. ASSUME NEW k \in r.stops PROVE k <= r.issued /\ ~(k > r.run)
      <4>1. k \in Nat /\ k <= old.run
        BY <1>2, <1>3, <2>2, <3>1 DEF RecordType
      <4>2. QED
        BY <1>3, <1>4, <2>4, <4>1
    <3>2. QED
      BY <3>1
  <2>6. Issue(runList, r, outstanding) /\ isRunning' = TRUE /\ app' # "issue"
    BY <1>1, <1>6, <2>1
  <2>7. ListsInv' /\ gpu' \in Nat /\ gpu' - gpu = Len(outstanding') - (r.issued - r.run)
    BY <1>1, <1>3, <2>1, <2>2, <2>3, <2>4, <2>5, <2>6, RunListGoesOn
  <2>8. r.issued - r.run = 0 /\ Len(outstanding) = 0
    BY <1>3, <1>4, <2>2, <2>4, EmptySeq
  <2>9. QED
    BY <2>1, <2>7, <2>8
<1>7. CASE ~Restarts
  <2>1. /\ list' = [list EXCEPT ![bound] = r]
        /\ UNCHANGED <<isRunning, stopSpeculative, gpu, outstanding>>
    BY <1>1, <1>7
  <2>2. list'[bound] = r /\ \A m \in Lists : m # bound => list'[m] = list[m]
    BY <1>1, <1>2, <2>1
  <2>3. \A m \in Lists : /\ list'[m].issued = list[m].issued /\ list'[m].run = list[m].run
                         /\ list'[m].stops = list[m].stops
    BY <1>3, <2>2
  <2>4. ListsOK'
    BY <1>1, <1>2, <1>3, <2>1, <2>2 DEF ListsInv, ListsOK
  <2>5. OnlyRunList' /\ StopsAhead' /\ IssueIsDue' /\ RunningHasList' /\ QuietWhenIdle'
    <3>1. runList = NoList \/ runList \in Lists
      BY DEF ListsInv, ListsOK
    <3>2. QED
      BY <1>1, <2>1, <2>3, <3>1 DEF ListsInv, OnlyRunList, StopsAhead, IssueIsDue, RunningHasList,
                              QuietWhenIdle
  <2>6. BusyWhileRunning'
    BY <1>1, <2>1, <2>3 DEF ListsInv, BusyWhileRunning, RunningHasList
  <2>7. NothingLeftBehind'
    BY <1>1, <1>7, <2>1, <2>2 DEF ListsInv, ListsOK, NothingLeftBehind, Restarts
  <2>8. gpu' \in Nat /\ gpu' - gpu = Len(outstanding') - Len(outstanding) /\ outstanding' = outstanding
    BY <1>5, <2>1
  <2>9. QED
    BY <2>4, <2>5, <2>6, <2>7, <2>8 DEF ListsInv
<1>8. QED
  BY <1>6, <1>7

\* The second section of nngxRunCmdlist issues the first requests.
LEMMA IssueFirstInv ==
    ASSUME ListsInv, IssueFirst, gpu \in Nat
    PROVE  /\ ListsInv'
           /\ gpu' \in Nat
           /\ gpu' - gpu = Len(outstanding') - Len(outstanding)
           /\ outstanding = <<>>
<1> USE CommandAssumption
<1> DEFINE r == list[runList]
<1>1. /\ app = "issue" /\ app' = "idle" /\ Issue(runList, r, outstanding)
      /\ UNCHANGED <<bound, runList, startRun, isRunning>>
  BY DEF IssueFirst
<1>2. runList \in Lists /\ isRunning /\ ~stopSpeculative /\ startRun /\ r.issued = r.run /\ r.run < r.used
  BY <1>1 DEF ListsInv, IssueIsDue, RunningHasList
<1>3. r \in RecordType /\ InOrder(r)
  BY <1>2 DEF ListsInv, ListsOK
<1>4. r.issued \in Nat
  BY <1>3 DEF RecordType
<1>5. outstanding = Requests(runList, r.run, r.issued)
  BY <1>2 DEF ListsInv, OnlyRunList
<1>6. outstanding = <<>> /\ r.issued - r.run = 0 /\ Len(outstanding) = 0
  BY <1>2, <1>4, <1>5, NoRequests, EmptySeq
<1>7. \A k \in r.stops : k <= r.issued /\ (k > r.run => k = r.issued /\ stopSpeculative)
  BY <1>2 DEF ListsInv, StopsAhead
<1> HIDE DEF r
<1>8. ListsInv' /\ gpu' \in Nat /\ gpu' - gpu = Len(outstanding') - (r.issued - r.run)
  BY <1>1, <1>2, <1>3, <1>5, <1>7, RunListGoesOn
<1>9. QED
  BY <1>6, <1>8

\* sys_commonIntrHandler: the first request outstanding is counted; it stops the
\* list, ends it, or lets more requests be issued.
LEMMA CountRequestInv ==
    ASSUME ListsInv, CountRequest, gpu \in Nat, outstanding # <<>>, request = Head(outstanding)
    PROVE  /\ ListsInv'
           /\ gpu' \in Nat
           /\ gpu' - gpu = Len(outstanding') - (Len(outstanding) - 1)
<1> USE CommandAssumption
<1> DEFINE old == list[runList]
           r == [old EXCEPT !.run = @ + 1]
           rest == Tail(outstanding)
<1>1. runList \in Lists /\ isRunning
  BY DEF ListsInv, ListsOK, OnlyRunList, QuietWhenIdle
<1>2. list \in [Lists -> RecordType] /\ old \in RecordType /\ InOrder(old)
  BY <1>1 DEF ListsInv, ListsOK
<1>3. old.run \in Nat /\ old.issued \in Nat /\ old.used \in Nat /\ old.run <= old.issued /\ old.issued <= old.used
  BY <1>2 DEF RecordType, InOrder
<1>4. outstanding = Requests(runList, old.run, old.issued) /\ Len(outstanding) = old.issued - old.run
      /\ old.run < old.issued
  <2>1. outstanding = Requests(runList, old.run, old.issued) /\ Len(outstanding) = old.issued - old.run
    BY <1>1, OutstandingCount, CommandAssumption DEF ListsInv, OnlyRunList
  <2>2. old.run # old.issued
    BY <1>1, <1>3, <2>1, NoRequests
  <2>3. QED
    BY <1>3, <2>1, <2>2
<1>5. request = <<runList, old.run + 1>> /\ rest = Requests(runList, old.run + 1, old.issued)
  BY <1>1, <1>3, <1>4, FirstRequest
<1>6. app # "issue" /\ startRun
  <2>1. old.issued # old.run
    BY <1>3, <1>4
  <2>2. QED
    BY <1>1, <2>1 DEF ListsInv, IssueIsDue, RunningHasList
<1>7. /\ r \in RecordType /\ r.run = old.run + 1 /\ r.issued = old.issued /\ r.used = old.used
      /\ r.stops = old.stops /\ InOrder(r)
  <2>1. /\ r \in RecordType /\ r.run = old.run + 1 /\ r.issued = old.issued /\ r.used = old.used
        /\ r.stops = old.stops
    <3>1. old \in RecordType
      BY <1>2
    <3> HIDE DEF old
    <3>2. QED
      BY <3>1 DEF RecordType
  <2>2. old.issued <= old.run + NumSpeculative
    BY <1>2 DEF InOrder
  <2> HIDE DEF r, old
  <2>3. InOrder(r)
    BY <1>3, <1>4, <2>1, <2>2 DEF InOrder
  <2>4. QED
    BY <2>1, <2>3
<1>8. \A k \in old.stops : /\ k \in Nat /\ k <= old.issued
                           /\ k > old.run => k = old.issued /\ stopSpeculative
  BY <1>1, <1>2 DEF ListsInv, StopsAhead, RecordType
<1>9. stopSpeculative => old.issued \in old.stops
  BY <1>1 DEF ListsInv, BusyWhileRunning
<1> DEFINE l == request[1]
           counted == [list[l] EXCEPT !.run = @ + 1]
           onlyCount == /\ list' = [list EXCEPT ![l] = counted]
                        /\ outstanding' = rest
                        /\ UNCHANGED gpu
<1>10. l = runList /\ counted = r /\ request[2] = old.run + 1
  <2>1. request[1] = runList /\ request[2] = old.run + 1
    <3> HIDE DEF rest, old
    <3> QED
      BY <1>5
  <2>2. QED
    BY <2>1
<1>11. /\ UNCHANGED <<bound, runList, app>>
       /\ \/ request[2] \in r.stops /\ StopHere /\ onlyCount
          \/ /\ request[2] \notin r.stops /\ AllDone(r)
             /\ isRunning' = FALSE /\ onlyCount /\ UNCHANGED <<startRun, stopSpeculative>>
          \/ /\ request[2] \notin r.stops /\ ~AllDone(r)
             /\ Issue(runList, r, rest) /\ UNCHANGED <<startRun, isRunning>>
  BY <1>10 DEF CountRequest
<1>12. /\ UNCHANGED <<bound, runList, app>>
       /\ \/ /\ old.run + 1 \in old.stops /\ StopHere
             /\ list' = [list EXCEPT ![runList] = r] /\ outstanding' = rest /\ gpu' = gpu
          \/ /\ old.run + 1 \notin old.stops /\ old.run + 1 >= old.used
             /\ isRunning' = FALSE /\ UNCHANGED <<startRun, stopSpeculative>>
             /\ list' = [list EXCEPT ![runList] = r] /\ outstanding' = rest /\ gpu' = gpu
          \/ /\ old.run + 1 \notin old.stops /\ ~(old.run + 1 >= old.used)
             /\ Issue(runList, r, rest) /\ UNCHANGED <<startRun, isRunning>>
  BY <1>7, <1>10, <1>11 DEF AllDone
<1> HIDE DEF r, rest, l, counted, onlyCount
<1>13. ASSUME list' = [list EXCEPT ![runList] = r], outstanding' = rest, gpu' = gpu,
              old.run + 1 = old.issued, isRunning' = FALSE, stopSpeculative' = FALSE,
              startRun' \in BOOLEAN, startRun' => r.run = r.used
       PROVE  ListsInv' /\ gpu' \in Nat /\ gpu' - gpu = Len(outstanding') - (Len(outstanding) - 1)
  <2>1. list'[runList] = r /\ \A m \in Lists : m # runList => list'[m] = list[m]
    BY <1>1, <1>2, <1>13
  <2>2. UNCHANGED <<bound, runList, app>>
    BY <1>12
  <2>3. outstanding' = <<>> /\ Len(outstanding') = 0
    BY <1>1, <1>3, <1>5, <1>13, NoRequests, EmptySeq
  <2>4. ListsOK'
    BY <1>1, <1>2, <1>7, <1>13, <2>1, <2>2 DEF ListsInv, ListsOK
  <2>5. OnlyRunList'
    <3>1. outstanding' = Requests(runList, r.run, r.issued)
      BY <1>5, <1>7, <1>13
    <3>2. QED
      BY <1>1, <2>1, <2>2, <3>1 DEF ListsInv, OnlyRunList
  <2>6. StopsAhead'
    <3>1. ASSUME NEW m \in Lists, NEW k \in list'[m].stops
          PROVE  k <= list'[m].issued /\ ~(k > list'[m].run)
      <4>1. CASE m # runList
        <5>1. k \in list[m].stops /\ list'[m] = list[m] /\ k \in Nat /\ list[m].run \in Nat
          BY <1>2, <2>1, <3>1, <4>1 DEF RecordType
        <5>2. QED
          BY <4>1, <5>1 DEF ListsInv, StopsAhead
      <4>2. CASE m = runList
        <5>1. k \in old.stops
          BY <1>7, <2>1, <3>1, <4>2
        <5>2. k \in Nat /\ k <= old.issued
          BY <1>8, <5>1
        <5>3. QED
          BY <1>3, <1>7, <1>13, <2>1, <4>2, <5>2
      <4>3. QED
        BY <4>1, <4>2
    <3>2. QED
      BY <3>1 DEF StopsAhead
  <2>7. IssueIsDue' /\ RunningHasList' /\ QuietWhenIdle' /\ BusyWhileRunning'
    BY <1>6, <1>13, <2>2, <2>3 DEF IssueIsDue, RunningHasList, QuietWhenIdle, BusyWhileRunning
  <2>8. NothingLeftBehind'
    BY <1>13, <2>1, <2>2 DEF NothingLeftBehind
  <2>9. gpu' \in Nat /\ gpu' - gpu = Len(outstanding') - (Len(outstanding) - 1)
    BY <1>3, <1>4, <1>13, <2>3
  <2>10. QED
    BY <2>4, <2>5, <2>6, <2>7, <2>8, <2>9 DEF ListsInv
<1>14. CASE /\ old.run + 1 \in old.stops /\ StopHere
            /\ list' = [list EXCEPT ![runList] = r] /\ outstanding' = rest /\ gpu' = gpu
  <2>1. old.run + 1 = old.issued
    BY <1>3, <1>8, <1>14
  <2>2. isRunning' = FALSE /\ stopSpeculative' = FALSE /\ startRun' = FALSE
    BY <1>14 DEF StopHere
  <2>3. QED
    BY <1>13, <1>14, <2>1, <2>2
<1>15. CASE /\ old.run + 1 \notin old.stops /\ old.run + 1 >= old.used
            /\ isRunning' = FALSE /\ UNCHANGED <<startRun, stopSpeculative>>
            /\ list' = [list EXCEPT ![runList] = r] /\ outstanding' = rest /\ gpu' = gpu
  <2>1. old.run + 1 = old.issued /\ r.run = r.used
    BY <1>3, <1>4, <1>7, <1>15
  <2>2. stopSpeculative' = FALSE /\ startRun' \in BOOLEAN
    BY <1>9, <1>15, <2>1 DEF ListsInv, ListsOK
  <2>3. QED
    BY <1>13, <1>15, <2>1, <2>2
<1>16. CASE /\ old.run + 1 \notin old.stops /\ ~(old.run + 1 >= old.used)
            /\ Issue(runList, r, rest) /\ UNCHANGED <<startRun, isRunning>>
  <2>1. r.run < r.used
    BY <1>3, <1>7, <1>16
  <2>2. \A k \in r.stops : k <= r.issued /\ (k > r.run => k = r.issued /\ stopSpeculative)
    BY <1>3, <1>7, <1>8
  <2>3. stopSpeculative => r.issued \in r.stops /\ r.issued > r.run
    BY <1>3, <1>4, <1>7, <1>9, <1>16
  <2>4. rest = Requests(runList, r.run, r.issued)
    BY <1>5, <1>7
  <2>5. ListsInv' /\ gpu' \in Nat /\ gpu' - gpu = Len(outstanding') - (r.issued - r.run)
    <3>1. UNCHANGED <<bound, runList, startRun>> /\ isRunning' = TRUE /\ app' # "issue"
      BY <1>1, <1>6, <1>12, <1>16 DEF ListsInv, ListsOK
    <3>2. QED
      BY <1>1, <1>6, <1>7, <1>16, <2>1, <2>2, <2>3, <2>4, <3>1, RunListGoesOn
  <2>6. r.issued - r.run = Len(outstanding) - 1
    BY <1>3, <1>4, <1>7
  <2>7. QED
    BY <2>5, <2>6
<1>17. QED
  BY <1>12, <1>14, <1>15, <1>16

\* nngxFinalize frees lists that are at rest.
LEMMA FreeListsInv ==
    ASSUME ListsInv, ~isRunning, FreeLists, UNCHANGED outstanding, app' # "issue"
    PROVE  ListsInv'
<1> USE CommandAssumption
<1>1. outstanding' = <<>>
  BY AtRestNothingIssued
<1>2. Fresh \in RecordType /\ InOrder(Fresh) /\ Fresh.issued = 0 /\ Fresh.run = 0 /\ Fresh.stops = {}
  BY DEF Fresh, RecordType, InOrder
<1>3. /\ list' = [l \in Lists |-> Fresh] /\ bound' = NoList /\ runList' = NoList
      /\ startRun' = FALSE /\ isRunning' = FALSE /\ stopSpeculative' = FALSE
  BY DEF FreeLists
<1>4. ListsOK'
  BY <1>2, <1>3 DEF ListsOK
<1>5. OnlyRunList' /\ StopsAhead'
  BY <1>1, <1>2, <1>3 DEF OnlyRunList, StopsAhead
<1>6. QED
  BY <1>1, <1>3, <1>4, <1>5 DEF ListsInv, IssueIsDue, RunningHasList, QuietWhenIdle, BusyWhileRunning,
     NothingLeftBehind

------------------------------------------------------------------------------
(* The interrupts on their way. *)

\* The receiver has a command's interrupt that is not counted yet.
InHand == IF handling = "P3D" /\ receiver \in {"call", "handler", "commit"} THEN 1 ELSE 0

\* Every request outstanding is one the GPU works on, one whose interrupt is in
\* the relay, or the one the receiver has in hand.
Accounted ==
    /\ gpu \in Nat
    /\ gpu + P3Ds(relay) + InHand = Len(outstanding)
    /\ Len(relay) <= QUEUE_HIGH_WATERMARK + P3Ds(relay)

\* What the handler looked up is still the first outstanding when it counts it.
CommitKnows == receiver = "commit" => handling = "P3D" /\ request = Head(outstanding)

\* Where the application's thread is, and where its initialization and its wait.
PlaceOfApp ==
    /\ app \in {"idle", "issue", "look", "yield", "finalize", "final"}
    /\ app = "finalize" <=> finalizer \in {"signalling", "joining"}
    /\ app = "final" <=> finalizer = "finalized"
    /\ app \in {"finalize", "final"} => ~isRunning
    /\ waiting[App] # "idle" => app = "yield"

CommandInv == ListsInv /\ WaiterInv /\ Accounted /\ CommitKnows /\ PlaceOfApp

\* The counts are numbers; when nothing is outstanding nothing is on its way.
LEMMA InFlight ==
    ASSUME CommandInv
    PROVE  /\ relay \in Seq(Interrupts) /\ Len(relay) \in Nat
           /\ P3Ds(relay) \in Nat /\ Len(outstanding) \in Nat
           /\ outstanding = <<>> => gpu = 0 /\ P3Ds(relay) = 0 /\ InHand = 0
           /\ outstanding = <<>> => receiver # "commit"
           /\ ~isRunning => outstanding = <<>>
<1>1. relay \in Seq(Interrupts) /\ Len(relay) \in Nat
  BY LenProperties DEF CommandInv, WaiterInv, ReceiverInv, TypeOKReceiver
<1>2. P3Ds(relay) \in Nat
  BY <1>1, P3DsFinite
<1>3. Len(outstanding) \in Nat /\ (outstanding = <<>> <=> Len(outstanding) = 0)
  BY OutstandingCount, LenProperties DEF CommandInv
<1>4. outstanding = <<>> => gpu = 0 /\ P3Ds(relay) = 0 /\ InHand = 0
  BY <1>2, <1>3 DEF CommandInv, Accounted, InHand
<1>5. outstanding = <<>> => receiver # "commit"
  BY <1>4 DEF CommandInv, CommitKnows, InHand
<1>6. ~isRunning => outstanding = <<>>
  BY DEF CommandInv, ListsInv, QuietWhenIdle
<1>7. QED
  BY <1>1, <1>2, <1>3, <1>4, <1>5, <1>6

\* There is one waiter.
LEMMA WaiterKeeps ==
    ASSUME WaiterInv, [ReceiverNext]_receiverVars
    PROVE  WaiterInv'
<1>1. \A s, t \in Waiters : s = t
  BY CommandAssumption
<1>2. QED
  BY <1>1, WaiterNextInv

\* A handler that goes on leaves everything else of the receiver alone.
LEMMA HandlerGoesOn ==
    ASSUME WaiterInv, receiver' \in {"commit", "finish"}, UNCHANGED <<queue, handling, anyDone, life>>
    PROVE  WaiterInv'
BY DEF WaiterInv, ReceiverInv, TypeOKReceiver, QuietWhenFinal, NoInterruptStranded, Announced,
       NoMissedHandler, queue, anyDone, life

\* The receiver's own steps.
LEMMA ReceiverStepKeeps ==
    ASSUME CommandInv, ReceiverStep, UNCHANGED <<system, request, app, ghosts>>
    PROVE  CommandInv'
<1>1. ListsInv'
  BY ListsStay DEF CommandInv, ListsInv, ListsOK, system, ghosts
<1>2. WaiterInv'
  BY WaiterKeeps DEF CommandInv, ReceiverNext
<1>3. UNCHANGED life /\ UNCHANGED waiting
  BY DEF ReceiverStep, TakeSignal, ClearSignal, CheckFinalize, TryDequeue, CallHandler,
         FinishHandler, anyDone
<1>4. PlaceOfApp'
  BY <1>3 DEF CommandInv, PlaceOfApp, life, system
<1>5. CommitKnows'
  BY DEF CommitKnows, ReceiverStep, TakeSignal, ClearSignal, CheckFinalize, TryDequeue, CallHandler,
         FinishHandler, ReceiverGoes
<1>6. Accounted'
  <2>1. CASE TryDequeue /\ relay # <<>>
    <3>1. /\ receiver = "drain" /\ receiver' = "call" /\ handling' = Head(relay) /\ relay' = Tail(relay)
      BY <2>1 DEF TryDequeue, ReceiverGoes
    <3>2. P3Ds(relay) = IF Head(relay) = "P3D" THEN P3Ds(Tail(relay)) + 1 ELSE P3Ds(Tail(relay))
      BY <2>1, InFlight, P3DsTail
    <3>3. Tail(relay) \in Seq(Interrupts) /\ Len(Tail(relay)) = Len(relay) - 1
      BY <2>1, InFlight, HeadTailProperties
    <3>4. P3Ds(Tail(relay)) \in Nat
      BY <3>3, P3DsFinite
    <3>5. InHand = 0 /\ InHand' = IF Head(relay) = "P3D" THEN 1 ELSE 0
      BY <3>1 DEF InHand
    <3>6. P3Ds(relay)' = P3Ds(Tail(relay)) /\ Len(relay)' = Len(relay) - 1
      BY <3>1, <3>3
    <3>7. gpu' = gpu /\ Len(outstanding)' = Len(outstanding)
      BY DEF ghosts
    <3>8. QUEUE_HIGH_WATERMARK \in Nat /\ Len(relay) \in Nat
      BY InFlight, ReceiverAssumption
    <3>9. QED
      BY <3>2, <3>4, <3>5, <3>6, <3>7, <3>8 DEF CommandInv, Accounted
  <2>2. CASE ~(TryDequeue /\ relay # <<>>)
    <3>1. UNCHANGED relay /\ InHand' = InHand
      BY <2>2 DEF ReceiverStep, TakeSignal, ClearSignal, CheckFinalize, TryDequeue, CallHandler,
         FinishHandler, ReceiverGoes, queue, InHand
    <3>2. QED
      BY <3>1 DEF CommandInv, Accounted, ghosts, P3Ds
  <2>3. QED
    BY <2>1, <2>2
<1>7. QED
  BY <1>1, <1>2, <1>4, <1>5, <1>6 DEF CommandInv

\* The steps that change neither the lists nor the receiver's thread and relay.
LEMMA AppMoves ==
    ASSUME CommandInv, UNCHANGED <<list, runList, startRun, isRunning, stopSpeculative, request, ghosts>>,
           bound' \in Lists \cup {NoList}, UNCHANGED <<relay, thread>>,
           WaiterInv', PlaceOfApp', app' = "issue" <=> app = "issue"
    PROVE  CommandInv'
<1>1. ListsInv'
  BY ListsStay DEF CommandInv, ghosts
<1>2. CommitKnows'
  BY DEF CommandInv, CommitKnows, thread, ghosts
<1>3. Accounted'
  BY DEF CommandInv, Accounted, InHand, P3Ds, thread, ghosts
<1>4. QED
  BY <1>1, <1>2, <1>3 DEF CommandInv

\* The steps that change the lists and leave the receiver alone.
LEMMA ListsMove ==
    ASSUME CommandInv, UNCHANGED <<receiverVars, request>>, ListsInv',
           PlaceOfApp', gpu' \in Nat,
           gpu' - gpu = Len(outstanding') - Len(outstanding),
           outstanding # <<>> => outstanding' = outstanding
    PROVE  CommandInv'
<1>1. WaiterInv'
  BY WaiterKeeps DEF CommandInv
<1>2. UNCHANGED <<relay, receiver, handling>>
  BY DEF receiverVars, queue, thread
<1>3. CommitKnows'
  BY <1>2, InFlight DEF CommandInv, CommitKnows
<1>4. Len(outstanding') \in Nat
  <2>1. ListsInv' => (Len(outstanding) \in Nat)'
    BY OutstandingLength, PTL
  <2>2. QED
    BY <2>1
<1>5. P3Ds(relay)' = P3Ds(relay) /\ InHand' = InHand /\ Len(relay)' = Len(relay)
  BY <1>2 DEF InHand, P3Ds
<1>6. InHand \in Nat
  BY DEF InHand
<1>7. Accounted'
  <2> DEFINE n == Len(outstanding)
             m == Len(outstanding')
             p == P3Ds(relay)
             q == InHand
             g == gpu
             h == gpu'
  <2>1. n \in Nat /\ m \in Nat /\ p \in Nat /\ q \in Nat /\ g \in Nat /\ g + p + q = n
    BY <1>4, <1>6, InFlight DEF CommandInv, Accounted
  <2>2. h - g = m - n /\ h \in Nat
    OBVIOUS
  <2> HIDE DEF n, m, p, q, g, h
  <2>3. h + p + q = m
    BY <2>1, <2>2
  <2>4. QED
    BY <1>5, <2>2, <2>3 DEF CommandInv, Accounted, n, m, p, q, g, h
<1>8. QED
  BY <1>1, <1>3, <1>7 DEF CommandInv

\* The application's calls.
LEMMA CallKeeps ==
    ASSUME CommandInv, Call
    PROVE  CommandInv'
<1> USE CommandAssumption
<1>a. ListsInv /\ WaiterInv /\ gpu \in Nat /\ bound \in Lists \cup {NoList}
  BY DEF CommandInv, Accounted, ListsInv, ListsOK
<1>b. UNCHANGED <<app, isRunning, life, anyDone>> => PlaceOfApp'
  BY DEF CommandInv, PlaceOfApp, life, anyDone
<1>1. ASSUME NEW l \in Lists, BindCmdlist(l) PROVE CommandInv'
  <2>1. /\ app = "idle" /\ app' = "idle" /\ bound' = l
        /\ UNCHANGED <<receiverVars, list, runList, startRun, isRunning, stopSpeculative, request, ghosts>>
    BY <1>1 DEF BindCmdlist, Idle
  <2>2. WaiterInv' /\ PlaceOfApp' /\ UNCHANGED <<relay, thread>>
    BY <1>a, <1>b, <2>1, WaiterKeeps DEF receiverVars, queue
  <2>3. QED
    BY <2>1, <2>2, AppMoves
<1>2. ASSUME NEW l \in Lists, DeleteCmdlist(l) PROVE CommandInv'
  <2>1. /\ app = "idle" /\ app' = "idle" /\ ~(runList = l /\ isRunning)
        /\ list' = [list EXCEPT ![l] = Fresh] /\ bound' \in Lists \cup {NoList}
        /\ \/ UNCHANGED <<runList, startRun>>
           \/ runList = l /\ runList' = NoList /\ startRun' = FALSE
        /\ UNCHANGED <<receiverVars, isRunning, stopSpeculative, request, gpu, outstanding>>
    BY <1>2, <1>a DEF DeleteCmdlist, Idle, ghosts
  <2>2. [Fresh EXCEPT !.max = 0] = Fresh
    BY DEF Fresh
  <2>3. ListsInv'
    BY <1>a, <2>1, <2>2, StartedOver
  <2>4. PlaceOfApp'
    BY <1>b, <2>1 DEF receiverVars
  <2>5. gpu' - gpu = Len(outstanding') - Len(outstanding)
    BY <1>a, <2>1, InFlight
  <2>6. QED
    BY <1>a, <2>1, <2>3, <2>4, <2>5, ListsMove
<1>3. ASSUME NEW n \in Nat, Idle, bound \in Lists, ~BoundRuns, StartOver([Fresh EXCEPT !.max = n])
      PROVE  CommandInv'
  <2>1. /\ app = "idle" /\ app' = "idle" /\ ~(runList = bound /\ isRunning)
        /\ list' = [list EXCEPT ![bound] = [Fresh EXCEPT !.max = n]]
        /\ UNCHANGED <<receiverVars, bound, runList, startRun, isRunning, stopSpeculative, request, gpu, outstanding>>
    BY <1>3 DEF StartOver, Idle, BoundRuns, ghosts
  <2>2. ListsInv'
    BY <1>3, <1>a, <2>1, StartedOver
  <2>3. PlaceOfApp'
    BY <1>b, <2>1 DEF receiverVars
  <2>4. gpu' - gpu = Len(outstanding') - Len(outstanding)
    BY <1>a, <2>1, InFlight
  <2>5. QED
    BY <1>a, <2>1, <2>2, <2>3, <2>4, ListsMove
<1>4. CASE CmdlistStorage
  <2>1. bound \in Lists /\ Room[bound] \in Nat
    BY <1>4, <1>a DEF CmdlistStorage
  <2>2. QED
    BY <1>3, <1>4, <2>1 DEF CmdlistStorage
<1>5. CASE ClearCmdlist
  <2>1. bound \in Lists /\ list[bound].max \in Nat
    BY <1>5, <1>a DEF ClearCmdlist, ListsInv, ListsOK, RecordType
  <2>2. QED
    BY <1>3, <1>5, <2>1 DEF ClearCmdlist
<1>6. CASE AddRequest
  <2>1. /\ ListsInv' /\ gpu' \in Nat /\ gpu' - gpu = Len(outstanding') - Len(outstanding)
        /\ isRunning => outstanding' = outstanding
    BY <1>6, <1>a, AddRequestInv
  <2>2. outstanding # <<>> => outstanding' = outstanding
    BY <2>1, InFlight
  <2>3. /\ UNCHANGED <<receiverVars, request>> /\ app = "idle" /\ app' = "idle"
    BY <1>6 DEF AddRequest, Idle
  <2>4. PlaceOfApp'
    BY <2>3 DEF CommandInv, PlaceOfApp, receiverVars, life, anyDone
  <2>5. QED
    BY <2>1, <2>2, <2>3, <2>4, ListsMove
<1>7. CASE RunCmdlist
  <2>1. ListsInv'
    BY <1>7, <1>a, RunCmdlistInv
  <2>2. /\ UNCHANGED <<receiverVars, request, gpu, outstanding>> /\ app = "idle"
        /\ app' \in {"issue", "idle"}
    BY <1>7 DEF RunCmdlist, ghosts
  <2>3. PlaceOfApp'
    BY <2>2 DEF CommandInv, PlaceOfApp, receiverVars, life, anyDone
  <2>4. gpu' - gpu = Len(outstanding') - Len(outstanding)
    BY <1>a, <2>2, InFlight
  <2>5. QED
    BY <1>a, <2>1, <2>2, <2>3, <2>4, ListsMove
<1>8. CASE StopCmdlist
  <2>1. ListsInv'
    BY <1>8, <1>a, StopCmdlistInv
  <2>2. UNCHANGED <<receiverVars, request, gpu, outstanding, isRunning>> /\ app = "idle" /\ app' = "idle"
    BY <1>8 DEF StopCmdlist, Idle, ghosts
  <2>3. PlaceOfApp'
    BY <1>b, <2>2 DEF receiverVars
  <2>4. gpu' - gpu = Len(outstanding') - Len(outstanding)
    BY <1>a, <2>2, InFlight
  <2>5. QED
    BY <1>a, <2>1, <2>2, <2>3, <2>4, ListsMove
<1>9. CASE WaitCmdlistDone
  <2>1. app = "idle" /\ app' = "look" /\ UNCHANGED <<receiverVars, system, request, ghosts>>
    BY <1>9 DEF WaitCmdlistDone
  <2>2. PlaceOfApp'
    BY <2>1 DEF CommandInv, PlaceOfApp, receiverVars, life, anyDone, system
  <2>3. WaiterInv' /\ UNCHANGED <<relay, thread>>
    BY <1>a, <2>1, WaiterKeeps DEF receiverVars, queue
  <2>4. QED
    BY <1>a, <2>1, <2>2, <2>3, AppMoves DEF system
<1>10. CASE FinalizeSystem
  <2>1. /\ app = "idle" /\ app' = "finalize" /\ ~isRunning /\ Finalize
        /\ UNCHANGED <<system, request, ghosts>>
    BY <1>10 DEF FinalizeSystem
  <2>2. WaiterInv'
    BY <1>a, <2>1, WaiterKeeps DEF ReceiverNext
  <2>3. finalizer = "running" /\ finalizer' = "signalling" /\ UNCHANGED <<relay, thread, anyDone>>
    BY <2>1 DEF CommandInv, PlaceOfApp, Finalize, queue
  <2>4. PlaceOfApp'
    BY <2>1, <2>3 DEF CommandInv, PlaceOfApp, anyDone, system
  <2>5. QED
    BY <1>a, <2>1, <2>2, <2>3, <2>4, AppMoves DEF system
<1>11. CASE InitializeSystem
  <2>1. /\ app = "final" /\ app' = "idle" /\ Initialize /\ UNCHANGED <<system, request, ghosts>>
    BY <1>11 DEF InitializeSystem
  <2>2. WaiterInv'
    BY <1>a, <2>1, WaiterKeeps DEF ReceiverNext
  <2>3. /\ finalizer' = "running" /\ receiver' = "wait" /\ UNCHANGED <<relay, handling, waiting>>
    BY <2>1 DEF Initialize
  <2>4. PlaceOfApp'
    BY <2>1, <2>3 DEF CommandInv, PlaceOfApp, system
  <2>5. ListsInv'
    BY <1>a, <2>1, ListsStay DEF system, ghosts
  <2>6. outstanding = <<>>
    BY <2>1, InFlight DEF CommandInv, PlaceOfApp
  <2>7. CommitKnows' /\ InHand' = 0 /\ InHand = 0
    BY <2>3, <2>6, InFlight DEF CommitKnows, InHand
  <2>8. Accounted'
    BY <2>1, <2>3, <2>7 DEF CommandInv, Accounted, P3Ds, ghosts
  <2>9. QED
    BY <2>2, <2>4, <2>5, <2>7, <2>8 DEF CommandInv
<1>12. QED
  BY <1>1, <1>2, <1>4, <1>5, <1>6, <1>7, <1>8, <1>9, <1>10, <1>11 DEF Call

\* What the application's thread does after the first step of a call.
LEMMA ContinueKeeps ==
    ASSUME CommandInv, Continue \/ TimeOut
    PROVE  CommandInv'
<1> USE CommandAssumption
<1>a. ListsInv /\ WaiterInv /\ gpu \in Nat /\ bound \in Lists \cup {NoList}
  BY DEF CommandInv, Accounted, ListsInv, ListsOK
<1>1. CASE IssueFirst
  <2>1. /\ ListsInv' /\ gpu' \in Nat /\ gpu' - gpu = Len(outstanding') - Len(outstanding)
        /\ outstanding = <<>>
    BY <1>1, <1>a, IssueFirstInv
  <2>2. /\ UNCHANGED <<receiverVars, request>> /\ app = "issue" /\ app' = "idle"
    BY <1>1 DEF IssueFirst
  <2>3. PlaceOfApp'
    BY <2>2 DEF CommandInv, PlaceOfApp, receiverVars, life, anyDone
  <2>4. QED
    BY <2>1, <2>2, <2>3, ListsMove
<1>2. CASE LookIfDone
  <2>1. /\ app = "look" /\ UNCHANGED <<system, request, ghosts>>
        /\ \/ app' = "idle" /\ UNCHANGED receiverVars
           \/ app' = "yield" /\ WaitAnyHandlerDone(App)
    BY <1>2 DEF LookIfDone
  <2>2. finalizer = "running" /\ App \in Waiters
    BY <2>1 DEF CommandInv, PlaceOfApp, WaiterInv, ReceiverInv, TypeOKReceiver
  <2>3. WaiterInv'
    BY <1>a, <2>1, <2>2, WaiterKeeps DEF ReceiverNext
  <2>4. UNCHANGED <<relay, thread, life>> /\ (app' = "idle" => UNCHANGED waiting)
    BY <2>1 DEF receiverVars, queue, anyDone, WaitAnyHandlerDone
  <2>5. PlaceOfApp'
    BY <2>1, <2>2, <2>4 DEF CommandInv, PlaceOfApp, life, system
  <2>6. QED
    BY <1>a, <2>1, <2>3, <2>4, <2>5, AppMoves DEF system
<1>3. CASE Yield
  <2>1. /\ app = "yield" /\ UNCHANGED <<system, request, ghosts>>
        /\ \/ app' = "yield" /\ (LookAtStatus(App) \/ WakeUp(App))
           \/ waiting[App] = "idle" /\ app' = "look" /\ UNCHANGED receiverVars
    BY <1>3 DEF Yield
  <2>2. App \in Waiters
    OBVIOUS
  <2>3. WaiterInv'
    BY <1>a, <2>1, <2>2, WaiterKeeps DEF ReceiverNext
  <2>4. UNCHANGED <<relay, thread, life>> /\ (app' = "look" => waiting' = waiting /\ waiting[App] = "idle")
    BY <2>1 DEF receiverVars, queue, anyDone, LookAtStatus, WakeUp
  <2>5. PlaceOfApp'
    BY <2>1, <2>4 DEF CommandInv, PlaceOfApp, life, system
  <2>6. QED
    BY <1>a, <2>1, <2>3, <2>4, <2>5, AppMoves DEF system
<1>4. CASE app = "finalize" /\ app' = "finalize" /\ finalizer = "signalling" /\ Finalize
           /\ UNCHANGED <<system, request, ghosts>>
  <2>1. WaiterInv'
    BY <1>4, <1>a, WaiterKeeps DEF ReceiverNext
  <2>2. finalizer' = "joining" /\ UNCHANGED <<relay, thread, anyDone>>
    BY <1>4 DEF Finalize
  <2>3. PlaceOfApp'
    BY <1>4, <2>2 DEF CommandInv, PlaceOfApp, anyDone, system
  <2>4. QED
    BY <1>4, <1>a, <2>1, <2>2, <2>3, AppMoves DEF system
<1>5. CASE app = "finalize" /\ app' = "final" /\ JoinReceiver /\ FreeLists
           /\ UNCHANGED <<request, ghosts>>
  <2>1. WaiterInv'
    BY <1>5, <1>a, WaiterKeeps DEF ReceiverNext
  <2>2. ~isRunning
    BY <1>5 DEF CommandInv, PlaceOfApp
  <2>3. ListsInv'
    BY <1>5, <1>a, <2>2, FreeListsInv DEF ghosts
  <2>4. finalizer' = "finalized" /\ relay' = <<>> /\ UNCHANGED <<thread, waiting>>
    BY <1>5 DEF JoinReceiver, anyDone
  <2>5. PlaceOfApp'
    BY <1>5, <2>4 DEF CommandInv, PlaceOfApp, FreeLists
  <2>6. outstanding = <<>> /\ InHand' = InHand
    BY <2>2, <2>4, InFlight DEF InHand, thread
  <2>7. P3Ds(relay)' = 0 /\ Len(relay)' = 0
    BY <2>4, P3DsOfNone, EmptySeq
  <2>8. gpu' = gpu /\ outstanding' = outstanding
    BY <1>5 DEF ghosts
  <2>9. Accounted'
    BY <2>6, <2>7, <2>8, InFlight, ReceiverAssumption DEF CommandInv, Accounted
  <2>10. CommitKnows'
    BY <2>4, <2>6, InFlight DEF CommitKnows, thread
  <2>11. QED
    BY <2>1, <2>3, <2>5, <2>9, <2>10 DEF CommandInv
<1>6. CASE TimeOut
  <2>1. app = "look" /\ app' = "idle" /\ UNCHANGED <<receiverVars, system, request, ghosts>>
    BY <1>6 DEF TimeOut
  <2>2. PlaceOfApp'
    BY <2>1 DEF CommandInv, PlaceOfApp, receiverVars, life, anyDone, system
  <2>3. WaiterInv' /\ UNCHANGED <<relay, thread>>
    BY <1>a, <2>1, WaiterKeeps DEF receiverVars, queue
  <2>4. QED
    BY <1>a, <2>1, <2>2, <2>3, AppMoves DEF system
<1>7. QED
  BY <1>1, <1>2, <1>3, <1>4, <1>5, <1>6 DEF Continue, SystemIsFinal

\* The receiver, its handlers, the GPU and the display.
LEMMA InterruptKeeps ==
    ASSUME CommandInv, Receive \/ Finish \/ VerticalBlank
    PROVE  CommandInv'
<1>a. ListsInv /\ WaiterInv /\ gpu \in Nat /\ bound \in Lists \cup {NoList}
  BY DEF CommandInv, Accounted, ListsInv, ListsOK
<1>1. CASE ReceiverStep /\ UNCHANGED <<system, request, app, ghosts>>
  BY <1>1, ReceiverStepKeeps
<1>2. CASE DisplayHandler
  <2>1. /\ handling = "PDC" /\ receiver' = "finish"
        /\ UNCHANGED <<queue, handling, anyDone, life, system, request, app, ghosts>>
    BY <1>2 DEF DisplayHandler, ReceiverGoes
  <2>2. ListsInv' /\ WaiterInv'
    BY <1>a, <2>1, ListsStay, HandlerGoesOn DEF system, ghosts
  <2>3. CommitKnows' /\ InHand = 0 /\ InHand' = 0
    BY <2>1 DEF CommitKnows, InHand
  <2>4. Accounted' /\ PlaceOfApp'
    BY <2>1, <2>3 DEF CommandInv, Accounted, PlaceOfApp, P3Ds, queue, anyDone, life, system, ghosts
  <2>5. QED
    BY <2>2, <2>3, <2>4 DEF CommandInv
<1>3. CASE LookUpRequest
  <2>1. /\ handling = "P3D" /\ receiver = "handler" /\ receiver' = "commit"
        /\ request' = <<runList, list[runList].run + 1>>
        /\ UNCHANGED <<queue, handling, anyDone, life, system, app, ghosts>>
    BY <1>3 DEF LookUpRequest, ReceiverGoes
  <2>2. ListsInv' /\ WaiterInv'
    BY <1>a, <2>1, ListsStay, HandlerGoesOn DEF system, ghosts
  <2>3. InHand = 1 /\ InHand' = 1
    BY <2>1 DEF InHand
  <2>4. outstanding # <<>>
    BY <2>3, InFlight
  <2>5. runList \in Lists /\ list[runList] \in RecordType /\ InOrder(list[runList])
        /\ outstanding = Requests(runList, list[runList].run, list[runList].issued)
    BY <1>a, <2>4, CommandAssumption DEF ListsInv, ListsOK, OnlyRunList
  <2> DEFINE a == list[runList].run
             b == list[runList].issued
  <2>6. a \in Nat /\ b \in Nat /\ a <= b
    BY <2>5 DEF RecordType, InOrder
  <2>7. outstanding = Requests(runList, a, b)
    BY <2>5
  <2> HIDE DEF a, b
  <2>8. a # b
    BY <2>4, <2>5, <2>6, <2>7, NoRequests
  <2>9. Head(outstanding) = <<runList, a + 1>>
    BY <2>5, <2>6, <2>7, <2>8, FirstRequest
  <2>10. CommitKnows'
    BY <2>1, <2>9 DEF CommitKnows, ghosts, a
  <2>11. Accounted' /\ PlaceOfApp'
    BY <2>1, <2>3 DEF CommandInv, Accounted, PlaceOfApp, P3Ds, queue, anyDone, life, system, ghosts
  <2>12. QED
    BY <2>2, <2>10, <2>11 DEF CommandInv
<1>4. CASE CountRequest
  <2>1. /\ receiver = "commit" /\ receiver' = "finish"
        /\ UNCHANGED <<queue, handling, anyDone, life, app>>
    BY <1>4 DEF CountRequest, ReceiverGoes
  <2>2. outstanding # <<>> /\ request = Head(outstanding) /\ handling = "P3D"
    BY <2>1, InFlight DEF CommandInv, CommitKnows
  <2>3. ListsInv' /\ gpu' \in Nat /\ gpu' - gpu = Len(outstanding') - (Len(outstanding) - 1)
    BY <1>4, <1>a, <2>2, CountRequestInv
  <2>4. WaiterInv' /\ CommitKnows'
    BY <1>a, <2>1, HandlerGoesOn DEF CommitKnows
  <2>5. PlaceOfApp'
    <3>1. app \notin {"finalize", "final"}
      BY <2>2, InFlight DEF CommandInv, PlaceOfApp
    <3>2. QED
      BY <2>1, <3>1 DEF CommandInv, PlaceOfApp, anyDone, life
  <2>6. InHand = 1 /\ InHand' = 0
    BY <2>1, <2>2 DEF InHand
  <2>7. Accounted'
    <3> DEFINE n == Len(outstanding)
               m == Len(outstanding')
               p == P3Ds(relay)
               g == gpu
               h == gpu'
    <3>1. ListsInv' => (Len(outstanding) \in Nat)'
      BY OutstandingLength, PTL
    <3>2. n \in Nat /\ m \in Nat /\ p \in Nat /\ g \in Nat /\ h \in Nat /\ g + p + 1 = n
          /\ h - g = m - (n - 1)
      BY <2>3, <2>6, <3>1, InFlight DEF CommandInv, Accounted
    <3> HIDE DEF n, m, p, g, h
    <3>3. h + p + 0 = m
      BY <3>2
    <3>4. h \in Nat
      BY <3>2
    <3>5. relay' = relay
      BY <2>1 DEF queue
    <3>6. QED
      BY <2>6, <3>3, <3>4, <3>5 DEF CommandInv, Accounted, P3Ds, n, m, p, g, h
  <2>8. QED
    BY <2>3, <2>4, <2>5, <2>7 DEF CommandInv
<1>5. ASSUME NEW i \in Interrupts, Raise(i), UNCHANGED <<system, request, app, outstanding>>,
             IF i = "P3D" THEN gpu > 0 /\ gpu' = gpu - 1 ELSE gpu' = gpu
      PROVE  CommandInv'
  <2>1. /\ finalizer # "finalized" /\ (i = "PDC" => Len(relay) < QUEUE_HIGH_WATERMARK)
        /\ relay' = Append(relay, i) /\ UNCHANGED <<thread, anyDone, life>>
    BY <1>5 DEF Raise
  <2>2. ListsInv'
    BY <1>5, <1>a, ListsStay DEF system, ListsInv, ListsOK
  <2>3. ReceiverInv'
    BY <1>5, <1>a, RaiseInv DEF WaiterInv
  <2>4. WaiterInv'
    BY <1>a, <2>1, <2>3, AnyDoneUnchanged DEF WaiterInv
  <2>5. PlaceOfApp' /\ CommitKnows' /\ InHand' = InHand
    BY <1>5, <2>1 DEF CommandInv, PlaceOfApp, CommitKnows, InHand, system, thread, anyDone, life
  <2>6. /\ P3Ds(relay)' = IF i = "P3D" THEN P3Ds(relay) + 1 ELSE P3Ds(relay)
        /\ Len(relay)' = Len(relay) + 1
    BY <2>1, InFlight, P3DsAppend, AppendProperties
  <2>7. Len(outstanding)' = Len(outstanding) /\ InHand \in Nat
    BY <1>5 DEF InHand
  <2>8. Accounted'
    <3> DEFINE p == P3Ds(relay)
               k == Len(relay)
               q == InHand
    <3>1. p \in Nat /\ k \in Nat /\ q \in Nat /\ QUEUE_HIGH_WATERMARK \in Nat
          /\ gpu + p + q = Len(outstanding) /\ k <= QUEUE_HIGH_WATERMARK + p
      BY <2>7, InFlight, ReceiverAssumption DEF CommandInv, Accounted
    <3> HIDE DEF p, k, q
    <3>2. CASE i = "P3D"
      <4>1. gpu' \in Nat /\ gpu' + (p + 1) + q = Len(outstanding) /\ k + 1 <= QUEUE_HIGH_WATERMARK + (p + 1)
        BY <1>5, <1>a, <3>1, <3>2
      <4>2. QED
        BY <2>5, <2>6, <2>7, <3>2, <4>1 DEF Accounted, p, k, q
    <3>3. CASE i = "PDC"
      <4>1. gpu' = gpu /\ k + 1 <= QUEUE_HIGH_WATERMARK + p
        BY <1>5, <2>1, <3>1, <3>3 DEF k
      <4>2. QED
        BY <1>a, <2>5, <2>6, <2>7, <3>1, <3>3, <4>1 DEF Accounted, p, k, q
    <3>4. QED
      BY <3>2, <3>3 DEF Interrupts
  <2>9. QED
    BY <2>2, <2>4, <2>5, <2>8 DEF CommandInv
<1>6. QED
  BY <1>1, <1>2, <1>3, <1>4, <1>5 DEF Receive, Finish, VerticalBlank, Interrupts, ghosts

------------------------------------------------------------------------------
(* The theorems. *)

\* The system starts with nothing outstanding.
LEMMA CommandInitInv == Init => CommandInv
<1> SUFFICES ASSUME Init PROVE CommandInv
  OBVIOUS
<1> USE CommandAssumption DEF Init
<1>1. Fresh \in RecordType /\ InOrder(Fresh) /\ Fresh.issued = 0 /\ Fresh.run = 0 /\ Fresh.stops = {}
  BY DEF Fresh, RecordType, InOrder
<1>2. ListsInv
  BY <1>1 DEF ListsInv, ListsOK, OnlyRunList, StopsAhead, IssueIsDue, RunningHasList, QuietWhenIdle,
     BusyWhileRunning, NothingLeftBehind
<1>3. WaiterInv
  BY ReceiverInitInv DEF ReceiverInit, WaiterInv, Announced, NoMissedHandler
<1>4. Accounted /\ CommitKnows /\ PlaceOfApp
  <2>1. P3Ds(relay) = 0 /\ Len(relay) = 0 /\ Len(outstanding) = 0 /\ InHand = 0
    BY P3DsOfNone, EmptySeq DEF ReceiverInit, InHand
  <2>2. QED
    BY <2>1, ReceiverAssumption DEF Accounted, CommitKnows, PlaceOfApp, ReceiverInit
<1>5. QED
  BY <1>2, <1>3, <1>4 DEF CommandInv

\* Every step of the application, the receiver, the GPU and the display keeps it.
LEMMA CommandNextInv == CommandInv /\ [Next]_vars => CommandInv'
<1> SUFFICES ASSUME CommandInv, [Next]_vars PROVE CommandInv'
  OBVIOUS
<1>1. CASE UNCHANGED vars
  <2>1. UNCHANGED <<receiverVars, system, request, app, ghosts>>
    BY <1>1 DEF vars
  <2>2. WaiterInv' /\ ListsInv'
    BY <2>1, WaiterKeeps, ListsStay DEF CommandInv, system, ghosts, ListsInv, ListsOK
  <2>3. Accounted' /\ CommitKnows' /\ PlaceOfApp'
    BY <2>1 DEF CommandInv, Accounted, CommitKnows, PlaceOfApp, InHand, P3Ds, receiverVars, queue,
                thread, anyDone, life, system, ghosts
  <2>4. QED
    BY <2>2, <2>3 DEF CommandInv
<1>2. QED
  BY <1>1, CallKeeps, ContinueKeeps, InterruptKeeps DEF Next

\* So it holds throughout.
LEMMA CommandInvariance == Spec => []CommandInv
BY CommandInitInv, CommandNextInv, PTL DEF Spec

\* For any lists with room for any number of requests, any speculation and any
\* watermark: no interrupt is charged to another list or request than the one it
\* ends, and the queues of the GSP process have room for what is issued.
THEOREM RequestsAreExact == Spec => []RequestsExact
<1>1. CommandInv => RequestsExact
  <2> SUFFICES ASSUME CommandInv PROVE RequestsExact
    OBVIOUS
  <2>1. OutstandingExact
    <3>1. /\ outstanding = IF runList = NoList THEN <<>>
                           ELSE Requests(runList, list[runList].run, list[runList].issued)
          /\ \A l \in Lists \ {runList} : list[l].issued = list[l].run
      BY DEF CommandInv, ListsInv, OnlyRunList
    <3>2. receiver = "commit" => request = Head(outstanding)
      BY DEF CommandInv, CommitKnows
    <3>3. QED
      BY <3>1, <3>2 DEF OutstandingExact, Requests
  <2>2. Len(outstanding) <= NumSpeculative
    BY OutstandingCount DEF CommandInv
  <2>3. Len(relay) <= QUEUE_HIGH_WATERMARK + NumSpeculative
    <3>1. InHand \in Nat /\ NumSpeculative \in Nat /\ QUEUE_HIGH_WATERMARK \in Nat
      BY CommandAssumption, ReceiverAssumption DEF InHand
    <3>2. QED
      BY <2>2, <3>1, InFlight DEF CommandInv, Accounted
  <2>4. QED
    BY <2>1, <2>2, <2>3 DEF RequestsExact, QueuesHaveRoom
<1>2. QED
  BY <1>1, CommandInvariance, PTL

\* The flags by which the functions of the command lists decide agree with what
\* the GPU has still to do, whatever interrupt comes between two looks at them.
THEOREM RunningIsExact == Spec => []RunningExact
<1>1. CommandInv => RunningExact
  BY DEF CommandInv, ListsInv, RunningExact
<1>2. QED
  BY <1>1, CommandInvariance, PTL

\* The receiver strands no interrupt and its waiter misses no handler also under
\* the application's lists, which use them as they want to be used.
THEOREM ReceiverServesLists == Spec => [](NoInterruptStranded /\ NoMissedHandler)
<1>1. CommandInv => NoInterruptStranded /\ NoMissedHandler
  BY DEF CommandInv, WaiterInv, ReceiverInv
<1>2. QED
  BY <1>1, CommandInvariance, PTL
==============================================================================
