------------------------------ MODULE RingsProofs ------------------------------
(***************************************************************************)
(* What is proved of the rings: the requests to the GSP process             *)
(* (CmdReqQueue), the blocking queue, which implements the bounded sequence *)
(* BoundedDeque, the input samples that another process writes while they   *)
(* are read (LifoRing), and the circular list of notification handlers,     *)
(* which is searched while it changes (NotificationHandlers). The first     *)
(* three are arithmetic modulo the length of the ring, which the first      *)
(* lemmas state once.                                                       *)
(***************************************************************************)
EXTENDS BlockingQueue, CmdReqQueue, LifoRing, NotificationHandlers, SequenceTheorems, TLAPS

------------------------------------------------------------------------------
(* Places of a ring. *)

\* One turn around a ring of n places.
LEMMA ModOfRing ==
    ASSUME NEW n \in Nat \ {0}, NEW a \in Nat, a < 2 * n
    PROVE  a % n = IF a < n THEN a ELSE a - n
BY SMT

\* Offsets of less than a turn lead to different places.
LEMMA PlacesDiffer ==
    ASSUME NEW n \in Nat \ {0}, NEW h \in 0 .. n - 1,
           NEW i \in 0 .. n - 1, NEW j \in 0 .. n - 1, i # j
    PROVE  (h + i) % n # (h + j) % n
BY ModOfRing

\* A ring that starts one place further has the same places one offset lower.
LEMMA PlacesMoveOn ==
    ASSUME NEW n \in Nat \ {0}, NEW h \in 0 .. n - 1, NEW i \in 0 .. n
    PROVE  /\ (h + 1) % n \in 0 .. n - 1
           /\ i > 0 => (((h + 1) % n) + (i - 1)) % n = (h + i) % n
<1>1. (h + 1) % n = IF h + 1 < n THEN h + 1 ELSE 0
  OBVIOUS
<1>2. (h + 1) % n \in 0 .. n - 1
  BY <1>1
<1>3. ASSUME i > 0 PROVE (((h + 1) % n) + (i - 1)) % n = (h + i) % n
  <2>1. CASE h + 1 < n
    BY <1>1, <2>1
  <2>2. CASE ~(h + 1 < n)
    <3>1. h + i \in Nat /\ h + i < 2 * n /\ h + 1 = n
      BY <2>2
    <3>2. (h + i) % n = i - 1
      <4>1. h + i >= n /\ h + i - n = i - 1
        BY <1>3, <3>1
      <4>2. (h + i) % n = h + i - n
        <5> DEFINE a == h + i
        <5>1. a \in Nat /\ a < 2 * n /\ ~(a < n)
          BY <3>1, <4>1
        <5> HIDE DEF a
        <5>2. a % n = a - n
          BY <5>1, ModOfRing
        <5>3. QED
          BY <5>2 DEF a
      <4>3. QED
        BY <4>1, <4>2
    <3>3. (i - 1) % n = i - 1
      <4>1. i - 1 \in Nat /\ i - 1 < n /\ i - 1 < 2 * n
        BY <1>3
      <4>2. QED
        BY <4>1, ModOfRing
    <3>4. QED
      BY <1>1, <2>2, <3>2, <3>3
  <2>3. QED
    BY <2>1, <2>2
<1>4. QED
  BY <1>2, <1>3

\* A function on 1 .. n is a sequence of length n.
LEMMA FunctionIsSequence ==
    ASSUME NEW S, NEW n \in Nat, NEW f \in [1 .. n -> S]
    PROVE  f \in Seq(S) /\ Len(f) = n
<1>1. f \in Seq(S)
  BY SeqDef
<1>2. QED
  BY <1>1, LenProperties

\* A place of the ring is one of its places.
LEMMA PlaceOfRing ==
    ASSUME NEW n \in Nat \ {0}, NEW a \in Nat
    PROVE  a % n \in 0 .. n - 1
BY SMT

\* A place of the ring is its own remainder.
LEMMA PlaceOfPlace ==
    ASSUME NEW n \in Nat \ {0}, NEW h \in 0 .. n - 1
    PROVE  h % n = h
BY SMT

\* A ring that starts one place earlier starts where it did one offset later.
LEMMA PlacesMoveBack ==
    ASSUME NEW n \in Nat \ {0}, NEW h \in 0 .. n - 1
    PROVE  /\ (h + n - 1) % n \in 0 .. n - 1
           /\ (((h + n - 1) % n) + 1) % n = h
<1> DEFINE a == h + n - 1
<1>1. a \in Nat /\ a < 2 * n /\ a = h + n - 1
  OBVIOUS
<1>2. a % n = IF h = 0 THEN n - 1 ELSE h - 1
  <2> HIDE DEF a
  <2>1. a % n = IF a < n THEN a ELSE a - n
    BY <1>1, ModOfRing
  <2>2. QED
    BY <1>1, <2>1
<1> HIDE DEF a
<1>3. ((a % n) + 1) % n = h
  <2>1. CASE h = 0
    <3>1. (a % n) + 1 = n
      BY <1>2, <2>1
    <3>2. n % n = 0
      OBVIOUS
    <3>3. QED
      BY <2>1, <3>1, <3>2
  <2>2. CASE h # 0
    <3>1. (a % n) + 1 = h
      BY <1>2, <2>2
    <3>2. h % n = h
      OBVIOUS
    <3>3. QED
      BY <3>1, <3>2
  <2>3. QED
    BY <2>1, <2>2
<1>4. a % n \in 0 .. n - 1
  BY <1>2
<1>5. QED
  BY <1>3, <1>4 DEF a

------------------------------------------------------------------------------
(* The requests to the GSP process. *)

Slots == 0 .. QUEUE_LENGTH - 1
Controls == [head : Slots, usedCount : Nat]
Given == Requests \cup {NoRequest}

CrqTypeOK ==
    /\ control \in Controls
    /\ data \in [Slots -> Given]
    /\ place \in [Producers -> {"idle", "load", "write", "store", "reload", "trigger"}]
    /\ local \in [Producers -> [request : Given, control : Controls, slot : Slots]]
    /\ exclusive \subseteq Producers
    /\ gsp \in {"busy", "asleep", "triggered"}
    /\ expected \in Seq(Given)
    /\ overlapped \in BOOLEAN

Enqueues(p) == place[p] \notin {"idle", "trigger"}

\* An exclusive load that still holds has loaded what the word is.
LoadsHold == \A p \in exclusive : local[p].control = control

\* The one producer in TryEnqueue still has room, and its slot is the one after
\* the requests in the ring, whatever was taken since it looked.
OneEnqueues ==
    ~overlapped => \A p \in Producers :
      /\ Enqueues(p) =>
           /\ control.usedCount < QUEUE_LENGTH
           /\ \A q \in Producers : Enqueues(q) => q = p
      /\ place[p] \in {"write", "store", "reload"} =>
           local[p].slot = (control.head + control.usedCount) % QUEUE_LENGTH
      /\ place[p] \in {"store", "reload"} => data[local[p].slot] = local[p].request

CrqInv ==
    /\ CrqTypeOK /\ LoadsHold /\ OneEnqueues /\ NoRequestSleeps /\ RingIsExact
    /\ control.usedCount = Len(expected)
    /\ ~overlapped => control.usedCount <= QUEUE_LENGTH

\* The ring starts with the invariant.
LEMMA CrqInitInv == CrqInit => CrqInv
<1> SUFFICES ASSUME CrqInit PROVE CrqInv
  OBVIOUS
<1> USE RequestAssumption DEF CrqInit
<1>1. control \in Controls /\ control.usedCount = 0 /\ control.head = 0 /\ 0 \in Slots
  BY DEF Controls, Slots
<1>2. CrqTypeOK
  <2>1. local \in [Producers -> [request : Given, control : Controls, slot : Slots]]
    BY <1>1 DEF Given
  <2>2. data \in [Slots -> Given]
    BY DEF Slots, Given
  <2>3. QED
    BY SMTT(30), <1>1, <2>1, <2>2 DEF CrqTypeOK
<1>3. LoadsHold /\ OneEnqueues /\ NoRequestSleeps
  BY <1>1 DEF LoadsHold, OneEnqueues, Enqueues, NoRequestSleeps
<1>4. RingIsExact /\ control.usedCount <= QUEUE_LENGTH
  BY <1>1 DEF RingIsExact
<1>5. QED
  BY <1>2, <1>3, <1>4 DEF CrqInv

\* Every step of a producer and of the GSP process keeps it.
LEMMA CrqNextInv == CrqInv /\ [CrqNext]_crqVars => CrqInv'
<1> SUFFICES ASSUME CrqInv, [CrqNext]_crqVars PROVE CrqInv'
  OBVIOUS
<1> USE RequestAssumption DEF CrqInv, CrqTypeOK
<1>0. /\ control.head \in Slots /\ control.usedCount \in Nat
      /\ \A p \in Producers : local[p].request \in Given /\ local[p].control \in Controls /\ local[p].slot \in Slots
  BY DEF Controls
<1>1. ASSUME NEW p \in Producers, NEW r \in Requests, SeeRoom(p, r) PROVE CrqInv'
  <2>1. /\ place[p] = "idle" /\ control.usedCount < QUEUE_LENGTH
        /\ local' = [local EXCEPT ![p].request = r]
        /\ overlapped' = (overlapped \/ \E q \in Producers : Enqueues(q))
        /\ place' = [place EXCEPT ![p] = "load"]
        /\ UNCHANGED <<control, data, exclusive, gsp, expected>>
    BY <1>1 DEF SeeRoom, GoesTo, Enqueues
  <2>2. CrqTypeOK'
    BY <2>1 DEF Given
  <2>3. \A q \in Producers : local'[q].control = local[q].control /\ local'[q].slot = local[q].slot
    BY <2>1
  <2>4. LoadsHold'
    BY <2>1, <2>3 DEF LoadsHold
  <2>5. NoRequestSleeps' /\ RingIsExact'
    BY <2>1 DEF NoRequestSleeps, RingIsExact
  <2>6. OneEnqueues'
    <3>1. SUFFICES ASSUME ~overlapped' PROVE OneEnqueues'
      BY DEF OneEnqueues
    <3>2. \A q \in Producers : q # p => place'[q] \in {"idle", "trigger"}
      BY <2>1, <3>1 DEF Enqueues
    <3>3. place'[p] = "load"
      BY <2>1
    <3>4. QED
      BY <2>1, <3>2, <3>3 DEF OneEnqueues, Enqueues
  <2>7. QED
    BY <2>1, <2>2, <2>4, <2>5, <2>6
<1>2. ASSUME NEW p \in Producers, LoadControl(p) PROVE CrqInv'
  <2> DEFINE slot == IF place[p] = "reload" THEN local[p].slot
                     ELSE (control.head + control.usedCount) % QUEUE_LENGTH
             to == IF place[p] = "load" THEN "write" ELSE "store"
  <2>1. /\ place[p] \in {"load", "reload"}
        /\ exclusive' = exclusive \cup {p}
        /\ local' = [local EXCEPT ![p].control = control, ![p].slot = slot]
        /\ place' = [place EXCEPT ![p] = to]
        /\ UNCHANGED <<control, data, gsp, expected, overlapped>>
    BY <1>2 DEF LoadControl, GoesTo
  <2>2. slot \in Slots
    <3>1. (control.head + control.usedCount) % QUEUE_LENGTH \in Slots
      BY <1>0 DEF Slots
    <3>2. QED
      BY <1>0, <3>1
  <2>3. local'[p] = [request |-> local[p].request, control |-> control, slot |-> slot]
    BY <2>1
  <2>4. \A q \in Producers : q # p => local'[q] = local[q] /\ place'[q] = place[q]
    BY <2>1
  <2>5. place'[p] = to
    BY <2>1
  <2>6. local' \in [Producers -> [request : Given, control : Controls, slot : Slots]]
    <3>1. [request |-> local[p].request, control |-> control, slot |-> slot]
            \in [request : Given, control : Controls, slot : Slots]
      BY <1>0, <2>2
    <3>2. local' = [q \in Producers |-> local'[q]]
      BY <2>1
    <3> HIDE DEF slot
    <3>3. \A q \in Producers : local'[q] \in [request : Given, control : Controls, slot : Slots]
      BY <2>3, <2>4, <3>1
    <3>4. QED
      BY <3>2, <3>3
  <2>7. CrqTypeOK'
    BY <2>1, <2>6
  <2>8. LoadsHold'
    BY <2>1, <2>3, <2>4 DEF LoadsHold
  <2>9. NoRequestSleeps' /\ RingIsExact'
    BY <2>1, <2>4 DEF NoRequestSleeps, RingIsExact
  <2>10. OneEnqueues'
    <3>1. SUFFICES ASSUME ~overlapped PROVE OneEnqueues'
      BY <2>1 DEF OneEnqueues
    <3>2. Enqueues(p) /\ place'[p] \in {"write", "store"}
      BY <2>1, <2>5 DEF Enqueues
    <3>3. control.usedCount < QUEUE_LENGTH /\ \A q \in Producers : Enqueues(q) => q = p
      BY <3>1, <3>2 DEF OneEnqueues
    <3>4. local'[p].slot = (control.head + control.usedCount) % QUEUE_LENGTH
      BY <2>1, <2>3, <3>1 DEF OneEnqueues
    <3>5. place'[p] = "store" => data[local'[p].slot] = local'[p].request
      BY <2>1, <2>3, <2>5, <3>1 DEF OneEnqueues
    <3>6. \A q \in Producers : Enqueues(q)' => q = p
      BY <2>4, <3>3 DEF Enqueues
    <3>7. QED
      BY <2>1, <3>2, <3>3, <3>4, <3>5, <3>6 DEF OneEnqueues, Enqueues
  <2>11. QED
    BY <2>1, <2>7, <2>8, <2>9, <2>10
<1>3. ASSUME NEW p \in Producers, WriteRequest(p) PROVE CrqInv'
  <2>1. /\ place[p] = "write"
        /\ data' = [data EXCEPT ![local[p].slot] = local[p].request]
        /\ place' = [place EXCEPT ![p] = "store"]
        /\ UNCHANGED <<control, local, exclusive, gsp, expected, overlapped>>
    BY <1>3 DEF WriteRequest, GoesTo
  <2>2. CrqTypeOK' /\ LoadsHold' /\ NoRequestSleeps'
    BY <1>0, <2>1 DEF LoadsHold, NoRequestSleeps
  <2>3. ASSUME ~overlapped PROVE OneEnqueues' /\ RingIsExact'
    <3>1. /\ control.usedCount < QUEUE_LENGTH
          /\ \A q \in Producers : Enqueues(q) => q = p
          /\ local[p].slot = (control.head + control.usedCount) % QUEUE_LENGTH
      BY <2>1, <2>3 DEF OneEnqueues, Enqueues
    <3>2. data'[local[p].slot] = local[p].request /\ place'[p] = "store"
      BY <1>0, <2>1
    <3>3. \A q \in Producers : q # p => place'[q] \in {"idle", "trigger"}
      BY <2>1, <3>1 DEF Enqueues
    <3>4. OneEnqueues'
      BY <2>1, <3>1, <3>2, <3>3 DEF OneEnqueues, Enqueues
    <3>5. \A i \in 1 .. Len(expected) :
             (control.head + i - 1) % QUEUE_LENGTH # (control.head + control.usedCount) % QUEUE_LENGTH
      <4>1. TAKE i \in 1 .. Len(expected)
      <4>2. i - 1 \in 0 .. QUEUE_LENGTH - 1 /\ i - 1 # control.usedCount /\ control.usedCount \in 0 .. QUEUE_LENGTH - 1
        BY <1>0, <2>3, <3>1 DEF RingIsExact
      <4>3. (control.head + (i - 1)) % QUEUE_LENGTH # (control.head + control.usedCount) % QUEUE_LENGTH
        BY <1>0, <4>2, PlacesDiffer DEF Slots
      <4>4. control.head + (i - 1) = control.head + i - 1
        BY <1>0 DEF Slots
      <4>5. QED
        BY <4>3, <4>4
    <3>6. RingIsExact'
      <4>1. \A i \in 1 .. Len(expected) : (control.head + i - 1) % QUEUE_LENGTH \in Slots
        BY <1>0 DEF Slots
      <4>2. QED
        BY <2>1, <2>3, <3>1, <3>5, <4>1 DEF RingIsExact
    <3>7. QED
      BY <3>4, <3>6
  <2>4. QED
    BY <2>1, <2>2, <2>3 DEF OneEnqueues, RingIsExact
<1>4. ASSUME NEW p \in Producers, StoreControl(p) PROVE CrqInv'
  <2>1. place[p] = "store" /\ UNCHANGED <<data, local, gsp, overlapped>>
    BY <1>4 DEF StoreControl
  <2>2. CASE p \notin exclusive
    <3>1. place' = [place EXCEPT ![p] = "reload"] /\ UNCHANGED <<control, exclusive, expected>>
      BY <1>4, <2>2 DEF StoreControl, GoesTo
    <3>2. place'[p] = "reload" /\ \A q \in Producers : q # p => place'[q] = place[q]
      BY <3>1
    <3>3. CrqTypeOK' /\ LoadsHold' /\ RingIsExact'
      BY <2>1, <3>1 DEF LoadsHold, RingIsExact
    <3>4. NoRequestSleeps'
      BY <2>1, <3>1, <3>2 DEF NoRequestSleeps
    <3>5. OneEnqueues'
      BY <2>1, <3>1, <3>2 DEF OneEnqueues, Enqueues
    <3>6. QED
      BY <2>1, <3>1, <3>3, <3>4, <3>5
  <2>3. CASE p \in exclusive
    <3>1. /\ local[p].control = control
          /\ control' = [control EXCEPT !.usedCount = @ + 1]
          /\ exclusive' = {} /\ expected' = Append(expected, local[p].request)
          /\ place' = [place EXCEPT ![p] = IF control'.usedCount = 1 THEN "trigger" ELSE "idle"]
      BY <1>4, <2>3 DEF StoreControl, GoesTo, LoadsHold
    <3>2. control'.head = control.head /\ control'.usedCount = control.usedCount + 1 /\ control' \in Controls
      BY <1>0, <3>1 DEF Controls
    <3>3. expected' \in Seq(Given) /\ Len(expected') = Len(expected) + 1
      BY <1>0, <3>1, AppendProperties
    <3>4. CrqTypeOK' /\ LoadsHold'
      BY <2>1, <3>1, <3>2, <3>3 DEF LoadsHold
    <3>5. /\ place'[p] = IF control.usedCount = 0 THEN "trigger" ELSE "idle"
          /\ \A q \in Producers : q # p => place'[q] = place[q]
      BY <1>0, <3>1, <3>2
    <3>6. NoRequestSleeps'
      <4>1. CASE control.usedCount = 0
        BY <3>5, <4>1 DEF NoRequestSleeps
      <4>2. CASE control.usedCount # 0
        BY <1>0, <2>1, <3>5, <4>2 DEF NoRequestSleeps
      <4>3. QED
        BY <4>1, <4>2
    <3>7. ASSUME ~overlapped
          PROVE  OneEnqueues' /\ RingIsExact' /\ control'.usedCount <= QUEUE_LENGTH
      <4>1. /\ control.usedCount < QUEUE_LENGTH
            /\ \A q \in Producers : Enqueues(q) => q = p
            /\ data[(control.head + control.usedCount) % QUEUE_LENGTH] = local[p].request
        BY <2>1, <3>7 DEF OneEnqueues, Enqueues
      <4>2. \A q \in Producers : place'[q] \in {"idle", "trigger"}
        BY <3>5, <4>1 DEF Enqueues
      <4>3. OneEnqueues'
        BY <4>2 DEF OneEnqueues, Enqueues
      <4>4. Len(expected) = control.usedCount
        BY <3>7 DEF RingIsExact
      <4>5. ASSUME NEW i \in 1 .. Len(expected')
            PROVE  data[(control.head + i - 1) % QUEUE_LENGTH] = expected'[i]
        <5>1. CASE i \in 1 .. Len(expected)
          <6>1. expected'[i] = expected[i]
            BY <1>0, <3>1, <5>1, AppendProperties
          <6>2. QED
            BY <3>7, <5>1, <6>1 DEF RingIsExact
        <5>2. CASE i = Len(expected) + 1
          <6>1. expected'[i] = local[p].request
            BY <1>0, <3>1, <5>2, AppendProperties
          <6>2. control.head + i - 1 = control.head + control.usedCount
            BY <1>0, <4>4, <5>2 DEF Slots
          <6>3. QED
            BY <4>1, <6>1, <6>2
        <5>3. QED
          BY <3>3, <5>1, <5>2
      <4>6. RingIsExact'
        BY <2>1, <3>2, <3>3, <4>4, <4>5 DEF RingIsExact
      <4>7. QED
        BY <1>0, <3>2, <4>1, <4>3, <4>6
    <3>8. OneEnqueues' /\ RingIsExact' /\ (~overlapped' => control'.usedCount <= QUEUE_LENGTH)
      BY <2>1, <3>7 DEF OneEnqueues, RingIsExact
    <3>9. control'.usedCount = Len(expected')
      BY <3>2, <3>3
    <3>10. QED
      BY <3>4, <3>6, <3>8, <3>9
  <2>4. QED
    BY <2>2, <2>3
<1>5. ASSUME NEW p \in Producers, TriggerCmdReqQueue(p) PROVE CrqInv'
  <2>1. /\ place[p] = "trigger" /\ gsp' = IF gsp = "asleep" THEN "triggered" ELSE gsp
        /\ place' = [place EXCEPT ![p] = "idle"]
        /\ UNCHANGED <<control, data, local, exclusive, expected, overlapped>>
    BY <1>5 DEF TriggerCmdReqQueue, GoesTo
  <2>2. place'[p] = "idle" /\ \A q \in Producers : q # p => place'[q] = place[q]
    BY <2>1
  <2>3. CrqTypeOK' /\ LoadsHold' /\ RingIsExact' /\ NoRequestSleeps'
    BY <2>1 DEF LoadsHold, RingIsExact, NoRequestSleeps
  <2>4. OneEnqueues'
    BY <2>1, <2>2 DEF OneEnqueues, Enqueues
  <2>5. QED
    BY <2>1, <2>3, <2>4
<1>6. CASE Reset
  <2>1. /\ \A p \in Producers : place[p] = "idle"
        /\ control' = [control EXCEPT !.usedCount = 0]
        /\ exclusive' = {} /\ expected' = <<>>
        /\ UNCHANGED <<data, place, local, gsp, overlapped>>
    BY <1>6 DEF Reset
  <2>2. control' \in Controls /\ control'.usedCount = 0
    BY <1>0, <2>1 DEF Controls
  <2>3. QED
    BY <2>1, <2>2 DEF LoadsHold, OneEnqueues, Enqueues, NoRequestSleeps, RingIsExact
<1>7. CASE TakeRequest
  <2>1. gsp = "busy" /\ UNCHANGED <<data, place, local, overlapped>>
    BY <1>7 DEF TakeRequest
  <2>2. CASE ~(control.usedCount > 0)
    <3>1. gsp' = "asleep" /\ UNCHANGED <<control, exclusive, expected>>
      BY <1>7, <2>2 DEF TakeRequest
    <3>2. QED
      BY <2>1, <2>2, <3>1 DEF LoadsHold, OneEnqueues, Enqueues, NoRequestSleeps, RingIsExact
  <2>3. CASE control.usedCount > 0
    <3> DEFINE h == control.head
               n == control.usedCount
               h1 == (h + 1) % QUEUE_LENGTH
    <3>1. /\ control' = [head |-> h1, usedCount |-> n - 1]
          /\ exclusive' = {} /\ expected' = Tail(expected) /\ gsp' = gsp
      BY <1>7, <2>3 DEF TakeRequest
    <3>2. h1 \in Slots /\ h \in Slots /\ n \in Nat /\ n > 0
      BY <1>0, <2>3, PlacesMoveOn DEF Slots
    <3>3. control'.head = h1 /\ control'.usedCount = n - 1 /\ control' \in Controls
      BY <3>1, <3>2 DEF Controls
    <3>4. LoadsHold' /\ NoRequestSleeps'
      BY <2>1, <3>1 DEF LoadsHold, NoRequestSleeps
    <3>5. ASSUME ~overlapped
          PROVE  expected # <<>> /\ n <= QUEUE_LENGTH /\ Len(expected) = n
      BY <3>2, <3>5 DEF RingIsExact
    <3> HIDE DEF h, n, h1
    <3>6. ASSUME ~overlapped PROVE OneEnqueues' /\ RingIsExact' /\ control'.usedCount <= QUEUE_LENGTH
      <4>1. n \in 1 .. QUEUE_LENGTH
        BY <3>2, <3>5, <3>6
      <4>2. (h1 + (n - 1)) % QUEUE_LENGTH = (h + n) % QUEUE_LENGTH
        <5>1. h \in 0 .. QUEUE_LENGTH - 1 /\ n \in 0 .. QUEUE_LENGTH /\ n > 0
          BY <3>2, <4>1 DEF Slots
        <5>2. (((h + 1) % QUEUE_LENGTH) + (n - 1)) % QUEUE_LENGTH = (h + n) % QUEUE_LENGTH
          BY <5>1, PlacesMoveOn
        <5>3. QED
          BY <5>2 DEF h1
      <4>3. OneEnqueues'
        <5>1. ASSUME NEW p \in Producers, Enqueues(p)
              PROVE n < QUEUE_LENGTH /\ \A q \in Producers : Enqueues(q) => q = p
          BY <3>6, <5>1 DEF OneEnqueues, n
        <5>2. ASSUME NEW p \in Producers
              PROVE  /\ place[p] \in {"write", "store", "reload"} =>
                          local[p].slot = (h + n) % QUEUE_LENGTH
                     /\ place[p] \in {"store", "reload"} => data[local[p].slot] = local[p].request
          BY <3>6, <5>2 DEF OneEnqueues, n, h
        <5>3. \A p \in Producers : Enqueues(p)' <=> Enqueues(p)
          BY <2>1 DEF Enqueues
        <5>4. QED
          BY <2>1, <3>2, <3>3, <4>2, <5>1, <5>2, <5>3 DEF OneEnqueues
      <4>4. /\ Tail(expected) \in Seq(Given) /\ Len(Tail(expected)) = n - 1
            /\ \A i \in 1 .. n - 1 : Tail(expected)[i] = expected[i + 1]
        BY <3>5, <3>6, HeadTailProperties
      <4>5. ASSUME NEW i \in 1 .. n - 1
            PROVE  data[(h1 + i - 1) % QUEUE_LENGTH] = Tail(expected)[i]
        <5>1. i \in 1 .. QUEUE_LENGTH /\ i + 1 \in 1 .. n /\ i > 0
          BY <4>1
        <5>2. (h1 + (i - 1)) % QUEUE_LENGTH = (h + i) % QUEUE_LENGTH
          <6>1. h \in 0 .. QUEUE_LENGTH - 1 /\ i \in 0 .. QUEUE_LENGTH
            BY <3>2, <5>1 DEF Slots
          <6>2. (((h + 1) % QUEUE_LENGTH) + (i - 1)) % QUEUE_LENGTH = (h + i) % QUEUE_LENGTH
            BY <5>1, <6>1, PlacesMoveOn
          <6>3. QED
            BY <6>2 DEF h1
        <5>3. data[(h + (i + 1) - 1) % QUEUE_LENGTH] = expected[i + 1]
          BY <3>5, <3>6, <5>1 DEF RingIsExact, h
        <5>4. h1 + i - 1 = h1 + (i - 1) /\ h + (i + 1) - 1 = h + i
          BY <3>2 DEF Slots
        <5>5. QED
          BY <4>4, <5>2, <5>3, <5>4
      <4>6. RingIsExact'
        BY <2>1, <3>1, <3>3, <4>4, <4>5 DEF RingIsExact
      <4>7. QED
        BY <3>3, <4>1, <4>3, <4>6
    <3>7. expected' \in Seq(Given) /\ Len(expected') = n - 1
      <4>1. expected # <<>> /\ Len(expected) = n
        BY <3>2 DEF n
      <4>2. QED
        BY <3>1, <4>1, HeadTailProperties
    <3>8. QED
      BY <2>1, <3>1, <3>3, <3>4, <3>6, <3>7 DEF OneEnqueues, RingIsExact
  <2>4. QED
    BY <2>2, <2>3
<1>8. CASE WakeGsp
  BY <1>8 DEF WakeGsp, LoadsHold, OneEnqueues, Enqueues, NoRequestSleeps, RingIsExact
<1>9. CASE UNCHANGED crqVars
  BY <1>9 DEF crqVars, LoadsHold, OneEnqueues, Enqueues, NoRequestSleeps, RingIsExact
<1>10. QED
  BY <1>1, <1>2, <1>3, <1>4, <1>5, <1>6, <1>7, <1>8, <1>9 DEF CrqNext, EnqueueStep

\* Whatever producers and the GSP process do, for any number of them and any
\* length of the ring, it holds the requests enqueued and not yet taken in their
\* order, unless two producers overlap.
THEOREM RequestsAreExact == CrqSpec => []RingIsExact
<1>1. CrqInv => RingIsExact
  BY DEF CrqInv
<1>2. QED
  BY <1>1, CrqInitInv, CrqNextInv, PTL DEF CrqSpec

\* Requests never lie in the ring while the GSP process sleeps and nobody is
\* about to trigger it, also if producers overlap.
THEOREM NoRequestIsLeft == CrqSpec => []NoRequestSleeps
<1>1. CrqInv => NoRequestSleeps
  BY DEF CrqInv
<1>2. QED
  BY <1>1, CrqInitInv, CrqNextInv, PTL DEF CrqSpec

------------------------------------------------------------------------------
(* The blocking queue. *)

Places == 0 .. Size - 1
StoredItems == Items \cup Urgent

\* The places that hold an item hold one that was put, the count is within the
\* ring, and a thread that tries to put or to take has a call of that kind.
RingInv ==
    /\ used \in 0 .. Size
    /\ first \in Places
    /\ buffer \in [Places -> StoredItems \cup {NoItem}]
    /\ \A i \in 0 .. used - 1 : buffer[(first + i) % Size] \in StoredItems
    /\ pc \in [Threads -> {"idle", "put", "take", "putWait", "takeWait", "putDone", "takeDone"}]
    /\ call \in [Threads -> {Idle} \cup Producing \cup Consuming]
    /\ \A t \in Threads :
         /\ pc[t] \in {"put", "putWait"} => call[t] \in Producing
         /\ pc[t] \in {"take", "takeWait"} => call[t] \in Consuming

\* The queue a ring stands for is a sequence of its items.
LEMMA QueueIsSequence ==
    ASSUME RingInv
    PROVE  /\ Queue \in Seq(StoredItems)
           /\ Len(Queue) = used
           /\ \A i \in 1 .. used : Queue[i] = buffer[(first + i - 1) % Size]
<1> USE QueueAssumption DEF RingInv
<1>1. used \in Nat
  OBVIOUS
<1>2. ASSUME NEW i \in 1 .. used PROVE buffer[(first + i - 1) % Size] \in StoredItems
  <2>1. i - 1 \in 0 .. used - 1 /\ first + i - 1 = first + (i - 1)
    BY DEF Places
  <2>2. QED
    BY <2>1
<1>3. Queue \in [1 .. used -> StoredItems]
  BY <1>2 DEF Queue
<1>4. QED
  BY <1>1, <1>3, FunctionIsSequence DEF Queue

\* What is put last follows all that is in the ring.
LEMMA PutLastAppends ==
    ASSUME RingInv, NEW d \in StoredItems, PutLast(d)
    PROVE  /\ used' \in 0 .. Size /\ first' \in Places
           /\ buffer' \in [Places -> StoredItems \cup {NoItem}]
           /\ \A i \in 0 .. used' - 1 : buffer'[(first' + i) % Size] \in StoredItems
           /\ \A i \in 1 .. used : buffer'[(first' + i - 1) % Size] = Queue[i]
           /\ buffer'[(first' + used' - 1) % Size] = d
           /\ used' = used + 1 /\ Len(Queue) < Size
<1> USE QueueAssumption
<1>1. used \in 0 .. Size - 1 /\ used' = used + 1 /\ first' = first /\ first \in Places
  BY DEF RingInv, PutLast, Full
<1> DEFINE at == (first + used) % Size
<1>2. at \in Places
  BY <1>1, PlaceOfRing DEF Places
<1>3. buffer' = [buffer EXCEPT ![at] = d]
  BY DEF PutLast
<1>4. \A i \in 0 .. used - 1 : (first + i) % Size # at
  BY <1>1, PlacesDiffer DEF Places
<1> HIDE DEF at
<1>5. buffer'[at] = d /\ \A j \in Places : j # at => buffer'[j] = buffer[j]
  BY <1>2, <1>3 DEF RingInv
<1>6. \A i \in 0 .. used - 1 : (first + i) % Size \in Places
  BY <1>1, PlaceOfRing DEF Places
<1>7. \A i \in 0 .. used - 1 : buffer'[(first + i) % Size] = buffer[(first + i) % Size]
  BY <1>4, <1>5, <1>6
<1>8. ASSUME NEW i \in 0 .. used' - 1 PROVE buffer'[(first' + i) % Size] \in StoredItems
  <2>1. CASE i = used
    BY <1>1, <1>5, <2>1 DEF at
  <2>2. CASE i # used
    <3>1. i \in 0 .. used - 1
      BY <1>1, <2>2
    <3>2. QED
      BY <1>1, <1>7, <3>1 DEF RingInv
  <2>3. QED
    BY <2>1, <2>2
<1>9. ASSUME NEW i \in 1 .. used PROVE buffer'[(first' + i - 1) % Size] = Queue[i]
  <2>1. i - 1 \in 0 .. used - 1 /\ first + i - 1 = first + (i - 1)
    BY <1>1 DEF Places
  <2>2. buffer'[(first + (i - 1)) % Size] = buffer[(first + (i - 1)) % Size]
    BY <1>7, <2>1
  <2>3. QED
    BY <1>1, <2>1, <2>2, QueueIsSequence
<1>10. first' + used' - 1 = first + used
  BY <1>1 DEF Places
<1>11. QED
  BY <1>1, <1>2, <1>3, <1>5, <1>8, <1>9, <1>10, QueueIsSequence DEF RingInv, at

\* What is put first precedes all that is in the ring.
LEMMA PutFirstPrepends ==
    ASSUME RingInv, NEW d \in StoredItems, PutFirst(d)
    PROVE  /\ used' \in 0 .. Size /\ first' \in Places
           /\ buffer' \in [Places -> StoredItems \cup {NoItem}]
           /\ \A i \in 0 .. used' - 1 : buffer'[(first' + i) % Size] \in StoredItems
           /\ \A i \in 2 .. used' : buffer'[(first' + i - 1) % Size] = Queue[i - 1]
           /\ buffer'[first'] = d
           /\ used' = used + 1 /\ Len(Queue) < Size
<1> USE QueueAssumption
<1>1. used \in 0 .. Size - 1 /\ used' = used + 1 /\ first \in Places
  BY DEF RingInv, PutFirst, Full
<1>2. first' = (first + Size - 1) % Size /\ buffer' = [buffer EXCEPT ![first'] = d]
  BY DEF PutFirst
<1>3. first' \in Places /\ (first' + 1) % Size = first
  BY <1>1, <1>2, PlacesMoveBack DEF Places
<1>4. buffer'[first'] = d /\ \A j \in Places : j # first' => buffer'[j] = buffer[j]
  BY <1>2, <1>3 DEF RingInv
<1>5. ASSUME NEW i \in 1 .. used
      PROVE  /\ (first' + i) % Size = (first + (i - 1)) % Size
             /\ (first' + i) % Size \in Places /\ (first' + i) % Size # first'
  <2> DEFINE h == first'
  <2>1. h \in 0 .. Size - 1 /\ (h + 1) % Size = first
    BY <1>3 DEF Places
  <2> HIDE DEF h
  <2>2. (((h + 1) % Size) + (i - 1)) % Size = (h + i) % Size
    BY <1>1, <2>1, PlacesMoveOn
  <2> DEFINE none == 0
  <2>3. none \in 0 .. Size - 1 /\ i \in 0 .. Size - 1 /\ i # none /\ h + none = h
    BY <1>1, <2>1
  <2> HIDE DEF none
  <2>4. h # (h + i) % Size
    <3>1. (h + none) % Size # (h + i) % Size
      BY <2>1, <2>3, PlacesDiffer
    <3>2. h % Size = h
      BY <2>1
    <3>3. QED
      BY <2>3, <3>1, <3>2
  <2>5. (h + i) % Size \in 0 .. Size - 1
    BY <2>1, PlaceOfRing
  <2>6. QED
    BY <2>1, <2>2, <2>4, <2>5 DEF h, Places
<1>6. \A i \in 1 .. used : buffer'[(first' + i) % Size] = buffer[(first + (i - 1)) % Size]
  BY <1>4, <1>5
<1>7. ASSUME NEW i \in 0 .. used' - 1 PROVE buffer'[(first' + i) % Size] \in StoredItems
  <2>1. CASE i = 0
    <3>1. first' % Size = first'
      BY <1>3, PlaceOfPlace DEF Places
    <3>2. first' + i = first'
      <4>1. first' \in Nat
        BY <1>3 DEF Places
      <4>2. \A n \in Nat : n + 0 = n
        OBVIOUS
      <4>3. first' + 0 = first'
        BY <4>1, <4>2
      <4>4. QED
        BY <2>1, <4>3
    <3>3. QED
      BY <1>4, <3>1, <3>2
  <2>2. CASE i # 0
    <3>1. i \in 1 .. used /\ i - 1 \in 0 .. used - 1
      BY <1>1, <2>2
    <3>2. QED
      BY <1>6, <3>1 DEF RingInv
  <2>3. QED
    BY <2>1, <2>2
<1>8. ASSUME NEW i \in 2 .. used' PROVE buffer'[(first' + i - 1) % Size] = Queue[i - 1]
  <2>1. i - 1 \in 1 .. used /\ first' + i - 1 = first' + (i - 1) /\ first + ((i - 1) - 1) = first + (i - 1) - 1
    BY <1>1, <1>3 DEF Places
  <2>2. QED
    BY <1>6, <2>1, QueueIsSequence
<1>9. buffer' \in [Places -> StoredItems \cup {NoItem}]
  BY <1>2, <1>3 DEF RingInv
<1>10. Len(Queue) < Size
  BY <1>1, QueueIsSequence
<1>11. used' \in 0 .. Size
  BY <1>1
<1>12. QED
  BY ZenonT(30), <1>1, <1>3, <1>4, <1>7, <1>8, <1>9, <1>10, <1>11

\* What is taken is the first; the others move up by one.
LEMMA TakeFirstTakes ==
    ASSUME RingInv, TakeFirst
    PROVE  /\ used' \in 0 .. Size /\ first' \in Places
           /\ buffer' \in [Places -> StoredItems \cup {NoItem}]
           /\ \A i \in 0 .. used' - 1 : buffer'[(first' + i) % Size] \in StoredItems
           /\ \A i \in 1 .. used' : buffer'[(first' + i - 1) % Size] = Queue[i + 1]
           /\ used' = used - 1 /\ Len(Queue) > 0
<1> USE QueueAssumption
<1>1. used \in 1 .. Size /\ used' = used - 1 /\ first \in Places /\ buffer' = buffer
  BY DEF RingInv, TakeFirst, Empty
<1>2. first' = (first + 1) % Size
  BY DEF TakeFirst
<1>3. first' \in Places
  BY <1>1, <1>2, PlaceOfRing DEF Places
<1>4. ASSUME NEW i \in 0 .. used' - 1
      PROVE  (first' + i) % Size = (first + (i + 1)) % Size
  <2>1. i + 1 \in 0 .. Size /\ i + 1 > 0 /\ (i + 1) - 1 = i
    BY <1>1
  <2>2. QED
    BY <1>1, <1>2, <2>1, PlacesMoveOn DEF Places
<1>5. ASSUME NEW i \in 0 .. used' - 1 PROVE buffer'[(first' + i) % Size] \in StoredItems
  <2>1. i + 1 \in 0 .. used - 1
    BY <1>1
  <2>2. QED
    BY <1>1, <1>4, <2>1 DEF RingInv
<1>6. ASSUME NEW i \in 1 .. used' PROVE buffer'[(first' + i - 1) % Size] = Queue[i + 1]
  <2>1. i - 1 \in 0 .. used' - 1 /\ first' + i - 1 = first' + (i - 1) /\ (i - 1) + 1 = i
    BY <1>1, <1>3 DEF Places
  <2>2. (first' + (i - 1)) % Size = (first + i) % Size
    BY <1>4, <2>1
  <2>3. i + 1 \in 1 .. used /\ first + (i + 1) - 1 = first + i
    BY <1>1 DEF Places
  <2>4. QED
    BY <1>1, <2>1, <2>2, <2>3, QueueIsSequence
<1>7. QED
  BY <1>1, <1>3, <1>5, <1>6, QueueIsSequence DEF RingInv

\* What a Try function that succeeds does to the ring, and to the abstract queue.
LEMMA PerformKeeps ==
    ASSUME RingInv, NEW c \in Producing \cup Consuming, Perform(c)
    PROVE  /\ used' \in 0 .. Size /\ first' \in Places
           /\ buffer' \in [Places -> StoredItems \cup {NoItem}]
           /\ \A i \in 0 .. used' - 1 : buffer'[(first' + i) % Size] \in StoredItems
           /\ [Abstract!Next]_Queue
<1> USE QueueAssumption
<1>0. Queue \in Seq(StoredItems) /\ Len(Queue) = used /\ used \in Nat
  BY QueueIsSequence DEF RingInv
<1>a. ASSUME used' \in 0 .. Size, first' \in Places,
             \A i \in 0 .. used' - 1 : buffer'[(first' + i) % Size] \in StoredItems
      PROVE  /\ Queue' \in Seq(StoredItems) /\ Len(Queue') = used'
             /\ \A i \in 1 .. used' : Queue'[i] = buffer'[(first' + i - 1) % Size]
  <2> DEFINE q == [i \in 1 .. used' |-> buffer'[(first' + i - 1) % Size]]
  <2> DEFINE u == used'
             f == first'
  <2>0. u \in Nat /\ f \in Nat
    BY <1>a DEF Places
  <2> HIDE DEF u, f
  <2>1. ASSUME NEW i \in 1 .. u PROVE buffer'[(f + i - 1) % Size] \in StoredItems
    <3>1. i - 1 \in 0 .. u - 1 /\ f + i - 1 = f + (i - 1)
      BY <2>0
    <3>2. QED
      BY <1>a, <3>1 DEF u, f
  <2>2. q \in [1 .. used' -> StoredItems] /\ used' \in Nat
    BY <1>a, <2>1 DEF u, f
  <2>3. q \in Seq(StoredItems) /\ Len(q) = used'
    <3> HIDE DEF q
    <3> QED
      BY <2>2, FunctionIsSequence
  <2>4. Queue' = q
    BY DEF Queue
  <2>5. QED
    BY <2>3, <2>4
<1>1. CASE c.op = "Enqueue"
  <2>1. c.item \in StoredItems /\ PutLast(c.item)
    BY <1>1 DEF Producing, Consuming, StoredItems, Perform
  <2>2. /\ used' \in 0 .. Size /\ first' \in Places
        /\ buffer' \in [Places -> StoredItems \cup {NoItem}]
        /\ \A i \in 0 .. used' - 1 : buffer'[(first' + i) % Size] \in StoredItems
        /\ \A i \in 1 .. used : buffer'[(first' + i - 1) % Size] = Queue[i]
        /\ buffer'[(first' + used' - 1) % Size] = c.item
        /\ used' = used + 1 /\ Len(Queue) < Size
    BY <2>1, PutLastAppends
  <2>3. Queue' \in Seq(StoredItems) /\ Len(Queue') = used'
        /\ \A i \in 1 .. used' : Queue'[i] = buffer'[(first' + i - 1) % Size]
    BY <1>a, <2>2
  <2> DEFINE appended == Append(Queue, c.item)
  <2>4. /\ appended \in Seq(StoredItems) /\ Len(appended) = used + 1
        /\ \A i \in 1 .. used : appended[i] = Queue[i]
        /\ appended[used + 1] = c.item
    BY <1>0, <2>1, AppendProperties
  <2> HIDE DEF appended
  <2>5. \A i \in 1 .. Len(Queue') : Queue'[i] = appended[i]
    <3>1. ASSUME NEW i \in 1 .. used + 1 PROVE Queue'[i] = appended[i]
      <4>1. CASE i = used + 1
        BY <1>0, <2>2, <2>3, <2>4, <4>1
      <4>2. CASE i # used + 1
        <5>1. i \in 1 .. used /\ i \in 1 .. used'
          BY <1>0, <2>2, <4>2
        <5>2. QED
          BY <2>2, <2>3, <2>4, <5>1
      <4>3. QED
        BY <4>1, <4>2
    <3>2. QED
      BY <2>2, <2>3, <3>1
  <2>6. Queue' = appended
    BY <2>2, <2>3, <2>4, <2>5, SeqEqual
  <2>7. Abstract!PushBack(c.item)
    BY <2>2, <2>6 DEF Abstract!PushBack, appended
  <2>8. Abstract!Next
    BY <2>1, <2>7 DEF Abstract!Next, StoredItems
  <2>9. QED
    BY <2>2, <2>8
<1>2. CASE c.op = "Jam"
  <2>1. c.item \in StoredItems /\ PutFirst(c.item)
    BY <1>2 DEF Producing, Consuming, StoredItems, Perform
  <2>2. /\ used' \in 0 .. Size /\ first' \in Places
        /\ buffer' \in [Places -> StoredItems \cup {NoItem}]
        /\ \A i \in 0 .. used' - 1 : buffer'[(first' + i) % Size] \in StoredItems
        /\ \A i \in 2 .. used' : buffer'[(first' + i - 1) % Size] = Queue[i - 1]
        /\ buffer'[first'] = c.item
        /\ used' = used + 1 /\ Len(Queue) < Size
    BY <2>1, PutFirstPrepends
  <2>3. Queue' \in Seq(StoredItems) /\ Len(Queue') = used'
        /\ \A i \in 1 .. used' : Queue'[i] = buffer'[(first' + i - 1) % Size]
    BY <1>a, <2>2
  <2> DEFINE front == <<c.item>>
             prepended == front \o Queue
  <2>4. front \in Seq(StoredItems) /\ Len(front) = 1 /\ front[1] = c.item
    BY <2>1
  <2>5. /\ prepended \in Seq(StoredItems) /\ Len(prepended) = used + 1
        /\ \A i \in 1 .. used + 1 : prepended[i] = IF i <= 1 THEN c.item ELSE Queue[i - 1]
    <3> HIDE DEF front
    <3>1. /\ prepended \in Seq(StoredItems) /\ Len(prepended) = 1 + used
          /\ \A i \in 1 .. 1 + used : prepended[i] = IF i <= 1 THEN front[i] ELSE Queue[i - 1]
      <4>1. /\ prepended \in Seq(StoredItems) /\ Len(prepended) = Len(front) + Len(Queue)
            /\ \A i \in 1 .. Len(front) + Len(Queue) :
                  prepended[i] = IF i <= Len(front) THEN front[i] ELSE Queue[i - Len(front)]
        BY ZenonT(30), <1>0, <2>4, ConcatProperties
      <4> HIDE DEF prepended
      <4>2. QED
        BY <1>0, <2>4, <4>1
    <3>2. \A i \in 1 .. used + 1 : i \in 1 .. 1 + used /\ (i <= 1 => i = 1)
      BY <1>0
    <3>3. 1 + used = used + 1
      BY <1>0
    <3> HIDE DEF prepended
    <3>4. QED
      BY <2>4, <3>1, <3>2, <3>3
  <2> HIDE DEF prepended
  <2>6. ASSUME NEW i \in 1 .. used' PROVE Queue'[i] = prepended[i]
    <3>1. CASE i = 1
      <4>1. first' + 1 - 1 = first' /\ first' % Size = first' /\ 1 \in 1 .. used' /\ 1 \in 1 .. used + 1
        BY <1>0, <2>2, PlaceOfPlace DEF Places
      <4>2. Queue'[1] = buffer'[(first' + 1 - 1) % Size]
        BY <2>3, <4>1
      <4>3. QED
        BY <2>2, <2>5, <3>1, <4>1, <4>2
    <3>2. CASE i # 1
      <4>1. i \in 2 .. used' /\ i \in 1 .. used + 1 /\ ~(i <= 1)
        BY <1>0, <2>2, <3>2
      <4>2. QED
        BY <2>2, <2>3, <2>5, <4>1
    <3>3. QED
      BY <3>1, <3>2
  <2>7. Queue' = prepended
    BY <2>2, <2>3, <2>5, <2>6, SeqEqual
  <2>8. Abstract!PushFront(c.item)
    BY <2>2, <2>7 DEF Abstract!PushFront, prepended, front
  <2>9. Abstract!Next
    BY <2>1, <2>8 DEF Abstract!Next, StoredItems
  <2>10. QED
    BY <2>2, <2>9
<1>3. CASE c.op = "Dequeue"
  <2>1. TakeFirst
    BY <1>3 DEF Perform
  <2>2. /\ used' \in 0 .. Size /\ first' \in Places
        /\ buffer' \in [Places -> StoredItems \cup {NoItem}]
        /\ \A i \in 0 .. used' - 1 : buffer'[(first' + i) % Size] \in StoredItems
        /\ \A i \in 1 .. used' : buffer'[(first' + i - 1) % Size] = Queue[i + 1]
        /\ used' = used - 1 /\ Len(Queue) > 0
    BY <2>1, TakeFirstTakes
  <2>3. Queue' \in Seq(StoredItems) /\ Len(Queue') = used'
        /\ \A i \in 1 .. used' : Queue'[i] = buffer'[(first' + i - 1) % Size]
    BY <1>a, <2>2
  <2>4. Queue # <<>>
    <3>1. Len(<<>>) = 0
      BY EmptySeq
    <3>2. QED
      BY <2>2, <3>1
  <2> DEFINE rest == Tail(Queue)
  <2>5. rest \in Seq(StoredItems) /\ Len(rest) = used - 1 /\ \A i \in 1 .. used - 1 : rest[i] = Queue[i + 1]
    BY <1>0, <2>4, HeadTailProperties
  <2> HIDE DEF rest
  <2>6. \A i \in 1 .. used' : Queue'[i] = rest[i]
    BY <2>2, <2>3, <2>5
  <2>7. Queue' = rest
    BY <2>2, <2>3, <2>5, <2>6, SeqEqual
  <2>8. Abstract!PopFront
    BY <2>4, <2>7 DEF Abstract!PopFront, rest
  <2>9. QED
    BY <2>2, <2>8 DEF Abstract!Next
<1>4. CASE c.op = "GetFront"
  <2>1. UNCHANGED <<buffer, first, used>>
    BY <1>4 DEF Perform, SeeFirst, ring
  <2>2. Queue' = Queue
    BY <2>1 DEF Queue
  <2>3. QED
    BY <2>1, <2>2 DEF RingInv
<1>5. QED
  BY <1>1, <1>2, <1>3, <1>4 DEF Producing, Consuming

Walking == {"idle", "put", "take", "putWait", "takeWait", "putDone", "takeDone"}

\* The queue starts with the invariant, empty.
LEMMA RingInitInv == Init => RingInv /\ Abstract!Init
<1> SUFFICES ASSUME Init PROVE RingInv /\ Abstract!Init
  OBVIOUS
<1> USE QueueAssumption DEF Init
<1>1. used \in 0 .. Size /\ first \in Places /\ buffer \in [Places -> StoredItems \cup {NoItem}]
  BY DEF Places
<1>2. \A i \in 0 .. used - 1 : buffer[(first + i) % Size] \in StoredItems
  BY <1>1
<1>3. RingInv
  BY <1>1, <1>2 DEF RingInv
<1>4. Queue = <<>>
  <2>1. Queue \in Seq(StoredItems) /\ Len(Queue) = 0
    BY <1>3, QueueIsSequence
  <2>2. QED
    BY <2>1, EmptySeq
<1>5. QED
  BY <1>3, <1>4 DEF Abstract!Init

\* Every step of a thread keeps the invariant and is one of the abstract queue,
\* or leaves that as it is.
LEMMA RingNextInv == RingInv /\ [Next]_vars => RingInv' /\ [Abstract!Next]_Queue
<1> SUFFICES ASSUME RingInv, [Next]_vars PROVE RingInv' /\ [Abstract!Next]_Queue
  OBVIOUS
<1> DEFINE RingOK == /\ used \in 0 .. Size /\ first \in Places
                     /\ buffer \in [Places -> StoredItems \cup {NoItem}]
                     /\ \A i \in 0 .. used - 1 : buffer[(first + i) % Size] \in StoredItems
           ThreadsOK == /\ pc \in [Threads -> Walking]
                        /\ call \in [Threads -> {Idle} \cup Producing \cup Consuming]
                        /\ \A t \in Threads :
                             /\ pc[t] \in {"put", "putWait"} => call[t] \in Producing
                             /\ pc[t] \in {"take", "takeWait"} => call[t] \in Consuming
<1>a. RingInv <=> RingOK /\ ThreadsOK
  BY DEF RingInv, Walking
<1>b. RingInv' <=> RingOK' /\ ThreadsOK'
  BY DEF RingInv, Walking
<1>c. ThreadsOK /\ RingOK
  BY <1>a
<1>d. UNCHANGED ring => RingOK' /\ Queue' = Queue
  BY <1>c DEF ring, Queue
<1>e. UNCHANGED <<pc, call>> => ThreadsOK'
  BY <1>c
<1>f. ASSUME NEW c \in Producing \cup Consuming, Perform(c)
      PROVE  RingOK' /\ [Abstract!Next]_Queue
  BY <1>f, PerformKeeps
<1> HIDE DEF RingOK
<1>1. ASSUME NEW t \in Threads, NEW c \in Calls, TryCall(t, c) PROVE RingInv' /\ [Abstract!Next]_Queue
  BY <1>1, <1>b, <1>e, <1>f DEF TryCall, Calls
<1>2. ASSUME NEW t \in Threads, NEW c \in Calls, Begin(t, c) PROVE RingInv' /\ [Abstract!Next]_Queue
  <2>1. UNCHANGED ring /\ call' = [call EXCEPT ![t] = c]
    BY <1>2 DEF Begin
  <2>2. ASSUME c \in Producing /\ pc' = [pc EXCEPT ![t] = "put"] PROVE ThreadsOK'
    BY <1>c, <2>1, <2>2 DEF Walking
  <2>3. ASSUME c \in Consuming /\ pc' = [pc EXCEPT ![t] = "take"] PROVE ThreadsOK'
    BY <1>c, <2>1, <2>3 DEF Walking
  <2>4. ThreadsOK'
    BY <1>2, <2>2, <2>3 DEF Begin, Goto
  <2>5. QED
    BY <1>b, <1>d, <2>1, <2>4
<1>3. ASSUME NEW t \in Threads, Attempt(t) PROVE RingInv' /\ [Abstract!Next]_Queue
  <2>1. UNCHANGED call /\ pc[t] \in {"put", "take"}
    BY <1>3 DEF Attempt
  <2>2. call[t] \in Producing \cup Consuming
    BY <1>c, <2>1
  <2>3. CASE Perform(call[t]) /\ Goto(t, IF pc[t] = "put" THEN "putDone" ELSE "takeDone")
    <3>1. ThreadsOK'
      BY <1>c, <2>1, <2>3 DEF Goto, Walking
    <3>2. QED
      BY <1>b, <1>f, <2>2, <2>3, <3>1
  <2>4. CASE UNCHANGED ring /\ Goto(t, IF pc[t] = "put" THEN "putWait" ELSE "takeWait")
    <3>1. ThreadsOK'
      BY <1>c, <2>1, <2>4 DEF Goto, Walking
    <3>2. QED
      BY <1>b, <1>d, <2>4, <3>1
  <2>5. QED
    BY <1>3, <2>3, <2>4 DEF Attempt
<1>4. ASSUME NEW t \in Threads, AcquireSlotToken(t) \/ AcquireItemToken(t)
      PROVE  RingInv' /\ [Abstract!Next]_Queue
  <2>1. UNCHANGED ring /\ UNCHANGED call
    BY <1>4 DEF AcquireSlotToken, AcquireItemToken
  <2>2. ThreadsOK'
    BY <1>4, <1>c, <2>1 DEF AcquireSlotToken, AcquireItemToken, Goto, Walking
  <2>3. QED
    BY <1>b, <1>d, <2>1, <2>2
<1>5. ASSUME NEW t \in Threads, Finish(t) PROVE RingInv' /\ [Abstract!Next]_Queue
  <2>1. UNCHANGED ring /\ call' = [call EXCEPT ![t] = Idle] /\ pc' = [pc EXCEPT ![t] = "idle"]
    BY <1>5 DEF Finish, Return, Goto
  <2>2. ThreadsOK'
    BY <1>c, <2>1 DEF Walking
  <2>3. QED
    BY <1>b, <1>d, <2>1, <2>2
<1>6. CASE UNCHANGED vars
  BY <1>6, <1>b, <1>d, <1>e DEF vars
<1>7. QED
  BY <1>1, <1>2, <1>3, <1>4, <1>5, <1>6 DEF Next, Step

\* Whatever threads call a blocking queue, and wherever its ring wraps, items
\* are put and taken as in a bounded sequence: SafeSpec implements what
\* ImplementsDeque states.
THEOREM QueueIsDeque == SafeSpec => ImplementsDeque
<1>1. Init => RingInv /\ Abstract!Init
  BY RingInitInv
<1>2. RingInv /\ [Next]_vars => RingInv' /\ [Abstract!Next]_Queue
  BY RingNextInv
<1>3. QED
  BY <1>1, <1>2, PTL DEF SafeSpec, ImplementsDeque, Abstract!Spec

------------------------------------------------------------------------------
(* The input samples. *)

SampleSlots == 0 .. BufferNum - 1
Ticks == {-1} \cup (Nat \ {0})

LifoTypeOK ==
    /\ buffers \in [SampleSlots -> Nat]
    /\ writePointer \in -1 .. BufferNum - 1
    /\ tickWriteZero \in Ticks /\ oldTickWriteZero \in Ticks
    /\ writer \in {"begin", "fill", "old", "pointer", "tick"}
    /\ published \in Nat
    /\ kept \in [tick : Ticks, index : Int]
    /\ reader \in
         [at : {"idle", "pointer", "tick", "old", "copy", "checkPointer", "checkTick", "checkOld"},
          keeps : BOOLEAN, from : [tick : Ticks, index : Int], maxRead : SampleSlots,
          pointer : Int, tick : {0} \cup Ticks, old : Int, last : Int, copied : Seq(Nat),
          count : Int, since : Nat, round : Ticks]

\* The time of the round before the one the tick tells of.
PriorTick == IF tickWriteZero > 1 THEN tickWriteZero - BufferNum ELSE -1

\* The writer has kept the tick of the round, and not yet written that of the next.
RoundEnds == writer = "tick" \/ (writer = "pointer" /\ writePointer = BufferNum - 1)

\* How the three words, the number of samples and the writer's place agree.
WordsAgree ==
    /\ tickWriteZero > 1 => tickWriteZero > BufferNum
    /\ writer = "tick" => writePointer = 0
    /\ writer = "old" => writePointer \in {-1, BufferNum - 1}
    /\ tickWriteZero = -1 => published = 0 /\ writePointer = IF writer = "tick" THEN 0 ELSE -1
    /\ tickWriteZero > 0 =>
          /\ writePointer >= 0
          /\ published = tickWriteZero + IF writer = "tick" THEN BufferNum - 1 ELSE writePointer
    /\ oldTickWriteZero = IF RoundEnds THEN tickWriteZero ELSE PriorTick

\* What the slots hold: those up to the pointer samples of this round, those past
\* the one being written samples of the last.
SlotsAgree ==
    /\ writer \in {"old", "pointer"} =>
          buffers[IF writePointer = BufferNum - 1 THEN 0 ELSE writePointer + 1] = published + 1
    /\ writer = "tick" => buffers[0] = published + 1
    /\ tickWriteZero > 0 /\ writer # "tick" /\ writePointer < BufferNum - 1 =>
          buffers[0] = tickWriteZero
    /\ tickWriteZero > 0 => \A j \in 1 .. BufferNum - 1 :
          /\ writer = "tick" \/ j <= writePointer => buffers[j] = tickWriteZero + j
          /\ writer # "tick" /\ tickWriteZero > 1 /\ j > writePointer + 1 =>
                buffers[j] = tickWriteZero + j - BufferNum

\* A tick of a sample is that of this round, of the last, or of an earlier one.
TickOfRound(tick) ==
    tick > 0 => \/ tick \in {tickWriteZero, tickWriteZero - BufferNum}
                \/ tick <= tickWriteZero - 2 * BufferNum

\* What a caller keeps is where an earlier call found the newest sample.
Position(k) ==
    /\ k = Before \/ (k.tick > 0 /\ k.index \in SampleSlots)
    /\ TickOfRound(k.tick)

Seen(from) == IF from = Before THEN 0 ELSE from.tick + from.index

\* While the round is the one noted, the writer is not before the pointer noted,
\* unless it has come around to slot 0.
Follows ==
    /\ writer = "tick" \/ reader.pointer <= writePointer
    /\ tickWriteZero = -1 => reader.pointer \in {-1, 0}
    /\ tickWriteZero > 0 =>
          /\ reader.pointer >= 0
          /\ \/ reader.since <= tickWriteZero + reader.pointer
             \/ /\ writer = "tick" /\ reader.pointer = 0
                /\ reader.since < tickWriteZero + BufferNum

\* What is copied so far is what ReadData should return.
CopyIsRight ==
    LET newest == reader.tick + reader.last
    IN  /\ newest \in reader.since .. published
        /\ reader.count = Lesser(reader.maxRead, newest - Seen(reader.from))
        /\ \A i \in 1 .. Len(reader.copied) : reader.copied[i] = newest + 1 - i

Copying == reader.at \in {"copy", "checkPointer", "checkTick"}

\* The locals of ReadData, whatever the writer does.
LocalsAgree ==
    /\ reader.at # "idle" => reader.since <= published
    /\ reader.at \in {"tick", "old"} \/ Copying => reader.pointer \in -1 .. BufferNum - 1
    /\ TickOfRound(reader.tick) /\ TickOfRound(reader.round)
    /\ reader.at \in {"old", "checkOld"} \/ Copying => reader.tick # 0
    /\ Copying \/ reader.at = "checkOld" =>
          /\ reader.last \in SampleSlots
          /\ reader.old <= oldTickWriteZero
          /\ reader.count <= reader.maxRead
          /\ Len(reader.copied) <= IF reader.count > 0 THEN reader.count ELSE 0
          /\ reader.at # "copy" => Len(reader.copied) >= reader.count
    /\ Copying /\ reader.tick = -1 => tickWriteZero > 0
    /\ reader.at = "checkOld" => reader.tick > 0

\* In the round the reader noted: either its end was noted, and slots 1 and on stay
\* as they are, or the copy is right until the old tick or the pointer moves.
CopyInRound ==
    /\ reader.tick > 0
    /\ reader.old = reader.tick =>
          /\ oldTickWriteZero = reader.tick
          /\ reader.pointer \in {0, BufferNum - 1} => reader.last = BufferNum - 1 /\ CopyIsRight
    /\ reader.old # reader.tick =>
          /\ reader.old = PriorTick
          /\ oldTickWriteZero = reader.old =>
                /\ reader.pointer <= writePointer
                /\ reader.pointer = writePointer => reader.last = reader.pointer /\ CopyIsRight
    /\ reader.at = "checkTick" /\ oldTickWriteZero = reader.old => CopyIsRight

\* What holds if no round began between the notes of pointer and tick.
RoundKept ==
    /\ reader.at = "tick" /\ reader.round = tickWriteZero => Follows
    /\ reader.at = "old" /\ reader.round = reader.tick /\ reader.tick = tickWriteZero => Follows
    /\ Copying /\ reader.round = reader.tick /\ reader.tick = tickWriteZero => CopyInRound
    /\ reader.at = "checkOld" /\ reader.round = reader.tick /\ reader.old = oldTickWriteZero =>
          CopyIsRight

\* The inductive invariant of the rings of samples.
LifoInv ==
    /\ LifoTypeOK /\ WordsAgree /\ SlotsAgree
    /\ Position(kept) /\ Position(reader.from)
    /\ LocalsAgree /\ RoundKept

\* The slot after the pointer.
LEMMA NextSlot ==
    ASSUME LifoTypeOK
    PROVE  /\ Slot = IF writePointer = BufferNum - 1 THEN 0 ELSE writePointer + 1
           /\ Slot \in SampleSlots
<1>1. BufferNum \in Nat \ {0} /\ writePointer \in Int /\ writePointer + 1 \in Nat
      /\ writePointer + 1 < 2 * BufferNum
  BY LifoAssumption DEF LifoTypeOK
<1>2. \A a \in Nat : a < 2 * BufferNum =>
          a % BufferNum = IF a < BufferNum THEN a ELSE a - BufferNum
  BY <1>1, ModOfRing
<1>3. Slot = IF writePointer + 1 < BufferNum THEN writePointer + 1
             ELSE writePointer + 1 - BufferNum
  BY <1>1, <1>2 DEF Slot
<1>4. QED
  BY <1>1, <1>3 DEF LifoTypeOK, SampleSlots

\* The ring starts empty, with nobody reading.
LEMMA LifoInitInv == LifoInit => LifoInv
<1> SUFFICES ASSUME LifoInit PROVE LifoInv
  OBVIOUS
<1> USE LifoAssumption DEF LifoInit, AtRest, Before
<1>1. <<>> \in Seq(Nat)
  OBVIOUS
<1>2. LifoTypeOK
  BY <1>1 DEF LifoTypeOK, SampleSlots, Ticks
<1>3. WordsAgree /\ SlotsAgree
  BY DEF WordsAgree, SlotsAgree, RoundEnds, PriorTick
<1>4. Position(kept) /\ Position(reader.from)
  BY DEF Position, TickOfRound
<1>5. LocalsAgree /\ RoundKept
  BY DEF LocalsAgree, RoundKept, Copying, TickOfRound
<1>6. QED
  BY <1>2, <1>3, <1>4, <1>5 DEF LifoInv

\* A sample is written where no reader of this round looks.
LEMMA WriteSampleKeeps ==
    ASSUME LifoInv, WriteSample, UNCHANGED <<reader, kept>>
    PROVE  LifoInv'
<1> USE LifoAssumption
<1> DEFINE s == IF writePointer = BufferNum - 1 THEN 0 ELSE writePointer + 1
<1>1. LifoTypeOK /\ WordsAgree /\ SlotsAgree
  BY DEF LifoInv
<1>2. Slot = s /\ s \in SampleSlots
  BY <1>1, NextSlot
<1>3. /\ UNCHANGED <<writePointer, tickWriteZero, oldTickWriteZero, published, reader, kept>>
      /\ writer \in {"begin", "fill"}
      /\ buffers' = [buffers EXCEPT ![s] = IF writer = "begin" THEN 0 ELSE published + 1]
      /\ writer' = IF writer = "begin" THEN "fill" ELSE IF s = 0 THEN "old" ELSE "pointer"
  BY <1>2 DEF WriteSample
<1>4. LifoTypeOK'
  BY <1>1, <1>2, <1>3 DEF LifoTypeOK
<1>5. WordsAgree'
  BY <1>1, <1>3 DEF LifoTypeOK, WordsAgree, RoundEnds, PriorTick
<1>6. /\ \A j \in SampleSlots : j # s => buffers'[j] = buffers[j]
      /\ writer # "begin" => buffers'[s] = published + 1
  BY <1>1, <1>2, <1>3 DEF LifoTypeOK
<1>7. SlotsAgree'
  <2>1. writer' \in {"old", "pointer"} => buffers'[s] = published' + 1
    BY <1>3, <1>6
  <2>2. writer' # "tick" /\ writer # "tick"
    BY <1>3
  <2>3. tickWriteZero > 0 /\ writePointer < BufferNum - 1 => buffers'[0] = tickWriteZero
    <3>1. SUFFICES ASSUME tickWriteZero > 0, writePointer < BufferNum - 1
                   PROVE  buffers'[0] = tickWriteZero
      OBVIOUS
    <3>2. writePointer >= 0 /\ s # 0 /\ 0 \in SampleSlots
      BY <1>1, <3>1 DEF LifoTypeOK, WordsAgree, SampleSlots
    <3>3. QED
      BY <1>1, <1>6, <2>2, <3>1, <3>2 DEF SlotsAgree
  <2>4. ASSUME tickWriteZero > 0, NEW j \in 1 .. BufferNum - 1
        PROVE  /\ j <= writePointer => buffers'[j] = tickWriteZero + j
               /\ tickWriteZero > 1 /\ j > writePointer + 1 =>
                     buffers'[j] = tickWriteZero + j - BufferNum
    <3>1. j \in SampleSlots /\ (j <= writePointer \/ j > writePointer + 1 => j # s)
      BY <1>1 DEF LifoTypeOK, SampleSlots
    <3>2. j <= writePointer \/ j > writePointer + 1 => buffers'[j] = buffers[j]
      BY <1>6, <3>1
    <3>3. QED
      BY <1>1, <2>2, <2>4, <3>2 DEF SlotsAgree
  <2>5. QED
    BY <1>3, <2>1, <2>2, <2>3, <2>4 DEF SlotsAgree
<1>8. RoundEnds' => RoundEnds
  BY <1>3 DEF RoundEnds
<1>9. Position(kept)' /\ Position(reader.from)' /\ LocalsAgree' /\ RoundKept'
  BY <1>3 DEF LifoInv, Position, LocalsAgree, RoundKept, TickOfRound, Follows, CopyInRound,
              CopyIsRight, Copying, PriorTick
<1>10. QED
  BY <1>4, <1>5, <1>7, <1>9 DEF LifoInv

\* The time of the round is kept as the old one; what readers rely on in the round
\* it ends are slots that are not written before the tick is.
LEMMA KeepOldTickKeeps ==
    ASSUME LifoInv, writer = "old", writer' = "pointer", oldTickWriteZero' = tickWriteZero,
           UNCHANGED <<buffers, writePointer, tickWriteZero, published, reader, kept>>
    PROVE  LifoInv'
<1> USE LifoAssumption
<1>1. LifoTypeOK /\ WordsAgree /\ SlotsAgree
  BY DEF LifoInv
<1>2. writePointer \in {-1, BufferNum - 1} /\ oldTickWriteZero = PriorTick
  BY <1>1 DEF WordsAgree, RoundEnds
<1>3. /\ oldTickWriteZero <= oldTickWriteZero'
      /\ tickWriteZero > 0 => oldTickWriteZero < tickWriteZero
  BY <1>1, <1>2 DEF LifoTypeOK, PriorTick, Ticks
<1>4. LifoTypeOK' /\ WordsAgree' /\ SlotsAgree'
  <2>1. LifoTypeOK'
    BY <1>1 DEF LifoTypeOK
  <2>2. WordsAgree'
    BY <1>1, <1>2 DEF LifoTypeOK, WordsAgree, RoundEnds, PriorTick, Ticks
  <2>3. SlotsAgree'
    BY <1>1 DEF SlotsAgree
  <2>4. QED
    BY <2>1, <2>2, <2>3
<1>5. LocalsAgree'
  <2>1. oldTickWriteZero \in Int /\ oldTickWriteZero' \in Int /\ reader.old \in Int
    BY <1>1 DEF LifoTypeOK, Ticks
  <2>2. reader.old <= oldTickWriteZero => reader.old <= oldTickWriteZero'
    BY <1>3, <2>1
  <2>3. LocalsAgree
    BY DEF LifoInv
  <2>4. QED
    BY <2>2, <2>3 DEF LocalsAgree, TickOfRound, Copying
<1>6. ASSUME Copying, reader.round = reader.tick, reader.tick = tickWriteZero
      PROVE  CopyInRound'
  <2>1. CopyInRound /\ RoundKept
    BY <1>6 DEF LifoInv, RoundKept
  <2>2. reader.old # reader.tick /\ reader.tick > 0
    BY <1>1, <1>3, <1>6, <2>1 DEF CopyInRound, LifoTypeOK, Ticks
  <2>3. oldTickWriteZero' # reader.old
    BY <1>6, <2>2
  <2>4. PriorTick' = PriorTick
    BY DEF PriorTick
  <2>5. QED
    BY <2>1, <2>2, <2>3, <2>4 DEF CopyInRound
<1>7. ASSUME reader.at = "checkOld", reader.round = reader.tick, reader.old = oldTickWriteZero'
      PROVE  CopyIsRight'
  <2>1. reader.old <= oldTickWriteZero
    BY <1>7 DEF LifoInv, LocalsAgree
  <2>2. reader.old = oldTickWriteZero
    BY <1>1, <1>3, <1>7, <2>1 DEF LifoTypeOK, Ticks
  <2>3. QED
    BY <1>7, <2>2 DEF LifoInv, RoundKept, CopyIsRight
<1>8. Follows => Follows'
  BY DEF Follows
<1>9. RoundKept'
  BY <1>6, <1>7, <1>8 DEF LifoInv, RoundKept, Copying
<1>10. QED
  BY <1>4, <1>5, <1>9 DEF LifoInv, Position, TickOfRound

\* The pointer moves to the sample written; one that moves on leaves the pointer a
\* reader noted for this round, unless that was noted at its end.
LEMMA MovePointerKeeps ==
    ASSUME LifoInv, writer = "pointer", writePointer' = Slot,
           writer' = IF Slot = 0 THEN "tick" ELSE "begin",
           published' = IF Slot = 0 THEN published ELSE published + 1,
           UNCHANGED <<buffers, tickWriteZero, oldTickWriteZero, reader, kept>>
    PROVE  LifoInv'
<1> USE LifoAssumption
<1> DEFINE s == IF writePointer = BufferNum - 1 THEN 0 ELSE writePointer + 1
<1>1. LifoTypeOK /\ WordsAgree /\ SlotsAgree
  BY DEF LifoInv
<1>2. Slot = s /\ s \in SampleSlots
  BY <1>1, NextSlot
<1>3. /\ writePointer' = s
      /\ writer' = IF s = 0 THEN "tick" ELSE "begin"
      /\ published' = IF s = 0 THEN published ELSE published + 1
      /\ buffers[s] = published + 1
  BY <1>1, <1>2 DEF SlotsAgree
<1>4. published <= published' /\ published' \in Nat
  BY <1>1, <1>3 DEF LifoTypeOK
<1>5. LifoTypeOK'
  <2>1. writePointer' \in -1 .. BufferNum - 1
    BY <1>2, <1>3 DEF SampleSlots
  <2>2. writer' \in {"begin", "fill", "old", "pointer", "tick"}
    BY <1>3
  <2> HIDE DEF s
  <2>3. QED
    BY <1>1, <1>4, <2>1, <2>2 DEF LifoTypeOK
<1>6. WordsAgree'
  BY SMTT(30), <1>1, <1>2, <1>3 DEF LifoTypeOK, WordsAgree, RoundEnds, PriorTick, SampleSlots, Ticks
<1>7. SlotsAgree'
  <2>1. CASE s = 0
    BY SMTT(30), <1>1, <1>3, <2>1 DEF LifoTypeOK, WordsAgree, SlotsAgree, SampleSlots, Ticks
  <2>2. CASE s # 0
    <3>1. s = writePointer + 1 /\ writer' = "begin"
      BY <1>3, <2>2
    <3>2. tickWriteZero > 0 => buffers[s] = tickWriteZero + s
      BY <1>1, <1>3, <3>1 DEF LifoTypeOK, WordsAgree, Ticks
    <3>3. tickWriteZero > 0 /\ writePointer' < BufferNum - 1 => buffers'[0] = tickWriteZero
      BY <1>1, <1>3, <3>1 DEF LifoTypeOK, WordsAgree, SlotsAgree
    <3>4. ASSUME tickWriteZero > 0, NEW j \in 1 .. BufferNum - 1
          PROVE  /\ j <= writePointer' => buffers[j] = tickWriteZero + j
                 /\ tickWriteZero > 1 /\ j > writePointer' + 1 =>
                       buffers[j] = tickWriteZero + j - BufferNum
      <4>1. writePointer \in Int /\ writePointer' = writePointer + 1
        BY <1>1, <1>3, <3>1 DEF LifoTypeOK
      <4>2. j <= writePointer' => j <= writePointer \/ j = s
        BY <3>1, <4>1
      <4>3. j > writePointer' + 1 => j > writePointer + 1
        BY <4>1
      <4>4. /\ j <= writePointer => buffers[j] = tickWriteZero + j
            /\ tickWriteZero > 1 /\ j > writePointer + 1 =>
                  buffers[j] = tickWriteZero + j - BufferNum
        BY <1>1, <3>4 DEF SlotsAgree
      <4>5. QED
        BY <3>2, <3>4, <4>2, <4>3, <4>4
    <3>5. QED
      BY <1>3, <3>1, <3>3, <3>4 DEF SlotsAgree
  <2>3. QED
    BY <2>1, <2>2
<1>8. LocalsAgree' /\ Position(kept)' /\ Position(reader.from)'
  BY <1>1, <1>4 DEF LifoInv, LifoTypeOK, LocalsAgree, TickOfRound, Copying, Position
<1>9. CopyIsRight => CopyIsRight'
  BY <1>1, <1>4 DEF LifoTypeOK, CopyIsRight
<1>10. ASSUME Copying, reader.round = reader.tick, reader.tick = tickWriteZero
       PROVE  CopyInRound'
  <2>1. CopyInRound
    BY <1>10 DEF LifoInv, RoundKept
  <2>2. PriorTick' = PriorTick /\ reader.at' = reader.at
    BY DEF PriorTick
  <2>3. CASE reader.old = reader.tick
    BY <1>9, <2>1, <2>2, <2>3 DEF CopyInRound
  <2>4. CASE reader.old # reader.tick
    <3>1. ASSUME oldTickWriteZero = reader.old, reader.pointer <= writePointer
          PROVE  reader.pointer < writePointer'
      <4>1. s # 0
        BY <1>1, <1>10, <2>1, <2>4, <3>1
           DEF WordsAgree, RoundEnds, CopyInRound, LifoTypeOK, Ticks
      <4>2. reader.pointer \in Int /\ writePointer \in Int
        BY <1>1 DEF LifoTypeOK
      <4>3. QED
        BY <1>3, <3>1, <4>1, <4>2
    <3>2. oldTickWriteZero = reader.old => reader.pointer <= writePointer' /\ reader.pointer # writePointer'
      BY SMTT(30), <1>1, <1>5, <2>1, <2>4, <3>1 DEF CopyInRound, LifoTypeOK
    <3>3. QED
      BY <1>9, <2>1, <2>2, <2>4, <3>2 DEF CopyInRound
  <2>5. QED
    BY <2>3, <2>4
<1>11. Follows => Follows'
  BY SMTT(30), <1>1, <1>2, <1>3 DEF Follows, LifoTypeOK, WordsAgree, SampleSlots, Ticks
<1>12. RoundKept'
  BY <1>9, <1>10, <1>11 DEF LifoInv, RoundKept, Copying
<1>13. QED
  BY <1>5, <1>6, <1>7, <1>8, <1>12 DEF LifoInv

\* The tick of a new round: a reader that noted the last one will see it.
LEMMA WriteTickKeeps ==
    ASSUME LifoInv, writer = "tick", writer' = "begin", tickWriteZero' = published + 1,
           published' = published + 1,
           UNCHANGED <<buffers, writePointer, oldTickWriteZero, reader, kept>>
    PROVE  LifoInv'
<1> USE LifoAssumption
<1>1. LifoTypeOK /\ WordsAgree /\ SlotsAgree /\ LocalsAgree
  BY DEF LifoInv
<1>2. /\ writePointer = 0 /\ oldTickWriteZero = tickWriteZero
      /\ tickWriteZero' = IF tickWriteZero > 0 THEN tickWriteZero + BufferNum ELSE 1
      /\ published' = tickWriteZero'
  BY <1>1 DEF LifoTypeOK, WordsAgree, RoundEnds, Ticks
<1>3. LifoTypeOK'
  BY <1>1, <1>2 DEF LifoTypeOK, Ticks
<1>4. WordsAgree'
  BY <1>1, <1>2 DEF LifoTypeOK, WordsAgree, RoundEnds, PriorTick, Ticks
<1>5. SlotsAgree'
  <2>1. buffers'[0] = tickWriteZero'
    BY <1>1, <1>2 DEF SlotsAgree
  <2>2. ASSUME NEW j \in 1 .. BufferNum - 1, tickWriteZero' > 1
        PROVE  buffers'[j] = tickWriteZero' + j - BufferNum
    <3>1. tickWriteZero > 0
      BY <1>1, <1>2, <2>2
    <3>2. buffers[j] = tickWriteZero + j
      BY <1>1, <2>2, <3>1 DEF SlotsAgree
    <3>3. QED
      BY <1>1, <1>2, <3>1, <3>2 DEF LifoTypeOK, Ticks
  <2>3. QED
    BY <1>2, <2>1, <2>2 DEF SlotsAgree
<1>6. ASSUME NEW k \in Int, TickOfRound(k) PROVE TickOfRound(k)'
  BY <1>1, <1>2, <1>6 DEF TickOfRound, LifoTypeOK, Ticks
<1>7. kept.tick \in Int /\ reader.from.tick \in Int /\ reader.tick \in Int /\ reader.round \in Int
  BY <1>1 DEF LifoTypeOK, Ticks
<1>8. Position(kept)' /\ Position(reader.from)'
  BY <1>6, <1>7 DEF LifoInv, Position
<1>9. LocalsAgree'
  BY <1>1, <1>2, <1>6, <1>7 DEF LifoTypeOK, LocalsAgree, Copying, Ticks
<1>10. reader.tick # tickWriteZero' /\ reader.round # tickWriteZero'
  <2>1. ASSUME NEW k \in Int, TickOfRound(k) PROVE k # tickWriteZero'
    BY <1>1, <1>2, <2>1 DEF TickOfRound, LifoTypeOK, Ticks
  <2>2. TickOfRound(reader.tick) /\ TickOfRound(reader.round)
    BY <1>1 DEF LocalsAgree
  <2>3. QED
    BY <1>7, <2>1, <2>2
<1>11. CopyIsRight => CopyIsRight'
  BY <1>1 DEF LifoTypeOK, CopyIsRight
<1>12. RoundKept'
  BY <1>10, <1>11 DEF LifoInv, RoundKept, Copying
<1>13. QED
  BY <1>3, <1>4, <1>5, <1>8, <1>9, <1>12 DEF LifoInv

ringWords == <<buffers, writePointer, tickWriteZero, oldTickWriteZero, writer, published>>

\* A call begins with nothing noted.
LEMMA CallReadKeeps ==
    ASSUME LifoInv, CallRead, UNCHANGED ringWords
    PROVE  LifoInv'
<1> USE LifoAssumption DEF ringWords
<1>1. LifoTypeOK /\ Position(kept) /\ UNCHANGED kept
  BY DEF LifoInv, CallRead
<1>2. PICK keeps \in BOOLEAN, size \in BufferSizes :
        reader' = [AtRest EXCEPT !.at = "pointer", !.keeps = keeps,
                                 !.from = IF keeps THEN kept ELSE Before,
                                 !.maxRead = Lesser(size, BufferNum - 1), !.since = published]
  BY DEF CallRead
<1>3. /\ reader'.at = "pointer" /\ reader'.since = published
      /\ reader'.from = IF keeps THEN kept ELSE Before
      /\ reader'.tick = 0 /\ reader'.round = -1
  BY <1>2 DEF AtRest
<1>4. Lesser(size, BufferNum - 1) \in SampleSlots
  BY DEF Lesser, SampleSlots
<1>5. Before \in [tick : Ticks, index : Int] /\ <<>> \in Seq(Nat)
  BY DEF Before, Ticks
<1>6. LifoTypeOK'
  <2>1. (IF keeps THEN kept ELSE Before) \in [tick : Ticks, index : Int] /\ published \in Nat
    BY <1>1, <1>5 DEF LifoTypeOK
  <2>2. reader' = [at |-> "pointer", keeps |-> keeps, from |-> IF keeps THEN kept ELSE Before,
                   maxRead |-> Lesser(size, BufferNum - 1), pointer |-> 0, tick |-> 0, old |-> 0,
                   last |-> 0, copied |-> <<>>, count |-> 0, since |-> published, round |-> -1]
    BY <1>2 DEF AtRest
  <2>3. QED
    BY <1>1, <1>4, <1>5, <2>1, <2>2 DEF LifoTypeOK, Ticks
<1>7. Position(Before)
  BY DEF Position, Before, TickOfRound
<1>8. Position(kept)' /\ Position(reader.from)'
  BY <1>1, <1>3, <1>7 DEF Position, TickOfRound
<1>9. LocalsAgree' /\ RoundKept'
  BY <1>1, <1>3 DEF LocalsAgree, RoundKept, Copying, TickOfRound, LifoTypeOK
<1>10. QED
  BY <1>1, <1>6, <1>8, <1>9 DEF LifoInv, WordsAgree, SlotsAgree, RoundEnds, PriorTick

\* The pointer is noted: the writer is at it, or about to write the tick.
LEMMA NotePointerKeeps ==
    ASSUME LifoInv, reader.at = "pointer", UNCHANGED ringWords, UNCHANGED kept,
           reader' = [reader EXCEPT !.at = "tick", !.pointer = writePointer,
                                    !.round = tickWriteZero]
    PROVE  LifoInv'
<1> USE LifoAssumption DEF ringWords
<1>1. LifoTypeOK /\ WordsAgree /\ LocalsAgree
  BY DEF LifoInv
<1>2. /\ reader'.at = "tick" /\ reader'.pointer = writePointer /\ reader'.round = tickWriteZero
      /\ reader'.tick = reader.tick /\ reader'.from = reader.from
      /\ reader'.since = reader.since
  BY <1>1 DEF LifoTypeOK
<1>3. LifoTypeOK'
  <2>1. writePointer \in Int /\ tickWriteZero \in Ticks
    BY <1>1 DEF LifoTypeOK
  <2>2. QED
    BY <1>1, <2>1 DEF LifoTypeOK
<1>4. LocalsAgree'
  BY <1>1, <1>2 DEF LocalsAgree, Copying, TickOfRound, LifoTypeOK, Ticks
<1>5. reader.since <= published
  BY <1>1 DEF LocalsAgree
<1>6. Follows'
  BY SMTT(30), <1>1, <1>2, <1>5 DEF Follows, LifoTypeOK, WordsAgree, Ticks
<1>7. RoundKept'
  BY <1>2, <1>6 DEF RoundKept, Copying
<1>8. QED
  BY <1>2, <1>3, <1>4, <1>7 DEF LifoInv, WordsAgree, SlotsAgree, RoundEnds, PriorTick,
                                 Position, TickOfRound

\* The tick is noted; if it is still that of the round of the pointer, the writer
\* has been in that round all along.
LEMMA NoteTickKeeps ==
    ASSUME LifoInv, reader.at = "tick", UNCHANGED ringWords, UNCHANGED kept,
           reader' = [reader EXCEPT !.at = "old", !.tick = tickWriteZero]
    PROVE  LifoInv'
<1> USE LifoAssumption DEF ringWords
<1>1. LifoTypeOK /\ LocalsAgree /\ RoundKept
  BY DEF LifoInv
<1>2. /\ reader'.at = "old" /\ reader'.tick = tickWriteZero
      /\ reader'.pointer = reader.pointer /\ reader'.round = reader.round
      /\ reader'.from = reader.from /\ reader'.since = reader.since
  BY <1>1 DEF LifoTypeOK
<1>3. LifoTypeOK'
  BY <1>1 DEF LifoTypeOK
<1>4. LocalsAgree'
  BY <1>1, <1>2 DEF LocalsAgree, Copying, TickOfRound, LifoTypeOK, Ticks
<1>5. RoundKept'
  BY <1>1, <1>2 DEF RoundKept, Copying, Follows
<1>6. QED
  BY <1>2, <1>3, <1>4, <1>5 DEF LifoInv, WordsAgree, SlotsAgree, RoundEnds, PriorTick,
                                 Position, TickOfRound

\* A call that found nothing, or has returned, leaves nothing to agree on.
LEMMA RestKeeps ==
    ASSUME LifoInv, UNCHANGED ringWords, reader' = AtRest,
           kept' \in [tick : Ticks, index : Int], Position(kept')
    PROVE  LifoInv'
<1> USE LifoAssumption DEF ringWords
<1>1. LifoTypeOK
  BY DEF LifoInv
<1>2. /\ reader'.at = "idle" /\ reader'.from = Before
      /\ reader'.tick = 0 /\ reader'.round = -1
  BY DEF AtRest
<1>3. Before \in [tick : Ticks, index : Int] /\ <<>> \in Seq(Nat)
  BY DEF Before, Ticks
<1>4. LifoTypeOK'
  BY SMTT(30), <1>1, <1>3 DEF LifoTypeOK, AtRest, Ticks, SampleSlots
<1>5. Position(reader.from)' /\ Position(kept)'
  BY <1>2 DEF Position, Before, TickOfRound
<1>6. LocalsAgree' /\ RoundKept'
  BY <1>2 DEF LocalsAgree, RoundKept, Copying, TickOfRound
<1>7. QED
  BY <1>4, <1>5, <1>6 DEF LifoInv, WordsAgree, SlotsAgree, RoundEnds, PriorTick

\* The number of new samples, for a reader that noted the words of one round.
LEMMA NewSamplesAreUnseen ==
    ASSUME LifoTypeOK, WordsAgree, Position(reader.from), tickWriteZero > 0,
           NEW last \in SampleSlots, last = BufferNum - 1 \/ oldTickWriteZero = PriorTick,
           oldTickWriteZero \in {tickWriteZero, PriorTick}
    PROVE  NewSamples(last, tickWriteZero, oldTickWriteZero)
             = Lesser(reader.maxRead, tickWriteZero + last - Seen(reader.from))
<1> USE LifoAssumption
<1> DEFINE T == tickWriteZero
           from == reader.from
<1>1. /\ T \in Nat /\ T > 0 /\ (T > 1 => T > BufferNum) /\ last \in 0 .. BufferNum - 1
      /\ oldTickWriteZero = T \/ oldTickWriteZero = IF T > 1 THEN T - BufferNum ELSE -1
      /\ reader.maxRead \in 0 .. BufferNum - 1
  BY DEF LifoTypeOK, WordsAgree, Ticks, PriorTick, SampleSlots
<1>2. oldTickWriteZero = T => last = BufferNum - 1
  BY <1>1 DEF PriorTick
<1>3. CASE from = Before
  <2>1. from.tick = -1 /\ from.index = -1 /\ Seen(from) = 0
    BY <1>3 DEF Before, Seen
  <2> HIDE DEF from
  <2>2. QED
    BY <1>1, <1>2, <2>1 DEF NewSamples, Lesser, from
<1>4. CASE from # Before
  <2>1. /\ from.tick \in Nat /\ from.tick > 0 /\ from.index \in 0 .. BufferNum - 1
        /\ from.tick \in {T, T - BufferNum} \/ from.tick <= T - 2 * BufferNum
        /\ Seen(from) = from.tick + from.index
    BY SMTT(30), <1>4 DEF Position, TickOfRound, LifoTypeOK, Ticks, Seen, SampleSlots
  <2> HIDE DEF from
  <2>2. CASE from.tick = T
    BY <1>1, <2>1, <2>2 DEF NewSamples, Lesser, from
  <2>3. CASE from.tick = T - BufferNum
    BY <1>1, <1>2, <2>1, <2>3 DEF NewSamples, Lesser, from
  <2>4. CASE from.tick <= T - 2 * BufferNum
    BY <1>1, <1>2, <2>1, <2>4 DEF NewSamples, Lesser, from
  <2>5. QED
    BY <2>1, <2>2, <2>3, <2>4
<1>5. QED
  BY <1>3, <1>4

\* The old tick is noted, and with it which samples to copy: those of the round, to
\* its end if that was seen, or up to the pointer.
LEMMA NoteOldKeeps ==
    ASSUME LifoInv, reader.at = "old", NoteRing, UNCHANGED ringWords
    PROVE  LifoInv'
<1> USE LifoAssumption DEF ringWords
<1> DEFINE begins == reader.pointer = 0 /\ reader.tick = oldTickWriteZero
           last == IF begins THEN BufferNum - 1 ELSE reader.pointer
           count == NewSamples(last, reader.tick, oldTickWriteZero)
<1>1. LifoTypeOK /\ WordsAgree /\ LocalsAgree /\ RoundKept /\ UNCHANGED kept
  BY DEF LifoInv, NoteRing
<1>2. \/ reader' = AtRest
      \/ /\ ~(reader.pointer < 0 \/ (begins /\ reader.tick < 0))
         /\ reader' = [reader EXCEPT !.at = "copy", !.old = oldTickWriteZero, !.last = last,
                                     !.count = count, !.copied = <<>>]
  BY DEF NoteRing
<1>3. CASE reader' = AtRest
  <2>1. kept' \in [tick : Ticks, index : Int]
    BY <1>1 DEF LifoTypeOK
  <2>2. Position(kept')
    BY <1>1 DEF LifoInv
  <2>3. QED
    BY <1>3, <2>1, <2>2, RestKeeps
<1>4. CASE reader' # AtRest
  <2>1. /\ reader.pointer \in SampleSlots /\ ~(begins /\ reader.tick < 0)
        /\ reader' = [reader EXCEPT !.at = "copy", !.old = oldTickWriteZero, !.last = last,
                                    !.count = count, !.copied = <<>>]
    BY <1>1, <1>2, <1>4 DEF LocalsAgree, SampleSlots
  <2>2. last \in SampleSlots /\ last \in Int
    BY <2>1 DEF SampleSlots
  <2>3. count \in Int /\ count <= reader.maxRead
    <3>1. /\ reader.tick \in Int /\ oldTickWriteZero \in Int /\ reader.from.tick \in Int
          /\ reader.from.index \in Int /\ reader.maxRead \in Int
      BY SMTT(30), <1>1 DEF LifoTypeOK, Ticks, SampleSlots
    <3> HIDE DEF last
    <3>2. QED
      BY <2>2, <3>1 DEF NewSamples, Lesser
  <2> HIDE DEF last, count
  <2>4. <<>> \in Seq(Nat) /\ Len(<<>>) = 0
    OBVIOUS
  <2>5. /\ reader'.at = "copy" /\ reader'.old = oldTickWriteZero /\ reader'.last = last
        /\ reader'.count = count /\ reader'.copied = <<>> /\ reader'.from = reader.from
        /\ reader'.maxRead = reader.maxRead /\ reader'.since = reader.since
        /\ reader'.pointer = reader.pointer /\ reader'.tick = reader.tick
        /\ reader'.round = reader.round
    BY <1>1, <2>1 DEF LifoTypeOK
  <2>6. LifoTypeOK'
    <3>1. oldTickWriteZero \in Int
      BY <1>1 DEF LifoTypeOK, Ticks
    <3>2. QED
      BY <1>1, <2>1, <2>2, <2>3, <2>4, <3>1 DEF LifoTypeOK
  <2>7. reader.tick = -1 => tickWriteZero > 0
    <3>1. SUFFICES ASSUME reader.tick = -1, tickWriteZero = -1 PROVE FALSE
      BY <1>1 DEF LifoTypeOK, Ticks
    <3>2. reader.round = -1 /\ oldTickWriteZero = -1
      BY SMTT(30), <1>1, <3>1 DEF LocalsAgree, TickOfRound, LifoTypeOK, Ticks, WordsAgree, PriorTick
    <3>3. Follows
      BY <1>1, <3>1, <3>2 DEF RoundKept
    <3>4. reader.pointer = 0
      BY <2>1, <3>1, <3>3 DEF Follows, SampleSlots
    <3>5. QED
      BY <2>1, <3>1, <3>2, <3>4
  <2>8. LocalsAgree'
    <3>1. TickOfRound(reader.tick)' /\ TickOfRound(reader.round)'
      BY <1>1, <2>5 DEF LocalsAgree, TickOfRound
    <3>2. reader.since <= published /\ reader.tick # 0
          /\ reader.pointer \in -1 .. BufferNum - 1
      BY <1>1 DEF LocalsAgree
    <3>3. Len(reader'.copied) = 0 /\ oldTickWriteZero <= oldTickWriteZero
      BY <1>1, <2>4, <2>5 DEF LifoTypeOK, Ticks
    <3>4. Len(reader'.copied) <= IF reader'.count > 0 THEN reader'.count ELSE 0
      BY <2>3, <2>5, <3>3
    <3>5. QED
      BY <2>2, <2>3, <2>5, <2>7, <3>1, <3>2, <3>3, <3>4 DEF LocalsAgree, Copying
  <2>9. ASSUME reader.round = reader.tick, reader.tick = tickWriteZero
        PROVE  CopyInRound'
    <3>1. Follows /\ tickWriteZero \in Nat /\ tickWriteZero > 0
      BY <1>1, <2>7, <2>9 DEF RoundKept, LifoTypeOK, Ticks, LocalsAgree
    <3>2. PriorTick < tickWriteZero /\ oldTickWriteZero = IF RoundEnds THEN tickWriteZero ELSE PriorTick
      BY <1>1, <3>1 DEF PriorTick, WordsAgree
    <3>3. PriorTick' = PriorTick
      BY DEF PriorTick
    <3>4. ASSUME last = BufferNum - 1 \/ oldTickWriteZero = PriorTick
          PROVE  count = Lesser(reader.maxRead, tickWriteZero + last - Seen(reader.from))
      BY <1>1, <2>2, <2>9, <3>1, <3>2, <3>4, NewSamplesAreUnseen DEF LifoInv, count
    <3>5. ASSUME last = BufferNum - 1 \/ oldTickWriteZero = PriorTick,
                 tickWriteZero + last \in reader.since .. published
          PROVE  CopyIsRight'
      <4>1. count = Lesser(reader.maxRead, tickWriteZero + last - Seen(reader.from))
        BY <3>4, <3>5
      <4>2. \A i \in 1 .. Len(reader'.copied) :
                reader'.copied[i] = tickWriteZero + last + 1 - i
        BY <2>4, <2>5
      <4>3. reader'.tick + reader'.last = tickWriteZero + last
        BY <2>5, <2>9
      <4>4. tickWriteZero + last \in reader'.since .. published'
        BY <2>5, <3>5
      <4>5. reader'.tick + reader'.last \in reader'.since .. published'
        BY <4>3, <4>4
      <4>6. reader'.count = Lesser(reader'.maxRead, (reader'.tick + reader'.last) - Seen(reader'.from))
        <5>1. /\ tickWriteZero \in Int /\ last \in Int /\ reader.maxRead \in Int
              /\ reader.tick \in Int /\ Seen(reader.from) \in Int
          BY SMTT(30), <1>1, <2>2, <3>1 DEF LifoTypeOK, SampleSlots, Seen, Ticks
        <5>2. Seen(reader'.from) = Seen(reader.from)
          BY <2>5
        <5>3. QED
          BY <2>5, <4>1, <4>3, <5>1, <5>2 DEF Lesser
      <4>7. \A i \in 1 .. Len(reader'.copied) :
                reader'.copied[i] = (reader'.tick + reader'.last) + 1 - i
        BY <4>2, <4>3
      <4>8. QED
        BY <4>5, <4>6, <4>7 DEF CopyIsRight, Seen
    <3>6. CASE RoundEnds
      <4>1. oldTickWriteZero = tickWriteZero /\ published = tickWriteZero + BufferNum - 1
        BY <1>1, <3>1, <3>2, <3>6 DEF WordsAgree, RoundEnds
      <4>2. ASSUME reader.pointer \in {0, BufferNum - 1}
            PROVE  last = BufferNum - 1 /\ CopyIsRight'
        <5>1. last = BufferNum - 1
          BY <2>9, <4>1, <4>2 DEF last
        <5>2. reader.since <= tickWriteZero + BufferNum - 1 /\ reader.since \in Nat
          <6>1. reader.since \in Nat /\ reader.pointer \in Int /\ reader.pointer <= BufferNum - 1
            BY <1>1, <2>1 DEF SampleSlots, LifoTypeOK
          <6>2. QED
            BY <3>1, <6>1 DEF Follows
        <5>3. tickWriteZero + last \in reader.since .. published
          BY <3>1, <4>1, <5>1, <5>2
        <5>4. QED
          BY <3>5, <5>1, <5>3
      <4>3. QED
        BY <2>5, <2>9, <3>1, <4>1, <4>2 DEF CopyInRound
    <3>7. CASE ~RoundEnds
      <4>1. /\ oldTickWriteZero = PriorTick /\ oldTickWriteZero # tickWriteZero
            /\ published = tickWriteZero + writePointer /\ writePointer \in Int
        BY <1>1, <3>1, <3>2, <3>7 DEF WordsAgree, RoundEnds, LifoTypeOK, Ticks
      <4>2. reader.pointer <= writePointer /\ reader.since <= tickWriteZero + reader.pointer
        BY <3>1, <3>7 DEF Follows, RoundEnds
      <4>3. last = reader.pointer
        BY <2>9, <4>1 DEF last
      <4>4. reader.pointer = writePointer => CopyIsRight'
        <5>1. reader.since \in Nat
          BY <1>1 DEF LifoTypeOK
        <5>2. reader.pointer = writePointer => tickWriteZero + last \in reader.since .. published
          BY <3>1, <4>1, <4>2, <4>3, <5>1
        <5>3. QED
          BY <3>5, <4>1, <5>2
      <4>5. QED
        BY <2>5, <2>9, <3>1, <3>3, <4>1, <4>2, <4>3, <4>4 DEF CopyInRound
    <3>8. QED
      BY <3>6, <3>7
  <2>10. RoundKept'
    BY <2>5, <2>9 DEF RoundKept, Copying
  <2>11. QED
    BY <1>1, <2>5, <2>6, <2>8, <2>10 DEF LifoInv, WordsAgree, SlotsAgree, RoundEnds, PriorTick,
                                         Position, TickOfRound
<1>5. QED
  BY <1>3, <1>4

\* The slot a copy takes next.
LEMMA CopiedSlot ==
    ASSUME NEW last \in SampleSlots, NEW i \in 0 .. BufferNum - 2
    PROVE  /\ (BufferNum + last - i) % BufferNum
                = IF i <= last THEN last - i ELSE BufferNum + last - i
           /\ (BufferNum + last - i) % BufferNum \in SampleSlots
<1> DEFINE a == BufferNum + last - i
<1>1. /\ BufferNum \in Nat \ {0} /\ a \in Nat /\ a < 2 * BufferNum
      /\ a < BufferNum <=> i > last
      /\ last \in Int /\ i \in Int
  BY LifoAssumption DEF SampleSlots
<1>2. a % BufferNum = IF a < BufferNum THEN a ELSE a - BufferNum
  <2> HIDE DEF a
  <2>1. QED
    BY <1>1, ModOfRing
<1>3. a % BufferNum = IF i <= last THEN last - i ELSE BufferNum + last - i
  <2>1. CASE i <= last
    <3>1. ~(a < BufferNum) /\ a - BufferNum = last - i
      BY <1>1, <2>1
    <3>2. QED
      BY <1>2, <2>1, <3>1
  <2>2. CASE i > last
    <3>1. a < BufferNum
      BY <1>1, <2>2
    <3>2. QED
      BY <1>1, <1>2, <2>2, <3>1
  <2>3. QED
    BY <1>1, <2>1, <2>2
<1>4. (IF i <= last THEN last - i ELSE BufferNum + last - i) \in SampleSlots
  BY LifoAssumption DEF SampleSlots
<1>5. QED
  BY <1>3, <1>4

\* What a slot a copy takes holds, while the reader's notes hold.
LEMMA SlotHoldsSample ==
    ASSUME LifoInv, reader.tick = tickWriteZero, tickWriteZero > 0, CopyIsRight,
           NEW i \in 0 .. BufferNum - 2, i < reader.count, reader.last \in SampleSlots,
           NEW slot \in SampleSlots,
           slot = IF i <= reader.last THEN reader.last - i ELSE BufferNum + reader.last - i,
           \/ RoundEnds /\ reader.last = BufferNum - 1
           \/ ~RoundEnds /\ reader.last = writePointer
    PROVE  buffers[slot] = tickWriteZero + reader.last - i
<1> USE LifoAssumption
<1> DEFINE T == tickWriteZero
           last == reader.last
<1>1. LifoTypeOK /\ WordsAgree /\ SlotsAgree /\ Position(reader.from)
  BY DEF LifoInv
<1>2. T \in Nat /\ last \in Int /\ writePointer \in Int /\ BufferNum \in Nat
  BY <1>1 DEF LifoTypeOK, Ticks
<1>3. i < T + last
  <2>1. Seen(reader.from) \in Nat
    <3>1. ASSUME reader.from # Before PROVE reader.from.tick \in Nat /\ reader.from.index \in Nat
      <4>1. reader.from \in [tick : Ticks, index : Int]
        BY <1>1 DEF LifoTypeOK
      <4>2. reader.from.tick > 0 /\ reader.from.index \in SampleSlots
        BY <1>1, <3>1 DEF Position
      <4>3. QED
        BY <4>1, <4>2 DEF Ticks, SampleSlots
    <3>2. QED
      BY <3>1 DEF Seen
  <2>2. reader.count <= T + last - Seen(reader.from)
    <3>1. reader.maxRead \in Int /\ reader.tick = T
      BY <1>1 DEF LifoTypeOK, SampleSlots
    <3>2. QED
      BY SMTT(30), <1>2, <2>1, <3>1 DEF CopyIsRight, Lesser
  <2>3. reader.count \in Int
    BY <1>1 DEF LifoTypeOK
  <2>4. QED
    BY <1>2, <2>1, <2>2, <2>3
<1>4. \A j \in 1 .. BufferNum - 1 :
         /\ writer = "tick" \/ j <= writePointer => buffers[j] = T + j
         /\ writer # "tick" /\ T > 1 /\ j > writePointer + 1 => buffers[j] = T + j - BufferNum
  BY <1>1 DEF SlotsAgree
<1>5. writer # "tick" /\ writePointer < BufferNum - 1 => buffers[0] = T
  BY <1>1 DEF SlotsAgree
<1>6. CASE RoundEnds /\ last = BufferNum - 1
  <2>1. slot = last - i /\ slot \in 1 .. BufferNum - 1
    BY <1>2, <1>6
  <2>2. writer = "tick" \/ slot <= writePointer
    BY <1>2, <1>6, <2>1 DEF RoundEnds
  <2> HIDE DEF T, last
  <2>3. buffers[slot] = T + slot
    BY <1>4, <2>1, <2>2
  <2>4. T + slot = T + last - i
    BY <1>2, <2>1
  <2>5. QED
    BY <2>3, <2>4 DEF T, last
<1>7. CASE ~RoundEnds /\ last = writePointer
  <2>1. writer # "tick"
    BY <1>7 DEF RoundEnds
  <2>2. CASE i = last
    <3>1. slot = 0 /\ writePointer < BufferNum - 1
      BY <1>2, <1>7, <2>2
    <3>2. buffers[slot] = T
      BY <1>5, <2>1, <3>1
    <3>3. T = T + last - i
      BY <1>2, <2>2
    <3>4. QED
      BY <3>2, <3>3
  <2>3. CASE i < last
    <3>1. slot = last - i /\ slot \in 1 .. BufferNum - 1 /\ slot <= writePointer
      BY <1>2, <1>7, <2>3 DEF SampleSlots
    <3>2. buffers[slot] = T + slot
      BY <1>4, <3>1
    <3>3. T + slot = T + last - i
      BY <1>2, <3>1
    <3>4. QED
      BY <3>2, <3>3
  <2>4. CASE i > last
    <3>1. /\ slot = BufferNum + last - i /\ slot \in 1 .. BufferNum - 1
          /\ slot > writePointer + 1 /\ T > 1
      BY <1>2, <1>3, <1>7, <2>4 DEF SampleSlots
    <3>2. buffers[slot] = T + slot - BufferNum
      BY <1>4, <2>1, <3>1
    <3>3. T + slot - BufferNum = T + last - i
      BY <1>2, <3>1
    <3>4. QED
      BY <3>2, <3>3
  <2>5. QED
    BY <1>2, <2>2, <2>3, <2>4
<1>8. QED
  BY <1>6, <1>7

\* A sample is copied: the right one, as long as the reader's notes hold.
LEMMA CopySampleKeeps ==
    ASSUME LifoInv, CopySample, Len(reader.copied) < reader.count, UNCHANGED ringWords
    PROVE  LifoInv'
<1> USE LifoAssumption DEF ringWords
<1> DEFINE i == Len(reader.copied)
           slot == (BufferNum + reader.last - i) % BufferNum
<1>1. LifoTypeOK /\ WordsAgree /\ LocalsAgree /\ RoundKept /\ UNCHANGED kept /\ reader.at = "copy"
  BY DEF LifoInv, CopySample
<1>2. reader' = [reader EXCEPT !.copied = Append(reader.copied, buffers[slot])]
  BY DEF CopySample
<1>3. /\ i \in Nat /\ i < reader.count /\ reader.count \in Int
      /\ reader.count <= reader.maxRead /\ reader.maxRead <= BufferNum - 1
      /\ reader.maxRead \in Int /\ reader.last \in SampleSlots /\ reader.copied \in Seq(Nat)
  BY <1>1 DEF LifoTypeOK, LocalsAgree, Copying, SampleSlots
<1>4. i \in 0 .. BufferNum - 2
  BY <1>3
<1> HIDE DEF i
<1>5. /\ slot = IF i <= reader.last THEN reader.last - i ELSE BufferNum + reader.last - i
      /\ slot \in SampleSlots
  BY <1>3, <1>4, CopiedSlot
<1> HIDE DEF slot
<1>6. buffers[slot] \in Nat
  BY <1>1, <1>5 DEF LifoTypeOK
<1> DEFINE more == Append(reader.copied, buffers[slot])
<1>7. /\ more \in Seq(Nat) /\ Len(more) = i + 1 /\ more[i + 1] = buffers[slot]
      /\ \A k \in 1 .. i : more[k] = reader.copied[k]
  BY <1>3, <1>6, AppendProperties DEF i
<1> HIDE DEF more
<1>8. /\ reader' = [reader EXCEPT !.copied = more]
      /\ reader'.at = "copy" /\ reader'.old = reader.old /\ reader'.last = reader.last
      /\ reader'.count = reader.count /\ reader'.copied = more /\ reader'.from = reader.from
      /\ reader'.maxRead = reader.maxRead /\ reader'.since = reader.since
      /\ reader'.pointer = reader.pointer /\ reader'.tick = reader.tick
      /\ reader'.round = reader.round
  BY <1>1, <1>2 DEF LifoTypeOK, more
<1>9. LifoTypeOK'
  BY <1>1, <1>7, <1>8 DEF LifoTypeOK
<1>10. LocalsAgree'
  <2>1. Len(reader'.copied) <= IF reader'.count > 0 THEN reader'.count ELSE 0
    BY <1>3, <1>7, <1>8
  <2>2. QED
    BY <1>1, <1>8, <2>1 DEF LocalsAgree, Copying, TickOfRound
<1>11. ASSUME CopyIsRight, reader.tick = tickWriteZero, tickWriteZero > 0,
              \/ RoundEnds /\ reader.last = BufferNum - 1
              \/ ~RoundEnds /\ reader.last = writePointer
       PROVE  CopyIsRight'
  <2>1. buffers[slot] = tickWriteZero + reader.last - i
    BY <1>3, <1>4, <1>5, <1>11, SlotHoldsSample
  <2>2. tickWriteZero \in Int /\ reader.last \in Int
    BY <1>1 DEF LifoTypeOK, Ticks
  <2>3. ASSUME NEW k \in 1 .. i + 1 PROVE more[k] = reader.tick + reader.last + 1 - k
    <3>1. CASE k = i + 1
      <4>1. more[k] = tickWriteZero + reader.last - i
        BY <1>7, <2>1, <3>1
      <4>2. tickWriteZero + reader.last - i = reader.tick + reader.last + 1 - k
        BY <1>3, <1>11, <2>2, <3>1
      <4>3. QED
        BY <4>1, <4>2
    <3>2. CASE k \in 1 .. i
      <4>1. more[k] = reader.copied[k]
        BY <1>7, <3>2
      <4>2. QED
        BY <1>11, <3>2, <4>1 DEF CopyIsRight, i
    <3>3. QED
      BY <1>3, <2>3, <3>1, <3>2
  <2>4. QED
    BY <1>7, <1>8, <1>11, <2>3 DEF CopyIsRight
<1>12. ASSUME reader.round = reader.tick, reader.tick = tickWriteZero
       PROVE  CopyInRound'
  <2>1. CopyInRound
    BY <1>1, <1>12 DEF RoundKept, Copying
  <2>2. /\ PriorTick' = PriorTick /\ tickWriteZero \in Nat /\ tickWriteZero > 0
        /\ PriorTick < tickWriteZero
        /\ oldTickWriteZero = IF RoundEnds THEN tickWriteZero ELSE PriorTick
    BY <1>1, <1>12, <2>1 DEF PriorTick, CopyInRound, LifoTypeOK, Ticks, WordsAgree
  <2>3. CASE reader.old = reader.tick
    <3>1. RoundEnds
      BY <1>12, <2>1, <2>2, <2>3 DEF CopyInRound
    <3>2. reader.pointer \in {0, BufferNum - 1} => CopyIsRight'
      BY <1>11, <1>12, <2>1, <2>2, <2>3, <3>1 DEF CopyInRound
    <3>3. QED
      BY <1>8, <1>12, <2>1, <2>3, <3>2 DEF CopyInRound
  <2>4. CASE reader.old # reader.tick
    <3>1. oldTickWriteZero = reader.old => ~RoundEnds
      BY <1>12, <2>2, <2>4
    <3>2. oldTickWriteZero = reader.old /\ reader.pointer = writePointer => CopyIsRight'
      BY <1>11, <1>12, <2>1, <2>2, <2>4, <3>1 DEF CopyInRound
    <3>3. QED
      BY <1>8, <1>12, <2>1, <2>2, <2>4, <3>2 DEF CopyInRound
  <2>5. QED
    BY <2>3, <2>4
<1>13. RoundKept'
  BY <1>8, <1>12 DEF RoundKept, Copying
<1>14. QED
  BY <1>1, <1>8, <1>9, <1>10, <1>13 DEF LifoInv, WordsAgree, SlotsAgree, RoundEnds, PriorTick,
                                        Position, TickOfRound

\* The reader goes on to its checks, or starts over.
LEMMA CheckKeeps ==
    ASSUME LifoInv, UNCHANGED ringWords, UNCHANGED kept,
           NEW onTo \in {"pointer", "checkPointer", "checkTick", "checkOld"},
           reader' = [reader EXCEPT !.at = onTo],
           onTo = "pointer" => reader.at # "idle",
           onTo = "checkPointer" => reader.at = "copy" /\ Len(reader.copied) >= reader.count,
           onTo = "checkTick" => reader.at = "checkPointer" /\ writePointer = reader.pointer,
           onTo = "checkOld" => reader.at = "checkTick" /\ tickWriteZero = reader.tick
    PROVE  LifoInv'
<1> USE LifoAssumption DEF ringWords
<1>1. LifoTypeOK /\ WordsAgree /\ LocalsAgree /\ RoundKept
  BY DEF LifoInv
<1>2. /\ reader'.at = onTo /\ reader'.old = reader.old /\ reader'.last = reader.last
      /\ reader'.count = reader.count /\ reader'.copied = reader.copied
      /\ reader'.maxRead = reader.maxRead /\ reader'.since = reader.since
      /\ reader'.pointer = reader.pointer /\ reader'.tick = reader.tick
      /\ reader'.round = reader.round /\ reader'.from = reader.from
  BY <1>1 DEF LifoTypeOK
<1>3. LifoTypeOK'
  BY <1>1 DEF LifoTypeOK
<1>4. LocalsAgree'
  <2>1. onTo = "checkOld" => reader.tick > 0
    BY SMTT(30), <1>1 DEF LocalsAgree, Copying, LifoTypeOK, Ticks
  <2>2. QED
    BY <1>1, <1>2, <2>1 DEF LocalsAgree, Copying, TickOfRound
<1>5. CopyIsRight' <=> CopyIsRight
  BY <1>2 DEF CopyIsRight
<1>6. ASSUME Copying, reader.round = reader.tick, reader.tick = tickWriteZero
      PROVE  /\ onTo \in {"checkPointer", "checkTick"} => CopyInRound'
             /\ onTo = "checkOld" /\ reader.old = oldTickWriteZero => CopyIsRight
  <2>1. CopyInRound
    BY <1>1, <1>6 DEF RoundKept
  <2>2. CASE onTo = "checkPointer"
    BY <1>2, <1>5, <2>1, <2>2 DEF CopyInRound, PriorTick
  <2>3. CASE onTo = "checkTick"
    <3>1. /\ tickWriteZero \in Nat /\ tickWriteZero > 0
          /\ oldTickWriteZero = IF RoundEnds THEN tickWriteZero ELSE PriorTick
          /\ PriorTick < tickWriteZero
      <4>1. tickWriteZero \in Nat /\ tickWriteZero > 0
        BY <1>1, <1>6, <2>1 DEF CopyInRound, LifoTypeOK, Ticks
      <4>2. QED
        BY <1>1, <4>1 DEF PriorTick, WordsAgree
    <3>2. reader.old = reader.tick => reader.pointer \in {0, BufferNum - 1}
      BY <1>1, <1>6, <2>1, <2>3, <3>1 DEF CopyInRound, RoundEnds, WordsAgree
    <3>3. oldTickWriteZero = reader.old => CopyIsRight
      BY <2>1, <2>3, <3>2 DEF CopyInRound
    <3>4. QED
      BY <1>2, <1>5, <2>1, <2>3, <3>3 DEF CopyInRound, PriorTick
  <2>4. CASE onTo = "checkOld"
    BY <2>1, <2>4 DEF CopyInRound
  <2>5. QED
    BY <2>2, <2>3, <2>4
<1>7. RoundKept'
  BY <1>2, <1>5, <1>6 DEF RoundKept, Copying
<1>8. QED
  BY <1>1, <1>2, <1>3, <1>4, <1>7 DEF LifoInv, WordsAgree, SlotsAgree, RoundEnds, PriorTick,
                                      Position, TickOfRound

\* ReadData returns; what the caller keeps is where it found the newest sample.
LEMMA ReturnKeeps ==
    ASSUME LifoInv, ReturnSamples, UNCHANGED ringWords
    PROVE  LifoInv'
<1>1. LifoTypeOK /\ LocalsAgree /\ Position(kept) /\ reader.at = "checkOld"
  BY DEF LifoInv, ReturnSamples
<1>2. /\ reader' = AtRest
      /\ kept' = kept \/ kept' = [tick |-> reader.tick, index |-> reader.last]
  BY DEF ReturnSamples
<1>3. /\ reader.tick \in Ticks /\ reader.tick > 0 /\ reader.last \in SampleSlots
      /\ reader.last \in Int /\ TickOfRound(reader.tick)
  BY <1>1 DEF LocalsAgree, LifoTypeOK
<1>4. kept' \in [tick : Ticks, index : Int]
  BY <1>1, <1>2, <1>3 DEF LifoTypeOK
<1>5. Position(kept')
  BY <1>1, <1>2, <1>3 DEF Position
<1>6. QED
  BY <1>2, <1>4, <1>5, RestKeeps

\* Every step of the writer and of the reader keeps the invariant.
LEMMA LifoNextInv == LifoInv /\ [LifoNext]_lifoVars => LifoInv'
<1> SUFFICES ASSUME LifoInv, [LifoNext]_lifoVars PROVE LifoInv'
  OBVIOUS
<1>1. CASE WriteSample /\ UNCHANGED <<reader, kept>>
  BY <1>1, WriteSampleKeeps
<1>2. CASE PublishSample /\ UNCHANGED <<reader, kept>>
  BY <1>2, KeepOldTickKeeps, MovePointerKeeps, WriteTickKeeps DEF PublishSample
<1>3. CASE ReadData /\ UNCHANGED ringWords
  <2>1. CASE CallRead
    BY <1>3, <2>1, CallReadKeeps
  <2>2. CASE NoteRing
    BY <1>3, <2>2, NotePointerKeeps, NoteTickKeeps, NoteOldKeeps DEF NoteRing
  <2>3. CASE CopySample
    <3>1. CASE Len(reader.copied) < reader.count
      BY <1>3, <2>3, <3>1, CopySampleKeeps
    <3>2. CASE ~(Len(reader.copied) < reader.count)
      <4>1. Len(reader.copied) >= reader.count
        BY <3>2 DEF LifoInv, LifoTypeOK
      <4>2. /\ reader.at = "copy" /\ UNCHANGED kept
            /\ reader' = [reader EXCEPT !.at = "checkPointer"]
        BY <2>3, <3>2 DEF CopySample
      <4>3. QED
        BY <1>3, <4>1, <4>2, CheckKeeps
    <3>3. QED
      BY <3>1, <3>2
  <2>4. CASE CheckRing
    BY <1>3, <2>4, CheckKeeps DEF CheckRing
  <2>5. CASE ReturnSamples
    BY <1>3, <2>5, ReturnKeeps
  <2>6. QED
    BY <1>3, <2>1, <2>2, <2>3, <2>4, <2>5 DEF ReadData
<1>4. CASE UNCHANGED lifoVars
  BY <1>4 DEF lifoVars, LifoInv, LifoTypeOK, WordsAgree, SlotsAgree, RoundEnds, PriorTick,
              Position, TickOfRound, LocalsAgree, RoundKept, Copying, Follows, CopyInRound,
              CopyIsRight
<1>5. QED
  BY <1>1, <1>2, <1>3, <1>4 DEF LifoNext, ringWords

\* What the invariant says of a call that returns.
LEMMA ReturnIsExact ==
    ASSUME LifoInv, ReturnSamples, reader.round = reader.tick
    PROVE  \E newest \in reader.since .. published :
             LET seen == IF reader.from = Before THEN 0 ELSE reader.from.tick + reader.from.index
             IN  reader.copied = [i \in 1 .. Lesser(reader.maxRead, newest - seen)
                                     |-> newest + 1 - i]
<1> USE LifoAssumption
<1> DEFINE newest == reader.tick + reader.last
           n == Lesser(reader.maxRead, newest - Seen(reader.from))
<1>1. LifoTypeOK /\ LocalsAgree /\ RoundKept /\ reader.at = "checkOld"
      /\ oldTickWriteZero = reader.old
  BY DEF LifoInv, ReturnSamples
<1>2. CopyIsRight
  BY <1>1 DEF RoundKept
<1>3. newest \in reader.since .. published /\ newest \in Int /\ reader.count = n
  BY <1>1, <1>2 DEF CopyIsRight, LifoTypeOK, Ticks
<1>4. /\ reader.copied \in Seq(Nat) /\ reader.count \in Int /\ Len(reader.copied) \in Nat
      /\ Len(reader.copied) = IF reader.count > 0 THEN reader.count ELSE 0
  BY SMTT(30), <1>1 DEF LocalsAgree, LifoTypeOK
<1>5. \A i \in 1 .. Len(reader.copied) : reader.copied[i] = newest + 1 - i
  BY <1>2 DEF CopyIsRight
<1> HIDE DEF newest, n
<1>6. 1 .. Len(reader.copied) = 1 .. n
  BY <1>3, <1>4
<1>7. reader.copied = [i \in 1 .. Len(reader.copied) |-> reader.copied[i]]
  BY <1>4
<1>8. reader.copied = [i \in 1 .. n |-> newest + 1 - i]
  BY <1>5, <1>6, <1>7
<1>9. QED
  BY <1>3, <1>8 DEF n, Seen

\* Whatever the length of the ring and however the writer overtakes a reader, what
\* ReadData returns is what an atomic reader would have at some moment of the call,
\* unless a round began between its first two notes.
THEOREM ReadsAreExact == LifoSpec => ReadIsExact
<1>1. LifoInit => LifoInv
  BY LifoInitInv
<1>2. LifoInv /\ [LifoNext]_lifoVars => LifoInv'
  BY LifoNextInv
<1>3. LifoInv => (ReturnSamples /\ reader.round = reader.tick =>
         \E newest \in reader.since .. published :
            LET seen == IF reader.from = Before THEN 0 ELSE reader.from.tick + reader.from.index
            IN  reader.copied = [i \in 1 .. Lesser(reader.maxRead, newest - seen)
                                    |-> newest + 1 - i])
  BY ReturnIsExact
<1>4. QED
  BY <1>1, <1>2, <1>3, PTL DEF LifoSpec, ReadIsExact

------------------------------------------------------------------------------
(* The handlers of notifications. *)

Links == Handlers \cup {Null}
AllStores ==
    [field : {"next", "previous", "head"}, of : Handlers, value : Links]
    \cup [field : {"attached"}, of : Handlers, value : Messages \cup {Null}]
    \cup [field : {"return"}, of : Handlers, value : {Null}]

HandlersTypeOK ==
    /\ head \in Links
    /\ next \in [Handlers -> Links] /\ previous \in [Handlers -> Links]
    /\ attached \in [Handlers -> Messages \cup {Null}]
    /\ order \in Seq(Handlers)
    /\ stores \in Seq(AllStores)
    /\ search \in [place : {"idle", "front", "look", "found", "head", "back", "next", "nothing"},
                   message : Messages \cup {Null}, at : Links, front : Links,
                   due : SUBSET Handlers, strayed : BOOLEAN]
    /\ search.place \in {"look", "head", "back", "next"} => search.at # Null

\* The elements of a sequence, and those next to one, the ends being next to each other.
In(q) == {q[i] : i \in 1 .. Len(q)}
After(q, i) == q[IF i = Len(q) THEN 1 ELSE i + 1]
Ahead(q, i) == q[IF i = 1 THEN Len(q) ELSE i - 1]
Foremost(q) == IF Len(q) = 0 THEN Null ELSE q[1]
IsInjectiveSeq(q) == \A i, j \in 1 .. Len(q) : q[i] = q[j] => i = j

\* Whether one of the stores s is to a field of a handler, and what the field, which
\* f holds, will be when all are done.
StoresTo(s, field, h) == \E k \in 1 .. Len(s) : s[k].field = field /\ s[k].of = h
WillBe(f, s, field, h, v) ==
    \/ f[h] = v /\ ~StoresTo(s, field, h)
    \/ \E k \in 1 .. Len(s) : s[k] = Store(field, h, v)

\* No field is stored to twice.
StoresOnce(s) ==
    \A k, l \in 1 .. Len(s) :
       s[k].field = s[l].field /\ (s[k].field = "head" \/ s[k].of = s[l].of) => k = l

\* What is yet to be stored makes the list that of the registered handlers.
HeadWillBeExact ==
    \/ head = Foremost(order) /\ \A k \in 1 .. Len(stores) : stores[k].field # "head"
    \/ \E k \in 1 .. Len(stores) : stores[k].field = "head" /\ stores[k].value = Foremost(order)

ListWillBeExact ==
    /\ \A i \in 1 .. Len(order) :
          /\ WillBe(next, stores, "next", order[i], After(order, i))
          /\ WillBe(previous, stores, "previous", order[i], Ahead(order, i))
    /\ \A h \in Handlers \ In(order) :
          /\ WillBe(next, stores, "next", h, Null)
          /\ WillBe(previous, stores, "previous", h, Null)
          /\ WillBe(attached, stores, "attached", h, Null)

\* Register has not returned; its handler is the last one.
Returns(s, h) == s # <<>> /\ s[Len(s)] = ReturnOf(h)

RegisterReturns ==
    \A k \in 1 .. Len(stores) :
       /\ stores[k].field = "return" =>
             k = Len(stores) /\ Len(order) > 0 /\ stores[k].of = order[Len(order)]
       /\ stores[k].field = "attached" /\ stores[k].of \in In(order) =>
             k < Len(stores) /\ Returns(stores, stores[k].of)

\* A handler nothing leads to yet: its own link is about to be stored.
Fresh(h) ==
    /\ \/ Len(stores) > 0 /\ stores[1] = Store("next", h, order[1])
       \/ /\ Len(stores) > 1 /\ stores[1].field = "attached"
          /\ stores[2] = Store("next", h, order[1])
    /\ head # h /\ \A x \in In(order) : next[x] # h
    /\ search.at = h => search.strayed

\* Where the links lead meanwhile: on, back to the front, or to the handler that
\* is being unregistered, from which the back is still ahead while it is the head;
\* nowhere from one that nothing leads to.
LinksMeanwhile ==
    /\ head = Null => Len(order) = 0 \/ (Len(order) = 1 /\ Returns(stores, order[1]))
    /\ head \in In(order) => head = order[1]
    /\ head \in Handlers \ In(order) =>
          Len(order) = 0 \/ previous[head] \in {Null, order[Len(order)]}
    /\ \A i \in 1 .. Len(order) :
          /\ next[order[i]] \in In(order) => next[order[i]] \in {After(order, i), order[1]}
          /\ next[order[i]] = Null => Fresh(order[i])
          /\ previous[order[i]] \in In(order) =>
                \/ previous[order[i]] = Ahead(order, i)
                \/ /\ i = 1 /\ Len(order) > 1 /\ Returns(stores, order[Len(order)])
                   /\ previous[order[1]] = order[Len(order) - 1]

\* The handlers that must be found are all registered, with the message.
DueAreRegistered ==
    \A h \in search.due :
       h \in In(order) /\ attached[h] = search.message /\ ~Returns(stores, h)

\* In the list they come from h on, after it, up to it, before it.
DueIsFrom(h) ==
    \A i, j \in 1 .. Len(order) : order[i] = h /\ order[j] \in search.due => j >= i
DueIsAfter(h) ==
    \A i, j \in 1 .. Len(order) : order[i] = h /\ order[j] \in search.due => j > i
DueIsUpTo(h) ==
    \A i, j \in 1 .. Len(order) : order[i] = h /\ order[j] \in search.due => j <= i
DueIsBefore(h) ==
    \A i, j \in 1 .. Len(order) : order[i] = h /\ order[j] \in search.due => j < i

\* A search that has not strayed has passed no handler that must be found.
SearchOnTheWay ==
    /\ search.at # Null => search.at \in In(order)
    /\ search.place \in {"idle", "front", "nothing"} => search.at = Null
    /\ search.place = "look" => DueIsFrom(search.at)
    /\ search.place \in {"head", "back", "next"} => DueIsAfter(search.at)
    /\ search.place = "nothing" => search.due = {}

\* The front a search loaded is still that, or it was registered since; or it is no
\* longer registered, and none that must be found is after what was ahead of it.
FrontLoaded ==
    search.place = "back" =>
       /\ search.front \in Handlers
       /\ search.front \in In(order) => search.front = order[1] \/ DueIsBefore(search.front)
       /\ search.front \notin In(order) => DueIsUpTo(previous[search.front])

\* The inductive invariant of the list of handlers.
HandlersInv ==
    /\ HandlersTypeOK /\ IsInjectiveSeq(order) /\ StoresOnce(stores)
    /\ HeadWillBeExact /\ ListWillBeExact /\ RegisterReturns /\ LinksMeanwhile
    /\ DueAreRegistered
    /\ ~search.strayed => SearchOnTheWay /\ FrontLoaded

\* The elements of a sequence are its range.
LEMMA RangeIsIn ==
    ASSUME NEW S, NEW q \in Seq(S)
    PROVE  Range(q) = In(q) /\ In(q) \subseteq S
<1>1. DOMAIN q = 1 .. Len(q) /\ \A i \in 1 .. Len(q) : q[i] \in S
  BY LenProperties, ElementOfSeq
<1>2. Range(q) = {q[i] : i \in 1 .. Len(q)}
  BY <1>1 DEF Range
<1>3. QED
  BY <1>1, <1>2 DEF In

\* A sequence without one of its elements.
LEMMA RemovedAt ==
    ASSUME NEW S, NEW q \in Seq(S), NEW i \in 1 .. Len(q)
    PROVE  LET r == RemoveAt(q, i)
           IN  /\ r \in Seq(S) /\ Len(r) = Len(q) - 1
               /\ \A j \in 1 .. Len(r) : r[j] = q[IF j < i THEN j ELSE j + 1]
<1> DEFINE a == SubSeq(q, 1, i - 1)
           b == SubSeq(q, i + 1, Len(q))
<1>1. /\ a \in Seq(S) /\ Len(a) = i - 1
      /\ \A j \in 1 .. i - 1 : a[j] = q[j]
  <2>1. i - 1 \in Int /\ Len(q) \in Nat /\ 1 .. i - 1 \subseteq 1 .. Len(q)
    BY LenProperties
  <2>2. QED
    BY <2>1, SubSeqProperties
<1>2. /\ b \in Seq(S) /\ Len(b) = Len(q) - i
      /\ \A j \in 1 .. Len(q) - i : b[j] = q[i + j]
  BY LenProperties, SubSeqProperties
<1> HIDE DEF a, b
<1>3. /\ a \o b \in Seq(S) /\ Len(a \o b) = Len(a) + Len(b)
      /\ \A j \in 1 .. Len(a) + Len(b) : (a \o b)[j] = IF j <= Len(a) THEN a[j] ELSE b[j - Len(a)]
  BY <1>1, <1>2, ConcatProperties
<1>4. RemoveAt(q, i) = a \o b
  BY DEF RemoveAt, a, b
<1>5. i \in Int /\ Len(q) \in Nat
  BY LenProperties
<1>6. ASSUME NEW j \in 1 .. Len(q) - 1
      PROVE  (a \o b)[j] = q[IF j < i THEN j ELSE j + 1]
  <2>1. CASE j < i
    BY <1>1, <1>2, <1>3, <1>5, <2>1
  <2>2. CASE ~(j < i)
    <3>1. (a \o b)[j] = b[j - (i - 1)] /\ j - (i - 1) \in 1 .. Len(q) - i
      BY <1>1, <1>2, <1>3, <1>5, <2>2
    <3>2. i + (j - (i - 1)) = j + 1
      BY <1>5
    <3>3. QED
      BY <1>2, <2>2, <3>1, <3>2
  <2>3. QED
    BY <2>1, <2>2
<1>7. Len(a \o b) = Len(q) - 1
  BY <1>1, <1>2, <1>3, <1>5
<1>8. QED
  BY <1>3, <1>4, <1>6, <1>7

\* A store leaves a field it is not to, and makes one it is to what it will be.
LEMMA StoreKeepsEnd ==
    ASSUME NEW S, NEW f \in [Handlers -> S], NEW s \in Seq(AllStores), s # <<>>, StoresOnce(s),
           NEW field \in {"next", "previous", "attached"}, NEW h \in Handlers, NEW v,
           WillBe(f, s, field, h, v),
           NEW g, g = IF s[1].field = field THEN [f EXCEPT ![s[1].of] = s[1].value] ELSE f
    PROVE  WillBe(g, Tail(s), field, h, v)
<1> DEFINE r == Tail(s)
<1>1. /\ r \in Seq(AllStores) /\ Len(s) \in Nat /\ Len(s) > 0 /\ Len(r) = Len(s) - 1
      /\ \A k \in 1 .. Len(r) : r[k] = s[k + 1]
  BY HeadTailProperties, EmptySeq, LenProperties
<1> HIDE DEF r
<1>2. CASE f[h] = v /\ ~StoresTo(s, field, h)
  <2>1. ~StoresTo(r, field, h)
    BY <1>1, <1>2 DEF StoresTo
  <2>2. g[h] = v
    BY <1>1, <1>2 DEF StoresTo
  <2>3. QED
    BY <2>1, <2>2 DEF WillBe, r
<1>3. ASSUME NEW k \in 1 .. Len(s), s[k] = Store(field, h, v)
      PROVE  WillBe(g, Tail(s), field, h, v)
  <2>1. s[k].field = field /\ s[k].of = h /\ s[k].value = v
    BY <1>3 DEF Store
  <2>2. CASE k = 1
    <3>1. g[h] = v
      BY <2>1, <2>2
    <3>2. ASSUME NEW l \in 1 .. Len(r), r[l].field = field, r[l].of = h PROVE FALSE
      <4>1. l + 1 \in 1 .. Len(s) /\ s[l + 1].field = field /\ s[l + 1].of = h
        BY <1>1, <3>2
      <4>2. l + 1 = k
        BY <2>1, <4>1 DEF StoresOnce
      <4>3. QED
        BY <2>2, <4>2
    <3>3. QED
      BY <3>1, <3>2 DEF WillBe, StoresTo, r
  <2>3. CASE k # 1
    <3>1. k - 1 \in 1 .. Len(r) /\ r[k - 1] = s[k]
      BY <1>1, <2>3
    <3>2. QED
      BY <1>3, <3>1 DEF WillBe, r
  <2>4. QED
    BY <2>2, <2>3
<1>4. QED
  BY <1>2, <1>3 DEF WillBe

\* What is stored to a field that will be v is v.
LEMMA StoreIsEnd ==
    ASSUME NEW f, NEW s \in Seq(AllStores), StoresOnce(s), NEW k \in 1 .. Len(s),
           NEW v, WillBe(f, s, s[k].field, s[k].of, v)
    PROVE  s[k].value = v
<1>1. StoresTo(s, s[k].field, s[k].of)
  BY DEF StoresTo
<1>2. PICK l \in 1 .. Len(s) : s[l] = Store(s[k].field, s[k].of, v)
  BY <1>1 DEF WillBe
<1>3. s[l].field = s[k].field /\ s[l].of = s[k].of /\ s[l].value = v
  BY <1>2 DEF Store
<1>4. l = k
  BY <1>3 DEF StoresOnce
<1>5. QED
  BY <1>3, <1>4

\* What a store does, and what it leaves to be stored.
LEMMA DoStoreDoes ==
    ASSUME HandlersTypeOK, DoStore
    PROVE  /\ Len(stores) \in Nat /\ Len(stores) > 0 /\ stores[1] \in AllStores
           /\ stores' \in Seq(AllStores) /\ Len(stores') = Len(stores) - 1
           /\ \A k \in 1 .. Len(stores') : stores'[k] = stores[k + 1]
           /\ stores' = Tail(stores) /\ stores # <<>>
           /\ head' = IF stores[1].field = "head" THEN stores[1].value ELSE head
           /\ next' = IF stores[1].field = "next"
                      THEN [next EXCEPT ![stores[1].of] = stores[1].value] ELSE next
           /\ previous' = IF stores[1].field = "previous"
                          THEN [previous EXCEPT ![stores[1].of] = stores[1].value] ELSE previous
           /\ attached' = IF stores[1].field = "attached"
                          THEN [attached EXCEPT ![stores[1].of] = stores[1].value] ELSE attached
           /\ UNCHANGED <<order, search>>
           /\ HandlersTypeOK'
<1>1. stores \in Seq(AllStores) /\ stores # <<>> /\ stores' = Tail(stores)
  BY DEF HandlersTypeOK, DoStore
<1>2. /\ Len(stores) \in Nat /\ Len(stores) > 0 /\ Head(stores) = stores[1]
      /\ stores' \in Seq(AllStores) /\ Len(stores') = Len(stores) - 1
      /\ \A k \in 1 .. Len(stores') : stores'[k] = stores[k + 1]
  BY <1>1, HeadTailProperties, EmptySeq, LenProperties
<1>3. stores[1] \in AllStores
  BY <1>1, <1>2, ElementOfSeq
<1>4. /\ head' = IF stores[1].field = "head" THEN stores[1].value ELSE head
      /\ next' = IF stores[1].field = "next"
                 THEN [next EXCEPT ![stores[1].of] = stores[1].value] ELSE next
      /\ previous' = IF stores[1].field = "previous"
                     THEN [previous EXCEPT ![stores[1].of] = stores[1].value] ELSE previous
      /\ attached' = IF stores[1].field = "attached"
                     THEN [attached EXCEPT ![stores[1].of] = stores[1].value] ELSE attached
      /\ UNCHANGED <<order, search>>
  BY <1>2 DEF DoStore, Stored
<1>5. /\ stores[1].field \in {"next", "previous", "head"} =>
           stores[1].of \in Handlers /\ stores[1].value \in Links
      /\ stores[1].field = "attached" =>
           stores[1].of \in Handlers /\ stores[1].value \in Messages \cup {Null}
  BY <1>3 DEF AllStores
<1>6. head' \in Links
  BY <1>4, <1>5 DEF HandlersTypeOK
<1>7. next' \in [Handlers -> Links] /\ previous' \in [Handlers -> Links]
  BY <1>4, <1>5 DEF HandlersTypeOK
<1>8. attached' \in [Handlers -> Messages \cup {Null}]
  BY <1>4, <1>5 DEF HandlersTypeOK
<1>9. HandlersTypeOK'
  BY <1>2, <1>4, <1>6, <1>7, <1>8 DEF HandlersTypeOK
<1>10. QED
  BY <1>1, <1>2, <1>3, <1>4, <1>9

\* What the list will be is not changed by a store.
LEMMA DoStoreKeepsEnd ==
    ASSUME HandlersInv, DoStore
    PROVE  StoresOnce(stores') /\ HeadWillBeExact' /\ ListWillBeExact'
<1>1. HandlersTypeOK /\ StoresOnce(stores) /\ HeadWillBeExact /\ ListWillBeExact
  BY DEF HandlersInv
<1>2. /\ Len(stores) \in Nat /\ Len(stores) > 0
      /\ stores' \in Seq(AllStores) /\ Len(stores') = Len(stores) - 1
      /\ \A k \in 1 .. Len(stores') : stores'[k] = stores[k + 1]
      /\ stores' = Tail(stores) /\ stores # <<>>
      /\ UNCHANGED <<order, search>>
  BY <1>1, DoStoreDoes
<1>3. StoresOnce(stores')
  <2>1. SUFFICES ASSUME NEW k \in 1 .. Len(stores'), NEW l \in 1 .. Len(stores'),
                        stores'[k].field = stores'[l].field,
                        stores'[k].field = "head" \/ stores'[k].of = stores'[l].of
                 PROVE  k = l
    BY DEF StoresOnce
  <2>2. k + 1 \in 1 .. Len(stores) /\ l + 1 \in 1 .. Len(stores)
    BY <1>2
  <2>3. k + 1 = l + 1
    BY <1>1, <1>2, <2>1, <2>2 DEF StoresOnce
  <2>4. QED
    BY <2>3
<1>4. HeadWillBeExact'
  <2>1. head' = IF stores[1].field = "head" THEN stores[1].value ELSE head
    BY <1>1, DoStoreDoes
  <2>2. Foremost(order)' = Foremost(order)
    BY <1>2 DEF Foremost
  <2>3. CASE head = Foremost(order) /\ \A k \in 1 .. Len(stores) : stores[k].field # "head"
    <3>1. head' = head
      BY <1>2, <2>1, <2>3
    <3>2. \A k \in 1 .. Len(stores') : stores'[k].field # "head"
      BY <1>2, <2>3
    <3>3. QED
      BY <2>2, <2>3, <3>1, <3>2 DEF HeadWillBeExact
  <2>4. ASSUME NEW k \in 1 .. Len(stores), stores[k].field = "head",
               stores[k].value = Foremost(order)
        PROVE  HeadWillBeExact'
    <3>1. CASE k = 1
      <4>1. head' = Foremost(order)
        BY <2>1, <2>4, <3>1
      <4>2. ASSUME NEW l \in 1 .. Len(stores') PROVE stores'[l].field # "head"
        <5>1. l + 1 \in 1 .. Len(stores) /\ l + 1 # 1 /\ stores'[l] = stores[l + 1]
          BY <1>2
        <5>2. QED
          BY <1>1, <2>4, <3>1, <5>1 DEF StoresOnce
      <4>3. QED
        BY <2>2, <4>1, <4>2 DEF HeadWillBeExact
    <3>2. CASE k # 1
      <4>1. k - 1 \in 1 .. Len(stores') /\ stores'[k - 1] = stores[k]
        BY <1>2, <3>2
      <4>2. QED
        BY <2>2, <2>4, <4>1 DEF HeadWillBeExact
    <3>3. QED
      BY <3>1, <3>2
  <2>5. QED
    BY <1>1, <2>3, <2>4 DEF HeadWillBeExact
<1>5. ListWillBeExact'
  <2>1. ASSUME NEW h \in Handlers, NEW v
        PROVE  /\ WillBe(next, stores, "next", h, v) => WillBe(next', stores', "next", h, v)
               /\ WillBe(previous, stores, "previous", h, v) =>
                     WillBe(previous', stores', "previous", h, v)
               /\ WillBe(attached, stores, "attached", h, v) =>
                     WillBe(attached', stores', "attached", h, v)
    <3>1. /\ stores \in Seq(AllStores) /\ next \in [Handlers -> Links]
          /\ previous \in [Handlers -> Links] /\ attached \in [Handlers -> Messages \cup {Null}]
      BY <1>1 DEF HandlersTypeOK
    <3>2. /\ next' = IF stores[1].field = "next"
                     THEN [next EXCEPT ![stores[1].of] = stores[1].value] ELSE next
          /\ previous' = IF stores[1].field = "previous"
                         THEN [previous EXCEPT ![stores[1].of] = stores[1].value] ELSE previous
          /\ attached' = IF stores[1].field = "attached"
                         THEN [attached EXCEPT ![stores[1].of] = stores[1].value] ELSE attached
      BY <1>1, DoStoreDoes
    <3>3. WillBe(next, stores, "next", h, v) => WillBe(next', stores', "next", h, v)
      BY <1>1, <1>2, <3>1, <3>2, StoreKeepsEnd
    <3>4. WillBe(previous, stores, "previous", h, v) => WillBe(previous', stores', "previous", h, v)
      BY <1>1, <1>2, <3>1, <3>2, StoreKeepsEnd
    <3>5. WillBe(attached, stores, "attached", h, v) => WillBe(attached', stores', "attached", h, v)
      BY <1>1, <1>2, <3>1, <3>2, StoreKeepsEnd
    <3>6. QED
      BY <3>3, <3>4, <3>5
  <2>2. \A i \in 1 .. Len(order) : order[i] \in Handlers
    BY <1>1, ElementOfSeq DEF HandlersTypeOK
  <2>3. \A i \in 1 .. Len(order) :
           /\ WillBe(next', stores', "next", order[i], After(order, i))
           /\ WillBe(previous', stores', "previous", order[i], Ahead(order, i))
    BY <1>1, <2>1, <2>2 DEF ListWillBeExact
  <2>4. \A h \in Handlers \ In(order) :
           /\ WillBe(next', stores', "next", h, Null)
           /\ WillBe(previous', stores', "previous", h, Null)
           /\ WillBe(attached', stores', "attached", h, Null)
    BY <1>1, <2>1 DEF ListWillBeExact
  <2>5. QED
    BY <1>2, <2>3, <2>4 DEF ListWillBeExact
<1>6. QED
  BY <1>3, <1>4, <1>5

\* The neighbours of a handler are handlers.
LEMMA NeighboursAreIn ==
    ASSUME NEW S, NEW q \in Seq(S), NEW i \in 1 .. Len(q)
    PROVE  /\ q[i] \in In(q) /\ After(q, i) \in In(q) /\ Ahead(q, i) \in In(q)
           /\ q[1] \in In(q) /\ In(q) \subseteq S /\ Len(q) \in Nat
<1>1. Len(q) \in Nat
  BY LenProperties
<1>2. /\ (IF i = Len(q) THEN 1 ELSE i + 1) \in 1 .. Len(q)
      /\ (IF i = 1 THEN Len(q) ELSE i - 1) \in 1 .. Len(q)
      /\ 1 \in 1 .. Len(q)
  BY <1>1
<1>3. \A j \in 1 .. Len(q) : q[j] \in In(q)
  BY DEF In
<1>4. In(q) \subseteq S
  BY RangeIsIn
<1>5. QED
  BY <1>1, <1>2, <1>3, <1>4 DEF After, Ahead

\* A store to a link of a registered handler is of the neighbour it will have, one
\* to the head of the front, one to a link of another handler of none.
LEMMA LinkStored ==
    ASSUME HandlersInv, DoStore
    PROVE  /\ \A i \in 1 .. Len(order) :
                 /\ next'[order[i]] \in {next[order[i]], After(order, i)}
                 /\ previous'[order[i]] \in {previous[order[i]], Ahead(order, i)}
           /\ \A h \in Handlers \ In(order) : previous'[h] \in {previous[h], Null}
           /\ head' \in {head, Foremost(order)}
<1>1. HandlersTypeOK /\ StoresOnce(stores) /\ HeadWillBeExact /\ ListWillBeExact
  BY DEF HandlersInv
<1>2. /\ Len(stores) \in Nat /\ Len(stores) > 0 /\ 1 \in 1 .. Len(stores)
      /\ head' = IF stores[1].field = "head" THEN stores[1].value ELSE head
      /\ next' = IF stores[1].field = "next"
                 THEN [next EXCEPT ![stores[1].of] = stores[1].value] ELSE next
      /\ previous' = IF stores[1].field = "previous"
                     THEN [previous EXCEPT ![stores[1].of] = stores[1].value] ELSE previous
  BY <1>1, DoStoreDoes
<1>3. /\ stores \in Seq(AllStores) /\ next \in [Handlers -> Links]
      /\ previous \in [Handlers -> Links]
  BY <1>1 DEF HandlersTypeOK
<1>4. ASSUME NEW i \in 1 .. Len(order)
      PROVE  /\ next'[order[i]] \in {next[order[i]], After(order, i)}
             /\ previous'[order[i]] \in {previous[order[i]], Ahead(order, i)}
  <2>1. order[i] \in Handlers
    BY <1>1, NeighboursAreIn DEF HandlersTypeOK
  <2>2. /\ WillBe(next, stores, "next", order[i], After(order, i))
        /\ WillBe(previous, stores, "previous", order[i], Ahead(order, i))
    BY <1>1 DEF ListWillBeExact
  <2>3. CASE stores[1].field = "next" /\ stores[1].of = order[i]
    <3>1. stores[1].value = After(order, i)
      BY <1>1, <1>2, <1>3, <2>2, <2>3, StoreIsEnd
    <3>2. QED
      BY <1>2, <1>3, <2>1, <2>3, <3>1
  <2>4. CASE stores[1].field = "previous" /\ stores[1].of = order[i]
    <3>1. stores[1].value = Ahead(order, i)
      BY <1>1, <1>2, <1>3, <2>2, <2>4, StoreIsEnd
    <3>2. QED
      BY <1>2, <1>3, <2>1, <2>4, <3>1
  <2>5. CASE stores[1].field \notin {"next", "previous"} \/ stores[1].of # order[i]
    BY <1>2, <1>3, <2>1, <2>5
  <2>6. QED
    BY <2>3, <2>4, <2>5
<1>5. ASSUME NEW h \in Handlers \ In(order) PROVE previous'[h] \in {previous[h], Null}
  <2>1. WillBe(previous, stores, "previous", h, Null)
    BY <1>1 DEF ListWillBeExact
  <2>2. CASE stores[1].field = "previous" /\ stores[1].of = h
    <3>1. WillBe(previous, stores, stores[1].field, stores[1].of, Null)
      BY <2>1, <2>2
    <3>2. stores[1].value = Null
      BY <1>1, <1>2, <1>3, <3>1, StoreIsEnd
    <3>3. QED
      BY <1>2, <1>3, <2>2, <3>2
  <2>3. CASE ~(stores[1].field = "previous" /\ stores[1].of = h)
    BY <1>2, <1>3, <2>3
  <2>4. QED
    BY <2>2, <2>3
<1>6. head' \in {head, Foremost(order)}
  <2>1. CASE stores[1].field = "head"
    <3>1. PICK k \in 1 .. Len(stores) : stores[k].field = "head" /\ stores[k].value = Foremost(order)
      BY <1>1, <1>2, <2>1 DEF HeadWillBeExact
    <3>2. k = 1
      BY <1>1, <1>2, <2>1, <3>1 DEF StoresOnce
    <3>3. QED
      BY <1>2, <2>1, <3>1, <3>2
  <2>2. CASE stores[1].field # "head"
    BY <1>2, <2>2
  <2>3. QED
    BY <2>1, <2>2
<1>7. QED
  BY <1>4, <1>5, <1>6

\* Where the links lead is kept by a store.
LEMMA DoStoreKeepsLinks ==
    ASSUME HandlersInv, DoStore
    PROVE  RegisterReturns' /\ LinksMeanwhile'
<1>1. /\ HandlersTypeOK /\ StoresOnce(stores) /\ HeadWillBeExact /\ ListWillBeExact
      /\ RegisterReturns /\ LinksMeanwhile /\ IsInjectiveSeq(order)
  BY DEF HandlersInv
<1>2. /\ Len(stores) \in Nat /\ Len(stores) > 0
      /\ stores' \in Seq(AllStores) /\ Len(stores') = Len(stores) - 1
      /\ \A k \in 1 .. Len(stores') : stores'[k] = stores[k + 1]
      /\ stores' = Tail(stores) /\ stores # <<>>
      /\ UNCHANGED <<order, search>>
      /\ head' = IF stores[1].field = "head" THEN stores[1].value ELSE head
      /\ next' = IF stores[1].field = "next"
                 THEN [next EXCEPT ![stores[1].of] = stores[1].value] ELSE next
  BY <1>1, DoStoreDoes
<1>3. /\ \A i \in 1 .. Len(order) :
            /\ next'[order[i]] \in {next[order[i]], After(order, i)}
            /\ previous'[order[i]] \in {previous[order[i]], Ahead(order, i)}
      /\ head' \in {head, Foremost(order)}
  BY LinkStored
<1>4. ASSUME NEW h, Returns(stores, h), Len(stores) > 1 PROVE Returns(stores', h)
  <2>1. Len(stores') > 0 /\ Len(stores') \in 1 .. Len(stores') /\ Len(stores') + 1 = Len(stores)
    BY <1>2, <1>4
  <2>2. stores'[Len(stores')] = ReturnOf(h)
    BY <1>2, <1>4, <2>1 DEF Returns
  <2>3. stores' # <<>>
    <3>1. Len(<<>>) = 0
      OBVIOUS
    <3>2. QED
      BY <2>1, <3>1
  <2>4. QED
    BY <2>2, <2>3 DEF Returns
<1>5. Len(order) \in Nat /\ Null \notin Handlers /\ order \in Seq(Handlers)
  BY <1>1, NullIsNone, LenProperties DEF HandlersTypeOK
<1>6. ASSUME NEW i \in 1 .. Len(order)
      PROVE  /\ order[i] \in In(order) /\ order[i] \in Handlers
             /\ After(order, i) # Null /\ After(order, i) \in In(order)
             /\ Ahead(order, i) \in In(order)
  BY <1>5, NeighboursAreIn
<1>7. RegisterReturns'
  <2>1. SUFFICES ASSUME NEW k \in 1 .. Len(stores')
                 PROVE  /\ stores'[k].field = "return" =>
                              k = Len(stores') /\ Len(order) > 0 /\ stores'[k].of = order[Len(order)]
                        /\ stores'[k].field = "attached" /\ stores'[k].of \in In(order) =>
                              k < Len(stores') /\ Returns(stores', stores'[k].of)
    BY <1>2 DEF RegisterReturns
  <2>2. k + 1 \in 1 .. Len(stores) /\ stores'[k] = stores[k + 1]
    BY <1>2
  <2>3. stores'[k].field = "return" =>
           k + 1 = Len(stores) /\ Len(order) > 0 /\ stores'[k].of = order[Len(order)]
    BY <1>1, <2>2 DEF RegisterReturns
  <2>4. stores'[k].field = "attached" /\ stores'[k].of \in In(order) =>
           k + 1 < Len(stores) /\ Returns(stores, stores'[k].of)
    BY <1>1, <2>2 DEF RegisterReturns
  <2>5. QED
    BY <1>2, <1>4, <2>2, <2>3, <2>4
<1>8. head' = Null => Len(order) = 0 \/ (Len(order) = 1 /\ Returns(stores', order[1]))
  <2>1. SUFFICES ASSUME head' = Null, Len(order) # 0
                 PROVE  Len(order) = 1 /\ Returns(stores', order[1])
    OBVIOUS
  <2>2. Foremost(order) = order[1] /\ order[1] # Null
    BY <1>5, <1>6, <2>1 DEF Foremost
  <2>3. head = Null /\ stores[1].field # "head"
    <3>1. head' # Foremost(order)
      BY <2>1, <2>2
    <3>2. head = Null
      BY <1>3, <2>1, <3>1
    <3>3. ASSUME stores[1].field = "head" PROVE FALSE
      <4>1. PICK k \in 1 .. Len(stores) : stores[k].field = "head" /\ stores[k].value = Foremost(order)
        BY <1>1, <2>2, <3>2 DEF HeadWillBeExact
      <4>2. k = 1
        BY <1>1, <1>2, <3>3, <4>1 DEF StoresOnce
      <4>3. QED
        BY <1>2, <3>1, <3>3, <4>1, <4>2
    <3>4. QED
      BY <3>2, <3>3
  <2>4. Len(order) = 1 /\ Returns(stores, order[1])
    BY <1>1, <2>1, <2>3 DEF LinksMeanwhile
  <2>5. PICK k \in 1 .. Len(stores) : stores[k].field = "head"
    BY <1>1, <2>2, <2>3 DEF HeadWillBeExact
  <2>6. Len(stores) > 1
    BY <1>2, <2>3, <2>5
  <2>7. QED
    BY <1>4, <2>4, <2>6
<1>9. head' \in In(order) => head' = order[1]
  <2>1. SUFFICES ASSUME head' \in In(order) PROVE head' = order[1]
    OBVIOUS
  <2>2. Len(order) # 0
    BY <1>5, <2>1 DEF In
  <2>3. QED
    BY <1>1, <1>3, <2>1, <2>2 DEF LinksMeanwhile, Foremost
<1>10. ASSUME NEW i \in 1 .. Len(order)
       PROVE  /\ next'[order[i]] \in In(order) => next'[order[i]] \in {After(order, i), order[1]}
              /\ next'[order[i]] = Null => Fresh(order[i])'
              /\ previous'[order[i]] \in In(order) =>
                    \/ previous'[order[i]] = Ahead(order, i)
                    \/ /\ i = 1 /\ Len(order) > 1 /\ Returns(stores', order[Len(order)])
                       /\ previous'[order[1]] = order[Len(order) - 1]
  <2>1. next'[order[i]] \in In(order) => next'[order[i]] \in {After(order, i), order[1]}
    BY <1>1, <1>3 DEF LinksMeanwhile
  <2>2. ASSUME next'[order[i]] = Null PROVE Fresh(order[i])'
    <3>1. next[order[i]] = Null
      BY <1>3, <1>6, <2>2
    <3>2. Fresh(order[i])
      BY <1>1, <3>1 DEF LinksMeanwhile
    <3>3. ~(stores[1] = Store("next", order[i], order[1]))
      <4>1. SUFFICES ASSUME stores[1] = Store("next", order[i], order[1]) PROVE FALSE
        OBVIOUS
      <4>2. stores[1].field = "next" /\ stores[1].of = order[i] /\ stores[1].value = order[1]
        BY <4>1 DEF Store
      <4>3. next'[order[i]] = order[1]
        BY <1>1, <1>2, <1>6, <4>2 DEF HandlersTypeOK
      <4>4. order[1] # Null
        BY <1>5, <1>6, NeighboursAreIn
      <4>5. QED
        BY <2>2, <4>3, <4>4
    <3>4. /\ Len(stores) > 1 /\ stores[1].field = "attached"
          /\ stores[2] = Store("next", order[i], order[1])
      BY <3>2, <3>3 DEF Fresh
    <3>5. Len(stores') > 0 /\ stores'[1] = Store("next", order[i], order[1])
      BY <1>2, <3>4
    <3>6. head' = head /\ next' = next
      BY <1>2, <3>4
    <3>7. QED
      BY <1>2, <3>2, <3>5, <3>6 DEF Fresh
  <2>3. ASSUME previous'[order[i]] \in In(order), previous'[order[i]] # Ahead(order, i)
        PROVE  /\ i = 1 /\ Len(order) > 1 /\ Returns(stores', order[Len(order)])
               /\ previous'[order[1]] = order[Len(order) - 1]
    <3>1. previous'[order[i]] = previous[order[i]]
      BY <1>3, <2>3
    <3>2. /\ i = 1 /\ Len(order) > 1 /\ Returns(stores, order[Len(order)])
          /\ previous[order[1]] = order[Len(order) - 1]
      BY <1>1, <2>3, <3>1 DEF LinksMeanwhile
    <3>3. StoresTo(stores', "previous", order[i])
      <4>1. WillBe(previous', stores', "previous", order[i], Ahead(order, i))
        BY <1>2, DoStoreKeepsEnd DEF ListWillBeExact
      <4>2. PICK k \in 1 .. Len(stores') : stores'[k] = Store("previous", order[i], Ahead(order, i))
        BY <2>3, <4>1 DEF WillBe
      <4>3. stores'[k].field = "previous" /\ stores'[k].of = order[i]
        BY <4>2 DEF Store
      <4>4. QED
        BY <4>3 DEF StoresTo
    <3>4. Len(stores) > 1
      BY <1>2, <3>3 DEF StoresTo
    <3>5. QED
      BY <1>4, <3>1, <3>2, <3>4
  <2>4. QED
    BY <2>1, <2>2, <2>3
<1>11. head' \in Handlers \ In(order) =>
          Len(order) = 0 \/ previous'[head'] \in {Null, order[Len(order)]}
  <2>1. SUFFICES ASSUME head' \in Handlers \ In(order), Len(order) # 0
                 PROVE  previous'[head'] \in {Null, order[Len(order)]}
    OBVIOUS
  <2>2. Foremost(order) \in In(order)
    BY <1>5, <1>6, <2>1 DEF Foremost
  <2>3. head' = head
    BY <1>3, <2>1, <2>2
  <2>4. previous[head] \in {Null, order[Len(order)]}
    BY <1>1, <2>1, <2>3 DEF LinksMeanwhile
  <2>5. previous'[head] \in {previous[head], Null}
    BY <2>1, <2>3, LinkStored
  <2>6. QED
    BY <2>3, <2>4, <2>5
<1>12. LinksMeanwhile'
  BY <1>2, <1>8, <1>9, <1>10, <1>11 DEF LinksMeanwhile
<1>13. QED
  BY <1>7, <1>12

\* A store leaves the search on its way.
LEMMA DoStoreKeeps == HandlersInv /\ DoStore => HandlersInv'
<1> SUFFICES ASSUME HandlersInv, DoStore PROVE HandlersInv'
  OBVIOUS
<1>1. /\ HandlersTypeOK /\ RegisterReturns /\ DueAreRegistered /\ IsInjectiveSeq(order)
      /\ ~search.strayed => SearchOnTheWay /\ FrontLoaded
  BY DEF HandlersInv
<1>2. /\ Len(stores) \in Nat /\ Len(stores) > 0
      /\ stores' \in Seq(AllStores) /\ Len(stores') = Len(stores) - 1
      /\ \A k \in 1 .. Len(stores') : stores'[k] = stores[k + 1]
      /\ UNCHANGED <<order, search>>
      /\ attached' = IF stores[1].field = "attached"
                     THEN [attached EXCEPT ![stores[1].of] = stores[1].value] ELSE attached
      /\ HandlersTypeOK'
  BY <1>1, DoStoreDoes
<1>3. DueAreRegistered'
  <2>1. SUFFICES ASSUME NEW h \in search.due
                 PROVE  h \in In(order) /\ attached'[h] = search.message /\ ~Returns(stores', h)
    BY <1>2 DEF DueAreRegistered
  <2>2. h \in In(order) /\ attached[h] = search.message /\ ~Returns(stores, h)
    BY <1>1 DEF DueAreRegistered
  <2>3. attached'[h] = attached[h]
    <3>1. ~(stores[1].field = "attached" /\ stores[1].of = h)
      BY <1>1, <1>2, <2>2 DEF RegisterReturns
    <3>2. QED
      BY <1>1, <1>2, <3>1 DEF HandlersTypeOK
  <2>4. ~Returns(stores', h)
    <3>1. SUFFICES ASSUME Returns(stores', h) PROVE FALSE
      OBVIOUS
    <3>2. stores' # <<>> /\ stores'[Len(stores')] = ReturnOf(h)
      BY <3>1 DEF Returns
    <3>3. Len(stores') \in 1 .. Len(stores')
      BY <1>2, <3>2, EmptySeq
    <3>4. stores[Len(stores)] = ReturnOf(h)
      BY <1>2, <3>2, <3>3
    <3>5. stores # <<>>
      BY <1>2, EmptySeq
    <3>6. QED
      BY <2>2, <3>4, <3>5 DEF Returns
  <2>5. QED
    BY <2>2, <2>3, <2>4
<1>4. SearchOnTheWay => SearchOnTheWay'
  BY <1>2 DEF SearchOnTheWay, DueIsFrom, DueIsAfter
<1>5. FrontLoaded => FrontLoaded'
  <2>1. SUFFICES ASSUME FrontLoaded, search.place = "back", search.front \notin In(order)
                 PROVE  \A i, j \in 1 .. Len(order) :
                           order[i] = previous'[search.front] /\ order[j] \in search.due => j <= i
    BY <1>2 DEF FrontLoaded, DueIsBefore, DueIsUpTo
  <2>2. search.front \in Handlers /\ DueIsUpTo(previous[search.front])
    BY <2>1 DEF FrontLoaded
  <2>3. previous'[search.front] \in {previous[search.front], Null}
    BY <2>1, <2>2, LinkStored
  <2>4. \A i \in 1 .. Len(order) : order[i] # Null
    BY <1>1, NullIsNone, ElementOfSeq DEF HandlersTypeOK
  <2>5. QED
    BY <1>2, <2>2, <2>3, <2>4 DEF DueIsUpTo
<1>6. QED
  BY <1>1, <1>2, <1>3, <1>4, <1>5, DoStoreKeepsEnd, DoStoreKeepsLinks DEF HandlersInv

\* With nothing to be stored, the list is that of the registered handlers.
LEMMA ExactAtRest ==
    ASSUME HandlersTypeOK, HeadWillBeExact, ListWillBeExact, stores = <<>>
    PROVE  /\ head = Foremost(order)
           /\ \A i \in 1 .. Len(order) :
                 next[order[i]] = After(order, i) /\ previous[order[i]] = Ahead(order, i)
           /\ \A h \in Handlers \ In(order) :
                 next[h] = Null /\ previous[h] = Null /\ attached[h] = Null
<1>1. 1 .. Len(stores) = {}
  BY EmptySeq
<1>2. QED
  BY <1>1 DEF HeadWillBeExact, ListWillBeExact, WillBe

\* The order with a handler appended.
LEMMA RegisteredLast ==
    ASSUME HandlersTypeOK, IsInjectiveSeq(order), NEW h \in Handlers, h \notin In(order),
           order' = Append(order, h)
    PROVE  /\ order' \in Seq(Handlers) /\ Len(order) \in Nat /\ Len(order') = Len(order) + 1
           /\ order'[Len(order) + 1] = h
           /\ \A i \in 1 .. Len(order) : order'[i] = order[i] /\ order[i] # h
           /\ \A i \in 1 .. Len(order') : i # Len(order) + 1 => i \in 1 .. Len(order)
           /\ In(order') = In(order) \cup {h}
           /\ IsInjectiveSeq(order')
<1>1. order \in Seq(Handlers)
  BY DEF HandlersTypeOK
<1>2. /\ order' \in Seq(Handlers) /\ Len(order) \in Nat /\ Len(order') = Len(order) + 1
      /\ order'[Len(order) + 1] = h
      /\ \A i \in 1 .. Len(order) : order'[i] = order[i]
  BY <1>1, AppendProperties, LenProperties
<1>3. \A i \in 1 .. Len(order) : order[i] # h
  BY DEF In
<1>4. \A i \in 1 .. Len(order') : i # Len(order) + 1 => i \in 1 .. Len(order)
  BY <1>2
<1>5. 1 .. Len(order') = 1 .. Len(order) \cup {Len(order) + 1}
  BY <1>2
<1>6. In(order') = In(order) \cup {h}
  BY <1>2, <1>5 DEF In
<1>7. IsInjectiveSeq(order')
  BY <1>2, <1>3, <1>4 DEF IsInjectiveSeq
<1>8. QED
  BY <1>2, <1>3, <1>4, <1>6, <1>7

\* The last two words of the invariant do not mind a handler appended.
LEMMA RegisterKeepsSearch ==
    ASSUME HandlersInv, stores = <<>>, NEW h \in Handlers, h \notin In(order),
           order' = Append(order, h), UNCHANGED <<head, next, previous, attached, search>>,
           ~search.strayed
    PROVE  SearchOnTheWay' /\ FrontLoaded'
<1>1. /\ HandlersTypeOK /\ IsInjectiveSeq(order) /\ HeadWillBeExact /\ ListWillBeExact
      /\ DueAreRegistered /\ SearchOnTheWay /\ FrontLoaded
  BY DEF HandlersInv
<1>2. /\ Len(order) \in Nat /\ Len(order') = Len(order) + 1
      /\ order'[Len(order) + 1] = h
      /\ \A i \in 1 .. Len(order) : order'[i] = order[i] /\ order[i] # h
      /\ \A i \in 1 .. Len(order') : i # Len(order) + 1 => i \in 1 .. Len(order)
      /\ In(order') = In(order) \cup {h}
  BY <1>1, RegisteredLast
<1>3. h \notin search.due
  BY <1>1 DEF DueAreRegistered
<1>4. \A i \in 1 .. Len(order') : order'[i] \in search.due => i \in 1 .. Len(order) /\ order[i] \in search.due
  BY <1>2, <1>3
<1>5. ASSUME NEW x, x # h
      PROVE  \A i \in 1 .. Len(order') : order'[i] = x => i \in 1 .. Len(order) /\ order[i] = x
  BY <1>2, <1>5
<1>6. SearchOnTheWay'
  <2>1. search.at # h
    BY <1>1, NullIsNone DEF SearchOnTheWay
  <2>2. DueIsFrom(search.at) => \A i, j \in 1 .. Len(order') :
           order'[i] = search.at /\ order'[j] \in search.due => j >= i
    BY <1>4, <1>5, <2>1 DEF DueIsFrom
  <2>3. DueIsAfter(search.at) => \A i, j \in 1 .. Len(order') :
           order'[i] = search.at /\ order'[j] \in search.due => j > i
    BY <1>4, <1>5, <2>1 DEF DueIsAfter
  <2>4. QED
    BY <1>1, <1>2, <2>2, <2>3 DEF SearchOnTheWay, DueIsFrom, DueIsAfter
<1>7. FrontLoaded'
  <2>1. SUFFICES ASSUME search.place = "back"
                 PROVE  /\ search.front \in Handlers
                        /\ search.front \in In(order') => \/ search.front = order'[1]
                                                          \/ DueIsBefore(search.front)'
                        /\ search.front \notin In(order') => DueIsUpTo(previous[search.front])'
    BY DEF FrontLoaded, DueIsUpTo
  <2>2. /\ search.front \in Handlers
        /\ search.front \in In(order) => search.front = order[1] \/ DueIsBefore(search.front)
    BY <1>1, <2>1 DEF FrontLoaded
  <2>3. CASE search.front = h
    <3>1. \A i, j \in 1 .. Len(order') : order'[i] = h /\ order'[j] \in search.due => j < i
      <4>1. \A i \in 1 .. Len(order') : order'[i] = h => i = Len(order) + 1
        BY <1>2
      <4>2. QED
        BY <1>2, <1>4, <4>1
    <3>2. QED
      BY <1>2, <2>2, <2>3, <3>1 DEF DueIsBefore
  <2>4. CASE search.front \in In(order)
    <3>1. search.front # h
      BY <2>4
    <3>2. DueIsBefore(search.front) => \A i, j \in 1 .. Len(order') :
             order'[i] = search.front /\ order'[j] \in search.due => j < i
      BY <1>4, <1>5, <3>1 DEF DueIsBefore
    <3>3. order'[1] = order[1]
      BY <1>2, <2>4 DEF In
    <3>4. QED
      BY <1>2, <2>2, <2>4, <3>2, <3>3 DEF DueIsBefore
  <2>5. CASE search.front \notin In(order) /\ search.front # h
    <3>1. previous[search.front] = Null
      BY <1>1, <2>2, <2>5, ExactAtRest
    <3>2. \A i \in 1 .. Len(order') : order'[i] # Null
      BY <1>1, <1>2, NullIsNone, ElementOfSeq DEF HandlersTypeOK
    <3>3. QED
      BY <1>2, <2>2, <2>5, <3>1, <3>2 DEF DueIsUpTo
  <2>6. QED
    BY <2>3, <2>4, <2>5
<1>8. QED
  BY <1>6, <1>7

\* A tuple with one more element.
LEMMA TupleAppended ==
    ASSUME NEW S, NEW a \in S, NEW b \in S
    PROVE  /\ Append(<<>>, a) = <<a>> /\ Append(<<a>>, b) = <<a, b>>
           /\ \A c \in S : Append(<<a, b>>, c) = <<a, b, c>>
           /\ \A c, d \in S : Append(<<a, b, c>>, d) = <<a, b, c, d>>
           /\ \A c, d, e \in S : Append(<<a, b, c, d>>, e) = <<a, b, c, d, e>>
           /\ \A c, d, e, f \in S : Append(<<a, b, c, d, e>>, f) = <<a, b, c, d, e, f>>
<1>1. Append(<<>>, a) = <<a>>
  OBVIOUS
<1>2. Append(<<a>>, b) = <<a, b>>
  <2>1. <<a>> \in Seq(S) /\ <<a, b>> = Append(<<a>>, b)
    OBVIOUS
  <2>2. QED
    BY <2>1
<1>3. \A c \in S : Append(<<a, b>>, c) = <<a, b, c>>
  <2> TAKE c \in S
  <2>1. <<a, b>> \in Seq(S) /\ <<a, b, c>> = Append(<<a, b>>, c)
    OBVIOUS
  <2>2. QED
    BY <2>1
<1>4. \A c, d \in S : Append(<<a, b, c>>, d) = <<a, b, c, d>>
  <2> TAKE c, d \in S
  <2>1. <<a, b, c>> \in Seq(S) /\ <<a, b, c, d>> = Append(<<a, b, c>>, d)
    OBVIOUS
  <2>2. QED
    BY <2>1
<1>5. \A c, d, e \in S : Append(<<a, b, c, d>>, e) = <<a, b, c, d, e>>
  <2> TAKE c, d, e \in S
  <2>1. <<a, b, c, d>> \in Seq(S) /\ <<a, b, c, d, e>> = Append(<<a, b, c, d>>, e)
    OBVIOUS
  <2>2. QED
    BY <2>1
<1>6. \A c, d, e, f \in S : Append(<<a, b, c, d, e>>, f) = <<a, b, c, d, e, f>>
  <2> TAKE c, d, e, f \in S
  <2>1. <<a, b, c, d, e>> \in Seq(S) /\ <<a, b, c, d, e, f>> = Append(<<a, b, c, d, e>>, f)
    OBVIOUS
  <2>2. QED
    BY <2>1
<1>7. QED
  BY <1>1, <1>2, <1>3, <1>4, <1>5, <1>6

\* A tuple joined to a sequence is appended to it.
LEMMA TupleJoined ==
    ASSUME NEW S, NEW s \in Seq(S), NEW a \in S
    PROVE  /\ s \o <<a>> = Append(s, a)
           /\ \A b \in S : s \o <<a, b>> = Append(Append(s, a), b)
           /\ \A b, c \in S : s \o <<a, b, c>> = Append(Append(Append(s, a), b), c)
           /\ \A b, c, d \in S :
                 s \o <<a, b, c, d>> = Append(Append(Append(Append(s, a), b), c), d)
<1>1. \A t \in Seq(S), x \in S : s \o Append(t, x) = Append(s \o t, x)
  <2> TAKE t \in Seq(S), x \in S
  <2>1. <<x>> \in Seq(S) /\ s \o t \in Seq(S)
    BY ConcatProperties
  <2>2. (s \o t) \o <<x>> = s \o (t \o <<x>>)
    BY <2>1, ConcatAssociative
  <2>3. t \o <<x>> = Append(t, x) /\ (s \o t) \o <<x>> = Append(s \o t, x)
    BY <2>1, AppendIsConcat
  <2>4. QED
    BY <2>2, <2>3
<1>2. s \o <<a>> = Append(s, a)
  BY AppendIsConcat
<1>3. \A b \in S : s \o <<a, b>> = Append(Append(s, a), b)
  <2> TAKE b \in S
  <2>1. <<a>> \in Seq(S) /\ <<a, b>> = Append(<<a>>, b)
    OBVIOUS
  <2>2. QED
    BY <1>1, <1>2, <2>1
<1>4. \A b, c \in S : s \o <<a, b, c>> = Append(Append(Append(s, a), b), c)
  <2> TAKE b, c \in S
  <2>1. <<a, b>> \in Seq(S) /\ <<a, b, c>> = Append(<<a, b>>, c)
    OBVIOUS
  <2>2. QED
    BY <1>1, <1>3, <2>1
<1>5. \A b, c, d \in S : s \o <<a, b, c, d>> = Append(Append(Append(Append(s, a), b), c), d)
  <2> TAKE b, c, d \in S
  <2>1. <<a, b, c>> \in Seq(S) /\ <<a, b, c, d>> = Append(<<a, b, c>>, d)
    OBVIOUS
  <2>2. QED
    BY <1>1, <1>4, <2>1
<1>6. QED
  BY <1>2, <1>3, <1>4, <1>5

\* The joined lists of stores that Register and Unregister write down.
LEMMA FourStores ==
    ASSUME NEW a, NEW b, NEW c, NEW d
    PROVE  <<a>> \o <<b, c>> \o <<d>> = <<a, b, c, d>>
<1> DEFINE S == {a, b, c, d}
<1>1. <<a>> \in Seq(S) /\ <<a, b, c>> \in Seq(S) /\ a \in S /\ b \in S /\ c \in S /\ d \in S
  OBVIOUS
<1> HIDE DEF S
<1>2. /\ Append(<<a>>, b) = <<a, b>> /\ Append(<<a, b>>, c) = <<a, b, c>>
      /\ Append(<<a, b, c>>, d) = <<a, b, c, d>>
  BY <1>1, TupleAppended
<1>3. <<a>> \o <<b, c>> = Append(Append(<<a>>, b), c)
  BY <1>1, TupleJoined
<1>4. <<a, b, c>> \o <<d>> = Append(<<a, b, c>>, d)
  BY <1>1, TupleJoined
<1>5. QED
  BY <1>2, <1>3, <1>4

\* Those of five stores.
ThreeBetween(a, b, c, d, e) == <<a>> \o <<b, c, d>> \o <<e>>
TwoBeforeTwo(a, b, c, d, e) == (<<>> \o <<a, b>>) \o <<c, d>> \o <<e>>

\* Five stores, however they are put together.
LEMMA FiveStores ==
    ASSUME NEW a, NEW b, NEW c, NEW d, NEW e
    PROVE  /\ ThreeBetween(a, b, c, d, e) = <<a, b, c, d, e>>
           /\ TwoBeforeTwo(a, b, c, d, e) = <<a, b, c, d, e>>
<1> DEFINE S == {a, b, c, d, e}
<1>1. /\ <<>> \in Seq(S) /\ <<a>> \in Seq(S) /\ <<a, b>> \in Seq(S) /\ <<a, b, c, d>> \in Seq(S)
      /\ a \in S /\ b \in S /\ c \in S /\ d \in S /\ e \in S
  OBVIOUS
<1> HIDE DEF S
<1>2. /\ Append(<<>>, a) = <<a>> /\ Append(<<a>>, b) = <<a, b>>
      /\ Append(<<a, b>>, c) = <<a, b, c>> /\ Append(<<a, b, c>>, d) = <<a, b, c, d>>
      /\ Append(<<a, b, c, d>>, e) = <<a, b, c, d, e>>
  BY <1>1, TupleAppended
<1>3. <<a>> \o <<b, c, d>> = Append(Append(Append(<<a>>, b), c), d)
  BY <1>1, TupleJoined
<1>4. <<>> \o <<a, b>> = Append(Append(<<>>, a), b)
  BY <1>1, TupleJoined
<1>5. <<a, b>> \o <<c, d>> = Append(Append(<<a, b>>, c), d)
  BY <1>1, TupleJoined
<1>6. <<a, b, c, d>> \o <<e>> = Append(<<a, b, c, d>>, e)
  BY <1>1, TupleJoined
<1>7. QED
  BY <1>2, <1>3, <1>4, <1>5, <1>6 DEF ThreeBetween, TwoBeforeTwo

\* Those of six stores.
FourBetween(a, b, c, d, e, f) == <<a>> \o <<b, c, d, e>> \o <<f>>
TwoBetween(a, b, c, d, e, f) == (<<a>> \o <<b, c>>) \o <<d, e>> \o <<f>>

\* Six stores, however they are put together.
LEMMA SixStores ==
    ASSUME NEW a, NEW b, NEW c, NEW d, NEW e, NEW f
    PROVE  /\ FourBetween(a, b, c, d, e, f) = <<a, b, c, d, e, f>>
           /\ TwoBetween(a, b, c, d, e, f) = <<a, b, c, d, e, f>>
<1> DEFINE S == {a, b, c, d, e, f}
<1>1. /\ <<a>> \in Seq(S) /\ <<a, b, c>> \in Seq(S) /\ <<a, b, c, d, e>> \in Seq(S)
      /\ a \in S /\ b \in S /\ c \in S /\ d \in S /\ e \in S /\ f \in S
  OBVIOUS
<1> HIDE DEF S
<1>2. /\ Append(<<a>>, b) = <<a, b>>
      /\ Append(<<a, b>>, c) = <<a, b, c>> /\ Append(<<a, b, c>>, d) = <<a, b, c, d>>
      /\ Append(<<a, b, c, d>>, e) = <<a, b, c, d, e>>
      /\ Append(<<a, b, c, d, e>>, f) = <<a, b, c, d, e, f>>
  BY <1>1, TupleAppended
<1>3. <<a>> \o <<b, c, d, e>> = Append(Append(Append(Append(<<a>>, b), c), d), e)
  BY <1>1, TupleJoined
<1>4. <<a>> \o <<b, c>> = Append(Append(<<a>>, b), c)
  BY <1>1, TupleJoined
<1>5. <<a, b, c>> \o <<d, e>> = Append(Append(<<a, b, c>>, d), e)
  BY <1>1, TupleJoined
<1>6. <<a, b, c, d, e>> \o <<f>> = Append(<<a, b, c, d, e>>, f)
  BY <1>1, TupleJoined
<1>7. QED
  BY <1>2, <1>3, <1>4, <1>5, <1>6 DEF FourBetween, TwoBetween

\* A store is one of AllStores.
LEMMA StoreType ==
    ASSUME NEW h \in Handlers
    PROVE  /\ \A v \in Links : /\ Store("next", h, v) \in AllStores
                               /\ Store("previous", h, v) \in AllStores
                               /\ Store("head", h, v) \in AllStores
           /\ \A m \in Messages \cup {Null} : Store("attached", h, m) \in AllStores
           /\ Store("return", h, Null) \in AllStores
BY DEF Store, AllStores

\* What Register is to store, in a list that is empty and in one that is not.
LEMMA RegisterStores ==
    ASSUME HandlersTypeOK, HeadWillBeExact, ListWillBeExact, NEW h \in Handlers,
           NEW message \in Messages, Register(h, message)
    PROVE  /\ h \notin In(order) /\ stores = <<>> /\ order' = Append(order, h)
           /\ UNCHANGED <<head, next, previous, attached, search>>
           /\ Len(order) = 0 =>
                 stores' = <<Store("attached", h, message), Store("next", h, h),
                             Store("previous", h, h), Store("head", h, h), Store("return", h, Null)>>
           /\ Len(order) > 0 =>
                 stores' = <<Store("attached", h, message), Store("next", h, order[1]),
                             Store("next", order[Len(order)], h),
                             Store("previous", h, order[Len(order)]),
                             Store("previous", order[1], h), Store("return", h, Null)>>
<1>1. h \notin In(order) /\ stores = <<>>
  BY RangeIsIn DEF Register, HandlersTypeOK
<1>2. order \in Seq(Handlers) /\ Len(order) \in Nat
  BY LenProperties DEF HandlersTypeOK
<1>3. head = Foremost(order) /\ \A i \in 1 .. Len(order) : previous[order[i]] = Ahead(order, i)
  BY <1>1, ExactAtRest
<1>4. ASSUME Len(order) = 0
      PROVE  stores' = <<Store("attached", h, message), Store("next", h, h),
                         Store("previous", h, h), Store("head", h, h), Store("return", h, Null)>>
  <2>1. head = Null
    BY <1>3, <1>4 DEF Foremost
  <2>2. stores' = <<Store("attached", h, message)>>
                  \o <<Store("next", h, h), Store("previous", h, h), Store("head", h, h)>>
                  \o <<Store("return", h, Null)>>
    BY <2>1 DEF Register, PushBack, ReturnOf
  <2>3. stores' = ThreeBetween(Store("attached", h, message), Store("next", h, h),
                               Store("previous", h, h), Store("head", h, h), Store("return", h, Null))
    BY <2>2 DEF ThreeBetween
  <2>4. QED
    BY <2>3, FiveStores
<1>5. ASSUME Len(order) > 0
      PROVE  stores' = <<Store("attached", h, message), Store("next", h, order[1]),
                         Store("next", order[Len(order)], h),
                         Store("previous", h, order[Len(order)]),
                         Store("previous", order[1], h), Store("return", h, Null)>>
  <2>1. head = order[1] /\ head # Null /\ previous[head] = order[Len(order)]
    <3>1. 1 \in 1 .. Len(order)
      BY <1>2, <1>5
    <3>2. order[1] \in Handlers
      BY <1>2, <3>1, ElementOfSeq
    <3>3. QED
      BY <1>2, <1>3, <1>5, <3>1, <3>2, NullIsNone DEF Foremost, Ahead
  <2>2. stores' = <<Store("attached", h, message)>>
                  \o <<Store("next", h, head), Store("next", previous[head], h),
                       Store("previous", h, previous[head]), Store("previous", head, h)>>
                  \o <<Store("return", h, Null)>>
    BY <2>1 DEF Register, PushBack, InsertBefore, ReturnOf
  <2>3. stores' = FourBetween(Store("attached", h, message), Store("next", h, head),
                              Store("next", previous[head], h), Store("previous", h, previous[head]),
                              Store("previous", head, h), Store("return", h, Null))
    BY <2>2 DEF FourBetween
  <2>4. QED
    BY <2>1, <2>3, SixStores
<1>6. QED
  BY <1>1, <1>4, <1>5 DEF Register

\* The first handler is registered.
LEMMA RegisterFirstKeeps ==
    ASSUME HandlersInv, NEW h \in Handlers, NEW message \in Messages, Register(h, message),
           Len(order) = 0
    PROVE  HandlersInv'
<1>1. /\ HandlersTypeOK /\ IsInjectiveSeq(order) /\ HeadWillBeExact /\ ListWillBeExact
      /\ DueAreRegistered
  BY DEF HandlersInv
<1> DEFINE s == <<Store("attached", h, message), Store("next", h, h), Store("previous", h, h),
                  Store("head", h, h), Store("return", h, Null)>>
<1>2. /\ h \notin In(order) /\ stores = <<>> /\ order' = Append(order, h)
      /\ UNCHANGED <<head, next, previous, attached, search>> /\ stores' = s
  BY <1>1, RegisterStores
<1>3. /\ order' \in Seq(Handlers) /\ Len(order') = 1 /\ order'[1] = h
      /\ In(order') = {h} /\ IsInjectiveSeq(order')
  <2>1. In(order) = {}
    BY DEF In
  <2>2. QED
    BY <1>1, <1>2, <2>1, RegisteredLast
<1>4. head = Null /\ \A x \in Handlers : next[x] = Null /\ previous[x] = Null /\ attached[x] = Null
  <2>1. In(order) = {}
    BY DEF In
  <2>2. QED
    BY <1>1, <1>2, <2>1, ExactAtRest DEF Foremost
<1>5. /\ s \in Seq(AllStores) /\ Len(s) = 5 /\ 1 .. 5 = {1, 2, 3, 4, 5}
      /\ s[1].field = "attached" /\ s[1].of = h
      /\ s[2] = Store("next", h, h) /\ s[2].field = "next" /\ s[2].of = h
      /\ s[3] = Store("previous", h, h) /\ s[3].field = "previous" /\ s[3].of = h
      /\ s[4].field = "head" /\ s[4].value = h
      /\ s[5] = ReturnOf(h) /\ s[5].field = "return" /\ s[5].of = h
  <2>1. s \in Seq(AllStores)
    <3>1. h \in Links /\ message \in Messages \cup {Null}
      BY DEF Links
    <3>2. /\ Store("attached", h, message) \in AllStores /\ Store("next", h, h) \in AllStores
          /\ Store("previous", h, h) \in AllStores /\ Store("head", h, h) \in AllStores
          /\ Store("return", h, Null) \in AllStores
      BY <3>1, StoreType
    <3>3. QED
      BY <3>2
  <2>2. QED
    BY <2>1 DEF Store, ReturnOf
<1> HIDE DEF s
<1>6. StoresOnce(s)
  BY <1>5 DEF StoresOnce
<1>7. HandlersTypeOK'
  BY <1>1, <1>2, <1>3, <1>5 DEF HandlersTypeOK
<1>8. HeadWillBeExact'
  <2>1. Foremost(order') = h
    BY <1>3 DEF Foremost
  <2>2. QED
    BY <1>2, <1>5, <2>1 DEF HeadWillBeExact
<1>9. ListWillBeExact'
  <2>1. After(order', 1) = h /\ Ahead(order', 1) = h
    BY <1>3 DEF After, Ahead
  <2>2. WillBe(next, s, "next", h, h) /\ WillBe(previous, s, "previous", h, h)
    BY <1>5 DEF WillBe
  <2>3. \A i \in 1 .. Len(order') : i = 1
    BY <1>3
  <2>4. ASSUME NEW x \in Handlers, x # h
        PROVE  /\ WillBe(next, s, "next", x, Null) /\ WillBe(previous, s, "previous", x, Null)
               /\ WillBe(attached, s, "attached", x, Null)
    BY <1>4, <1>5, <2>4 DEF WillBe, StoresTo
  <2>5. QED
    BY <1>2, <1>3, <2>1, <2>2, <2>3, <2>4 DEF ListWillBeExact
<1>10. Returns(s, h)
  BY SMTT(30), <1>5, EmptySeq DEF Returns
<1>11. RegisterReturns'
  BY <1>2, <1>3, <1>5, <1>10 DEF RegisterReturns
<1>12. LinksMeanwhile'
  <2>1. ~search.strayed => search.at # h
    BY <1>1, <1>2, NullIsNone DEF HandlersInv, SearchOnTheWay
  <2>2. h # Null
    BY NullIsNone
  <2>3. Fresh(h)'
    BY <1>2, <1>3, <1>4, <1>5, <2>1, <2>2 DEF Fresh
  <2>4. QED
    BY <1>2, <1>3, <1>4, <1>10, <2>2, <2>3 DEF LinksMeanwhile
<1>13. search.due = {}
  BY <1>1 DEF DueAreRegistered, In
<1>14. DueAreRegistered'
  BY <1>2, <1>13 DEF DueAreRegistered
<1>15. ~search.strayed => SearchOnTheWay' /\ FrontLoaded'
  BY <1>2, RegisterKeepsSearch
<1>16. QED
  BY <1>2, <1>3, <1>6, <1>7, <1>8, <1>9, <1>11, <1>12, <1>14, <1>15 DEF HandlersInv

\* A handler is registered after others.
LEMMA RegisterNextKeeps ==
    ASSUME HandlersInv, NEW h \in Handlers, NEW message \in Messages, Register(h, message),
           Len(order) > 0
    PROVE  HandlersInv'
<1>1. /\ HandlersTypeOK /\ IsInjectiveSeq(order) /\ HeadWillBeExact /\ ListWillBeExact
      /\ DueAreRegistered
  BY DEF HandlersInv
<1> DEFINE n == Len(order)
           s == <<Store("attached", h, message), Store("next", h, order[1]),
                  Store("next", order[n], h), Store("previous", h, order[n]),
                  Store("previous", order[1], h), Store("return", h, Null)>>
<1>2. /\ h \notin In(order) /\ stores = <<>> /\ order' = Append(order, h)
      /\ UNCHANGED <<head, next, previous, attached, search>> /\ stores' = s
  BY <1>1, RegisterStores
<1>3. /\ order' \in Seq(Handlers) /\ n \in Nat /\ n > 0 /\ Len(order') = n + 1
      /\ order'[n + 1] = h
      /\ \A i \in 1 .. n : order'[i] = order[i] /\ order[i] # h
      /\ \A i \in 1 .. Len(order') : i # n + 1 => i \in 1 .. n
      /\ In(order') = In(order) \cup {h} /\ IsInjectiveSeq(order')
  BY <1>1, <1>2, RegisteredLast
<1>4. /\ \A i \in 1 .. n : order[i] \in In(order) /\ order[i] \in Handlers
      /\ In(order) \subseteq Handlers
      /\ 1 \in 1 .. n /\ n \in 1 .. n
  BY <1>1, <1>3, NeighboursAreIn DEF HandlersTypeOK
<1>5. /\ head = order[1]
      /\ \A i \in 1 .. n : next[order[i]] = After(order, i) /\ previous[order[i]] = Ahead(order, i)
      /\ \A x \in Handlers \ In(order) : next[x] = Null /\ previous[x] = Null /\ attached[x] = Null
  BY <1>1, <1>2, <1>3, ExactAtRest DEF Foremost
<1>6. \A i \in 1 .. n : After(order, i) \in In(order) /\ Ahead(order, i) \in In(order)
  BY <1>1, NeighboursAreIn DEF HandlersTypeOK
<1>7. /\ s \in Seq(AllStores) /\ Len(s) = 6 /\ 1 .. 6 = {1, 2, 3, 4, 5, 6}
      /\ s[1] = Store("attached", h, message) /\ s[2] = Store("next", h, order[1])
      /\ s[3] = Store("next", order[n], h) /\ s[4] = Store("previous", h, order[n])
      /\ s[5] = Store("previous", order[1], h) /\ s[6] = ReturnOf(h)
  <2>1. /\ Store("attached", h, message) \in AllStores /\ Store("next", h, order[1]) \in AllStores
        /\ Store("next", order[n], h) \in AllStores /\ Store("previous", h, order[n]) \in AllStores
        /\ Store("previous", order[1], h) \in AllStores /\ Store("return", h, Null) \in AllStores
    BY <1>4, StoreType DEF Links
  <2>2. s \in Seq(AllStores)
    BY <2>1
  <2>3. QED
    BY <2>2 DEF ReturnOf
<1> HIDE DEF s
<1>8. /\ s[1].field = "attached" /\ s[1].of = h
      /\ s[2].field = "next" /\ s[2].of = h
      /\ s[3].field = "next" /\ s[3].of = order[n]
      /\ s[4].field = "previous" /\ s[4].of = h
      /\ s[5].field = "previous" /\ s[5].of = order[1]
      /\ s[6].field = "return" /\ s[6].of = h
  BY <1>7 DEF Store, ReturnOf
<1>9. order[n] # h /\ order[1] # h
  BY <1>3, <1>4
<1>10. StoresOnce(s)
  BY <1>7, <1>8, <1>9 DEF StoresOnce
<1>11. HandlersTypeOK'
  BY <1>1, <1>2, <1>3, <1>7 DEF HandlersTypeOK
<1>12. order'[1] = order[1] /\ order'[n] = order[n]
  BY <1>3, <1>4
<1>13. HeadWillBeExact'
  <2>1. Foremost(order') = order[1]
    BY <1>3, <1>12 DEF Foremost
  <2>2. QED
    BY <1>2, <1>5, <1>7, <1>8, <2>1 DEF HeadWillBeExact
<1>14. ASSUME NEW i \in 1 .. n + 1
       PROVE  /\ After(order', i) = IF i = n + 1 THEN order[1] ELSE IF i = n THEN h ELSE After(order, i)
              /\ Ahead(order', i) = IF i = 1 THEN h ELSE IF i = n + 1 THEN order[n] ELSE Ahead(order, i)
              /\ order'[i] = IF i = n + 1 THEN h ELSE order[i]
  <2>1. i # n + 1 => i \in 1 .. n /\ (i # n => i + 1 \in 1 .. n) /\ (i # 1 => i - 1 \in 1 .. n)
    BY <1>3
  <2>2. (n + 1) - 1 = n
    BY <1>3
  <2>3. QED
    BY <1>3, <1>12, <2>1, <2>2 DEF After, Ahead
<1>15. \A i \in 1 .. n : (order[i] = order[n] => i = n) /\ (order[i] = order[1] => i = 1)
  BY <1>1, <1>4 DEF IsInjectiveSeq
<1>16. ListWillBeExact'
  <2>1. WillBe(next, s, "next", h, order[1]) /\ WillBe(next, s, "next", order[n], h)
    BY <1>7 DEF WillBe
  <2>2. WillBe(previous, s, "previous", h, order[n]) /\ WillBe(previous, s, "previous", order[1], h)
    BY <1>7 DEF WillBe
  <2>3. ASSUME NEW i \in 1 .. n
        PROVE  /\ i # n => WillBe(next, s, "next", order[i], After(order, i))
               /\ i # 1 => WillBe(previous, s, "previous", order[i], Ahead(order, i))
    <3>1. i # n => ~StoresTo(s, "next", order[i])
      BY <1>3, <1>7, <1>8, <1>15 DEF StoresTo
    <3>2. i # 1 => ~StoresTo(s, "previous", order[i])
      BY <1>3, <1>7, <1>8, <1>15 DEF StoresTo
    <3>3. QED
      BY <1>5, <3>1, <3>2 DEF WillBe
  <2>4. ASSUME NEW x \in Handlers \ In(order')
        PROVE  /\ WillBe(next, s, "next", x, Null) /\ WillBe(previous, s, "previous", x, Null)
               /\ WillBe(attached, s, "attached", x, Null)
    <3>1. x # h /\ x # order[n] /\ x # order[1] /\ x \notin In(order)
      BY <1>3, <1>4
    <3>2. ~StoresTo(s, "next", x) /\ ~StoresTo(s, "previous", x) /\ ~StoresTo(s, "attached", x)
      BY <1>7, <1>8, <3>1 DEF StoresTo
    <3>3. QED
      BY <1>5, <3>1, <3>2 DEF WillBe
  <2>5. ASSUME NEW i \in 1 .. n + 1
        PROVE  /\ WillBe(next, s, "next", order'[i], After(order', i))
               /\ WillBe(previous, s, "previous", order'[i], Ahead(order', i))
    <3>1. i = n + 1 \/ i \in 1 .. n
      BY <1>3
    <3>2. i = 1 => i # n + 1
      BY <1>3
    <3>3. QED
      BY <1>14, <2>1, <2>2, <2>3, <3>1, <3>2
  <2>6. QED
    BY <1>2, <1>3, <2>4, <2>5 DEF ListWillBeExact
<1>17. Returns(s, h)
  BY <1>7, EmptySeq DEF Returns
<1>18. RegisterReturns'
  <2>1. \A k \in 1 .. 6 : s[k].field = "return" => k = 6
    BY <1>7, <1>8
  <2>2. \A k \in 1 .. 6 : s[k].field = "attached" => k = 1
    BY <1>7, <1>8
  <2>3. QED
    BY <1>2, <1>3, <1>7, <1>8, <1>17, <2>1, <2>2 DEF RegisterReturns
<1>19. Fresh(h)'
  <2>1. \A x \in In(order') : next[x] # h
    <3>1. ASSUME NEW x \in In(order) PROVE next[x] # h
      <4>1. PICK i \in 1 .. n : x = order[i]
        BY DEF In
      <4>2. next[x] \in In(order)
        BY <1>5, <1>6, <4>1
      <4>3. QED
        BY <1>2, <4>2
    <3>2. next[h] # h
      BY <1>2, <1>5, NullIsNone
    <3>3. QED
      BY <1>3, <3>1, <3>2
  <2>2. ~search.strayed => search.at # h
    BY <1>2, NullIsNone DEF HandlersInv, SearchOnTheWay
  <2>3. QED
    BY <1>2, <1>5, <1>7, <1>8, <1>9, <1>12, <2>1, <2>2 DEF Fresh
<1>20. LinksMeanwhile'
  <2>1. head \in In(order) /\ head # Null /\ head = order'[1]
    BY <1>4, <1>5, <1>12, NullIsNone
  <2>2. ASSUME NEW i \in 1 .. n + 1
        PROVE  /\ next[order'[i]] \in In(order') => next[order'[i]] \in {After(order', i), order'[1]}
               /\ next[order'[i]] = Null => Fresh(order[i])'
               /\ previous[order'[i]] \in In(order') =>
                     \/ previous[order'[i]] = Ahead(order', i)
                     \/ /\ i = 1 /\ Len(order') > 1 /\ Returns(s, order'[Len(order')])
                        /\ previous[order'[1]] = order'[Len(order') - 1]
    <3>1. CASE i = n + 1
      <4>1. next[h] = Null /\ previous[h] = Null /\ Null \notin Handlers
        BY <1>2, <1>5, NullIsNone
      <4>2. In(order') \subseteq Handlers
        BY <1>3, <1>4
      <4>3. order'[i] = h /\ i # 1
        BY <1>3, <3>1
      <4>4. Fresh(order[i])'
        BY <1>19, <4>3 DEF Fresh
      <4>5. QED
        BY <4>1, <4>2, <4>3, <4>4
    <3>2. CASE i \in 1 .. n
      <4>1. order'[i] = order[i]
        BY <1>3, <3>2
      <4>2. next[order[i]] = After(order, i) /\ previous[order[i]] = Ahead(order, i)
            /\ next[order[i]] # Null
        BY <1>4, <1>5, <1>6, <3>2, NullIsNone
      <4>3. next[order[i]] \in {After(order', i), order'[1]}
        <5>1. i = n => After(order, i) = order[1]
          BY DEF After
        <5>2. i # n + 1
          BY <1>3, <3>2
        <5>3. QED
          BY <1>12, <1>14, <4>2, <5>1, <5>2
      <4>4. i # 1 => previous[order[i]] = Ahead(order', i)
        BY <1>3, <1>14, <3>2, <4>2
      <4>5. i = 1 => /\ Len(order') > 1 /\ Returns(s, order'[Len(order')])
                     /\ previous[order'[1]] = order'[Len(order') - 1]
        <5>1. SUFFICES ASSUME i = 1
                       PROVE  /\ Len(order') > 1 /\ Returns(s, order'[Len(order')])
                              /\ previous[order'[1]] = order'[Len(order') - 1]
          OBVIOUS
        <5>2. Ahead(order, 1) = order[n]
          BY DEF Ahead
        <5>3. Len(order') - 1 = n /\ Len(order') > 1
          BY <1>3
        <5>4. QED
          BY <1>3, <1>12, <1>17, <4>2, <5>1, <5>2, <5>3
      <4>6. QED
        BY <4>1, <4>2, <4>3, <4>4, <4>5
    <3>3. QED
      BY <1>3, <3>1, <3>2
  <2>3. In(order) \subseteq In(order')
    BY <1>3
  <2>4. QED
    <3>1. /\ head' = Null => Len(order') = 0 \/ (Len(order') = 1 /\ Returns(stores', order'[1]))
          /\ head' \in In(order') => head' = order'[1]
          /\ head' \in Handlers \ In(order') =>
                Len(order') = 0 \/ previous'[head'] \in {Null, order'[Len(order')]}
      BY <1>2, <2>1, <2>3
    <3>2. UNCHANGED <<next, previous>> /\ stores' = s /\ Len(order') = n + 1
      BY <1>2, <1>3
    <3>3. QED
      BY <2>2, <3>1, <3>2 DEF LinksMeanwhile
<1>21. DueAreRegistered'
  <2>1. \A x \in search.due : x \in In(order) /\ attached[x] = search.message
    BY <1>1 DEF DueAreRegistered
  <2>2. \A x : Returns(s, x) => x = h
    BY <1>7, <1>8 DEF Returns, ReturnOf, Store
  <2>3. QED
    BY <1>2, <1>3, <2>1, <2>2 DEF DueAreRegistered
<1>22. ~search.strayed => SearchOnTheWay' /\ FrontLoaded'
  BY <1>2, RegisterKeepsSearch
<1>23. QED
  BY <1>2, <1>3, <1>10, <1>11, <1>13, <1>16, <1>18, <1>20, <1>21, <1>22 DEF HandlersInv

\* Where the jth element was before the ith was removed.
Kept(i, j) == IF j < i THEN j ELSE j + 1

\* Removing an element keeps the places of the others, in their order.
LEMMA PlacesKept ==
    ASSUME NEW n \in Nat, NEW i \in 1 .. n, NEW j \in 1 .. n - 1
    PROVE  /\ Kept(i, j) \in 1 .. n /\ Kept(i, j) # i
           /\ \A k \in 1 .. n - 1 : Kept(i, j) <= Kept(i, k) <=> j <= k
           /\ \A k \in 1 .. n : k # i => \E l \in 1 .. n - 1 : Kept(i, l) = k
<1>1. Kept(i, j) \in 1 .. n /\ Kept(i, j) # i
  BY DEF Kept
<1>2. \A k \in 1 .. n - 1 : Kept(i, j) <= Kept(i, k) <=> j <= k
  BY DEF Kept
<1>3. ASSUME NEW k \in 1 .. n, k # i PROVE \E l \in 1 .. n - 1 : Kept(i, l) = k
  <2>1. CASE k < i
    BY <2>1 DEF Kept
  <2>2. CASE k > i
    <3>1. k - 1 \in 1 .. n - 1 /\ Kept(i, k - 1) = k
      BY <2>2 DEF Kept
    <3>2. QED
      BY <3>1
  <2>3. QED
    BY <1>3, <2>1, <2>2
<1>4. QED
  BY <1>1, <1>2, <1>3

\* The order without a handler that is unregistered.
LEMMA UnregisteredOrder ==
    ASSUME HandlersTypeOK, IsInjectiveSeq(order), NEW i \in 1 .. Len(order),
           order' = RemoveAt(order, i)
    PROVE  LET n == Len(order)
               u == order[i]
               p == Ahead(order, i)
               q == After(order, i)
           IN  /\ order' \in Seq(Handlers) /\ n \in Nat /\ Len(order') = n - 1
               /\ \A j \in 1 .. n - 1 :
                     /\ order'[j] = order[Kept(i, j)] /\ Kept(i, j) \in 1 .. n /\ order'[j] # u
                     /\ After(order', j) = IF order'[j] = p THEN q ELSE After(order, Kept(i, j))
                     /\ Ahead(order', j) = IF order'[j] = q THEN p ELSE Ahead(order, Kept(i, j))
                     /\ order'[j] = p => After(order, Kept(i, j)) = u
                     /\ order'[j] = q => Ahead(order, Kept(i, j)) = u
                     /\ \A k \in 1 .. n - 1 : Kept(i, j) <= Kept(i, k) <=> j <= k
               /\ In(order') = In(order) \ {u} /\ IsInjectiveSeq(order')
               /\ n > 1 => p \in In(order') /\ q \in In(order')
               /\ n = 1 => p = u
<1> DEFINE n == Len(order)
           u == order[i]
           ahead == IF i = 1 THEN n ELSE i - 1
           after == IF i = n THEN 1 ELSE i + 1
<1>1. order \in Seq(Handlers) /\ n \in Nat
  BY LenProperties DEF HandlersTypeOK
<1>2. /\ order' \in Seq(Handlers) /\ Len(order') = n - 1
      /\ \A j \in 1 .. n - 1 : order'[j] = order[IF j < i THEN j ELSE j + 1]
  BY <1>1, RemovedAt
<1>3. ahead \in 1 .. n /\ after \in 1 .. n
  BY <1>1
<1>4. Ahead(order, i) = order[ahead] /\ After(order, i) = order[after]
  BY DEF Ahead, After
<1>5. \A a, b \in 1 .. n : order[a] = order[b] <=> a = b
  BY DEF IsInjectiveSeq
<1>6. ASSUME NEW j \in 1 .. n - 1
      PROVE  /\ order'[j] = order[Kept(i, j)] /\ Kept(i, j) \in 1 .. n /\ order'[j] # u
             /\ After(order', j) = IF order'[j] = order[ahead] THEN order[after] ELSE After(order, Kept(i, j))
             /\ Ahead(order', j) = IF order'[j] = order[after] THEN order[ahead] ELSE Ahead(order, Kept(i, j))
             /\ order'[j] = order[ahead] => After(order, Kept(i, j)) = u
             /\ order'[j] = order[after] => Ahead(order, Kept(i, j)) = u
             /\ \A k \in 1 .. n - 1 : Kept(i, j) <= Kept(i, k) <=> j <= k
  <2> DEFINE k == Kept(i, j)
             a == IF j = n - 1 THEN 1 ELSE j + 1
             b == IF j = 1 THEN n - 1 ELSE j - 1
  <2>a. n \in Nat /\ i \in 1 .. n /\ j \in 1 .. n - 1
    BY <1>1
  <2> HIDE DEF n
  <2>1. /\ k \in 1 .. n /\ k # i
        /\ Kept(i, a) = IF k = ahead THEN after ELSE IF k = n THEN 1 ELSE k + 1
        /\ Kept(i, b) = IF k = after THEN ahead ELSE IF k = 1 THEN n ELSE k - 1
        /\ \A l \in 1 .. n - 1 : k <= Kept(i, l) <=> j <= l
    <3>1. k \in 1 .. n /\ k # i
      BY <2>a, PlacesKept
    <3>2. Kept(i, a) = IF k = ahead THEN after ELSE IF k = n THEN 1 ELSE k + 1
      BY <2>a DEF Kept
    <3>3. Kept(i, b) = IF k = after THEN ahead ELSE IF k = 1 THEN n ELSE k - 1
      BY <2>a DEF Kept
    <3>4. \A l \in 1 .. n - 1 : k <= Kept(i, l) <=> j <= l
      BY <2>a, PlacesKept
    <3>5. QED
      BY <3>1, <3>2, <3>3, <3>4
  <2>2. a \in 1 .. n - 1 /\ b \in 1 .. n - 1
    BY <1>1
  <2>3. order'[j] = order[k] /\ order'[a] = order[Kept(i, a)] /\ order'[b] = order[Kept(i, b)]
    BY <1>2, <2>2 DEF Kept
  <2>4. After(order', j) = order'[a] /\ Ahead(order', j) = order'[b]
    BY <1>2 DEF After, Ahead
  <2> USE DEF n
  <2> HIDE DEF k, a, b
  <2>5. order[k] = order[ahead] <=> k = ahead
    BY <1>3, <1>5, <2>1
  <2>6. order[k] = order[after] <=> k = after
    BY <1>3, <1>5, <2>1
  <2>7. order'[j] # u
    BY <1>5, <2>1, <2>3
  <2>8. After(order', j) = IF order'[j] = order[ahead] THEN order[after] ELSE After(order, k)
    BY <2>1, <2>3, <2>4, <2>5 DEF After
  <2>9. Ahead(order', j) = IF order'[j] = order[after] THEN order[ahead] ELSE Ahead(order, k)
    BY <2>1, <2>3, <2>4, <2>6 DEF Ahead
  <2>10. order'[j] = order[ahead] => After(order, k) = u
    <3>1. k = ahead => (IF k = n THEN 1 ELSE k + 1) = i
      BY <1>1, <2>1
    <3>2. QED
      BY <2>3, <2>5, <3>1 DEF After
  <2>11. order'[j] = order[after] => Ahead(order, k) = u
    <3>1. k = after => (IF k = 1 THEN n ELSE k - 1) = i
      BY <1>1, <2>1
    <3>2. QED
      BY <2>3, <2>6, <3>1 DEF Ahead
  <2>12. QED
    BY <2>1, <2>3, <2>7, <2>8, <2>9, <2>10, <2>11 DEF k
<1>7. In(order') = In(order) \ {u}
  <2>1. ASSUME NEW x \in In(order') PROVE x \in In(order) \ {u}
    <3>1. PICK j \in 1 .. n - 1 : x = order'[j]
      BY <1>2 DEF In
    <3>2. QED
      BY <1>6, <3>1 DEF In
  <2>2. ASSUME NEW x \in In(order) \ {u} PROVE x \in In(order')
    <3>1. PICK k \in 1 .. n : x = order[k] /\ k # i
      BY DEF In
    <3>2. PICK l \in 1 .. n - 1 : Kept(i, l) = k
      <4>1. 1 \in 1 .. n - 1
        BY <1>1, <3>1
      <4>2. QED
        BY <1>1, <3>1, <4>1, PlacesKept
    <3>3. QED
      BY <1>2, <1>6, <3>1, <3>2 DEF In
  <2>3. QED
    BY <2>1, <2>2
<1>8. IsInjectiveSeq(order')
  <2>1. SUFFICES ASSUME NEW j \in 1 .. n - 1, NEW k \in 1 .. n - 1, order'[j] = order'[k]
                 PROVE  j = k
    BY <1>2 DEF IsInjectiveSeq
  <2>2. Kept(i, j) = Kept(i, k) /\ Kept(i, j) \in Int
    BY SMTT(30), <1>5, <1>6, <2>1
  <2>3. j <= k /\ k <= j
    BY <1>6, <2>2
  <2>4. QED
    BY <2>3
<1>9. n > 1 => order[ahead] \in In(order') /\ order[after] \in In(order')
  <2>1. n > 1 => ahead # i /\ after # i
    BY <1>1
  <2>2. QED
    BY <1>3, <1>5, <1>7, <2>1 DEF In
<1>10. n = 1 => order[ahead] = u
  BY <1>1
<1> HIDE DEF n, u, ahead, after
<1>11. QED
  BY <1>1, <1>2, <1>4, <1>6, <1>7, <1>8, <1>9, <1>10 DEF n, u

\* What is stored when the handler at i is unregistered.
StoresWithout(i) ==
    LET p == Ahead(order, i)
        q == After(order, i)
    IN  {Store("next", order[i], Null), Store("previous", order[i], Null),
         Store("attached", order[i], Null)}
        \cup (IF Len(order) = 1 THEN {} ELSE {Store("next", p, q), Store("previous", q, p)})
        \cup (IF i # 1 THEN {}
              ELSE {Store("head", order[i], IF Len(order) = 1 THEN Null ELSE q)})

\* What Unregister has yet to store, and to no field twice.
LEMMA UnregisterStores ==
    ASSUME HandlersTypeOK, IsInjectiveSeq(order), HeadWillBeExact, ListWillBeExact, stores = <<>>,
           NEW i \in 1 .. Len(order), Unregistered(order[i], i)
    PROVE  /\ stores' \in Seq(AllStores) /\ StoresOnce(stores')
           /\ {stores'[k] : k \in 1 .. Len(stores')} = StoresWithout(i)
<1> DEFINE u == order[i]
           p == Ahead(order, i)
           q == After(order, i)
<1>1. /\ order \in Seq(Handlers) /\ Len(order) \in Nat /\ (Len(order) = 1 \/ Len(order) > 1)
      /\ order' = RemoveAt(order, i)
  BY LenProperties DEF HandlersTypeOK, Unregistered
<1>2. head = order[1] /\ next[u] = q /\ previous[u] = p
  BY <1>1, ExactAtRest DEF Foremost
<1>3. u \in Handlers /\ p \in Handlers /\ q \in Handlers
  BY <1>1, NeighboursAreIn
<1>4. /\ Len(order) > 1 => p # u /\ q # u
      /\ Len(order) = 1 => p = u
  <2>1. u \notin In(order')
    BY <1>1, UnregisteredOrder
  <2>2. QED
    BY <1>1, <2>1, UnregisteredOrder
<1>5. head = u <=> i = 1
  <2>1. 1 \in 1 .. Len(order)
    BY <1>1
  <2>2. QED
    BY <1>2, <2>1 DEF IsInjectiveSeq
<1>6. stores' = Unlink(u) \o <<Store("next", u, Null), Store("previous", u, Null)>>
                \o <<Store("attached", u, Null)>>
  BY DEF Unregistered, ClearLinks
<1>7. /\ Store("next", u, Null) \in AllStores /\ Store("previous", u, Null) \in AllStores
      /\ Store("attached", u, Null) \in AllStores /\ Store("head", u, Null) \in AllStores
      /\ Store("next", p, q) \in AllStores /\ Store("previous", q, p) \in AllStores
      /\ Store("head", u, q) \in AllStores
  BY <1>3, StoreType DEF Links
<1> HIDE DEF u, p, q
<1>8. CASE Len(order) = 1
  <2> DEFINE s == <<Store("head", u, Null), Store("next", u, Null), Store("previous", u, Null),
                    Store("attached", u, Null)>>
  <2>1. Unlink(u) = <<Store("head", u, Null)>>
    BY <1>2, <1>4, <1>8 DEF Unlink
  <2>2. stores' = s
    BY <1>6, <2>1, FourStores
  <2>3. /\ s \in Seq(AllStores) /\ Len(s) = 4 /\ 1 .. 4 = {1, 2, 3, 4}
        /\ s[1] = Store("head", u, Null) /\ s[2] = Store("next", u, Null)
        /\ s[3] = Store("previous", u, Null) /\ s[4] = Store("attached", u, Null)
    BY <1>7
  <2> HIDE DEF s
  <2>4. s[1].field = "head" /\ s[2].field = "next" /\ s[3].field = "previous" /\ s[4].field = "attached"
    BY <2>3 DEF Store
  <2>5. StoresOnce(s)
    BY <2>3, <2>4 DEF StoresOnce
  <2>6. {s[k] : k \in 1 .. Len(s)} = {s[1], s[2], s[3], s[4]}
    BY <2>3
  <2>7. i = 1
    BY <1>8
  <2>8. QED
    BY <1>8, <2>2, <2>3, <2>5, <2>6, <2>7 DEF StoresWithout, u
<1>9. CASE Len(order) # 1 /\ i = 1
  <2>1. Len(order) > 1
    BY <1>1, <1>9
  <2> DEFINE s == <<Store("head", u, q), Store("previous", q, p), Store("next", p, q),
                    Store("next", u, Null), Store("previous", u, Null), Store("attached", u, Null)>>
  <2>2. Unlink(u) = <<Store("head", u, q)>> \o <<Store("previous", q, p), Store("next", p, q)>>
    BY <1>2, <1>4, <1>5, <1>9, <2>1 DEF Unlink
  <2>3. stores' = TwoBetween(Store("head", u, q), Store("previous", q, p), Store("next", p, q),
                             Store("next", u, Null), Store("previous", u, Null),
                             Store("attached", u, Null))
    BY <1>6, <2>2 DEF TwoBetween
  <2>4. stores' = s
    BY <2>3, SixStores
  <2>5. /\ s \in Seq(AllStores) /\ Len(s) = 6 /\ 1 .. 6 = {1, 2, 3, 4, 5, 6}
        /\ s[1] = Store("head", u, q) /\ s[2] = Store("previous", q, p)
        /\ s[3] = Store("next", p, q) /\ s[4] = Store("next", u, Null)
        /\ s[5] = Store("previous", u, Null) /\ s[6] = Store("attached", u, Null)
    BY <1>7
  <2> HIDE DEF s
  <2>6. /\ s[1].field = "head" /\ s[2].field = "previous" /\ s[3].field = "next"
        /\ s[4].field = "next" /\ s[5].field = "previous" /\ s[6].field = "attached"
        /\ s[2].of = q /\ s[3].of = p /\ s[4].of = u /\ s[5].of = u
    BY <2>5 DEF Store
  <2>7. StoresOnce(s)
    BY <1>4, <2>1, <2>5, <2>6 DEF StoresOnce
  <2>8. {s[k] : k \in 1 .. Len(s)} = {s[1], s[2], s[3], s[4], s[5], s[6]}
    BY <2>5
  <2>9. QED
    BY <1>9, <2>4, <2>5, <2>7, <2>8 DEF StoresWithout, u, p, q
<1>10. CASE Len(order) # 1 /\ i # 1
  <2> DEFINE s == <<Store("previous", q, p), Store("next", p, q),
                    Store("next", u, Null), Store("previous", u, Null), Store("attached", u, Null)>>
  <2>1. Len(order) > 1
    BY <1>1, <1>10
  <2>2. Unlink(u) = <<>> \o <<Store("previous", q, p), Store("next", p, q)>>
    BY <1>2, <1>4, <1>5, <1>10, <2>1 DEF Unlink
  <2>3. stores' = TwoBeforeTwo(Store("previous", q, p), Store("next", p, q), Store("next", u, Null),
                               Store("previous", u, Null), Store("attached", u, Null))
    BY <1>6, <2>2 DEF TwoBeforeTwo
  <2>4. stores' = s
    BY <2>3, FiveStores
  <2>5. /\ s \in Seq(AllStores) /\ Len(s) = 5 /\ 1 .. 5 = {1, 2, 3, 4, 5}
        /\ s[1] = Store("previous", q, p)
        /\ s[2] = Store("next", p, q) /\ s[3] = Store("next", u, Null)
        /\ s[4] = Store("previous", u, Null) /\ s[5] = Store("attached", u, Null)
    BY <1>7
  <2> HIDE DEF s
  <2>6. /\ s[1].field = "previous" /\ s[2].field = "next"
        /\ s[3].field = "next" /\ s[4].field = "previous" /\ s[5].field = "attached"
        /\ s[1].of = q /\ s[2].of = p /\ s[3].of = u /\ s[4].of = u
    BY <2>5 DEF Store
  <2>7. StoresOnce(s)
    BY <1>4, <2>1, <2>5, <2>6 DEF StoresOnce
  <2>8. {s[k] : k \in 1 .. Len(s)} = {s[1], s[2], s[3], s[4], s[5]}
    BY <2>5
  <2>9. QED
    BY <1>10, <2>4, <2>5, <2>7, <2>8 DEF StoresWithout, u, p, q
<1>11. QED
  BY <1>8, <1>9, <1>10

\* What is known when the handler at i is unregistered, in one place.
LEMMA UnregisterDoes ==
    ASSUME HandlersInv, NEW message \in Messages, Unregister(message)
    PROVE  \E i \in 1 .. Len(order) :
              /\ Unregistered(order[i], i) /\ order' = RemoveAt(order, i)
              /\ stores = <<>> /\ UNCHANGED <<head, next, previous, attached>>
              /\ search' = [search EXCEPT !.due = @ \ {order[i]},
                                          !.strayed = @ \/ search.at = order[i]]
BY DEF Unregister, Unregistered

\* The list will be that without the handler unregistered.
LEMMA UnregisterKeepsEnd ==
    ASSUME HandlersInv, NEW i \in 1 .. Len(order), Unregistered(order[i], i),
           stores = <<>>, UNCHANGED <<head, next, previous, attached>>
    PROVE  HeadWillBeExact' /\ ListWillBeExact' /\ RegisterReturns'
<1>1. /\ HandlersTypeOK /\ IsInjectiveSeq(order) /\ HeadWillBeExact /\ ListWillBeExact
      /\ order' = RemoveAt(order, i)
  BY DEF HandlersInv, Unregistered
<1> DEFINE n == Len(order)
           u == order[i]
           p == Ahead(order, i)
           q == After(order, i)
<1>2. /\ order' \in Seq(Handlers) /\ n \in Nat /\ Len(order') = n - 1
      /\ In(order') = In(order) \ {u}
      /\ n > 1 => p \in In(order') /\ q \in In(order')
      /\ \A j \in 1 .. n - 1 :
            /\ order'[j] = order[Kept(i, j)] /\ Kept(i, j) \in 1 .. n /\ order'[j] # u
            /\ After(order', j) = IF order'[j] = p THEN q ELSE After(order, Kept(i, j))
            /\ Ahead(order', j) = IF order'[j] = q THEN p ELSE Ahead(order, Kept(i, j))
  BY <1>1, UnregisteredOrder
<1>3. /\ head = Foremost(order)
      /\ \A j \in 1 .. n : next[order[j]] = After(order, j) /\ previous[order[j]] = Ahead(order, j)
      /\ \A x \in Handlers \ In(order) : next[x] = Null /\ previous[x] = Null /\ attached[x] = Null
  BY <1>1, ExactAtRest
<1>4. /\ stores' \in Seq(AllStores)
      /\ {stores'[k] : k \in 1 .. Len(stores')} = StoresWithout(i)
  BY <1>1, UnregisterStores
<1>5. u \in In(order) /\ In(order) \subseteq Handlers
  BY <1>1, NeighboursAreIn DEF HandlersTypeOK
<1> DEFINE W == StoresWithout(i)
<1>6. W = {Store("next", u, Null), Store("previous", u, Null), Store("attached", u, Null)}
          \cup (IF n = 1 THEN {} ELSE {Store("next", p, q), Store("previous", q, p)})
          \cup (IF i # 1 THEN {} ELSE {Store("head", u, IF n = 1 THEN Null ELSE q)})
  BY DEF StoresWithout
<1>7. /\ \A k \in 1 .. Len(stores') : stores'[k] \in W
      /\ \A x \in W : \E k \in 1 .. Len(stores') : stores'[k] = x
  BY <1>4
<1> HIDE DEF n, u, p, q, W
<1>8. /\ \A x \in W : /\ x.field \in {"next", "previous", "attached", "head"}
                      /\ x.field = "next" => x.of = u \/ (n # 1 /\ x.of = p)
                      /\ x.field = "previous" => x.of = u \/ (n # 1 /\ x.of = q)
                      /\ x.field = "attached" => x.of = u
                      /\ x.field = "head" => i = 1
  BY <1>6 DEF Store
<1>9. n > 1 \/ n = 1
  BY <1>2 DEF n
<1>10. HeadWillBeExact'
  <2>1. CASE i = 1
    <3>1. Foremost(order') = IF n = 1 THEN Null ELSE q
      <4>1. n = 1 => Len(order') = 0
        BY <1>2
      <4>2. n > 1 => order'[1] = q /\ Len(order') # 0
        <5>1. SUFFICES ASSUME n > 1 PROVE order'[1] = q /\ Len(order') # 0
          OBVIOUS
        <5>2. Len(order') # 0 /\ 1 \in 1 .. n - 1
          BY <1>2, <5>1
        <5>3. Kept(1, 1) = 2
          BY DEF Kept
        <5>4. order'[1] = order[2]
          BY <1>2, <2>1, <5>2, <5>3
        <5>5. After(order, 1) = order[2]
          BY <5>1 DEF After, n
        <5>6. QED
          BY <2>1, <5>2, <5>4, <5>5 DEF q
      <4>3. QED
        BY <1>9, <4>1, <4>2 DEF Foremost
    <3>2. Store("head", u, Foremost(order')) \in W
      BY <1>6, <2>1, <3>1
    <3>3. PICK k \in 1 .. Len(stores') : stores'[k] = Store("head", u, Foremost(order'))
      BY <1>7, <3>2
    <3>4. stores'[k].field = "head" /\ stores'[k].value = Foremost(order')
      BY <3>3 DEF Store
    <3>5. QED
      BY <3>4 DEF HeadWillBeExact
  <2>2. CASE i # 1
    <3>1. Foremost(order') = Foremost(order)
      <4>1. i \in 1 .. n /\ n > 1
        BY <1>2, <2>2 DEF n
      <4>2. 1 \in 1 .. n - 1 /\ Kept(i, 1) = 1 /\ Len(order') # 0 /\ n # 0
        BY <1>2, <2>2, <4>1 DEF Kept
      <4>3. order'[1] = order[1]
        BY <1>2, <4>2
      <4>4. QED
        BY <4>2, <4>3 DEF Foremost, n
    <3>2. \A k \in 1 .. Len(stores') : stores'[k].field # "head"
      BY <1>7, <1>8, <2>2
    <3>3. QED
      BY <1>3, <3>1, <3>2 DEF HeadWillBeExact
  <2>3. QED
    BY <2>1, <2>2
<1>11. ListWillBeExact'
  <2>1. ASSUME NEW j \in 1 .. n - 1
        PROVE  /\ WillBe(next, stores', "next", order'[j], After(order', j))
               /\ WillBe(previous, stores', "previous", order'[j], Ahead(order', j))
    <3>1. n > 1 /\ order'[j] # u
      BY <1>2, <2>1
    <3>2. ASSUME order'[j] = p
          PROVE WillBe(next, stores', "next", order'[j], After(order', j))
      <4>1. Store("next", p, q) \in W
        BY <1>6, <3>1
      <4>2. \E k \in 1 .. Len(stores') : stores'[k] = Store("next", order'[j], After(order', j))
        BY <1>2, <1>7, <2>1, <3>2, <4>1
      <4>3. QED
        BY <4>2 DEF WillBe
    <3>3. ASSUME order'[j] # p
          PROVE WillBe(next, stores', "next", order'[j], After(order', j))
      <4>1. ~StoresTo(stores', "next", order'[j])
        BY <1>7, <1>8, <3>1, <3>3 DEF StoresTo
      <4>2. next[order'[j]] = After(order', j)
        BY <1>2, <1>3, <2>1, <3>3
      <4>3. QED
        BY <4>1, <4>2 DEF WillBe
    <3>4. ASSUME order'[j] = q
          PROVE WillBe(previous, stores', "previous", order'[j], Ahead(order', j))
      <4>1. Store("previous", q, p) \in W
        BY <1>6, <3>1
      <4>2. \E k \in 1 .. Len(stores') : stores'[k] = Store("previous", order'[j], Ahead(order', j))
        BY <1>2, <1>7, <2>1, <3>4, <4>1
      <4>3. QED
        BY <4>2 DEF WillBe
    <3>5. ASSUME order'[j] # q
          PROVE WillBe(previous, stores', "previous", order'[j], Ahead(order', j))
      <4>1. ~StoresTo(stores', "previous", order'[j])
        BY <1>7, <1>8, <3>1, <3>5 DEF StoresTo
      <4>2. previous[order'[j]] = Ahead(order', j)
        BY <1>2, <1>3, <2>1, <3>5
      <4>3. QED
        BY <4>1, <4>2 DEF WillBe
    <3>6. QED
      BY <3>2, <3>3, <3>4, <3>5
  <2>2. ASSUME NEW x \in Handlers \ In(order')
        PROVE  /\ WillBe(next, stores', "next", x, Null)
               /\ WillBe(previous, stores', "previous", x, Null)
               /\ WillBe(attached, stores', "attached", x, Null)
    <3>1. CASE x = u
      <4>1. Store("next", u, Null) \in W /\ Store("previous", u, Null) \in W
            /\ Store("attached", u, Null) \in W
        BY <1>6
      <4>2. QED
        BY <1>7, <3>1, <4>1 DEF WillBe
    <3>2. CASE x # u
      <4>1. x \notin In(order)
        BY <1>2, <3>2 DEF u
      <4>2. n # 1 => x # p /\ x # q
        BY <1>2, <1>9, <2>2
      <4>3. /\ ~StoresTo(stores', "next", x) /\ ~StoresTo(stores', "previous", x)
            /\ ~StoresTo(stores', "attached", x)
        BY <1>7, <1>8, <3>2, <4>2 DEF StoresTo
      <4>4. QED
        BY <1>3, <4>1, <4>3 DEF WillBe
    <3>3. QED
      BY <3>1, <3>2
  <2>3. QED
    BY <1>2, <2>1, <2>2 DEF ListWillBeExact
<1>12. RegisterReturns'
  <2>1. u \notin In(order')
    BY <1>2
  <2>2. QED
    BY <1>7, <1>8, <2>1 DEF RegisterReturns
<1>13. QED
  BY <1>10, <1>11, <1>12

\* The links and the search do without the handler unregistered.
LEMMA UnregisterKeepsLinks ==
    ASSUME HandlersInv, NEW i \in 1 .. Len(order), Unregistered(order[i], i),
           stores = <<>>, UNCHANGED <<head, next, previous, attached>>
    PROVE  LinksMeanwhile'
<1>1. /\ HandlersTypeOK /\ IsInjectiveSeq(order) /\ HeadWillBeExact /\ ListWillBeExact
      /\ order' = RemoveAt(order, i)
  BY DEF HandlersInv, Unregistered
<1> DEFINE n == Len(order)
           u == order[i]
           p == Ahead(order, i)
           q == After(order, i)
<1>2. /\ order' \in Seq(Handlers) /\ n \in Nat /\ Len(order') = n - 1
      /\ In(order') = In(order) \ {u}
      /\ \A j \in 1 .. n - 1 :
            /\ order'[j] = order[Kept(i, j)] /\ Kept(i, j) \in 1 .. n
            /\ After(order', j) = IF order'[j] = p THEN q ELSE After(order, Kept(i, j))
            /\ Ahead(order', j) = IF order'[j] = q THEN p ELSE Ahead(order, Kept(i, j))
            /\ order'[j] = p => After(order, Kept(i, j)) = u
            /\ order'[j] = q => Ahead(order, Kept(i, j)) = u
  BY <1>1, UnregisteredOrder
<1>3. /\ head = order[1]
      /\ \A j \in 1 .. n : next[order[j]] = After(order, j) /\ previous[order[j]] = Ahead(order, j)
  BY <1>1, <1>2, ExactAtRest DEF Foremost
<1>4. \A j \in 1 .. n : /\ order[j] \in In(order) /\ In(order) \subseteq Handlers
                        /\ After(order, j) \in In(order) /\ 1 \in 1 .. n
  BY <1>1, <1>2, NeighboursAreIn DEF HandlersTypeOK
<1> HIDE DEF u, p, q
<1>5. head' \in Handlers /\ head' # Null
  BY <1>3, <1>4, NullIsNone
<1>6. head' \in In(order') => head' = order'[1]
  <2>1. SUFFICES ASSUME head \in In(order') PROVE order[1] = order'[1]
    BY <1>3
  <2>2. i # 1
    BY <1>2, <1>3, <2>1 DEF u
  <2>3. 1 \in 1 .. n - 1 /\ Kept(i, 1) = 1
    BY <1>2, <2>2 DEF Kept
  <2>4. QED
    BY <1>2, <2>3
<1>7. head' \in Handlers \ In(order') =>
         Len(order') = 0 \/ previous'[head'] \in {Null, order'[Len(order')]}
  <2>1. SUFFICES ASSUME head \notin In(order'), n - 1 # 0
                 PROVE  previous[head] = order'[n - 1]
    BY <1>2
  <2>2. i = 1
    <3>1. head = u
      BY <1>2, <1>3, <1>4, <2>1
    <3>2. QED
      BY <1>1, <1>3, <1>4, <3>1 DEF IsInjectiveSeq, u
  <2>3. n - 1 \in 1 .. n - 1 /\ Kept(i, n - 1) = n
    BY <1>2, <2>1, <2>2 DEF Kept
  <2>4. previous[head] = order[n]
    BY <1>3, <1>4 DEF Ahead
  <2>5. QED
    BY <1>2, <2>3, <2>4
<1>8. ASSUME NEW j \in 1 .. n - 1
      PROVE  /\ next[order'[j]] # Null
             /\ next[order'[j]] \in In(order') => next[order'[j]] = After(order', j)
             /\ previous[order'[j]] \in In(order') => previous[order'[j]] = Ahead(order', j)
  <2>1. /\ next[order'[j]] = After(order, Kept(i, j)) /\ previous[order'[j]] = Ahead(order, Kept(i, j))
        /\ next[order'[j]] \in Handlers
    BY <1>2, <1>3, <1>4
  <2>2. u \notin In(order')
    BY <1>2
  <2>3. QED
    BY <1>2, <2>1, <2>2, NullIsNone
<1>9. QED
  BY <1>2, <1>5, <1>6, <1>7, <1>8 DEF LinksMeanwhile

\* Unregistering a handler moves no other one past the search.
LEMMA UnregisterKeepsSearch ==
    ASSUME HandlersInv, NEW i \in 1 .. Len(order), order' = RemoveAt(order, i),
           stores = <<>>, UNCHANGED <<head, next, previous, attached>>,
           search' = [search EXCEPT !.due = @ \ {order[i]},
                                    !.strayed = @ \/ search.at = order[i]],
           ~search'.strayed
    PROVE  SearchOnTheWay' /\ FrontLoaded'
<1> DEFINE n == Len(order)
           u == order[i]
<1>1. /\ HandlersTypeOK /\ IsInjectiveSeq(order) /\ HeadWillBeExact /\ ListWillBeExact
      /\ DueAreRegistered
  BY DEF HandlersInv
<1>2. /\ search'.due = search.due \ {u} /\ search'.place = search.place /\ search'.at = search.at
      /\ search'.front = search.front /\ ~search.strayed /\ search.at # u
  BY <1>1 DEF HandlersTypeOK
<1>3. SearchOnTheWay /\ FrontLoaded
  BY <1>2 DEF HandlersInv
<1>4. /\ order' \in Seq(Handlers) /\ n \in Nat /\ Len(order') = n - 1
      /\ In(order') = In(order) \ {u}
      /\ \A j \in 1 .. n - 1 :
            /\ order'[j] = order[Kept(i, j)] /\ Kept(i, j) \in 1 .. n
            /\ \A k \in 1 .. n - 1 : Kept(i, j) <= Kept(i, k) <=> j <= k
  BY <1>1, UnregisteredOrder
<1>5. /\ \A j \in 1 .. n : previous[order[j]] = Ahead(order, j)
      /\ \A x \in Handlers \ In(order) : previous[x] = Null
  BY <1>1, ExactAtRest
<1>6. ASSUME NEW x
      PROVE  /\ DueIsFrom(x) =>
                    \A j, k \in 1 .. n - 1 : order'[j] = x /\ order'[k] \in search'.due => k >= j
             /\ DueIsAfter(x) =>
                    \A j, k \in 1 .. n - 1 : order'[j] = x /\ order'[k] \in search'.due => k > j
             /\ DueIsBefore(x) =>
                    \A j, k \in 1 .. n - 1 : order'[j] = x /\ order'[k] \in search'.due => k < j
  <2>1. ASSUME NEW j \in 1 .. n - 1, NEW k \in 1 .. n - 1
        PROVE  /\ Kept(i, j) <= Kept(i, k) <=> j <= k
               /\ Kept(i, j) < Kept(i, k) <=> j < k
    <3>1. Kept(i, j) \in 1 .. n /\ Kept(i, k) \in 1 .. n
      BY <1>4
    <3>2. (Kept(i, j) <= Kept(i, k) <=> j <= k) /\ (Kept(i, k) <= Kept(i, j) <=> k <= j)
      BY <1>4
    <3>3. QED
      BY <3>1, <3>2
  <2>2. DueIsFrom(x) =>
           \A j, k \in 1 .. n - 1 : order'[j] = x /\ order'[k] \in search'.due => k >= j
    BY <1>2, <1>4, <2>1 DEF DueIsFrom
  <2>3. DueIsAfter(x) =>
           \A j, k \in 1 .. n - 1 : order'[j] = x /\ order'[k] \in search'.due => k > j
    BY <1>2, <1>4, <2>1 DEF DueIsAfter
  <2>4. DueIsBefore(x) =>
           \A j, k \in 1 .. n - 1 : order'[j] = x /\ order'[k] \in search'.due => k < j
    BY <1>2, <1>4, <2>1 DEF DueIsBefore
  <2>5. QED
    BY <2>2, <2>3, <2>4
<1>7. SearchOnTheWay'
  <2>1. DueIsFrom(search.at) => DueIsFrom(search.at)'
    BY <1>2, <1>4, <1>6 DEF DueIsFrom
  <2>2. DueIsAfter(search.at) => DueIsAfter(search.at)'
    BY <1>2, <1>4, <1>6 DEF DueIsAfter
  <2>3. search.at # Null => search.at \in In(order')
    BY <1>2, <1>3, <1>4 DEF SearchOnTheWay
  <2>4. QED
    BY <1>2, <1>3, <2>1, <2>2, <2>3 DEF SearchOnTheWay
<1>8. FrontLoaded'
  <2>1. SUFFICES ASSUME search.place = "back"
                 PROVE  /\ search.front \in Handlers
                        /\ search.front \in In(order') =>
                              search.front = order'[1] \/ DueIsBefore(search.front)'
                        /\ search.front \notin In(order') =>
                              \A j, k \in 1 .. n - 1 :
                                 order'[j] = previous[search.front] /\ order'[k] \in search'.due => k <= j
    BY <1>2, <1>4 DEF FrontLoaded, DueIsBefore, DueIsUpTo
  <2>2. /\ search.front \in Handlers
        /\ search.front \in In(order) => search.front = order[1] \/ DueIsBefore(search.front)
    BY <1>3, <2>1 DEF FrontLoaded
  <2>3. CASE search.front \in In(order')
    <3>1. search.front \in In(order) /\ search.front # u
      BY <1>4, <2>3
    <3>2. search.front = order[1] => search.front = order'[1]
      <4>1. SUFFICES ASSUME search.front = order[1] PROVE order[1] = order'[1]
        OBVIOUS
      <4>2. i # 1
        BY <3>1, <4>1
      <4>3. 1 \in 1 .. n - 1 /\ Kept(i, 1) = 1
        BY <1>4, <4>2 DEF Kept
      <4>4. QED
        BY <1>4, <4>3
    <3>3. QED
      BY <1>2, <1>4, <1>6, <2>2, <2>3, <3>1, <3>2 DEF DueIsBefore
  <2>4. CASE search.front = u
    <3>1. SUFFICES ASSUME NEW j \in 1 .. n - 1, NEW k \in 1 .. n - 1,
                          order'[j] = Ahead(order, i), order'[k] \in search'.due
                   PROVE  k <= j
      BY <1>4, <1>5, <2>2, <2>4
    <3>2. Kept(i, j) \in 1 .. n /\ Kept(i, k) \in 1 .. n
      BY <1>4
    <3>3. Kept(i, j) = IF i = 1 THEN n ELSE i - 1
      <4>1. (IF i = 1 THEN n ELSE i - 1) \in 1 .. n
        BY <1>4
      <4>2. order[Kept(i, j)] = order[IF i = 1 THEN n ELSE i - 1]
        BY <1>4, <3>1 DEF Ahead
      <4>3. QED
        BY <1>1, <3>2, <4>1, <4>2 DEF IsInjectiveSeq
    <3>4. CASE i = 1
      BY <1>4, <3>2, <3>3, <3>4
    <3>5. CASE i # 1
      <4>1. 1 \in 1 .. n /\ u # order[1] /\ u \in In(order)
        BY <1>1, <1>4, <3>5 DEF IsInjectiveSeq, In
      <4>2. DueIsBefore(u)
        BY <2>2, <2>4, <4>1
      <4>3. Kept(i, k) < i
        BY <1>2, <1>4, <3>1, <4>2 DEF DueIsBefore
      <4>4. Kept(i, k) <= Kept(i, j)
        BY <3>2, <3>3, <3>5, <4>3
      <4>5. QED
        BY <1>4, <4>4
    <3>6. QED
      BY <3>4, <3>5
  <2>5. CASE search.front \notin In(order') /\ search.front # u
    <3>1. previous[search.front] = Null
      BY <1>4, <1>5, <2>2, <2>5
    <3>2. \A j \in 1 .. n - 1 : order'[j] # Null
      BY <1>4, NullIsNone, ElementOfSeq
    <3>3. QED
      BY <2>2, <2>5, <3>1, <3>2
  <2>6. QED
    BY <2>3, <2>4, <2>5
<1>9. QED
  BY <1>7, <1>8

\* Unregistering a handler keeps the invariant.
LEMMA UnregisterKeeps ==
    ASSUME HandlersInv, NEW message \in Messages, Unregister(message)
    PROVE  HandlersInv'
<1>1. PICK i \in 1 .. Len(order) :
         /\ Unregistered(order[i], i) /\ order' = RemoveAt(order, i)
         /\ stores = <<>> /\ UNCHANGED <<head, next, previous, attached>>
         /\ search' = [search EXCEPT !.due = @ \ {order[i]},
                                     !.strayed = @ \/ search.at = order[i]]
  BY UnregisterDoes
<1>2. /\ HandlersTypeOK /\ IsInjectiveSeq(order) /\ HeadWillBeExact /\ ListWillBeExact
      /\ DueAreRegistered
  BY DEF HandlersInv
<1>3. HeadWillBeExact' /\ ListWillBeExact' /\ RegisterReturns' /\ LinksMeanwhile'
  BY <1>1, UnregisterKeepsEnd, UnregisterKeepsLinks
<1>4. ~search'.strayed => SearchOnTheWay' /\ FrontLoaded'
  BY <1>1, UnregisterKeepsSearch
<1>5. /\ stores' \in Seq(AllStores) /\ StoresOnce(stores')
      /\ {stores'[k] : k \in 1 .. Len(stores')} = StoresWithout(i)
  BY <1>1, <1>2, UnregisterStores
<1>6. order' \in Seq(Handlers) /\ IsInjectiveSeq(order') /\ In(order') = In(order) \ {order[i]}
  BY <1>1, <1>2, UnregisteredOrder
<1>7. HandlersTypeOK'
  BY <1>1, <1>2, <1>5, <1>6 DEF HandlersTypeOK
<1>8. DueAreRegistered'
  <2>1. SUFFICES ASSUME NEW h \in search.due, h # order[i]
                 PROVE  h \in In(order') /\ attached[h] = search.message /\ ~Returns(stores', h)
    BY <1>1, <1>2 DEF DueAreRegistered, HandlersTypeOK
  <2>2. h \in In(order) /\ attached[h] = search.message
    BY <1>2 DEF DueAreRegistered
  <2>3. ~Returns(stores', h)
    <3>1. SUFFICES ASSUME Returns(stores', h) PROVE FALSE
      OBVIOUS
    <3>2. stores' # <<>> /\ stores'[Len(stores')] = ReturnOf(h)
      BY <3>1 DEF Returns
    <3>3. Len(stores') \in 1 .. Len(stores')
      BY <1>5, <3>2, EmptySeq, LenProperties
    <3>4. ReturnOf(h) \in StoresWithout(i)
      BY <1>5, <3>2, <3>3
    <3>5. \A x \in StoresWithout(i) : x.field # "return"
      BY DEF StoresWithout, Store
    <3>6. QED
      BY <3>4, <3>5 DEF ReturnOf, Store
  <2>4. QED
    BY <1>6, <2>1, <2>2, <2>3
<1>9. QED
  BY <1>3, <1>4, <1>5, <1>6, <1>7, <1>8 DEF HandlersInv

\* The type of what is known of a search.
Searches ==
    [place : {"idle", "front", "look", "found", "head", "back", "next", "nothing"},
     message : Messages \cup {Null}, at : Links, front : Links,
     due : SUBSET Handlers, strayed : BOOLEAN]

\* A step of the search keeps the list, if it does not come to a handler nothing
\* leads to without having strayed.
LEMMA SearchKeepsRest ==
    ASSUME HandlersInv, UNCHANGED <<head, next, previous, attached, stores, order>>,
           search' \in Searches,
           search'.place \in {"look", "head", "back", "next"} => search'.at # Null,
           \A h \in search'.due :
              h \in In(order) /\ attached[h] = search'.message /\ ~Returns(stores, h),
           \A h \in Handlers : Fresh(h) /\ search'.at = h => search'.strayed,
           ~search'.strayed => SearchOnTheWay' /\ FrontLoaded'
    PROVE  HandlersInv'
<1>1. /\ HandlersTypeOK /\ IsInjectiveSeq(order) /\ StoresOnce(stores)
      /\ HeadWillBeExact /\ ListWillBeExact /\ RegisterReturns /\ LinksMeanwhile
  BY DEF HandlersInv
<1>2. HandlersTypeOK'
  BY <1>1 DEF HandlersTypeOK, Searches
<1>3. HeadWillBeExact' /\ ListWillBeExact' /\ RegisterReturns'
  BY <1>1 DEF HeadWillBeExact, ListWillBeExact, RegisterReturns
<1>4. LinksMeanwhile'
  <2>1. \A j \in 1 .. Len(order) : order[j] \in Handlers
    BY <1>1, ElementOfSeq DEF HandlersTypeOK
  <2>2. ASSUME NEW j \in 1 .. Len(order), Fresh(order[j]) PROVE Fresh(order[j])'
    BY <2>1, <2>2 DEF Fresh
  <2>3. QED
    BY <1>1, <2>2 DEF LinksMeanwhile
<1>5. DueAreRegistered'
  BY DEF DueAreRegistered
<1>6. QED
  BY <1>1, <1>2, <1>3, <1>4, <1>5 DEF HandlersInv

\* A search that goes to a handler where it has passed none that must be found, or
\* ends with none to be found, keeps the invariant.
LEMMA GoToKeeps ==
    ASSUME HandlersInv, UNCHANGED <<head, next, previous, attached, stores, order>>,
           NEW h \in Links, GoTo(h),
           ~search.strayed /\ h = Null => search.due = {},
           ~search.strayed /\ h \in In(order) => DueIsFrom(h),
           h \in Handlers /\ Fresh(h) => search.strayed
    PROVE  HandlersInv'
<1>1. HandlersTypeOK /\ DueAreRegistered
  BY DEF HandlersInv
<1>2. Range(order) = In(order) /\ In(order) \subseteq Handlers
  BY <1>1, RangeIsIn DEF HandlersTypeOK
<1>3. /\ search'.place = IF h = Null THEN "nothing" ELSE "look"
      /\ search'.at = h /\ search'.due = search.due /\ search'.message = search.message
      /\ search'.strayed <=> search.strayed \/ (h # Null /\ h \notin In(order))
      /\ search' \in Searches
  BY <1>1, <1>2 DEF GoTo, HandlersTypeOK, Searches
<1>4. \A x \in search'.due :
         x \in In(order) /\ attached[x] = search'.message /\ ~Returns(stores, x)
  BY <1>1, <1>3 DEF DueAreRegistered
<1>5. \A x \in Handlers : Fresh(x) /\ search'.at = x => search'.strayed
  BY <1>3
<1>6. ASSUME ~search'.strayed PROVE SearchOnTheWay' /\ FrontLoaded'
  <2>1. ~search.strayed /\ (h = Null \/ h \in In(order))
    BY <1>3, <1>6
  <2>2. FrontLoaded'
    BY <1>3 DEF FrontLoaded
  <2>3. h \in In(order) => DueIsFrom(search.at)'
    BY <1>3, <2>1 DEF DueIsFrom
  <2>4. SearchOnTheWay'
    BY <1>2, <1>3, <2>1, <2>3, NullIsNone DEF SearchOnTheWay
  <2>5. QED
    BY <2>2, <2>4
<1>7. QED
  BY <1>3, <1>4, <1>5, <1>6, SearchKeepsRest

\* Before the list has a front no handler must be found.
LEMMA NoneDueWithoutFront ==
    ASSUME HandlersInv, head = Null
    PROVE  search.due = {}
<1>1. HandlersTypeOK /\ LinksMeanwhile /\ DueAreRegistered
  BY DEF HandlersInv
<1>2. Len(order) = 0 \/ (Len(order) = 1 /\ Returns(stores, order[1]))
  BY <1>1 DEF LinksMeanwhile
<1>3. \A x \in In(order) : Returns(stores, x)
  BY <1>2 DEF In
<1>4. QED
  BY <1>1, <1>3 DEF DueAreRegistered

\* All that must be found comes after the first of the order, or at it.
LEMMA DueIsFromFirst ==
    ASSUME HandlersInv, Len(order) > 0
    PROVE  DueIsFrom(order[1])
<1>1. IsInjectiveSeq(order) /\ Len(order) \in Nat
  BY LenProperties DEF HandlersInv, HandlersTypeOK
<1>2. \A i \in 1 .. Len(order) : order[i] = order[1] => i = 1
  BY <1>1 DEF IsInjectiveSeq
<1>3. QED
  BY <1>1, <1>2 DEF DueIsFrom

\* A search begins with all that is due ahead of it.
LEMMA ReceiveKeeps ==
    ASSUME HandlersInv, NEW message \in Messages, ReceiveNotification(message)
    PROVE  HandlersInv'
<1>1. HandlersTypeOK /\ (~search.strayed => SearchOnTheWay)
  BY DEF HandlersInv
<1>2. /\ Range(order) = In(order) /\ In(order) \subseteq Handlers
      /\ Range(stores) = {stores[k] : k \in 1 .. Len(stores)}
  BY <1>1, RangeIsIn DEF HandlersTypeOK, In
<1>3. /\ search.place = "idle" /\ search'.place = "front" /\ search'.message = message
      /\ search'.at = search.at /\ search'.strayed = search.strayed
      /\ search'.due = {h \in In(order) : attached[h] = message /\ ReturnOf(h) \notin Range(stores)}
      /\ UNCHANGED <<head, next, previous, attached, stores, order>>
      /\ search' \in Searches
  BY <1>1, <1>2 DEF ReceiveNotification, HandlersTypeOK, Searches
<1>4. ASSUME NEW h, ReturnOf(h) \notin Range(stores) PROVE ~Returns(stores, h)
  <2>1. SUFFICES ASSUME stores # <<>> PROVE stores[Len(stores)] # ReturnOf(h)
    BY DEF Returns
  <2>2. Len(stores) \in 1 .. Len(stores)
    BY <1>1, <2>1, EmptySeq, LenProperties DEF HandlersTypeOK
  <2>3. QED
    BY <1>2, <1>4, <2>2
<1>5. \A h \in search'.due :
         h \in In(order) /\ attached[h] = search'.message /\ ~Returns(stores, h)
  BY <1>3, <1>4
<1>6. \A h \in Handlers : Fresh(h) /\ search'.at = h => search'.strayed
  BY <1>3 DEF Fresh
<1>7. ~search'.strayed => SearchOnTheWay' /\ FrontLoaded'
  BY <1>1, <1>3 DEF SearchOnTheWay, FrontLoaded
<1>8. QED
  BY <1>3, <1>5, <1>6, <1>7, SearchKeepsRest

\* The front is where the search begins; none is due when there is no front.
LEMMA GetFrontKeeps ==
    ASSUME HandlersInv, UNCHANGED <<head, next, previous, attached, stores, order>>, GetFront
    PROVE  HandlersInv'
<1>1. HandlersTypeOK /\ LinksMeanwhile
  BY DEF HandlersInv
<1>2. GoTo(head) /\ head \in Links
  BY <1>1 DEF GetFront, HandlersTypeOK
<1>3. head = Null => search.due = {}
  BY NoneDueWithoutFront
<1>4. head \in In(order) => DueIsFrom(head)
  <2>1. SUFFICES ASSUME head \in In(order) PROVE DueIsFrom(head)
    OBVIOUS
  <2>2. Len(order) > 0
    BY <1>1, <2>1, LenProperties DEF In, HandlersTypeOK
  <2>3. QED
    BY <1>1, <2>1, <2>2, DueIsFromFirst DEF LinksMeanwhile
<1>5. ~Fresh(head)
  BY DEF Fresh
<1>6. QED
  BY <1>2, <1>3, <1>4, <1>5, GoToKeeps

\* A handler with another message is not due: the search may go past it.
LEMMA LookKeeps ==
    ASSUME HandlersInv, UNCHANGED <<head, next, previous, attached, stores, order>>, LookAtMessage
    PROVE  HandlersInv'
<1>1. HandlersTypeOK /\ DueAreRegistered /\ (~search.strayed => SearchOnTheWay)
  BY DEF HandlersInv
<1>2. /\ search.place = "look"
      /\ search'.place = IF attached[search.at] = search.message THEN "found" ELSE "head"
      /\ search'.at = search.at /\ search'.strayed = search.strayed /\ search'.due = search.due
      /\ search'.message = search.message /\ search' \in Searches /\ search.at # Null
  BY <1>1 DEF LookAtMessage, HandlersTypeOK, Searches
<1>3. \A h \in search'.due :
         h \in In(order) /\ attached[h] = search'.message /\ ~Returns(stores, h)
  BY <1>1, <1>2 DEF DueAreRegistered
<1>4. \A h \in Handlers : Fresh(h) /\ search'.at = h => search'.strayed
  BY <1>2 DEF Fresh
<1>5. ASSUME ~search'.strayed PROVE SearchOnTheWay' /\ FrontLoaded'
  <2>1. SearchOnTheWay
    BY <1>1, <1>2, <1>5
  <2>2. FrontLoaded'
    BY <1>2 DEF FrontLoaded
  <2>3. search'.place = "head" => DueIsAfter(search.at)'
    <3>1. SUFFICES ASSUME attached[search.at] # search.message,
                          NEW i \in 1 .. Len(order), NEW j \in 1 .. Len(order),
                          order[i] = search.at, order[j] \in search.due
                   PROVE  j > i
      BY <1>2 DEF DueIsAfter
    <3>2. j >= i
      BY <1>2, <2>1, <3>1 DEF SearchOnTheWay, DueIsFrom
    <3>3. search.at \notin search.due
      BY <1>1, <3>1 DEF DueAreRegistered
    <3>4. j # i
      BY <3>1, <3>3
    <3>5. QED
      BY <3>2, <3>4
  <2>4. SearchOnTheWay'
    BY <1>2, <2>1, <2>3 DEF SearchOnTheWay
  <2>5. QED
    BY <2>2, <2>4
<1>6. QED
  BY <1>2, <1>3, <1>4, <1>5, SearchKeepsRest

\* The head the search loads is the front, or a handler that is being unregistered.
LEMMA LoadHeadKeeps ==
    ASSUME HandlersInv, UNCHANGED <<head, next, previous, attached, stores, order>>, LoadHead
    PROVE  HandlersInv'
<1>1. /\ HandlersTypeOK /\ LinksMeanwhile /\ DueAreRegistered
      /\ ~search.strayed => SearchOnTheWay
  BY DEF HandlersInv
<1>2. CASE head = Null
  <2>1. GoTo(Null) /\ Null \in Links /\ Null \notin Handlers
    BY <1>2, NullIsNone DEF LoadHead, Links
  <2>2. search.due = {} /\ Null \notin In(order)
    BY <1>1, <1>2, <2>1, NoneDueWithoutFront, RangeIsIn DEF HandlersTypeOK
  <2>3. QED
    BY <2>1, <2>2, GoToKeeps
<1>3. CASE head # Null
  <2>1. /\ search.place = "head" /\ search'.place = "back" /\ search'.front = head
        /\ search'.at = search.at /\ search'.strayed = search.strayed /\ search'.due = search.due
        /\ search'.message = search.message /\ search' \in Searches /\ head \in Handlers
        /\ search.at # Null
    <3>1. head \in Handlers
      BY <1>1, <1>3 DEF HandlersTypeOK, Links
    <3>2. QED
      BY <1>1, <1>3, <3>1 DEF LoadHead, HandlersTypeOK, Searches
  <2>2. \A h \in search'.due :
           h \in In(order) /\ attached[h] = search'.message /\ ~Returns(stores, h)
    BY <1>1, <2>1 DEF DueAreRegistered
  <2>3. \A h \in Handlers : Fresh(h) /\ search'.at = h => search'.strayed
    BY <2>1 DEF Fresh
  <2>4. FrontLoaded'
    <3>1. head \in In(order) => head = order[1]
      BY <1>1 DEF LinksMeanwhile
    <3>2. ASSUME head \notin In(order), NEW i \in 1 .. Len(order), NEW j \in 1 .. Len(order),
                 order[i] = previous[head]
          PROVE  j <= i
      <4>1. previous[head] = order[Len(order)]
        <5>1. Len(order) # 0 /\ order[i] \in Handlers
          BY <1>1, ElementOfSeq DEF HandlersTypeOK
        <5>2. QED
          BY <1>1, <2>1, <3>2, <5>1, NullIsNone DEF LinksMeanwhile
      <4>2. Len(order) \in Nat
        BY <1>1, LenProperties DEF HandlersTypeOK
      <4>3. i = Len(order)
        BY <3>2, <4>1, <4>2 DEF HandlersInv, IsInjectiveSeq
      <4>4. QED
        BY <4>2, <4>3
    <3>3. QED
      BY <2>1, <3>1, <3>2 DEF FrontLoaded, DueIsUpTo
  <2>5. ~search'.strayed => SearchOnTheWay'
    BY <1>1, <2>1 DEF SearchOnTheWay, DueIsAfter
  <2>6. QED
    BY <2>1, <2>2, <2>3, <2>4, <2>5, SearchKeepsRest
<1>4. QED
  BY <1>2, <1>3

\* None is due after the back: the search may end there.
LEMMA LoadBackKeeps ==
    ASSUME HandlersInv, UNCHANGED <<head, next, previous, attached, stores, order>>, LoadBack
    PROVE  HandlersInv'
<1>1. /\ HandlersTypeOK /\ IsInjectiveSeq(order) /\ LinksMeanwhile /\ DueAreRegistered
      /\ ~search.strayed => SearchOnTheWay /\ FrontLoaded
  BY DEF HandlersInv
<1>2. search.place = "back" /\ Null \notin Handlers
  BY NullIsNone DEF LoadBack
<1>3. CASE search.at = previous[search.front]
  <2>1. GoTo(Null) /\ Null \in Links /\ Null \notin In(order)
    BY <1>1, <1>2, <1>3, RangeIsIn DEF LoadBack, Links, HandlersTypeOK
  <2>2. ASSUME ~search.strayed PROVE search.due = {}
    <3>1. SUFFICES ASSUME NEW d \in search.due PROVE FALSE
      OBVIOUS
    <3>2. PICK j \in 1 .. Len(order) : order[j] = d
      BY <1>1 DEF DueAreRegistered, In
    <3>3. /\ search.at \in In(order) /\ DueIsAfter(search.at)
          /\ search.front \in In(order) => search.front = order[1] \/ DueIsBefore(search.front)
          /\ search.front \notin In(order) => DueIsUpTo(search.at)
      BY <1>1, <1>2, <1>3, <2>2 DEF HandlersTypeOK, SearchOnTheWay, FrontLoaded
    <3>4. PICK i \in 1 .. Len(order) : order[i] = search.at
      BY <3>3 DEF In
    <3>5. j > i /\ Len(order) \in Nat
      BY <1>1, <3>1, <3>2, <3>3, <3>4, LenProperties DEF DueIsAfter, HandlersTypeOK
    <3>6. CASE search.front \notin In(order)
      BY <3>1, <3>2, <3>3, <3>4, <3>5, <3>6 DEF DueIsUpTo
    <3>7. CASE search.front \in In(order)
      <4>1. PICK k \in 1 .. Len(order) : order[k] = search.front
        BY <3>7 DEF In
      <4>2. \/ order[i] = Ahead(order, k)
            \/ /\ k = 1 /\ Len(order) > 1 /\ Returns(stores, order[Len(order)])
               /\ order[i] = order[Len(order) - 1]
        BY <1>1, <1>3, <3>3, <3>4, <4>1 DEF LinksMeanwhile
      <4>3. \A a, b \in 1 .. Len(order) : order[a] = order[b] => a = b
        BY <1>1 DEF IsInjectiveSeq
      <4>4. CASE order[i] = Ahead(order, k)
        <5>1. i = IF k = 1 THEN Len(order) ELSE k - 1
          <6>1. (IF k = 1 THEN Len(order) ELSE k - 1) \in 1 .. Len(order)
            BY <3>5
          <6>2. QED
            BY <4>3, <4>4, <6>1 DEF Ahead
        <5>2. k # 1
          BY <3>5, <5>1
        <5>3. DueIsBefore(search.front)
          <6>1. 1 \in 1 .. Len(order)
            BY <3>5
          <6>2. QED
            BY <3>3, <3>7, <4>1, <4>3, <5>2, <6>1
        <5>4. j < k
          BY <3>1, <3>2, <4>1, <5>3 DEF DueIsBefore
        <5>5. QED
          BY <3>5, <5>1, <5>2, <5>4
      <4>5. CASE /\ k = 1 /\ Len(order) > 1 /\ Returns(stores, order[Len(order)])
                 /\ order[i] = order[Len(order) - 1]
        <5>1. Len(order) - 1 \in 1 .. Len(order)
          BY <3>5, <4>5
        <5>2. i = Len(order) - 1
          BY <4>3, <4>5, <5>1
        <5>3. j = Len(order)
          BY <3>5, <5>2
        <5>4. QED
          BY <1>1, <3>1, <3>2, <4>5, <5>3 DEF DueAreRegistered
      <4>6. QED
        BY <4>2, <4>4, <4>5
    <3>8. QED
      BY <3>6, <3>7
  <2>3. QED
    BY <1>2, <2>1, <2>2, GoToKeeps
<1>4. CASE search.at # previous[search.front]
  <2>1. /\ search'.place = "next" /\ search'.at = search.at /\ search'.strayed = search.strayed
        /\ search'.due = search.due /\ search'.message = search.message /\ search' \in Searches
        /\ search.at # Null
    <3>1. Null \in Links
      BY DEF Links
    <3>2. QED
      BY <1>1, <1>2, <1>4, <3>1 DEF LoadBack, HandlersTypeOK, Searches
  <2>2. \A h \in search'.due :
           h \in In(order) /\ attached[h] = search'.message /\ ~Returns(stores, h)
    BY <1>1, <2>1 DEF DueAreRegistered
  <2>3. \A h \in Handlers : Fresh(h) /\ search'.at = h => search'.strayed
    BY <2>1 DEF Fresh
  <2>4. ~search'.strayed => SearchOnTheWay' /\ FrontLoaded'
    BY <1>1, <1>2, <2>1 DEF SearchOnTheWay, FrontLoaded, DueIsAfter
  <2>5. QED
    BY <2>1, <2>2, <2>3, <2>4, SearchKeepsRest
<1>5. QED
  BY <1>3, <1>4

\* The next handler is the one after it: the search passes no other.
LEMMA LoadNextKeeps ==
    ASSUME HandlersInv, UNCHANGED <<head, next, previous, attached, stores, order>>, LoadNext
    PROVE  HandlersInv'
<1>1. /\ HandlersTypeOK /\ IsInjectiveSeq(order) /\ LinksMeanwhile /\ DueAreRegistered
      /\ ~search.strayed => SearchOnTheWay
  BY DEF HandlersInv
<1> DEFINE h == next[search.at]
<1>2. search.place = "next" /\ GoTo(h) /\ Null \notin Handlers
  BY NullIsNone DEF LoadNext
<1>3. CASE ~search.strayed
  <2>1. search.at \in In(order) /\ DueIsAfter(search.at)
    BY <1>1, <1>2, <1>3 DEF HandlersTypeOK, SearchOnTheWay
  <2>2. PICK i \in 1 .. Len(order) : order[i] = search.at
    BY <2>1 DEF In
  <2>3. /\ h \in In(order) => h \in {After(order, i), order[1]}
        /\ h = Null => Fresh(search.at)
    BY <1>1, <2>2 DEF LinksMeanwhile
  <2>4. h \in Links /\ search.at \in Handlers /\ order \in Seq(Handlers) /\ Len(order) \in Nat
    <3>1. order \in Seq(Handlers)
      BY <1>1 DEF HandlersTypeOK
    <3>2. search.at \in Handlers
      BY <2>2, <3>1, ElementOfSeq
    <3>3. QED
      BY <1>1, <3>1, <3>2, LenProperties DEF HandlersTypeOK
  <2>5. h # Null
    BY <1>3, <2>3 DEF Fresh
  <2>6. ~Fresh(h)
    BY <2>1 DEF Fresh
  <2>7. ASSUME h \in In(order) PROVE DueIsFrom(h)
    <3>1. CASE h = order[1]
      BY <2>2, <2>4, <3>1, DueIsFromFirst
    <3>2. CASE h # order[1]
      <4>1. h = order[i + 1] /\ i # Len(order)
        BY <2>3, <2>7, <3>2 DEF After
      <4>2. i + 1 \in 1 .. Len(order)
        BY <2>4, <4>1
      <4>3. ASSUME NEW k \in 1 .. Len(order), NEW j \in 1 .. Len(order),
                   order[k] = h, order[j] \in search.due
            PROVE  j >= k
        <5>1. k = i + 1
          BY <1>1, <4>1, <4>2, <4>3 DEF IsInjectiveSeq
        <5>2. j > i
          BY <2>1, <2>2, <4>3 DEF DueIsAfter
        <5>3. QED
          BY <5>1, <5>2
      <4>4. QED
        BY <4>3 DEF DueIsFrom
    <3>3. QED
      BY <3>1, <3>2
  <2> HIDE DEF h
  <2>8. QED
    BY <1>2, <2>4, <2>5, <2>6, <2>7, GoToKeeps
<1>4. CASE search.strayed
  <2>1. search.at \in Handlers
    BY <1>1, <1>2 DEF HandlersTypeOK, Links
  <2>2. h \in Links
    BY <1>1, <2>1 DEF HandlersTypeOK
  <2> HIDE DEF h
  <2>3. QED
    BY <1>2, <1>4, <2>2, GoToKeeps
<1>5. QED
  BY <1>3, <1>4

\* After the search nothing is due.
LEMMA DispatchedKeeps ==
    ASSUME HandlersInv, UNCHANGED <<head, next, previous, attached, stores, order>>, Dispatched
    PROVE  HandlersInv'
<1>1. HandlersTypeOK
  BY DEF HandlersInv
<1>2. /\ search'.place = "idle" /\ search'.at = Null /\ search'.due = {}
      /\ search' \in Searches
  BY <1>1 DEF Dispatched, HandlersTypeOK, Searches, Links
<1>3. \A h \in Handlers : h # Null
  BY NullIsNone
<1>4. SearchOnTheWay' /\ FrontLoaded'
  BY <1>2 DEF SearchOnTheWay, FrontLoaded
<1>5. QED
  BY <1>2, <1>3, <1>4, SearchKeepsRest

\* The list is empty at first.
LEMMA HandlersInitInv == HandlersInit => HandlersInv
<1> SUFFICES ASSUME HandlersInit PROVE HandlersInv
  OBVIOUS
<1>1. /\ head = Null /\ next = [h \in Handlers |-> Null] /\ previous = next /\ attached = next
      /\ stores = <<>> /\ order = <<>>
      /\ search = [place |-> "idle", message |-> Null, at |-> Null, front |-> Null,
                   due |-> {}, strayed |-> FALSE]
  BY DEF HandlersInit
<1>2. Len(order) = 0 /\ 1 .. Len(stores) = {} /\ 1 .. Len(order) = {} /\ In(order) = {}
  BY <1>1 DEF In
<1>3. HandlersTypeOK
  <2>1. next \in [Handlers -> Links] /\ attached \in [Handlers -> Messages \cup {Null}]
    BY <1>1 DEF Links
  <2>2. search \in Searches
    BY <1>1 DEF Searches, Links
  <2>3. order \in Seq(Handlers) /\ stores \in Seq(AllStores)
    BY <1>1
  <2>4. QED
    BY <1>1, <2>1, <2>2, <2>3 DEF HandlersTypeOK, Searches, Links
<1>4. IsInjectiveSeq(order) /\ StoresOnce(stores) /\ RegisterReturns /\ HeadWillBeExact
  BY <1>1, <1>2 DEF IsInjectiveSeq, StoresOnce, RegisterReturns, HeadWillBeExact, Foremost
<1>5. ListWillBeExact
  BY <1>1, <1>2 DEF ListWillBeExact, WillBe, StoresTo
<1>6. LinksMeanwhile /\ DueAreRegistered
  BY <1>1, <1>2 DEF LinksMeanwhile, DueAreRegistered
<1>7. SearchOnTheWay /\ FrontLoaded
  BY <1>1 DEF SearchOnTheWay, FrontLoaded
<1>8. QED
  BY <1>3, <1>4, <1>5, <1>6, <1>7 DEF HandlersInv

\* Each step of the two threads keeps the invariant.
LEMMA HandlersStep == HandlersInv /\ [HandlersNext]_handlerVars => HandlersInv'
<1> SUFFICES ASSUME HandlersInv, [HandlersNext]_handlerVars PROVE HandlersInv'
  OBVIOUS
<1>1. ASSUME NEW h \in Handlers, NEW message \in Messages, Register(h, message)
      PROVE  HandlersInv'
  <2>1. Len(order) \in Nat
    BY LenProperties DEF HandlersInv, HandlersTypeOK
  <2>2. CASE Len(order) = 0
    BY <1>1, <2>2, RegisterFirstKeeps
  <2>3. CASE Len(order) > 0
    BY <1>1, <2>3, RegisterNextKeeps
  <2>4. QED
    BY <2>1, <2>2, <2>3
<1>2. ASSUME NEW message \in Messages, Unregister(message) PROVE HandlersInv'
  BY <1>2, UnregisterKeeps
<1>3. ASSUME NEW message \in Messages, ReceiveNotification(message) PROVE HandlersInv'
  BY <1>3, ReceiveKeeps
<1>4. CASE DoStore
  BY <1>4, DoStoreKeeps
<1>5. CASE DispatchStep
  <2>1. UNCHANGED <<head, next, previous, attached, stores, order>>
    BY <1>5 DEF DispatchStep
  <2>2. GetFront \/ LookAtMessage \/ LoadHead \/ LoadBack \/ LoadNext \/ Dispatched
    BY <1>5 DEF DispatchStep
  <2>3. QED
    BY <2>1, <2>2, GetFrontKeeps, LookKeeps, LoadHeadKeeps, LoadBackKeeps, LoadNextKeeps,
       DispatchedKeeps
<1>6. CASE UNCHANGED handlerVars
  BY <1>6 DEF handlerVars, HandlersInv, HandlersTypeOK, StoresOnce, HeadWillBeExact, ListWillBeExact,
     RegisterReturns, LinksMeanwhile, Fresh, DueAreRegistered, SearchOnTheWay, FrontLoaded,
     DueIsFrom, DueIsAfter, DueIsUpTo, DueIsBefore
<1>7. QED
  BY <1>1, <1>2, <1>3, <1>4, <1>5, <1>6 DEF HandlersNext

\* At rest the list is that of the registered handlers, and a search that has not
\* strayed has missed none.
LEMMA HandlersInvSuffices == HandlersInv => HandlersReached
<1> SUFFICES ASSUME HandlersInv PROVE HandlersReached
  OBVIOUS
<1>1. /\ HandlersTypeOK /\ HeadWillBeExact /\ ListWillBeExact
      /\ ~search.strayed => SearchOnTheWay
  BY DEF HandlersInv
<1> DEFINE n == Len(order)
<1>2. order \in Seq(Handlers) /\ n \in Nat /\ Range(order) = In(order)
  BY <1>1, LenProperties, RangeIsIn DEF HandlersTypeOK
<1>3. ListIsExact
  <2>1. SUFFICES ASSUME stores = <<>>
                 PROVE  /\ head = IF n = 0 THEN Null ELSE order[1]
                        /\ \A i \in 1 .. n : /\ next[order[i]] = order[(i % n) + 1]
                                             /\ previous[order[(i % n) + 1]] = order[i]
                        /\ \A h \in Handlers \ Range(order) : {next[h], previous[h], attached[h]} = {Null}
    BY DEF ListIsExact
  <2>2. /\ head = Foremost(order)
        /\ \A i \in 1 .. n : next[order[i]] = After(order, i) /\ previous[order[i]] = Ahead(order, i)
        /\ \A h \in Handlers \ In(order) : next[h] = Null /\ previous[h] = Null /\ attached[h] = Null
    BY <1>1, <2>1, ExactAtRest
  <2>3. ASSUME NEW i \in 1 .. n
        PROVE  next[order[i]] = order[(i % n) + 1] /\ previous[order[(i % n) + 1]] = order[i]
    <3>1. (i % n) + 1 = IF i = n THEN 1 ELSE i + 1
      <4>1. i \in Nat /\ n \in Nat \ {0} /\ i < 2 * n
        BY <1>2
      <4>2. i % n = IF i < n THEN i ELSE i - n
        BY <4>1, ModOfRing
      <4>3. QED
        BY <4>1, <4>2
    <3> DEFINE k == IF i = n THEN 1 ELSE i + 1
    <3>2. k \in 1 .. n /\ (IF k = 1 THEN n ELSE k - 1) = i
      BY <1>2
    <3>3. After(order, i) = order[k] /\ Ahead(order, k) = order[i]
      BY <3>2 DEF After, Ahead
    <3> HIDE DEF k
    <3>4. QED
      BY <2>2, <3>1, <3>2, <3>3 DEF k
  <2>4. QED
    BY <1>2, <2>2, <2>3 DEF Foremost
<1>4. NoneMissed
  BY <1>1 DEF NoneMissed, SearchOnTheWay
<1>5. QED
  BY <1>3, <1>4 DEF HandlersReached

\* At whatever places of a registration or of other handlers' unregistering the
\* dispatching thread searches the list, which no lock keeps from it, it finds the
\* handlers that were registered before the notification came; and between the
\* calls the list is exactly that of the registered handlers.
THEOREM HandlersAreReached == HandlersSpec => []HandlersReached
<1>1. HandlersInit => HandlersInv
  BY HandlersInitInv
<1>2. HandlersInv /\ [HandlersNext]_handlerVars => HandlersInv'
  BY HandlersStep
<1>3. HandlersInv => HandlersReached
  BY HandlersInvSuffices
<1>4. QED
  BY <1>1, <1>2, <1>3, PTL DEF HandlersSpec
=============================================================================
