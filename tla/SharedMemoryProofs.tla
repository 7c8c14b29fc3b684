------------------------- MODULE SharedMemoryProofs --------------------------
(***************************************************************************)
(* Proofs about the address space manager and the blocks mapped in it, for *)
(* every set of blocks, every space and every width of a word. SpaceSorted *)
(* keeps Skip pages between all pairs of listed blocks, not only between   *)
(* neighbours, and every range inside the space, where no sum wraps around. *)
(* PhaseSays ties what the kernel maps to a listed block, also after the   *)
(* range of another one was forgotten.                                     *)
(***************************************************************************)
EXTENDS SharedMemory, SequenceTheorems, WellFoundedInduction, TLAPS

\* Every set of numbers has a least one.
LEMMA NatMin == \A T \in SUBSET Nat : T # {} => \E x \in T : \A y \in T : x <= y
<1> SUFFICES ASSUME NEW T \in SUBSET Nat, T # {} PROVE \E x \in T : \A y \in T : x <= y
  OBVIOUS
<1> DEFINE R == {ss \in Nat \X Nat : ss[1] < ss[2]}
<1>1. IsWellFoundedOn(R, Nat)
  BY NatLessThanWellFounded DEF OpToRel
<1>2. \E x \in T : \A y \in T : ~ (<<y, x>> \in R)
  <2> HIDE DEF R
  <2> QED BY <1>1, WFMin
<1>3. \A x, y \in Nat : ~ (<<y, x>> \in R) => x <= y
  <2> TAKE x, y \in Nat
  <2>1. <<y, x>> \in Nat \X Nat /\ <<y, x>>[1] = y /\ <<y, x>>[2] = x
    OBVIOUS
  <2>2. <<y, x>> \in R <=> y < x
    BY <2>1
  <2> QED BY <2>2
<1>4. QED
  BY <1>2, <1>3

\* Every set of positions has a last one, which Max is.
LEMMA LastOf ==
    ASSUME NEW n \in Nat, NEW S \in SUBSET (1..n), S # {}
    PROVE  Max(S) \in S /\ \A y \in S : y <= Max(S)
<1> DEFINE T == {n - x : x \in S}
<1>1. T \in SUBSET Nat /\ T # {}
  OBVIOUS
<1>2. PICK m \in T : \A y \in T : m <= y
  BY <1>1, NatMin
<1>3. PICK x \in S : m = n - x
  OBVIOUS
<1>4. x \in S /\ \A y \in S : x >= y
  BY <1>2, <1>3
<1>5. Max(S) \in S /\ \A y \in S : Max(S) >= y
  BY <1>4 DEF Max
<1>6. QED
  BY <1>5

\* t is s with an element inserted at position k.
IsInserted(t, s, k, e) ==
    /\ t \in Seq(Blocks)
    /\ Len(t) = Len(s) + 1
    /\ \A i \in 1..Len(s) + 1 : t[i] = IF i < k THEN s[i] ELSE IF i = k THEN e ELSE s[i - 1]

\* InsertAt puts an element between those below and those from position k on.
LEMMA InsertFacts ==
    ASSUME NEW s \in Seq(Blocks), NEW k \in 1..Len(s) + 1, NEW e \in Blocks
    PROVE  IsInserted(InsertAt(s, k, e), s, k, e)
<1> DEFINE below == SubSeq(s, 1, k - 1)
           above == SubSeq(s, k, Len(s))
<1>1. Len(s) \in Nat /\ k \in Nat
  OBVIOUS
<1>2. below \in Seq(Blocks) /\ Len(below) = k - 1 /\ \A i \in 1..k - 1 : below[i] = s[i]
  BY SubSeqProperties
<1>3. /\ above \in Seq(Blocks) /\ Len(above) = Len(s) - (k - 1)
      /\ \A i \in 1..Len(s) - (k - 1) : above[i] = s[(k - 1) + i]
  BY SubSeqProperties
<1>4. InsertAt(s, k, e) = (below \o <<e>>) \o above
  BY DEF InsertAt
<1> HIDE DEF below, above
<1>5. <<e>> \in Seq(Blocks) /\ Len(<<e>>) = 1 /\ <<e>>[1] = e
  OBVIOUS
<1> DEFINE front == below \o <<e>>
           all == front \o above
<1>6. /\ front \in Seq(Blocks) /\ Len(front) = k
      /\ \A i \in 1..k : front[i] = IF i <= k - 1 THEN below[i] ELSE <<e>>[i - (k - 1)]
  BY <1>2, <1>5, ConcatProperties
<1>7. \A i \in 1..k : front[i] = IF i < k THEN s[i] ELSE e
  BY <1>2, <1>5, <1>6
<1>8. InsertAt(s, k, e) = all
  BY <1>4
<1> HIDE DEF front
<1>9. /\ all \in Seq(Blocks) /\ Len(all) = Len(front) + Len(above)
      /\ \A i \in 1..Len(front) + Len(above) :
            all[i] = IF i <= Len(front) THEN front[i] ELSE above[i - Len(front)]
  BY <1>3, <1>6, ConcatProperties
<1> HIDE DEF all
<1>10. Len(front) + Len(above) = Len(s) + 1
  BY <1>1, <1>3, <1>6
<1>11. \A i \in 1..Len(s) + 1 : i > k => above[i - k] = s[i - 1]
  BY <1>1, <1>3
<1>12. \A i \in 1..Len(s) + 1 : all[i] = IF i < k THEN s[i] ELSE IF i = k THEN e ELSE s[i - 1]
  <2> TAKE i \in 1..Len(s) + 1
  <2>1. CASE i <= k
    BY <1>1, <1>6, <1>7, <1>9, <1>10, <2>1
  <2>2. CASE i > k
    BY <1>1, <1>6, <1>9, <1>10, <1>11, <2>2
  <2>3. QED
    BY <1>1, <2>1, <2>2
<1>13. QED
  BY <1>8, <1>9, <1>10, <1>12 DEF IsInserted

\* RemoveAt closes the gap that the element at position k leaves.
LEMMA RemoveFacts ==
    ASSUME NEW S, NEW s \in Seq(S), NEW k \in 1..Len(s)
    PROVE  /\ RemoveAt(s, k) \in Seq(S)
           /\ Len(RemoveAt(s, k)) = Len(s) - 1
           /\ \A i \in 1..Len(s) - 1 : RemoveAt(s, k)[i] = IF i < k THEN s[i] ELSE s[i + 1]
<1> DEFINE below == SubSeq(s, 1, k - 1)
           above == SubSeq(s, k + 1, Len(s))
<1>1. below \in Seq(S) /\ Len(below) = k - 1 /\ \A i \in 1..k - 1 : below[i] = s[i]
  BY SubSeqProperties
<1>2. above \in Seq(S) /\ Len(above) = Len(s) - k /\ \A i \in 1..Len(s) - k : above[i] = s[k + i]
  BY SubSeqProperties
<1>3. RemoveAt(s, k) = below \o above
  BY DEF RemoveAt
<1> HIDE DEF below, above
<1> DEFINE both == below \o above
<1>4. /\ both \in Seq(S) /\ Len(both) = Len(below) + Len(above)
      /\ \A i \in 1..Len(below) + Len(above) :
            both[i] = IF i <= Len(below) THEN below[i] ELSE above[i - Len(below)]
  BY <1>1, <1>2, ConcatProperties
<1>5. Len(below) + Len(above) = Len(s) - 1
  BY <1>1, <1>2
<1>6. RemoveAt(s, k) = both
  BY <1>3
<1> HIDE DEF both
<1>7. \A i \in 1..Len(s) - 1 : i >= k => above[i - (k - 1)] = s[i + 1]
  BY <1>2
<1>8. \A i \in 1..Len(s) - 1 : both[i] = IF i < k THEN s[i] ELSE s[i + 1]
  <2> TAKE i \in 1..Len(s) - 1
  <2>1. CASE i < k
    BY <1>1, <1>4, <1>5, <2>1
  <2>2. CASE i >= k
    BY <1>1, <1>4, <1>5, <1>7, <2>2
  <2>3. QED
    BY <2>1, <2>2
<1>9. QED
  BY <1>4, <1>5, <1>6, <1>8

------------------------------------------------------------------------------
\* Types; a block's size may be any number, the order bounds it.
SpaceTypeOK ==
    /\ list \in Seq(Blocks)
    /\ address \in [Blocks -> 0..Word - 1]
    /\ size \in [Blocks -> Nat]

\* The list holds no block twice.
NotTwice == \A i, j \in 1..Len(list) : list[i] = list[j] => i = j

\* The blocks in use are the listed ones; each lies in the space, and below
\* those after it.
SpaceSorted ==
    /\ \A b \in Blocks : Listed(b) <=> address[b] # 0
    /\ \A b \in Blocks : address[b] # 0 =>
          /\ size[b] \in 1..MaxSize
          /\ SpaceBegin <= address[b] /\ address[b] + size[b] <= SpaceBegin + SpaceSize
    /\ \A i, j \in 1..Len(list) :
          i < j => address[list[i]] + size[list[i]] + Skip <= address[list[j]]

Phases == {"none", "mapping", "mapped", "unmapped", "failed"}

\* Where a block is on its way to the kernel and back, and what that says of its
\* range and of what the kernel maps.
PhaseSays(b) ==
    /\ phase[b] # "none" => Listed(b) /\ address[b] # 0
    /\ address[b] = 0 => size[b] = 0
    /\ kernel[b] = IF phase[b] = "mapped" THEN [begin |-> address[b], size |-> size[b]] ELSE Unmapped

\* The invariant: the order holds until a range is forgotten, the rest always.
MemoryInv ==
    /\ SpaceTypeOK /\ NotTwice
    /\ ~forgotten => SpaceSorted
    /\ phase \in [Blocks -> Phases]
    /\ kernel \in [Blocks -> [begin : Int, size : Int]]
    /\ forgotten \in BOOLEAN
    /\ \A b \in Blocks : PhaseSays(b)

\* Inside the space nothing wraps.
LEMMA SpaceIsFlat ==
    /\ SpaceBegin \in Nat \ {0} /\ SpaceSize \in Nat \ {0} /\ Skip \in Nat /\ Word \in Nat
    /\ SpaceEnd = SpaceBegin + SpaceSize
    /\ \A a, b \in Nat : a + b < Word => Add(a, b) = a + b
    /\ \A a, b \in Nat : b <= a /\ a < Word => Subtract(a, b) = a - b
    /\ \A a, b \in Int : Add(a, b) \in 0..Word - 1 /\ Subtract(a, b) \in 0..Word - 1
<1> USE SpaceAssumption
<1>1. Word \in Nat \ {0}
  OBVIOUS
<1>2. \A n \in Int : n % Word \in 0..Word - 1
  BY <1>1
<1>3. \A n \in Int : 0 <= n /\ n < Word => n % Word = n
  BY <1>1
<1>4. /\ SpaceBegin \in Nat \ {0} /\ SpaceSize \in Nat \ {0} /\ Skip \in Nat
      /\ SpaceBegin + SpaceSize < Word
  OBVIOUS
<1>5. \A a, b \in Nat : a + b < Word => Add(a, b) = a + b
  BY <1>3 DEF Add
<1>6. \A a, b \in Nat : b <= a /\ a < Word => Subtract(a, b) = a - b
  BY <1>3 DEF Subtract
<1>7. \A a, b \in Int : Add(a, b) \in 0..Word - 1 /\ Subtract(a, b) \in 0..Word - 1
  BY <1>2 DEF Add, Subtract
<1>8. SpaceEnd = SpaceBegin + SpaceSize
  BY <1>4, <1>5 DEF SpaceEnd
<1>9. QED
  BY <1>1, <1>4, <1>5, <1>6, <1>7, <1>8

\* What the walk of FindSpace comes to: the last room that is large enough.
LEMMA FindSpaceIsLast ==
    ASSUME list \in Seq(Blocks), NEW n
    PROVE  /\ FindSpace(n) \in 0..Len(list)
           /\ FindSpace(n) # 0 => RoomAbove(FindSpace(n)) >= Add(n, Skip)
           /\ \A i \in 1..Len(list) : i > FindSpace(n) => ~(RoomAbove(i) >= Add(n, Skip))
<1> DEFINE rooms == [i \in 1..Len(list) |-> RoomAbove(i)]
           I == {i \in 1..Len(rooms) : rooms[i] >= Add(n, Skip)}
<1>1. Len(list) \in Nat /\ Len(rooms) = Len(list) /\ \A i \in 1..Len(list) : rooms[i] = RoomAbove(i)
  OBVIOUS
<1>2. FindSpace(n) = IF I # {} THEN Max(I) ELSE 0
  BY DEF FindSpace, SelectLastInSeq
<1> HIDE DEF rooms
<1>3. CASE I = {}
  BY <1>1, <1>2, <1>3
<1>4. CASE I # {}
  <2>1. I \in SUBSET (1..Len(list))
    BY <1>1
  <2>2. FindSpace(n) \in I /\ \A y \in I : y <= FindSpace(n)
    <3> HIDE DEF I
    <3> QED
      BY <1>1, <1>2, <1>4, <2>1, LastOf
  <2>3. QED
    BY <1>1, <2>1, <2>2
<1>5. QED
  BY <1>3, <1>4

\* The room above a listed block, as numbers.
LEMMA RoomIsFlat ==
    ASSUME SpaceTypeOK, NotTwice, SpaceSorted, NEW i \in 1..Len(list)
    PROVE  /\ list[i] \in Blocks /\ address[list[i]] # 0
           /\ EndOf(list[i]) = address[list[i]] + size[list[i]]
           /\ RoomAbove(i) = (IF i = Len(list) THEN SpaceBegin + SpaceSize ELSE address[list[i + 1]] - Skip)
                             - (address[list[i]] + size[list[i]])
<1>0. \A j \in 1..Len(list) : list[j] \in Blocks /\ Listed(list[j])
  BY DEF SpaceTypeOK, Listed
<1>1. \A j \in 1..Len(list) : list[j] \in Blocks /\ address[list[j]] # 0
  BY <1>0 DEF SpaceSorted
<1>2. \A j \in 1..Len(list) :
         /\ address[list[j]] \in Nat /\ size[list[j]] \in Nat
         /\ SpaceBegin <= address[list[j]]
         /\ address[list[j]] + size[list[j]] <= SpaceBegin + SpaceSize
  BY <1>1 DEF SpaceTypeOK, SpaceSorted
<1>3. SpaceBegin \in Nat /\ SpaceSize \in Nat /\ Skip \in Nat /\ Word \in Nat /\ SpaceBegin + SpaceSize < Word
  BY SpaceAssumption
<1> DEFINE a == address[list[i]]
           n == size[list[i]]
           up == address[list[i + 1]]
<1>4. a \in Nat /\ n \in Nat /\ SpaceBegin <= a /\ a + n <= SpaceBegin + SpaceSize
  BY <1>2
<1>5. i # Len(list) => up \in Nat /\ up <= SpaceBegin + SpaceSize /\ a + n + Skip <= up
  <2> SUFFICES ASSUME i # Len(list) PROVE up \in Nat /\ up <= SpaceBegin + SpaceSize /\ a + n + Skip <= up
    OBVIOUS
  <2>1. i + 1 \in 1..Len(list) /\ i < i + 1
    BY DEF SpaceTypeOK
  <2>2. a + n + Skip <= up
    BY <2>1 DEF SpaceSorted
  <2>3. up \in Nat /\ up + size[list[i + 1]] <= SpaceBegin + SpaceSize /\ size[list[i + 1]] \in Nat
    BY <1>2, <2>1
  <2>4. QED
    BY <1>3, <2>2, <2>3
<1>6. EndOf(list[i]) = Add(a, n)
  BY DEF EndOf
<1>7. RoomAbove(i) = Subtract(IF i = Len(list) THEN SpaceEnd ELSE Subtract(up, Skip), EndOf(list[i]))
  BY DEF RoomAbove
<1> HIDE DEF a, n, up
<1>8. Add(a, n) = a + n
  BY <1>3, <1>4, SpaceIsFlat
<1>9. Subtract(SpaceBegin + SpaceSize, a + n) = SpaceBegin + SpaceSize - (a + n)
  <2>1. SpaceBegin + SpaceSize \in Nat /\ a + n \in Nat
    BY <1>3, <1>4
  <2>2. QED
    BY <1>3, <1>4, <2>1, SpaceIsFlat
<1>10. i # Len(list) => Subtract(up, Skip) = up - Skip /\ Subtract(up - Skip, a + n) = up - Skip - (a + n)
  <2> SUFFICES ASSUME i # Len(list)
               PROVE Subtract(up, Skip) = up - Skip /\ Subtract(up - Skip, a + n) = up - Skip - (a + n)
    OBVIOUS
  <2>1. /\ up - Skip \in Nat /\ a + n \in Nat /\ a + n <= up - Skip
        /\ up \in Nat /\ up < Word /\ up - Skip < Word /\ Skip <= up
    BY <1>3, <1>4, <1>5
  <2>2. QED
    BY <1>3, <2>1, SpaceIsFlat
<1>11. /\ EndOf(list[i]) = a + n
       /\ RoomAbove(i) = (IF i = Len(list) THEN SpaceBegin + SpaceSize ELSE up - Skip) - (a + n)
  <2>1. EndOf(list[i]) = a + n
    BY <1>6, <1>8
  <2>2. CASE i = Len(list)
    <3>1. SpaceEnd = SpaceBegin + SpaceSize
      BY SpaceIsFlat
    <3>2. RoomAbove(i) = Subtract(SpaceBegin + SpaceSize, a + n)
      BY <1>7, <2>1, <2>2, <3>1
    <3> DEFINE top == IF i = Len(list) THEN SpaceBegin + SpaceSize ELSE up - Skip
    <3>3. top = SpaceBegin + SpaceSize
      BY <2>2
    <3>4. RoomAbove(i) = SpaceBegin + SpaceSize - (a + n)
      BY <1>9, <3>2
    <3> HIDE DEF top
    <3>5. RoomAbove(i) = top - (a + n)
      BY <1>3, <1>4, <3>3, <3>4
    <3>6. QED
      BY <2>1, <3>5 DEF top
  <2>3. CASE i # Len(list)
    BY <1>7, <1>10, <2>1, <2>3
  <2>4. QED
    BY <2>1, <2>2, <2>3
<1>12. QED
  BY <1>1, <1>11 DEF a, n, up

\* Where Allocate puts a block: above the blocks up to the one found, below the
\* others, inside the space.
LEMMA PlaceIsBetween ==
    ASSUME SpaceTypeOK, NotTwice, SpaceSorted, NEW n \in 1..SpaceSize, PlaceFor(n) # 0
    PROVE  /\ PlaceFor(n) \in Nat
           /\ SpaceBegin <= PlaceFor(n) /\ PlaceFor(n) + n <= SpaceBegin + SpaceSize
           /\ \A i \in 1..Len(list) : i <= FindSpace(n) =>
                 address[list[i]] + size[list[i]] + Skip <= PlaceFor(n)
           /\ \A i \in 1..Len(list) : i > FindSpace(n) =>
                 PlaceFor(n) + n + Skip <= address[list[i]]
<1> DEFINE k == FindSpace(n)
           p == PlaceFor(n)
<1>1. k \in 0..Len(list) /\ Len(list) \in Nat
  BY FindSpaceIsLast DEF SpaceTypeOK
<1>2. /\ SpaceBegin \in Nat /\ SpaceSize \in Nat /\ Skip \in Nat /\ Word \in Nat
      /\ SpaceBegin + SpaceSize + Skip < Word /\ n \in Nat /\ 0 < n /\ n <= SpaceSize
  BY SpaceAssumption
<1>3. \A i \in 1..Len(list) :
         /\ address[list[i]] \in Nat /\ size[list[i]] \in Nat
         /\ SpaceBegin <= address[list[i]]
         /\ address[list[i]] + size[list[i]] <= SpaceBegin + SpaceSize
  BY RoomIsFlat DEF SpaceTypeOK, SpaceSorted
<1>4. \A i, j \in 1..Len(list) : i < j => address[list[i]] + size[list[i]] + Skip <= address[list[j]]
  BY DEF SpaceSorted
<1>5. Add(n, Skip) = n + Skip
  BY <1>2, SpaceIsFlat
<1>6. CASE k # 0
  <2> DEFINE a == address[list[k]]
             m == size[list[k]]
  <2>1. k \in 1..Len(list)
    BY <1>1, <1>6
  <2>2. EndOf(list[k]) = a + m
    BY <2>1, RoomIsFlat
  <2>3. RoomAbove(k) >= n + Skip
    BY <1>5, <1>6, FindSpaceIsLast DEF SpaceTypeOK
  <2>4. (IF k = Len(list) THEN SpaceBegin + SpaceSize ELSE address[list[k + 1]] - Skip) - (a + m) >= n + Skip
    BY <2>1, <2>3, RoomIsFlat
  <2>5. a \in Nat /\ m \in Nat /\ SpaceBegin <= a /\ a + m <= SpaceBegin + SpaceSize
    BY <1>3, <2>1
  <2>6. p = Add(a + m, Skip)
    BY <1>6, <2>2 DEF PlaceFor
  <2>7. p = a + m + Skip
    <3>1. a + m \in Nat /\ a + m + Skip < Word
      BY <1>2, <2>5
    <3>2. QED
      BY <1>2, <2>6, <3>1, SpaceIsFlat
  <2>8. \A i \in 1..Len(list) : i <= k => address[list[i]] + size[list[i]] <= a + m
    <3> TAKE i \in 1..Len(list)
    <3>1. CASE i = k
      BY <3>1, <2>5
    <3>2. CASE i < k
      <4>1. address[list[i]] + size[list[i]] + Skip <= a
        BY <1>4, <2>1, <3>2
      <4>2. address[list[i]] \in Nat /\ size[list[i]] \in Nat
        BY <1>3
      <4>3. QED
        BY SMTT(30), <1>2, <2>5, <4>1, <4>2
    <3>3. CASE i > k
      BY <1>1, <3>3
    <3>4. QED
      BY <1>1, <3>1, <3>2, <3>3
  <2>9. k # Len(list) => k + 1 \in 1..Len(list) /\ p + n + Skip <= address[list[k + 1]]
    <3> SUFFICES ASSUME k # Len(list) PROVE k + 1 \in 1..Len(list) /\ p + n + Skip <= address[list[k + 1]]
      OBVIOUS
    <3>1. k + 1 \in 1..Len(list)
      BY <1>1, <2>1
    <3>2. address[list[k + 1]] \in Nat
      BY <1>3, <3>1
    <3> DEFINE above == address[list[k + 1]]
    <3>3. (above - Skip) - (a + m) >= n + Skip
      BY <2>4
    <3> HIDE DEF above, a, m, p, k
    <3>4. p + n + Skip <= above
      BY <1>2, <2>5, <2>7, <3>2, <3>3 DEF above
    <3>5. QED
      BY <3>1, <3>4 DEF above
  <2>10. p + n <= SpaceBegin + SpaceSize
    <3>1. CASE k = Len(list)
      BY <1>2, <2>4, <2>5, <2>7, <3>1
    <3>2. CASE k # Len(list)
      <4> DEFINE b == address[list[k + 1]]
                 l == size[list[k + 1]]
      <4>1. p + n + Skip <= b /\ b \in Nat /\ l \in Nat /\ b + l <= SpaceBegin + SpaceSize
        BY <1>3, <2>9, <3>2
      <4> HIDE DEF b, l
      <4>2. QED
        BY <1>2, <2>5, <2>7, <4>1
    <3>3. QED
      BY <3>1, <3>2
  <2>11. \A i \in 1..Len(list) : i > k => p + n + Skip <= address[list[i]]
    <3> SUFFICES ASSUME NEW i \in 1..Len(list), i > k PROVE p + n + Skip <= address[list[i]]
      OBVIOUS
    <3>1. k + 1 \in 1..Len(list) /\ p + n + Skip <= address[list[k + 1]]
      BY <1>1, <2>1, <2>9
    <3>2. i = k + 1 \/ k + 1 < i
      BY <1>1
    <3>3. CASE k + 1 < i
      <4>1. address[list[k + 1]] + size[list[k + 1]] + Skip <= address[list[i]]
        BY <1>4, <3>1, <3>3
      <4> DEFINE b == address[list[k + 1]]
                 l == size[list[k + 1]]
      <4>2. b \in Nat /\ l \in Nat /\ address[list[i]] \in Nat
        BY <1>3, <3>1
      <4>3. b + l + Skip <= address[list[i]] /\ p + n + Skip <= b
        BY <3>1, <4>1
      <4> HIDE DEF b, l
      <4>4. QED
        BY SMTT(30), <1>2, <2>5, <2>7, <4>2, <4>3
    <3>4. QED
      BY <3>1, <3>2, <3>3
  <2>12. QED
    <3> HIDE DEF a, m
    <3>1. \A i \in 1..Len(list) : i <= k => address[list[i]] + size[list[i]] + Skip <= p
      BY <1>2, <1>3, <2>5, <2>7, <2>8
    <3>2. p \in Nat /\ SpaceBegin <= p
      BY <1>2, <2>5, <2>7
    <3>3. QED
      BY <2>10, <2>11, <3>1, <3>2
<1>7. CASE k = 0 /\ list # <<>>
  <2> DEFINE first == address[list[1]]
  <2>1. 1 \in 1..Len(list)
    BY <1>1, <1>7 DEF SpaceTypeOK
  <2>2. first \in Nat
    BY <1>3, <2>1
  <2>3. Add(Add(SpaceBegin, n), Skip) = SpaceBegin + n + Skip
    <3>1. Add(SpaceBegin, n) = SpaceBegin + n
      BY <1>2, SpaceIsFlat
    <3>2. SpaceBegin + n \in Nat /\ SpaceBegin + n + Skip < Word
      BY <1>2
    <3>3. QED
      BY <1>2, <3>1, <3>2, SpaceIsFlat
  <2>4. p = SpaceBegin /\ ~(first < SpaceBegin + n + Skip)
    BY <1>7, <2>3 DEF PlaceFor
  <2>5. \A i \in 1..Len(list) : first <= address[list[i]]
    <3> SUFFICES ASSUME NEW i \in 1..Len(list) PROVE first <= address[list[i]]
      OBVIOUS
    <3>1. CASE i = 1
      BY <2>2, <3>1
    <3>2. CASE 1 < i
      <4>1. first + size[list[1]] + Skip <= address[list[i]] /\ size[list[1]] \in Nat
        BY <1>3, <1>4, <2>1, <3>2
      <4>2. QED
        BY <1>2, <1>3, <2>2, <4>1
    <3>3. QED
      BY <3>1, <3>2
  <2>6. QED
    <3> HIDE DEF first
    <3>1. \A i \in 1..Len(list) : p + n + Skip <= address[list[i]]
      BY <1>2, <1>3, <2>2, <2>4, <2>5
    <3>2. \A i \in 1..Len(list) : ~(i <= k)
      BY <1>7
    <3>3. QED
      BY <1>2, <2>4, <3>1, <3>2
<1>8. CASE k = 0 /\ list = <<>>
  <2>1. p = SpaceBegin
    BY <1>8 DEF PlaceFor
  <2>2. QED
    BY <1>2, <1>8, <2>1
<1>9. QED
  BY <1>6, <1>7, <1>8

\* The search is exact: what it does not find a place for fits nowhere.
LEMMA NoPlaceNoRoom ==
    ASSUME SpaceTypeOK, NotTwice, SpaceSorted, NEW n \in 1..SpaceSize, PlaceFor(n) = 0,
           NEW a \in SpaceBegin..SpaceEnd
    PROVE  ~Fits(a, n)
<1> SUFFICES ASSUME Fits(a, n) PROVE FALSE
  OBVIOUS
<1>1. /\ SpaceBegin \in Nat /\ SpaceSize \in Nat /\ Skip \in Nat /\ Word \in Nat /\ SpaceBegin # 0
      /\ SpaceBegin + SpaceSize + Skip < Word /\ n \in Nat /\ 0 < n /\ n <= SpaceSize
      /\ SpaceEnd = SpaceBegin + SpaceSize /\ a \in Nat
  BY SpaceAssumption, SpaceIsFlat
<1>2. Len(list) \in Nat
  BY DEF SpaceTypeOK
<1>3. \A i \in 1..Len(list) :
         /\ address[list[i]] \in Nat /\ size[list[i]] \in Nat
         /\ SpaceBegin <= address[list[i]]
         /\ address[list[i]] + size[list[i]] <= SpaceBegin + SpaceSize
  BY RoomIsFlat DEF SpaceTypeOK, SpaceSorted
<1>4. /\ SpaceBegin <= a /\ a + n <= SpaceBegin + SpaceSize
      /\ \A i \in 1..Len(list) : \/ a + n + Skip <= address[list[i]]
                                 \/ address[list[i]] + size[list[i]] + Skip <= a
  BY <1>1 DEF Fits
<1>5. Add(n, Skip) = n + Skip
  BY <1>1, SpaceIsFlat
<1> DEFINE Below == {i \in 1..Len(list) : address[list[i]] + size[list[i]] + Skip <= a}
           k == Max(Below)
<1>6. CASE Below # {}
  <2>1. k \in Below /\ \A i \in Below : i <= k
    <3>1. Below \in SUBSET (1..Len(list))
      OBVIOUS
    <3> HIDE DEF Below
    <3>2. QED
      BY <1>2, <1>6, <3>1, LastOf
  <2> HIDE DEF k
  <2>2. k \in 1..Len(list) /\ address[list[k]] + size[list[k]] + Skip <= a
    BY <2>1
  <2>3. RoomAbove(k) >= n + Skip
    <3>1. RoomAbove(k) = (IF k = Len(list) THEN SpaceBegin + SpaceSize ELSE address[list[k + 1]] - Skip)
                            - (address[list[k]] + size[list[k]])
      BY <2>2, RoomIsFlat
    <3>2. address[list[k]] \in Nat /\ size[list[k]] \in Nat
      BY <1>3, <2>2
    <3>3. CASE k = Len(list)
      BY <1>1, <1>4, <2>2, <3>1, <3>2, <3>3
    <3>4. CASE k # Len(list)
      <4>1. k + 1 \in 1..Len(list) /\ ~(k + 1 <= k)
        BY <1>2, <2>2, <3>4
      <4>2. k + 1 \notin Below
        BY <2>1, <4>1
      <4>3. a + n + Skip <= address[list[k + 1]] /\ address[list[k + 1]] \in Nat
        BY <1>3, <1>4, <4>1, <4>2
      <4>4. RoomAbove(k) = address[list[k + 1]] - Skip - (address[list[k]] + size[list[k]])
        BY <3>1, <3>4
      <4>5. QED
        <5> DEFINE b == address[list[k]]
                   l == size[list[k]]
                   c == address[list[k + 1]]
        <5>1. /\ b \in Nat /\ l \in Nat /\ c \in Nat /\ RoomAbove(k) = c - Skip - (b + l)
              /\ b + l + Skip <= a /\ a + n + Skip <= c
          BY <2>2, <3>2, <4>3, <4>4
        <5> HIDE DEF b, l, c
        <5>2. QED
          BY <1>1, <5>1
    <3>5. QED
      BY <3>3, <3>4
  <2>4. FindSpace(n) # 0
    <3>1. /\ FindSpace(n) \in 0..Len(list)
          /\ \A i \in 1..Len(list) : i > FindSpace(n) => ~(RoomAbove(i) >= n + Skip)
      BY <1>5, FindSpaceIsLast DEF SpaceTypeOK
    <3>2. QED
      BY <2>2, <2>3, <3>1
  <2>5. FindSpace(n) \in 1..Len(list)
    BY <2>4, FindSpaceIsLast DEF SpaceTypeOK
  <2> DEFINE f == FindSpace(n)
             b == address[list[f]]
             m == size[list[f]]
  <2>6. EndOf(list[f]) = b + m
    BY <2>5, RoomIsFlat
  <2>7. PlaceFor(n) = Add(b + m, Skip)
    BY <2>4, <2>6 DEF PlaceFor
  <2>8. b \in Nat /\ m \in Nat /\ SpaceBegin <= b /\ b + m <= SpaceBegin + SpaceSize
    BY <1>3, <2>5
  <2> HIDE DEF f, b, m
  <2>9. b + m \in Nat /\ b + m + Skip < Word /\ b + m + Skip # 0
    BY <1>1, <2>8
  <2>10. PlaceFor(n) = b + m + Skip
    BY <1>1, <2>7, <2>9, SpaceIsFlat
  <2>11. QED
    BY <2>9, <2>10
<1>7. CASE Below = {}
  <2>1. \A i \in 1..Len(list) : a + n + Skip <= address[list[i]]
    BY <1>4, <1>7
  <2>2. Add(SpaceBegin, n) = SpaceBegin + n
    BY <1>1, SpaceIsFlat
  <2>3. Add(Add(SpaceBegin, n), Skip) = SpaceBegin + n + Skip
    <3>1. SpaceBegin + n \in Nat /\ SpaceBegin + n + Skip < Word
      BY <1>1
    <3>2. QED
      BY <1>1, <2>2, <3>1, SpaceIsFlat
  <2>4. FindSpace(n) = 0
    <3> SUFFICES ASSUME FindSpace(n) # 0 PROVE FALSE
      OBVIOUS
    <3>1. FindSpace(n) \in 1..Len(list)
      BY FindSpaceIsLast DEF SpaceTypeOK
    <3> DEFINE f == FindSpace(n)
               b == address[list[f]]
               m == size[list[f]]
    <3>2. EndOf(list[f]) = b + m
      BY <3>1, RoomIsFlat
    <3>3. PlaceFor(n) = Add(b + m, Skip)
      BY <3>2 DEF PlaceFor
    <3>4. b \in Nat /\ m \in Nat /\ SpaceBegin <= b /\ b + m <= SpaceBegin + SpaceSize
      BY <1>3, <3>1
    <3> HIDE DEF f, b, m
    <3>5. b + m \in Nat /\ b + m + Skip < Word /\ b + m + Skip # 0
      BY <1>1, <3>4
    <3>6. QED
      BY <1>1, <3>3, <3>5, SpaceIsFlat
  <2>5. CASE list # <<>>
    <3>1. 1 \in 1..Len(list)
      BY <1>2, <2>5 DEF SpaceTypeOK
    <3>2. address[list[1]] \in Nat /\ a + n + Skip <= address[list[1]]
      BY <1>3, <2>1, <3>1
    <3>3. ~(address[list[1]] < SpaceBegin + n + Skip)
      BY <1>1, <1>4, <3>2
    <3>4. PlaceFor(n) = SpaceBegin
      BY <2>3, <2>4, <2>5, <3>3 DEF PlaceFor
    <3>5. QED
      BY <1>1, <3>4
  <2>6. CASE list = <<>>
    <3>1. ~(SpaceEnd < Add(SpaceBegin, n))
      BY <1>1, <2>2
    <3>2. PlaceFor(n) = SpaceBegin
      BY <2>4, <2>6, <3>1 DEF PlaceFor
    <3>3. QED
      BY <1>1, <3>2
  <2>7. QED
    BY <2>5, <2>6
<1>8. QED
  BY <1>6, <1>7

\* Allocate for a block that has no address keeps the order.
LEMMA AllocateKeepsOrder ==
    ASSUME SpaceTypeOK, NotTwice, NEW b \in Blocks, NEW n \in 1..MaxSize, Allocate(b, n)
    PROVE  /\ SpaceTypeOK' /\ NotTwice'
           /\ Listed(b)' /\ address'[b] # 0
           /\ \A c \in Blocks : c # b => /\ Listed(c)' <=> Listed(c)
                                         /\ address'[c] = address[c] /\ size'[c] = size[c]
           /\ SpaceSorted => SpaceSorted'
<1> DEFINE k == FindSpace(n)
           p == PlaceFor(n)
<1>1. k \in 0..Len(list) /\ Len(list) \in Nat /\ n \in Nat /\ n \in 1..SpaceSize
  BY FindSpaceIsLast, SpaceAssumption DEF SpaceTypeOK
<1>2. /\ list' \in Seq(Blocks) /\ Len(list') = Len(list) + 1
      /\ \A i \in 1..Len(list) + 1 :
            list'[i] = IF i <= k THEN list[i] ELSE IF i = k + 1 THEN b ELSE list[i - 1]
  <2> DEFINE c == k + 1
  <2>1. list' = InsertAt(list, c, b)
    BY DEF Allocate
  <2>2. list \in Seq(Blocks) /\ c \in 1..Len(list) + 1
    BY <1>1 DEF SpaceTypeOK
  <2>3. \A i \in Int : i < c <=> i <= k
    BY <1>1
  <2> HIDE DEF c
  <2>4. IsInserted(list', list, c, b)
    BY <2>1, <2>2, InsertFacts
  <2>5. QED
    BY <2>3, <2>4, <1>1 DEF c, IsInserted
<1>3. p \in 0..Word - 1
  <2>1. CASE k # 0
    <3>1. k \in 1..Len(list) /\ list[k] \in Blocks
      BY <1>1, <2>1 DEF SpaceTypeOK
    <3>2. EndOf(list[k]) \in Int
      <4>1. address[list[k]] \in Int /\ size[list[k]] \in Int
        BY <3>1 DEF SpaceTypeOK
      <4>2. EndOf(list[k]) = Add(address[list[k]], size[list[k]])
        BY DEF EndOf
      <4>3. EndOf(list[k]) \in 0..Word - 1 /\ Word \in Nat
        BY <4>1, <4>2, SpaceIsFlat
      <4>4. QED
        BY <4>3
    <3>3. Skip \in Int /\ p = Add(EndOf(list[k]), Skip)
      BY <2>1, SpaceAssumption DEF PlaceFor
    <3>4. QED
      BY <3>2, <3>3, SpaceIsFlat
  <2>2. CASE k = 0
    <3>1. p \in {0, SpaceBegin}
      BY <2>2 DEF PlaceFor
    <3>2. QED
      BY <3>1, SpaceAssumption
  <2>3. QED
    BY <2>1, <2>2
<1>4. /\ ~Listed(b) /\ p # 0
      /\ address' = [address EXCEPT ![b] = p] /\ size' = [size EXCEPT ![b] = n]
  BY DEF Allocate
<1>5. /\ address'[b] = p /\ size'[b] = n
      /\ \A c \in Blocks : c # b => address'[c] = address[c] /\ size'[c] = size[c]
  BY <1>4 DEF SpaceTypeOK
<1>6. SpaceTypeOK'
  BY <1>1, <1>2, <1>3, <1>4 DEF SpaceTypeOK
<1> HIDE DEF k, p
\* Where each block of the new list stood, or the place of the new one.
<1>7. \A i \in 1..Len(list') :
         \/ i <= k /\ i \in 1..Len(list) /\ list'[i] = list[i]
         \/ i = k + 1 /\ list'[i] = b
         \/ i > k + 1 /\ i - 1 \in 1..Len(list) /\ list'[i] = list[i - 1]
  BY <1>1, <1>2
<1>8. \A i \in 1..Len(list) : list[i] \in Blocks /\ list[i] # b
  BY <1>4 DEF SpaceTypeOK, Listed
<1>9. NotTwice'
  <2> SUFFICES ASSUME NEW i \in 1..Len(list'), NEW j \in 1..Len(list'), list'[i] = list'[j]
               PROVE i = j
    BY DEF NotTwice
  <2>1. \A c, d \in 1..Len(list) : list[c] = list[d] => c = d
    BY DEF NotTwice
  <2>2. Len(list') \in Nat
    BY <1>1, <1>2
  <2>3. i \in Int /\ j \in Int /\ k \in Int
    BY <1>1, <2>2
  <2>4. CASE list'[i] = b
    BY <1>7, <1>8, <2>3, <2>4
  <2>5. CASE list'[i] # b
    <3>1. PICK c \in 1..Len(list) : list'[i] = list[c] /\ c = (IF i <= k THEN i ELSE i - 1) /\ i # k + 1
      BY <1>7, <2>3, <2>5
    <3>2. PICK d \in 1..Len(list) : list'[j] = list[d] /\ d = (IF j <= k THEN j ELSE j - 1) /\ j # k + 1
      BY <1>7, <2>3, <2>5
    <3>3. c = d
      BY <2>1, <3>1, <3>2
    <3>4. QED
      BY <2>3, <3>1, <3>2, <3>3
  <2>6. QED
    BY <2>4, <2>5
<1>10. \A c \in Blocks : Listed(c)' <=> Listed(c) \/ c = b
  <2> TAKE c \in Blocks
  <2>1. ASSUME Listed(c)' PROVE Listed(c) \/ c = b
    <3>1. PICK i \in 1..Len(list') : list'[i] = c
      BY <2>1 DEF Listed
    <3>2. QED
      BY <1>7, <3>1 DEF Listed
  <2>2. ASSUME Listed(c) PROVE Listed(c)'
    <3>1. PICK i \in 1..Len(list) : list[i] = c
      BY <2>2 DEF Listed
    <3>2. CASE i <= k
      <4>1. i \in 1..Len(list') /\ list'[i] = c
        BY <1>1, <1>2, <3>1, <3>2
      <4>2. QED
        BY <4>1 DEF Listed
    <3>3. CASE i > k
      <4>1. i + 1 \in 1..Len(list') /\ list'[i + 1] = c
        <5>1. i + 1 \in 1..Len(list) + 1 /\ ~(i + 1 <= k) /\ i + 1 # k + 1 /\ (i + 1) - 1 = i
          BY <1>1, <3>3
        <5>2. QED
          BY <1>2, <3>1, <5>1
      <4>2. QED
        BY <4>1 DEF Listed
    <3>4. QED
      BY <1>1, <3>2, <3>3
  <2>3. Listed(b)'
    <3>1. k + 1 \in 1..Len(list')
      BY <1>1, <1>2
    <3>2. list'[k + 1] = b
      BY <1>1, <1>7, <3>1
    <3>3. QED
      BY <3>1, <3>2 DEF Listed
  <2>4. QED
    BY <2>1, <2>2, <2>3
<1>11. ASSUME SpaceSorted PROVE SpaceSorted'
  <2>1. /\ p \in Nat /\ SpaceBegin <= p /\ p + n <= SpaceBegin + SpaceSize
        /\ \A i \in 1..Len(list) : i <= k => address[list[i]] + size[list[i]] + Skip <= p
        /\ \A i \in 1..Len(list) : i > k => p + n + Skip <= address[list[i]]
    BY <1>1, <1>4, <1>11, PlaceIsBetween DEF k, p
  <2>2. \A c \in Blocks : Listed(c)' <=> address'[c] # 0
    BY <1>4, <1>5, <1>10, <1>11 DEF SpaceSorted
  <2>3. \A c \in Blocks : address'[c] # 0 =>
           /\ size'[c] \in 1..MaxSize
           /\ SpaceBegin <= address'[c] /\ address'[c] + size'[c] <= SpaceBegin + SpaceSize
    BY <1>5, <1>11, <2>1 DEF SpaceSorted
  <2>4. ASSUME NEW i \in 1..Len(list'), NEW j \in 1..Len(list'), i < j
        PROVE address'[list'[i]] + size'[list'[i]] + Skip <= address'[list'[j]]
    <3>1. \A c \in 1..Len(list) : address'[list[c]] = address[list[c]] /\ size'[list[c]] = size[list[c]]
      BY <1>5, <1>8
    <3>2. \A c, d \in 1..Len(list) : c < d => address[list[c]] + size[list[c]] + Skip <= address[list[d]]
      BY <1>11 DEF SpaceSorted
    <3>3. i \in Int /\ j \in Int /\ k \in Int
      BY <1>1, <1>2
    <3>4. CASE list'[i] = b /\ i = k + 1
      <4>1. j - 1 \in 1..Len(list) /\ list'[j] = list[j - 1] /\ j - 1 > k
        BY <1>7, <2>4, <3>3, <3>4
      <4>2. QED
        BY SMTT(30), <1>5, <2>1, <3>1, <3>4, <4>1
    <3>5. CASE i <= k /\ i \in 1..Len(list) /\ list'[i] = list[i]
      <4>1. CASE j <= k /\ j \in 1..Len(list) /\ list'[j] = list[j]
        BY <2>4, <3>1, <3>2, <3>5, <4>1
      <4>2. CASE j = k + 1 /\ list'[j] = b
        BY <1>5, <2>1, <3>1, <3>5, <4>2
      <4>3. CASE j > k + 1 /\ j - 1 \in 1..Len(list) /\ list'[j] = list[j - 1]
        <5>1. i < j - 1
          BY <3>3, <3>5, <4>3
        <5>2. QED
          BY <3>1, <3>2, <3>5, <4>3, <5>1
      <4>4. QED
        BY <1>7, <4>1, <4>2, <4>3
    <3>6. CASE i > k + 1 /\ i - 1 \in 1..Len(list) /\ list'[i] = list[i - 1]
      <4>1. j - 1 \in 1..Len(list) /\ list'[j] = list[j - 1] /\ i - 1 < j - 1
        BY <1>7, <2>4, <3>3, <3>6
      <4>2. QED
        BY <3>1, <3>2, <3>6, <4>1
    <3>7. QED
      BY <1>7, <3>4, <3>5, <3>6
  <2>5. QED
    BY <2>2, <2>3, <2>4 DEF SpaceSorted
<1>12. QED
  BY <1>4, <1>5, <1>6, <1>9, <1>10, <1>11

\* Free takes a block out of the list, and keeps the order.
LEMMA FreeKeepsOrder ==
    ASSUME SpaceTypeOK, NotTwice, NEW b \in Blocks, Free(b)
    PROVE  /\ SpaceTypeOK' /\ NotTwice'
           /\ \A c \in Blocks : c # b => /\ Listed(c)' <=> Listed(c)
                                         /\ address'[c] = address[c] /\ size'[c] = size[c]
           /\ SpaceSorted => SpaceSorted'
<1>1. PICK k \in 1..Len(list) : list[k] = b /\ list' = RemoveAt(list, k)
  BY DEF Free
<1>2. Len(list) \in Nat /\ k \in Nat
  BY DEF SpaceTypeOK
<1>3. /\ list' \in Seq(Blocks) /\ Len(list') = Len(list) - 1
      /\ \A i \in 1..Len(list) - 1 : list'[i] = IF i < k THEN list[i] ELSE list[i + 1]
  BY <1>1, RemoveFacts DEF SpaceTypeOK
<1>4. /\ address' = [address EXCEPT ![b] = 0] /\ size' = [size EXCEPT ![b] = 0]
  BY DEF Free
<1>5. /\ address'[b] = 0 /\ size'[b] = 0
      /\ \A c \in Blocks : c # b => address'[c] = address[c] /\ size'[c] = size[c]
  BY <1>4 DEF SpaceTypeOK
<1>6. SpaceTypeOK'
  <2>1. 0 \in 0..Word - 1 /\ 0 \in Nat
    BY SpaceAssumption
  <2>2. QED
    BY <1>3, <1>4, <2>1 DEF SpaceTypeOK
<1>7. \A i \in 1..Len(list') :
         \/ i < k /\ i \in 1..Len(list) /\ list'[i] = list[i]
         \/ i >= k /\ i + 1 \in 1..Len(list) /\ list'[i] = list[i + 1]
  BY <1>2, <1>3
<1>8. \A i, j \in 1..Len(list) : list[i] = list[j] => i = j
  BY DEF NotTwice
<1>9. NotTwice'
  <2> SUFFICES ASSUME NEW i \in 1..Len(list'), NEW j \in 1..Len(list'), list'[i] = list'[j]
               PROVE i = j
    BY DEF NotTwice
  <2>1. Len(list') \in Nat
    BY <1>2, <1>3
  <2>2. QED
    BY <1>2, <1>7, <1>8, <2>1
<1>10. \A c \in Blocks : Listed(c)' <=> Listed(c) /\ c # b
  <2> TAKE c \in Blocks
  <2>1. ASSUME Listed(c)' PROVE Listed(c) /\ c # b
    <3>1. PICK i \in 1..Len(list') : list'[i] = c
      BY <2>1 DEF Listed
    <3>2. QED
      BY <1>1, <1>2, <1>3, <1>7, <1>8, <3>1 DEF Listed
  <2>2. ASSUME Listed(c), c # b PROVE Listed(c)'
    <3>1. PICK i \in 1..Len(list) : list[i] = c
      BY <2>2 DEF Listed
    <3>2. CASE i < k
      <4>1. i \in 1..Len(list') /\ list'[i] = c
        BY <1>2, <1>3, <3>1, <3>2
      <4>2. QED
        BY <4>1 DEF Listed
    <3>3. CASE i > k
      <4>1. i - 1 \in 1..Len(list') /\ list'[i - 1] = c
        <5>1. i - 1 \in 1..Len(list) - 1 /\ ~(i - 1 < k) /\ (i - 1) + 1 = i
          BY <1>2, <3>3
        <5>2. QED
          BY <1>3, <3>1, <5>1
      <4>2. QED
        BY <4>1 DEF Listed
    <3>4. QED
      BY <1>1, <1>2, <2>2, <3>1, <3>2, <3>3
  <2>3. QED
    BY <2>1, <2>2
<1>11. ASSUME SpaceSorted PROVE SpaceSorted'
  <2>1. \A c \in Blocks : Listed(c)' <=> address'[c] # 0
    BY <1>5, <1>10, <1>11 DEF SpaceSorted
  <2>2. \A c \in Blocks : address'[c] # 0 =>
           /\ size'[c] \in 1..MaxSize
           /\ SpaceBegin <= address'[c] /\ address'[c] + size'[c] <= SpaceBegin + SpaceSize
    BY <1>5, <1>11 DEF SpaceSorted
  <2>3. ASSUME NEW i \in 1..Len(list'), NEW j \in 1..Len(list'), i < j
        PROVE address'[list'[i]] + size'[list'[i]] + Skip <= address'[list'[j]]
    <3>1. \A c \in 1..Len(list) : c # k =>
             address'[list[c]] = address[list[c]] /\ size'[list[c]] = size[list[c]]
      BY SMTT(30), <1>1, <1>5, <1>8 DEF SpaceTypeOK
    <3>2. \A c, d \in 1..Len(list) : c < d => address[list[c]] + size[list[c]] + Skip <= address[list[d]]
      BY <1>11 DEF SpaceSorted
    <3>3. PICK c \in 1..Len(list) : list'[i] = list[c] /\ c # k /\ c = (IF i < k THEN i ELSE i + 1)
      BY <1>2, <1>3, <1>7
    <3>4. PICK d \in 1..Len(list) : list'[j] = list[d] /\ d # k /\ d = (IF j < k THEN j ELSE j + 1)
      BY <1>2, <1>3, <1>7
    <3>5. c < d
      BY <1>2, <1>3, <2>3, <3>3, <3>4
    <3>6. QED
      BY <3>1, <3>2, <3>3, <3>4, <3>5
  <2>4. QED
    BY <2>1, <2>2, <2>3 DEF SpaceSorted
<1>12. QED
  BY <1>5, <1>6, <1>9, <1>10, <1>11

\* Nothing is listed, in use or mapped.
LEMMA MemoryInitInv == Init => MemoryInv
<1> SUFFICES ASSUME Init PROVE MemoryInv
  OBVIOUS
<1>1. list = <<>> /\ Len(list) = 0 /\ list \in Seq(Blocks)
  BY DEF Init, InitSpace
<1>2. SpaceTypeOK
  <2>1. 0 \in 0..Word - 1
    BY SpaceAssumption
  <2>2. QED
    BY <1>1, <2>1 DEF Init, InitSpace, SpaceTypeOK
<1>3. \A b \in Blocks : ~Listed(b) /\ address[b] = 0
  BY <1>1 DEF Init, InitSpace, Listed
<1>4. NotTwice /\ SpaceSorted
  BY <1>1, <1>3 DEF NotTwice, SpaceSorted
<1>5. kernel \in [Blocks -> [begin : Int, size : Int]]
  BY DEF Init, Unmapped
<1>6. \A b \in Blocks : PhaseSays(b)
  BY <1>3 DEF Init, InitSpace, PhaseSays
<1>7. QED
  BY <1>2, <1>4, <1>5, <1>6 DEF Init, MemoryInv, Phases

\* Shared memory: the manager's steps keep the order, the kernel's leave it alone.
LEMMA MemoryStepInv ==
    ASSUME MemoryInv, Next
    PROVE  MemoryInv'
<1>1. /\ SpaceTypeOK /\ NotTwice /\ (~forgotten => SpaceSorted)
      /\ phase \in [Blocks -> Phases] /\ kernel \in [Blocks -> [begin : Int, size : Int]] /\ forgotten \in BOOLEAN
      /\ \A b \in Blocks : PhaseSays(b)
  BY DEF MemoryInv
<1>2. \A b, c \in Blocks : b # c => (phase'[b] = phase[b] /\ kernel'[b] = kernel[b] /\ (Listed(b)' <=> Listed(b))
                                     /\ address'[b] = address[b] /\ size'[b] = size[b] => PhaseSays(b)')
  BY <1>1 DEF PhaseSays, Unmapped
<1>3. ASSUME NEW b \in Blocks, NEW n \in 1..MaxSize, Map(b, n) PROVE MemoryInv'
  <2>1. /\ SpaceTypeOK' /\ NotTwice' /\ (~forgotten' => SpaceSorted') /\ Listed(b)' /\ address'[b] # 0
        /\ \A c \in Blocks : c # b => /\ Listed(c)' <=> Listed(c)
                                      /\ address'[c] = address[c] /\ size'[c] = size[c]
    BY <1>1, <1>3, AllocateKeepsOrder DEF Map
  <2>2. /\ phase' = [phase EXCEPT ![b] = "mapping"] /\ phase[b] = "none"
        /\ UNCHANGED <<kernel, forgotten>>
    BY <1>3 DEF Map, SetPhase
  <2>3. PhaseSays(b)'
    BY <1>1, <2>1, <2>2 DEF PhaseSays, Unmapped
  <2>4. \A c \in Blocks : PhaseSays(c)'
    BY <1>1, <1>2, <2>1, <2>2, <2>3
  <2>5. QED
    BY <1>1, <2>1, <2>2, <2>4 DEF MemoryInv, Phases
<1>4. ASSUME NEW b \in Blocks, MapInKernel(b) PROVE MemoryInv'
  <2>0. [begin |-> address[b], size |-> size[b]] \in [begin : Int, size : Int]
    BY <1>1 DEF SpaceTypeOK
  <2>1. /\ phase[b] = "mapping" /\ UNCHANGED <<space, forgotten>>
        /\ phase' \in [Blocks -> Phases] /\ kernel' \in [Blocks -> [begin : Int, size : Int]]
        /\ \/ phase'[b] = "mapped" /\ kernel'[b] = [begin |-> address[b], size |-> size[b]]
           \/ phase'[b] = "failed" /\ kernel'[b] = kernel[b]
        /\ \A c \in Blocks : c # b => phase'[c] = phase[c] /\ kernel'[c] = kernel[c]
    BY <1>1, <1>4, <2>0 DEF MapInKernel, SetPhase, Phases
  <2>2. /\ SpaceTypeOK' /\ NotTwice' /\ (~forgotten' => SpaceSorted')
        /\ \A c \in Blocks : Listed(c)' <=> Listed(c)
    BY <1>1, <2>1 DEF space, SpaceTypeOK, NotTwice, SpaceSorted, Listed
  <2>3. PhaseSays(b)'
    BY <1>1, <2>1, <2>2 DEF PhaseSays, Unmapped, space
  <2>4. \A c \in Blocks : PhaseSays(c)'
    BY <1>1, <1>2, <2>1, <2>2, <2>3 DEF space
  <2>5. QED
    BY <1>1, <2>1, <2>2, <2>4 DEF MemoryInv
<1>5. ASSUME NEW b \in Blocks, UnmapInKernel(b) PROVE MemoryInv'
  <2>1. /\ phase[b] \in {"mapped", "failed"} /\ address[b] # 0 /\ UNCHANGED <<space, forgotten>>
        /\ phase' = [phase EXCEPT ![b] = "unmapped"] /\ kernel' = [kernel EXCEPT ![b] = Unmapped]
    BY <1>5 DEF UnmapInKernel, SetPhase
  <2>2. /\ SpaceTypeOK' /\ NotTwice' /\ (~forgotten' => SpaceSorted')
        /\ \A c \in Blocks : Listed(c)' <=> Listed(c)
    BY <1>1, <2>1 DEF space, SpaceTypeOK, NotTwice, SpaceSorted, Listed
  <2>3. PhaseSays(b)'
    BY <1>1, <2>1, <2>2 DEF PhaseSays, Unmapped, space
  <2>4. \A c \in Blocks : PhaseSays(c)'
    BY <1>1, <1>2, <2>1, <2>2, <2>3 DEF space
  <2>5. QED
    BY <1>1, <2>1, <2>2, <2>4 DEF MemoryInv, Phases, Unmapped
<1>6. ASSUME NEW b \in Blocks, FreeRange(b) PROVE MemoryInv'
  <2>1. /\ SpaceTypeOK' /\ NotTwice' /\ (~forgotten' => SpaceSorted')
        /\ \A c \in Blocks : c # b => /\ Listed(c)' <=> Listed(c)
                                      /\ address'[c] = address[c] /\ size'[c] = size[c]
    BY <1>1, <1>6, FreeKeepsOrder DEF FreeRange
  <2>2. /\ phase' = [phase EXCEPT ![b] = "none"] /\ phase[b] = "unmapped"
        /\ UNCHANGED <<kernel, forgotten>>
    BY <1>6 DEF FreeRange, SetPhase
  <2>0. address'[b] = 0 /\ size'[b] = 0
    BY <1>1, <1>6 DEF FreeRange, Free, SpaceTypeOK
  <2>3. PhaseSays(b)'
    BY <1>1, <2>0, <2>2 DEF PhaseSays, Unmapped
  <2>4. \A c \in Blocks : PhaseSays(c)'
    BY <1>1, <1>2, <2>1, <2>2, <2>3
  <2>5. QED
    BY <1>1, <2>1, <2>2, <2>4 DEF MemoryInv, Phases
<1>7. ASSUME NEW b \in Blocks, ForgetRange(b) PROVE MemoryInv'
  <2>1. /\ phase' = [phase EXCEPT ![b] = "none"] /\ phase[b] = "failed"
        /\ address' = [address EXCEPT ![b] = 0] /\ size' = [size EXCEPT ![b] = 0]
        /\ forgotten' = TRUE /\ UNCHANGED <<list, kernel>>
    BY <1>7 DEF ForgetRange, SetPhase
  <2>2. 0 \in 0..Word - 1
    BY SpaceAssumption
  <2>3. SpaceTypeOK' /\ NotTwice' /\ \A c \in Blocks : Listed(c)' <=> Listed(c)
    BY <1>1, <2>1, <2>2 DEF SpaceTypeOK, NotTwice, Listed
  <2>0. address'[b] = 0 /\ size'[b] = 0
    BY <1>1, <2>1 DEF SpaceTypeOK
  <2>4. PhaseSays(b)'
    BY <1>1, <2>0, <2>1 DEF PhaseSays, Unmapped
  <2>5. \A c \in Blocks : c # b => address'[c] = address[c] /\ size'[c] = size[c]
    BY <1>1, <2>1 DEF SpaceTypeOK
  <2>6. \A c \in Blocks : PhaseSays(c)'
    BY <1>1, <1>2, <2>1, <2>3, <2>4, <2>5
  <2>7. QED
    BY <1>1, <2>1, <2>3, <2>6 DEF MemoryInv, Phases
<1>8. QED
  BY <1>3, <1>4, <1>5, <1>6, <1>7 DEF Next

\* Every step of the memory blocks keeps the invariant.
LEMMA MemoryNextInv == MemoryInv /\ [Next]_vars => MemoryInv'
<1> SUFFICES ASSUME MemoryInv, [Next]_vars PROVE MemoryInv'
  OBVIOUS
<1>1. CASE UNCHANGED vars
  BY <1>1 DEF vars, space, mapping, MemoryInv, SpaceTypeOK, NotTwice, SpaceSorted, PhaseSays, Listed
<1>2. CASE Next
  BY <1>2, MemoryStepInv
<1>3. QED
  BY <1>1, <1>2

\* The invariant holds in every state.
LEMMA MemoryInvariance == Spec => []MemoryInv
BY MemoryInitInv, MemoryNextInv, PTL DEF Spec

\* The order of the list says that neighbours are apart.
LEMMA SortedIsDisjoint ==
    ASSUME SpaceTypeOK, SpaceSorted
    PROVE  Disjoint
<1>1. \A i \in 1..Len(list) : list[i] \in Blocks /\ address[list[i]] # 0
  BY DEF SpaceTypeOK, SpaceSorted, Listed
<1>2. SpaceEnd = SpaceBegin + SpaceSize
  BY SpaceIsFlat
<1>3. \A i \in 1..Len(list) :
         SpaceBegin <= address[list[i]] /\ address[list[i]] + size[list[i]] <= SpaceEnd
  BY <1>1, <1>2 DEF SpaceSorted
<1>4. \A i \in 1..Len(list) - 1 : i \in 1..Len(list) /\ i + 1 \in 1..Len(list) /\ i < i + 1
  BY DEF SpaceTypeOK
<1>5. \A i \in 1..Len(list) - 1 : address[list[i]] + size[list[i]] + Skip <= address[list[i + 1]]
  BY <1>4 DEF SpaceSorted
<1>6. QED
  BY <1>3, <1>5 DEF Disjoint, SpaceSorted

\* A place that is found fits.
LEMMA SortedIsSearchable ==
    ASSUME SpaceTypeOK, NotTwice, SpaceSorted
    PROVE  SearchExact
<1>1. ASSUME NEW n \in 1..SpaceSize, PlaceFor(n) # 0 PROVE Fits(PlaceFor(n), n)
  <2>1. Len(list) \in Nat /\ FindSpace(n) \in 0..Len(list)
    BY FindSpaceIsLast DEF SpaceTypeOK
  <2>2. \A i \in 1..Len(list) : \/ PlaceFor(n) + n + Skip <= address[list[i]]
                                \/ address[list[i]] + size[list[i]] + Skip <= PlaceFor(n)
    BY <1>1, <2>1, PlaceIsBetween
  <2>3. SpaceBegin <= PlaceFor(n) /\ PlaceFor(n) + n <= SpaceEnd
    BY <1>1, PlaceIsBetween, SpaceIsFlat
  <2>4. QED
    BY <2>2, <2>3 DEF Fits
<1>2. QED
  BY <1>1, NoPlaceNoRoom DEF SearchExact

\* For any blocks, any space and any kernel: no two blocks are mapped over one
\* another, what is mapped stays allocated, and until a range is forgotten the
\* manager's list is sound and its search exact.
THEOREM MappingsAreSound == Spec => []MappingsSound
<1>1. MemoryInv => ManagerSound
  BY SortedIsDisjoint, SortedIsSearchable DEF MemoryInv, ManagerSound
<1>2. MemoryInv => MappedIsAllocated
  BY DEF MemoryInv, PhaseSays, MappedIsAllocated, Unmapped, SpaceTypeOK
<1>3. MemoryInv => KernelDisjoint
  <2> SUFFICES ASSUME MemoryInv, ~forgotten, NEW b \in Blocks, NEW c \in Blocks, b # c,
                      kernel[b].size > 0, kernel[c].size > 0
               PROVE  \/ kernel[b].begin + kernel[b].size <= kernel[c].begin
                      \/ kernel[c].begin + kernel[c].size <= kernel[b].begin
    BY DEF KernelDisjoint
  <2>1. /\ Listed(b) /\ kernel[b].begin = address[b] /\ kernel[b].size = size[b]
        /\ Listed(c) /\ kernel[c].begin = address[c] /\ kernel[c].size = size[c]
    <3>1. MappedIsAllocated
      BY <1>2
    <3>2. ASSUME NEW d \in Blocks, kernel[d].size > 0
          PROVE  Listed(d) /\ kernel[d].begin = address[d] /\ kernel[d].size = size[d]
      <4>1. Listed(d) /\ kernel[d] = [begin |-> address[d], size |-> size[d]]
        BY <3>1, <3>2 DEF MappedIsAllocated
      <4>2. \A x, y : [begin |-> x, size |-> y].begin = x /\ [begin |-> x, size |-> y].size = y
        OBVIOUS
      <4>3. QED
        BY <4>1, <4>2
    <3>3. QED
      BY <3>2
  <2>2. PICK i \in 1..Len(list), j \in 1..Len(list) : list[i] = b /\ list[j] = c
    BY <2>1 DEF Listed
  <2>3. Skip \in Nat /\ i \in Int /\ j \in Int /\ i # j
    <3>1. Skip \in Nat
      BY SpaceAssumption
    <3>2. QED
      BY <2>2, <3>1
  <2>4. \/ address[b] + size[b] + Skip <= address[c]
        \/ address[c] + size[c] + Skip <= address[b]
    BY <2>2, <2>3 DEF MemoryInv, SpaceSorted
  <2>5. address[b] \in Nat /\ size[b] \in Nat /\ address[c] \in Nat /\ size[c] \in Nat
    BY DEF MemoryInv, SpaceTypeOK
  <2>6. QED
    BY <2>1, <2>3, <2>4, <2>5
<1>4. MemoryInv => MappingsSound
  BY <1>1, <1>2, <1>3 DEF MappingsSound
<1>5. QED
  BY <1>4, MemoryInvariance, PTL

\* Every step of a block is one of the ranges' or changes none of them, for any
\* blocks, space, width of a word and kernel.
THEOREM MemoryImplementsRanges == Spec => ImplementsRanges
<1> DEFINE reserved == [b \in Blocks |-> [begin |-> address[b], size |-> size[b]]]
<1>1. Init => Ranges!Init
  BY DEF Init, InitSpace, Unmapped, Ranges!Init, Ranges!None
<1>2. ASSUME MemoryInv, Next
      PROVE  \/ Ranges!Next \/ (forgotten /\ ReservesAnywhere)
             \/ UNCHANGED <<address, size, kernel>>
  <2>1. \A b \in Blocks : PhaseSays(b)
    BY <1>2 DEF MemoryInv
  <2>2. SpaceTypeOK /\ NotTwice
    BY <1>2 DEF MemoryInv
  <2>a. kernel \in [Blocks -> [begin : Int, size : Int]]
    BY <1>2 DEF MemoryInv
  <2>b. \A b \in Blocks : reserved[b] = [begin |-> address[b], size |-> size[b]]
    OBVIOUS
  <2>c. Unmapped = Ranges!None /\ Ranges!None.begin = 0
    BY DEF Unmapped, Ranges!None
  <2>d. \A b \in Blocks : address[b] # 0 => reserved[b] # Ranges!None
    BY <2>b, <2>c
  <2>3. ASSUME NEW b \in Blocks, NEW n \in 1..MaxSize, Map(b, n), ~forgotten
        PROVE  Ranges!Reserve(b)
    <3> DEFINE first == PlaceFor(n)
               range == [begin |-> first, size |-> n]
    <3>1. /\ SpaceSorted /\ n \in 1..SpaceSize /\ first # 0 /\ first \in Nat
          /\ SpaceBegin \in Nat /\ SpaceSize \in Nat /\ Skip \in Nat
      <4>1. SpaceSorted /\ n \in 1..SpaceSize /\ first # 0
        BY <1>2, <2>3, SpaceAssumption DEF MemoryInv, Map, Allocate
      <4>2. QED
        BY <2>2, <4>1, PlaceIsBetween, SpaceAssumption
    <3>2. SearchExact /\ SpaceEnd = SpaceBegin + SpaceSize
      BY <2>2, <3>1, SortedIsSearchable, SpaceIsFlat
    <3>3. Fits(first, n)
      BY <3>1, <3>2 DEF SearchExact
    <3>4. first \in SpaceBegin..SpaceBegin + SpaceSize /\ first + n <= SpaceBegin + SpaceSize
      BY <3>1, <3>2, <3>3 DEF Fits
    <3>5. reserved[b] = Ranges!None
      <4>1. address[b] = 0 /\ size[b] = 0
        BY <2>1, <2>3 DEF Map, PhaseSays
      <4>2. QED
        BY <2>b, <4>1 DEF Ranges!None
    <3>6. ASSUME NEW c \in Blocks, reserved[c] # Ranges!None
          PROVE  Ranges!Apart(range, reserved[c])
      <4>1. address[c] # 0
        BY <2>1, <2>b, <3>6 DEF PhaseSays, Ranges!None
      <4>2. PICK i \in 1..Len(list) : list[i] = c
        BY <3>1, <4>1 DEF SpaceSorted, Listed
      <4>3. first + n + Skip <= address[c] \/ address[c] + size[c] + Skip <= first
        BY <3>3, <4>2 DEF Fits
      <4>4. QED
        BY <2>b, <4>3 DEF Ranges!Apart
    <3>7. [c \in Blocks |-> [begin |-> address'[c], size |-> size'[c]]] = [reserved EXCEPT ![b] = range]
      BY <2>2, <2>3 DEF Map, Allocate, SpaceTypeOK
    <3>8. UNCHANGED kernel
      BY <2>3 DEF Map
    <3>9. QED
      BY <3>4, <3>5, <3>6, <3>7, <3>8 DEF Ranges!Reserve, Ranges!Free
  <2>4. ASSUME NEW b \in Blocks, MapInKernel(b)
        PROVE  Ranges!Map(b) \/ UNCHANGED <<address, size, kernel>>
    <3>1. reserved[b] # Ranges!None /\ kernel[b] = Ranges!None /\ UNCHANGED <<address, size>>
      BY <2>1, <2>4, <2>c, <2>d DEF MapInKernel, PhaseSays, space
    <3>2. kernel' = [kernel EXCEPT ![b] = reserved[b]] \/ UNCHANGED kernel
      BY <2>4, <2>b DEF MapInKernel
    <3>3. QED
      BY <3>1, <3>2 DEF Ranges!Map
  <2>5. ASSUME NEW b \in Blocks, UnmapInKernel(b)
        PROVE  Ranges!Unmap(b) \/ UNCHANGED <<address, size, kernel>>
    <3>1. kernel' = [kernel EXCEPT ![b] = Ranges!None] /\ UNCHANGED <<address, size>>
      BY <2>5, <2>c DEF UnmapInKernel, space
    <3>2. CASE kernel[b] = Ranges!None
      BY <2>a, <3>1, <3>2
    <3>3. CASE kernel[b] # Ranges!None
      BY <3>1, <3>3 DEF Ranges!Unmap
    <3>4. QED
      BY <3>2, <3>3
  <2>e. ASSUME NEW b \in Blocks, phase[b] \in {"unmapped", "failed"}, UNCHANGED kernel,
               address' = [address EXCEPT ![b] = 0], size' = [size EXCEPT ![b] = 0]
        PROVE  Ranges!Release(b)
    <3>1. reserved[b] # Ranges!None /\ kernel[b] = Ranges!None
      BY <2>1, <2>c, <2>d, <2>e DEF PhaseSays
    <3>2. [c \in Blocks |-> [begin |-> address'[c], size |-> size'[c]]] = [reserved EXCEPT ![b] = Ranges!None]
      BY <2>2, <2>e DEF SpaceTypeOK, Ranges!None
    <3>3. QED
      BY <2>e, <3>1, <3>2 DEF Ranges!Release
  <2>6. ASSUME NEW b \in Blocks, FreeRange(b) PROVE Ranges!Release(b)
    BY <2>6, <2>e DEF FreeRange, Free
  <2>7. ASSUME NEW b \in Blocks, ForgetRange(b) PROVE Ranges!Release(b)
    BY <2>7, <2>e DEF ForgetRange
  <2>8. ASSUME NEW b \in Blocks, NEW n \in 1..MaxSize, Map(b, n) PROVE ReservesAnywhere
    BY <1>2, <2>8 DEF Map, SetPhase, ReservesAnywhere, MemoryInv
  <2>9. QED
    BY <1>2, <2>3, <2>4, <2>5, <2>6, <2>7, <2>8 DEF Next, Ranges!Next
<1>3. MemoryInv /\ [Next]_vars => [Ranges!Next \/ (forgotten /\ ReservesAnywhere)]_<<address, size, kernel>>
  BY <1>2 DEF vars, space, mapping
<1>4. QED
  BY <1>1, <1>3, MemoryInvariance, PTL DEF Spec, ImplementsRanges
==============================================================================
