--------------------------- MODULE StreamingLZProofs ---------------------------
(***************************************************************************)
(* Proof that the decompression of LZ data in pieces writes what the data   *)
(* stand for, wherever the pieces end (StreamingLZ), for any headers, bytes *)
(* and pieces. What the context holds between two bytes is related to the   *)
(* format read at once by what every continuation of the data has in        *)
(* common: the parts that are complete are read from it in the same way.    *)
(***************************************************************************)
EXTENDS StreamingLZ, SequenceTheorems, WellFoundedInduction, TLAPS

Bytes == 0 .. 255

------------------------------------------------------------------------------
(* Functions that are defined step by step. *)

\* Induction, of a set of natural numbers.
LEMMA AllNaturals ==
    ASSUME NEW S \in SUBSET Nat, 0 \in S, \A n \in S : n + 1 \in S
    PROVE  S = Nat
<1> SUFFICES ASSUME Nat \ S # {} PROVE FALSE
  OBVIOUS
<1> DEFINE Less == {p \in Nat \X Nat : p[1] < p[2]}
<1>1. IsWellFoundedOn(Less, Nat)
  BY NatLessThanWellFounded DEF OpToRel
<1>2. PICK m \in Nat \ S : \A n \in Nat \ S : <<n, m>> \notin Less
  BY <1>1, WFMin
<1>3. m - 1 \in Nat /\ <<m - 1, m>> \in Less /\ (m - 1) + 1 = m
  BY <1>2
<1>4. m - 1 \in S
  BY <1>2, <1>3
<1>5. QED
  BY <1>2, <1>3, <1>4

\* What is read of s, part by part.
Reads(s, forced) ==
    CHOOSE f : f = [k \in 0 .. Len(s) |-> IF k = 0 THEN StartOf(s) ELSE NextRead(s, forced, f[k - 1])]

\* It is read step by step.
LEMMA ReadsExist ==
    ASSUME NEW s, NEW forced, Len(s) \in Nat
    PROVE  /\ Reads(s, forced)[0] = StartOf(s)
           /\ \A k \in 1 .. Len(s) : Reads(s, forced)[k] = NextRead(s, forced, Reads(s, forced)[k - 1])
<1> DEFINE Next1(r) == NextRead(s, forced, r)
           Begin == StartOf(s)
           Is(f, n) == f = [k \in 0 .. n |-> IF k = 0 THEN Begin ELSE Next1(f[k - 1])]
           S == {n \in Nat : \E f : Is(f, n)}
<1> HIDE DEF Next1, Begin
<1>1. 0 \in S
  <2>1. Is([k \in 0 .. 0 |-> Begin], 0)
    OBVIOUS
  <2>2. QED
    BY <2>1
<1>2. ASSUME NEW n \in S PROVE n + 1 \in S
  <2>1. PICK f : Is(f, n)
    OBVIOUS
  <2> DEFINE e == [k \in 0 .. n + 1 |-> IF k = n + 1 THEN Next1(f[n]) ELSE f[k]]
  <2>2. e = [k \in 0 .. n + 1 |-> IF k = 0 THEN Begin ELSE Next1(e[k - 1])]
    <3>1. ASSUME NEW k \in 0 .. n + 1 PROVE e[k] = IF k = 0 THEN Begin ELSE Next1(e[k - 1])
      <4>1. CASE k = n + 1
        <5>1. e[k] = Next1(f[n]) /\ n \in 0 .. n + 1 /\ n # n + 1 /\ k # 0 /\ k - 1 = n
          BY <4>1
        <5>2. e[n] = f[n]
          BY <5>1
        <5>3. QED
          BY <5>1, <5>2
      <4>2. CASE k # n + 1
        <5>1. k \in 0 .. n /\ (k # 0 => k - 1 \in 0 .. n /\ k - 1 # n + 1 /\ k - 1 \in 0 .. n + 1)
          BY <4>2
        <5>2. e[k] = f[k] /\ (k # 0 => e[k - 1] = f[k - 1])
          BY <4>2, <5>1
        <5>3. f[k] = IF k = 0 THEN Begin ELSE Next1(f[k - 1])
          BY <2>1, <5>1
        <5>4. QED
          BY <5>2, <5>3
      <4>3. QED
        BY <4>1, <4>2
    <3> HIDE DEF e
    <3>2. DOMAIN e = 0 .. n + 1 /\ e = [k \in 0 .. n + 1 |-> e[k]]
      BY DEF e
    <3>3. QED
      BY <3>1, <3>2
  <2> HIDE DEF e
  <2>3. QED
    BY SMTT(30), <2>2
<1> HIDE DEF S
<1>3. Len(s) \in S
  BY <1>1, <1>2, AllNaturals DEF S
<1>4. PICK f : Is(f, Len(s))
  BY <1>3 DEF S
<1>5. Is(Reads(s, forced), Len(s))
  BY <1>4 DEF Reads, Next1, Begin
<1>6. QED
  BY <1>5 DEF Next1, Begin

\* The data stand for what is read of them in as many steps as they have bytes.
LEMMA DecodedIsRead ==
    ASSUME NEW s, NEW forced
    PROVE  Decoded(s, forced) = Reads(s, forced)[Len(s)].out
BY DEF Decoded, Reads

\* Once nothing more can be read, it stays so.
LEMMA ReadsStay ==
    ASSUME NEW s, NEW forced, Len(s) \in Nat, NEW k \in 0 .. Len(s),
           NextRead(s, forced, Reads(s, forced)[k]) = Reads(s, forced)[k]
    PROVE  Decoded(s, forced) = Reads(s, forced)[k].out
<1> DEFINE f == Reads(s, forced)
           S == {d \in Nat : k + d <= Len(s) => f[k + d] = f[k]}
<1>1. \A i \in 1 .. Len(s) : f[i] = NextRead(s, forced, f[i - 1])
  BY ReadsExist
<1>2. f[k] = NextRead(s, forced, f[k])
  OBVIOUS
<1> HIDE DEF f
<1>3. 0 \in S
  BY k + 0 = k
<1>4. ASSUME NEW d \in S PROVE d + 1 \in S
  <2>1. SUFFICES ASSUME k + (d + 1) <= Len(s) PROVE f[k + (d + 1)] = f[k]
    OBVIOUS
  <2>2. d \in Nat /\ k + (d + 1) \in 1 .. Len(s) /\ (k + (d + 1)) - 1 = k + d /\ k + d <= Len(s)
    BY <2>1
  <2>3. f[k + d] = f[k]
    BY <2>2
  <2>4. QED
    BY <1>1, <1>2, <2>2, <2>3
<1> HIDE DEF S
<1>5. Len(s) - k \in S
  <2>1. Len(s) - k \in Nat
    OBVIOUS
  <2>2. QED
    BY <1>3, <1>4, <2>1, AllNaturals DEF S
<1>6. f[Len(s)] = f[k]
  <2>1. k + (Len(s) - k) = Len(s)
    OBVIOUS
  <2>2. QED
    BY <1>5, <2>1 DEF S
<1>7. QED
  BY <1>6, DecodedIsRead DEF f

------------------------------------------------------------------------------
(* Copies. *)

\* So many turns, and then less than one.
LEMMA Turns ==
    ASSUME NEW n \in Nat \ {0}, NEW a \in Nat
    PROVE  \E q \in Nat, r \in 0 .. n - 1 : a = q * n + r
<1> DEFINE S == {b \in Nat : \E q \in Nat, r \in 0 .. n - 1 : b = q * n + r}
<1>1. 0 \in S
  <2>1. 0 = 0 * n + 0 /\ 0 \in 0 .. n - 1
    OBVIOUS
  <2>2. QED
    BY <2>1
<1>2. ASSUME NEW b \in S PROVE b + 1 \in S
  <2>1. PICK q \in Nat, r \in 0 .. n - 1 : b = q * n + r
    OBVIOUS
  <2>2. CASE r + 1 < n
    <3>1. b + 1 = q * n + (r + 1) /\ r + 1 \in 0 .. n - 1
      BY <2>1, <2>2
    <3>2. QED
      BY <3>1
  <2>3. CASE r + 1 = n
    <3>1. b + 1 = (q + 1) * n + 0 /\ q + 1 \in Nat /\ 0 \in 0 .. n - 1
      BY <2>1, <2>3
    <3>2. \E p \in Nat, t \in 0 .. n - 1 : b + 1 = p * n + t
      BY <3>1, Zenon
    <3>3. QED
      BY <3>2
  <2>4. QED
    BY <2>2, <2>3
<1>3. S \in SUBSET Nat
  OBVIOUS
<1> HIDE DEF S
<1>4. a \in S
  BY <1>1, <1>2, <1>3, AllNaturals
<1>5. QED
  BY <1>4 DEF S

\* The remainder after a number of turns.
LEMMA AfterTurns ==
    ASSUME NEW n \in Nat \ {0}, NEW q \in Nat, NEW r \in 0 .. n - 1
    PROVE  (q * n + r) % n = r
BY SMTT(60)

\* A turn of n more or less leads to the same place.
LEMMA TurnBack ==
    ASSUME NEW n \in Nat \ {0}, NEW a \in Nat
    PROVE  a % n \in 0 .. n - 1 /\ (a < n => a % n = a) /\ (a >= n => a % n = (a - n) % n)
<1>1. PICK q \in Nat, r \in 0 .. n - 1 : a = q * n + r
  BY Turns
<1>2. a % n = r
  BY <1>1, AfterTurns
<1>3. ASSUME a < n PROVE q = 0
  <2>1. CASE q >= 1
    <3>1. q * n >= n
      BY <2>1
    <3>2. QED
      BY <1>1, <1>3, <3>1
  <2>2. QED
    BY <2>1
<1>4. ASSUME a < n PROVE a % n = a
  BY <1>1, <1>2, <1>3, <1>4
<1>5. ASSUME a >= n PROVE a % n = (a - n) % n
  <2>1. q # 0
    BY <1>1, <1>5
  <2>2. q - 1 \in Nat /\ a - n = (q - 1) * n + r
    BY <1>1, <2>1
  <2>3. (a - n) % n = r
    BY <2>2, AfterTurns
  <2>4. QED
    BY <1>2, <2>3
<1>6. QED
  BY <1>2, <1>4, <1>5

\* The sequences that `copied' of Repeated goes through.
Copies(out, offset, n) ==
    CHOOSE f : f = [i \in 0 .. n |-> IF i = 0 THEN out
                    ELSE LET before == f[i - 1] IN Append(before, before[(Len(out) + i) - offset])]

\* The first i of the copied bytes: those before, over and over.
Turned(out, offset, i) == [j \in 1 .. i |-> out[Len(out) - offset + 1 + ((j - 1) % offset)]]

\* Another byte is the one `offset' before it, also where that was copied itself.
LEMMA TurnedOn ==
    ASSUME NEW T, NEW out \in Seq(T), NEW offset \in 1 .. Len(out), NEW i \in Nat
    PROVE  /\ out \o Turned(out, offset, i) \in Seq(T)
           /\ out \o Turned(out, offset, i + 1)
                = Append(out \o Turned(out, offset, i),
                         (out \o Turned(out, offset, i))[(Len(out) + (i + 1)) - offset])
<1> DEFINE c(k) == Turned(out, offset, k)
           n == Len(out)
<1>1. n \in Nat /\ offset \in Nat \ {0} /\ offset <= n
  OBVIOUS
<1>2. ASSUME NEW j \in Nat \ {0}
      PROVE  n - offset + 1 + ((j - 1) % offset) \in 1 .. n
  <2>1. j - 1 \in Nat
    OBVIOUS
  <2>2. (j - 1) % offset \in 0 .. offset - 1
    BY <1>1, <2>1, TurnBack
  <2>3. QED
    BY <1>1, <2>2
<1>3. ASSUME NEW k \in Nat
      PROVE  /\ c(k) \in Seq(T) /\ Len(c(k)) = k
             /\ \A j \in 1 .. k : c(k)[j] = out[n - offset + 1 + ((j - 1) % offset)]
  <2>1. \A j \in 1 .. k : out[n - offset + 1 + ((j - 1) % offset)] \in T
    BY <1>2
  <2>2. c(k) \in [1 .. k -> T]
    BY <2>1 DEF Turned
  <2>3. QED
    BY <2>2 DEF Turned
<1> HIDE DEF c
<1>4. i + 1 \in Nat /\ c(i) \in Seq(T) /\ Len(c(i)) = i /\ c(i + 1) \in Seq(T) /\ Len(c(i + 1)) = i + 1
  <2>1. i + 1 \in Nat
    OBVIOUS
  <2>2. QED
    BY <1>3, <2>1
<1>5. ASSUME NEW j \in 1 .. i PROVE c(i + 1)[j] = c(i)[j]
  <2>1. j \in 1 .. i + 1
    OBVIOUS
  <2>2. QED
    BY <1>3, <1>4, <2>1
<1> DEFINE x == out \o c(i)
           y == out \o c(i + 1)
           at == (n + (i + 1)) - offset
<1>6. /\ x \in Seq(T) /\ y \in Seq(T) /\ Len(x) = n + i /\ Len(y) = n + (i + 1)
      /\ \A j \in 1 .. n : x[j] = out[j] /\ y[j] = out[j]
      /\ \A j \in 1 .. i : x[n + j] = c(i)[j]
      /\ \A j \in 1 .. i + 1 : y[n + j] = c(i + 1)[j]
  BY <1>1, <1>4
<1>7. c(i + 1)[i + 1] = out[n - offset + 1 + (i % offset)]
  <2>1. i + 1 \in 1 .. i + 1 /\ (i + 1) - 1 = i
    OBVIOUS
  <2>2. QED
    BY <1>3, <1>4, <2>1
<1>8. x[at] = c(i + 1)[i + 1]
  <2>1. CASE i < offset
    <3>1. i % offset = i
      BY <1>1, <2>1, TurnBack
    <3>2. at \in 1 .. n /\ at = n - offset + 1 + i
      BY <1>1, <2>1
    <3>3. QED
      BY <1>6, <1>7, <3>1, <3>2
  <2>2. CASE i >= offset
    <3> DEFINE j == (i + 1) - offset
    <3>1. j \in 1 .. i /\ j - 1 = i - offset /\ at = n + j
      BY <1>1, <2>2
    <3>2. i % offset = (j - 1) % offset
      BY <1>1, <2>2, <3>1, TurnBack
    <3>3. c(i)[j] = out[n - offset + 1 + ((j - 1) % offset)]
      BY <1>3, <3>1
    <3>4. QED
      BY <1>6, <1>7, <3>1, <3>2, <3>3
  <2>3. i < offset \/ i >= offset
    BY <1>1
  <2>4. QED
    BY <2>1, <2>2, <2>3
<1>9. at \in 1 .. n + i /\ x[at] \in T
  <2>1. at \in 1 .. n + i
    BY <1>1
  <2>2. QED
    BY <1>6, <2>1
<1> HIDE DEF x, y, at
<1>10. y = Append(x, x[at])
  <2> DEFINE z == Append(x, x[at])
  <2>1. /\ z \in Seq(T) /\ Len(z) = n + (i + 1) /\ z[n + (i + 1)] = x[at]
        /\ \A j \in 1 .. n + i : z[j] = x[j]
    <3>1. /\ z \in Seq(T) /\ Len(z) = Len(x) + 1 /\ z[Len(x) + 1] = x[at]
          /\ \A j \in 1 .. Len(x) : z[j] = x[j]
      <4>1. x \in Seq(T) /\ x[at] \in T
        BY <1>6, <1>9
      <4>2. QED
        BY <4>1, AppendProperties
    <3>2. Len(x) + 1 = n + (i + 1)
      BY <1>1, <1>6
    <3>3. QED
      BY <1>6, <3>1, <3>2
  <2> HIDE DEF z
  <2>2. y[n + (i + 1)] = x[at]
    <3>1. i + 1 \in 1 .. i + 1
      OBVIOUS
    <3>2. QED
      BY <1>6, <1>8, <3>1
  <2>3. ASSUME NEW j \in 1 .. n + i PROVE y[j] = x[j]
    <3>1. CASE j <= n
      BY <1>1, <1>6, <3>1
    <3>2. CASE j > n
      <4>1. j - n \in 1 .. i /\ j - n \in 1 .. i + 1 /\ n + (j - n) = j
        BY <1>1, <3>2
      <4>2. QED
        BY ZenonT(30), <1>5, <1>6, <4>1
    <3>3. QED
      BY <1>1, <3>1, <3>2
  <2>4. ASSUME NEW j \in 1 .. n + (i + 1) PROVE y[j] = z[j]
    <3>1. j = n + (i + 1) \/ j \in 1 .. n + i
      BY <1>1
    <3>2. QED
      BY <2>1, <2>2, <2>3, <3>1
  <2>5. y = z
    BY <1>6, <2>1, <2>4, SeqEqual
  <2>6. QED
    BY <2>5 DEF z
<1>11. QED
  BY <1>6, <1>10 DEF x, y, at, c

\* Bytes appended one after the other, each the one `offset' before it, repeat the
\* last `offset' of those before the copy.
LEMMA RepeatedTurns ==
    ASSUME NEW T, NEW out \in Seq(T), NEW offset \in 1 .. Len(out), NEW n \in Nat
    PROVE  Repeated(out, offset, n) = out \o Turned(out, offset, n)
<1> DEFINE g(i) == out \o Turned(out, offset, i)
           Step1(before, i) == Append(before, before[(Len(out) + i) - offset])
           f == [i \in 0 .. n |-> g(i)]
           h == Copies(out, offset, n)
           S == {i \in Nat : i <= n => h[i] = g(i)}
<1>1. \A i \in Nat : g(i + 1) = Step1(g(i), i + 1)
  BY TurnedOn
<1>2. g(0) = out
  <2>1. Turned(out, offset, 0) = <<>>
    BY DEF Turned
  <2>2. QED
    BY <2>1
<1> HIDE DEF g, Step1
<1>3. f = [i \in 0 .. n |-> IF i = 0 THEN out ELSE Step1(f[i - 1], i)]
  <2>1. ASSUME NEW i \in 0 .. n PROVE f[i] = IF i = 0 THEN out ELSE Step1(f[i - 1], i)
    <3>1. CASE i = 0
      BY <1>2, <3>1
    <3>2. CASE i # 0
      <4>1. i - 1 \in Nat /\ (i - 1) + 1 = i /\ i - 1 \in 0 .. n
        BY <3>2
      <4>2. f[i] = g(i) /\ f[i - 1] = g(i - 1)
        BY <4>1
      <4>3. QED
        BY <1>1, <3>2, <4>1, <4>2
    <3>3. QED
      BY <3>1, <3>2
  <2>2. QED
    BY <2>1
<1> HIDE DEF f
<1>4. h = [i \in 0 .. n |-> IF i = 0 THEN out ELSE Step1(h[i - 1], i)]
  BY <1>3 DEF Copies, Step1
<1> HIDE DEF h
<1>5. 0 \in S
  BY <1>2, <1>4
<1>6. ASSUME NEW i \in S PROVE i + 1 \in S
  <2>1. SUFFICES ASSUME i + 1 <= n PROVE h[i + 1] = g(i + 1)
    OBVIOUS
  <2>2. i \in Nat /\ i + 1 \in 0 .. n /\ i + 1 # 0 /\ (i + 1) - 1 = i /\ h[i] = g(i)
    BY <2>1
  <2>3. QED
    BY <1>1, <1>4, <2>2
<1>7. S \in SUBSET Nat
  OBVIOUS
<1>8. h[n] = g(n)
  <2> HIDE DEF S
  <2>1. n \in S
    BY <1>5, <1>6, <1>7, AllNaturals
  <2>2. QED
    BY <2>1 DEF S
<1>9. Repeated(out, offset, n) = Copies(out, offset, n)[n]
  BY DEF Repeated, Copies
<1>10. QED
  BY <1>8, <1>9 DEF h, g

------------------------------------------------------------------------------
(* What the context says of the bytes read. *)

Forced == context.forceDestCount

LzTypeOK ==
    /\ context \in [destCount : Nat, forceDestCount : Nat, length : Nat, lengthFlg : 0 .. 3,
                    flags : Bytes, flagIndex : 0 .. 8, headerSize : 0 .. 8, exFormat : 0 .. 15]
    /\ dest \in Seq(Bytes) /\ stream \in Seq(Bytes)
    /\ len \in Nat /\ result \in Int
    /\ result = -4 => len = 0

\* The first byte gives the format.
FormatSays == stream # <<>> => stream[1] \in {16, 17} /\ context.exFormat = stream[1] % 16

\* The size as far as it is read.
HeaderSum(s) ==
    LET digit(i, place) == IF i <= Len(s) THEN Digit(s[i], place) ELSE 0
    IN IF Len(s) < 4 THEN digit(2, 0) + digit(3, 1) + digit(4, 2)
       ELSE digit(5, 0) + digit(6, 1) + digit(7, 2) + digit(8, 3)

HeaderSays ==
    context.headerSize > 0 =>
        /\ Len(stream) = 8 - context.headerSize
        /\ Len(stream) >= 4 => IsWide(stream)
        /\ context.destCount = HeaderSum(stream)
        /\ dest = <<>> /\ context.flagIndex = 0 /\ context.lengthFlg = 3
        /\ stream # <<>> /\ len = 0 => result = -1
        /\ result # -4

SizeSays ==
    context.headerSize = 0 =>
        /\ Len(stream) >= HeaderLength(stream)
        /\ Len(dest) + context.destCount = SizeToWrite(stream, Forced)
        /\ len > 0 => context.destCount > 0
        /\ len = 0 => \/ result = context.destCount
                      \/ result = -3 /\ context.destCount = 0
                      \/ result = -4 /\ context.destCount > 0

Begins(s, u) == Len(s) <= Len(u) /\ \A i \in 1 .. Len(s) : u[i] = s[i]

\* The complete parts end at `at': however the data go on, they are read so.
Now(at, flags) == [at |-> at, out |-> dest, flags |-> flags, bits |-> context.flagIndex]
Reached(at, flags) ==
    \E k \in 0 .. at : \A u \in Seq(Bytes) : Begins(stream, u) => Reads(u, Forced)[k] = Now(at, flags)

\* The flags that are left are those of the flag byte, moved up.
FlagsSay(flags) ==
    context.flagIndex > 0 =>
        context.flags = (flags * <<128, 64, 32, 16, 8, 4, 2, 1>>[context.flagIndex]) % 256

InCommand(flags) ==
    context.destCount > 0 /\ context.flagIndex > 0 /\ FlagBit(flags, context.flagIndex) = 1

\* The first m bytes of a command after `at', but not all of it, and what they make
\* of the length and the count of bytes of it that are to come.
Partial(ex, s, at, m, length, flg) ==
    LET first == s[at + 1]
        n == CommandLength(ex, first)
    IN \/ n = 2 /\ ex = 0 /\ m = 1 /\ flg = 0 /\ length = first + 48
       \/ n = 2 /\ ex = 1 /\ m = 1 /\ flg = 0 /\ length = first + 16
       \/ n = 3 /\ m = 1 /\ flg = 1 /\ length = first * 256 + 272
       \/ n = 3 /\ m = 2 /\ flg = 0 /\ length = first * 256 + 272 + s[at + 2]
       \/ n = 4 /\ m = 1 /\ flg = 2 /\ length = (first % 16) * 65536 + 4368
       \/ n = 4 /\ m = 2 /\ flg = 1 /\ length = (first % 16) * 65536 + 4368 + s[at + 2] * 256
       \/ n = 4 /\ m = 3 /\ flg = 0 /\ length = (first % 16) * 65536 + 4368 + s[at + 2] * 256 + s[at + 3]
LengthSays(at) ==
    Partial(stream[1] % 16, stream, at, Len(stream) - at, context.length, context.lengthFlg)

\* A command that writes more than is left.
Refused(at) == Forced = 0 /\ Command(stream[1] % 16, stream, at).length > context.destCount

PartSays(at, flags) ==
    /\ FlagsSay(flags)
    /\ IF result = -4 THEN at < Len(stream) /\ InCommand(flags) /\ Refused(at)
       ELSE IF at = Len(stream) THEN context.lengthFlg = 3
       ELSE InCommand(flags) /\ LengthSays(at)

PartsSay ==
    context.headerSize = 0 =>
        \E at \in 0 .. Len(stream), flags \in Bytes : Reached(at, flags) /\ PartSays(at, flags)

LzInv == LzTypeOK /\ FormatSays /\ HeaderSays /\ SizeSays /\ PartsSay

\* What a sequence says that is longer by one byte.
LEMMA BeginsLonger ==
    ASSUME NEW s \in Seq(Bytes), NEW b \in Bytes, NEW u \in Seq(Bytes), Begins(Append(s, b), u)
    PROVE  Begins(s, u) /\ Len(u) > Len(s) /\ u[Len(s) + 1] = b
BY DEF Begins

\* The header of what the data begin with is that of the data.
LEMMA HeaderStays ==
    ASSUME NEW s \in Seq(Bytes), NEW u \in Seq(Bytes), NEW forced \in Nat, Begins(s, u),
           Len(s) >= HeaderLength(s)
    PROVE  /\ Len(s) >= 4 /\ u[1] = s[1] /\ HeaderLength(u) = HeaderLength(s)
           /\ SizeToWrite(u, forced) = SizeToWrite(s, forced) /\ StartOf(u) = StartOf(s)
<1>1. Len(s) >= 4 /\ Len(u) >= Len(s)
  BY DEF HeaderLength, Begins
<1>2. u[1] = s[1] /\ u[2] = s[2] /\ u[3] = s[3] /\ u[4] = s[4]
  BY <1>1 DEF Begins
<1>3. IsWide(u) = IsWide(s)
  BY <1>2 DEF IsWide
<1>4. HeaderLength(u) = HeaderLength(s)
  BY <1>1, <1>3 DEF HeaderLength
<1>5. SizeIn(u) = SizeIn(s)
  <2>1. CASE IsWide(s)
    <3>1. Len(s) >= 8
      BY <2>1 DEF HeaderLength
    <3>2. u[5] = s[5] /\ u[6] = s[6] /\ u[7] = s[7] /\ u[8] = s[8]
      BY <3>1 DEF Begins
    <3>3. QED
      BY <1>3, <2>1, <3>2 DEF SizeIn
  <2>2. CASE ~IsWide(s)
    BY <1>2, <1>3, <2>2 DEF SizeIn
  <2>3. QED
    BY <2>1, <2>2
<1>6. QED
  BY <1>1, <1>2, <1>4, <1>5 DEF SizeToWrite, StartOf

\* A copy command has two, three or four bytes.
LEMMA CommandLengthIs ==
    ASSUME NEW ex, NEW first
    PROVE  CommandLength(ex, first) \in 2 .. 4
BY DEF CommandLength

\* The invariant holds between a call and the next, when the data are created.
LEMMA LzInitInv == InitUncompContextLZ => LzInv
<1>1. SUFFICES ASSUME InitUncompContextLZ PROVE LzInv
  OBVIOUS
<1>2. PICK forced \in ForcedCounts :
          context = [destCount |-> 0, forceDestCount |-> forced, length |-> 0,
                     lengthFlg |-> 3, flags |-> 0, flagIndex |-> 0, headerSize |-> 8, exFormat |-> 0]
  BY <1>1 DEF InitUncompContextLZ
<1>3. forced \in Nat
  BY StreamAssumption
<1>4. dest = <<>> /\ stream = <<>> /\ len = 0 /\ result = 0 /\ Len(stream) = 0
  BY <1>1 DEF InitUncompContextLZ
<1>5. LzTypeOK
  BY <1>2, <1>3, <1>4 DEF LzTypeOK, Bytes
<1>6. HeaderSum(stream) = 0
  BY <1>4 DEF HeaderSum
<1>7. FormatSays /\ HeaderSays /\ SizeSays /\ PartsSay
  BY <1>2, <1>4, <1>6 DEF FormatSays, HeaderSays, SizeSays, PartsSay
<1>8. QED
  BY <1>5, <1>7 DEF LzInv

\* The invariant says that what was written is what the bytes read stand for.
LEMMA LzInvSuffices == LzInv => StreamIsExact
<1>1. SUFFICES ASSUME LzInv PROVE StreamIsExact
  OBVIOUS
<1> USE <1>1 DEF LzInv
<1>2. stream \in Seq(Bytes) /\ Len(stream) \in Nat /\ dest \in Seq(Bytes) /\ Forced \in Nat
      /\ context.destCount \in Nat /\ context.headerSize \in 0 .. 8
  BY DEF LzTypeOK, Forced
<1>3. CASE context.headerSize > 0
  <2>1. Len(stream) < HeaderLength(stream)
    BY <1>2, <1>3 DEF HeaderSays, HeaderLength
  <2>2. QED
    BY <1>3, <2>1 DEF HeaderSays, StreamIsExact
<1>4. CASE context.headerSize = 0
  <2>1. /\ Len(stream) >= HeaderLength(stream) /\ HeaderLength(stream) \in Nat
        /\ Len(dest) + context.destCount = SizeToWrite(stream, Forced)
    BY <1>4 DEF SizeSays, HeaderLength
  <2>2. PICK at \in 0 .. Len(stream), flags \in Bytes : Reached(at, flags) /\ PartSays(at, flags)
    BY <1>4 DEF PartsSay
  <2>3. PICK k \in 0 .. at : Reads(stream, Forced)[k] = Now(at, flags)
    <3>1. Begins(stream, stream)
      BY <1>2 DEF Begins
    <3>2. QED
      BY <1>2, <2>2, <3>1 DEF Reached
  <2>4. NextRead(stream, Forced, Now(at, flags)) = Now(at, flags)
    <3> DEFINE r == Now(at, flags)
               n == CommandLength(stream[1] % 16, stream[r.at + 1])
    <3>1. /\ r.at = at /\ r.out = dest /\ r.flags = flags /\ r.bits = context.flagIndex
          /\ SizeToWrite(stream, Forced) - Len(r.out) = context.destCount
      BY <1>2, <2>1 DEF Now
    <3>2. ASSUME at # Len(stream), context.destCount # 0
          PROVE  /\ r.bits # 0 /\ FlagBit(r.flags, r.bits) # 0
                 /\ Len(stream) < r.at + n
                       \/ (Command(stream[1] % 16, stream, r.at).length > context.destCount /\ Forced = 0)
      <4>1. r.bits # 0 /\ FlagBit(r.flags, r.bits) # 0
        BY <1>2, <2>2, <3>1, <3>2 DEF PartSays, InCommand
      <4>2. CASE result = -4
        BY <2>2, <3>1, <4>1, <4>2 DEF PartSays, Refused
      <4>3. CASE result # -4
        <5>1. LengthSays(at) /\ n \in Nat
          BY <2>2, <3>2, <4>3, CommandLengthIs DEF PartSays
        <5>2. Len(stream) - at < n
          BY <3>1, <5>1 DEF LengthSays, Partial
        <5>3. QED
          BY <1>2, <2>2, <3>1, <4>1, <5>1, <5>2
      <4>4. QED
        BY <4>1, <4>2, <4>3
    <3>3. QED
      BY <3>1, <3>2 DEF NextRead
  <2>5. dest = Decoded(stream, Forced)
    <3>1. k \in 0 .. Len(stream)
      BY <1>2, <2>2
    <3>2. Decoded(stream, Forced) = Now(at, flags).out
      BY <1>2, <2>3, <2>4, <3>1, ReadsStay
    <3>3. QED
      BY <3>2 DEF Now
  <2>6. len = 0 => \/ result = SizeToWrite(stream, Forced) - Len(dest)
                   \/ result = -3 /\ Len(dest) = SizeToWrite(stream, Forced)
                   \/ result = -4 /\ Len(dest) < SizeToWrite(stream, Forced)
    BY <1>2, <1>4, <2>1 DEF SizeSays
  <2>7. QED
    BY <1>2, <2>1, <2>5, <2>6 DEF StreamIsExact, Forced
<1>5. QED
  BY <1>2, <1>3, <1>4

------------------------------------------------------------------------------
(* One byte more. *)

\* What the code's records of the context hold.
ContextType ==
    [destCount : Nat, forceDestCount : Nat, length : Nat, lengthFlg : 0 .. 3,
     flags : Bytes, flagIndex : 0 .. 8, headerSize : 0 .. 8, exFormat : 0 .. 15]

\* A context by its fields.
ContextOf(destCount, forced, length, lengthFlg, flags, flagIndex, headerSize, exFormat) ==
    [destCount |-> destCount, forceDestCount |-> forced, length |-> length, lengthFlg |-> lengthFlg,
     flags |-> flags, flagIndex |-> flagIndex, headerSize |-> headerSize, exFormat |-> exFormat]

\* It is one if the fields fit.
LEMMA ContextFits ==
    ASSUME NEW destCount \in Nat, NEW forced \in Nat, NEW length \in Nat, NEW lengthFlg \in 0 .. 3,
           NEW flags \in Bytes, NEW flagIndex \in 0 .. 8, NEW headerSize \in 0 .. 8, NEW exFormat \in 0 .. 15
    PROVE  ContextOf(destCount, forced, length, lengthFlg, flags, flagIndex, headerSize, exFormat) \in ContextType
BY DEF ContextOf, ContextType

\* The fields of a context.
LEMMA ContextFields ==
    ASSUME NEW c \in ContextType
    PROVE  /\ c.destCount \in Nat /\ c.forceDestCount \in Nat /\ c.length \in Nat /\ c.lengthFlg \in 0 .. 3
           /\ c.flags \in Bytes /\ c.flagIndex \in 0 .. 8 /\ c.headerSize \in 0 .. 8 /\ c.exFormat \in 0 .. 15
BY DEF ContextType

\* Reading a byte keeps the types and returns what the caller expects.
LEMMA ReadSays ==
    ASSUME LzInv, len > 0, NEW b \in Bytes, NEW c \in ContextType, NEW w \in Seq(Bytes), Read(b, c, w)
    PROVE  /\ LzTypeOK' /\ result' # -4
           /\ context' = c /\ dest' = dest \o w /\ stream' = Append(stream, b)
           /\ c.headerSize > 0 => (len' = 0 => result' = -1)
           /\ c.headerSize = 0 => /\ len' > 0 => c.destCount > 0
                                  /\ len' = 0 => \/ result' = c.destCount
                                                 \/ result' = -3 /\ c.destCount = 0
<1>1. /\ context' = c /\ dest' = dest \o w /\ stream' = Append(stream, b)
      /\ IF c.headerSize = 0 /\ c.destCount = 0
         THEN len' = 0 /\ result' = AtEnd(len - 1)
         ELSE /\ len' = len - 1
              /\ result' = IF len > 1 THEN result ELSE IF c.headerSize = 0 THEN c.destCount ELSE -1
  BY DEF Read
<1>2. dest \in Seq(Bytes) /\ stream \in Seq(Bytes) /\ len \in Nat /\ result \in Int /\ result # -4
  BY DEF LzInv, LzTypeOK
<1>3. c.headerSize \in 0 .. 8 /\ c.destCount \in Nat
  BY DEF ContextType
<1>4. AtEnd(len - 1) \in {-3, 0}
  BY DEF AtEnd
<1>5. dest' \in Seq(Bytes) /\ stream' \in Seq(Bytes)
  BY <1>1, <1>2
<1>6. len' \in Nat /\ result' \in Int /\ result' # -4
  BY <1>1, <1>2, <1>3, <1>4
<1>7. LzTypeOK'
  BY <1>1, <1>5, <1>6 DEF LzTypeOK, ContextType
<1>8. QED
  BY <1>1, <1>2, <1>3, <1>4, <1>6, <1>7

\* Data that go on as now were read so far as they were.
LEMMA ReachedStays ==
    ASSUME NEW at \in Nat, NEW flags, NEW b \in Bytes, stream \in Seq(Bytes), Reached(at, flags),
           stream' = Append(stream, b), Forced' = Forced, Now(at, flags)' = Now(at, flags)
    PROVE  Reached(at, flags)'
<1>1. PICK k \in 0 .. at : \A u \in Seq(Bytes) : Begins(stream, u) => Reads(u, Forced)[k] = Now(at, flags)
  BY DEF Reached
<1>2. ASSUME NEW u \in Seq(Bytes), Begins(Append(stream, b), u)
      PROVE  Reads(u, Forced)[k] = Now(at, flags)
  BY <1>1, <1>2, BeginsLonger
<1>3. \A u \in Seq(Bytes) : Begins(stream', u) => Reads(u, Forced')[k] = Now(at, flags)'
  BY <1>2
<1>4. QED
  BY <1>3 DEF Reached

\* Data that go on as now are read a part further.
LEMMA ReachedNext ==
    ASSUME NEW at \in 0 .. Len(stream), NEW flags, NEW b \in Bytes, stream \in Seq(Bytes), Reached(at, flags),
           NEW next \in Nat, NEW flagsNext, at < next,
           stream' = Append(stream, b), Forced' = Forced,
           \A u \in Seq(Bytes) : Begins(stream', u) =>
               NextRead(u, Forced, Now(at, flags)) = Now(next, flagsNext)'
    PROVE  Reached(next, flagsNext)'
<1>1. PICK k \in 0 .. at : \A u \in Seq(Bytes) : Begins(stream, u) => Reads(u, Forced)[k] = Now(at, flags)
  BY DEF Reached
<1>2. ASSUME NEW u \in Seq(Bytes), Begins(stream', u)
      PROVE  Reads(u, Forced)[k + 1] = Now(next, flagsNext)'
  <2>1. Begins(stream, u) /\ Len(u) > Len(stream)
    BY <1>2, BeginsLonger
  <2>2. k + 1 \in 1 .. Len(u) /\ (k + 1) - 1 = k /\ Len(u) \in Nat
    BY <2>1
  <2>3. Reads(u, Forced)[k + 1] = NextRead(u, Forced, Reads(u, Forced)[k])
    BY <2>2, ReadsExist
  <2>4. QED
    BY <1>1, <1>2, <2>1, <2>3
<1>3. k + 1 \in 0 .. next
  OBVIOUS
<1>4. \A u \in Seq(Bytes) : Begins(stream', u) => Reads(u, Forced')[k + 1] = Now(next, flagsNext)'
  BY <1>2
<1>5. QED
  BY <1>3, <1>4 DEF Reached

\* Behind the header, what the next byte leaves of it alone.
LEMMA BodyKeeps ==
    ASSUME LzInv, InBody, NEW b \in Bytes, stream' = Append(stream, b), Forced' = Forced,
           context'.exFormat = context.exFormat
    PROVE  /\ FormatSays'
           /\ stream # <<>> /\ stream'[1] = stream[1]
           /\ HeaderLength(stream') = HeaderLength(stream) /\ Len(stream') >= HeaderLength(stream')
           /\ SizeToWrite(stream', Forced') = SizeToWrite(stream, Forced)
           /\ \A u \in Seq(Bytes) : Begins(stream', u) =>
                  /\ Begins(stream, u) /\ Len(u) > Len(stream) /\ u[Len(stream) + 1] = b /\ u[1] = stream[1]
                  /\ SizeToWrite(u, Forced) - Len(dest) = context.destCount
<1>1. /\ stream \in Seq(Bytes) /\ Len(stream) \in Nat /\ Forced \in Nat /\ dest \in Seq(Bytes)
      /\ context.destCount \in Nat /\ context.headerSize = 0
  BY DEF LzInv, LzTypeOK, Forced, InBody
<1>2. Len(stream) >= HeaderLength(stream) /\ Len(dest) + context.destCount = SizeToWrite(stream, Forced)
  BY <1>1 DEF LzInv, SizeSays
<1>3. ASSUME NEW u \in Seq(Bytes), Begins(stream', u)
      PROVE  /\ Begins(stream, u) /\ Len(u) > Len(stream) /\ u[Len(stream) + 1] = b /\ u[1] = stream[1]
             /\ SizeToWrite(u, Forced) - Len(dest) = context.destCount
             /\ Len(stream) >= 4 /\ HeaderLength(u) = HeaderLength(stream)
             /\ SizeToWrite(u, Forced) = SizeToWrite(stream, Forced)
  <2>1. Begins(stream, u) /\ Len(u) > Len(stream) /\ u[Len(stream) + 1] = b
    BY <1>1, <1>3, BeginsLonger
  <2>2. /\ Len(stream) >= 4 /\ u[1] = stream[1] /\ HeaderLength(u) = HeaderLength(stream)
        /\ SizeToWrite(u, Forced) = SizeToWrite(stream, Forced)
    BY <1>1, <1>2, <2>1, HeaderStays
  <2>3. QED
    BY <1>1, <1>2, <2>1, <2>2
<1>4. stream' \in Seq(Bytes) /\ Begins(stream', stream') /\ Len(stream') = Len(stream) + 1
  BY <1>1 DEF Begins
<1>5. /\ stream'[1] = stream[1] /\ Len(stream) >= 4 /\ HeaderLength(stream') = HeaderLength(stream)
      /\ SizeToWrite(stream', Forced) = SizeToWrite(stream, Forced)
  BY <1>3, <1>4
<1>6. stream # <<>> /\ HeaderLength(stream) \in Nat
  BY <1>1, <1>5 DEF HeaderLength
<1>7. FormatSays'
  BY <1>5, <1>6 DEF LzInv, FormatSays
<1>8. QED
  BY <1>1, <1>2, <1>3, <1>4, <1>5, <1>6, <1>7

\* A flag byte.
LEMMA FlagsByteInv ==
    ASSUME LzInv, FlagsByte
    PROVE  LzInv'
<1>0. PICK b \in FlagBytes : Read(b, [context EXCEPT !.flags = b, !.flagIndex = 8], <<>>)
  BY DEF FlagsByte
<1>1. PICK c : /\ c = [context EXCEPT !.flags = b, !.flagIndex = 8]
               /\ b \in FlagBytes /\ Read(b, c, <<>>)
  BY <1>0
<1>2. b \in Bytes
  BY StreamAssumption DEF Bytes
<1>3. /\ InBody /\ context.flagIndex = 0 /\ context \in ContextType /\ stream \in Seq(Bytes)
      /\ dest \in Seq(Bytes) /\ Len(stream) \in Nat /\ result # -4 /\ len > 0
      /\ context.headerSize = 0
  BY DEF FlagsByte, InBody, LzInv, LzTypeOK, ContextType
<1>4. /\ c \in ContextType /\ c.flags = b /\ c.flagIndex = 8 /\ c.destCount = context.destCount
      /\ c.forceDestCount = context.forceDestCount /\ c.exFormat = context.exFormat
      /\ c.lengthFlg = context.lengthFlg /\ c.headerSize = 0
  <2>1. c = ContextOf(context.destCount, context.forceDestCount, context.length, context.lengthFlg, b, 8,
                      context.headerSize, context.exFormat)
    BY <1>1, <1>3 DEF ContextType, ContextOf
  <2>2. c \in ContextType
    <3>1. 8 \in 0 .. 8
      OBVIOUS
    <3>2. QED
      BY <1>2, <1>3, <2>1, <3>1, ContextFits, ContextFields
  <2>3. QED
    BY <1>3, <2>1, <2>2 DEF ContextOf
<1>5. <<>> \in Seq(Bytes) /\ dest \o <<>> = dest
  BY <1>3
<1>6. /\ LzTypeOK' /\ result' # -4 /\ context' = c /\ dest' = dest /\ stream' = Append(stream, b)
      /\ len' > 0 => c.destCount > 0
      /\ len' = 0 => result' = c.destCount \/ (result' = -3 /\ c.destCount = 0)
  <2>1. /\ LzTypeOK' /\ result' # -4 /\ context' = c /\ dest' = dest \o <<>> /\ stream' = Append(stream, b)
        /\ c.headerSize = 0 => /\ len' > 0 => c.destCount > 0
                               /\ len' = 0 => \/ result' = c.destCount
                                              \/ result' = -3 /\ c.destCount = 0
    BY <1>1, <1>2, <1>3, <1>4, <1>5, ReadSays
  <2>2. QED
    BY <1>4, <1>5, <2>1
<1>7. Forced' = Forced /\ context'.exFormat = context.exFormat
  BY <1>4, <1>6 DEF Forced
<1>8. /\ FormatSays' /\ Len(stream') >= HeaderLength(stream')
      /\ SizeToWrite(stream', Forced') = SizeToWrite(stream, Forced)
      /\ \A u \in Seq(Bytes) : Begins(stream', u) =>
             /\ Len(u) > Len(stream) /\ u[Len(stream) + 1] = b
             /\ SizeToWrite(u, Forced) - Len(dest) = context.destCount
  BY <1>2, <1>3, <1>6, <1>7, BodyKeeps
<1>9. HeaderSays' /\ SizeSays'
  BY <1>3, <1>4, <1>6, <1>8 DEF LzInv, HeaderSays, SizeSays
<1>10. PartsSay'
  <2>1. PICK at \in 0 .. Len(stream), flags \in Bytes : Reached(at, flags) /\ PartSays(at, flags)
    BY <1>3 DEF LzInv, PartsSay
  <2>2. at = Len(stream) /\ context.lengthFlg = 3
    BY <1>3, <2>1 DEF PartSays, InCommand
  <2>3. context.destCount > 0
    BY <1>3 DEF LzInv, SizeSays
  <2>4. ASSUME NEW u \in Seq(Bytes), Begins(stream', u)
        PROVE  NextRead(u, Forced, Now(at, flags)) = Now(at + 1, b)'
    <3>1. /\ Len(u) > at /\ u[at + 1] = b /\ SizeToWrite(u, Forced) - Len(dest) = context.destCount
      BY <1>8, <2>2, <2>4
    <3>2. NextRead(u, Forced, Now(at, flags)) = [Now(at, flags) EXCEPT !.at = @ + 1, !.flags = b, !.bits = 8]
      <4> DEFINE r == Now(at, flags)
      <4>1. r.at = at /\ r.out = dest /\ r.bits = 0
        BY <1>3 DEF Now
      <4>2. r.at # Len(u) /\ SizeToWrite(u, Forced) - Len(r.out) # 0 /\ u[r.at + 1] = b
        BY <1>3, <2>3, <3>1, <4>1
      <4> HIDE DEF r
      <4>3. QED
        BY <4>1, <4>2 DEF NextRead, r
    <3>3. Now(at + 1, b)' = [at |-> at + 1, out |-> dest, flags |-> b, bits |-> 8]
      BY <1>4, <1>6, <2>2 DEF Now
    <3>4. QED
      BY <3>2, <3>3 DEF Now
  <2>5. Reached(at + 1, b)'
    BY <1>2, <1>3, <1>6, <1>7, <2>1, <2>2, <2>4, ReachedNext
  <2>6. PartSays(at + 1, b)'
    <3>1. Len(stream') = at + 1
      BY <1>2, <1>3, <1>6, <2>2
    <3>2. FlagsSay(b)'
      <4>1. context'.flags = b /\ context'.flagIndex = 8
        BY <1>4, <1>6
      <4>2. (b * <<128, 64, 32, 16, 8, 4, 2, 1>>[8]) % 256 = b
        BY <1>2 DEF Bytes
      <4>3. QED
        BY <4>1, <4>2 DEF FlagsSay
    <3>3. QED
      BY <1>4, <1>6, <2>2, <3>1, <3>2 DEF PartSays
  <2>7. QED
    <3>1. at + 1 \in 0 .. Len(stream')
      BY <1>2, <1>3, <1>6
    <3>2. QED
      BY <1>2, <2>5, <2>6, <3>1 DEF PartsSay
<1>11. QED
  BY <1>6, <1>8, <1>9, <1>10 DEF LzInv

\* The highest flag is what the code looks at, and the flags move up.
LEMMA FlagsMove ==
    ASSUME NEW flags \in Bytes, NEW n \in 1 .. 8
    PROVE  LET left(i) == (flags * <<128, 64, 32, 16, 8, 4, 2, 1>>[i]) % 256
           IN /\ (left(n) >= 128) = (FlagBit(flags, n) = 1)
              /\ FlagBit(flags, n) \in {0, 1}
              /\ n > 1 => (left(n) * 2) % 256 = left(n - 1)
<1> USE DEF Bytes, FlagBit
<1>1. CASE n = 1
  BY <1>1
<1>2. CASE n = 2
  BY <1>2
<1>3. CASE n = 3
  BY <1>3
<1>4. CASE n = 4
  BY <1>4
<1>5. CASE n = 5
  BY <1>5
<1>6. CASE n = 6
  BY <1>6
<1>7. CASE n = 7
  BY <1>7
<1>8. CASE n = 8
  BY <1>8
<1>9. QED
  BY <1>1, <1>2, <1>3, <1>4, <1>5, <1>6, <1>7, <1>8

\* The highest flag tells a command from a literal byte.
LEMMA IsCopyTells ==
    ASSUME NEW flags \in Bytes, context.flagIndex \in 1 .. 8, FlagsSay(flags)
    PROVE  (IsCopy => FlagBit(flags, context.flagIndex) = 1) /\ (~IsCopy => FlagBit(flags, context.flagIndex) = 0)
<1>1. PICK n \in 1 .. 8 : n = context.flagIndex
  OBVIOUS
<1>2. context.flags = (flags * <<128, 64, 32, 16, 8, 4, 2, 1>>[n]) % 256
  BY <1>1 DEF FlagsSay
<1>3. (context.flags >= 128) = (FlagBit(flags, n) = 1) /\ FlagBit(flags, n) \in {0, 1}
  BY <1>2, FlagsMove
<1>4. QED
  BY <1>1, <1>3 DEF IsCopy

\* The flags that are left are those left before, but for one.
LEMMA FlagsGoOn ==
    ASSUME NEW flags \in Bytes, context.flagIndex \in 1 .. 8, FlagsSay(flags),
           context'.flags = (context.flags * 2) % 256, context'.flagIndex = context.flagIndex - 1
    PROVE  FlagsSay(flags)'
<1>1. ASSUME context.flagIndex > 1
      PROVE  (context.flags * 2) % 256
               = (flags * <<128, 64, 32, 16, 8, 4, 2, 1>>[context.flagIndex - 1]) % 256
  <2>1. (((flags * <<128, 64, 32, 16, 8, 4, 2, 1>>[context.flagIndex]) % 256) * 2) % 256
          = (flags * <<128, 64, 32, 16, 8, 4, 2, 1>>[context.flagIndex - 1]) % 256
    BY <1>1, FlagsMove
  <2>2. context.flags = (flags * <<128, 64, 32, 16, 8, 4, 2, 1>>[context.flagIndex]) % 256
    BY DEF FlagsSay
  <2>3. QED
    BY <2>1, <2>2
<1>2. QED
  BY <1>1 DEF FlagsSay

\* The context when a flag is done with.
LEMMA NextFlagIs ==
    ASSUME context \in ContextType, NEW n
    PROVE  NextFlag([context EXCEPT !.destCount = n])
             = ContextOf(n, context.forceDestCount, context.length, context.lengthFlg,
                         (context.flags * 2) % 256, context.flagIndex - 1, context.headerSize, context.exFormat)
<1>1. PICK d : d = [context EXCEPT !.destCount = n]
  OBVIOUS
<1>2. d = ContextOf(n, context.forceDestCount, context.length, context.lengthFlg,
                    context.flags, context.flagIndex, context.headerSize, context.exFormat)
  BY <1>1 DEF ContextType, ContextOf
<1>3. d.flags = context.flags /\ d.flagIndex = context.flagIndex
  BY <1>2 DEF ContextOf
<1>4. PICK x, y : x = (context.flags * 2) % 256 /\ y = context.flagIndex - 1
  OBVIOUS
<1>5. NextFlag(d) = [d EXCEPT !.flags = x, !.flagIndex = y]
  BY <1>3, <1>4 DEF NextFlag
<1>6. [d EXCEPT !.flags = x, !.flagIndex = y]
        = ContextOf(n, context.forceDestCount, context.length, context.lengthFlg, x, y,
                    context.headerSize, context.exFormat)
  <2>1. PICK e : e = [d EXCEPT !.flags = x]
    OBVIOUS
  <2>2. e = ContextOf(n, context.forceDestCount, context.length, context.lengthFlg, x, context.flagIndex,
                      context.headerSize, context.exFormat)
    BY <1>2, <2>1 DEF ContextOf
  <2>3. [e EXCEPT !.flagIndex = y]
          = ContextOf(n, context.forceDestCount, context.length, context.lengthFlg, x, y,
                      context.headerSize, context.exFormat)
    BY <2>2 DEF ContextOf
  <2>4. [d EXCEPT !.flags = x, !.flagIndex = y] = [e EXCEPT !.flagIndex = y]
    BY <2>1
  <2>5. QED
    BY <2>3, <2>4
<1>7. QED
  BY <1>1, <1>4, <1>5, <1>6

\* It is one.
LEMMA NextFlagFits ==
    ASSUME context \in ContextType, context.flagIndex > 0, context.destCount > 0
    PROVE  ContextOf(context.destCount - 1, context.forceDestCount, context.length, context.lengthFlg,
                     (context.flags * 2) % 256, context.flagIndex - 1, context.headerSize, context.exFormat)
             \in ContextType
<1>1. /\ context.destCount \in Nat /\ context.forceDestCount \in Nat /\ context.length \in Nat
      /\ context.lengthFlg \in 0 .. 3 /\ context.flags \in Bytes /\ context.flagIndex \in 0 .. 8
      /\ context.headerSize \in 0 .. 8 /\ context.exFormat \in 0 .. 15
  BY ContextFields
<1>2. context.destCount - 1 \in Nat /\ context.flagIndex - 1 \in 0 .. 8
  BY <1>1
<1>3. (context.flags * 2) % 256 \in Bytes
  BY <1>1 DEF Bytes
<1>4. QED
  BY ZenonT(30), <1>1, <1>2, <1>3, ContextFits

\* A literal byte.
LEMMA LiteralByteInv ==
    ASSUME LzInv, LiteralByte
    PROVE  LzInv'
<1>1. PICK b, c : /\ b = (Len(dest) + 1) % 256 /\ c = NextFlag([context EXCEPT !.destCount = @ - 1])
                 /\ Read(b, c, <<b>>)
  BY DEF LiteralByte
<1>2. /\ InBody /\ context.flagIndex > 0 /\ ~IsCopy /\ context \in ContextType /\ stream \in Seq(Bytes)
      /\ dest \in Seq(Bytes) /\ Len(stream) \in Nat /\ result # -4 /\ len > 0
      /\ context.headerSize = 0 /\ context.flagIndex \in 1 .. 8
  BY DEF LiteralByte, InBody, LzInv, LzTypeOK, ContextType
<1>3. b \in Bytes
  <2>1. Len(dest) + 1 \in Nat /\ 256 \in Nat \ {0}
    BY <1>2
  <2>2. (Len(dest) + 1) % 256 \in 0 .. 256 - 1
    BY <2>1, TurnBack
  <2>3. QED
    BY <1>1, <2>2 DEF Bytes
<1>4. context.destCount > 0
  BY <1>2 DEF LzInv, SizeSays
<1>5. /\ c \in ContextType /\ c.flags = (context.flags * 2) % 256 /\ c.flagIndex = context.flagIndex - 1
      /\ c.destCount = context.destCount - 1
      /\ c.forceDestCount = context.forceDestCount /\ c.exFormat = context.exFormat
      /\ c.lengthFlg = context.lengthFlg /\ c.headerSize = 0
  <2>1. c = ContextOf(context.destCount - 1, context.forceDestCount, context.length, context.lengthFlg,
                      (context.flags * 2) % 256, context.flagIndex - 1, context.headerSize, context.exFormat)
    BY ZenonT(30), <1>1, <1>2, NextFlagIs
  <2>2. c \in ContextType
    BY <1>2, <1>4, <2>1, NextFlagFits
  <2>3. QED
    BY <1>2, <2>1, <2>2 DEF ContextOf
<1>6. <<b>> \in Seq(Bytes) /\ dest \o <<b>> = Append(dest, b)
  BY <1>2, <1>3
<1>7. /\ LzTypeOK' /\ result' # -4 /\ context' = c /\ dest' = Append(dest, b) /\ stream' = Append(stream, b)
      /\ len' > 0 => c.destCount > 0
      /\ len' = 0 => result' = c.destCount \/ (result' = -3 /\ c.destCount = 0)
  <2>1. /\ LzTypeOK' /\ result' # -4 /\ context' = c /\ dest' = dest \o <<b>> /\ stream' = Append(stream, b)
        /\ c.headerSize = 0 => /\ len' > 0 => c.destCount > 0
                               /\ len' = 0 => \/ result' = c.destCount
                                              \/ result' = -3 /\ c.destCount = 0
    <3>1. Read(b, c, <<b>>)
      BY <1>1
    <3>2. QED
      BY ZenonT(30), <1>2, <1>3, <1>5, <1>6, <3>1, ReadSays
  <2>2. QED
    BY <1>5, <1>6, <2>1
<1>8. Forced' = Forced /\ context'.exFormat = context.exFormat /\ Len(dest') = Len(dest) + 1
  BY <1>2, <1>3, <1>5, <1>7 DEF Forced
<1>9. /\ FormatSays' /\ Len(stream') >= HeaderLength(stream')
      /\ SizeToWrite(stream', Forced') = SizeToWrite(stream, Forced)
      /\ \A u \in Seq(Bytes) : Begins(stream', u) =>
             /\ Len(u) > Len(stream) /\ u[Len(stream) + 1] = b
             /\ SizeToWrite(u, Forced) - Len(dest) = context.destCount
  BY <1>2, <1>3, <1>7, <1>8, BodyKeeps
<1>10. HeaderSays' /\ SizeSays'
  <2>1. HeaderSays'
    BY <1>5, <1>7 DEF HeaderSays
  <2>2. Len(dest') + context'.destCount = SizeToWrite(stream', Forced')
    <3>1. Len(dest) + context.destCount = SizeToWrite(stream, Forced)
      BY <1>2 DEF LzInv, SizeSays
    <3>2. Len(dest) \in Nat /\ context.destCount \in Nat
      BY <1>2, ContextFields
    <3>3. Len(dest') = Len(dest) + 1 /\ context'.destCount = context.destCount - 1
      BY <1>5, <1>7, <1>8
    <3>4. SizeToWrite(stream', Forced') = SizeToWrite(stream, Forced)
      BY <1>9
    <3>5. QED
      BY <3>1, <3>2, <3>3, <3>4
  <2>3. QED
    BY <1>7, <1>9, <2>1, <2>2 DEF SizeSays
<1>11. PartsSay'
  <2>1. PICK at \in 0 .. Len(stream), flags \in Bytes : Reached(at, flags) /\ PartSays(at, flags)
    BY <1>2 DEF LzInv, PartsSay
  <2>2. FlagsSay(flags)
    BY <2>1 DEF PartSays
  <2>3. FlagBit(flags, context.flagIndex) = 0
    BY <1>2, <2>2, IsCopyTells
  <2>4. at = Len(stream) /\ context.lengthFlg = 3
    BY <1>2, <2>1, <2>3 DEF PartSays, InCommand
  <2>5. ASSUME NEW u \in Seq(Bytes), Begins(stream', u)
        PROVE  NextRead(u, Forced, Now(at, flags)) = Now(at + 1, flags)'
    <3>1. /\ Len(u) > at /\ u[at + 1] = b /\ SizeToWrite(u, Forced) - Len(dest) = context.destCount
      BY <1>9, <2>4, <2>5
    <3>2. NextRead(u, Forced, Now(at, flags))
            = [Now(at, flags) EXCEPT !.at = @ + 1, !.out = Append(@, b), !.bits = @ - 1]
      <4> DEFINE r == Now(at, flags)
      <4>1. r.at = at /\ r.out = dest /\ r.flags = flags /\ r.bits = context.flagIndex
        BY DEF Now
      <4>2. /\ r.at # Len(u) /\ SizeToWrite(u, Forced) - Len(r.out) # 0 /\ u[r.at + 1] = b
            /\ r.bits # 0 /\ FlagBit(r.flags, r.bits) = 0
        BY <1>2, <1>4, <2>3, <3>1, <4>1
      <4> HIDE DEF r
      <4>3. QED
        BY <4>2 DEF NextRead, r
    <3>3. Now(at + 1, flags)' = [at |-> at + 1, out |-> Append(dest, b), flags |-> flags, bits |-> context.flagIndex - 1]
      BY <1>5, <1>7, <2>4 DEF Now
    <3>4. QED
      BY <3>2, <3>3 DEF Now
  <2>6. Reached(at + 1, flags)'
    BY SMTT(30), <1>2, <1>3, <1>7, <1>8, <2>1, <2>4, <2>5, ReachedNext
  <2>7. PartSays(at + 1, flags)'
    <3>1. Len(stream') = at + 1
      BY <1>2, <1>3, <1>7, <2>4
    <3>2. FlagsSay(flags)'
      <4>1. context'.flags = (context.flags * 2) % 256 /\ context'.flagIndex = context.flagIndex - 1
        BY <1>5, <1>7
      <4>2. QED
        BY <1>2, <2>2, <4>1, FlagsGoOn
    <3>3. QED
      BY <1>5, <1>7, <2>4, <3>1, <3>2 DEF PartSays
  <2>8. QED
    <3>1. at + 1 \in 0 .. Len(stream')
      BY <1>2, <1>3, <1>7
    <3>2. QED
      BY <2>1, <2>6, <2>7, <3>1 DEF PartsSay
<1>12. QED
  BY <1>7, <1>9, <1>10, <1>11 DEF LzInv

\* What the first byte of a command sets.
FirstSays(ex, b, length, flg) ==
    LET n == CommandLength(ex, b)
    IN \/ n = 2 /\ ex = 0 /\ flg = 0 /\ length = b + 48
       \/ n = 2 /\ ex = 1 /\ flg = 0 /\ length = b + 16
       \/ n = 3 /\ flg = 1 /\ length = b * 256 + 272
       \/ n = 4 /\ flg = 2 /\ length = (b % 16) * 65536 + 4368

\* The first byte of a command.
LEMMA PartialFirst ==
    ASSUME NEW s \in Seq(Bytes), NEW b \in Bytes, NEW ex, NEW length, NEW flg, FirstSays(ex, b, length, flg)
    PROVE  Partial(ex, Append(s, b), Len(s), 1, length, flg)
<1>1. Append(s, b)[Len(s) + 1] = b
  OBVIOUS
<1>2. QED
  BY <1>1 DEF FirstSays, Partial

\* One byte of a command more.
LEMMA PartialLonger ==
    ASSUME NEW s \in Seq(Bytes), NEW b \in Bytes, NEW at \in 0 .. Len(s), at < Len(s), NEW ex,
           NEW length \in Nat, NEW flg \in Nat, NEW old \in Nat, NEW oldFlg \in Nat, oldFlg > 0,
           Partial(ex, s, at, Len(s) - at, old, oldFlg),
           oldFlg = 2 => length = old + b * 256 /\ flg = 1,
           oldFlg = 1 => length = old + b /\ flg = 0
    PROVE  Partial(ex, Append(s, b), at, (Len(s) - at) + 1, length, flg)
<1> DEFINE t == Append(s, b)
           m == Len(s) - at
<1>1. /\ t[Len(s) + 1] = b /\ m \in Nat /\ m > 0 /\ at \in Nat /\ (\A i \in 1 .. Len(s) : t[i] = s[i])
      /\ Partial(ex, s, at, m, old, oldFlg)
  OBVIOUS
<1> HIDE DEF t
<1>2. t[at + 1] = s[at + 1] /\ (m = 1 => t[at + 2] = b) /\ (m = 2 => t[at + 2] = s[at + 2] /\ t[at + 3] = b)
  <2>1. at + 1 \in 1 .. Len(s) /\ (m = 2 => at + 2 \in 1 .. Len(s))
    BY <1>1
  <2>2. (m = 1 => at + 2 = Len(s) + 1) /\ (m = 2 => at + 3 = Len(s) + 1)
    BY <1>1
  <2>3. QED
    BY <1>1, <2>1, <2>2
<1> HIDE DEF m
<1> DEFINE first == s[at + 1]
           n == CommandLength(ex, first)
           two == s[at + 2]
<1>3. \/ n = 3 /\ m = 1 /\ oldFlg = 1 /\ old = first * 256 + 272
      \/ n = 4 /\ m = 1 /\ oldFlg = 2 /\ old = (first % 16) * 65536 + 4368
      \/ n = 4 /\ m = 2 /\ oldFlg = 1 /\ old = (first % 16) * 65536 + 4368 + two * 256
  BY <1>1 DEF Partial
<1>4. n = CommandLength(ex, t[at + 1]) /\ t[at + 1] = first
  BY <1>2
<1>5. (m + 1 = 2 => t[at + 2] = b) /\ (m + 1 = 3 => t[at + 2] = two /\ t[at + 3] = b)
  BY <1>1, <1>2
<1> HIDE DEF n, first, two
<1>6. \/ n = 3 /\ m + 1 = 2 /\ flg = 0 /\ length = first * 256 + 272 + b
      \/ n = 4 /\ m + 1 = 2 /\ flg = 1 /\ length = (first % 16) * 65536 + 4368 + b * 256
      \/ n = 4 /\ m + 1 = 3 /\ flg = 0 /\ length = (first % 16) * 65536 + 4368 + two * 256 + b
  BY <1>1, <1>3
<1>7. Partial(ex, t, at, m + 1, length, flg)
  BY <1>4, <1>5, <1>6 DEF Partial
<1>8. QED
  BY <1>7 DEF t, m

\* What is set of the context by a byte of a length.
LEMMA LengthAfterIs ==
    ASSUME context \in ContextType, NEW b \in Bytes, context.lengthFlg > 0, NEW ex \in {0, 1}, context.exFormat = ex
    PROVE  \E length \in Nat, flg \in 0 .. 2 :
              /\ LengthAfter(b) = ContextOf(context.destCount, context.forceDestCount, length, flg, context.flags,
                                            context.flagIndex, context.headerSize, context.exFormat)
              /\ context.lengthFlg = 3 => FirstSays(ex, b, length, flg)
              /\ ex = 1 /\ context.lengthFlg = 2 => length = context.length + b * 256 /\ flg = 1
              /\ ex = 1 /\ context.lengthFlg = 1 => length = context.length + b /\ flg = 0
<1>1. context.length \in Nat /\ context.lengthFlg \in {1, 2, 3}
  BY ContextFields
<1> DEFINE Set(length, flg) == [context EXCEPT !.length = length, !.lengthFlg = flg]
           Is(length, flg) == ContextOf(context.destCount, context.forceDestCount, length, flg, context.flags,
                                        context.flagIndex, context.headerSize, context.exFormat)
<1>2. ASSUME NEW length, NEW flg PROVE Set(length, flg) = Is(length, flg)
  <2>1. PICK d : d = [context EXCEPT !.length = length]
    OBVIOUS
  <2>2. d = ContextOf(context.destCount, context.forceDestCount, length, context.lengthFlg, context.flags,
                      context.flagIndex, context.headerSize, context.exFormat)
    BY <2>1 DEF ContextType, ContextOf
  <2>3. [d EXCEPT !.lengthFlg = flg] = Is(length, flg)
    BY <2>2 DEF ContextOf
  <2>4. QED
    BY <2>1, <2>3
<1>3. b \in Nat /\ b % 16 \in 0 .. 15 /\ (b \div 16 = 0 => b % 16 = b)
  BY DEF Bytes
<1>4. CASE ex = 0
  <2>1. LengthAfter(b) = Set(b + 3 * 16, 0)
    BY <1>4 DEF LengthAfter
  <2>2. b + 3 * 16 = b + 48 /\ b + 48 \in Nat /\ FirstSays(ex, b, b + 48, 0)
    BY <1>3, <1>4 DEF FirstSays, CommandLength
  <2> HIDE DEF Set
  <2>3. LengthAfter(b) = Is(b + 48, 0)
    BY <1>2, <2>1, <2>2
  <2>4. QED
    BY <1>4, <2>2, <2>3
<1>5. CASE ex = 1 /\ context.lengthFlg = 3
  <2>1. CASE b \div 16 = 1
    <3>1. LengthAfter(b) = Set((b % 16) * 65536 + (255 + 15 + 3) * 16, 2)
      BY <1>5, <2>1 DEF LengthAfter
    <3>2. (255 + 15 + 3) * 16 = 4368 /\ (b % 16) * 65536 + 4368 \in Nat
      BY <1>3
    <3>3. FirstSays(ex, b, (b % 16) * 65536 + 4368, 2)
      BY <1>5, <2>1 DEF FirstSays, CommandLength
    <3> HIDE DEF Set
    <3>4. LengthAfter(b) = Is((b % 16) * 65536 + 4368, 2)
      BY <1>2, <3>1, <3>2
    <3>5. QED
      BY <1>5, <3>2, <3>3, <3>4
  <2>2. CASE b \div 16 = 0
    <3>1. LengthAfter(b) = Set((b % 16) * 256 + (15 + 2) * 16, 1)
      BY <1>5, <2>2 DEF LengthAfter
    <3>2. (15 + 2) * 16 = 272 /\ b % 16 = b /\ b * 256 + 272 \in Nat
      BY <1>3, <2>2
    <3>3. FirstSays(ex, b, b * 256 + 272, 1)
      BY <1>5, <2>2 DEF FirstSays, CommandLength
    <3> HIDE DEF Set
    <3>4. LengthAfter(b) = Is(b * 256 + 272, 1)
      BY <1>2, <3>1, <3>2
    <3>5. QED
      BY <1>5, <3>2, <3>3, <3>4
  <2>3. CASE b \div 16 # 0 /\ b \div 16 # 1
    <3>1. LengthAfter(b) = Set(b + 16, 0)
      BY <1>5, <2>3 DEF LengthAfter
    <3>2. b + 16 \in Nat /\ FirstSays(ex, b, b + 16, 0)
      BY <1>3, <1>5, <2>3 DEF FirstSays, CommandLength
    <3> HIDE DEF Set
    <3>3. LengthAfter(b) = Is(b + 16, 0)
      BY <1>2, <3>1
    <3>4. QED
      BY <1>5, <3>2, <3>3
  <2>4. QED
    BY <2>1, <2>2, <2>3
<1>6. CASE ex = 1 /\ context.lengthFlg < 3
  <2> DEFINE length == context.length + Digit(b, context.lengthFlg - 1)
             flg == context.lengthFlg - 1
  <2>1. LengthAfter(b) = Set(length, flg)
    BY <1>6 DEF LengthAfter
  <2>2. /\ length \in Nat /\ flg \in 0 .. 2
        /\ context.lengthFlg = 2 => length = context.length + b * 256 /\ flg = 1
        /\ context.lengthFlg = 1 => length = context.length + b /\ flg = 0
    <3>1. CASE context.lengthFlg = 1
      BY <1>1, <1>3, <3>1 DEF Digit
    <3>2. CASE context.lengthFlg = 2
      BY <1>1, <1>3, <3>2 DEF Digit
    <3>3. QED
      BY <1>1, <1>6, <3>1, <3>2
  <2> HIDE DEF Set, length, flg
  <2>3. LengthAfter(b) = Is(length, flg)
    BY <1>2, <2>1
  <2>4. QED
    BY <1>6, <2>2, <2>3
<1>7. QED
  BY <1>1, <1>4, <1>5, <1>6

\* A byte of a length.
LEMMA LengthByteInv ==
    ASSUME LzInv, LengthByte
    PROVE  LzInv'
<1>0. PICK b \in LengthBytes : Read(b, LengthAfter(b), <<>>)
  BY DEF LengthByte
<1>1. PICK c : c = LengthAfter(b) /\ b \in LengthBytes /\ Read(b, c, <<>>)
  BY <1>0
<1>2. b \in Bytes
  BY StreamAssumption DEF Bytes
<1>3. /\ InBody /\ context.flagIndex \in 1 .. 8 /\ IsCopy /\ context.lengthFlg \in 1 .. 3
      /\ context \in ContextType /\ stream \in Seq(Bytes)
      /\ dest \in Seq(Bytes) /\ Len(stream) \in Nat /\ result # -4 /\ len > 0 /\ context.headerSize = 0
  BY DEF LengthByte, InBody, LzInv, LzTypeOK, ContextType
<1>4. PICK ex \in {0, 1} : stream[1] % 16 = ex /\ context.exFormat = ex /\ stream # <<>>
  <2>1. Len(stream) >= 4
    BY <1>3 DEF LzInv, SizeSays, HeaderLength
  <2>2. stream # <<>>
    BY <2>1
  <2>3. QED
    BY <2>2 DEF LzInv, FormatSays
<1>5. PICK length \in Nat, flg \in 0 .. 2 :
          /\ c = ContextOf(context.destCount, context.forceDestCount, length, flg, context.flags,
                           context.flagIndex, context.headerSize, context.exFormat)
          /\ context.lengthFlg = 3 => FirstSays(ex, b, length, flg)
          /\ ex = 1 /\ context.lengthFlg = 2 => length = context.length + b * 256 /\ flg = 1
          /\ ex = 1 /\ context.lengthFlg = 1 => length = context.length + b /\ flg = 0
  BY <1>1, <1>2, <1>3, <1>4, LengthAfterIs
<1>6. /\ c \in ContextType /\ c.flags = context.flags /\ c.flagIndex = context.flagIndex
      /\ c.destCount = context.destCount
      /\ c.forceDestCount = context.forceDestCount /\ c.exFormat = context.exFormat
      /\ c.length = length /\ c.lengthFlg = flg /\ c.headerSize = 0
  <2>1. flg \in 0 .. 3
    OBVIOUS
  <2>2. c \in ContextType
    BY ZenonT(30), <1>3, <1>5, <2>1, ContextFits, ContextFields
  <2>3. QED
    BY <1>3, <1>5, <2>2 DEF ContextOf
<1>7. <<>> \in Seq(Bytes) /\ dest \o <<>> = dest
  BY <1>3
<1>8. /\ LzTypeOK' /\ result' # -4 /\ context' = c /\ dest' = dest /\ stream' = Append(stream, b)
      /\ len' > 0 => c.destCount > 0
      /\ len' = 0 => result' = c.destCount \/ (result' = -3 /\ c.destCount = 0)
  <2>1. /\ LzTypeOK' /\ result' # -4 /\ context' = c /\ dest' = dest \o <<>> /\ stream' = Append(stream, b)
        /\ c.headerSize = 0 => /\ len' > 0 => c.destCount > 0
                               /\ len' = 0 => \/ result' = c.destCount
                                              \/ result' = -3 /\ c.destCount = 0
    <3>1. Read(b, c, <<>>)
      BY <1>1
    <3>2. QED
      BY <1>2, <1>3, <1>6, <1>7, <3>1, ReadSays
  <2>2. QED
    BY <1>6, <1>7, <2>1
<1>9. Forced' = Forced /\ context'.exFormat = context.exFormat
  BY <1>6, <1>8 DEF Forced
<1>10. /\ FormatSays' /\ Len(stream') >= HeaderLength(stream') /\ stream'[1] = stream[1]
       /\ SizeToWrite(stream', Forced') = SizeToWrite(stream, Forced)
  BY <1>2, <1>3, <1>8, <1>9, BodyKeeps
<1>11. HeaderSays' /\ SizeSays'
  BY <1>3, <1>6, <1>8, <1>10 DEF LzInv, HeaderSays, SizeSays
<1>12. PartsSay'
  <2>1. PICK at \in 0 .. Len(stream), flags \in Bytes : Reached(at, flags) /\ PartSays(at, flags)
    BY <1>3 DEF LzInv, PartsSay
  <2>2. context.destCount > 0
    BY <1>3 DEF LzInv, SizeSays
  <2>3. FlagsSay(flags) /\ InCommand(flags)
    <3>1. FlagsSay(flags)
      BY <2>1 DEF PartSays
    <3>2. FlagBit(flags, context.flagIndex) = 1
      BY <1>3, <3>1, IsCopyTells
    <3>3. QED
      BY <1>3, <2>2, <3>1, <3>2 DEF InCommand
  <2>4. Reached(at, flags)'
    <3>1. Now(at, flags)' = Now(at, flags)
      BY <1>6, <1>8 DEF Now
    <3>2. QED
      BY <1>2, <1>3, <1>8, <1>9, <2>1, <3>1, ReachedStays
  <2>5. at # Len(stream') /\ at \in 0 .. Len(stream') /\ Len(stream') = Len(stream) + 1
    BY <1>2, <1>3, <1>8
  <2>6. FlagsSay(flags)' /\ InCommand(flags)'
    BY SMTT(30), <1>6, <1>8, <2>3 DEF FlagsSay, InCommand
  <2>7. LengthSays(at)'
    <3>1. Partial(ex, stream', at, Len(stream') - at, length, flg)
      <4>1. CASE at = Len(stream)
        <5>1. context.lengthFlg = 3
          BY <1>3, <2>1, <4>1 DEF PartSays
        <5>2. FirstSays(ex, b, length, flg) /\ Len(stream') - at = 1
          BY <1>3, <1>5, <2>5, <4>1, <5>1
        <5>3. QED
          BY <1>2, <1>3, <1>8, <4>1, <5>2, PartialFirst
      <4>2. CASE at # Len(stream)
        <5>1. Partial(ex, stream, at, Len(stream) - at, context.length, context.lengthFlg)
          BY <1>3, <1>4, <2>1, <4>2 DEF PartSays, LengthSays
        <5>2. ex = 1 /\ context.lengthFlg \in {1, 2}
          BY <1>3, <5>1 DEF Partial, CommandLength
        <5>3. at < Len(stream) /\ Len(stream') - at = (Len(stream) - at) + 1 /\ flg \in Nat
              /\ context.length \in Nat /\ context.lengthFlg \in Nat
          BY <1>3, <2>5, <4>2, ContextFields
        <5>4. QED
          BY <1>2, <1>3, <1>5, <1>8, <5>1, <5>2, <5>3, PartialLonger
      <4>3. QED
        BY <4>1, <4>2
    <3>2. context'.lengthFlg = flg /\ context'.length = length /\ stream'[1] % 16 = ex
      BY <1>4, <1>6, <1>8, <1>10
    <3>3. QED
      BY <3>1, <3>2 DEF LengthSays
  <2>8. PartSays(at, flags)'
    BY <1>8, <2>5, <2>6, <2>7 DEF PartSays
  <2>9. QED
    BY <2>1, <2>4, <2>5, <2>8 DEF PartsSay
<1>13. QED
  BY <1>8, <1>10, <1>11, <1>12 DEF LzInv

\* A quotient and a remainder, told by what they are of.
LEMMA Parts16 ==
    ASSUME NEW q \in Nat, NEW r \in 0 .. 15, NEW a, a = q * 16 + r
    PROVE  a \div 16 = q /\ a % 16 = r
OBVIOUS

\* The remainder of one turn and less.
LEMMA PartsTurn ==
    ASSUME NEW n \in Nat \ {0}, NEW r \in Nat, r < n, NEW a, a = n + r
    PROVE  a % n = r
<1>1. r \in 0 .. n - 1 /\ a = 1 * n + r /\ 1 \in Nat
  OBVIOUS
<1>2. (1 * n + r) % n = r
  BY <1>1, AfterTurns
<1>3. QED
  BY <1>1, <1>2

\* A byte is two digits.
LEMMA Halves ==
    ASSUME NEW b \in Bytes
    PROVE  \E q \in 0 .. 15, r \in 0 .. 15 : b = q * 16 + r /\ b \div 16 = q /\ b % 16 = r
<1>1. PICK q \in Nat, r \in 0 .. 16 - 1 : b = q * 16 + r
  <2>1. 16 \in Nat \ {0} /\ b \in Nat
    BY DEF Bytes
  <2>2. QED
    BY <2>1, Turns
<1>2. r \in 0 .. 15
  OBVIOUS
<1>3. q \in 0 .. 15
  BY <1>1, <1>2 DEF Bytes
<1>4. b \div 16 = q /\ b % 16 = r
  BY <1>1, <1>2, Parts16
<1>5. QED
  BY <1>1, <1>2, <1>3, <1>4

\* The number of a command ends in 12 bits of offset.
LengthPart(value) == value \div 4096
OffsetPart(value) == value % 4096

\* The number of a command of two bytes.
LEMMA NumberOfTwo ==
    ASSUME NEW first \in Bytes, NEW b \in Bytes, NEW length, NEW more \in {1, 3}, length = first + 16 * more
    PROVE  /\ OffsetPart(first * 256 + b) + 1 = (length % 16) * 256 + b + 1
           /\ LengthPart(first * 256 + b) + more = length \div 16
<1>1. PICK q \in 0 .. 15, r \in 0 .. 15 : first = q * 16 + r
  BY Halves
<1>2. PICK value, low : value = first * 256 + b /\ low = r * 256 + b
  OBVIOUS
<1>3. value = q * 4096 + low /\ low \in 0 .. 4095 /\ q \in Nat
  BY <1>1, <1>2 DEF Bytes
<1>4. LengthPart(value) = q /\ OffsetPart(value) = low
  BY <1>3 DEF LengthPart, OffsetPart
<1>5. length = (q + more) * 16 + r /\ q + more \in Nat
  BY <1>1
<1>6. length \div 16 = q + more /\ length % 16 = r
  BY <1>5
<1>7. QED
  BY <1>2, <1>4, <1>6

\* Three bytes of a command, and what was made of two of them.
ThreeSay(first, two, b, length, value) ==
    /\ first \in 0 .. 15 /\ two \in Bytes /\ b \in Bytes
    /\ length = first * 256 + 272 + two /\ value = (first * 256 + two) * 256 + b
\* The number of a command of three bytes.
LEMMA NumberOfThree ==
    ASSUME NEW first, NEW two, NEW b, NEW length, NEW value, ThreeSay(first, two, b, length, value)
    PROVE  OffsetPart(value) + 1 = (length % 16) * 256 + b + 1 /\ LengthPart(value) + 17 = length \div 16
<1>0. /\ first \in 0 .. 15 /\ two \in Bytes /\ b \in Bytes
      /\ length = first * 256 + 272 + two /\ value = (first * 256 + two) * 256 + b
  BY DEF ThreeSay
<1>1. PICK q \in 0 .. 15, r \in 0 .. 15 : two = q * 16 + r
  BY <1>0, Halves
<1>2. PICK low, high : low = r * 256 + b /\ high = first * 16 + q
  OBVIOUS
<1>3. value = high * 4096 + low /\ low \in 0 .. 4095 /\ high \in Nat
  BY <1>0, <1>1, <1>2 DEF Bytes
<1>4. LengthPart(value) = high /\ OffsetPart(value) = low
  BY <1>3 DEF LengthPart, OffsetPart
<1>5. length = (high + 17) * 16 + r /\ high + 17 \in Nat
  BY <1>0, <1>1, <1>2
<1>6. length \div 16 = high + 17 /\ length % 16 = r
  BY <1>5
<1>7. QED
  BY <1>2, <1>3, <1>4, <1>6

\* Four bytes of a command, and what was made of three of them.
FourSay(first, two, three, b, length, value) ==
    /\ first \in 16 .. 31 /\ two \in Bytes /\ three \in Bytes /\ b \in Bytes
    /\ length = (first % 16) * 65536 + 4368 + two * 256 + three
    /\ value = ((first * 256 + two) * 256 + three) * 256 + b
\* The number of a command of four bytes.
LEMMA NumberOfFour ==
    ASSUME NEW first, NEW two, NEW three, NEW b, NEW length, NEW value,
           FourSay(first, two, three, b, length, value)
    PROVE  OffsetPart(value) + 1 = (length % 16) * 256 + b + 1 /\ (LengthPart(value) % 65536) + 273 = length \div 16
<1>0. /\ first \in 16 .. 31 /\ two \in Bytes /\ three \in Bytes /\ b \in Bytes
      /\ length = (first % 16) * 65536 + 4368 + two * 256 + three
      /\ value = ((first * 256 + two) * 256 + three) * 256 + b
  BY DEF FourSay
<1>1. PICK q \in 0 .. 15, r \in 0 .. 15 : three = q * 16 + r
  BY <1>0, Halves
<1>2. PICK f : f = first - 16
  OBVIOUS
<1>3. f \in 0 .. 15 /\ first = 1 * 16 + f /\ 1 \in Nat
  BY <1>0, <1>2
<1>4. first % 16 = f
  BY <1>3
<1>5. PICK low, rest : low = r * 256 + b /\ rest = f * 4096 + two * 16 + q
  OBVIOUS
<1>6. two \in 0 .. 255 /\ b \in 0 .. 255
  BY <1>0 DEF Bytes
<1>7. low \in 0 .. 4095
  BY <1>5, <1>6
<1>8. rest \in Nat /\ rest < 65536
  BY <1>3, <1>5, <1>6
<1>9. PICK high : high = 65536 + rest /\ high \in Nat
  BY <1>8
<1>10. PICK top : top = (first * 256 + two) * 256 + three
  OBVIOUS
<1>11. top = high * 16 + r
  BY <1>1, <1>3, <1>5, <1>6, <1>9, <1>10
<1>12. value = top * 256 + b
  BY <1>0, <1>10
<1>13. value = high * 4096 + low
  BY <1>5, <1>6, <1>9, <1>11, <1>12
<1>14. LengthPart(value) = high /\ OffsetPart(value) = low
  <2>1. high \in Nat
    BY <1>9
  <2>2. QED
    BY <1>7, <1>13, <2>1 DEF LengthPart, OffsetPart
<1>15. high % 65536 = rest
  BY <1>8, <1>9
<1>16. length = (rest + 273) * 16 + r
  BY <1>0, <1>1, <1>4, <1>5, <1>6
<1>17. length \div 16 = rest + 273 /\ length % 16 = r
  BY <1>8, <1>16
<1>18. OffsetPart(value) + 1 = (length % 16) * 256 + b + 1
  BY <1>5, <1>14, <1>17
<1>19. (LengthPart(value) % 65536) + 273 = length \div 16
  BY <1>14, <1>15, <1>17
<1>20. QED
  BY <1>18, <1>19

\* A command of which one byte is to come.
Unfinished(ex, s, at, length) ==
    /\ s \in Seq(Bytes) /\ at \in 0 .. Len(s) /\ at < Len(s) /\ ex \in {0, 1} /\ length \in Nat
    /\ Partial(ex, s, at, Len(s) - at, length, 0)

\* The command at `at' of u goes up to `end'; b is its last byte.
CommandEnds(ex, u, at, end, b, length) ==
    /\ at + CommandLength(ex, u[at + 1]) = end
    /\ Command(ex, u, at) = [offset |-> (length % 16) * 256 + b + 1, length |-> length \div 16]

\* The number of a command is what the context has of it.
LEMMA CommandIs ==
    ASSUME NEW s, NEW b \in Bytes, NEW at, NEW ex, NEW length, Unfinished(ex, s, at, length),
           NEW u \in Seq(Bytes), Begins(Append(s, b), u)
    PROVE  CommandEnds(ex, u, at, Len(s) + 1, b, length)
<1>0. /\ s \in Seq(Bytes) /\ at \in 0 .. Len(s) /\ at < Len(s) /\ ex \in {0, 1} /\ length \in Nat
      /\ Partial(ex, s, at, Len(s) - at, length, 0)
  BY DEF Unfinished
<1> DEFINE m == Len(s) - at
           first == u[at + 1]
           two == u[at + 2]
           three == u[at + 3]
           four == u[at + 4]
           n == CommandLength(ex, first)
<1>1. m \in Nat /\ m > 0 /\ Len(s) + 1 = at + (m + 1) /\ at \in Nat /\ Len(s) \in Nat
  BY <1>0
<1>2. Begins(s, u) /\ Len(u) > Len(s) /\ u[Len(s) + 1] = b
  BY <1>0, BeginsLonger
<1>3. first = s[at + 1] /\ (m >= 2 => two = s[at + 2]) /\ (m >= 3 => three = s[at + 3])
      /\ first \in Bytes /\ (m >= 2 => two \in Bytes) /\ (m >= 3 => three \in Bytes)
  <2>1. at + 1 \in 1 .. Len(s) /\ (m >= 2 => at + 2 \in 1 .. Len(s)) /\ (m >= 3 => at + 3 \in 1 .. Len(s))
    BY <1>1
  <2>2. \A i \in 1 .. Len(s) : u[i] = s[i] /\ s[i] \in Bytes
    BY <1>0, <1>2 DEF Begins
  <2>3. QED
    BY <2>1, <2>2
<1>4. (m = 1 => two = b) /\ (m = 2 => three = b) /\ (m = 3 => four = b)
  BY <1>1, <1>2
<1>5. \/ n = 2 /\ ex = 0 /\ m = 1 /\ length = first + 48
      \/ n = 2 /\ ex = 1 /\ m = 1 /\ length = first + 16
      \/ n = 3 /\ ex = 1 /\ m = 2 /\ length = first * 256 + 272 + two
      \/ n = 4 /\ ex = 1 /\ m = 3 /\ length = (first % 16) * 65536 + 4368 + two * 256 + three
  <2>1. n = CommandLength(ex, s[at + 1]) /\ (ex = 0 => n = 2)
    BY <1>0, <1>3 DEF CommandLength
  <2>2. Partial(ex, s, at, m, length, 0)
    BY <1>0
  <2> HIDE DEF n, m
  <2>3. \/ n = 2 /\ ex = 0 /\ m = 1 /\ length = s[at + 1] + 48
        \/ n = 2 /\ ex = 1 /\ m = 1 /\ length = s[at + 1] + 16
        \/ n = 3 /\ m = 2 /\ length = s[at + 1] * 256 + 272 + s[at + 2]
        \/ n = 4 /\ m = 3 /\ length = (s[at + 1] % 16) * 65536 + 4368 + s[at + 2] * 256 + s[at + 3]
    BY <1>0, <2>1, <2>2 DEF Partial
  <2> HIDE DEF first, two, three
  <2>4. s[at + 1] = first /\ (m = 2 => s[at + 2] = two) /\ (m = 3 => s[at + 2] = two /\ s[at + 3] = three)
    BY <1>1, <1>3
  <2>5. CASE n = 2
    BY <1>0, <2>3, <2>4, <2>5
  <2>6. CASE n = 3 /\ m = 2 /\ length = s[at + 1] * 256 + 272 + s[at + 2]
    BY <1>0, <2>1, <2>4, <2>6
  <2>7. CASE n = 4 /\ m = 3 /\ length = (s[at + 1] % 16) * 65536 + 4368 + s[at + 2] * 256 + s[at + 3]
    BY <1>0, <2>1, <2>4, <2>7
  <2>8. QED
    BY <2>3, <2>5, <2>6, <2>7
<1>6. (n = 3 => first \div 16 = 0) /\ (n = 4 => first \div 16 = 1)
  BY DEF CommandLength
<1>7. at + n = Len(s) + 1
  BY <1>1, <1>5
<1>8. CASE n = 2
  <2>1. m = 1 /\ two = b /\ (ex = 0 => length = first + 48) /\ (ex = 1 => length = first + 16)
    BY <1>4, <1>5, <1>8
  <2> DEFINE value == first * 256 + two
  <2>2. Command(ex, u, at) = [offset |-> (value % 4096) + 1,
                              length |-> IF ex = 0 THEN (value \div 4096) + 3 ELSE (value \div 4096) + 1]
    BY <1>8 DEF Command
  <2> HIDE DEF first, two, n, m
  <2>3. PICK more \in {1, 3} : more = IF ex = 0 THEN 3 ELSE 1
    OBVIOUS
  <2>4. first \in Bytes /\ length = first + 16 * more
    BY <1>0, <1>3, <2>1, <2>3
  <2>5. OffsetPart(value) + 1 = (length % 16) * 256 + b + 1 /\ LengthPart(value) + more = length \div 16
    BY <2>1, <2>4, NumberOfTwo
  <2> HIDE DEF value
  <2>6. Command(ex, u, at) = [offset |-> OffsetPart(value) + 1, length |-> LengthPart(value) + more]
    BY <2>2, <2>3 DEF LengthPart, OffsetPart
  <2>7. QED
    BY <1>7, <2>5, <2>6 DEF first, n, CommandEnds
<1>9. CASE n = 3
  <2>1. /\ m = 2 /\ three = b /\ ex = 1 /\ length = first * 256 + 272 + two
        /\ first \in 0 .. 15 /\ two \in Bytes
    <3> HIDE DEF first, two, three, n, m
    <3>1. first \in 0 .. 15
      <4>1. first \div 16 = 0 /\ first \in Bytes
        BY <1>3, <1>6, <1>9
      <4>2. QED
        BY <4>1 DEF Bytes
    <3>2. QED
      BY <1>3, <1>4, <1>5, <1>9, <3>1
  <2> DEFINE value == (first * 256 + two) * 256 + three
  <2>2. Command(ex, u, at) = [offset |-> (value % 4096) + 1, length |-> (value \div 4096) + 17]
    BY <1>9, <2>1 DEF Command
  <2> HIDE DEF first, two, three, n, m
  <2>3. OffsetPart(value) + 1 = (length % 16) * 256 + b + 1 /\ LengthPart(value) + 17 = length \div 16
    <3>1. value = (first * 256 + two) * 256 + b
      BY <2>1
    <3>2. first \in 0 .. 15 /\ two \in Bytes /\ b \in Bytes /\ length = first * 256 + 272 + two
      BY <2>1
    <3> HIDE DEF value
    <3>3. ThreeSay(first, two, b, length, value)
      BY <3>1, <3>2 DEF ThreeSay
    <3>4. QED
      BY <3>3, NumberOfThree
  <2> HIDE DEF value
  <2>4. Command(ex, u, at) = [offset |-> OffsetPart(value) + 1, length |-> LengthPart(value) + 17]
    BY <2>2 DEF LengthPart, OffsetPart
  <2>5. QED
    BY <1>7, <2>3, <2>4 DEF first, n, CommandEnds
<1>10. CASE n = 4
  <2>1. /\ m = 3 /\ four = b /\ ex = 1 /\ length = (first % 16) * 65536 + 4368 + two * 256 + three
        /\ first \in 16 .. 31 /\ two \in Bytes /\ three \in Bytes
    <3> HIDE DEF first, two, three, four, n, m
    <3>1. first \in 16 .. 31
      <4>1. first \div 16 = 1 /\ first \in Bytes
        BY <1>3, <1>6, <1>10
      <4>2. QED
        BY <4>1 DEF Bytes
    <3>2. QED
      BY <1>3, <1>4, <1>5, <1>10, <3>1
  <2> DEFINE value == ((first * 256 + two) * 256 + three) * 256 + four
  <2>2. Command(ex, u, at) = [offset |-> (value % 4096) + 1, length |-> ((value \div 4096) % 65536) + 273]
    BY <1>10, <2>1 DEF Command
  <2> HIDE DEF first, two, three, four, n, m
  <2>3. OffsetPart(value) + 1 = (length % 16) * 256 + b + 1 /\ (LengthPart(value) % 65536) + 273 = length \div 16
    <3>1. value = ((first * 256 + two) * 256 + three) * 256 + b
      BY <2>1
    <3>2. /\ first \in 16 .. 31 /\ two \in Bytes /\ three \in Bytes /\ b \in Bytes
          /\ length = (first % 16) * 65536 + 4368 + two * 256 + three
      BY <2>1
    <3> HIDE DEF value
    <3>3. FourSay(first, two, three, b, length, value)
      BY <3>1, <3>2 DEF FourSay
    <3>4. QED
      BY <3>3, NumberOfFour
  <2> HIDE DEF value
  <2>4. Command(ex, u, at) = [offset |-> OffsetPart(value) + 1, length |-> (LengthPart(value) % 65536) + 273]
    BY <2>2 DEF LengthPart, OffsetPart
  <2>5. QED
    BY <1>7, <2>3, <2>4 DEF first, n, CommandEnds
<1>11. QED
  BY <1>5, <1>8, <1>9, <1>10 DEF CommandEnds

\* So many bytes of a copy are bytes.
LEMMA TurnedIs ==
    ASSUME NEW T, NEW out \in Seq(T), NEW offset \in 1 .. Len(out), NEW n \in Nat
    PROVE  Turned(out, offset, n) \in Seq(T) /\ Len(Turned(out, offset, n)) = n
<1>1. Len(out) \in Nat /\ offset \in Nat \ {0} /\ offset <= Len(out)
  OBVIOUS
<1>2. ASSUME NEW j \in 1 .. n
      PROVE  out[Len(out) - offset + 1 + ((j - 1) % offset)] \in T
  <2>1. j - 1 \in Nat
    OBVIOUS
  <2>2. (j - 1) % offset \in 0 .. offset - 1
    BY <1>1, <2>1, TurnBack
  <2>3. Len(out) - offset + 1 + ((j - 1) % offset) \in 1 .. Len(out)
    BY <1>1, <2>2
  <2>4. QED
    BY <2>3
<1>3. Turned(out, offset, n) \in [1 .. n -> T]
  BY <1>2 DEF Turned
<1>4. QED
  BY <1>3 DEF Turned

\* The context when a flag is done with, whatever else it holds.
LEMMA NextFlagOf ==
    ASSUME NEW destCount, NEW forced, NEW length, NEW lengthFlg, NEW flags, NEW flagIndex, NEW headerSize,
           NEW exFormat, NEW d,
           d = ContextOf(destCount, forced, length, lengthFlg, flags, flagIndex, headerSize, exFormat)
    PROVE  NextFlag(d) = ContextOf(destCount, forced, length, lengthFlg, (flags * 2) % 256, flagIndex - 1,
                                   headerSize, exFormat)
<1>1. d.flags = flags /\ d.flagIndex = flagIndex
  BY DEF ContextOf
<1>2. PICK x, y : x = (flags * 2) % 256 /\ y = flagIndex - 1
  OBVIOUS
<1>3. NextFlag(d) = [d EXCEPT !.flags = x, !.flagIndex = y]
  BY <1>1, <1>2 DEF NextFlag
<1>4. PICK e : e = [d EXCEPT !.flags = x]
  OBVIOUS
<1>5. e = ContextOf(destCount, forced, length, lengthFlg, x, flagIndex, headerSize, exFormat)
  BY <1>4 DEF ContextOf
<1>6. [e EXCEPT !.flagIndex = y] = ContextOf(destCount, forced, length, lengthFlg, x, y, headerSize, exFormat)
  BY <1>5 DEF ContextOf
<1>7. NextFlag(d) = [e EXCEPT !.flagIndex = y]
  BY <1>3, <1>4
<1>8. QED
  BY <1>2, <1>6, <1>7

\* The context when a command was carried out.
LEMMA CommandLeaves ==
    ASSUME context \in ContextType, NEW left
    PROVE  NextFlag([context EXCEPT !.length = 0, !.lengthFlg = 3, !.destCount = left])
             = ContextOf(left, context.forceDestCount, 0, 3, (context.flags * 2) % 256, context.flagIndex - 1,
                         context.headerSize, context.exFormat)
<1>1. PICK d1 : d1 = [context EXCEPT !.length = 0]
  OBVIOUS
<1>2. d1 = ContextOf(context.destCount, context.forceDestCount, 0, context.lengthFlg, context.flags,
                     context.flagIndex, context.headerSize, context.exFormat)
  BY <1>1 DEF ContextType, ContextOf
<1>3. PICK d2 : d2 = [d1 EXCEPT !.lengthFlg = 3]
  OBVIOUS
<1>4. d2 = ContextOf(context.destCount, context.forceDestCount, 0, 3, context.flags,
                     context.flagIndex, context.headerSize, context.exFormat)
  BY <1>2, <1>3 DEF ContextOf
<1>5. PICK d3 : d3 = [d2 EXCEPT !.destCount = left]
  OBVIOUS
<1>6. d3 = ContextOf(left, context.forceDestCount, 0, 3, context.flags,
                     context.flagIndex, context.headerSize, context.exFormat)
  BY <1>4, <1>5 DEF ContextOf
<1>7. [context EXCEPT !.length = 0, !.lengthFlg = 3, !.destCount = left] = d3
  BY <1>1, <1>3, <1>5
<1>8. QED
  BY <1>6, <1>7, NextFlagOf

\* The context when a command is refused.
LEMMA RefusedLeaves ==
    ASSUME context \in ContextType, NEW length
    PROVE  [context EXCEPT !.length = length, !.lengthFlg = 3]
             = ContextOf(context.destCount, context.forceDestCount, length, 3, context.flags, context.flagIndex,
                         context.headerSize, context.exFormat)
<1>1. PICK d1 : d1 = [context EXCEPT !.length = length]
  OBVIOUS
<1>2. d1 = ContextOf(context.destCount, context.forceDestCount, length, context.lengthFlg, context.flags,
                     context.flagIndex, context.headerSize, context.exFormat)
  BY <1>1 DEF ContextType, ContextOf
<1>3. [d1 EXCEPT !.lengthFlg = 3] = ContextOf(context.destCount, context.forceDestCount, length, 3,
                     context.flags, context.flagIndex, context.headerSize, context.exFormat)
  BY <1>2 DEF ContextOf
<1>4. QED
  BY <1>1, <1>3

\* Before a byte of an offset: where the command began, and what is known of it.
LEMMA BeforeOffset ==
    ASSUME LzInv, InBody, context.flagIndex > 0, IsCopy, context.lengthFlg = 0
    PROVE  /\ context.destCount > 0 /\ stream[1] % 16 \in {0, 1}
           /\ \E at \in 0 .. Len(stream), flags \in Bytes :
                 /\ Reached(at, flags) /\ FlagsSay(flags) /\ InCommand(flags)
                 /\ Unfinished(stream[1] % 16, stream, at, context.length)
<1>1. /\ context \in ContextType /\ stream \in Seq(Bytes) /\ result # -4 /\ len > 0
      /\ context.headerSize = 0 /\ context.flagIndex \in 1 .. 8
  BY DEF InBody, LzInv, LzTypeOK, ContextType
<1>2. context.destCount > 0
  BY <1>1 DEF LzInv, SizeSays
<1>3. stream[1] % 16 \in {0, 1}
  <2>1. Len(stream) >= 4
    BY <1>1 DEF LzInv, SizeSays, HeaderLength
  <2>2. stream # <<>>
    BY <2>1
  <2>3. QED
    BY <2>2 DEF LzInv, FormatSays
<1>4. PICK at \in 0 .. Len(stream), flags \in Bytes : Reached(at, flags) /\ PartSays(at, flags)
  BY <1>1 DEF LzInv, PartsSay
<1>5. FlagsSay(flags) /\ at < Len(stream) /\ InCommand(flags) /\ LengthSays(at)
  BY <1>1, <1>4 DEF PartSays
<1>6. Unfinished(stream[1] % 16, stream, at, context.length)
  BY <1>1, <1>3, <1>5, ContextFields DEF LengthSays, Unfinished
<1>7. QED
  BY <1>2, <1>3, <1>4, <1>5, <1>6

\* A command that is refused.
LEMMA RefusedInv ==
    ASSUME LzInv, InBody, context.flagIndex > 0, IsCopy, context.lengthFlg = 0, NEW b \in Bytes,
           context.length \div 16 > context.destCount, Forced = 0, result' = -4, len' = 0,
           context' = [context EXCEPT !.length = context.length \div 16, !.lengthFlg = 3],
           stream' = Append(stream, b), dest' = dest
    PROVE  LzInv'
<1>1. /\ context \in ContextType /\ stream \in Seq(Bytes) /\ dest \in Seq(Bytes) /\ len > 0
      /\ context.headerSize = 0 /\ Len(stream) \in Nat
  BY DEF InBody, LzInv, LzTypeOK, ContextType
<1>2. PICK length : length = context.length \div 16 /\ length \in Nat
  BY <1>1, ContextFields
<1>3. context' = ContextOf(context.destCount, context.forceDestCount, length, 3, context.flags, context.flagIndex,
                           context.headerSize, context.exFormat)
  BY <1>1, <1>2, RefusedLeaves
<1>4. /\ context' \in ContextType /\ context'.destCount = context.destCount
      /\ context'.forceDestCount = context.forceDestCount /\ context'.flags = context.flags
      /\ context'.flagIndex = context.flagIndex /\ context'.headerSize = 0
      /\ context'.exFormat = context.exFormat
  <2>1. PICK flg \in 0 .. 3 : flg = 3
    OBVIOUS
  <2>2. context' \in ContextType
    <3>1. /\ context.destCount \in Nat /\ context.forceDestCount \in Nat /\ context.flags \in Bytes
          /\ context.flagIndex \in 0 .. 8 /\ context.headerSize \in 0 .. 8 /\ context.exFormat \in 0 .. 15
      BY <1>1, ContextFields
    <3>2. ContextOf(context.destCount, context.forceDestCount, length, flg, context.flags, context.flagIndex,
                    context.headerSize, context.exFormat) \in ContextType
      BY ZenonT(30), <1>2, <3>1, ContextFits
    <3>3. QED
      BY <1>3, <2>1, <3>2
  <2>3. QED
    BY <1>1, <1>3, <2>2 DEF ContextOf
<1>5. LzTypeOK'
  <2>1. dest' \in Seq(Bytes) /\ stream' \in Seq(Bytes) /\ len' \in Nat /\ result' \in Int /\ (result' = -4 => len' = 0)
    BY <1>1
  <2>2. QED
    BY <1>4, <2>1 DEF LzTypeOK, ContextType
<1>6. Forced' = Forced /\ context'.exFormat = context.exFormat
  BY <1>4 DEF Forced
<1>7. /\ FormatSays' /\ Len(stream') >= HeaderLength(stream') /\ stream'[1] = stream[1]
      /\ SizeToWrite(stream', Forced') = SizeToWrite(stream, Forced)
  BY <1>6, BodyKeeps
<1>8. PICK at \in 0 .. Len(stream), flags \in Bytes :
          /\ context.destCount > 0 /\ stream[1] % 16 \in {0, 1}
          /\ Reached(at, flags) /\ FlagsSay(flags) /\ InCommand(flags)
          /\ Unfinished(stream[1] % 16, stream, at, context.length)
  BY BeforeOffset
<1>9. HeaderSays' /\ SizeSays'
  BY <1>1, <1>4, <1>7, <1>8 DEF LzInv, HeaderSays, SizeSays
<1>10. Reached(at, flags)'
  <2>1. Now(at, flags)' = Now(at, flags)
    BY <1>4 DEF Now
  <2>2. at \in Nat
    BY <1>1
  <2>3. QED
    BY <1>1, <1>6, <1>8, <2>1, <2>2, ReachedStays
<1>11. Refused(at)'
  <2>1. PICK u \in Seq(Bytes) : u = stream' /\ Begins(Append(stream, b), u)
    <3>1. stream' \in Seq(Bytes) /\ Begins(Append(stream, b), stream')
      BY <1>1 DEF Begins
    <3>2. QED
      BY <3>1
  <2>2. PICK ex \in {0, 1} : ex = stream[1] % 16 /\ ex = stream'[1] % 16
    BY <1>7, <1>8
  <2>3. PICK old \in Nat : old = context.length
    BY <1>1, ContextFields
  <2>4. Unfinished(ex, stream, at, old)
    BY <1>8, <2>2, <2>3
  <2>5. CommandEnds(ex, u, at, Len(stream) + 1, b, old)
    BY <2>1, <2>4, CommandIs
  <2>6. Command(ex, u, at).length > context'.destCount
    BY <1>2, <1>4, <2>3, <2>5 DEF CommandEnds
  <2>7. QED
    BY <1>6, <2>1, <2>2, <2>6 DEF Refused
<1>12. PartSays(at, flags)'
  <2>1. FlagsSay(flags)' /\ InCommand(flags)'
    BY <1>4, <1>8 DEF FlagsSay, InCommand
  <2>2. at < Len(stream')
    BY <1>1
  <2>3. QED
    BY <1>11, <2>1, <2>2 DEF PartSays
<1>13. PartsSay'
  <2>1. at \in 0 .. Len(stream')
    BY <1>1
  <2>2. QED
    BY <1>8, <1>10, <1>12, <2>1 DEF PartsSay
<1>14. QED
  BY <1>5, <1>7, <1>9, <1>13 DEF LzInv

\* The last byte b of a command is read that copies n bytes from `offset' back.
CarriesOut(b, offset, n) ==
    /\ InBody /\ context.flagIndex > 0 /\ IsCopy /\ context.lengthFlg = 0 /\ b \in Bytes
    /\ offset = (context.length % 16) * 256 + b + 1 /\ offset <= Len(dest)
    /\ n = IF context.length \div 16 > context.destCount THEN context.destCount
           ELSE context.length \div 16
    /\ context.length \div 16 > context.destCount => Forced # 0
    /\ Read(b, NextFlag([context EXCEPT !.length = 0, !.lengthFlg = 3,
                                        !.destCount = context.destCount - n]), CopyFrom(offset, n))

\* A command that is carried out.
LEMMA CarriedOutInv ==
    ASSUME LzInv, NEW b, NEW offset, NEW n, CarriesOut(b, offset, n)
    PROVE  LzInv'
<1>0. /\ InBody /\ context.flagIndex > 0 /\ IsCopy /\ context.lengthFlg = 0 /\ b \in Bytes
      /\ offset = (context.length % 16) * 256 + b + 1 /\ offset <= Len(dest)
      /\ n = IF context.length \div 16 > context.destCount THEN context.destCount
             ELSE context.length \div 16
      /\ context.length \div 16 > context.destCount => Forced # 0
  BY DEF CarriesOut
<1>1. /\ context \in ContextType /\ stream \in Seq(Bytes) /\ dest \in Seq(Bytes) /\ len > 0
      /\ context.headerSize = 0 /\ Len(stream) \in Nat /\ Len(dest) \in Nat
      /\ context.flagIndex \in 1 .. 8 /\ result # -4
  BY <1>0 DEF InBody, LzInv, LzTypeOK, ContextType
<1>2. PICK length \in Nat : length = context.length \div 16
  BY <1>1, ContextFields
<1>3. n \in Nat /\ context.destCount - n \in Nat /\ context.destCount \in Nat
  BY <1>0, <1>1, <1>2, ContextFields
<1>4. offset \in 1 .. Len(dest)
  <2>1. PICK low : low = context.length % 16
    OBVIOUS
  <2>2. context.length \in Nat
    BY <1>1, ContextFields
  <2>3. low \in 0 .. 15
    BY <2>1, <2>2
  <2>4. b \in 0 .. 255 /\ offset = low * 256 + b + 1
    BY <1>0, <2>1 DEF Bytes
  <2>5. offset \in Nat \ {0}
    BY <2>3, <2>4
  <2>6. QED
    BY <1>0, <1>1, <2>5
<1>5. /\ CopyFrom(offset, n) = Turned(dest, offset, n) /\ CopyFrom(offset, n) \in Seq(Bytes)
      /\ Len(CopyFrom(offset, n)) = n
  <2>1. CopyFrom(offset, n) = Turned(dest, offset, n)
    BY DEF CopyFrom, Turned
  <2>2. Turned(dest, offset, n) \in Seq(Bytes) /\ Len(Turned(dest, offset, n)) = n
    BY <1>1, <1>3, <1>4, TurnedIs
  <2>3. QED
    BY <2>1, <2>2
<1>6. PICK c, w : /\ c = NextFlag([context EXCEPT !.length = 0, !.lengthFlg = 3,
                                                 !.destCount = context.destCount - n])
                 /\ w = CopyFrom(offset, n) /\ Read(b, c, w)
  BY DEF CarriesOut
<1>7. /\ c \in ContextType /\ c.flags = (context.flags * 2) % 256 /\ c.flagIndex = context.flagIndex - 1
      /\ c.destCount = context.destCount - n
      /\ c.forceDestCount = context.forceDestCount /\ c.exFormat = context.exFormat
      /\ c.lengthFlg = 3 /\ c.headerSize = 0
  <2>1. PICK left, flg, zero, flags, index :
            /\ left = context.destCount - n /\ flg = 3 /\ zero = 0
            /\ flags = (context.flags * 2) % 256 /\ index = context.flagIndex - 1
    OBVIOUS
  <2>2. c = ContextOf(left, context.forceDestCount, zero, flg, flags, index, context.headerSize, context.exFormat)
    BY ZenonT(30), <1>1, <1>6, <2>1, CommandLeaves
  <2>3. /\ context.forceDestCount \in Nat /\ context.flags \in Bytes
        /\ context.headerSize \in 0 .. 8 /\ context.exFormat \in 0 .. 15
    BY <1>1, ContextFields
  <2>4. left \in Nat /\ zero \in Nat /\ flg \in 0 .. 3 /\ index \in 0 .. 8
    BY <1>0, <1>1, <1>3, <2>1
  <2>5. flags \in Bytes
    <3>1. (context.flags * 2) % 256 \in Bytes
      BY <2>3 DEF Bytes
    <3>2. QED
      BY <2>1, <3>1
  <2>6. c \in ContextType
    BY <2>2, <2>3, <2>4, <2>5, ContextFits
  <2>7. QED
    BY <1>1, <2>1, <2>2, <2>6 DEF ContextOf
<1>8. /\ LzTypeOK' /\ result' # -4 /\ context' = c /\ dest' = dest \o w /\ stream' = Append(stream, b)
      /\ len' > 0 => c.destCount > 0
      /\ len' = 0 => result' = c.destCount \/ (result' = -3 /\ c.destCount = 0)
  <2>1. w \in Seq(Bytes) /\ b \in Bytes
    BY <1>0, <1>5, <1>6
  <2>2. Read(b, c, w)
    BY <1>6
  <2>3. /\ LzTypeOK' /\ result' # -4 /\ context' = c /\ dest' = dest \o w /\ stream' = Append(stream, b)
        /\ c.headerSize = 0 => /\ len' > 0 => c.destCount > 0
                               /\ len' = 0 => \/ result' = c.destCount
                                              \/ result' = -3 /\ c.destCount = 0
    BY <1>1, <1>7, <2>1, <2>2, ReadSays
  <2>4. QED
    BY <1>7, <2>3
<1>9. Forced' = Forced /\ context'.exFormat = context.exFormat /\ Len(dest') = Len(dest) + n
  BY <1>1, <1>5, <1>6, <1>7, <1>8 DEF Forced
<1>10. /\ FormatSays' /\ Len(stream') >= HeaderLength(stream')
       /\ SizeToWrite(stream', Forced') = SizeToWrite(stream, Forced)
       /\ \A u \in Seq(Bytes) : Begins(stream', u) =>
              /\ Len(u) > Len(stream) /\ u[1] = stream[1]
              /\ SizeToWrite(u, Forced) - Len(dest) = context.destCount
  BY <1>0, <1>8, <1>9, BodyKeeps
<1>11. HeaderSays' /\ SizeSays'
  <2>1. HeaderSays'
    BY <1>7, <1>8 DEF HeaderSays
  <2>2. Len(dest') + context'.destCount = SizeToWrite(stream', Forced')
    <3>1. Len(dest) + context.destCount = SizeToWrite(stream, Forced)
      BY <1>1 DEF LzInv, SizeSays
    <3>2. Len(dest') = Len(dest) + n /\ context'.destCount = context.destCount - n
      BY <1>7, <1>8, <1>9
    <3>3. SizeToWrite(stream', Forced') = SizeToWrite(stream, Forced)
      BY <1>10
    <3>4. QED
      BY <1>1, <1>3, <3>1, <3>2, <3>3
  <2>3. QED
    BY <1>8, <1>10, <2>1, <2>2 DEF SizeSays
<1>12. PICK at \in 0 .. Len(stream), flags \in Bytes :
           /\ context.destCount > 0 /\ stream[1] % 16 \in {0, 1}
           /\ Reached(at, flags) /\ FlagsSay(flags) /\ InCommand(flags)
           /\ Unfinished(stream[1] % 16, stream, at, context.length)
  BY <1>0, BeforeOffset
<1>13. PICK next : next = Len(stream) + 1 /\ next = Len(stream') /\ next \in Nat /\ at < next
  BY <1>0, <1>1, <1>8
<1>14. ASSUME NEW u \in Seq(Bytes), Begins(stream', u)
       PROVE  NextRead(u, Forced, Now(at, flags)) = Now(next, flags)'
  <2>1. PICK ex : ex = stream[1] % 16 /\ ex = u[1] % 16
    BY <1>10, <1>14
  <2>2. PICK old : old = context.length
    OBVIOUS
  <2>3. Begins(Append(stream, b), u) /\ Unfinished(ex, stream, at, old)
    BY <1>8, <1>12, <1>14, <2>1, <2>2
  <2>4. CommandEnds(ex, u, at, Len(stream) + 1, b, old)
    BY <1>0, <2>3, CommandIs
  <2>5. at + CommandLength(ex, u[at + 1]) = next /\ Command(ex, u, at) = [offset |-> offset, length |-> length]
    BY <1>0, <1>2, <1>13, <2>2, <2>4 DEF CommandEnds
  <2>6. /\ Len(u) \in Nat /\ Len(u) >= next /\ SizeToWrite(u, Forced) - Len(dest) = context.destCount
    BY <1>1, <1>10, <1>13, <1>14
  <2>7. Repeated(dest, offset, n) = dest'
    <3>1. Repeated(dest, offset, n) = dest \o Turned(dest, offset, n)
      BY <1>1, <1>3, <1>4, RepeatedTurns
    <3>2. QED
      BY <1>5, <1>6, <1>8, <3>1
  <2> DEFINE r == Now(at, flags)
  <2>8. r.at = at /\ r.out = dest /\ r.flags = flags /\ r.bits = context.flagIndex
    BY DEF Now
  <2>9. /\ r.at # Len(u) /\ SizeToWrite(u, Forced) - Len(r.out) # 0 /\ r.bits # 0
        /\ FlagBit(r.flags, r.bits) # 0
    BY <1>1, <1>12, <1>13, <2>6, <2>8 DEF InCommand
  <2>10. /\ ~(Len(u) < r.at + CommandLength(u[1] % 16, u[r.at + 1]))
         /\ ~(Command(u[1] % 16, u, r.at).length > SizeToWrite(u, Forced) - Len(r.out) /\ Forced = 0)
    BY <1>0, <1>2, <1>13, <2>1, <2>5, <2>6, <2>8
  <2>11. NextRead(u, Forced, r)
           = [r EXCEPT !.at = @ + CommandLength(u[1] % 16, u[r.at + 1]), !.bits = @ - 1,
                       !.out = Repeated(@, Command(u[1] % 16, u, r.at).offset,
                                        IF Command(u[1] % 16, u, r.at).length > SizeToWrite(u, Forced) - Len(r.out)
                                        THEN SizeToWrite(u, Forced) - Len(r.out)
                                        ELSE Command(u[1] % 16, u, r.at).length)]
    <3> HIDE DEF r
    <3>1. QED
      BY <2>9, <2>10 DEF NextRead
  <2>12. r.at + CommandLength(u[1] % 16, u[r.at + 1]) = next
    BY <2>1, <2>5, <2>8
  <2>13. Repeated(r.out, Command(u[1] % 16, u, r.at).offset,
                  IF Command(u[1] % 16, u, r.at).length > SizeToWrite(u, Forced) - Len(r.out)
                  THEN SizeToWrite(u, Forced) - Len(r.out)
                  ELSE Command(u[1] % 16, u, r.at).length) = dest'
    <3>1. Command(u[1] % 16, u, r.at).offset = offset /\ Command(u[1] % 16, u, r.at).length = length
      BY <2>1, <2>5, <2>8
    <3>2. SizeToWrite(u, Forced) - Len(r.out) = context.destCount
      BY <2>6, <2>8
    <3>3. (IF length > context.destCount THEN context.destCount ELSE length) = n
      BY <1>0, <1>2
    <3> HIDE DEF r
    <3>4. QED
      BY <2>7, <2>8, <3>1, <3>2, <3>3
  <2>14. NextRead(u, Forced, r) = [at |-> next, out |-> dest', flags |-> flags, bits |-> context.flagIndex - 1]
    BY <2>11, <2>12, <2>13 DEF Now
  <2>15. Now(next, flags)' = [at |-> next, out |-> dest', flags |-> flags, bits |-> context.flagIndex - 1]
    BY <1>7, <1>8 DEF Now
  <2>16. QED
    BY <2>14, <2>15
<1>15. Reached(next, flags)'
  BY <1>0, <1>1, <1>8, <1>9, <1>12, <1>13, <1>14, ReachedNext
<1>16. PartSays(next, flags)'
  <2>1. FlagsSay(flags)'
    <3>1. context'.flags = (context.flags * 2) % 256 /\ context'.flagIndex = context.flagIndex - 1
      BY <1>7, <1>8
    <3>2. QED
      BY <1>1, <1>12, <3>1, FlagsGoOn
  <2>2. QED
    BY <1>7, <1>8, <1>13, <2>1 DEF PartSays
<1>17. PartsSay'
  <2>1. next \in 0 .. Len(stream')
    BY <1>13
  <2>2. QED
    BY <1>15, <1>16, <2>1 DEF PartsSay
<1>18. QED
  BY <1>8, <1>10, <1>11, <1>17 DEF LzInv

\* A byte of an offset, at which a command ends.
LEMMA OffsetByteInv ==
    ASSUME LzInv, OffsetByte
    PROVE  LzInv'
<1>1. PICK b \in OffsetBytes :
          LET offset == (context.length % 16) * 256 + b + 1
              length == context.length \div 16
              left == context.destCount
              n == IF length > left THEN left ELSE length
          IN /\ offset <= Len(dest)
             /\ IF length > left /\ context.forceDestCount = 0
                THEN /\ result' = -4 /\ len' = 0
                     /\ context' = [context EXCEPT !.length = length, !.lengthFlg = 3]
                     /\ stream' = Append(stream, b)
                     /\ UNCHANGED dest
                ELSE Read(b, NextFlag([context EXCEPT !.length = 0, !.lengthFlg = 3,
                                                      !.destCount = left - n]),
                          CopyFrom(offset, n))
  BY DEF OffsetByte
<1>2. b \in Bytes
  BY StreamAssumption DEF Bytes
<1>3. InBody /\ context.flagIndex > 0 /\ IsCopy /\ context.lengthFlg = 0
  BY DEF OffsetByte
<1>4. CASE context.length \div 16 > context.destCount /\ context.forceDestCount = 0
  BY <1>1, <1>2, <1>3, <1>4, RefusedInv DEF Forced
<1>5. CASE ~(context.length \div 16 > context.destCount /\ context.forceDestCount = 0)
  <2>1. PICK offset, n :
            /\ offset = (context.length % 16) * 256 + b + 1
            /\ n = IF context.length \div 16 > context.destCount THEN context.destCount
                   ELSE context.length \div 16
    OBVIOUS
  <2>2. CarriesOut(b, offset, n)
    BY <1>1, <1>2, <1>3, <1>5, <2>1 DEF CarriesOut, Forced
  <2>3. QED
    BY <2>2, CarriedOutInv
<1>6. QED
  BY <1>4, <1>5

\* The digits of a number of four.
LEMMA DigitsAre ==
    ASSUME NEW b \in Nat
    PROVE  Digit(b, 0) = b /\ Digit(b, 1) = b * 256 /\ Digit(b, 2) = b * 65536 /\ Digit(b, 3) = b * 16777216
BY SMT DEF Digit

\* Digits are numbers, and 0 only for the byte 0.
LEMMA DigitsFit ==
    ASSUME NEW b \in Nat
    PROVE  /\ Digit(b, 0) \in Nat /\ Digit(b, 1) \in Nat /\ Digit(b, 2) \in Nat /\ Digit(b, 3) \in Nat
           /\ Digit(b, 0) = 0 <=> b = 0
           /\ Digit(b, 1) = 0 <=> b = 0
           /\ Digit(b, 2) = 0 <=> b = 0
BY DigitsAre, SMT

\* What the size is when another byte of the header is read.
CountAfter(s, b) ==
    HeaderSum(s) + (IF Len(s) >= 4 THEN Digit(b, Len(s) - 4)
                    ELSE IF Len(s) >= 1 THEN Digit(b, Len(s) - 1) ELSE 0)
HeaderEnds(s, b) == Len(s) = 7 \/ (Len(s) = 3 /\ CountAfter(s, b) > 0)

\* What the bytes of a header of four make, and of one of eight.
NarrowSize(s) == s[2] + s[3] * 256 + s[4] * 65536
WideSize(s) == s[5] + s[6] * 256 + s[7] * 65536 + s[8] * 16777216

\* The size is what those of its bytes make.
LEMMA SizeOf ==
    ASSUME NEW s
    PROVE  (~IsWide(s) => SizeIn(s) = NarrowSize(s)) /\ (IsWide(s) => SizeIn(s) = WideSize(s))
BY SMT DEF SizeIn, NarrowSize, WideSize

\* A sequence that is longer by one.
LEMMA Longer ==
    ASSUME NEW s \in Seq(Bytes), NEW b \in Bytes
    PROVE  /\ Append(s, b) \in Seq(Bytes) /\ Len(Append(s, b)) = Len(s) + 1 /\ Append(s, b)[Len(s) + 1] = b
           /\ \A i \in 1 .. Len(s) : Append(s, b)[i] = s[i] /\ s[i] \in Nat
<1>1. \A i \in 1 .. Len(s) : s[i] \in Nat
  <2>1. \A i \in 1 .. Len(s) : s[i] \in Bytes
    OBVIOUS
  <2>2. Bytes \subseteq Nat
    BY DEF Bytes
  <2>3. QED
    BY <2>1, <2>2
<1>2. \A i \in 1 .. Len(s) : Append(s, b)[i] = s[i]
  OBVIOUS
<1>3. QED
  BY <1>1, <1>2

\* When the header is complete it is the size, and until then its sum.
LEMMA CountIs ==
    ASSUME NEW s \in Seq(Bytes), NEW b \in Bytes, Len(s) \in 0 .. 7, Len(s) >= 4 => IsWide(s),
           NEW t, t = Append(s, b)
    PROVE  /\ CountAfter(s, b) \in Nat
           /\ HeaderEnds(s, b) => CountAfter(s, b) = SizeIn(t) /\ Len(t) = HeaderLength(t)
           /\ ~HeaderEnds(s, b) => CountAfter(s, b) = HeaderSum(t) /\ (Len(t) >= 4 => IsWide(t))
<1>1. /\ Len(t) = Len(s) + 1 /\ t[Len(s) + 1] = b /\ Len(s) \in Nat
      /\ \A i \in 1 .. Len(s) : t[i] = s[i] /\ s[i] \in Nat
  BY Longer
<1>2. b \in Nat
  BY DEF Bytes
<1>3. CASE Len(s) = 0
  <2>1. CountAfter(s, b) = 0 /\ HeaderSum(t) = 0
    BY <1>1, <1>3 DEF CountAfter, HeaderSum
  <2>2. QED
    BY <1>1, <1>3, <2>1 DEF HeaderEnds
<1>4. CASE Len(s) = 1
  <2>1. PICK db : db = Digit(b, 0) /\ db \in Nat
    BY <1>2, DigitsFit
  <2>2. t[2] = b
    BY <1>1, <1>4
  <2>3. CountAfter(s, b) = db
    BY <1>1, <1>4, <2>1 DEF CountAfter, HeaderSum
  <2>4. HeaderSum(t) = db
    BY <1>1, <1>4, <2>1, <2>2 DEF HeaderSum
  <2>5. ~HeaderEnds(s, b) /\ Len(t) = 2
    BY <1>1, <1>4 DEF HeaderEnds
  <2>6. QED
    BY <2>1, <2>3, <2>4, <2>5
<1>5. CASE Len(s) = 2
  <2>1. PICK x \in Nat : x = s[2] /\ x = t[2]
    BY <1>1, <1>5
  <2>2. PICK dx, db : dx = Digit(x, 0) /\ dx \in Nat /\ db = Digit(b, 1) /\ db \in Nat
    <3>1. /\ Digit(x, 0) \in Nat
          /\ Digit(b, 1) \in Nat
      BY <1>2, DigitsFit
    <3>2. QED
      BY <3>1
  <2>3. t[3] = b
    BY <1>1, <1>5
  <2>4. CountAfter(s, b) = dx + db
    BY <1>1, <1>5, <2>1, <2>2 DEF CountAfter, HeaderSum
  <2>5. HeaderSum(t) = dx + db
    BY <1>1, <1>5, <2>1, <2>2, <2>3 DEF HeaderSum
  <2>6. ~HeaderEnds(s, b) /\ Len(t) = 3
    BY <1>1, <1>5 DEF HeaderEnds
  <2>7. QED
    BY <2>2, <2>4, <2>5, <2>6
<1>6. CASE Len(s) = 3
  <2>1. PICK x \in Nat, y \in Nat : x = s[2] /\ x = t[2] /\ y = s[3] /\ y = t[3]
    BY <1>1, <1>6
  <2>2. t[4] = b /\ Len(t) = 4
    BY <1>1, <1>6
  <2>3. PICK dx, dy, db : /\ dx = Digit(x, 0) /\ dx \in Nat /\ (dx = 0 <=> x = 0)
                         /\ dy = Digit(y, 1) /\ dy \in Nat /\ (dy = 0 <=> y = 0)
                         /\ db = Digit(b, 2) /\ db \in Nat /\ (db = 0 <=> b = 0)
    <3>1. /\ Digit(x, 0) \in Nat /\ (Digit(x, 0) = 0 <=> x = 0)
          /\ Digit(y, 1) \in Nat /\ (Digit(y, 1) = 0 <=> y = 0)
          /\ Digit(b, 2) \in Nat /\ (Digit(b, 2) = 0 <=> b = 0)
      BY <1>2, DigitsFit
    <3>2. QED
      BY <3>1
  <2>4. CountAfter(s, b) = dx + dy + db
    BY <1>1, <1>6, <2>1, <2>3 DEF CountAfter, HeaderSum
  <2>5. HeaderSum(t) = 0
    BY <2>2 DEF HeaderSum
  <2>6. IsWide(t) <=> x + y + b = 0
    BY <2>1, <2>2 DEF IsWide
  <2>7. (IsWide(t) <=> CountAfter(s, b) = 0) /\ CountAfter(s, b) \in Nat
    <3>1. (dx + dy + db = 0 <=> dx = 0 /\ dy = 0 /\ db = 0) /\ dx + dy + db \in Nat
      BY <2>3
    <3>2. x + y + b = 0 <=> x = 0 /\ y = 0 /\ b = 0
      BY <1>2
    <3>3. QED
      BY <2>3, <2>4, <2>6, <3>1, <3>2
  <2>8. ASSUME ~IsWide(t) PROVE CountAfter(s, b) = SizeIn(t) /\ HeaderLength(t) = 4
    <3>1. SizeIn(t) = NarrowSize(t)
      BY <2>8, SizeOf
    <3>2. dx = x /\ dy = y * 256 /\ db = b * 65536
      BY <1>2, <2>3, DigitsAre, SMT
    <3>3. NarrowSize(t) = dx + dy + db
      BY <2>1, <2>2, <3>2, SMT DEF NarrowSize
    <3>4. HeaderLength(t) = 4
      BY <2>2, <2>8 DEF HeaderLength
    <3>5. QED
      BY <2>4, <3>1, <3>3, <3>4
  <2>9. HeaderEnds(s, b) <=> CountAfter(s, b) > 0
    BY <1>6 DEF HeaderEnds
  <2>10. CountAfter(s, b) > 0 <=> ~IsWide(t)
    BY <2>7
  <2>11. QED
    BY <2>2, <2>5, <2>7, <2>8, <2>9, <2>10
<1>7. CASE Len(s) >= 4
  <2>1. t[2] = s[2] /\ t[3] = s[3] /\ t[4] = s[4]
    BY <1>1, <1>7
  <2>2. IsWide(t) /\ Len(t) >= 4
    BY <1>1, <1>7, <2>1 DEF IsWide
  <2>3. CASE Len(s) = 4
    <3>1. PICK db : db = Digit(b, 0) /\ db \in Nat
      BY <1>2, DigitsFit
    <3>2. t[5] = b
      BY <1>1, <2>3
    <3>3. CountAfter(s, b) = db
      BY <1>1, <2>3, <3>1 DEF CountAfter, HeaderSum
    <3>4. HeaderSum(t) = db
      BY <1>1, <2>3, <3>1, <3>2 DEF HeaderSum
    <3>5. ~HeaderEnds(s, b)
      BY <2>3 DEF HeaderEnds
    <3>6. QED
      BY <2>2, <3>1, <3>3, <3>4, <3>5
  <2>4. CASE Len(s) = 5
    <3>1. PICK x \in Nat : x = s[5] /\ x = t[5]
      BY <1>1, <2>4
    <3>2. PICK dx, db : dx = Digit(x, 0) /\ dx \in Nat /\ db = Digit(b, 1) /\ db \in Nat
      <4>1. /\ Digit(x, 0) \in Nat
            /\ Digit(b, 1) \in Nat
        BY <1>2, DigitsFit
      <4>2. QED
        BY <4>1
    <3>3. t[6] = b
      BY <1>1, <2>4
    <3>4. CountAfter(s, b) = dx + db
      BY <1>1, <2>4, <3>1, <3>2 DEF CountAfter, HeaderSum
    <3>5. HeaderSum(t) = dx + db
      BY <1>1, <2>4, <3>1, <3>2, <3>3 DEF HeaderSum
    <3>6. ~HeaderEnds(s, b)
      BY <2>4 DEF HeaderEnds
    <3>7. QED
      BY <2>2, <3>2, <3>4, <3>5, <3>6
  <2>5. CASE Len(s) = 6
    <3>1. PICK x \in Nat, y \in Nat : x = s[5] /\ x = t[5] /\ y = s[6] /\ y = t[6]
      BY <1>1, <2>5
    <3>2. PICK dx, dy, db : /\ dx = Digit(x, 0) /\ dx \in Nat /\ dy = Digit(y, 1) /\ dy \in Nat
                           /\ db = Digit(b, 2) /\ db \in Nat
      <4>1. /\ Digit(x, 0) \in Nat
            /\ Digit(y, 1) \in Nat
            /\ Digit(b, 2) \in Nat
        BY <1>2, DigitsFit
      <4>2. QED
        BY <4>1
    <3>3. t[7] = b
      BY <1>1, <2>5
    <3>4. CountAfter(s, b) = dx + dy + db
      BY SMTT(30), <1>1, <2>5, <3>1, <3>2 DEF CountAfter, HeaderSum
    <3>5. HeaderSum(t) = dx + dy + db
      BY SMTT(30), <1>1, <2>5, <3>1, <3>2, <3>3 DEF HeaderSum
    <3>6. ~HeaderEnds(s, b)
      BY <2>5 DEF HeaderEnds
    <3>7. QED
      BY SMTT(30), <2>2, <3>2, <3>4, <3>5, <3>6
  <2>6. CASE Len(s) = 7
    <3>1. PICK x \in Nat, y \in Nat, z \in Nat :
              x = s[5] /\ x = t[5] /\ y = s[6] /\ y = t[6] /\ z = s[7] /\ z = t[7]
      BY <1>1, <2>6
    <3>2. PICK dx, dy, dz, db : /\ dx = Digit(x, 0) /\ dx \in Nat /\ dy = Digit(y, 1) /\ dy \in Nat
                               /\ dz = Digit(z, 2) /\ dz \in Nat /\ db = Digit(b, 3) /\ db \in Nat
      <4>1. /\ Digit(x, 0) \in Nat
            /\ Digit(y, 1) \in Nat
            /\ Digit(z, 2) \in Nat
            /\ Digit(b, 3) \in Nat
        BY <1>2, DigitsFit
      <4>2. QED
        BY <4>1
    <3>3. t[8] = b
      BY <1>1, <2>6
    <3>4. CountAfter(s, b) = dx + dy + dz + db
      <4>1. HeaderSum(s) = dx + dy + dz
        <5>1. ~(Len(s) < 4) /\ 5 <= Len(s) /\ 6 <= Len(s) /\ 7 <= Len(s) /\ ~(8 <= Len(s))
          BY <2>6
        <5>2. HeaderSum(s) = Digit(s[5], 0) + Digit(s[6], 1) + Digit(s[7], 2) + 0
          BY <5>1, Zenon DEF HeaderSum
        <5>3. Digit(s[5], 0) = dx /\ Digit(s[6], 1) = dy /\ Digit(s[7], 2) = dz
          BY <3>1, <3>2
        <5>4. HeaderSum(s) = dx + dy + dz + 0
          BY <5>2, <5>3
        <5>5. QED
          BY SMTT(30), <3>2, <5>4
      <4>2. CountAfter(s, b) = HeaderSum(s) + db
        BY <2>6, <3>2 DEF CountAfter
      <4>3. QED
        BY <4>1, <4>2
    <3>5. dx = x /\ dy = y * 256 /\ dz = z * 65536 /\ db = b * 16777216
      BY <1>2, <3>2, DigitsAre, SMT
    <3>6. SizeIn(t) = WideSize(t)
      BY <2>2, SizeOf
    <3>7. WideSize(t) = dx + dy + dz + db
      BY <3>1, <3>3, <3>5, SMT DEF WideSize
    <3>8. HeaderLength(t) = 8 /\ Len(t) = 8 /\ HeaderEnds(s, b)
      BY <1>1, <2>2, <2>6 DEF HeaderLength, HeaderEnds
    <3>9. CountAfter(s, b) \in Nat
      <4>1. dx + dy + dz + db \in Nat
        BY SMTT(30), <3>2
      <4>2. QED
        BY <3>4, <4>1
    <3>10. QED
      BY <3>4, <3>6, <3>7, <3>8, <3>9
  <2>7. QED
    BY SMTT(30), <1>1, <1>7, <2>3, <2>4, <2>5, <2>6
<1>8. QED
  BY <1>1, <1>3, <1>4, <1>5, <1>6, <1>7

\* The byte of a header that comes next.
LEMMA NextOfHeader ==
    ASSUME NEW h \in Headers, NEW s \in Seq(Bytes), IsStrictPrefix(s, h)
    PROVE  h[Len(s) + 1] \in Bytes
<1>1. h \in Seq(Bytes) /\ Len(h) \in Nat /\ Len(s) \in Nat
  BY StreamAssumption DEF Bytes
<1>2. Len(s) <= Len(h) /\ SubSeq(s, 1, Len(s)) = SubSeq(h, 1, Len(s)) /\ s # h
  BY DEF IsStrictPrefix, IsPrefix
<1>3. Len(s) # Len(h)
  <2>1. SUFFICES ASSUME Len(s) = Len(h) PROVE FALSE
    OBVIOUS
  <2>2. ASSUME NEW i \in 1 .. Len(s) PROVE s[i] = h[i]
    <3>1. SubSeq(s, 1, Len(s))[i] = s[i] /\ SubSeq(h, 1, Len(s))[i] = h[i]
      BY <1>1, <2>1
    <3>2. QED
      BY <1>2, <3>1
  <2>3. s = h
    BY <1>1, <2>1, <2>2, SeqEqual
  <2>4. QED
    BY <1>2, <2>3
<1>4. Len(s) + 1 \in 1 .. Len(h)
  BY <1>1, <1>2, <1>3
<1>5. QED
  BY <1>1, <1>4

\* What the context is after a byte of the header.
LEMMA ReadHeaderIs ==
    ASSUME LzInv, context.headerSize > 0, NEW b \in Bytes
    PROVE  \E size \in 0 .. 8, count \in Nat, ex \in 0 .. 15 :
              /\ ReadHeader(b) = ContextOf(count, context.forceDestCount, context.length, context.lengthFlg,
                                           context.flags, context.flagIndex, size, ex)
              /\ ex = IF stream = <<>> THEN b % 16 ELSE context.exFormat
              /\ HeaderEnds(stream, b) =>
                    /\ size = 0
                    /\ count = IF Forced \in 1 .. CountAfter(stream, b) - 1 THEN Forced ELSE CountAfter(stream, b)
              /\ ~HeaderEnds(stream, b) => size > 0 /\ size = 7 - Len(stream) /\ count = CountAfter(stream, b)
<1>1. /\ context \in ContextType /\ stream \in Seq(Bytes) /\ context.headerSize \in 1 .. 8 /\ Forced \in Nat
      /\ Forced = context.forceDestCount
  BY DEF LzInv, LzTypeOK, ContextType, Forced
<1>2. /\ Len(stream) = 8 - context.headerSize /\ (Len(stream) >= 4 => IsWide(stream))
      /\ context.destCount = HeaderSum(stream)
  BY DEF LzInv, HeaderSays
<1>3. Len(stream) \in 0 .. 7
  BY <1>1, <1>2
<1>4. PICK j \in 0 .. 7 : j = Len(stream)
  BY <1>3
<1>5. CountAfter(stream, b) \in Nat
  BY <1>1, <1>2, <1>3, CountIs
<1> DEFINE size == context.headerSize - 1
           count == context.destCount
                    + (IF size <= 3 THEN Digit(b, 3 - size)
                       ELSE IF size <= 6 THEN Digit(b, 6 - size) ELSE 0)
           ends == size = 0 \/ (size = 4 /\ count > 0)
           sizeNext == IF ends THEN 0 ELSE size
           countNext == IF ends /\ Forced \in 1 .. count - 1 THEN Forced ELSE count
           exNext == IF context.headerSize = 8 THEN b % 16 ELSE context.exFormat
<1>6. size = 7 - j /\ size \in 0 .. 7
  BY <1>1, <1>2, <1>4
<1>7. count = CountAfter(stream, b)
  <2>1. CASE j >= 4
    <3>1. size <= 3 /\ 3 - size = j - 4
      BY <1>6, <2>1
    <3>2. QED
      BY <1>2, <1>4, <2>1, <3>1 DEF CountAfter
  <2>2. CASE j < 4 /\ j >= 1
    <3>1. ~(size <= 3) /\ size <= 6 /\ 6 - size = j - 1
      BY <1>6, <2>2
    <3>2. QED
      BY <1>2, <1>4, <2>2, <3>1 DEF CountAfter
  <2>3. CASE j = 0
    <3>1. ~(size <= 3) /\ ~(size <= 6)
      BY <1>6, <2>3
    <3>2. QED
      BY <1>2, <1>4, <2>3, <3>1 DEF CountAfter
  <2>4. QED
    BY <2>1, <2>2, <2>3
<1>8. ReadHeader(b) = [context EXCEPT !.headerSize = sizeNext, !.destCount = countNext, !.exFormat = exNext]
  BY <1>1 DEF ReadHeader
<1>9. ends <=> HeaderEnds(stream, b)
  <2> HIDE DEF count, size
  <2>1. (size = 0 <=> j = 7) /\ (size = 4 <=> j = 3)
    BY <1>6
  <2>2. QED
    BY <1>4, <1>7, <2>1 DEF HeaderEnds
<1>10. context.headerSize = 8 <=> stream = <<>>
  <2>1. stream = <<>> <=> Len(stream) = 0
    BY <1>1
  <2>2. QED
    BY <1>1, <1>2, <2>1
<1> HIDE DEF count, ends, size
<1>11. sizeNext \in 0 .. 8 /\ countNext \in Nat /\ exNext \in 0 .. 15
  <2>1. sizeNext \in 0 .. 8
    BY <1>6
  <2>2. countNext \in Nat
    BY <1>1, <1>5, <1>7
  <2>3. b % 16 \in 0 .. 15
    BY DEF Bytes
  <2>4. exNext \in 0 .. 15
    BY <1>1, <2>3, ContextFields
  <2>5. QED
    BY <2>1, <2>2, <2>4
<1>12. /\ HeaderEnds(stream, b) =>
             /\ sizeNext = 0
             /\ countNext = IF Forced \in 1 .. CountAfter(stream, b) - 1 THEN Forced ELSE CountAfter(stream, b)
       /\ ~HeaderEnds(stream, b) => sizeNext > 0 /\ sizeNext = 7 - Len(stream) /\ countNext = CountAfter(stream, b)
  <2>1. CASE HeaderEnds(stream, b)
    BY <1>7, <1>9, <2>1
  <2>2. CASE ~HeaderEnds(stream, b)
    <3>1. sizeNext = size /\ size # 0
      BY <1>9, <2>2 DEF ends
    <3>2. QED
      BY <1>4, <1>6, <1>7, <1>9, <2>2, <3>1
  <2>3. QED
    BY <2>1, <2>2
<1>13. exNext = IF stream = <<>> THEN b % 16 ELSE context.exFormat
  BY <1>10
<1> HIDE DEF sizeNext, countNext, exNext
<1>14. [context EXCEPT !.headerSize = sizeNext, !.destCount = countNext, !.exFormat = exNext]
         = ContextOf(countNext, context.forceDestCount, context.length, context.lengthFlg,
                     context.flags, context.flagIndex, sizeNext, exNext)
  <2>1. PICK d1 : d1 = [context EXCEPT !.headerSize = sizeNext]
    OBVIOUS
  <2>2. d1 = ContextOf(context.destCount, context.forceDestCount, context.length, context.lengthFlg,
                       context.flags, context.flagIndex, sizeNext, context.exFormat)
    BY <1>1, <2>1 DEF ContextType, ContextOf
  <2>3. PICK d2 : d2 = [d1 EXCEPT !.destCount = countNext]
    OBVIOUS
  <2>4. d2 = ContextOf(countNext, context.forceDestCount, context.length, context.lengthFlg,
                       context.flags, context.flagIndex, sizeNext, context.exFormat)
    BY <2>2, <2>3 DEF ContextOf
  <2>5. [d2 EXCEPT !.exFormat = exNext]
          = ContextOf(countNext, context.forceDestCount, context.length, context.lengthFlg,
                      context.flags, context.flagIndex, sizeNext, exNext)
    BY <2>4 DEF ContextOf
  <2>6. QED
    BY <2>1, <2>3, <2>5
<1>15. QED
  BY <1>8, <1>11, <1>12, <1>13, <1>14

\* A byte of the header.
LEMMA HeaderByteInv ==
    ASSUME LzInv, HeaderByte
    PROVE  LzInv'
<1>1. PICK h \in Headers : /\ h[1] \in {16, 17} /\ IsStrictPrefix(stream, h)
                           /\ LET b == h[Len(stream) + 1] IN Read(b, ReadHeader(b), <<>>)
  BY DEF HeaderByte
<1>2. PICK b, c : b = h[Len(stream) + 1] /\ c = ReadHeader(b) /\ Read(b, c, <<>>)
  BY <1>1
<1>3. /\ context.headerSize > 0 /\ len > 0 /\ context \in ContextType /\ stream \in Seq(Bytes)
      /\ dest \in Seq(Bytes) /\ Len(stream) \in Nat /\ context.headerSize \in 1 .. 8
      /\ Forced = context.forceDestCount /\ Forced \in Nat
  BY DEF HeaderByte, LzInv, LzTypeOK, ContextType, Forced
<1>4. /\ Len(stream) = 8 - context.headerSize /\ (Len(stream) >= 4 => IsWide(stream))
      /\ dest = <<>> /\ context.flagIndex = 0 /\ context.lengthFlg = 3
  BY <1>3 DEF LzInv, HeaderSays
<1>5. Len(stream) \in 0 .. 7
  BY <1>3, <1>4
<1>6. b \in Bytes
  BY <1>1, <1>2, <1>3, NextOfHeader
<1>7. PICK size \in 0 .. 8, count \in Nat, ex \in 0 .. 15 :
          /\ c = ContextOf(count, context.forceDestCount, context.length, context.lengthFlg,
                           context.flags, context.flagIndex, size, ex)
          /\ ex = IF stream = <<>> THEN b % 16 ELSE context.exFormat
          /\ HeaderEnds(stream, b) =>
                /\ size = 0
                /\ count = IF Forced \in 1 .. CountAfter(stream, b) - 1 THEN Forced ELSE CountAfter(stream, b)
          /\ ~HeaderEnds(stream, b) => size > 0 /\ size = 7 - Len(stream) /\ count = CountAfter(stream, b)
  BY ZenonT(30), <1>2, <1>3, <1>6, ReadHeaderIs
<1>8. /\ c \in ContextType /\ c.flags = context.flags /\ c.flagIndex = 0 /\ c.destCount = count
      /\ c.forceDestCount = context.forceDestCount /\ c.exFormat = ex /\ c.lengthFlg = 3 /\ c.headerSize = size
  <2>1. /\ context.forceDestCount \in Nat /\ context.length \in Nat /\ context.lengthFlg \in 0 .. 3
        /\ context.flags \in Bytes /\ context.flagIndex \in 0 .. 8
    BY <1>3, ContextFields
  <2>2. c \in ContextType
    BY <1>7, <2>1, ContextFits
  <2>3. QED
    BY <1>4, <1>7, <2>2 DEF ContextOf
<1>9. <<>> \in Seq(Bytes) /\ dest \o <<>> = dest
  BY <1>3
<1>10. /\ LzTypeOK' /\ result' # -4 /\ context' = c /\ dest' = dest /\ stream' = Append(stream, b)
       /\ size > 0 => (len' = 0 => result' = -1)
       /\ size = 0 => /\ len' > 0 => count > 0
                      /\ len' = 0 => result' = count \/ (result' = -3 /\ count = 0)
  <2>1. /\ LzTypeOK' /\ result' # -4 /\ context' = c /\ dest' = dest \o <<>> /\ stream' = Append(stream, b)
        /\ c.headerSize > 0 => (len' = 0 => result' = -1)
        /\ c.headerSize = 0 => /\ len' > 0 => c.destCount > 0
                               /\ len' = 0 => \/ result' = c.destCount
                                              \/ result' = -3 /\ c.destCount = 0
    <3>1. Read(b, c, <<>>)
      BY <1>2
    <3>2. QED
      BY <1>3, <1>6, <1>8, <1>9, <3>1, ReadSays
  <2>2. QED
    BY <1>8, <1>9, <2>1
<1>11. Forced' = Forced /\ dest' = <<>> /\ Len(dest') = 0
  BY <1>3, <1>4, <1>8, <1>10 DEF Forced
<1>12. PICK t : t = Append(stream, b) /\ t = stream'
  BY <1>10
<1>13. /\ t \in Seq(Bytes) /\ Len(t) = Len(stream) + 1 /\ Len(t) \in Nat /\ t[Len(stream) + 1] = b
       /\ \A i \in 1 .. Len(stream) : t[i] = stream[i]
  <2>1. /\ Append(stream, b) \in Seq(Bytes) /\ Len(Append(stream, b)) = Len(stream) + 1
        /\ Append(stream, b)[Len(stream) + 1] = b
        /\ \A i \in 1 .. Len(stream) : Append(stream, b)[i] = stream[i]
    BY <1>3, <1>6, Longer
  <2>2. QED
    BY <1>3, <1>12, <2>1
<1>14. /\ CountAfter(stream, b) \in Nat
       /\ HeaderEnds(stream, b) => CountAfter(stream, b) = SizeIn(t) /\ Len(t) = HeaderLength(t)
       /\ ~HeaderEnds(stream, b) => CountAfter(stream, b) = HeaderSum(t) /\ (Len(t) >= 4 => IsWide(t))
  BY <1>3, <1>4, <1>5, <1>6, <1>12, CountIs
<1>15. FormatSays'
  <2>1. CASE stream = <<>>
    <3>1. Len(stream) = 0 /\ ex = b % 16
      BY <1>7, <2>1
    <3>2. t[1] = b /\ b = h[1]
      BY <1>2, <1>13, <3>1
    <3>3. QED
      BY <1>1, <1>8, <1>10, <1>12, <3>1, <3>2 DEF FormatSays
  <2>2. CASE stream # <<>>
    <3>1. 1 \in 1 .. Len(stream)
      BY <1>3, <2>2
    <3>2. t[1] = stream[1] /\ ex = context.exFormat
      BY <1>7, <1>13, <2>2, <3>1
    <3>3. stream[1] \in {16, 17} /\ context.exFormat = stream[1] % 16
      BY <2>2 DEF LzInv, FormatSays
    <3>4. QED
      BY <1>8, <1>10, <1>12, <3>2, <3>3 DEF FormatSays
  <2>3. QED
    BY <2>1, <2>2
<1>16. CASE ~HeaderEnds(stream, b)
  <2>1. size > 0 /\ size = 7 - Len(stream) /\ count = HeaderSum(t) /\ (Len(t) >= 4 => IsWide(t))
    BY <1>7, <1>14, <1>16
  <2>2. context'.headerSize > 0 /\ Len(t) = 8 - context'.headerSize
    BY <1>3, <1>8, <1>10, <1>13, <2>1
  <2>3. HeaderSays'
    BY <1>8, <1>10, <1>11, <1>12, <2>1, <2>2 DEF HeaderSays
  <2>4. SizeSays' /\ PartsSay'
    BY <2>2 DEF SizeSays, PartsSay
  <2>5. QED
    BY <1>10, <1>15, <2>3, <2>4 DEF LzInv
<1>17. CASE HeaderEnds(stream, b)
  <2>1. /\ size = 0 /\ Len(t) = HeaderLength(t)
        /\ count = IF Forced \in 1 .. SizeIn(t) - 1 THEN Forced ELSE SizeIn(t)
    BY <1>7, <1>14, <1>17
  <2>2. count = SizeToWrite(t, Forced)
    BY <2>1 DEF SizeToWrite
  <2>3. context'.headerSize = 0 /\ context'.destCount = count
    BY <1>8, <1>10, <2>1
  <2>4. HeaderSays'
    BY <2>3 DEF HeaderSays
  <2>5. SizeSays'
    <3>1. Len(stream') >= HeaderLength(stream')
      BY <1>12, <1>13, <2>1
    <3>2. Len(dest') + context'.destCount = SizeToWrite(stream', Forced')
      BY <1>11, <1>12, <2>2, <2>3
    <3>3. QED
      BY <1>10, <2>1, <2>3, <3>1, <3>2 DEF SizeSays
  <2>6. PartsSay'
    <3>1. PICK at \in 0 .. Len(t), flags \in Bytes : at = Len(t) /\ flags = 0
      <4>1. Len(t) \in 0 .. Len(t) /\ 0 \in Bytes
        BY <1>13 DEF Bytes
      <4>2. QED
        BY <4>1
    <3>2. Now(at, flags)' = StartOf(t)
      BY <1>8, <1>10, <1>11, <2>1, <3>1 DEF Now, StartOf
    <3>3. ASSUME NEW u \in Seq(Bytes), Begins(t, u)
          PROVE  Reads(u, Forced)[0] = Now(at, flags)'
      <4>1. Len(u) \in Nat
        OBVIOUS
      <4>2. Reads(u, Forced)[0] = StartOf(u)
        BY <4>1, ReadsExist
      <4>3. Len(t) >= HeaderLength(t)
        BY <1>13, <2>1
      <4>4. StartOf(u) = StartOf(t)
        BY <1>3, <1>13, <3>3, <4>3, HeaderStays
      <4>5. QED
        BY <3>1, <3>2, <4>2, <4>4
    <3>4. Reached(at, flags)'
      <4>1. \A u \in Seq(Bytes) : Begins(stream', u) => Reads(u, Forced')[0] = Now(at, flags)'
        BY <1>11, <1>12, <3>3
      <4>2. 0 \in 0 .. at
        BY <1>13, <3>1
      <4>3. QED
        BY <4>1, <4>2 DEF Reached
    <3>5. PartSays(at, flags)'
      <4>1. at = Len(stream') /\ context'.lengthFlg = 3 /\ result' # -4 /\ ~(context'.flagIndex > 0)
        BY <1>8, <1>10, <1>12, <3>1
      <4>2. FlagsSay(flags)'
        BY <4>1 DEF FlagsSay
      <4>3. QED
        BY <4>1, <4>2 DEF PartSays
    <3>6. at \in 0 .. Len(stream')
      BY <1>12
    <3>7. QED
      BY <3>4, <3>5, <3>6 DEF PartsSay
  <2>7. QED
    BY <1>10, <1>15, <2>4, <2>5, <2>6 DEF LzInv
<1>18. QED
  BY <1>16, <1>17

\* Data of another type are an error at once.
LEMMA WrongTypeInv ==
    ASSUME LzInv, WrongType
    PROVE  LzInv'
<1>1. PICK h \in Headers :
          context' = IF h[1] \div 16 = 1 THEN [context EXCEPT !.exFormat = h[1] % 16] ELSE context
  BY DEF WrongType
<1>2. /\ context.headerSize = 8 /\ len' = 0 /\ result' = -1 /\ dest' = dest /\ stream' = stream
      /\ context \in ContextType /\ dest \in Seq(Bytes) /\ stream \in Seq(Bytes)
  BY DEF WrongType, LzInv, LzTypeOK, ContextType
<1>3. stream = <<>> /\ HeaderSays
  <2>1. Len(stream) = 0
    BY <1>2 DEF LzInv, HeaderSays
  <2>2. QED
    BY <1>2, <2>1 DEF LzInv
<1>4. h[1] % 16 \in 0 .. 15
  <2>1. h \in Seq(0 .. 255) /\ Len(h) >= 4 /\ Len(h) \in Nat
    BY StreamAssumption
  <2>2. 1 \in 1 .. Len(h)
    BY <2>1
  <2>3. h[1] \in 0 .. 255
    BY <2>1, <2>2, ElementOfSeq
  <2>4. QED
    BY <2>3
<1>5. PICK ex \in 0 .. 15 :
          context' = ContextOf(context.destCount, context.forceDestCount, context.length, context.lengthFlg,
                               context.flags, context.flagIndex, context.headerSize, ex)
  <2>1. context = ContextOf(context.destCount, context.forceDestCount, context.length, context.lengthFlg,
                            context.flags, context.flagIndex, context.headerSize, context.exFormat)
    BY <1>2 DEF ContextType, ContextOf
  <2>2. CASE h[1] \div 16 = 1
    <3>1. PICK ex : ex = h[1] % 16 /\ ex \in 0 .. 15
      BY <1>4
    <3>2. context' = [context EXCEPT !.exFormat = ex]
      BY <1>1, <2>2, <3>1
    <3>3. context' = ContextOf(context.destCount, context.forceDestCount, context.length, context.lengthFlg,
                               context.flags, context.flagIndex, context.headerSize, ex)
      BY <1>2, <3>2 DEF ContextType, ContextOf
    <3>4. QED
      BY <3>1, <3>3
  <2>3. CASE h[1] \div 16 # 1
    <3>1. context' = context /\ context.exFormat \in 0 .. 15
      BY <1>1, <1>2, <2>3, ContextFields
    <3>2. QED
      BY <2>1, <3>1
  <2>4. QED
    BY <2>2, <2>3
<1>6. /\ context' \in ContextType /\ context'.destCount = context.destCount
      /\ context'.headerSize = 8 /\ context'.flagIndex = context.flagIndex /\ context'.lengthFlg = context.lengthFlg
  <2>1. /\ context.destCount \in Nat /\ context.forceDestCount \in Nat /\ context.length \in Nat
        /\ context.lengthFlg \in 0 .. 3 /\ context.flags \in Bytes /\ context.flagIndex \in 0 .. 8
        /\ context.headerSize \in 0 .. 8
    BY <1>2, ContextFields
  <2>2. context' \in ContextType
    BY <1>5, <2>1, ContextFits
  <2>3. QED
    BY <1>2, <1>5, <2>2 DEF ContextOf
<1>7. LzTypeOK'
  BY <1>2, <1>6 DEF LzTypeOK, ContextType
<1>8. FormatSays' /\ SizeSays' /\ PartsSay'
  BY <1>2, <1>3, <1>6 DEF FormatSays, SizeSays, PartsSay
<1>9. HeaderSays'
  BY <1>2, <1>3, <1>6 DEF HeaderSays
<1>10. QED
  BY <1>7, <1>8, <1>9 DEF LzInv

\* Another piece.
LEMMA StartPieceInv ==
    ASSUME LzInv, NEW n \in Pieces, StartPiece(n)
    PROVE  LzInv'
<1>1. n \in Nat \ {0}
  BY StreamAssumption
<1>2. /\ len = 0 /\ result >= -1 /\ context' = context /\ dest' = dest /\ stream' = stream
      /\ result \in Int /\ result # -4
  BY DEF StartPiece, LzInv, LzTypeOK
<1>3. /\ len' \in Nat /\ result' \in Int /\ result' # -4
      /\ context.headerSize > 0 => len' > 0
      /\ context.headerSize = 0 => /\ len' > 0 => context.destCount # 0
                                   /\ len' = 0 => context.destCount = 0 /\ result' \in {0, -3}
  <2>1. CASE context.headerSize = 0 /\ context.destCount = 0
    <3>1. result' \in {0, -3} /\ len' = len
      BY <2>1 DEF StartPiece, AtEnd
    <3>2. QED
      BY <1>2, <2>1, <3>1
  <2>2. CASE ~(context.headerSize = 0 /\ context.destCount = 0)
    <3>1. result' = result /\ len' = n
      BY <2>2 DEF StartPiece
    <3>2. QED
      BY <1>1, <1>2, <2>2, <3>1
  <2>3. QED
    BY <2>1, <2>2
<1>4. LzTypeOK' /\ FormatSays'
  BY <1>2, <1>3 DEF LzInv, LzTypeOK, FormatSays
<1>5. HeaderSays'
  BY <1>2, <1>3 DEF LzInv, HeaderSays
<1>6. SizeSays'
  <2>1. context.destCount \in Nat
    BY DEF LzInv, LzTypeOK
  <2>2. Forced' = Forced
    BY <1>2 DEF Forced
  <2>3. QED
    BY <1>2, <1>3, <2>1, <2>2 DEF LzInv, SizeSays
<1>7. PartsSay'
  <2>1. SUFFICES ASSUME context'.headerSize = 0 PROVE PartsSay'
    BY DEF PartsSay
  <2>2. PICK at \in 0 .. Len(stream), flags \in Bytes : Reached(at, flags) /\ PartSays(at, flags)
    BY <1>2, <2>1 DEF LzInv, PartsSay
  <2>3. Reached(at, flags)'
    BY <1>2, <2>2 DEF Reached, Now, Forced
  <2>4. FlagsSay(flags)' /\ (at = Len(stream) => context.lengthFlg = 3)
        /\ (at # Len(stream) => InCommand(flags)' /\ LengthSays(at)')
    BY <1>2, <2>2 DEF PartSays, FlagsSay, InCommand, LengthSays
  <2>5. PartSays(at, flags)'
    BY <1>2, <1>3, <2>4 DEF PartSays
  <2>6. QED
    BY <1>2, <2>2, <2>3, <2>5 DEF PartsSay
<1>8. QED
  BY <1>4, <1>5, <1>6, <1>7 DEF LzInv

\* Nothing happens.
LEMMA LzStutterInv ==
    ASSUME LzInv, UNCHANGED lzVars
    PROVE  LzInv'
<1>1. context' = context /\ dest' = dest /\ stream' = stream /\ len' = len /\ result' = result
  BY DEF lzVars
<1>2. LzTypeOK' /\ FormatSays' /\ HeaderSays'
  BY <1>1 DEF LzInv, LzTypeOK, FormatSays, HeaderSays
<1>3. SizeSays'
  BY <1>1 DEF LzInv, SizeSays, Forced
<1>4. PartsSay'
  <2>1. SUFFICES ASSUME context.headerSize = 0 PROVE PartsSay'
    BY <1>1 DEF PartsSay
  <2>2. PICK at \in 0 .. Len(stream), flags \in Bytes : Reached(at, flags) /\ PartSays(at, flags)
    BY <2>1 DEF LzInv, PartsSay
  <2>3. Reached(at, flags)'
    BY <1>1, <2>2 DEF Reached, Now, Forced
  <2>4. PartSays(at, flags)'
    BY <1>1, <2>2 DEF PartSays, FlagsSay, InCommand, LengthSays, Refused, Forced
  <2>5. QED
    BY <1>1, <2>2, <2>3, <2>4 DEF PartsSay
<1>5. QED
  BY <1>2, <1>3, <1>4 DEF LzInv

\* The invariant holds after every step.
LEMMA LzNextInv == LzInv /\ [LzNext]_lzVars => LzInv'
<1>1. SUFFICES ASSUME LzInv, [LzNext]_lzVars PROVE LzInv'
  OBVIOUS
<1>2. ASSUME NEW n \in Pieces, StartPiece(n) PROVE LzInv'
  BY <1>1, <1>2, StartPieceInv
<1>3. CASE WrongType
  BY <1>1, <1>3, WrongTypeInv
<1>4. CASE HeaderByte
  BY <1>1, <1>4, HeaderByteInv
<1>5. CASE FlagsByte
  BY <1>1, <1>5, FlagsByteInv
<1>6. CASE LiteralByte
  BY <1>1, <1>6, LiteralByteInv
<1>7. CASE LengthByte
  BY <1>1, <1>7, LengthByteInv
<1>8. CASE OffsetByte
  BY <1>1, <1>8, OffsetByteInv
<1>9. CASE UNCHANGED lzVars
  BY <1>1, <1>9, LzStutterInv
<1>10. QED
  BY <1>1, <1>2, <1>3, <1>4, <1>5, <1>6, <1>7, <1>8, <1>9 DEF LzNext

\* However the data are cut into pieces, what was written is what the bytes read so
\* far stand for, and a call returns what is to be written or an error that is due
\* (ReadUncompLZ).
THEOREM StreamsAreExact == LzSpec => []StreamIsExact
<1>1. LzSpec => []LzInv
  BY LzInitInv, LzNextInv, PTL DEF LzSpec
<1>2. QED
  BY <1>1, LzInvSuffices, PTL
==============================================================================
