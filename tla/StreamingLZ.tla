------------------------------ MODULE StreamingLZ -----------------------------
(***************************************************************************)
(* ReadUncompLZ of cx: decompression of LZ data that comes in pieces. Each  *)
(* call is given a piece of any length and stops wherever it ends, within   *)
(* the header, a length or between two bytes of a copy command; what the    *)
(* next call needs to go on is in the context. One step reads one byte.     *)
(*                                                                         *)
(* A literal byte is the number of the byte it becomes, so that all differ. *)
(* The data are well formed but for the cases the code checks: the type in  *)
(* the header, a copy longer than what is left, and bytes after the end.    *)
(***************************************************************************)
EXTENDS Integers, Sequences, SequencesExt

CONSTANTS Headers,                   \* the headers the data may begin with
          FlagBytes, LengthBytes, OffsetBytes,
          ForcedCounts,              \* what forceDestCount may be set to
          Pieces,                    \* the lengths of the pieces
          MaxStream                  \* bound on the bytes read

\* A header is four bytes, or eight if the size in the first word is 0; the code keeps
\* sizes in a signed word. The first byte may be any.
ASSUME StreamAssumption ==
    /\ \A h \in Headers :
          /\ h \in Seq(0 .. 255)
          /\ IF h[2] + h[3] + h[4] = 0 THEN Len(h) = 8 /\ h[8] < 128 ELSE Len(h) = 4
    /\ FlagBytes \subseteq 0 .. 255 /\ LengthBytes \subseteq 0 .. 255 /\ OffsetBytes \subseteq 0 .. 255
    /\ ForcedCounts \subseteq Nat
    /\ Pieces \subseteq Nat \ {0}
    /\ MaxStream \in Nat

VARIABLES context,  \* UncompContextLZ without destp
          dest,     \* what was written from destp on
          stream,   \* history: the bytes read by all calls
          len,      \* bytes left of the piece; 0 between calls
          result    \* of the last call

lzVars == <<context, dest, stream, len, result>>

\* InitUncompContextLZ; the caller may set forceDestCount afterwards.
InitUncompContextLZ ==
    /\ \E forced \in ForcedCounts :
          context = [destCount |-> 0, forceDestCount |-> forced, length |-> 0,
                     lengthFlg |-> 3, flags |-> 0, flagIndex |-> 0, headerSize |-> 8,
                     exFormat |-> 0]
    /\ dest = <<>> /\ stream = <<>> /\ len = 0 /\ result = 0

\* Bytes that follow the end are not looked at, but many of them are an error.
AtEnd(left) == IF context.forceDestCount = 0 /\ left > 32 THEN -3 ELSE 0

\* One byte was read: the call ends with the data, or with its piece.
Read(b, c, written) ==
    /\ Len(stream) < MaxStream
    /\ context' = c
    /\ dest' = dest \o written
    /\ stream' = Append(stream, b)
    /\ IF c.headerSize = 0 /\ c.destCount = 0
       THEN len' = 0 /\ result' = AtEnd(len - 1)
       ELSE /\ len' = len - 1
            /\ result' = IF len > 1 THEN result
                         ELSE IF c.headerSize = 0 THEN c.destCount ELSE -1

\* A caller gives up on errors; -1 may also mean that the header goes on.
StartPiece(n) ==
    /\ len = 0 /\ result >= -1
    /\ IF context.headerSize = 0 /\ context.destCount = 0
       THEN result' = AtEnd(n) /\ UNCHANGED len
       ELSE len' = n /\ UNCHANGED result
    /\ UNCHANGED <<context, dest, stream>>

WrongType ==
    /\ len > 0 /\ context.headerSize = 8
    /\ \E h \in Headers :
          /\ h[1] \notin {16, 17}
          /\ context' = IF h[1] \div 16 = 1 THEN [context EXCEPT !.exFormat = h[1] % 16]
                        ELSE context
    /\ len' = 0 /\ result' = -1
    /\ UNCHANGED <<dest, stream>>

\* A byte as the digit that counts 256 ^ place.
Digit(b, place) == b * <<1, 256, 65536, 16777216>>[place + 1]

\* The context after a byte of the header: three bytes of size, or four more if they are 0.
ReadHeader(b) ==
    LET size == context.headerSize - 1
        count == context.destCount
                 + (IF size <= 3 THEN Digit(b, 3 - size)
                    ELSE IF size <= 6 THEN Digit(b, 6 - size) ELSE 0)
        ends == size = 0 \/ (size = 4 /\ count > 0)
        forced == context.forceDestCount
    IN [context EXCEPT
          !.headerSize = IF ends THEN 0 ELSE size,
          !.destCount = IF ends /\ forced \in 1..count - 1 THEN forced ELSE count,
          !.exFormat = IF context.headerSize = 8 THEN b % 16 ELSE @]

HeaderByte ==
    /\ len > 0 /\ context.headerSize > 0
    /\ \E h \in Headers :
          /\ h[1] \in {16, 17}
          /\ IsStrictPrefix(stream, h)
          /\ LET b == h[Len(stream) + 1] IN Read(b, ReadHeader(b), <<>>)

InBody == len > 0 /\ context.headerSize = 0

FlagsByte ==
    /\ InBody /\ context.flagIndex = 0
    /\ \E b \in FlagBytes :
          Read(b, [context EXCEPT !.flags = b, !.flagIndex = 8], <<>>)

IsCopy == context.flags >= 128

NextFlag(c) == [c EXCEPT !.flags = (@ * 2) % 256, !.flagIndex = @ - 1]

LiteralByte ==
    /\ InBody /\ context.flagIndex > 0 /\ ~IsCopy
    /\ LET b == (Len(dest) + 1) % 256
       IN Read(b, NextFlag([context EXCEPT !.destCount = @ - 1]), <<b>>)

\* Mutant of LengthAfter: the flag is not counted down over the end of a piece.
LengthAfterStuck(b) ==
    [context EXCEPT !.length = b + 48, !.lengthFlg = IF len = 1 THEN 1 ELSE 0]

\* The length and how many bytes of it are to come, after one more.
LengthAfter(b) ==
    LET Set(length, flg) == [context EXCEPT !.length = length, !.lengthFlg = flg]
    IN IF context.exFormat = 0 THEN Set(b + 3 * 16, 0)
       ELSE IF context.lengthFlg < 3
            THEN Set(context.length + Digit(b, context.lengthFlg - 1), context.lengthFlg - 1)
       ELSE CASE b \div 16 = 1 -> Set((b % 16) * 65536 + (255 + 15 + 3) * 16, 2)
              [] b \div 16 = 0 -> Set((b % 16) * 256 + (15 + 2) * 16, 1)
              [] OTHER -> Set(b + 16, 0)

LengthByte ==
    /\ InBody /\ context.flagIndex > 0 /\ IsCopy /\ context.lengthFlg > 0
    /\ \E b \in LengthBytes : Read(b, LengthAfter(b), <<>>)

\* Bytes copied one by one from `offset' back, those just written included.
CopyFrom(offset, n) ==
    [i \in 1..n |-> dest[Len(dest) - offset + 1 + ((i - 1) % offset)]]

OffsetByte ==
    /\ InBody /\ context.flagIndex > 0 /\ IsCopy /\ context.lengthFlg = 0
    /\ \E b \in OffsetBytes :
          LET offset == (context.length % 16) * 256 + b + 1
              length == context.length \div 16
              left == context.destCount
              n == IF length > left THEN left ELSE length
          IN /\ offset <= Len(dest)
             /\ IF length > left /\ context.forceDestCount = 0
                THEN /\ result' = -4 /\ len' = 0
                     /\ context' = [context EXCEPT !.length = length, !.lengthFlg = 3]
                     /\ stream' = Append(stream, b)
                     /\ UNCHANGED dest
                ELSE Read(b, NextFlag([context EXCEPT !.length = 0, !.lengthFlg = 3,
                                                      !.destCount = left - n]),
                          CopyFrom(offset, n))

LzNext ==
    \/ \E n \in Pieces : StartPiece(n)
    \/ WrongType \/ HeaderByte \/ FlagsByte \/ LiteralByte \/ LengthByte \/ OffsetByte

LzSpec == InitUncompContextLZ /\ [][LzNext]_lzVars

------------------------------------------------------------------------------
(* The format, read at once: the whole of a header, a flag byte, a command. *)
IsWide(s) == s[2] + s[3] + s[4] = 0
HeaderLength(s) == IF Len(s) >= 4 /\ ~IsWide(s) THEN 4 ELSE 8
SizeIn(s) ==
    IF IsWide(s) THEN s[5] + s[6] * 256 + s[7] * 65536 + s[8] * 16777216
    ELSE s[2] + s[3] * 256 + s[4] * 65536
SizeToWrite(s, forced) == IF forced \in 1 .. SizeIn(s) - 1 THEN forced ELSE SizeIn(s)

\* A copy command is one number: 12 bits of offset at its end, a length before.
CommandLength(ex, first) ==
    IF ex = 0 THEN 2 ELSE CASE first \div 16 = 0 -> 3 [] first \div 16 = 1 -> 4 [] OTHER -> 2
Command(ex, s, at) ==
    LET n == CommandLength(ex, s[at + 1])
        two == s[at + 1] * 256 + s[at + 2]
        three == two * 256 + s[at + 3]
        four == three * 256 + s[at + 4]
        value == CASE n = 2 -> two [] n = 3 -> three [] n = 4 -> four
        length == value \div 4096
    IN [offset |-> (value % 4096) + 1,
        length |-> IF ex = 0 THEN length + 3
                   ELSE CASE n = 2 -> length + 1 [] n = 3 -> length + 17
                          [] n = 4 -> (length % 65536) + 273]

\* n bytes appended one after the other, each the one `offset' before it.
Repeated(out, offset, n) ==
    LET copied[i \in 0 .. n] ==
            IF i = 0 THEN out
            ELSE LET before == copied[i - 1] IN Append(before, before[(Len(out) + i) - offset])
    IN copied[n]

\* A flag byte's bits, the highest first: the one that leaves `bits - 1' to come.
FlagBit(flags, bits) == (flags \div <<1, 2, 4, 8, 16, 32, 64, 128>>[bits]) % 2

\* What is read behind the header: how far, what it stands for, and the flags of
\* which `bits' are left. One more flag byte, literal byte or command, if the data
\* hold the whole of it and the command does not exceed a size that is not forced.
StartOf(s) == [at |-> HeaderLength(s), out |-> <<>>, flags |-> 0, bits |-> 0]
NextRead(s, forced, r) ==
    LET size == SizeToWrite(s, forced)
        ex == s[1] % 16
        byte == s[r.at + 1]
        left == size - Len(r.out)
        n == CommandLength(ex, byte)
        command == Command(ex, s, r.at)
    IN IF r.at = Len(s) \/ left = 0 THEN r
       ELSE IF r.bits = 0 THEN [r EXCEPT !.at = @ + 1, !.flags = byte, !.bits = 8]
       ELSE IF FlagBit(r.flags, r.bits) = 0
            THEN [r EXCEPT !.at = @ + 1, !.out = Append(@, byte), !.bits = @ - 1]
       ELSE IF Len(s) < r.at + n \/ (command.length > left /\ forced = 0) THEN r
       ELSE [r EXCEPT !.at = @ + n, !.bits = @ - 1,
                      !.out = Repeated(@, command.offset,
                                       IF command.length > left THEN left ELSE command.length)]

\* What the data s stand for.
Decoded(s, forced) ==
    LET read[k \in 0 .. Len(s)] ==
            IF k = 0 THEN StartOf(s) ELSE NextRead(s, forced, read[k - 1])
    IN read[Len(s)].out

\* However the data are cut, what was written is what the bytes read so far stand
\* for, a call returns what is still to be written, and errors only for a piece
\* that ends in the header, a copy too long or too many bytes after the end.
StreamIsExact ==
    IF Len(stream) < HeaderLength(stream)
    THEN dest = <<>> /\ (len = 0 /\ stream # <<>> => result = -1)
    ELSE LET size == SizeToWrite(stream, context.forceDestCount)
         IN /\ dest = Decoded(stream, context.forceDestCount)
            /\ len = 0 => \/ result = size - Len(dest)
                          \/ result = -3 /\ Len(dest) = size
                          \/ result = -4 /\ Len(dest) < size
==============================================================================
