------------------------------- MODULE LifoRing ------------------------------
(***************************************************************************)
(* The rings of input samples in hidlow: PadLifoRing::ReadData, and the     *)
(* same function of the rings of the touch panel, the accelerometer, the    *)
(* gyroscope and the debug pad. Another process writes the ring in shared   *)
(* memory and takes no lock: the reader notes pointer and ticks, copies,    *)
(* and starts over if any of the three has changed.                         *)
(*                                                                         *)
(* Samples are numbered from 1 and stand for their own time; 0 is a slot    *)
(* nothing was written to, or one half written. The times are 64-bit words  *)
(* that are read and written in one piece.                                  *)
(***************************************************************************)
EXTENDS Integers, Sequences

CONSTANTS BufferNum,     \* PAD_LIFORING_BUFFER_NUM
          BufferSizes,   \* what callers pass as bufferNum
          MaxSamples     \* bound on the samples written

ASSUME LifoAssumption ==
    /\ BufferNum \in Nat \ {0, 1}
    /\ BufferSizes \subseteq Nat \ {0}
    /\ MaxSamples \in Nat

VARIABLES buffers,           \* m_Buffers
          writePointer,      \* m_writePointer
          tickWriteZero,     \* m_tickWriteZero
          oldTickWriteZero,  \* m_oldTickWriteZero
          writer,            \* what the writer does next
          published,         \* the last sample a reader may know of
          reader,            \* ReadData: its place and its locals; history: the samples
                             \* published at its call, the round at its first note
          kept               \* the reader's m_TickOfRead and m_IndexOfRead

lifoVars == <<buffers, writePointer, tickWriteZero, oldTickWriteZero, writer, published,
              reader, kept>>

Before == [tick |-> -1, index |-> -1]
AtRest == [at |-> "idle", keeps |-> FALSE, from |-> Before, maxRead |-> 0, pointer |-> 0,
           tick |-> 0, old |-> 0, last |-> 0, copied |-> <<>>, count |-> 0, since |-> 0,
           round |-> -1]

LifoInit ==
    /\ buffers = [i \in 0..BufferNum - 1 |-> 0]
    /\ writePointer = -1 /\ tickWriteZero = -1 /\ oldTickWriteZero = -1
    /\ writer = "begin" /\ published = 0
    /\ reader = AtRest
    /\ kept = Before

------------------------------------------------------------------------------
\* The writer, from how ReadData reads: a sample is written, then the pointer is
\* moved to it. When the pointer returns to slot 0 the time of the last round is
\* kept first and the time of the new one written last.
Slot == (writePointer + 1) % BufferNum

WriteSample ==
    /\ writer \in {"begin", "fill"}
    /\ published < MaxSamples
    /\ buffers' = [buffers EXCEPT ![Slot] = IF writer = "begin" THEN 0 ELSE published + 1]
    /\ writer' = IF writer = "begin" THEN "fill" ELSE IF Slot = 0 THEN "old" ELSE "pointer"
    /\ UNCHANGED <<writePointer, tickWriteZero, oldTickWriteZero, published>>

PublishSample ==
    /\ \/ /\ writer = "old" /\ writer' = "pointer"
          /\ oldTickWriteZero' = tickWriteZero
          /\ UNCHANGED <<writePointer, tickWriteZero, published>>
       \/ /\ writer = "pointer" /\ writer' = IF Slot = 0 THEN "tick" ELSE "begin"
          /\ writePointer' = Slot
          /\ published' = IF Slot = 0 THEN published ELSE published + 1
          /\ UNCHANGED <<tickWriteZero, oldTickWriteZero>>
       \/ /\ writer = "tick" /\ writer' = "begin"
          /\ tickWriteZero' = published + 1
          /\ published' = published + 1
          /\ UNCHANGED <<writePointer, oldTickWriteZero>>
    /\ UNCHANGED buffers

------------------------------------------------------------------------------
Lesser(a, b) == IF a < b THEN a ELSE b

\* PadReader::Read keeps tick and index from call to call, ReadLatest begins
\* anew and asks for one sample.
CallRead ==
    /\ reader.at = "idle"
    /\ \E keeps \in BOOLEAN, size \in BufferSizes :
          /\ keeps \/ size = 1
          /\ reader' = [AtRest EXCEPT !.at = "pointer", !.keeps = keeps,
                                      !.from = IF keeps THEN kept ELSE Before,
                                      !.maxRead = Lesser(size, BufferNum - 1),
                                      !.since = published]
    /\ UNCHANGED kept

\* How many samples are new to the caller, from what was noted of the ring: the
\* writer may be between the two writes that begin a round.
NewSamples(last, tick, old) ==
    Lesser(reader.maxRead,
           IF tick <= reader.from.tick THEN last - reader.from.index
           ELSE IF old < 0 THEN last + 1
           ELSE IF old <= reader.from.tick THEN last + BufferNum - reader.from.index
           ELSE reader.maxRead)

\* ReadData notes the pointer, the tick and the old tick.
NoteRing ==
    /\ \/ reader.at = "pointer"
          /\ reader' = [reader EXCEPT !.at = "tick", !.pointer = writePointer,
                                      !.round = tickWriteZero]
       \/ reader.at = "tick"
          /\ reader' = [reader EXCEPT !.at = "old", !.tick = tickWriteZero]
       \/ /\ reader.at = "old"
          /\ LET begins == reader.pointer = 0 /\ reader.tick = oldTickWriteZero
                 last == IF begins THEN BufferNum - 1 ELSE reader.pointer
             IN  reader' = IF reader.pointer < 0 \/ (begins /\ reader.tick < 0)
                           THEN AtRest
                           ELSE [reader EXCEPT
                                   !.at = "copy", !.old = oldTickWriteZero, !.last = last,
                                   !.count = NewSamples(last, reader.tick, oldTickWriteZero),
                                   !.copied = <<>>]
    /\ UNCHANGED kept

CopySample ==
    /\ reader.at = "copy"
    /\ LET i == Len(reader.copied)
       IN  reader' = IF i < reader.count
                     THEN [reader EXCEPT !.copied =
                             Append(@, buffers[(BufferNum + reader.last - i) % BufferNum])]
                     ELSE [reader EXCEPT !.at = "checkPointer"]
    /\ UNCHANGED kept

\* Mutant of CheckRing: only the pointer is checked.
CheckRingPointer ==
    /\ \/ /\ reader.at = "checkPointer"
          /\ reader' = [reader EXCEPT !.at = IF writePointer = reader.pointer
                                             THEN "checkTick" ELSE "pointer"]
       \/ reader.at = "checkTick" /\ reader' = [reader EXCEPT !.at = "checkOld"]
    /\ UNCHANGED kept

\* What was noted must still be so, or the copy starts over.
CheckRing ==
    /\ \/ /\ reader.at = "checkPointer"
          /\ reader' = [reader EXCEPT !.at = IF writePointer = reader.pointer
                                             THEN "checkTick" ELSE "pointer"]
       \/ /\ reader.at = "checkTick"
          /\ reader' = [reader EXCEPT !.at = IF tickWriteZero = reader.tick
                                             THEN "checkOld" ELSE "pointer"]
       \/ /\ reader.at = "checkOld" /\ oldTickWriteZero # reader.old
          /\ reader' = [reader EXCEPT !.at = "pointer"]
    /\ UNCHANGED kept

ReturnSamples ==
    /\ reader.at = "checkOld" /\ oldTickWriteZero = reader.old
    /\ kept' = IF reader.keeps THEN [tick |-> reader.tick, index |-> reader.last] ELSE kept
    /\ reader' = AtRest

ReadData == CallRead \/ NoteRing \/ CopySample \/ CheckRing \/ ReturnSamples

LifoNext ==
    \/ (WriteSample \/ PublishSample) /\ UNCHANGED <<reader, kept>>
    \/ ReadData /\ UNCHANGED <<buffers, writePointer, tickWriteZero, oldTickWriteZero,
                               writer, published>>

LifoSpec == LifoInit /\ [][LifoNext]_lifoVars

------------------------------------------------------------------------------
\* What ReadData returns is what an atomic reader would have at some moment of
\* the call: the newest samples, newest first, whole, none that Read returned
\* before and none left out but those that do not fit. Not if a round begins
\* between the notes of pointer and tick: the pointer may come to the same slot
\* again by the time it is checked, and the copy is of slots being written.
ReadIsExact ==
    [][ReturnSamples /\ reader.round = reader.tick =>
         \E newest \in reader.since..published :
            LET seen == IF reader.from = Before THEN 0 ELSE reader.from.tick + reader.from.index
            IN  reader.copied = [i \in 1..Lesser(reader.maxRead, newest - seen)
                                    |-> newest + 1 - i]]_lifoVars
==============================================================================
