---- MODULE CommandBuffer ----
(***************************************************************************)
(* The buffers of command lists, gles2/systemmanager.c: draw commands are   *)
(* written to the bound list's buffer, and what has been written is cut     *)
(* into render requests by splits, flushes and transfers. Part of a list    *)
(* may be saved and used again in another. CommandList has the execution of *)
(* the requests; here a list is never one that runs. Sizes are in words of  *)
(* four bytes, the unit of the write pointer: a register write takes two,   *)
(* what an application has copied any number.                               *)
(*                                                                          *)
(* Left out: subroutine calls (sys_fixSubroutineCommand), and storage whose *)
(* size is not a multiple of four bytes. The guards are the conditions of   *)
(* BASE_GL_FAIL_IF.                                                         *)
(***************************************************************************)
EXTENDS Integers, Sequences

CONSTANTS
  CbLists,
  BufferSizes,  \* bound: sizes given to nngxCmdlistStorage
  MaxRequests,  \* requestcount given to nngxCmdlistStorage
  Writes,       \* bound: words written by a call of __cb_writeRegs, of which there may be an odd
                \* number of pairs, but not of words
  Copies        \* bound: words copied by nngxAdd3DCommand

ASSUME CommandBufferAssumption ==
  /\ BufferSizes \cup Writes \cup Copies \subseteq Nat \ {0} /\ MaxRequests \in Nat
  /\ \A n \in Writes : n % 2 = 0
  /\ "none" \notin CbLists

VARIABLES
  cb,       \* cl_list_t; pos is used_bufsize, which follows the write pointer
  cbBound,  \* bound_cmdlist
  saving,   \* save_cmdbuf_offset and save_cmdreq_id, if saving_cmdlist is set
  saved     \* history: what nngxStopCmdlistSave has last handed out

cbVars == <<cb, cbBound, saving, saved>>

\* astray: history; the list was given storage with last_split_offset not 0, or
\* its storage was freed and not replaced, or it was copied to past its end.
\* ragged: history; what it has got, or its size, may not be a whole number of pairs.
NoStorage ==
  [max |-> 0, maxReq |-> 0, pos |-> 0, split |-> 0, reqs |-> <<>>, astray |-> FALSE, ragged |-> FALSE]
Render(addr, size, ext) == [kind |-> "render", addr |-> addr, size |-> size, ext |-> ext]
OtherRequest == [kind |-> "other", addr |-> 0, size |-> 0, ext |-> FALSE]
NotSaving == [on |-> FALSE, offset |-> 0, id |-> 0]
NothingSaved == [list |-> "none", offset |-> 0, size |-> 0, reqs |-> <<>>, ragged |-> FALSE]

CbInit ==
  /\ cb = [l \in CbLists |-> NoStorage]
  /\ cbBound = "none"
  /\ saving = NotSaving
  /\ saved = NothingSaved

\* What the bound list becomes, all else unchanged.
List == cb[cbBound]
InUse == cbBound # "none" /\ ~List.astray  \* a list gone astray is not followed further
Becomes(list) == cb' = [cb EXCEPT ![cbBound] = list] /\ UNCHANGED <<cbBound, saving, saved>>
\* A list that is started over takes what was saved from it along.
SavedOf(l) == IF saved.list = l THEN NothingSaved ELSE saved

\* An application that saves commands goes on with the list meanwhile.
BindList(l) ==
  /\ ~saving.on
  /\ cbBound' = l
  /\ UNCHANGED <<cb, saving, saved>>

\* nngxCmdlistStorage; unlike nngxClearCmdlist it leaves last_split_offset alone.
Storage(size) ==
  /\ InUse /\ ~saving.on
  /\ \E failed \in BOOLEAN :
       cb' = [cb EXCEPT ![cbBound] = IF failed THEN [@ EXCEPT !.astray = TRUE]
                ELSE [max |-> size, maxReq |-> MaxRequests, pos |-> 0, split |-> @.split, reqs |-> <<>>,
                      astray |-> @.split # 0, ragged |-> size % 2 = 1]]
  /\ saved' = SavedOf(cbBound)
  /\ UNCHANGED <<cbBound, saving>>
ClearList ==
  /\ InUse /\ ~saving.on
  /\ cb' = [cb EXCEPT ![cbBound] = [List EXCEPT !.pos = 0, !.split = 0, !.reqs = <<>>, !.ragged = List.max % 2 = 1]]
  /\ saved' = SavedOf(cbBound)
  /\ UNCHANGED <<cbBound, saving>>

\* __cb_writeReg writes its pair if there is any room, and that may be one word.
\* __cb_writeRegs: what does not fit, or just fits, fills the buffer.
OneWritten(list) == [list EXCEPT !.pos = IF @ < list.max THEN @ + 2 ELSE @]
Written(list, n) == [list EXCEPT !.pos = IF @ + n < list.max THEN @ + n ELSE list.max]
WriteReg == Becomes(OneWritten(List))
WriteRegs(n) == Becomes(Written(List, n))

\* used_bufsize & 8
Bit8(list) == (list.pos \div 2) % 2 = 1

\* Mutant of SplitSize: the end is not evened out.
SplitSizeUneven(list) == 8

\* nngxSplitDrawCmdlist: three or four writes end the commands, of whole pairs at a
\* multiple of 16 bytes.
SplitSize(list) == IF Bit8(list) THEN 6 ELSE 8
CanSplit(list) == Len(list.reqs) < list.maxReq /\ list.pos + SplitSize(list) <= list.max
Split(list) ==
  LET end == list.pos + SplitSize(list)
  IN [list EXCEPT !.pos = end, !.split = end, !.reqs = Append(@, Render(list.split, end - list.split, FALSE))]
Pending(list) == list.split # list.pos
SplitList == CanSplit(List) /\ Becomes(Split(List))
\* nngxFlush3DCommand splits if anything is pending.
Flush == Pending(List) /\ SplitList

\* nngxTransferRenderImage: refused with the last request used by the split, it has
\* split all the same.
Transfer ==
  /\ Len(List.reqs) < List.maxReq
  /\ Pending(List) => CanSplit(List)
  /\ LET list == IF Pending(List) THEN Split(List) ELSE List
     IN Becomes(IF Len(list.reqs) = list.maxReq THEN list ELSE [list EXCEPT !.reqs = Append(@, OtherRequest)])

\* nngxAddVramDmaCommand, nngxAddMemoryFillCommand, __sys_setB2BCommandRequest.
AddOther == Len(List.reqs) < List.maxReq /\ Becomes([List EXCEPT !.reqs = Append(@, OtherRequest)])

\* nngxAdd3DCommand: commands of the application's are copied, or run in place.
CopyCommands(n) ==
  /\ List.pos + n <= List.max
  /\ Becomes([List EXCEPT !.pos = @ + n, !.ragged = @ \/ n % 2 = 1])
RunInPlace ==
  /\ Len(List.reqs) + (IF Pending(List) THEN 2 ELSE 1) <= List.maxReq
  /\ Pending(List) => CanSplit(List)
  /\ LET list == IF Pending(List) THEN Split(List) ELSE List
     IN Becomes([list EXCEPT !.reqs = Append(@, Render(0, 4, TRUE))])

\* nngxStartCmdlistSave and nngxStopCmdlistSave: a pair more evens out whole pairs to a
\* multiple of 16 bytes.
Even(list) == IF Bit8(list) THEN OneWritten(list) ELSE list
StartSave ==
  /\ InUse /\ ~saving.on
  /\ cb' = [cb EXCEPT ![cbBound] = Even(@)]
  /\ saving' = [on |-> TRUE, offset |-> Even(List).pos, id |-> Len(List.reqs)]
  /\ UNCHANGED <<cbBound, saved>>
StopSave ==
  /\ InUse /\ saving.on
  /\ cb' = [cb EXCEPT ![cbBound] = Even(@)]
  /\ saving' = NotSaving
  /\ saved' = [list |-> cbBound, offset |-> saving.offset, size |-> Even(List).pos - saving.offset,
               reqs |-> SubSeq(List.reqs, saving.id + 1, Len(List.reqs)), ragged |-> List.ragged]
  /\ UNCHANGED cbBound

\* What was saved begins at its offset: so does the first of its own requests, which
\* with copying is looked for only in the first of rendering.
IsOwn(r) == r.kind = "render" /\ ~r.ext
IsFirst(reqs, i) == reqs[i].kind = "render" /\ \A j \in 1 .. i - 1 : reqs[j].kind # "render"
IsFirstOwn(reqs, i) == IsOwn(reqs[i]) /\ \A j \in 1 .. i - 1 : ~IsOwn(reqs[j])
From(offset, r) == Render(offset, r.size - (offset - r.addr), FALSE)
Trimmed(reqs, offset) ==
  [i \in DOMAIN reqs |-> IF IsFirst(reqs, i) /\ ~reqs[i].ext THEN From(offset, reqs[i]) ELSE reqs[i]]
InPlace(reqs, offset) ==
  [i \in DOMAIN reqs |-> LET r == IF IsFirstOwn(reqs, i) THEN From(offset, reqs[i]) ELSE reqs[i]
                         IN IF r.kind = "render" THEN [r EXCEPT !.ext = TRUE] ELSE r]

\* nngxUseSavedCmdlist in place: a split, then the requests run where they are.
UseSaved ==
  /\ InUse /\ saved.list # "none"
  /\ LET list == IF Pending(List) THEN Split(List) ELSE List IN
     /\ Pending(List) => CanSplit(List)
     /\ Len(list.reqs) + Len(saved.reqs) <= list.maxReq
     /\ Becomes([list EXCEPT !.reqs = @ \o InPlace(saved.reqs, saved.offset), !.ragged = @ \/ saved.ragged])

\* With copying: pending commands become the head of the first request, if that is
\* one of rendering; then come the commands that no request covers. Only what was
\* in the saved list's own buffer is checked to fit; when it does not, the end of what
\* is pending has been evened out all the same.
Total(size, k) == LET f[i \in 0 .. k] == IF i = 0 THEN 0 ELSE f[i - 1] + size[i] IN f[k]
SizeOf(list, k) == Total([i \in DOMAIN list |-> list[i].size], k)
OwnSize(list, k) == Total([i \in DOMAIN list |-> IF list[i].ext THEN 0 ELSE list[i].size], k)
Joins == saved.reqs # <<>> /\ saved.reqs[1].kind = "render"
CopyTo ==
  IF saved.reqs = <<>> \/ ~Pending(List) THEN List ELSE IF Joins THEN Even(List) ELSE Split(List)
\* What ending the pending commands takes, with or without room for it.
Padding ==
  CASE saved.reqs = <<>> \/ ~Pending(List) -> 0
    [] saved.reqs # <<>> /\ Pending(List) /\ Joins -> IF Bit8(List) THEN 2 ELSE 0
    [] saved.reqs # <<>> /\ Pending(List) /\ ~Joins -> SplitSize(List)
CopiesOf(list, trimmed) ==
  LET head == list.pos - list.split
      Copy(i) == IF IsFirst(saved.reqs, i) THEN Render(list.split, head + trimmed[i].size, FALSE)
                 ELSE Render(list.pos + SizeOf(trimmed, i - 1), trimmed[i].size, FALSE)
  IN [i \in DOMAIN saved.reqs |-> IF saved.reqs[i].kind = "render" THEN Copy(i) ELSE saved.reqs[i]]
CopySaved ==
  /\ InUse /\ saved.list # "none"
  /\ LET list == CopyTo
         trimmed == Trimmed(saved.reqs, saved.offset)
         copies == CopiesOf(list, trimmed)
         rest == saved.size - OwnSize(trimmed, Len(trimmed))
         end == list.pos + SizeOf(trimmed, Len(trimmed)) + (IF rest > 0 THEN rest ELSE 0)
         fits == /\ saved.reqs # <<>> /\ Pending(List) /\ ~Joins => CanSplit(List)
                 /\ Len(list.reqs) + Len(saved.reqs) <= list.maxReq
                 /\ List.pos + Padding + saved.size <= List.max
     IN \/ fits /\ Becomes([list EXCEPT
             !.pos = end,
             !.astray = @ \/ end > list.max,
             !.ragged = @ \/ saved.ragged,
             !.split = @ + SizeOf(copies, Len(copies)),
             !.reqs = @ \o copies])
        \/ ~fits /\ Joins /\ Pending(List) /\ Becomes(list)

\* nngxFinalize frees the lists, nngxInitialize starts without any.
RestartLists ==
  /\ cb' = [l \in CbLists |-> NoStorage]
  /\ cbBound' = "none"
  /\ saving' = NotSaving
  /\ saved' = NothingSaved

CbNext ==
  \/ \E l \in CbLists \cup {"none"} : BindList(l)
  \/ \E size \in BufferSizes : Storage(size)
  \/ ClearList
  \/ /\ InUse
     /\ \/ WriteReg
        \/ \E n \in Writes : WriteRegs(n)
        \/ \E n \in Copies : CopyCommands(n)
        \/ SplitList \/ Flush \/ Transfer \/ AddOther \/ RunInPlace
  \/ StartSave \/ StopSave \/ UseSaved \/ CopySaved
  \/ RestartLists

CbSpec == CbInit /\ [][CbNext]_cbVars

\* Whatever splits, saves and copies follow one another, the render requests that
\* a list has of its own are one after the other in its buffer, from its start to
\* last_split_offset: no command is run twice, and none left out. They are of whole
\* 16 bytes, as the processor fetches them, and the commands do not leave the buffer,
\* unless something was copied to the list, or into what was copied from, that was
\* not a whole number of pairs: then a write may pass the end by one word.
CommandsTile == \A l \in CbLists : ~cb[l].astray =>
  LET reqs == cb[l].reqs
  IN /\ cb[l].split <= cb[l].pos
     /\ cb[l].pos <= cb[l].max + (IF cb[l].ragged THEN 1 ELSE 0)
     /\ cb[l].split = OwnSize(reqs, Len(reqs))
     /\ \A i \in DOMAIN reqs : IsOwn(reqs[i]) =>
          /\ reqs[i].addr = OwnSize(reqs, i - 1)
          /\ reqs[i].size > 0
          /\ ~cb[l].ragged => reqs[i].size % 4 = 0
====
