---- MODULE Shaders ----
(***************************************************************************)
(* Shaders, binaries and programs of gles2/shadermanager.c, and the vertex  *)
(* processors they are loaded into. Shaders are counted by the programs     *)
(* they are attached to, binaries by the shaders that hold them; a program  *)
(* that is linked keeps a pointer to its binary which is not counted.       *)
(* glUseProgram and glLinkProgram mark what the validator must load, a draw *)
(* call validates it all, and nngxValidateState any part of it.             *)
(*                                                                          *)
(* VP0 is the processor for geometry shaders. In the mode without one it is *)
(* one more vertex processor, and what is written for vertices goes to it   *)
(* too (VP0_WRITE_DISABLE): what a load does depends on the mode it is made *)
(* in, which is validated apart from it.                                    *)
(*                                                                          *)
(* Left out: uniforms and rasterizer registers, the fragment shader (never  *)
(* an object), suppressStateMask and the deletion of programs, whose        *)
(* delete_status nothing in the repository sets. The guards are the         *)
(* conditions of BASE_GL_FAIL_IF.                                           *)
(***************************************************************************)
EXTENDS Naturals, Sequences, FiniteSets

CONSTANTS
  VertexShaders, GeometryShaders,  \* names of shaders, by the type they are used for
  Programs,                        \* names of programs
  Binaries,                        \* bound: places in the heap a binary may be put
  Packages,                        \* bound: the lists of shaders a binary is loaded into, each
                                   \* naming a shader once: its length becomes the count
  Applications                     \* bound: each with the names and places it uses, the shaders it deletes,
                                   \* and what it validates, or says it has written, at a time

Shaders == VertexShaders \cup GeometryShaders
ASSUME ShaderAssumption ==
  /\ IsFiniteSet(Shaders) /\ IsFiniteSet(Programs)
  /\ VertexShaders \cap GeometryShaders = {}
  /\ 0 \notin Shaders \cup Programs \cup Binaries
  /\ Packages \subseteq Seq(Shaders)
  /\ \A list \in Packages : \A i, j \in DOMAIN list : list[i] = list[j] => i = j
  /\ \A a \in Applications : a.masks \subseteq SUBSET {"binary", "float", "mode"}

VARIABLES
  application,  \* the one that runs
  shader,     \* sh_list_t of each name; exe_id counts from 1
  program,    \* pg_list_t of each name; gsExe is 0 without geometry shader
  binRefs,    \* ref_count of the binary at each place; 0 if there is none
  currProg,   \* current_program, or 0
  dirty,      \* upd_mask: IF_GL_BINARY_PACKAGE, _EXE_VS, _EXE_GS and, for "mode", _ATTACH_GS or _DETACH_GS
  hw,         \* the mode of the vertex processors, and what is in VP0 and the others
  known,      \* s_vp_mode, and whether NN_GX_STATE_SHADERMODE is in forceValidateMask
  orphans,    \* history: programs whose binary was freed since they were linked
  misjudged,  \* history: a binary was compared with one that had been freed
  slipped     \* history: marks that were cleared by something else than the load they ask for

loading == <<dirty, hw, known, slipped>>
shaderVars == <<application, shader, program, binRefs, currProg, loading, orphans, misjudged>>

NoShader == [live |-> FALSE, bin |-> 0, exe |-> 0, refs |-> 0, flagged |-> FALSE]
NoProgram == [live |-> FALSE, vs |-> 0, gs |-> 0, linked |-> FALSE, bin |-> 0, vsExe |-> 0, gsExe |-> 0]
AllDirty == {"package", "vs", "gs", "mode"}
NoCode == <<0, 0>>  \* of no binary and no executable
UnknownMode == 2    \* not yet set, or set by a saved command list
VpMode(p) == IF p.gsExe = 0 THEN 0 ELSE 1
InitialHw == [mode |-> 0, code0 |-> 0, code1 |-> 0, consts0 |-> NoCode, consts1 |-> NoCode]
InitialKnown == [mode |-> UnknownMode, forced |-> FALSE]

ShaderInit ==
  /\ application \in Applications
  /\ shader = [s \in Shaders |-> NoShader]
  /\ program = [p \in Programs |-> NoProgram]
  /\ binRefs = [b \in Binaries |-> 0]
  /\ currProg = 0
  /\ dirty = {}
  /\ hw = InitialHw
  /\ known = InitialKnown
  /\ orphans = {}
  /\ misjudged = FALSE
  /\ slipped = {}

\* glCreateShader and glCreateProgram; which free name they hand out is immaterial.
CreateShader(s) ==
  /\ ~shader[s].live
  /\ shader' = [shader EXCEPT ![s].live = TRUE]
  /\ UNCHANGED <<program, binRefs, currProg, loading, orphans, misjudged>>
CreateProgram(p) ==
  /\ ~program[p].live
  /\ program' = [program EXCEPT ![p].live = TRUE]
  /\ UNCHANGED <<shader, binRefs, currProg, loading, orphans, misjudged>>

\* Mutant of LetGoOf: a binary is counted down once for all of them.
LetGoOfOnce(S) == [b \in Binaries |-> IF \E s \in S : shader[s].bin = b THEN binRefs[b] - 1 ELSE binRefs[b]]

\* Counts after the shaders in S let go of their binaries, and the programs that
\* are left with a pointer to one that is freed.
LetGoOf(S) == [b \in Binaries |-> binRefs[b] - Cardinality({s \in S : shader[s].bin = b})]
Orphaned(refs) == {p \in Programs : program[p].bin # 0 /\ binRefs[program[p].bin] # 0 /\ refs[program[p].bin] = 0}

\* glShaderBinary: the binary is put at a free place b before old ones are freed.
\* What the processors hold of an earlier binary at b is none of its code.
ShaderBinary(list, b) ==
  LET S == {list[i] : i \in DOMAIN list}
      Past(code) == IF code = b THEN 0 ELSE code
      Lost(consts) == IF consts[1] = b THEN NoCode ELSE consts
  IN /\ \A s \in S : shader[s].live
     /\ binRefs[b] = 0
     /\ shader' = [s \in Shaders |-> IF s \in S
          THEN [shader[s] EXCEPT !.bin = b, !.exe = CHOOSE i \in DOMAIN list : list[i] = s]
          ELSE shader[s]]
     /\ binRefs' = [LetGoOf(S) EXCEPT ![b] = Len(list)]
     /\ orphans' = orphans \cup Orphaned(LetGoOf(S))
     /\ hw' = [hw EXCEPT !.code0 = Past(@), !.code1 = Past(@), !.consts0 = Lost(@), !.consts1 = Lost(@)]
     /\ UNCHANGED <<program, currProg, dirty, known, misjudged, slipped>>

AttachShader(p, s) ==
  /\ program[p].live /\ shader[s].live
  /\ IF s \in VertexShaders
     THEN program[p].vs = 0 /\ program' = [program EXCEPT ![p].vs = s]
     ELSE program[p].gs = 0 /\ program' = [program EXCEPT ![p].gs = s]
  /\ shader' = [shader EXCEPT ![s].refs = @ + 1]
  /\ UNCHANGED <<binRefs, currProg, loading, orphans, misjudged>>

\* shm_deleteShaderObject; the binary goes with the last shader that holds it.
Drop(s) ==
  /\ shader' = [shader EXCEPT ![s] = NoShader]
  /\ binRefs' = LetGoOf({s})
  /\ orphans' = orphans \cup Orphaned(LetGoOf({s}))

\* glDetachShader, and with it the deletion that waited for it.
DetachShader(p, s) ==
  /\ program[p].live /\ s \in {program[p].vs, program[p].gs}
  /\ program' = IF s \in VertexShaders THEN [program EXCEPT ![p].vs = 0] ELSE [program EXCEPT ![p].gs = 0]
  /\ IF shader[s].refs = 1 /\ shader[s].flagged THEN Drop(s)
     ELSE /\ shader' = [shader EXCEPT ![s].refs = @ - 1]
          /\ UNCHANGED <<binRefs, orphans>>
  /\ UNCHANGED <<currProg, loading, misjudged>>

DeleteShader(s) ==
  /\ shader[s].live
  /\ IF shader[s].refs = 0 THEN Drop(s)
     ELSE /\ shader' = [shader EXCEPT ![s].flagged = TRUE]
          /\ UNCHANGED <<binRefs, orphans>>
  /\ UNCHANGED <<program, currProg, loading, misjudged>>

\* Marks for the validator. The mode is set only if it is not believed to be set.
Mark(marks) ==
  /\ dirty' = dirty \cup marks
  /\ slipped' = slipped \ (marks \ {"mode"})

\* glLinkProgram: refused for want of shaders or memory, it only leaves the program
\* unlinked.
Linkable(p) ==
  LET vs == program[p].vs  gs == program[p].gs IN
  /\ vs # 0
  /\ shader[vs].bin # 0
  /\ gs # 0 => shader[gs].bin = shader[vs].bin
LinkFails(p) ==
  /\ program[p].live
  /\ program' = [program EXCEPT ![p].linked = FALSE]
  /\ UNCHANGED <<shader, binRefs, currProg, loading, orphans, misjudged>>
LinkProgram(p) ==
  /\ program[p].live
  /\ Linkable(p)
  /\ LET vs == shader[program[p].vs]  gs == program[p].gs IN
     /\ program' = [program EXCEPT ![p] = [@ EXCEPT !.linked = TRUE, !.bin = vs.bin, !.vsExe = vs.exe,
                                              !.gsExe = IF gs = 0 THEN 0 ELSE shader[gs].exe]]
     /\ Mark(IF p # currProg THEN {}
             ELSE {"vs", "gs", "mode"} \cup (IF program[p].bin # vs.bin THEN {"package"} ELSE {}))
  /\ misjudged' = (misjudged \/ (p = currProg /\ p \in orphans))
  /\ orphans' = orphans \ {p}
  /\ UNCHANGED <<shader, binRefs, currProg, hw, known>>

\* Mutant of Differs: VP0 is not given back by a geometry shader.
DiffersInVertices(c, p) ==
  IF currProg = 0 \/ p.bin # c.bin THEN AllDirty
  ELSE (IF p.vsExe # c.vsExe THEN {"vs"} ELSE {})
       \cup (IF p.gsExe # 0 /\ p.gsExe # c.gsExe THEN {"gs"} ELSE {})
       \cup (IF VpMode(p) # VpMode(c) THEN {"mode"} ELSE {})

\* What glUseProgram finds different between the program in use, c, and p.
Differs(c, p) ==
  IF currProg = 0 \/ p.bin # c.bin THEN AllDirty
  ELSE (IF p.vsExe # c.vsExe \/ (p.gsExe = 0 /\ c.gsExe # 0) THEN {"vs"} ELSE {})
       \cup (IF p.gsExe # 0 /\ p.gsExe # c.gsExe THEN {"gs"} ELSE {})
       \cup (IF VpMode(p) # VpMode(c) THEN {"mode"} ELSE {})
UseProgram(p) ==
  /\ program[p].linked
  /\ Mark(Differs(program[IF currProg = 0 THEN p ELSE currProg], program[p]))
  /\ currProg' = p
  /\ misjudged' = (misjudged \/ (currProg \notin {0, p} /\ {p, currProg} \cap orphans # {}))
  /\ UNCHANGED <<shader, program, binRefs, hw, known, orphans>>
UseNoProgram ==
  /\ currProg' = 0
  /\ UNCHANGED <<shader, program, binRefs, loading, orphans, misjudged>>

\* The marks that a statemask selects.
Selected(mask) ==
  (IF "binary" \in mask THEN {"package"} ELSE {})
  \cup (IF "float" \in mask THEN {"vs", "gs"} ELSE {})
  \cup (IF "mode" \in mask THEN {"mode"} ELSE {})

\* What is loaded in another mode than that of program p: without geometry shader
\* VP0 does not get it, with one the constants for vertices are written over those
\* for geometry.
Slips(p, load, mode) ==
  IF mode = VpMode(p) THEN {}
  ELSE IF p.gsExe = 0 THEN load \cap {"package", "vs"}
  ELSE IF "vs" \in load THEN {"gs"} ELSE {}

\* Validation of the marks in S for the program in use: first the mode, then code and
\* constants, for geometry before those for vertices. VP0 may or may not get them in
\* a mode that is not known, and gets only the end of a long code in the wrong one
\* (0, of no binary). The marks that are cleared and not in S are lost.
Loads(S, cleared, stays) ==
  LET p == program[currProg]
      load == dirty \cap S
      sets == "mode" \in S /\ (known.mode # VpMode(p) \/ known.forced)
      mode == IF sets THEN VpMode(p) ELSE hw.mode
      done == IF sets THEN load \cup {"mode"} ELSE load \ {"mode"}
  IN /\ hw' = [mode |-> mode,
               code0 |-> IF "package" \notin load THEN hw.code0
                         ELSE IF p.gsExe # 0 \/ mode = 0 \/ hw.code0 = p.bin THEN p.bin ELSE 0,
               code1 |-> IF "package" \in load THEN p.bin ELSE hw.code1,
               consts0 |-> CASE "vs" \in load /\ mode = 0 -> <<p.bin, p.vsExe>>
                             [] "vs" \in load /\ mode = UnknownMode -> NoCode
                             [] mode = 1 \/ "vs" \notin load ->
                                  IF p.gsExe # 0 /\ "gs" \in load THEN <<p.bin, p.gsExe>> ELSE hw.consts0,
               consts1 |-> IF "vs" \in load THEN <<p.bin, p.vsExe>> ELSE hw.consts1]
     /\ known' = [mode |-> IF sets THEN mode ELSE known.mode, forced |-> stays]
     /\ dirty' = dirty \ cleared
     /\ slipped' = (slipped \ done) \cup Slips(p, load, mode) \cup (dirty \cap (cleared \ S))
     /\ UNCHANGED <<shader, program, binRefs, currProg, orphans, misjudged>>

\* nngxValidateState
Validate(mask) ==
  /\ currProg # 0
  /\ Loads(Selected(mask), Selected(mask), known.forced /\ "mode" \notin mask)

\* glDrawElements and glDrawArrays. The second is refused for some geometry shaders,
\* with the mode set and all marks cleared. Without geometry shader there may be
\* nothing to validate. forceValidateMask stays if nothing is drawn in the end.
DrawCall(nothing) ==
  LET geometry == program[currProg].gsExe # 0
      stays == known.forced /\ nothing
  IN /\ currProg # 0
     /\ \/ Loads(AllDirty, AllDirty, stays)
        \/ geometry /\ Loads({"mode"}, AllDirty, stays)
        \/ ~geometry /\ dirty = {} /\ Loads({}, AllDirty, stays)
\* ... without program: the marks are cleared.
DrawBare(nothing) ==
  /\ currProg = 0
  /\ dirty' = {}
  /\ known' = [known EXCEPT !.forced = @ /\ nothing]
  /\ slipped' = IF known.forced /\ ~nothing THEN slipped \cup {"mode"} ELSE slipped
  /\ UNCHANGED <<shader, program, binRefs, currProg, hw, orphans, misjudged>>

\* nngxUseSavedCmdlist and nngxUpdateState: commands recorded earlier load the
\* processors with whatever they load, and the mask says what.
Disturb(mask) ==
  LET Kept(part, value, none) == IF part \in mask THEN none ELSE value IN
  /\ hw' = [mode |-> Kept("mode", hw.mode, UnknownMode),
            code0 |-> Kept("binary", hw.code0, 0), code1 |-> Kept("binary", hw.code1, 0),
            consts0 |-> Kept("float", hw.consts0, NoCode), consts1 |-> Kept("float", hw.consts1, NoCode)]
  /\ known' = [known EXCEPT !.forced = @ \/ "mode" \in mask]
  /\ Mark(Selected(mask))
  /\ UNCHANGED <<shader, program, binRefs, currProg, orphans, misjudged>>

\* __shm_finalizeShaderManager and __shm_initializeShaderManager.
RestartShaders ==
  /\ shader' = [s \in Shaders |-> NoShader]
  /\ program' = [p \in Programs |-> NoProgram]
  /\ binRefs' = [b \in Binaries |-> 0]
  /\ currProg' = 0
  /\ dirty' = {}
  /\ hw' = InitialHw
  /\ known' = InitialKnown
  /\ orphans' = {}
  /\ misjudged' = FALSE
  /\ slipped' = {}

ShaderStep ==
  \/ \E s \in Shaders \cap application.uses : CreateShader(s)
  \/ \E s \in Shaders \cap application.deletes : DeleteShader(s)
  \/ \E list \in Packages \cap Seq(application.uses), b \in Binaries \cap application.uses : ShaderBinary(list, b)
  \/ \E p \in Programs \cap application.uses :
       \/ CreateProgram(p) \/ LinkFails(p) \/ LinkProgram(p) \/ UseProgram(p)
       \/ \E s \in Shaders \cap application.uses : AttachShader(p, s) \/ DetachShader(p, s)
  \/ UseNoProgram
  \/ \E mask \in application.masks : Validate(mask) \/ Disturb(mask)
  \/ \E nothing \in BOOLEAN : DrawCall(nothing) \/ DrawBare(nothing)

\* What follows a comparison with freed memory is not followed further.
ShaderNext ==
  \/ ~misjudged /\ ShaderStep /\ UNCHANGED application
  \/ RestartShaders /\ UNCHANGED application

ShaderSpec == ShaderInit /\ [][ShaderNext]_shaderVars

\* The counts on which shaders and binaries are freed are exact, however attaching,
\* loading, deleting and detaching interleave: a shader counts the programs that
\* point at it and lives while one does, a deleted one goes with the last of
\* them, and a binary counts the shaders that hold it.
CountsExact ==
  /\ \A s \in Shaders :
       /\ shader[s].refs = Cardinality({p \in Programs : s \in {program[p].vs, program[p].gs}})
       /\ shader[s].refs # 0 => shader[s].live
       /\ shader[s].flagged => shader[s].refs # 0
  /\ \A b \in Binaries : binRefs[b] = Cardinality({s \in Shaders : shader[s].bin = b})

\* What is not marked for validation is in the processors, in whatever parts and
\* order it was validated: they are in the mode of the program in use and hold its
\* code and its constants, VP0 those of its geometry shader if it has one. Code and
\* constants not so for a program whose binary has been freed, nor once one was
\* compared with such a program's. Not so either what has slipped: it was validated
\* before the mode ("binary" or "float" in a mask without "mode"), or its mark was
\* cleared by a glDrawArrays that was refused, or, of a mode that a saved command
\* list changed, by a draw call without program.
ProcessorsFollow ==
  LET p == program[currProg]
      stale == dirty \cup slipped
  IN currProg # 0 =>
       /\ "mode" \notin stale => hw.mode = VpMode(p)
       /\ currProg \notin orphans /\ ~misjudged =>
            /\ "package" \notin stale => hw.code0 = p.bin /\ hw.code1 = p.bin
            /\ "vs" \notin stale => hw.consts1 = <<p.bin, p.vsExe>> /\ (p.gsExe = 0 => hw.consts0 = hw.consts1)
            /\ "gs" \notin stale /\ p.gsExe # 0 => hw.consts0 = <<p.bin, p.gsExe>>

\* glLinkProgram of the program in use, from shaders that were loaded anew: as its
\* comment says, everything is updated, and that includes the new code.
RelinkUpdatesEverything ==
  [][currProg # 0 /\ currProg' = currProg /\ currProg \in orphans /\ currProg \notin orphans'
       => "package" \in dirty']_shaderVars
====
