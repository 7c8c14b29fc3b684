---------------------------- MODULE RegisterImage ----------------------------
(***************************************************************************)
(* The registers of a program object in gles2/shadermanager.c: ras_regs of  *)
(* the program, ras_regs of the shader manager, which is what the hardware  *)
(* is believed to hold, and the hardware. Uniforms change the first and     *)
(* mark the register; validation, by a draw call or by nngxValidateState    *)
(* for the groups of a statemask, writes the marked registers that differ   *)
(* from the second. Saved command lists change the third behind the back    *)
(* of both, and say so by a statemask.                                      *)
(*                                                                         *)
(* Registers do not depend on each other: each behaviour observes one, of   *)
(* the kind that Init picks. Its bytes are written together, which holds as *)
(* ras_regs_be of a register is the same in all programs that have it. A    *)
(* complement, by which the code invalidates the second image, is no value  *)
(* of a register, as each has bits that never change.                       *)
(*                                                                         *)
(* Left out: float constants of the processors, GAS_ACC_MAX, wscale,        *)
(* suppressStateMask and forceMode, which nothing in the repository sets.   *)
(***************************************************************************)
EXTENDS FiniteSets, Naturals

CONSTANTS
  RegPrograms,  \* program objects
  Kinds,        \* of registers to observe, see below
  StateMasks    \* bound: the statemasks the application uses

\* Registers, one or two of each sort: those of VP0 and VP1 from BOOL_REG to
\* OUTPUT_MASK, VC_SUBDIV_CONF, an ordinary one of the fragment state, ZBIAS, and
\* the color of light 0.
Vp0 == {"bool0", "address0"}
Vp1 == {"bool1", "address1"}
AllKinds == Vp0 \cup Vp1 \cup {"subdiv", "fragment", "zbias", "light"}
Groups == {"program", "vertex", "fragment", "mode", "trioffset", "rest"}
ASSUME RegisterAssumption == Kinds \subseteq AllKinds /\ StateMasks \subseteq SUBSET Groups

VARIABLES
  kind,     \* the register that is observed
  image,    \* of each program: is it linked, with a geometry shader; has it the register, its value,
            \* is lighting on, and the lights that are
  current,  \* current_program; empty or one program
  marked,   \* the register's bit in ras_reg_mask of the current program
  cache,    \* ras_regs of the manager
  hardware, \* what the register holds
  copied,   \* does VP0 hold the same as this register of VP1
  vpMode,   \* s_vp_mode, and what the hardware has been set to
  zbias,    \* what the state of GL makes of ZBIAS
  updMask,    \* upd_mask, what __finfo->shman has of it
  forced,   \* forceValidateMask, what concerns the register
  missed    \* history: how the code has come to miss the register

regVars == <<kind, image, current, marked, cache, hardware, copied, vpMode, zbias, updMask, forced, missed>>

Flipped == 3 \* the complement of a value, in cache
Unknown == 2 \* written by a saved command list, or by nobody

Default == IF kind = "light" THEN 1 ELSE 0
NoImage == [linked |-> FALSE, geometry |-> FALSE, has |-> FALSE, value |-> 0, lit |-> FALSE, lights |-> {}]

\* __shm_initializeShaderManager and __shv_initializeShaderValidator.
Fresh ==
  [image |-> [p \in RegPrograms |-> NoImage], cache |-> Default,
   hardware |-> IF kind \in Vp0 \cup Vp1 THEN Unknown ELSE Default,
   vpMode |-> [known |-> Unknown, real |-> 0]]
RegInit ==
  /\ kind \in Kinds
  /\ image = Fresh.image /\ current = {} /\ marked = FALSE
  /\ cache = Fresh.cache /\ hardware = Fresh.hardware /\ copied = FALSE
  /\ vpMode = Fresh.vpMode
  /\ zbias = 0
  /\ updMask = {} /\ forced = {} /\ missed = {}

Group == CASE kind \in {"address0", "address1", "subdiv"} -> "program"
           [] kind \in {"bool0", "bool1"} -> "vertex"
           [] OTHER -> "fragment"
Concerns == {Group} \cup (IF kind \in Vp0 \cup Vp1 THEN {"mode"} ELSE {})
Mode(i) == IF i.geometry THEN 1 ELSE 0
Curr == image[CHOOSE p \in current : TRUE]

\* Lighting is on and no light: the hardware then has light 0 on.
AllOff(i) == kind = "light" /\ i.lit /\ i.lights = {}
Wanted(i) == IF AllOff(i) THEN 0 ELSE i.value

------------------------------------------------------------------------------
\* glLinkProgram, for a program with the register in it or not. The register gets
\* its value from the shader, or its default. A register of the fragment state does not
\* see a geometry shader, except that draw calls validate more.
Geometries == IF Group = "fragment" THEN {FALSE} ELSE BOOLEAN
Values == IF Group = "fragment" THEN {Default} ELSE {0, 1}
HasIt(geometry) == CASE kind \in Vp0 -> {geometry} [] kind = "subdiv" -> {FALSE, geometry} [] OTHER -> {TRUE}
Link(p, geometry, has, v) ==
  /\ geometry \in Geometries /\ has \in HasIt(geometry) /\ v \in Values
  /\ image' = [image EXCEPT ![p] = [linked |-> TRUE, geometry |-> geometry, has |-> has,
                                    value |-> v, lit |-> FALSE, lights |-> {}]]
  /\ IF current = {p}
     THEN /\ marked' = TRUE /\ updMask' = updMask \cup {"attach", "detach", "trioffset", "rest"}
          /\ missed' = missed \ {"offset"}
     ELSE UNCHANGED <<marked, updMask, missed>>
  /\ UNCHANGED <<kind, current, cache, hardware, copied, vpMode, zbias, forced>>

\* What the change from program c to p marks, if both have the same binary.
Changed(c, p) == (IF p.geometry /\ ~c.geometry THEN {"attach"} ELSE {})
                 \cup (IF ~p.geometry /\ c.geometry THEN {"detach"} ELSE {})
Switched(p, another) == IF current = {} \/ another THEN {"attach", "detach"} ELSE Changed(Curr, image[p])

\* Mutant of UseRegisters: the registers of a program used before are taken for written.
UseRegistersUnmarked(p, another) ==
  /\ image[p].linked /\ current # {p}
  /\ current' = {p}
  /\ updMask' = updMask \cup {"trioffset", "rest"} \cup Switched(p, another)
  /\ missed' = missed \ {"offset"}
  /\ UNCHANGED <<kind, image, marked, cache, hardware, copied, vpMode, zbias, forced>>

\* glUseProgram; "another" if p is of another binary. Every register is marked:
\* the marks p had before do not matter.
UseRegisters(p, another) ==
  /\ image[p].linked /\ current # {p}
  /\ current' = {p}
  /\ marked' = TRUE
  /\ updMask' = updMask \cup {"trioffset", "rest"} \cup Switched(p, another)
  /\ missed' = missed \ {"offset"}
  /\ UNCHANGED <<kind, image, cache, hardware, copied, vpMode, zbias, forced>>
UseNone ==
  /\ current' = {}
  /\ UNCHANGED <<kind, image, marked, cache, hardware, copied, vpMode, zbias, updMask, forced, missed>>

SetCurr(i) == image' = [image EXCEPT ![CHOOSE p \in current : TRUE] = i]

\* glUniform of a boolean or integer of a vertex or geometry shader.
VertexUniform(v) ==
  /\ kind \in {"bool0", "bool1"} /\ current # {} /\ Curr.has
  /\ SetCurr([Curr EXCEPT !.value = v])
  /\ marked' = TRUE
  /\ updMask' = updMask \cup {"uniform"}
  /\ UNCHANGED <<kind, current, cache, hardware, copied, vpMode, zbias, forced, missed>>

\* Mutant of FragmentUniform: UPDATE_REG without the mark of the validator.
FragmentUniformQuiet(v) ==
  /\ kind = "fragment" /\ current # {} /\ Curr.value # v
  /\ SetCurr([Curr EXCEPT !.value = v])
  /\ marked' = TRUE
  /\ UNCHANGED <<kind, current, cache, hardware, copied, vpMode, zbias, updMask, forced, missed>>

\* glUniform of the fragment state: UPDATE_REG.
FragmentUniform(v) ==
  /\ kind = "fragment" /\ current # {} /\ Curr.value # v
  /\ SetCurr([Curr EXCEPT !.value = v])
  /\ marked' = TRUE
  /\ updMask' = updMask \cup {"register"}
  /\ UNCHANGED <<kind, current, cache, hardware, copied, vpMode, zbias, forced, missed>>
\* ... and of any other register.
OtherUniform(mark) ==
  /\ current # {}
  /\ updMask' = updMask \cup {mark}
  /\ UNCHANGED <<kind, image, current, marked, cache, hardware, copied, vpMode, zbias, forced, missed>>

\* dmp_FragmentLighting.enabled
Lighting ==
  /\ kind = "light" /\ current # {}
  /\ SetCurr([Curr EXCEPT !.lit = ~@])
  /\ updMask' = updMask \cup {"register", "rest"}
  /\ UNCHANGED <<kind, current, marked, cache, hardware, copied, vpMode, zbias, forced, missed>>

\* dmp_FragmentLightSource[i].enabled. LIGHT_ENABLE, one less than the number of
\* lights or 0, and LIGHTID, their numbers, are the same for no light and for light 0.
LightRegs(lights) == IF lights = {} THEN {0} ELSE lights
Light(i) ==
  /\ kind = "light" /\ current # {}
  /\ LET lights == IF i \in Curr.lights THEN Curr.lights \ {i} ELSE Curr.lights \cup {i}
         told == LightRegs(lights) # LightRegs(Curr.lights) IN
     /\ SetCurr([Curr EXCEPT !.lights = lights])
     /\ updMask' = IF told THEN updMask \cup {"register"} ELSE updMask
     /\ missed' = IF ~told THEN missed \cup {"light"} ELSE missed
  /\ UNCHANGED <<kind, current, marked, cache, hardware, copied, vpMode, zbias, forced>>

\* glEnable of the polygon offset, or a depth buffer of another format.
SetOffset(v) ==
  /\ kind = "zbias" /\ zbias # v
  /\ zbias' = v
  /\ updMask' = updMask \cup {"trioffset"}
  /\ missed' = missed \ {"offset"}
  /\ UNCHANGED <<kind, image, current, marked, cache, hardware, copied, vpMode, forced>>

------------------------------------------------------------------------------
\* Mutant of Invalidates: VP0 is taken for what it was before VP1 was written.
InvalidatesNoAttach(c, mask) ==
  \/ kind \in Vp1 /\ "mode" \in mask /\ "detach" \in updMask
  \/ c.has /\ Group \in mask \cap forced

\* Does a validation of the groups in mask invalidate the cache of the register?
Invalidates(c, mask) ==
  \/ kind \in Vp0 /\ c.geometry /\ "mode" \in mask /\ "attach" \in updMask
  \/ kind \in Vp1 /\ "mode" \in mask /\ "detach" \in updMask
  \/ c.has /\ Group \in mask \cap forced

\* s_vp_mode: without geometry shader what is written to VP1 is written to VP0 too.
SetMode(c, mask) ==
  vpMode' = IF "mode" \in mask \cap Concerns /\ (vpMode.known # Mode(c) \/ "mode" \in forced)
            THEN [known |-> Mode(c), real |-> Mode(c)] ELSE vpMode

\* The value the register is to have: that of ZBIAS is made in validation.
NewValue(c, mask) ==
  IF kind = "zbias" /\ "trioffset" \in mask /\ "trioffset" \in updMask THEN zbias ELSE c.value

\* Is the register among those a validation looks at, and is it written? BOOL_REG of
\* VP0 is in every full validation.
Touched(c, mask, full) ==
  \/ marked
  \/ full /\ kind = "bool0" /\ c.geometry
  \/ c.has /\ Group \in mask \cap forced
  \/ NewValue(c, mask) # c.value
IsWritten(c, mask, full) ==
  /\ c.has /\ Group \in mask /\ Touched(c, mask, full)
  /\ \/ full /\ kind = "bool0"
     \/ Invalidates(c, mask)
     \/ cache # NewValue(c, mask)

\* Registers of VP1 are in both groups, and written after those of VP0.
WritesVp1(mask) == mask \cap {"program", "vertex"} # {}

\* What validation of the groups in mask does to the register of program c.
WriteRegister(c, mask, full) ==
  LET value == NewValue(c, mask)  written == IsWritten(c, mask, full) IN
  /\ SetCurr([c EXCEPT !.value = value])
  /\ marked' = (Touched(c, mask, full) /\ Group \notin mask)
  /\ cache' = IF written THEN value ELSE IF Invalidates(c, mask) THEN Flipped ELSE cache
  /\ hardware' = CASE kind \in Vp0 /\ vpMode'.real # 1 /\ WritesVp1(mask) -> Unknown
                   [] written -> value
                   [] OTHER -> hardware
  /\ copied' = IF written THEN vpMode'.real = 0 ELSE copied /\ ~c.geometry

\* ... and to the color of light 0, if all lights are off: it is put out, and put
\* back by the next validation that finds a light on.
PutOut ==
  /\ cache' = 0 /\ hardware' = 0
  /\ marked' = TRUE
  /\ UNCHANGED <<image, copied>>

\* Are registers of the processors written before the change of the mode?
Early(c, mask) ==
  /\ "mode" \notin mask /\ updMask \cap {"attach", "detach"} # {}
  /\ \/ kind \in Vp0 /\ WritesVp1(mask)
     \/ kind \in Vp1 /\ Group \in mask /\ Touched(c, mask, FALSE)
\* ... or has a saved command list written it, and it is not?
StillMissed(c, mask, full) ==
  (IF IsWritten(c, mask, full) /\ ("mode" \in Concerns => vpMode'.real = Mode(c))
   THEN missed \ {"lost", "early"} ELSE missed)
  \cup (IF Early(c, mask) THEN {"early"} ELSE {})
  \cup (IF Group \in mask \cap forced /\ ~c.has THEN {"lost"} ELSE {})
Dropped == IF forced = {} THEN missed ELSE missed \cup {"lost"}

\* A draw call. Of a program with geometry shader it marks something itself. If
\* nothing is drawn in the end, forceValidateMask stays.
Draw(nothing) ==
  LET after == IF nothing THEN forced ELSE {} IN
  /\ current # {}
  /\ IF updMask = {} /\ ~Curr.geometry
     THEN /\ missed' = IF nothing THEN missed ELSE Dropped
          /\ UNCHANGED <<image, marked, cache, hardware, copied, vpMode>>
     ELSE /\ SetMode(Curr, Groups)
          /\ IF AllOff(Curr) THEN PutOut ELSE WriteRegister(Curr, Groups, TRUE)
          /\ missed' = StillMissed(Curr, Groups, TRUE) \ {"left", "light"}
  /\ updMask' = {} /\ forced' = after
  /\ UNCHANGED <<kind, current, zbias>>
\* glDrawArrays of a program with a geometry shader that is not for it: refused when
\* the mode is set and BOOL_REG of VP0 is marked, with nothing written. The marks are
\* cleared, and what forceValidateMask says is dropped, all the same.
Unmade == CASE kind = "light" -> {"light"}
            [] kind = "zbias" -> {"offset"}
            [] "mode" \in Concerns -> {"lost"}
            [] OTHER -> {}
DrawRefused(nothing) ==
  /\ current # {} /\ (Curr.geometry \/ Group = "fragment")
  /\ SetMode(Curr, Groups)
  /\ IF kind = "bool0" THEN cache' = Flipped /\ marked' = TRUE ELSE UNCHANGED <<cache, marked>>
  /\ updMask' = {} /\ forced' = IF nothing THEN forced ELSE {}
  /\ missed' = (IF nothing THEN missed ELSE Dropped) \cup Unmade \cup (IF marked' THEN {"left"} ELSE {})
  /\ UNCHANGED <<kind, image, current, hardware, copied, zbias>>
\* ... without program: the marks are cleared.
DrawNone ==
  /\ current = {}
  /\ missed' = Dropped
  /\ updMask' = {} /\ forced' = {}
  /\ UNCHANGED <<kind, image, current, marked, cache, hardware, copied, vpMode, zbias>>

\* nngxValidateState. What it writes of the group of the fragment state has no
\* regard to lights that are off.
ClearedBy(mask) ==
  (IF "vertex" \in mask THEN {"uniform"} ELSE {})
  \cup (IF "fragment" \in mask THEN {"register"} ELSE {})
  \cup (IF "mode" \in mask THEN {"attach", "detach"} ELSE {})
  \cup (mask \cap {"trioffset", "rest"})
ValidateState(mask) ==
  /\ current # {}
  /\ SetMode(Curr, mask)
  /\ WriteRegister(Curr, mask, FALSE)
  /\ updMask' = (updMask \cup (IF NewValue(Curr, mask) # Curr.value THEN {"register"} ELSE {})) \ ClearedBy(mask)
  /\ forced' = forced \ mask
  /\ missed' = (StillMissed(Curr, mask, FALSE) \ {"left"})
               \cup (IF marked' /\ updMask' = {} THEN {"left"} ELSE {})
               \cup (IF AllOff(Curr) /\ "fragment" \in mask THEN {"light"} ELSE {})
  /\ UNCHANGED <<kind, current, zbias>>

\* nngxUseSavedCmdlist and nngxUpdateState: commands recorded earlier write the groups
\* in mask.
MarksOf(mask) ==
  (IF mask \cap {"program", "vertex"} # {} THEN {"uniform"} ELSE {})
  \cup (IF "fragment" \in mask THEN {"register"} ELSE {})
  \cup (IF "mode" \in mask THEN {"attach", "detach"} ELSE {})
  \cup (mask \cap {"trioffset", "rest"})
OverwriteState(mask) ==
  /\ IF Group \in mask THEN hardware' = Unknown /\ copied' = FALSE ELSE UNCHANGED <<hardware, copied>>
  /\ vpMode' = IF "mode" \in mask \cap Concerns THEN [vpMode EXCEPT !.real = Unknown] ELSE vpMode
  /\ updMask' = updMask \cup MarksOf(mask)
  /\ forced' = forced \cup (mask \cap Concerns)
  /\ UNCHANGED <<kind, image, current, marked, cache, zbias, missed>>

RegNext ==
  \/ \E p \in RegPrograms :
       \/ \E geometry, has \in BOOLEAN, v \in {0, 1} : Link(p, geometry, has, v)
       \/ \E another \in BOOLEAN : UseRegisters(p, another)
  \/ UseNone
  \/ \E v \in {0, 1} : VertexUniform(v) \/ FragmentUniform(v) \/ SetOffset(v)
  \/ \E mark \in {"uniform", "register"} : OtherUniform(mark)
  \/ Lighting \/ Light(0) \/ Light(1)
  \/ \E nothing \in BOOLEAN : Draw(nothing) \/ DrawRefused(nothing)
  \/ DrawNone
  \/ \E mask \in StateMasks : ValidateState(mask) \/ OverwriteState(mask)

RegSpec == RegInit /\ [][RegNext]_regVars

------------------------------------------------------------------------------
\* When nothing is marked for validation, the hardware holds of the program in use
\* what is wanted, light 0 put out if no light is on, and VP0 the same as VP1 if there
\* is no geometry shader; no register is left marked but that of a light put out. The
\* code misses a register that a saved command list or the change of the mode made stale,
\* where a program without it, a draw call that found nothing marked or one that was refused
\* dropped what says so ("lost"); one that was written before the mode of the processors
\* changed ("early"); one that was not of the groups that were validated until nothing was
\* marked, or not validated by a refused draw that left nothing marked ("left"); a
\* light 0 put on or off unannounced ("light"); and what a refused draw did not make
\* of ZBIAS ("offset").
RegistersFollow ==
  LET c == Curr IN
  current # {} /\ updMask = {} /\ forced = {} /\ missed = {} /\ c.has =>
    /\ hardware = Wanted(c)
    /\ marked => AllOff(c)
    /\ kind \in Vp1 /\ ~c.geometry => copied
    /\ kind = "zbias" => c.value = zbias
===============================================================================
