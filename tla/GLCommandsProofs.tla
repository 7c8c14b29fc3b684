--------------------------- MODULE GLCommandsProofs --------------------------
(***************************************************************************)
(* Proofs about the parts of gles2 that fill command buffers, for any       *)
(* number of shaders, programs and binaries, any kinds of registers and any *)
(* statemasks of the application, any number of lists, sizes of buffers and *)
(* of what is written.                                                      *)
(***************************************************************************)
EXTENDS GLCommands, FiniteSetTheorems, SequenceTheorems, WellFoundedInduction, TLAPS

------------------------------------------------------------------------------
(* Shaders: what counts what, and what is in the processors. *)

ShaderRecord == [live : BOOLEAN, bin : Binaries \cup {0}, exe : Nat, refs : Nat, flagged : BOOLEAN]
ProgramRecord == [live : BOOLEAN, vs : VertexShaders \cup {0}, gs : GeometryShaders \cup {0},
                  linked : BOOLEAN, bin : Binaries \cup {0}, vsExe : Nat, gsExe : Nat]

Held == (Binaries \cup {0}) \X Nat
Hw == [mode : {0, 1, UnknownMode}, code0 : Binaries \cup {0}, code1 : Binaries \cup {0},
       consts0 : Held, consts1 : Held]

ShaderTypeOK ==
  /\ application \in Applications
  /\ shader \in [Shaders -> ShaderRecord]
  /\ program \in [Programs -> ProgramRecord]
  /\ binRefs \in [Binaries -> Nat]
  /\ currProg \in Programs \cup {0}
  /\ dirty \subseteq AllDirty
  /\ hw \in Hw
  /\ known \in [mode : {0, 1, UnknownMode}, forced : BOOLEAN]
  /\ slipped \subseteq AllDirty
  /\ orphans \subseteq Programs
  /\ misjudged \in BOOLEAN

\* The binary that a program was linked with is held as long as the program is
\* not known to have lost it.
LinkedIsKept == \A p \in Programs \ orphans : program[p].bin # 0 => binRefs[program[p].bin] # 0

\* The mode is set only if it is not the one known: so that is the mode of the program in use,
\* but where it is marked, and of the processors, but where it is forced or has slipped.
ModeIsKnown ==
  /\ currProg # 0 /\ "mode" \notin dirty => known.mode = VpMode(program[currProg])
  /\ known.mode # UnknownMode /\ hw.mode # known.mode => known.forced \/ "mode" \in slipped
Follow == ProcessorsFollow /\ ModeIsKnown

ShaderInv == ShaderTypeOK /\ CountsExact /\ LinkedIsKept /\ Follow

\* The programs a shader is attached to, and the shaders that hold a binary.
Users(s) == {p \in Programs : s \in {program[p].vs, program[p].gs}}
Holders(b) == {s \in Shaders : shader[s].bin = b}

\* Both are finite.
LEMMA CountsAreNat ==
    /\ \A s : IsFiniteSet(Users(s)) /\ Cardinality(Users(s)) \in Nat
    /\ \A b : IsFiniteSet(Holders(b)) /\ Cardinality(Holders(b)) \in Nat
<1>1. ASSUME NEW s PROVE IsFiniteSet(Users(s)) /\ Cardinality(Users(s)) \in Nat
  <2>1. Users(s) \in SUBSET Programs
    BY DEF Users
  <2>2. IsFiniteSet(Users(s))
    BY <2>1, FS_Subset, ShaderAssumption
  <2>3. QED
    BY <2>2, FS_CardinalityType
<1>2. ASSUME NEW b PROVE IsFiniteSet(Holders(b)) /\ Cardinality(Holders(b)) \in Nat
  <2>1. Holders(b) \in SUBSET Shaders
    BY DEF Holders
  <2>2. IsFiniteSet(Holders(b))
    BY <2>1, FS_Subset, ShaderAssumption
  <2>3. QED
    BY <2>2, FS_CardinalityType
<1>3. QED
  BY <1>1, <1>2

\* CountsExact in terms of the two.
CountsInSets ==
  /\ \A s \in Shaders : /\ shader[s].refs = Cardinality(Users(s))
                        /\ shader[s].refs # 0 => shader[s].live
                        /\ shader[s].flagged => shader[s].refs # 0
  /\ \A b \in Binaries : binRefs[b] = Cardinality(Holders(b))
(* The counts as cardinalities of sets of shaders and programs, which the steps change by one. *)
LEMMA CountsAre == CountsExact <=> CountsInSets
BY Zenon DEF CountsExact, CountsInSets, Users, Holders

\* A set that counts nothing is empty.
LEMMA CountZero ==
    ASSUME NEW S, IsFiniteSet(S), Cardinality(S) = 0
    PROVE  S = {}
BY FS_EmptySet

\* Letting go of binaries counts them down to the shaders that still hold them.
LEMMA LetGoCounts ==
    ASSUME ShaderTypeOK, CountsExact, NEW S \in SUBSET Shaders
    PROVE  /\ LetGoOf(S) \in [Binaries -> Nat]
           /\ \A b \in Binaries : LetGoOf(S)[b] = Cardinality(Holders(b) \ S)
<1> SUFFICES ASSUME NEW b \in Binaries
             PROVE  LetGoOf(S)[b] \in Nat /\ LetGoOf(S)[b] = Cardinality(Holders(b) \ S)
  BY DEF LetGoOf
<1> DEFINE Gone == {s \in S : shader[s].bin = b}
<1>1. Gone = Holders(b) \cap S
  BY DEF Holders
<1>2. LetGoOf(S)[b] = binRefs[b] - Cardinality(Gone)
  BY DEF LetGoOf
<1>3. binRefs[b] = Cardinality(Holders(b))
  BY CountsAre DEF CountsInSets
<1>4. IsFiniteSet(Holders(b))
  BY CountsAreNat
<1>5. IsFiniteSet(Holders(b) \ S) /\ Cardinality(Holders(b) \ S) = Cardinality(Holders(b)) - Cardinality(Holders(b) \cap S)
  BY <1>4, FS_Difference
<1>6. Cardinality(Holders(b) \ S) \in Nat
  BY <1>5, FS_CardinalityType
<1>7. QED
  BY <1>1, <1>2, <1>3, <1>5, <1>6

\* A list that names each shader once counts them.
LEMMA LengthCounts ==
    ASSUME NEW list \in Seq(Shaders), \A i, j \in DOMAIN list : list[i] = list[j] => i = j
    PROVE  Cardinality({list[i] : i \in DOMAIN list}) = Len(list)
<1> DEFINE S == {list[i] : i \in DOMAIN list}
<1>1. DOMAIN list = 1 .. Len(list) /\ Len(list) \in Nat /\ list \in [1 .. Len(list) -> S]
  BY LenProperties
<1>2. list \in Bijection(1 .. Len(list), S)
  BY <1>1 DEF Bijection, Injection, Surjection, IsInjective
<1>3. ExistsBijection(1 .. Len(list), S)
  BY <1>2 DEF ExistsBijection
<1>4. QED
  BY <1>1, <1>3, FS_CountingElements

\* Steps that leave links and counts alone.
LEMMA CountsKept ==
    ASSUME ShaderTypeOK, CountsExact, binRefs' = binRefs,
           \A s \in Shaders : /\ shader'[s].refs = shader[s].refs /\ shader'[s].bin = shader[s].bin
                              /\ shader'[s].flagged = shader[s].flagged
                              /\ shader[s].live => shader'[s].live,
           \A p \in Programs : program'[p].vs = program[p].vs /\ program'[p].gs = program[p].gs
    PROVE  CountsExact'
<1>1. \A s : Users(s)' = Users(s)
  BY DEF Users
<1>2. \A b : Holders(b)' = Holders(b)
  BY DEF Holders
<1> HIDE DEF Users, Holders
<1>3. \A s \in Shaders : /\ shader[s].refs = Cardinality(Users(s))
                         /\ shader[s].refs # 0 => shader[s].live
                         /\ shader[s].flagged => shader[s].refs # 0
  BY CountsAre DEF CountsInSets
<1>4. \A b \in Binaries : binRefs[b] = Cardinality(Holders(b))
  BY CountsAre DEF CountsInSets
<1>5. \A s \in Shaders : /\ shader'[s].refs = Cardinality(Users(s)')
                         /\ shader'[s].refs # 0 => shader'[s].live
                         /\ shader'[s].flagged => shader'[s].refs # 0
  <2> SUFFICES ASSUME NEW s \in Shaders
               PROVE  /\ shader'[s].refs = Cardinality(Users(s)')
                      /\ shader'[s].refs # 0 => shader'[s].live
                      /\ shader'[s].flagged => shader'[s].refs # 0
    OBVIOUS
  <2>1. Cardinality(Users(s)') = Cardinality(Users(s))
    BY <1>1
  <2>2. QED
    BY <2>1, <1>3
<1>6. \A b \in Binaries : binRefs'[b] = Cardinality(Holders(b)')
  BY <1>2, <1>4, Zenon
<1>7. CountsInSets'
  BY <1>5, <1>6, Zenon DEF CountsInSets
<1>8. CountsExact' <=> CountsInSets'
  BY CountsAre, PTL
<1>9. QED
  BY <1>7, <1>8

\* Steps that leave alone what the programs were linked with.
LEMMA FollowKept ==
    ASSUME Follow, orphans' \in SUBSET Programs, orphans \subseteq orphans',
           UNCHANGED <<currProg, loading, misjudged>>,
           \A p \in Programs : /\ program'[p].bin = program[p].bin
                               /\ program'[p].vsExe = program[p].vsExe /\ program'[p].gsExe = program[p].gsExe,
           currProg \in Programs \cup {0}
    PROVE  Follow'
<1>1. currProg # 0 => VpMode(program'[currProg]) = VpMode(program[currProg])
  BY DEF VpMode
<1>2. ProcessorsFollow'
  BY <1>1 DEF Follow, ProcessorsFollow, loading
<1>3. ModeIsKnown'
  BY <1>1 DEF Follow, ModeIsKnown, loading
<1>4. QED
  BY <1>2, <1>3 DEF Follow

(* Nothing is counted and nothing is in use when the context is new. *)
LEMMA ShaderInitInv == ShaderInit => ShaderInv
<1> SUFFICES ASSUME ShaderInit PROVE ShaderInv
  OBVIOUS
<1> USE ShaderAssumption DEF ShaderInit
<1>1. ShaderTypeOK
  BY DEF ShaderTypeOK, ShaderRecord, ProgramRecord, NoShader, NoProgram, InitialHw, InitialKnown, NoCode, Hw, Held, UnknownMode
<1>2. \A s \in Shaders : Users(s) = {}
  BY DEF Users, NoProgram
<1>3. \A b \in Binaries : Holders(b) = {}
  BY DEF Holders, NoShader
<1>4. Cardinality({}) = 0
  BY FS_EmptySet
<1>5. CountsExact
  BY <1>2, <1>3, <1>4, CountsAre DEF CountsInSets, NoShader
<1>6. LinkedIsKept /\ Follow
  BY DEF LinkedIsKept, Follow, ProcessorsFollow, ModeIsKnown, InitialKnown, NoProgram
<1>7. QED
  BY <1>1, <1>5, <1>6 DEF ShaderInv

\* Changes of single fields.
LEMMA ShaderRecordWith ==
    ASSUME NEW r \in ShaderRecord
    PROVE  /\ [r EXCEPT !.live = TRUE] \in ShaderRecord
           /\ [r EXCEPT !.flagged = TRUE] \in ShaderRecord
           /\ \A n \in Nat : [r EXCEPT !.refs = n] \in ShaderRecord
           /\ \A b \in Binaries, e \in Nat : [r EXCEPT !.bin = b, !.exe = e] \in ShaderRecord
           /\ r.refs \in Nat /\ r.bin \in Binaries \cup {0} /\ r.exe \in Nat
BY DEF ShaderRecord
(* A program whose record is changed field by field is a program. *)
LEMMA ProgramRecordWith ==
    ASSUME NEW r \in ProgramRecord
    PROVE  /\ [r EXCEPT !.live = TRUE] \in ProgramRecord
           /\ [r EXCEPT !.linked = FALSE] \in ProgramRecord
           /\ \A s \in VertexShaders \cup {0} : [r EXCEPT !.vs = s] \in ProgramRecord
           /\ \A s \in GeometryShaders \cup {0} : [r EXCEPT !.gs = s] \in ProgramRecord
           /\ \A b \in Binaries \cup {0}, v, g \in Nat :
                [r EXCEPT !.linked = TRUE, !.bin = b, !.vsExe = v, !.gsExe = g] \in ProgramRecord
           /\ r.vs \in VertexShaders \cup {0} /\ r.gs \in GeometryShaders \cup {0}
           /\ r.bin \in Binaries \cup {0} /\ r.vsExe \in Nat /\ r.gsExe \in Nat
BY DEF ProgramRecord

(* Replacing fields of one shader leaves the types of all. *)
LEMMA ShaderUpdated ==
    ASSUME shader \in [Shaders -> ShaderRecord], NEW s \in Shaders
    PROVE  /\ [shader EXCEPT ![s].live = TRUE] \in [Shaders -> ShaderRecord]
           /\ [shader EXCEPT ![s].flagged = TRUE] \in [Shaders -> ShaderRecord]
           /\ [shader EXCEPT ![s].refs = @ + 1] \in [Shaders -> ShaderRecord]
           /\ shader[s].refs # 0 => [shader EXCEPT ![s].refs = @ - 1] \in [Shaders -> ShaderRecord]
<1> DEFINE Updated(r) == [shader EXCEPT ![s] = r]
<1>1. \A r \in ShaderRecord : Updated(r) \in [Shaders -> ShaderRecord]
  OBVIOUS
<1> DEFINE x == shader[s]
<1>2. x \in ShaderRecord /\ x = shader[s]
  OBVIOUS
<1> HIDE DEF x
<1>3. x.refs \in Nat
  BY <1>2, ShaderRecordWith
<1>4. x.refs + 1 \in Nat /\ (x.refs # 0 => x.refs - 1 \in Nat)
  BY <1>3
<1>5. /\ [x EXCEPT !.live = TRUE] \in ShaderRecord /\ [x EXCEPT !.flagged = TRUE] \in ShaderRecord
      /\ [x EXCEPT !.refs = x.refs + 1] \in ShaderRecord
      /\ x.refs # 0 => [x EXCEPT !.refs = x.refs - 1] \in ShaderRecord
  BY <1>2, <1>4, ShaderRecordWith
<1>6. /\ Updated([x EXCEPT !.live = TRUE]) = [shader EXCEPT ![s].live = TRUE]
      /\ Updated([x EXCEPT !.flagged = TRUE]) = [shader EXCEPT ![s].flagged = TRUE]
      /\ Updated([x EXCEPT !.refs = x.refs + 1]) = [shader EXCEPT ![s].refs = @ + 1]
      /\ Updated([x EXCEPT !.refs = x.refs - 1]) = [shader EXCEPT ![s].refs = @ - 1]
  BY <1>2
<1> HIDE DEF Updated
<1>7. QED
  BY <1>1, <1>2, <1>5, <1>6
(* Replacing the shaders of one program leaves the types of all. *)
LEMMA ProgramUpdated ==
    ASSUME program \in [Programs -> ProgramRecord], NEW p \in Programs
    PROVE  /\ \A s \in VertexShaders \cup {0} : [program EXCEPT ![p].vs = s] \in [Programs -> ProgramRecord]
           /\ \A s \in GeometryShaders \cup {0} : [program EXCEPT ![p].gs = s] \in [Programs -> ProgramRecord]
BY ProgramRecordWith

\* Validation loads what the program in use was linked with.
LEMMA LoadsTypes ==
    ASSUME ShaderTypeOK, currProg \in Programs, NEW S, NEW cleared, NEW stays \in BOOLEAN,
           Loads(S, cleared, stays), UNCHANGED application
    PROVE  ShaderTypeOK'
<1> DEFINE p == program[currProg]
           load == dirty \cap S
           sets == "mode" \in S /\ (known.mode # VpMode(p) \/ known.forced)
           mode == IF sets THEN VpMode(p) ELSE hw.mode
<1>1. p \in ProgramRecord /\ hw \in Hw /\ known \in [mode : {0, 1, UnknownMode}, forced : BOOLEAN]
  BY DEF ShaderTypeOK
<1>2. <<p.bin, p.vsExe>> \in Held /\ <<p.bin, p.gsExe>> \in Held /\ NoCode \in Held /\ p.bin \in Binaries \cup {0}
  BY <1>1, ProgramRecordWith DEF Held, NoCode
<1>3. VpMode(p) \in {0, 1} /\ mode \in {0, 1, UnknownMode}
  BY <1>1 DEF VpMode, Hw
<1>4. hw' = [mode |-> mode,
             code0 |-> IF "package" \notin load THEN hw.code0
                       ELSE IF p.gsExe # 0 \/ mode = 0 \/ hw.code0 = p.bin THEN p.bin ELSE 0,
             code1 |-> IF "package" \in load THEN p.bin ELSE hw.code1,
             consts0 |-> CASE "vs" \in load /\ mode = 0 -> <<p.bin, p.vsExe>>
                           [] "vs" \in load /\ mode = UnknownMode -> NoCode
                           [] mode = 1 \/ "vs" \notin load ->
                                IF p.gsExe # 0 /\ "gs" \in load THEN <<p.bin, p.gsExe>> ELSE hw.consts0,
             consts1 |-> IF "vs" \in load THEN <<p.bin, p.vsExe>> ELSE hw.consts1]
  BY DEF Loads
<1>5. known' = [mode |-> IF sets THEN mode ELSE known.mode, forced |-> stays]
  BY DEF Loads
<1>6. /\ dirty' \subseteq AllDirty /\ slipped' \subseteq AllDirty
      /\ UNCHANGED <<shader, program, binRefs, currProg, orphans, misjudged>>
  BY DEF Loads, Slips, AllDirty, ShaderTypeOK
<1> HIDE DEF p, load, sets, mode
<1>7. hw' \in Hw
  <2>1. hw'.consts0 \in Held
    BY <1>1, <1>2, <1>3, <1>4 DEF Hw, UnknownMode
  <2>2. hw'.code0 \in Binaries \cup {0} /\ hw'.code1 \in Binaries \cup {0} /\ hw'.consts1 \in Held
    BY <1>1, <1>2, <1>4 DEF Hw
  <2>3. hw'.mode \in {0, 1, UnknownMode}
    BY <1>3, <1>4
  <2>4. hw' = [mode |-> hw'.mode, code0 |-> hw'.code0, code1 |-> hw'.code1, consts0 |-> hw'.consts0,
               consts1 |-> hw'.consts1]
    BY <1>4
  <2>5. QED
    BY <2>1, <2>2, <2>3, <2>4 DEF Hw
<1>8. known' \in [mode : {0, 1, UnknownMode}, forced : BOOLEAN]
  BY <1>1, <1>3, <1>5
<1>9. QED
  BY <1>6, <1>7, <1>8 DEF ShaderTypeOK

\* Every step keeps the types; that counts do not fall below 0 is the exactness of
\* those before.
LEMMA ShaderStepTypes ==
    ASSUME ShaderTypeOK, CountsExact, ShaderStep, UNCHANGED application
    PROVE  ShaderTypeOK'
<1> USE ShaderAssumption DEF ShaderTypeOK, loading
<1>a. NoShader \in ShaderRecord
  BY DEF NoShader, ShaderRecord
<1>g. \A s \in Shaders : shader[s] \in ShaderRecord
  OBVIOUS
<1>h. \A p \in Programs : program[p] \in ProgramRecord
  OBVIOUS
<1>b. \A S \in SUBSET Shaders : LetGoOf(S) \in [Binaries -> Nat]
  BY LetGoCounts
<1>c. \A refs : Orphaned(refs) \subseteq Programs
  BY DEF Orphaned
<1>d. \A s \in Shaders : {s} \in SUBSET Shaders
  OBVIOUS
<1>e. ASSUME NEW s \in Shaders, Drop(s)
      PROVE  shader' \in [Shaders -> ShaderRecord] /\ binRefs' \in [Binaries -> Nat] /\ orphans' \subseteq Programs
  BY <1>a, <1>b, <1>c, <1>d, <1>e DEF Drop
<1>f. \A s \in Shaders : Cardinality(Users(s)) \in Nat /\ shader[s].refs = Cardinality(Users(s))
  BY CountsAreNat, CountsAre DEF CountsInSets
<1>1. ASSUME NEW s \in Shaders, CreateShader(s) PROVE ShaderTypeOK'
  BY <1>1, <1>d, <1>g, ShaderRecordWith DEF CreateShader
<1>2. ASSUME NEW s \in Shaders, DeleteShader(s) PROVE ShaderTypeOK'
  <2>1. CASE shader[s].refs = 0
    BY <1>2, <2>1, <1>e DEF DeleteShader
  <2>2. CASE shader[s].refs # 0
    <3>1. shader' = [shader EXCEPT ![s].flagged = TRUE]
      BY <1>2, <2>2 DEF DeleteShader
    <3>2. shader' \in [Shaders -> ShaderRecord]
      BY <3>1, <1>d, ShaderUpdated
    <3>3. QED
      BY <1>2, <2>2, <3>2 DEF DeleteShader
  <2>3. QED
    BY <2>1, <2>2
<1>3. ASSUME NEW list \in Packages, NEW b \in Binaries, ShaderBinary(list, b)
      PROVE  ShaderTypeOK'
  <2> DEFINE S == {list[i] : i \in DOMAIN list}
  <2>1. DOMAIN list = 1 .. Len(list) /\ Len(list) \in Nat
    BY LenProperties
  <2>2. S \in SUBSET Shaders
    BY <2>1, ElementOfSeq
  <2>3. \A s \in S : (CHOOSE i \in DOMAIN list : list[i] = s) \in Nat
    BY <2>1
  <2>4. shader' \in [Shaders -> ShaderRecord]
    <3>1. shader' = [s \in Shaders |-> IF s \in S
            THEN [shader[s] EXCEPT !.bin = b, !.exe = CHOOSE i \in DOMAIN list : list[i] = s]
            ELSE shader[s]]
      BY <1>3 DEF ShaderBinary
    <3> HIDE DEF S
    <3>2. ASSUME NEW s \in Shaders PROVE shader'[s] \in ShaderRecord
      <4>1. CASE s \in S
        <5> DEFINE e == CHOOSE i \in DOMAIN list : list[i] = s
        <5>1. shader'[s] = [shader[s] EXCEPT !.bin = b, !.exe = e]
          BY <3>1, <4>1
        <5>2. e \in Nat
          BY <2>3, <4>1
        <5> HIDE DEF e
        <5>3. QED
          <6> DEFINE x == shader[s]
          <6>1. x \in ShaderRecord /\ x = shader[s] /\ b \in Binaries
            OBVIOUS
          <6> HIDE DEF x
          <6>2. [x EXCEPT !.bin = b, !.exe = e] \in ShaderRecord
            BY <5>2, <6>1, ShaderRecordWith
          <6>3. QED
            BY <5>1, <6>1, <6>2
      <4>2. CASE s \notin S
        BY <3>1, <4>2
      <4>3. QED
        BY <4>1, <4>2
    <3>3. QED
      BY <3>1, <3>2
  <2>5. binRefs' = [LetGoOf(S) EXCEPT ![b] = Len(list)]
    BY <1>3 DEF ShaderBinary
  <2>6. binRefs' \in [Binaries -> Nat]
    <3> HIDE DEF S
    <3>1. LetGoOf(S) \in [Binaries -> Nat]
      BY <1>b, <2>2
    <3>2. QED
      BY <2>1, <2>5, <3>1
  <2>7. orphans' \subseteq Programs
    BY <1>3, <1>c DEF ShaderBinary
  <2>8. hw' \in Hw
    <3> DEFINE code0 == IF hw.code0 = b THEN 0 ELSE hw.code0
               code1 == IF hw.code1 = b THEN 0 ELSE hw.code1
               consts0 == IF hw.consts0[1] = b THEN NoCode ELSE hw.consts0
               consts1 == IF hw.consts1[1] = b THEN NoCode ELSE hw.consts1
    <3>1. hw' = [hw EXCEPT !.code0 = code0, !.code1 = code1, !.consts0 = consts0, !.consts1 = consts1]
      BY <1>3 DEF ShaderBinary
    <3>2. NoCode \in Held
      BY DEF NoCode, Held
    <3>3. hw \in Hw
      OBVIOUS
    <3>4. code0 \in Binaries \cup {0} /\ code1 \in Binaries \cup {0} /\ consts0 \in Held /\ consts1 \in Held
      BY <3>2, <3>3 DEF Hw
    <3> HIDE DEF code0, code1, consts0, consts1
    <3>5. QED
      BY <3>1, <3>3, <3>4 DEF Hw
  <2>9. UNCHANGED <<program, currProg, dirty, known, slipped, misjudged>>
    BY <1>3 DEF ShaderBinary
  <2>10. QED
    BY <2>4, <2>6, <2>7, <2>8, <2>9
<1>4. ASSUME NEW p \in Programs, CreateProgram(p) PROVE ShaderTypeOK'
  BY <1>4, <1>h, ProgramRecordWith DEF CreateProgram
<1>5. ASSUME NEW p \in Programs, LinkFails(p) PROVE ShaderTypeOK'
  BY <1>5, <1>h, ProgramRecordWith DEF LinkFails
<1>6. ASSUME NEW p \in Programs, LinkProgram(p) PROVE ShaderTypeOK'
  <2>1. program[p].vs \in Shaders /\ (program[p].gs # 0 => program[p].gs \in Shaders)
    BY <1>6, <1>h, ProgramRecordWith DEF LinkProgram, Linkable, Shaders
  <2> DEFINE v == shader[program[p].vs]
             g == IF program[p].gs = 0 THEN 0 ELSE shader[program[p].gs].exe
  <2>2. v.bin \in Binaries \cup {0} /\ v.exe \in Nat /\ g \in Nat
    BY <2>1, <1>g, ShaderRecordWith
  <2>3. program' = [program EXCEPT ![p] = [@ EXCEPT !.linked = TRUE, !.bin = v.bin, !.vsExe = v.exe, !.gsExe = g]]
    BY <1>6 DEF LinkProgram
  <2>4. dirty' \subseteq AllDirty /\ slipped' \subseteq AllDirty
    BY <1>6 DEF LinkProgram, Mark, AllDirty
  <2>5. UNCHANGED <<shader, binRefs, currProg, hw, known>> /\ orphans' \subseteq Programs /\ misjudged' \in BOOLEAN
    BY <1>6 DEF LinkProgram
  <2> HIDE DEF v, g
  <2>6. program' \in [Programs -> ProgramRecord]
    BY <2>2, <2>3, <1>h, ProgramRecordWith
  <2>7. QED
    BY <2>4, <2>5, <2>6
<1>7. ASSUME NEW p \in Programs, UseProgram(p) PROVE ShaderTypeOK'
  BY <1>7 DEF UseProgram, Mark, Differs, AllDirty
<1>8. ASSUME NEW p \in Programs, NEW s \in Shaders, AttachShader(p, s) PROVE ShaderTypeOK'
  <2>1. program' \in [Programs -> ProgramRecord]
    <3>1. CASE s \in VertexShaders
      BY <1>8, <3>1, ProgramUpdated DEF AttachShader
    <3>2. CASE s \notin VertexShaders
      <4>1. s \in GeometryShaders
        BY <1>d, <3>2 DEF Shaders
      <4>2. QED
        BY <1>8, <3>2, <4>1, ProgramUpdated DEF AttachShader
    <3>3. QED
      BY <3>1, <3>2
  <2>2. shader' = [shader EXCEPT ![s].refs = @ + 1] /\ UNCHANGED <<binRefs, currProg, loading, orphans, misjudged>>
    BY <1>8 DEF AttachShader
  <2>3. shader' \in [Shaders -> ShaderRecord]
    BY <1>d, <2>2, ShaderUpdated
  <2>4. QED
    BY <2>1, <2>2, <2>3
<1>9. ASSUME NEW p \in Programs, NEW s \in Shaders, DetachShader(p, s) PROVE ShaderTypeOK'
  <2>1. program' \in [Programs -> ProgramRecord]
    BY <1>9, <1>h, ProgramRecordWith DEF DetachShader
  <2>2. CASE shader[s].refs = 1 /\ shader[s].flagged
    BY <1>9, <2>1, <2>2, <1>e DEF DetachShader
  <2>3. CASE ~(shader[s].refs = 1 /\ shader[s].flagged)
    <3>1. s \in Shaders /\ p \in Users(s)
      BY <1>9, <1>d DEF DetachShader, Users
    <3>2. Cardinality(Users(s)) # 0
      BY <3>1, CountZero, CountsAreNat
    <3>3. shader[s].refs # 0
      BY <3>1, <3>2, <1>f
    <3>4. shader' = [shader EXCEPT ![s].refs = @ - 1] /\ UNCHANGED <<binRefs, orphans, currProg, loading, misjudged>>
      BY <1>9, <2>3 DEF DetachShader
    <3>5. QED
      BY <2>1, <3>1, <3>3, <3>4, ShaderUpdated
  <2>4. QED
    BY <2>2, <2>3
<1>10. ASSUME UseNoProgram PROVE ShaderTypeOK'
  BY <1>10 DEF UseNoProgram
<1>11. ASSUME NEW mask, NEW nothing \in BOOLEAN, Validate(mask) \/ DrawCall(nothing) PROVE ShaderTypeOK'
  <2>1. currProg \in Programs
    BY <1>11 DEF Validate, DrawCall
  <2>2. \A x : (known.forced /\ x) \in BOOLEAN
    OBVIOUS
  <2>3. \/ Loads(Selected(mask), Selected(mask), known.forced /\ "mode" \notin mask)
        \/ Loads(AllDirty, AllDirty, known.forced /\ nothing)
        \/ Loads({"mode"}, AllDirty, known.forced /\ nothing)
        \/ Loads({}, AllDirty, known.forced /\ nothing)
    BY <1>11 DEF Validate, DrawCall
  <2> HIDE DEF ShaderTypeOK, loading
  <2>4. CASE Loads(Selected(mask), Selected(mask), known.forced /\ "mode" \notin mask)
    BY <2>1, <2>2, <2>4, LoadsTypes
  <2>5. CASE Loads(AllDirty, AllDirty, known.forced /\ nothing)
    BY <2>1, <2>2, <2>5, LoadsTypes
  <2>6. CASE Loads({"mode"}, AllDirty, known.forced /\ nothing)
    BY <2>1, <2>2, <2>6, LoadsTypes
  <2>7. CASE Loads({}, AllDirty, known.forced /\ nothing)
    BY <2>1, <2>2, <2>7, LoadsTypes
  <2>8. QED
    BY <2>3, <2>4, <2>5, <2>6, <2>7
<1>12. ASSUME NEW mask, Disturb(mask) PROVE ShaderTypeOK'
  <2>1. dirty' \subseteq AllDirty /\ slipped' \subseteq AllDirty
    BY <1>12 DEF Disturb, Mark, Selected, AllDirty
  <2>2. NoCode \in Held
    BY DEF NoCode, Held
  <2>3. hw' \in Hw
    BY <1>12, <2>2 DEF Disturb, Hw
  <2>4. known' \in [mode : {0, 1, UnknownMode}, forced : BOOLEAN]
    BY <1>12 DEF Disturb
  <2>5. QED
    BY <1>12, <2>1, <2>3, <2>4 DEF Disturb
<1>14. ASSUME NEW nothing \in BOOLEAN, DrawBare(nothing) PROVE ShaderTypeOK'
  BY <1>14 DEF DrawBare, AllDirty
<1> HIDE DEF ShaderTypeOK, loading
<1>15. QED
  BY <1>1, <1>2, <1>3, <1>4, <1>5, <1>6, <1>7, <1>8, <1>9, <1>10, <1>11, <1>12, <1>14, ZenonT(60) DEF ShaderStep

\* A shader nobody uses any more goes, and its binary counts one less.
LEMMA DropCounts ==
    ASSUME ShaderTypeOK, CountsExact, NEW s \in Shaders, Drop(s), Users(s)' = {},
           \A t \in Shaders \ {s} : Users(t)' = Users(t)
    PROVE  CountsExact'
<1> HIDE DEF Users
<1>0. CountsInSets
  BY CountsAre
<1>1. shader' = [shader EXCEPT ![s] = NoShader] /\ binRefs' = LetGoOf({s})
  BY DEF Drop
<1>2. \A t \in Shaders \ {s} : shader'[t] = shader[t]
  BY <1>1 DEF ShaderTypeOK
<1>3. shader'[s] = NoShader
  BY <1>1 DEF ShaderTypeOK
<1>4. \A t \in Shaders : /\ shader'[t].refs = Cardinality(Users(t)')
                         /\ shader'[t].refs # 0 => shader'[t].live
                         /\ shader'[t].flagged => shader'[t].refs # 0
  <2>1. Cardinality({}) = 0
    BY FS_EmptySet
  <2>2. ASSUME NEW t \in Shaders \ {s}
        PROVE  /\ shader'[t].refs = Cardinality(Users(t)')
               /\ shader'[t].refs # 0 => shader'[t].live
               /\ shader'[t].flagged => shader'[t].refs # 0
    BY <1>0, <1>2 DEF CountsInSets
  <2>3. /\ shader'[s].refs = Cardinality(Users(s)')
        /\ shader'[s].refs # 0 => shader'[s].live
        /\ shader'[s].flagged => shader'[s].refs # 0
    BY <1>3, <2>1 DEF NoShader
  <2>4. QED
    BY <2>2, <2>3
<1>5. ASSUME NEW b \in Binaries PROVE binRefs'[b] = Cardinality(Holders(b)')
  <2>1. Holders(b)' = Holders(b) \ {s}
    BY <1>2, <1>3, ShaderAssumption DEF Holders, NoShader
  <2>2. {s} \in SUBSET Shaders
    OBVIOUS
  <2> HIDE DEF Holders
  <2>3. LetGoOf({s})[b] = Cardinality(Holders(b) \ {s})
    BY <2>2, LetGoCounts
  <2>4. QED
    BY <1>1, <2>1, <2>3, Zenon
<1>6. CountsInSets'
  BY <1>4, <1>5, Zenon DEF CountsInSets
<1>7. CountsExact' <=> CountsInSets'
  BY CountsAre, PTL
<1>8. QED
  BY <1>6, <1>7

\* A package names each of its shaders, which held other binaries or none, once.
LEMMA ShaderBinaryCounts ==
    ASSUME ShaderTypeOK, CountsExact, UNCHANGED application,
           NEW list \in Packages, NEW b \in Binaries, ShaderBinary(list, b)
    PROVE  CountsExact'
<1> DEFINE S == {list[i] : i \in DOMAIN list}
<1>0. CountsInSets
  BY CountsAre
<1>1. list \in Seq(Shaders) /\ DOMAIN list = 1 .. Len(list) /\ S \in SUBSET Shaders
  <2>1. list \in Seq(Shaders)
    BY ShaderAssumption
  <2>2. QED
    BY <2>1, LenProperties, ElementOfSeq
<1>2. Cardinality(S) = Len(list)
  BY <1>1, LengthCounts, ShaderAssumption
<1>3. \A s \in Shaders : /\ shader'[s].refs = shader[s].refs /\ shader'[s].live = shader[s].live
                         /\ shader'[s].flagged = shader[s].flagged
                         /\ shader'[s].bin = IF s \in S THEN b ELSE shader[s].bin
  <2>1. shader' = [s \in Shaders |-> IF s \in S
            THEN [shader[s] EXCEPT !.bin = b, !.exe = CHOOSE i \in DOMAIN list : list[i] = s]
            ELSE shader[s]]
    BY DEF ShaderBinary
  <2> HIDE DEF S
  <2>2. SUFFICES ASSUME NEW s \in Shaders
                 PROVE  /\ shader'[s].refs = shader[s].refs /\ shader'[s].live = shader[s].live
                        /\ shader'[s].flagged = shader[s].flagged
                        /\ shader'[s].bin = IF s \in S THEN b ELSE shader[s].bin
    OBVIOUS
  <2> DEFINE e == CHOOSE i \in DOMAIN list : list[i] = s
  <2>3. shader'[s] = IF s \in S THEN [shader[s] EXCEPT !.bin = b, !.exe = e] ELSE shader[s]
    BY <2>1
  <2>4. shader[s] \in ShaderRecord
    BY DEF ShaderTypeOK
  <2> HIDE DEF e
  <2>5. QED
    BY <2>3, <2>4 DEF ShaderRecord
<1>4. binRefs' = [LetGoOf(S) EXCEPT ![b] = Len(list)] /\ binRefs[b] = 0 /\ program' = program
  BY DEF ShaderBinary
<1> HIDE DEF S
<1>5. \A s : Users(s)' = Users(s)
  BY <1>4 DEF Users
<1>6. \A s \in Shaders : /\ shader'[s].refs = Cardinality(Users(s)')
                         /\ shader'[s].refs # 0 => shader'[s].live
                         /\ shader'[s].flagged => shader'[s].refs # 0
  <2> HIDE DEF Users
  <2>1. ASSUME NEW s \in Shaders
        PROVE  /\ shader'[s].refs = Cardinality(Users(s)')
               /\ shader'[s].refs # 0 => shader'[s].live
               /\ shader'[s].flagged => shader'[s].refs # 0
    <3>1. Cardinality(Users(s)') = Cardinality(Users(s))
      BY <1>5
    <3>2. QED
      BY <1>0, <1>3, <3>1 DEF CountsInSets
  <2>2. QED
    BY <2>1
<1>7. ASSUME NEW c \in Binaries PROVE binRefs'[c] = Cardinality(Holders(c)')
  <2>1. LetGoOf(S) \in [Binaries -> Nat] /\ LetGoOf(S)[c] = Cardinality(Holders(c) \ S)
    BY <1>1, LetGoCounts
  <2>2. CASE c = b
    <3>1. Cardinality(Holders(b)) = 0
      BY <1>0, <1>4, Zenon DEF CountsInSets
    <3>2. Holders(b) = {}
      BY <3>1, CountZero, CountsAreNat
    <3>3. Holders(b)' = S
      BY <1>1, <1>3, <3>2 DEF Holders
    <3>4. binRefs'[b] = Len(list)
      BY <1>4, <2>1
    <3> HIDE DEF Holders
    <3>5. QED
      BY <2>2, <3>3, <3>4, <1>2
  <2>3. CASE c # b
    <3>1. Holders(c)' = Holders(c) \ S
      BY <1>3, <2>3 DEF Holders
    <3>2. binRefs'[c] = LetGoOf(S)[c]
      BY <1>4, <2>1, <2>3
    <3> HIDE DEF Holders
    <3>3. QED
      BY <2>1, <3>1, <3>2
  <2>4. QED
    BY <2>2, <2>3
<1>8. CountsInSets'
  BY <1>6, <1>7, Zenon DEF CountsInSets
<1>9. CountsExact' <=> CountsInSets'
  BY CountsAre, PTL
<1>10. QED
  BY <1>8, <1>9

\* Attaching adds a user, as the program had no shader of that type.
LEMMA AttachCounts ==
    ASSUME ShaderTypeOK, CountsExact, NEW p \in Programs, NEW s \in Shaders, AttachShader(p, s)
    PROVE  CountsExact'
<1>0. CountsInSets
  BY CountsAre
<1>1. program[p].vs \in VertexShaders \cup {0} /\ program[p].gs \in GeometryShaders \cup {0}
  BY ProgramRecordWith DEF ShaderTypeOK
<1>2. /\ \A q \in Programs \ {p} : program'[q] = program[q]
      /\ \A t \in Shaders : t \in {program'[p].vs, program'[p].gs} <=> t = s \/ t \in {program[p].vs, program[p].gs}
      /\ s \notin {program[p].vs, program[p].gs}
  <2>0. program[p] \in ProgramRecord /\ program \in [Programs -> ProgramRecord]
    BY DEF ShaderTypeOK
  <2>1. CASE s \in VertexShaders
    <3>1. program[p].vs = 0 /\ program' = [program EXCEPT ![p].vs = s]
      BY <2>1 DEF AttachShader
    <3>2. program'[p].vs = s /\ program'[p].gs = program[p].gs /\ \A q \in Programs \ {p} : program'[q] = program[q]
      BY <2>0, <3>1 DEF ProgramRecord
    <3>3. QED
      BY <1>1, <2>1, <3>1, <3>2, ShaderAssumption DEF Shaders
  <2>2. CASE s \notin VertexShaders
    <3>1. program[p].gs = 0 /\ program' = [program EXCEPT ![p].gs = s]
      BY <2>2 DEF AttachShader
    <3>2. program'[p].gs = s /\ program'[p].vs = program[p].vs /\ \A q \in Programs \ {p} : program'[q] = program[q]
      BY <2>0, <3>1 DEF ProgramRecord
    <3>3. QED
      BY <1>1, <2>2, <3>1, <3>2, ShaderAssumption DEF Shaders
  <2>3. QED
    BY <2>1, <2>2
<1>3. Users(s)' = Users(s) \cup {p} /\ p \notin Users(s)
  BY <1>2 DEF Users
<1>4. \A t \in Shaders \ {s} : Users(t)' = Users(t)
  BY <1>2 DEF Users
<1>5. shader' = [shader EXCEPT ![s].refs = @ + 1] /\ binRefs' = binRefs /\ shader[s].live
  BY DEF AttachShader
<1>6. /\ shader'[s].refs = shader[s].refs + 1 /\ shader'[s].bin = shader[s].bin
      /\ shader'[s].flagged = shader[s].flagged /\ shader'[s].live
      /\ \A t \in Shaders \ {s} : shader'[t] = shader[t]
  BY <1>5 DEF ShaderTypeOK, ShaderRecord
<1>7. \A b : Holders(b)' = Holders(b)
  BY <1>6 DEF Holders
<1> HIDE DEF Users, Holders
<1>8. /\ shader'[s].refs = Cardinality(Users(s)')
      /\ shader'[s].refs # 0 => shader'[s].live
      /\ shader'[s].flagged => shader'[s].refs # 0
  <2>1. Cardinality(Users(s)') = Cardinality(Users(s)) + 1 /\ Cardinality(Users(s)) \in Nat
    BY <1>3, CountsAreNat, FS_AddElement
  <2>2. shader[s].refs = Cardinality(Users(s))
    BY <1>0 DEF CountsInSets
  <2>3. QED
    BY <1>6, <2>1, <2>2
<1>9. ASSUME NEW t \in Shaders \ {s}
      PROVE  /\ shader'[t].refs = Cardinality(Users(t)')
             /\ shader'[t].refs # 0 => shader'[t].live
             /\ shader'[t].flagged => shader'[t].refs # 0
  BY <1>0, <1>4, <1>6 DEF CountsInSets
<1>10. \A b \in Binaries : binRefs'[b] = Cardinality(Holders(b)')
  BY <1>0, <1>5, <1>7, Zenon DEF CountsInSets
<1>11. CountsInSets'
  BY <1>8, <1>9, <1>10 DEF CountsInSets
<1>12. CountsExact' <=> CountsInSets'
  BY CountsAre, PTL
<1>13. QED
  BY <1>11, <1>12

\* Detaching takes a user away, and the last one takes a deleted shader along.
LEMMA DetachCounts ==
    ASSUME ShaderTypeOK, CountsExact, NEW p \in Programs, NEW s \in Shaders, DetachShader(p, s)
    PROVE  CountsExact'
<1>0. CountsInSets
  BY CountsAre
<1>1. program[p].vs \in VertexShaders \cup {0} /\ program[p].gs \in GeometryShaders \cup {0}
  BY ProgramRecordWith DEF ShaderTypeOK
<1>2. /\ \A q \in Programs \ {p} : program'[q] = program[q]
      /\ \A t \in Shaders : t \in {program'[p].vs, program'[p].gs} <=> t # s /\ t \in {program[p].vs, program[p].gs}
      /\ s \in {program[p].vs, program[p].gs}
  <2>0. program[p] \in ProgramRecord /\ program \in [Programs -> ProgramRecord]
    BY DEF ShaderTypeOK
  <2>1. CASE s \in VertexShaders
    <3>1. program' = [program EXCEPT ![p].vs = 0] /\ s \in {program[p].vs, program[p].gs}
      BY <2>1 DEF DetachShader
    <3>2. program'[p].vs = 0 /\ program'[p].gs = program[p].gs /\ \A q \in Programs \ {p} : program'[q] = program[q]
      BY <2>0, <3>1 DEF ProgramRecord
    <3>3. QED
      BY <1>1, <2>1, <3>1, <3>2, ShaderAssumption DEF Shaders
  <2>2. CASE s \notin VertexShaders
    <3>1. program' = [program EXCEPT ![p].gs = 0] /\ s \in {program[p].vs, program[p].gs}
      BY <2>2 DEF DetachShader
    <3>2. program'[p].gs = 0 /\ program'[p].vs = program[p].vs /\ \A q \in Programs \ {p} : program'[q] = program[q]
      BY <2>0, <3>1 DEF ProgramRecord
    <3>3. QED
      BY <1>1, <2>2, <3>1, <3>2, ShaderAssumption DEF Shaders
  <2>3. QED
    BY <2>1, <2>2
<1>3. Users(s)' = Users(s) \ {p} /\ p \in Users(s)
  BY <1>2 DEF Users
<1>4. \A t \in Shaders \ {s} : Users(t)' = Users(t)
  BY <1>2 DEF Users
<1> HIDE DEF Users
<1>5. /\ Cardinality(Users(s)') = Cardinality(Users(s)) - 1 /\ Cardinality(Users(s)') \in Nat
      /\ IsFiniteSet(Users(s)')
  <2>1. IsFiniteSet(Users(s)) /\ Cardinality(Users(s)) \in Nat
    BY CountsAreNat
  <2>2. IsFiniteSet(Users(s)') /\ Cardinality(Users(s)') = Cardinality(Users(s)) - 1
    BY <1>3, <2>1, FS_RemoveElement
  <2>3. QED
    BY <2>2, FS_CardinalityType
<1>6. shader[s].refs = Cardinality(Users(s)) /\ shader[s].refs \in Nat
  BY <1>0, CountsAreNat DEF CountsInSets
<1>7. CASE shader[s].refs = 1 /\ shader[s].flagged
  <2>1. Cardinality(Users(s)') = 0
    BY <1>5, <1>6, <1>7
  <2>2. Users(s)' = {}
    BY <2>1, <1>5, CountZero
  <2>3. Drop(s)
    BY <1>7 DEF DetachShader
  <2>4. QED
    BY <1>4, <2>2, <2>3, DropCounts
<1>8. CASE ~(shader[s].refs = 1 /\ shader[s].flagged)
  <2>1. shader' = [shader EXCEPT ![s].refs = @ - 1] /\ binRefs' = binRefs
    BY <1>8 DEF DetachShader
  <2>2. /\ shader'[s].refs = shader[s].refs - 1 /\ shader'[s].bin = shader[s].bin
        /\ shader'[s].flagged = shader[s].flagged /\ shader'[s].live = shader[s].live
        /\ \A t \in Shaders \ {s} : shader'[t] = shader[t]
    BY <2>1 DEF ShaderTypeOK, ShaderRecord
  <2>3. \A b : Holders(b)' = Holders(b)
    BY <2>2 DEF Holders
  <2> HIDE DEF Holders
  <2>4. /\ shader'[s].refs = Cardinality(Users(s)')
        /\ shader'[s].refs # 0 => shader'[s].live
        /\ shader'[s].flagged => shader'[s].refs # 0
    <3>1. shader[s].refs # 0 => shader[s].live
      BY <1>0 DEF CountsInSets
    <3>2. QED
      BY <3>1, <1>5, <1>6, <1>8, <2>2
  <2>5. ASSUME NEW t \in Shaders \ {s}
        PROVE  /\ shader'[t].refs = Cardinality(Users(t)')
               /\ shader'[t].refs # 0 => shader'[t].live
               /\ shader'[t].flagged => shader'[t].refs # 0
    BY <1>0, <1>4, <2>2 DEF CountsInSets
  <2>6. \A b \in Binaries : binRefs'[b] = Cardinality(Holders(b)')
    BY <1>0, <2>1, <2>3, Zenon DEF CountsInSets
  <2>7. CountsInSets'
    BY <2>4, <2>5, <2>6 DEF CountsInSets
  <2>8. CountsExact' <=> CountsInSets'
    BY CountsAre, PTL
  <2>9. QED
    BY <2>7, <2>8
<1>9. QED
  BY <1>7, <1>8

\* A shader that programs use is only marked, another one goes.
LEMMA DeleteCounts ==
    ASSUME ShaderTypeOK, CountsExact, NEW s \in Shaders, DeleteShader(s)
    PROVE  CountsExact'
<1>0. CountsInSets
  BY CountsAre
<1>1. program' = program
  BY DEF DeleteShader
<1>2. \A t : Users(t)' = Users(t)
  BY <1>1 DEF Users
<1>3. shader[s].refs = Cardinality(Users(s))
  BY <1>0, Zenon DEF CountsInSets
<1>4. CASE shader[s].refs = 0
  <2>1. Users(s) = {}
    BY <1>3, <1>4, CountZero, CountsAreNat
  <2>2. Drop(s)
    BY <1>4 DEF DeleteShader
  <2> HIDE DEF Users
  <2>3. QED
    BY <1>2, <2>1, <2>2, DropCounts
<1>5. CASE shader[s].refs # 0
  <2>1. shader' = [shader EXCEPT ![s].flagged = TRUE] /\ binRefs' = binRefs
    BY <1>5 DEF DeleteShader
  <2>2. /\ \A t \in Shaders : shader'[t].refs = shader[t].refs /\ shader'[t].live = shader[t].live /\ shader'[t].bin = shader[t].bin
        /\ \A t \in Shaders \ {s} : shader'[t].flagged = shader[t].flagged
    BY <2>1 DEF ShaderTypeOK, ShaderRecord
  <2>3. \A b : Holders(b)' = Holders(b)
    BY <2>2 DEF Holders
  <2> HIDE DEF Users, Holders
  <2>4. ASSUME NEW t \in Shaders
        PROVE  /\ shader'[t].refs = Cardinality(Users(t)')
               /\ shader'[t].refs # 0 => shader'[t].live
               /\ shader'[t].flagged => shader'[t].refs # 0
    <3>1. Cardinality(Users(t)') = Cardinality(Users(t))
      BY <1>2
    <3>2. QED
      BY <1>0, <1>5, <2>2, <3>1 DEF CountsInSets
  <2>5. \A b \in Binaries : binRefs'[b] = Cardinality(Holders(b)')
    BY <1>0, <2>1, <2>3, Zenon DEF CountsInSets
  <2>6. CountsInSets'
    BY <2>4, <2>5, Zenon DEF CountsInSets
  <2>7. CountsExact' <=> CountsInSets'
    BY CountsAre, PTL
  <2>8. QED
    BY <2>6, <2>7
<1>6. QED
  BY <1>4, <1>5

\* Steps after which counts have fallen only for binaries whose programs are known
\* to have lost them.
LEMMA LinkedKept ==
    ASSUME ShaderTypeOK, LinkedIsKept, orphans' = orphans \cup Orphaned(binRefs'),
           \A p \in Programs : program'[p].bin = program[p].bin
    PROVE  LinkedIsKept'
<1> SUFFICES ASSUME NEW p \in Programs, p \notin orphans', program'[p].bin # 0
             PROVE  binRefs'[program'[p].bin] # 0
  BY DEF LinkedIsKept
<1>1. binRefs[program[p].bin] # 0
  BY DEF LinkedIsKept
<1>2. QED
  BY <1>1 DEF Orphaned

\* Steps that keep the binaries and what the programs were linked with.
LEMMA LinkedSame ==
    ASSUME LinkedIsKept, binRefs' = binRefs, orphans' = orphans,
           \A p \in Programs : program'[p].bin = program[p].bin
    PROVE  LinkedIsKept'
BY DEF LinkedIsKept

(* glShaderBinary never touches the binary whose code the processors hold. *)
LEMMA ShaderBinaryFollows ==
    ASSUME ShaderInv, UNCHANGED application, ShaderTypeOK',
           NEW list \in Packages, NEW b \in Binaries, ShaderBinary(list, b)
    PROVE  LinkedIsKept' /\ Follow'
<1> DEFINE S == {list[i] : i \in DOMAIN list}
           refs == LetGoOf(S)
<1>1. /\ binRefs[b] = 0 /\ binRefs' = [refs EXCEPT ![b] = Len(list)]
      /\ orphans' = orphans \cup Orphaned(refs)
      /\ UNCHANGED <<program, currProg, dirty, known, misjudged, slipped>>
  BY DEF ShaderBinary
<1>2. S \in SUBSET Shaders
  BY ShaderAssumption, LenProperties, ElementOfSeq DEF ShaderInv, ShaderTypeOK
<1>3. refs \in [Binaries -> Nat]
  BY <1>2, LetGoCounts DEF ShaderInv
<1>4. \A p \in Programs \ orphans : program[p].bin # b
  BY <1>1, ShaderAssumption DEF ShaderInv, LinkedIsKept
<1>5. LinkedIsKept'
  <2> SUFFICES ASSUME NEW p \in Programs, p \notin orphans', program[p].bin # 0
               PROVE  binRefs'[program[p].bin] # 0
    BY <1>1 DEF LinkedIsKept
  <2> HIDE DEF refs
  <2>1. program[p].bin # b /\ binRefs[program[p].bin] # 0 /\ refs[program[p].bin] # 0
    BY <1>1, <1>4 DEF ShaderInv, LinkedIsKept, Orphaned
  <2>2. program[p].bin \in Binaries
    BY ProgramRecordWith DEF ShaderInv, ShaderTypeOK
  <2>3. QED
    BY <1>1, <1>3, <2>1, <2>2
<1>6. /\ hw'.mode = hw.mode
      /\ hw'.code0 = IF hw.code0 = b THEN 0 ELSE hw.code0
      /\ hw'.code1 = IF hw.code1 = b THEN 0 ELSE hw.code1
      /\ hw'.consts0 = IF hw.consts0[1] = b THEN NoCode ELSE hw.consts0
      /\ hw'.consts1 = IF hw.consts1[1] = b THEN NoCode ELSE hw.consts1
  BY DEF ShaderBinary, ShaderInv, ShaderTypeOK, Hw
<1> DEFINE p == program[currProg]
           stale == dirty \cup slipped
<1>7. currProg # 0 /\ "mode" \notin stale => hw'.mode = VpMode(p)
  BY <1>6 DEF ShaderInv, Follow, ProcessorsFollow
<1>8. ASSUME currProg # 0, currProg \notin orphans', ~misjudged
      PROVE  /\ "package" \notin stale => hw'.code0 = p.bin /\ hw'.code1 = p.bin
             /\ "vs" \notin stale => hw'.consts1 = <<p.bin, p.vsExe>> /\ (p.gsExe = 0 => hw'.consts0 = hw'.consts1)
             /\ "gs" \notin stale /\ p.gsExe # 0 => hw'.consts0 = <<p.bin, p.gsExe>>
  <2>1. currProg \in Programs \ orphans
    BY <1>1, <1>8 DEF ShaderInv, ShaderTypeOK
  <2>2. p.bin # b
    BY <1>4, <2>1
  <2>3. /\ "package" \notin stale => hw.code0 = p.bin /\ hw.code1 = p.bin
        /\ "vs" \notin stale => hw.consts1 = <<p.bin, p.vsExe>> /\ (p.gsExe = 0 => hw.consts0 = hw.consts1)
        /\ "gs" \notin stale /\ p.gsExe # 0 => hw.consts0 = <<p.bin, p.gsExe>>
    BY <1>8, <2>1 DEF ShaderInv, Follow, ProcessorsFollow
  <2> HIDE DEF p, stale
  <2>4. QED
    BY <1>6, <2>2, <2>3
<1>9. ProcessorsFollow'
  BY <1>1, <1>7, <1>8 DEF ProcessorsFollow
<1>10. ModeIsKnown'
  BY <1>1, <1>6 DEF ShaderInv, Follow, ModeIsKnown
<1>11. QED
  BY <1>5, <1>9, <1>10 DEF Follow

(* glLinkProgram marks what the processors do not hold, but for the orphans. *)
LEMMA LinkFollows ==
    ASSUME ShaderInv, NEW p \in Programs, LinkProgram(p)
    PROVE  LinkedIsKept' /\ Follow'
<1>1. program[p] \in ProgramRecord /\ program \in [Programs -> ProgramRecord]
  BY DEF ShaderInv, ShaderTypeOK
<1>2. program[p].vs \in Shaders /\ shader[program[p].vs].bin \in Binaries
  <2>1. program[p].vs \in VertexShaders
    BY <1>1 DEF LinkProgram, Linkable, ProgramRecord
  <2>2. program[p].vs \in Shaders
    BY <2>1 DEF Shaders
  <2>3. shader[program[p].vs] \in ShaderRecord /\ shader[program[p].vs].bin # 0
    BY <2>2 DEF ShaderInv, ShaderTypeOK, LinkProgram, Linkable
  <2>4. QED
    BY <2>2, <2>3 DEF ShaderRecord
<1> DEFINE bin == shader[program[p].vs].bin
<1>3. binRefs[bin] # 0
  <2>1. program[p].vs \in Holders(bin)
    BY <1>2 DEF Holders
  <2>2. Cardinality(Holders(bin)) # 0
    BY <2>1, CountZero, CountsAreNat
  <2>3. QED
    BY <1>2, <2>2, CountsAre DEF ShaderInv, CountsInSets
<1> DEFINE marks == {"vs", "gs", "mode"} \cup (IF program[p].bin # bin THEN {"package"} ELSE {})
<1>4. /\ program'[p].bin = bin /\ \A q \in Programs \ {p} : program'[q] = program[q]
      /\ UNCHANGED <<shader, binRefs, currProg, hw, known>>
      /\ orphans' = orphans \ {p}
      /\ misjudged' = (misjudged \/ (p = currProg /\ p \in orphans))
      /\ p # currProg => UNCHANGED <<dirty, slipped>>
      /\ p = currProg => dirty' = dirty \cup marks /\ slipped' = slipped \ (marks \ {"mode"})
  BY <1>1 DEF LinkProgram, Mark, ProgramRecord
<1>5. LinkedIsKept'
  BY <1>3, <1>4 DEF ShaderInv, LinkedIsKept
<1>6. CASE p # currProg
  <2>1. currProg # 0 => currProg \in Programs \ {p}
    BY <1>6 DEF ShaderInv, ShaderTypeOK
  <2>2. ProcessorsFollow'
    BY <1>4, <1>6, <2>1 DEF ShaderInv, Follow, ProcessorsFollow
  <2>3. ModeIsKnown'
    BY <1>4, <1>6, <2>1 DEF ShaderInv, Follow, ModeIsKnown
  <2>4. QED
    BY <1>5, <2>2, <2>3 DEF Follow
<1>7. CASE p = currProg
  <2>1. {"vs", "gs", "mode"} \subseteq dirty' /\ dirty \subseteq dirty'
    BY <1>4, <1>7
  <2>2. ASSUME p \notin orphans, ~misjudged, "package" \notin dirty' \cup slipped'
        PROVE  hw.code0 = bin /\ hw.code1 = bin
    <3>1. program[p].bin = bin /\ "package" \notin dirty \cup slipped
      BY <1>4, <1>7, <2>2
    <3>2. QED
      BY <1>7, <2>2, <3>1, ShaderAssumption DEF ShaderInv, Follow, ProcessorsFollow
  <2>3. ProcessorsFollow'
    BY <1>4, <1>7, <2>1, <2>2 DEF ProcessorsFollow
  <2>4. ModeIsKnown'
    <3>1. "mode" \in slipped => "mode" \in slipped'
      BY <1>4, <1>7
    <3>2. QED
      BY <1>4, <2>1, <3>1 DEF ShaderInv, Follow, ModeIsKnown
  <2>5. QED
    BY <1>5, <2>3, <2>4 DEF Follow
<1>8. QED
  BY <1>6, <1>7

(* glUseProgram marks every processor whose code changes with the program. *)
LEMMA UseFollows ==
    ASSUME ShaderInv, NEW p \in Programs, UseProgram(p)
    PROVE  Follow'
<1> DEFINE marks == Differs(program[IF currProg = 0 THEN p ELSE currProg], program[p])
<1>1. /\ dirty' = dirty \cup marks /\ slipped' = slipped \ (marks \ {"mode"})
      /\ currProg' = p /\ UNCHANGED <<program, hw, known, orphans>>
      /\ misjudged' = (misjudged \/ (currProg \notin {0, p} /\ {p, currProg} \cap orphans # {}))
  BY DEF UseProgram, Mark
<1>2. CASE currProg = 0
  <2>1. marks = AllDirty
    BY <1>2 DEF Differs
  <2>2. AllDirty \subseteq dirty' /\ ("mode" \in slipped => "mode" \in slipped')
    BY <1>1, <2>1
  <2> HIDE DEF marks
  <2>3. QED
    BY <1>1, <2>2 DEF Follow, ProcessorsFollow, ModeIsKnown, AllDirty, ShaderInv
<1>3. CASE currProg # 0
  <2> DEFINE c == program[currProg]
             n == program[p]
             stale == dirty \cup slipped
  <2>1. currProg \in Programs
    BY <1>3 DEF ShaderInv, ShaderTypeOK
  <2>2. marks = Differs(c, n)
    BY <1>3
  <2>3. p \notin orphans /\ ~misjudged' => currProg \notin orphans /\ ~misjudged
    BY <1>1, <1>3
  <2>4. /\ "mode" \notin stale => hw.mode = VpMode(c)
        /\ currProg \notin orphans /\ ~misjudged =>
           /\ "package" \notin stale => hw.code0 = c.bin /\ hw.code1 = c.bin
           /\ "vs" \notin stale => hw.consts1 = <<c.bin, c.vsExe>> /\ (c.gsExe = 0 => hw.consts0 = hw.consts1)
           /\ "gs" \notin stale /\ c.gsExe # 0 => hw.consts0 = <<c.bin, c.gsExe>>
        /\ "mode" \notin dirty => known.mode = VpMode(c)
        /\ known.mode # UnknownMode /\ hw.mode # known.mode => known.forced \/ "mode" \in slipped
    BY <1>3 DEF ShaderInv, Follow, ProcessorsFollow, ModeIsKnown
  <2>5. /\ stale' = stale \cup marks
        /\ "mode" \in slipped => "mode" \in slipped'
    BY <1>1
  <2> HIDE DEF c, n, marks, stale
  <2>6. /\ "mode" \notin stale' => hw.mode = VpMode(n)
        /\ "mode" \notin dirty' => known.mode = VpMode(n)
    BY <1>1, <1>3, <2>2, <2>4, <2>5 DEF Differs, AllDirty
  <2>7. p \notin orphans /\ ~misjudged' =>
           /\ "package" \notin stale' => hw.code0 = n.bin /\ hw.code1 = n.bin
           /\ "vs" \notin stale' => hw.consts1 = <<n.bin, n.vsExe>> /\ (n.gsExe = 0 => hw.consts0 = hw.consts1)
           /\ "gs" \notin stale' /\ n.gsExe # 0 => hw.consts0 = <<n.bin, n.gsExe>>
    BY <1>3, <2>2, <2>3, <2>4, <2>5 DEF Differs, AllDirty
  <2>8. ProcessorsFollow'
    BY <1>1, <2>6, <2>7 DEF ProcessorsFollow, n, stale
  <2>9. ModeIsKnown'
    BY <1>1, <2>4, <2>5, <2>6 DEF ModeIsKnown, n
  <2>10. QED
    BY <2>8, <2>9 DEF Follow
<1>4. QED
  BY <1>2, <1>3

\* Validation loads what is marked, or it slips; what forces the mode is dropped only
\* where it is set or not marked.
LEMMA LoadsFollow ==
    ASSUME ShaderInv, currProg # 0, NEW S, NEW cleared, NEW stays, Loads(S, cleared, stays),
           "mode" \in dirty \cap cleared => "mode" \in S,
           known.forced => stays \/ "mode" \in S \/ "mode" \notin dirty
    PROVE  Follow'
<1> DEFINE p == program[currProg]
           load == dirty \cap S
           sets == "mode" \in S /\ (known.mode # VpMode(p) \/ known.forced)
           mode == IF sets THEN VpMode(p) ELSE hw.mode
           done == IF sets THEN load \cup {"mode"} ELSE load \ {"mode"}
           stale == dirty \cup slipped
<1>1. /\ hw'.mode = mode
      /\ hw'.code0 = IF "package" \notin load THEN hw.code0
                     ELSE IF p.gsExe # 0 \/ mode = 0 \/ hw.code0 = p.bin THEN p.bin ELSE 0
      /\ hw'.code1 = IF "package" \in load THEN p.bin ELSE hw.code1
      /\ "vs" \in load /\ mode = 0 => hw'.consts0 = <<p.bin, p.vsExe>>
      /\ mode = 1 \/ "vs" \notin load =>
           hw'.consts0 = IF p.gsExe # 0 /\ "gs" \in load THEN <<p.bin, p.gsExe>> ELSE hw.consts0
      /\ hw'.consts1 = IF "vs" \in load THEN <<p.bin, p.vsExe>> ELSE hw.consts1
  <2> DEFINE geometry == IF p.gsExe # 0 /\ "gs" \in load THEN <<p.bin, p.gsExe>> ELSE hw.consts0
             code0 == IF "package" \notin load THEN hw.code0
                      ELSE IF p.gsExe # 0 \/ mode = 0 \/ hw.code0 = p.bin THEN p.bin ELSE 0
             code1 == IF "package" \in load THEN p.bin ELSE hw.code1
             consts0 == CASE "vs" \in load /\ mode = 0 -> <<p.bin, p.vsExe>>
                          [] "vs" \in load /\ mode = UnknownMode -> NoCode
                          [] mode = 1 \/ "vs" \notin load -> geometry
             consts1 == IF "vs" \in load THEN <<p.bin, p.vsExe>> ELSE hw.consts1
  <2>1. hw' = [mode |-> mode, code0 |-> code0, code1 |-> code1, consts0 |-> consts0, consts1 |-> consts1]
    BY DEF Loads
  <2> HIDE DEF mode, load
  <2>2. "vs" \in load /\ mode = 0 => consts0 = <<p.bin, p.vsExe>>
    BY DEF UnknownMode
  <2>3. mode = 1 \/ "vs" \notin load => consts0 = geometry
    BY DEF UnknownMode
  <2> HIDE DEF geometry, code0, code1, consts0, consts1
  <2>4. /\ hw'.mode = mode /\ hw'.code0 = code0 /\ hw'.code1 = code1
        /\ hw'.consts0 = consts0 /\ hw'.consts1 = consts1
    BY <2>1
  <2>5. QED
    BY <2>2, <2>3, <2>4 DEF geometry, code0, code1, consts1
<1>2. /\ known' = [mode |-> IF sets THEN mode ELSE known.mode, forced |-> stays]
      /\ dirty' = dirty \ cleared
      /\ slipped' = (slipped \ done) \cup Slips(p, load, mode) \cup (dirty \cap (cleared \ S))
      /\ UNCHANGED <<program, currProg, orphans, misjudged>>
  BY DEF Loads
<1>3. /\ "mode" \notin stale => hw.mode = VpMode(p)
      /\ currProg \notin orphans /\ ~misjudged =>
           /\ "package" \notin stale => hw.code0 = p.bin /\ hw.code1 = p.bin
           /\ "vs" \notin stale => hw.consts1 = <<p.bin, p.vsExe>> /\ (p.gsExe = 0 => hw.consts0 = hw.consts1)
           /\ "gs" \notin stale /\ p.gsExe # 0 => hw.consts0 = <<p.bin, p.gsExe>>
      /\ "mode" \notin dirty => known.mode = VpMode(p)
      /\ known.mode # UnknownMode /\ hw.mode # known.mode => known.forced \/ "mode" \in slipped
  BY DEF ShaderInv, Follow, ProcessorsFollow, ModeIsKnown
<1>4. VpMode(p) = IF p.gsExe = 0 THEN 0 ELSE 1
  BY DEF VpMode
<1>5. ASSUME NEW mark \in {"package", "vs", "gs"}, mark \notin stale'
      PROVE  (mark \in load \/ mark \notin stale) /\ mark \notin Slips(p, load, mode)
  BY <1>2, <1>5
<1>6. "mode" \notin stale' => sets \/ "mode" \notin slipped
  BY <1>2
<1>7. UNCHANGED p
  BY <1>2
<1> HIDE DEF p, stale, sets, mode, done
<1>8. ASSUME "mode" \notin dirty' PROVE sets \/ known.mode = VpMode(p)
  <2>1. CASE "mode" \in dirty
    <3>1. "mode" \in S
      BY <1>2, <1>8, <2>1
    <3>2. QED
      BY <3>1 DEF sets
  <2>2. CASE "mode" \notin dirty
    BY <1>3, <2>2
  <2>3. QED
    BY <2>1, <2>2
<1>9. ~sets /\ known.mode # UnknownMode /\ hw.mode # known.mode => stays \/ "mode" \in slipped
  <2> SUFFICES ASSUME ~sets, known.mode # UnknownMode, hw.mode # known.mode, "mode" \notin slipped
               PROVE  stays
    OBVIOUS
  <2>1. known.forced
    BY <1>3
  <2>2. "mode" \notin S
    BY <2>1 DEF sets
  <2>3. CASE "mode" \notin dirty
    BY <1>3, <2>3 DEF stale
  <2>4. QED
    BY <2>1, <2>2, <2>3
<1>10. "mode" \notin stale' => hw'.mode = VpMode(p)
  <2> SUFFICES ASSUME "mode" \notin stale' PROVE mode = VpMode(p)
    BY <1>1
  <2>1. CASE sets
    BY <2>1 DEF mode
  <2>2. CASE ~sets
    <3>1. "mode" \notin slipped /\ "mode" \notin dirty' /\ known.mode = VpMode(p)
      BY <1>6, <1>8, <2>2 DEF stale
    <3>2. known.mode # UnknownMode
      BY <1>4, <3>1 DEF UnknownMode
    <3>3. CASE "mode" \in dirty
      <4>1. "mode" \in S
        BY <1>2, <3>1, <3>3
      <4>2. ~known.forced
        BY <2>2, <4>1 DEF sets
      <4>3. QED
        BY <1>3, <2>2, <3>1, <3>2, <4>2 DEF mode
    <3>4. CASE "mode" \notin dirty
      BY <1>3, <2>2, <3>1, <3>4 DEF mode, stale
    <3>5. QED
      BY <3>3, <3>4
  <2>3. QED
    BY <2>1, <2>2
<1>11. ASSUME currProg \notin orphans, ~misjudged
       PROVE  /\ "package" \notin stale' => hw'.code0 = p.bin /\ hw'.code1 = p.bin
              /\ "vs" \notin stale' => hw'.consts1 = <<p.bin, p.vsExe>> /\ (p.gsExe = 0 => hw'.consts0 = hw'.consts1)
              /\ "gs" \notin stale' /\ p.gsExe # 0 => hw'.consts0 = <<p.bin, p.gsExe>>
  <2>1. /\ p.gsExe = 0 /\ "package" \in load /\ "package" \notin Slips(p, load, mode) => mode = 0
        /\ p.gsExe = 0 /\ "vs" \in load /\ "vs" \notin Slips(p, load, mode) => mode = 0
        /\ p.gsExe # 0 /\ "vs" \in load /\ "gs" \notin Slips(p, load, mode) => mode = 1
    BY <1>4 DEF Slips
  <2> HIDE DEF load
  <2>2. "package" \notin stale' => hw'.code0 = p.bin /\ hw'.code1 = p.bin
    BY <1>1, <1>3, <1>5, <1>11, <2>1
  <2>3. "vs" \notin stale' => hw'.consts1 = <<p.bin, p.vsExe>> /\ (p.gsExe = 0 => hw'.consts0 = hw'.consts1)
    BY <1>1, <1>3, <1>5, <1>11, <2>1
  <2>4. "gs" \notin stale' /\ p.gsExe # 0 => hw'.consts0 = <<p.bin, p.gsExe>>
    BY <1>1, <1>3, <1>5, <1>11, <2>1
  <2>5. QED
    BY <2>2, <2>3, <2>4
<1>12. ProcessorsFollow'
  BY <1>2, <1>10, <1>11 DEF ProcessorsFollow, p, stale
<1>13. ModeIsKnown'
  <2>1. "mode" \in slipped /\ ~sets => "mode" \in slipped'
    BY <1>2 DEF done
  <2>2. currProg' # 0 /\ "mode" \notin dirty' => known'.mode = VpMode(program[currProg])'
    BY <1>2, <1>8 DEF p, mode
  <2>3. known'.mode # UnknownMode /\ hw'.mode # known'.mode => known'.forced \/ "mode" \in slipped'
    BY <1>1, <1>2, <1>9, <2>1 DEF mode
  <2>4. QED
    BY <2>2, <2>3 DEF ModeIsKnown
<1>14. QED
  BY <1>12, <1>13 DEF Follow

\* nngxValidateState clears what it validates; a draw call validates the mode, or finds
\* nothing marked.
LEMMA ValidateFollows ==
    ASSUME ShaderInv, NEW mask, NEW nothing \in BOOLEAN, Validate(mask) \/ DrawCall(nothing)
    PROVE  Follow'
<1>1. CASE Validate(mask)
  <2>1. "mode" \in Selected(mask) <=> "mode" \in mask
    BY DEF Selected
  <2>2. QED
    BY <1>1, <2>1, LoadsFollow DEF Validate
<1>2. CASE DrawCall(nothing)
  <2>1. currProg # 0 /\ "mode" \in AllDirty
    BY <1>2 DEF DrawCall, AllDirty
  <2> DEFINE stays == known.forced /\ nothing
  <2>2. CASE Loads(AllDirty, AllDirty, stays)
    BY <2>1, <2>2, LoadsFollow
  <2>3. CASE Loads({"mode"}, AllDirty, stays)
    BY <2>1, <2>3, LoadsFollow
  <2>4. CASE dirty = {} /\ Loads({}, AllDirty, stays)
    BY <2>1, <2>4, LoadsFollow
  <2>5. QED
    BY <1>2, <2>2, <2>3, <2>4 DEF DrawCall
<1>3. QED
  BY <1>1, <1>2

(* What another list may have loaded is marked again, and the mode forced. *)
LEMMA DisturbFollows ==
    ASSUME ShaderInv, NEW mask, Disturb(mask)
    PROVE  Follow'
<1>1. /\ hw'.mode = IF "mode" \in mask THEN UnknownMode ELSE hw.mode
      /\ hw'.code0 = IF "binary" \in mask THEN 0 ELSE hw.code0
      /\ hw'.code1 = IF "binary" \in mask THEN 0 ELSE hw.code1
      /\ hw'.consts0 = IF "float" \in mask THEN NoCode ELSE hw.consts0
      /\ hw'.consts1 = IF "float" \in mask THEN NoCode ELSE hw.consts1
      /\ known'.mode = known.mode /\ known'.forced = (known.forced \/ "mode" \in mask)
      /\ UNCHANGED <<program, currProg, orphans, misjudged>>
  BY DEF Disturb, ShaderInv, ShaderTypeOK
<1>2. /\ dirty \cup slipped \cup Selected(mask) = dirty' \cup slipped'
      /\ dirty' = dirty \cup Selected(mask)
      /\ "mode" \in slipped => "mode" \in slipped'
  BY DEF Disturb, Mark
<1>3. /\ "package" \in Selected(mask) <=> "binary" \in mask
      /\ "vs" \in Selected(mask) <=> "float" \in mask
      /\ "gs" \in Selected(mask) <=> "float" \in mask
      /\ "mode" \in Selected(mask) <=> "mode" \in mask
  BY DEF Selected
<1>4. ProcessorsFollow'
  BY <1>1, <1>2, <1>3 DEF ShaderInv, Follow, ProcessorsFollow
<1>5. ModeIsKnown'
  BY <1>1, <1>2, <1>3 DEF ShaderInv, Follow, ModeIsKnown
<1>6. QED
  BY <1>4, <1>5 DEF Follow

\* Without program what forces the mode is dropped, and that is noted.
LEMMA BareFollows ==
    ASSUME ShaderInv, NEW nothing \in BOOLEAN, DrawBare(nothing)
    PROVE  Follow'
<1>1. /\ currProg = 0 /\ currProg' = 0 /\ hw' = hw
      /\ known'.mode = known.mode /\ known'.forced = (known.forced /\ nothing)
      /\ slipped' = IF known.forced /\ ~nothing THEN slipped \cup {"mode"} ELSE slipped
  BY DEF DrawBare, ShaderInv, ShaderTypeOK
<1>2. ModeIsKnown'
  BY <1>1 DEF ShaderInv, Follow, ModeIsKnown
<1>3. QED
  BY <1>1, <1>2 DEF Follow, ProcessorsFollow

(* Each operation of the shader manager keeps the invariant. *)
LEMMA ShaderStepInv ==
    ASSUME ShaderInv, ShaderStep, UNCHANGED application
    PROVE  ShaderInv'
<1>1. ShaderTypeOK'
  BY ShaderStepTypes DEF ShaderInv
<1>0. /\ ShaderTypeOK /\ CountsExact /\ LinkedIsKept /\ Follow
      /\ orphans' \in SUBSET Programs /\ currProg \in Programs \cup {0}
      /\ shader \in [Shaders -> ShaderRecord] /\ program \in [Programs -> ProgramRecord]
  BY <1>1 DEF ShaderInv, ShaderTypeOK
<1>2. ASSUME NEW s \in Shaders, CreateShader(s) PROVE ShaderInv'
  <2>1. CountsExact'
    BY <1>0, <1>2, CountsKept DEF CreateShader, ShaderRecord
  <2>2. LinkedIsKept' /\ Follow'
    BY <1>0, <1>2, LinkedSame, FollowKept DEF CreateShader
  <2>3. QED
    BY <1>1, <2>1, <2>2 DEF ShaderInv
<1>3. ASSUME NEW s \in Shaders, DeleteShader(s) PROVE ShaderInv'
  <2>1. CountsExact'
    BY <1>0, <1>3, DeleteCounts
  <2>2. UNCHANGED <<program, currProg, loading, misjudged>>
    BY <1>3 DEF DeleteShader
  <2>3. orphans' = orphans \cup Orphaned(binRefs')
    BY <1>0, <1>3 DEF DeleteShader, Drop, Orphaned
  <2>4. LinkedIsKept' /\ Follow'
    BY <1>0, <2>2, <2>3, LinkedKept, FollowKept
  <2>5. QED
    BY <1>1, <2>1, <2>4 DEF ShaderInv
<1>4. ASSUME NEW list \in Packages, NEW b \in Binaries, ShaderBinary(list, b) PROVE ShaderInv'
  BY <1>0, <1>1, <1>4, ShaderBinaryCounts, ShaderBinaryFollows DEF ShaderInv
<1>5. ASSUME NEW p \in Programs, CreateProgram(p) \/ LinkFails(p) PROVE ShaderInv'
  <2>1. /\ \A q \in Programs : /\ program'[q].vs = program[q].vs /\ program'[q].gs = program[q].gs
                               /\ program'[q].bin = program[q].bin
                               /\ program'[q].vsExe = program[q].vsExe /\ program'[q].gsExe = program[q].gsExe
        /\ UNCHANGED <<shader, binRefs, currProg, loading, orphans, misjudged>>
    BY <1>0, <1>5 DEF CreateProgram, LinkFails, ProgramRecord
  <2>2. CountsExact'
    BY <1>0, <2>1, CountsKept
  <2>3. LinkedIsKept' /\ Follow'
    BY <1>0, <2>1, LinkedSame, FollowKept
  <2>4. QED
    BY <1>1, <2>2, <2>3 DEF ShaderInv
<1>6. ASSUME NEW p \in Programs, LinkProgram(p) PROVE ShaderInv'
  <2>1. /\ \A q \in Programs : program'[q].vs = program[q].vs /\ program'[q].gs = program[q].gs
        /\ UNCHANGED <<shader, binRefs>>
    BY <1>0, <1>6 DEF LinkProgram, ProgramRecord
  <2>2. CountsExact'
    BY <1>0, <2>1, CountsKept
  <2>3. QED
    BY <1>1, <1>6, <2>2, LinkFollows DEF ShaderInv
<1>7. ASSUME NEW p \in Programs, UseProgram(p) PROVE ShaderInv'
  <2>1. UNCHANGED <<shader, program, binRefs, orphans>>
    BY <1>7 DEF UseProgram
  <2>2. CountsExact' /\ LinkedIsKept'
    BY <1>0, <2>1, CountsKept, LinkedSame
  <2>3. QED
    BY <1>1, <1>7, <2>2, UseFollows DEF ShaderInv
<1>8. ASSUME NEW p \in Programs, NEW s \in Shaders, AttachShader(p, s) PROVE ShaderInv'
  <2>1. \A q \in Programs : /\ program'[q].bin = program[q].bin
                            /\ program'[q].vsExe = program[q].vsExe /\ program'[q].gsExe = program[q].gsExe
    BY <1>0, <1>8 DEF AttachShader, ProgramRecord
  <2>2. UNCHANGED <<binRefs, currProg, loading, orphans, misjudged>>
    BY <1>8 DEF AttachShader
  <2>3. LinkedIsKept' /\ Follow'
    BY <1>0, <2>1, <2>2, LinkedSame, FollowKept
  <2>4. CountsExact'
    BY <1>0, <1>8, AttachCounts
  <2>5. QED
    BY <1>1, <2>3, <2>4 DEF ShaderInv
<1>9. ASSUME NEW p \in Programs, NEW s \in Shaders, DetachShader(p, s) PROVE ShaderInv'
  <2>1. \A q \in Programs : /\ program'[q].bin = program[q].bin
                            /\ program'[q].vsExe = program[q].vsExe /\ program'[q].gsExe = program[q].gsExe
    BY <1>0, <1>9 DEF DetachShader, ProgramRecord
  <2>2. UNCHANGED <<currProg, loading, misjudged>>
    BY <1>9 DEF DetachShader
  <2>3. orphans' = orphans \cup Orphaned(binRefs')
    BY <1>0, <1>9 DEF DetachShader, Drop, Orphaned
  <2>4. LinkedIsKept' /\ Follow'
    BY <1>0, <2>1, <2>2, <2>3, LinkedKept, FollowKept
  <2>5. CountsExact'
    BY <1>0, <1>9, DetachCounts
  <2>6. QED
    BY <1>1, <2>4, <2>5 DEF ShaderInv
<1>10. ASSUME UseNoProgram PROVE ShaderInv'
  <2>1. UNCHANGED <<shader, program, binRefs, orphans>> /\ currProg' = 0
    BY <1>10 DEF UseNoProgram
  <2>2. CountsExact' /\ LinkedIsKept'
    BY <1>0, <2>1, CountsKept, LinkedSame
  <2>3. Follow'
    BY <1>0, <1>10 DEF UseNoProgram, Follow, ProcessorsFollow, ModeIsKnown, loading
  <2>4. QED
    BY <1>1, <2>2, <2>3 DEF ShaderInv
<1>11. ASSUME NEW mask, NEW nothing \in BOOLEAN,
              Validate(mask) \/ DrawCall(nothing) \/ Disturb(mask) \/ DrawBare(nothing)
       PROVE  ShaderInv'
  <2>1. UNCHANGED <<shader, program, binRefs, orphans>>
    BY <1>11 DEF Validate, DrawCall, Loads, Disturb, DrawBare
  <2>2. CountsExact' /\ LinkedIsKept'
    BY <1>0, <2>1, CountsKept, LinkedSame
  <2>3. Follow'
    BY <1>11, ValidateFollows, DisturbFollows, BareFollows
  <2>4. QED
    BY <1>1, <2>2, <2>3 DEF ShaderInv
<1>12. ASSUME NEW mask, Validate(mask) \/ Disturb(mask) PROVE ShaderInv'
  BY <1>11, <1>12
<1>13. ASSUME NEW nothing \in BOOLEAN, DrawCall(nothing) \/ DrawBare(nothing) PROVE ShaderInv'
  BY <1>11, <1>13
<1>14. QED
  BY <1>2, <1>3, <1>4, <1>5, <1>6, <1>7, <1>8, <1>9, <1>10, <1>12, <1>13, Zenon DEF ShaderStep

(* The invariant is inductive. *)
LEMMA ShaderNextInv == ShaderInv /\ [ShaderNext]_shaderVars => ShaderInv'
<1> SUFFICES ASSUME ShaderInv, [ShaderNext]_shaderVars PROVE ShaderInv'
  OBVIOUS
<1>1. CASE UNCHANGED shaderVars
  <2>1. ShaderTypeOK'
    BY <1>1 DEF ShaderInv, ShaderTypeOK, shaderVars, loading
  <2>2. CountsExact' /\ LinkedIsKept'
    BY <1>1, CountsKept, LinkedSame DEF ShaderInv, shaderVars
  <2>3. Follow'
    BY <1>1 DEF ShaderInv, Follow, ProcessorsFollow, ModeIsKnown, shaderVars, loading
  <2>4. QED
    BY <2>1, <2>2, <2>3 DEF ShaderInv
<1>2. CASE ShaderStep /\ UNCHANGED application
  BY <1>2, ShaderStepInv
<1>3. CASE RestartShaders /\ UNCHANGED application
  <2> USE ShaderAssumption DEF RestartShaders
  <2>1. ShaderTypeOK'
    <3>1. application' \in Applications
      BY <1>3 DEF ShaderInv, ShaderTypeOK
    <3>2. NoShader \in ShaderRecord /\ NoProgram \in ProgramRecord
      BY DEF ShaderRecord, ProgramRecord, NoShader, NoProgram
    <3>3. InitialHw \in Hw /\ InitialKnown \in [mode : {0, 1, UnknownMode}, forced : BOOLEAN]
      BY DEF InitialHw, InitialKnown, NoCode, Hw, Held, UnknownMode
    <3>4. QED
      BY <1>3, <3>1, <3>2, <3>3 DEF ShaderTypeOK
  <2>2. \A s \in Shaders : Users(s)' = {}
    BY <1>3 DEF Users, NoProgram
  <2>3. \A b \in Binaries : Holders(b)' = {}
    BY <1>3 DEF Holders, NoShader
  <2>4. Cardinality({}) = 0
    BY FS_EmptySet
  <2>5. CountsInSets'
    BY <1>3, <2>2, <2>3, <2>4 DEF CountsInSets, NoShader
  <2>6. CountsExact' <=> CountsInSets'
    BY CountsAre, PTL
  <2>7. LinkedIsKept' /\ Follow'
    BY <1>3 DEF LinkedIsKept, Follow, ProcessorsFollow, ModeIsKnown, InitialKnown, NoProgram
  <2>8. QED
    BY <2>1, <2>5, <2>6, <2>7 DEF ShaderInv
<1>4. QED
  BY <1>1, <1>2, <1>3 DEF ShaderNext

(* The invariant holds in every state. *)
LEMMA ShaderInvariance == ShaderSpec => []ShaderInv
BY ShaderInitInv, ShaderNextInv, PTL DEF ShaderSpec

\* Shaders and binaries are freed when the last of those that count them lets go,
\* not before and not later: glAttachShader, glDetachShader, glDeleteShader and
\* glShaderBinary keep the counts exact for any shaders, programs and packages.
THEOREM CountsAreExact == ShaderSpec => []CountsExact
<1>1. ShaderInv => CountsExact
  BY DEF ShaderInv
<1>2. QED
  BY <1>1, ShaderInvariance, PTL

\* What is not marked, the processors hold, whatever masks are given to nngxValidateState and
\* nngxUseSavedCmdlist, and whatever is drawn in between: but for what was validated before
\* the mode, cleared without being validated, or linked from a freed binary.
THEOREM ProcessorsAreRight == ShaderSpec => []ProcessorsFollow
<1>1. ShaderInv => ProcessorsFollow
  BY DEF ShaderInv, Follow
<1>2. QED
  BY <1>1, ShaderInvariance, PTL

------------------------------------------------------------------------------
(* RegisterImage: what a register holds, what is believed of it and what is marked. Three *)
(* parts, each needed by the others: the mode of the processors (ModeKnown, ModeFollows), *)
(* since registers written in the wrong one are lost; the cache, of which a validation    *)
(* decides whether to write (PlainFollows, CacheFollows); and the marks, without which it *)
(* does not look (NothingLeft, OffsetFollows).                                            *)

Marks == {"attach", "detach", "uniform", "register", "trioffset", "rest"}
Ways == {"lost", "early", "left", "light", "offset"}
Image == [linked : BOOLEAN, geometry : BOOLEAN, has : BOOLEAN, value : {0, 1},
          lit : BOOLEAN, lights : SUBSET {0, 1}]
RegTypeOK ==
  /\ kind \in Kinds
  /\ image \in [RegPrograms -> Image]
  /\ current = {} \/ \E p \in RegPrograms : current = {p}
  /\ marked \in BOOLEAN
  /\ cache \in {0, 1, Flipped} /\ hardware \in {0, 1, Unknown}
  /\ copied \in BOOLEAN
  /\ vpMode \in [known : {0, 1, Unknown}, real : {0, 1, Unknown}]
  /\ zbias \in {0, 1}
  /\ updMask \subseteq Marks
  /\ forced \subseteq Concerns
  /\ missed \subseteq Ways

VpKind == kind \in Vp0 \cup Vp1

\* What linking makes of a program; only a linked one is used.
ImageSays(i) ==
  /\ kind \in Vp0 => i.has = i.geometry
  /\ i.linked /\ kind \notin Vp0 \cup {"subdiv"} => i.has
ImagesOK ==
  \A p \in RegPrograms : ImageSays(image[p]) /\ (current = {p} => image[p].linked)

\* The mode of the processors is the one known, but where nothing was set yet or a saved
\* command list has set it.
ModeKnown ==
  VpKind =>
    /\ vpMode.real \in {vpMode.known, Unknown} \/ vpMode = [known |-> Unknown, real |-> 0]
    /\ vpMode.real = Unknown => \/ "lost" \in missed
                                \/ "mode" \in forced /\ {"attach", "detach"} \subseteq updMask

\* No way of missing the register's value is open.
Sure == missed \cap {"lost", "early"} = {} /\ Group \notin forced
PlainFollows == ~VpKind /\ Sure => cache = hardware

\* The same, for the program in use.
ModeFollows(c) ==
  VpKind /\ vpMode.known # Mode(c) => (IF c.geometry THEN "attach" ELSE "detach") \in updMask
InCopy(c) == kind \in Vp1 /\ ~c.geometry => copied
Cached == cache # Flipped /\ (IF kind \in Vp0 THEN "attach" ELSE "detach") \notin updMask
CacheFollows(c) ==
  c.has /\ Sure =>
     /\ VpKind /\ Cached => cache = hardware /\ InCopy(c)
     /\ ~marked => hardware = c.value /\ InCopy(c)
NothingLeft(c) ==
  /\ updMask = {} /\ marked => (AllOff(c) /\ cache = 0) \/ missed \cap {"left", "light"} # {}
  /\ AllOff(c) => cache = 0 \/ "light" \in missed \/ "register" \in updMask \/ marked
OffsetFollows(c) == kind = "zbias" /\ c.value # zbias => "trioffset" \in updMask \/ "offset" \in missed
CurrentFollows ==
  \A p \in RegPrograms : current = {p} =>
     /\ ModeFollows(image[p]) /\ CacheFollows(image[p])
     /\ NothingLeft(image[p]) /\ OffsetFollows(image[p])

RegInv == RegTypeOK /\ ImagesOK /\ ModeKnown /\ PlainFollows /\ CurrentFollows

\* The program in use.
LEMMA CurrIs == ASSUME NEW p, current = {p} PROVE Curr = image[p]
<1>1. (CHOOSE q \in {p} : TRUE) = p
  OBVIOUS
<1>2. QED
  BY <1>1 DEF Curr

\* What the kind of the register says of the groups that concern it.
LEMMA KindIs ==
  ASSUME RegTypeOK
  PROVE /\ kind \in AllKinds
        /\ Group \in {"program", "vertex", "fragment"} /\ Group \in Concerns
        /\ "mode" \in Concerns <=> VpKind
        /\ Concerns \subseteq {Group, "mode"}
        /\ VpKind => Group # "fragment"
        /\ kind \in {"fragment", "zbias", "light"} => Group = "fragment"
        /\ kind = "subdiv" => Group = "program"
BY RegisterAssumption DEF RegTypeOK, AllKinds, Vp0, Vp1, Group, Concerns, VpKind

\* With nothing marked, forced or missed the invariant says what the property does.
LEMMA InvSuffices == RegInv => RegistersFollow
<1> SUFFICES ASSUME RegInv, current # {}, updMask = {}, forced = {}, missed = {}, Curr.has
             PROVE  /\ hardware = Wanted(Curr)
                    /\ marked => AllOff(Curr)
                    /\ kind \in Vp1 /\ ~Curr.geometry => copied
                    /\ kind = "zbias" => Curr.value = zbias
  BY DEF RegistersFollow
<1>1. PICK p \in RegPrograms : current = {p}
  BY DEF RegInv, RegTypeOK
<1>2. Curr = image[p] /\ image[p] \in Image
  BY <1>1, CurrIs DEF RegInv, RegTypeOK
<1> DEFINE c == image[p]
<1>3. Sure
  BY DEF Sure
<1>4. /\ marked => AllOff(c)
      /\ AllOff(c) => cache = 0
      /\ kind = "zbias" => c.value = zbias
  BY <1>1 DEF RegInv, CurrentFollows, NothingLeft, OffsetFollows
<1>5. c.has /\ ~marked => hardware = c.value /\ InCopy(c)
  BY <1>1, <1>3 DEF RegInv, CurrentFollows, CacheFollows
<1>6. AllOff(c) => hardware = 0 /\ kind \notin Vp1
  BY <1>3, <1>4 DEF RegInv, PlainFollows, AllOff, VpKind, Vp0, Vp1
<1>7. marked \in BOOLEAN
  BY DEF RegInv, RegTypeOK
<1> HIDE DEF c
<1>8. /\ hardware = Wanted(c)
      /\ kind \in Vp1 /\ ~c.geometry => copied
      /\ c.has
  <2>1. c.has
    BY <1>2 DEF c
  <2>2. CASE AllOff(c)
    BY <1>6, <2>2, <2>1 DEF Wanted
  <2>3. CASE ~AllOff(c)
    BY <1>4, <1>5, <2>1, <2>3 DEF Wanted, InCopy
  <2>4. QED
    BY <2>1, <2>2, <2>3
<1>9. QED
  BY <1>2, <1>4, <1>8 DEF c

\* No program is in use.
LEMMA RegInitInv == RegInit => RegInv
<1> SUFFICES ASSUME RegInit PROVE RegInv
  OBVIOUS
<1> USE DEF RegInit
<1>1. RegTypeOK
  BY DEF RegTypeOK, Fresh, NoImage, Image, Default, Unknown, Marks, Ways
<1>2. ImagesOK
  BY DEF ImagesOK, ImageSays, Fresh, NoImage, Vp0
<1>3. ModeKnown
  BY DEF ModeKnown, Fresh, Unknown
<1>4. PlainFollows
  BY DEF PlainFollows, VpKind, Fresh
<1>5. CurrentFollows
  <2>1. \A p : current # {p}
    OBVIOUS
  <2>2. QED
    BY <2>1 DEF CurrentFollows
<1>6. QED
  BY <1>1, <1>2, <1>3, <1>4, <1>5 DEF RegInv

\* A program used or linked anew has its register marked, and the mode too where
\* it may have changed.
LEMMA LinkInv ==
  ASSUME RegInv, NEW p \in RegPrograms, NEW geometry \in BOOLEAN, NEW has \in BOOLEAN, NEW v \in {0, 1},
         Link(p, geometry, has, v)
  PROVE  RegInv'
<1> DEFINE i == [linked |-> TRUE, geometry |-> geometry, has |-> has, value |-> v, lit |-> FALSE, lights |-> {}]
<1>1. /\ image' = [image EXCEPT ![p] = i] /\ i \in Image
      /\ UNCHANGED <<kind, current, cache, hardware, copied, vpMode, zbias, forced>>
      /\ missed' \in {missed, missed \ {"offset"}}
  BY DEF Link, Image
<1>2. IF current = {p}
      THEN marked' = TRUE /\ updMask' = updMask \cup {"attach", "detach", "trioffset", "rest"}
      ELSE UNCHANGED <<marked, updMask, missed>>
  BY DEF Link
<1>3. RegTypeOK'
  BY ZenonT(30), <1>1, <1>2 DEF RegInv, RegTypeOK, Marks, Concerns, Group
<1>4. image'[p] = i /\ \A q \in RegPrograms \ {p} : image'[q] = image[q]
  BY <1>1 DEF RegInv, RegTypeOK
<1>5. ImagesOK'
  <2>1. ImageSays(i)'
    BY <1>1 DEF Link, HasIt, ImageSays, Vp0
  <2>2. QED
    BY <1>1, <1>4, <2>1 DEF RegInv, ImagesOK, ImageSays
<1>6. ModeKnown' /\ PlainFollows'
  BY <1>1, <1>2 DEF RegInv, ModeKnown, PlainFollows, VpKind, Sure, Group
<1>7. CurrentFollows'
  <2> SUFFICES ASSUME NEW q \in RegPrograms, current' = {q}
               PROVE  /\ ModeFollows(image[q])' /\ CacheFollows(image[q])'
                      /\ NothingLeft(image[q])' /\ OffsetFollows(image[q])'
    BY DEF CurrentFollows
  <2>1. CASE q = p
    <3>1. marked' /\ {"attach", "detach", "trioffset"} \subseteq updMask'
      BY <1>1, <1>2, <2>1
    <3>2. QED
      BY <3>1 DEF ModeFollows, CacheFollows, NothingLeft, OffsetFollows, Cached
  <2>2. CASE q # p
    <3>1. image'[q] = image[q] /\ UNCHANGED <<marked, updMask, missed>>
      BY <1>1, <1>2, <1>4, <2>2
    <3>2. /\ ModeFollows(image[q]) /\ CacheFollows(image[q])
          /\ NothingLeft(image[q]) /\ OffsetFollows(image[q])
      BY <1>1 DEF RegInv, CurrentFollows
    <3>3. QED
      BY <1>1, <3>1, <3>2 DEF ModeFollows, CacheFollows, NothingLeft, OffsetFollows, Cached, InCopy, Sure,
                              Group, VpKind, Mode, AllOff
  <2>3. QED
    BY <2>1, <2>2
<1>8. QED
  BY <1>3, <1>5, <1>6, <1>7 DEF RegInv

\* The mode is marked if the programs differ in it, and the register always.
LEMMA UseInv ==
  ASSUME RegInv, NEW p \in RegPrograms, NEW another \in BOOLEAN, UseRegisters(p, another)
  PROVE  RegInv'
<1> DEFINE more == IF current = {} \/ another THEN {"attach", "detach"} ELSE Changed(Curr, image[p])
<1>1. /\ image[p].linked /\ current' = {p} /\ marked' = TRUE
      /\ updMask' = updMask \cup {"trioffset", "rest"} \cup more
      /\ missed' = missed \ {"offset"}
      /\ UNCHANGED <<kind, image, cache, hardware, copied, vpMode, zbias, forced>>
  BY DEF UseRegisters, Switched
<1>2. more \subseteq {"attach", "detach"}
  BY DEF Changed
<1> HIDE DEF more
<1>3. RegTypeOK'
  BY <1>1, <1>2 DEF RegInv, RegTypeOK, Marks, Concerns, Group
<1>4. ImagesOK'
  BY <1>1 DEF RegInv, ImagesOK, ImageSays
<1>5. ModeKnown' /\ PlainFollows'
  BY <1>1 DEF RegInv, ModeKnown, PlainFollows, VpKind, Sure, Group
<1>6. \/ {"attach", "detach"} \subseteq more
      \/ \E q \in RegPrograms : /\ current = {q}
                                /\ image[p].geometry /\ ~image[q].geometry => "attach" \in more
                                /\ image[q].geometry /\ ~image[p].geometry => "detach" \in more
  <2>1. CASE current = {} \/ another
    BY <2>1 DEF more
  <2>2. CASE ~(current = {} \/ another)
    <3>1. PICK q \in RegPrograms : current = {q}
      BY <2>2 DEF RegInv, RegTypeOK
    <3>2. more = Changed(image[q], image[p])
      BY <2>2, <3>1, CurrIs DEF more
    <3>3. QED
      BY <3>1, <3>2 DEF Changed
  <2>3. QED
    BY <2>1, <2>2
<1>7. ModeFollows(image[p])' /\ CacheFollows(image[p])'
  <2>1. CASE {"attach", "detach"} \subseteq more
    BY <1>1, <2>1 DEF ModeFollows, CacheFollows, Cached
  <2>2. ASSUME NEW q \in RegPrograms, current = {q},
               image[p].geometry /\ ~image[q].geometry => "attach" \in more,
               image[q].geometry /\ ~image[p].geometry => "detach" \in more
        PROVE  ModeFollows(image[p])' /\ CacheFollows(image[p])'
    <3>1. ModeFollows(image[q]) /\ CacheFollows(image[q]) /\ ImageSays(image[q]) /\ ImageSays(image[p]) /\ image[q].linked
      BY <2>2 DEF RegInv, CurrentFollows, ImagesOK
    <3>2. image[p].geometry \in BOOLEAN /\ image[q].geometry \in BOOLEAN
      BY DEF RegInv, RegTypeOK, Image
    <3> DEFINE c == image[q]
               d == image[p]
    <3>3. image'[p] = d
      BY <1>1
    <3> HIDE DEF c, d
    <3>4. ModeFollows(d)'
      BY <1>1, <2>2, <3>1, <3>2 DEF ModeFollows, Mode, VpKind, c, d
    <3>5. CacheFollows(d)'
      <4> SUFFICES ASSUME Sure', VpKind', Cached', d.has PROVE cache' = hardware' /\ InCopy(d)'
        BY <1>1 DEF CacheFollows, VpKind, d
      <4>1. Sure /\ VpKind /\ Cached
        BY <1>1 DEF Sure, VpKind, Cached, Group
      <4>2. (IF kind \in Vp0 THEN "attach" ELSE "detach") \notin more
        BY <1>1 DEF Cached
      <4>3. c.has
        BY <3>1, <3>2, <4>1, <4>2, <2>2, <1>1 DEF ImageSays, VpKind, Vp0, Vp1, c, d
      <4>4. cache = hardware /\ InCopy(c)
        BY <3>1, <4>1, <4>3 DEF CacheFollows, c
      <4>5. QED
        BY <1>1, <4>2, <4>4, <2>2, <3>2 DEF InCopy, Vp0, Vp1, c, d
    <3>6. QED
      BY <3>3, <3>4, <3>5 DEF d
  <2>3. QED
    BY <1>6, <2>1, <2>2
<1>8. NothingLeft(image[p])' /\ OffsetFollows(image[p])'
  BY <1>1 DEF NothingLeft, OffsetFollows
<1>9. CurrentFollows'
  <2> SUFFICES ASSUME NEW q \in RegPrograms, current' = {q} PROVE q = p
    BY <1>7, <1>8 DEF CurrentFollows
  <2>1. QED
    BY <1>1
<1>10. QED
  BY <1>3, <1>4, <1>5, <1>9 DEF RegInv

\* What is changed of the program in use.
LEMMA SetCurrIs ==
  ASSUME RegTypeOK, NEW p \in RegPrograms, current = {p}, NEW i \in Image, SetCurr(i)
  PROVE  /\ image' = [image EXCEPT ![p] = i] /\ image' \in [RegPrograms -> Image]
         /\ image'[p] = i /\ \A q \in RegPrograms \ {p} : image'[q] = image[q]
<1>1. (CHOOSE q \in {p} : TRUE) = p
  OBVIOUS
<1>2. image' = [image EXCEPT ![p] = i]
  BY <1>1 DEF SetCurr
<1>3. QED
  BY <1>2 DEF RegTypeOK

\* Without program nothing is validated; a force that is then dropped is noted.
LEMMA NoneInv ==
  ASSUME RegInv, UseNone \/ DrawNone
  PROVE  RegInv'
<1>1. /\ current' = {}
      /\ UNCHANGED <<kind, image, marked, cache, hardware, copied, vpMode, zbias>>
      /\ \/ UNCHANGED <<updMask, forced, missed>>
         \/ missed' = Dropped /\ updMask' = {} /\ forced' = {}
  BY DEF UseNone, DrawNone
<1>2. RegTypeOK'
  BY <1>1 DEF RegInv, RegTypeOK, Dropped, Ways, Concerns, Group
<1>3. ImagesOK'
  BY <1>1 DEF RegInv, ImagesOK, ImageSays
<1>4. ModeKnown' /\ PlainFollows'
  BY <1>1 DEF RegInv, ModeKnown, PlainFollows, VpKind, Sure, Group, Dropped
<1>5. CurrentFollows'
  <2>1. \A p : current' # {p}
    BY <1>1
  <2>2. QED
    BY <2>1 DEF CurrentFollows
<1>6. QED
  BY <1>2, <1>3, <1>4, <1>5 DEF RegInv

\* A uniform marks its register.
LEMMA UniformInv ==
  ASSUME RegInv, NEW v \in {0, 1}, VertexUniform(v) \/ FragmentUniform(v)
  PROVE  RegInv'
<1>1. PICK p \in RegPrograms : current = {p}
  BY DEF RegInv, RegTypeOK, VertexUniform, FragmentUniform
<1> DEFINE c == image[p]
           i == [c EXCEPT !.value = v]
<1>2. Curr = c /\ c \in Image
  BY <1>1, CurrIs DEF RegInv, RegTypeOK
<1>3. /\ i \in Image
      /\ i.linked = c.linked /\ i.geometry = c.geometry /\ i.has = c.has /\ i.lit = c.lit /\ i.lights = c.lights
  BY <1>2 DEF Image
<1>4. /\ SetCurr(i) /\ marked' = TRUE /\ kind \in {"bool0", "bool1", "fragment"}
      /\ \E mark \in {"uniform", "register"} : updMask' = updMask \cup {mark}
      /\ UNCHANGED <<kind, current, cache, hardware, copied, vpMode, zbias, forced, missed>>
  BY <1>2 DEF VertexUniform, FragmentUniform
<1> HIDE DEF i
<1>5. /\ image' \in [RegPrograms -> Image] /\ image'[p] = i
      /\ \A q \in RegPrograms \ {p} : image'[q] = image[q]
  BY <1>1, <1>3, <1>4, SetCurrIs DEF RegInv
<1>6. RegTypeOK'
  BY <1>4, <1>5 DEF RegInv, RegTypeOK, Marks, Concerns, Group
<1>7. ImagesOK'
  BY <1>3, <1>4, <1>5 DEF RegInv, ImagesOK, ImageSays
<1>8. ModeKnown' /\ PlainFollows'
  BY <1>4 DEF RegInv, ModeKnown, PlainFollows, VpKind, Sure, Group
<1>9. ModeFollows(c) /\ CacheFollows(c)
  BY <1>1 DEF RegInv, CurrentFollows
<1> HIDE DEF c
<1>10. ModeFollows(image[p])' /\ CacheFollows(image[p])'
  BY <1>3, <1>4, <1>5, <1>9 DEF ModeFollows, CacheFollows, VpKind, Mode, Sure, Group, Cached, InCopy
<1>11. NothingLeft(image[p])' /\ OffsetFollows(image[p])'
  BY <1>4 DEF NothingLeft, OffsetFollows
<1>12. CurrentFollows'
  BY <1>1, <1>4, <1>10, <1>11 DEF CurrentFollows
<1>13. QED
  BY <1>6, <1>7, <1>8, <1>12 DEF RegInv

\* What changes beside the value of the register is marked, or noted as unannounced.
LEMMA MarksInv ==
  ASSUME RegInv, NEW v \in {0, 1}, NEW mark \in {"uniform", "register"},
         OtherUniform(mark) \/ SetOffset(v) \/ Lighting \/ Light(v)
  PROVE  RegInv'
<1>1. /\ UNCHANGED <<kind, current, marked, cache, hardware, copied, vpMode, forced>>
      /\ updMask \subseteq updMask' /\ updMask' \subseteq Marks
      /\ missed \ {"offset"} \subseteq missed' /\ missed' \subseteq missed \cup {"light"}
      /\ zbias' \in {0, 1}
      /\ \/ UNCHANGED image
         \/ \E i : SetCurr(i) /\ kind = "light" /\ current # {}
  BY DEF RegInv, RegTypeOK, OtherUniform, SetOffset, Lighting, Light, Marks
<1>2. ASSUME NEW p \in RegPrograms, current = {p}
      PROVE  /\ image' \in [RegPrograms -> Image]
             /\ \A q \in RegPrograms \ {p} : image'[q] = image[q]
             /\ LET c == image[p]  d == image'[p] IN
                /\ d.linked = c.linked /\ d.geometry = c.geometry /\ d.has = c.has /\ d.value = c.value
                /\ kind = "light" \/ d = c
                /\ AllOff(d) = AllOff(c) \/ "register" \in updMask' \/ "light" \in missed'
  <2> DEFINE c == image[p]
  <2>1. Curr = c /\ c \in Image
    BY <1>2, CurrIs DEF RegInv, RegTypeOK
  <2>2. CASE UNCHANGED image
    BY <2>2 DEF RegInv, RegTypeOK
  <2>3. CASE Lighting
    <3> DEFINE i == [c EXCEPT !.lit = ~@]
    <3>1. SetCurr(i) /\ "register" \in updMask' /\ kind = "light"
      BY <2>1, <2>3 DEF Lighting
    <3>2. i \in Image /\ i.linked = c.linked /\ i.geometry = c.geometry /\ i.has = c.has /\ i.value = c.value
      BY <2>1 DEF Image
    <3> HIDE DEF i
    <3>3. QED
      BY <1>2, <3>1, <3>2, SetCurrIs DEF RegInv
  <2>4. CASE Light(v)
    <3> DEFINE lights == IF v \in c.lights THEN c.lights \ {v} ELSE c.lights \cup {v}
               i == [c EXCEPT !.lights = lights]
    <3>1. SetCurr(i) /\ kind = "light"
      BY <2>1, <2>4 DEF Light
    <3>2. "register" \in updMask' \/ "light" \in missed'
      BY <2>4 DEF Light
    <3>3. lights \in SUBSET {0, 1}
      BY <2>1 DEF Image
    <3> HIDE DEF lights
    <3>4. i \in Image /\ i.linked = c.linked /\ i.geometry = c.geometry /\ i.has = c.has /\ i.value = c.value
      BY <2>1, <3>3 DEF Image
    <3> HIDE DEF i
    <3>5. QED
      BY <1>2, <3>1, <3>2, <3>4, SetCurrIs DEF RegInv
  <2>5. QED
    BY <2>2, <2>3, <2>4 DEF OtherUniform, SetOffset
<1>3. UNCHANGED image \/ \E p \in RegPrograms : current = {p}
  BY <1>1 DEF RegInv, RegTypeOK
<1>4. /\ image' \in [RegPrograms -> Image]
      /\ \A q \in RegPrograms : /\ image'[q].linked = image[q].linked
                                /\ image'[q].geometry = image[q].geometry
                                /\ image'[q].has = image[q].has
  BY <1>2, <1>3 DEF RegInv, RegTypeOK
<1>5. RegTypeOK'
  BY <1>1, <1>4 DEF RegInv, RegTypeOK, Ways, Concerns, Group
<1>6. ImagesOK'
  BY <1>1, <1>4 DEF RegInv, ImagesOK, ImageSays
<1>7. ModeKnown' /\ PlainFollows'
  BY <1>1 DEF RegInv, ModeKnown, PlainFollows, VpKind, Sure, Group
<1>8. CurrentFollows'
  <2> SUFFICES ASSUME NEW p \in RegPrograms, current' = {p}
               PROVE  /\ ModeFollows(image[p])' /\ CacheFollows(image[p])'
                      /\ NothingLeft(image[p])' /\ OffsetFollows(image[p])'
    BY DEF CurrentFollows
  <2> DEFINE c == image[p]
             d == image'[p]
  <2>1. current = {p}
    BY <1>1
  <2>2. /\ d.linked = c.linked /\ d.geometry = c.geometry /\ d.has = c.has /\ d.value = c.value
        /\ kind = "light" \/ d = c
        /\ AllOff(d) = AllOff(c) \/ "register" \in updMask' \/ "light" \in missed'
    BY <1>2, <2>1
  <2>3. ModeFollows(c) /\ CacheFollows(c) /\ NothingLeft(c) /\ OffsetFollows(c)
    BY <2>1 DEF RegInv, CurrentFollows
  <2> HIDE DEF c
  <2>4. ModeFollows(image[p])' /\ CacheFollows(image[p])'
    BY <1>1, <2>2, <2>3 DEF ModeFollows, CacheFollows, VpKind, Mode, Sure, Group, Cached, InCopy
  <2>5. NothingLeft(image[p])'
    <3>1. AllOff(image[p])' = AllOff(d)
      BY <1>1 DEF AllOff
    <3>2. QED
      BY <1>1, <2>2, <2>3, <3>1 DEF NothingLeft
  <2>6. OffsetFollows(image[p])'
    <3>1. \/ zbias' = zbias /\ missed \subseteq missed'
          \/ "trioffset" \in updMask'
      BY DEF OtherUniform, SetOffset, Lighting, Light
    <3>2. QED
      BY <1>1, <2>2, <2>3, <3>1 DEF OffsetFollows
  <2>7. QED
    BY <2>4, <2>5, <2>6
<1>9. QED
  BY <1>5, <1>6, <1>7, <1>8 DEF RegInv

\* What a saved command list writes is forced to be validated.
LEMMA OverwriteInv ==
  ASSUME RegInv, NEW mask \in SUBSET Groups, OverwriteState(mask)
  PROVE  RegInv'
<1>1. /\ UNCHANGED <<kind, image, current, marked, cache, zbias, missed>>
      /\ IF Group \in mask THEN hardware' = Unknown /\ copied' = FALSE ELSE UNCHANGED <<hardware, copied>>
      /\ vpMode' = IF "mode" \in mask \cap Concerns THEN [vpMode EXCEPT !.real = Unknown] ELSE vpMode
      /\ updMask' = updMask \cup MarksOf(mask) /\ MarksOf(mask) \subseteq Marks
      /\ forced' = forced \cup (mask \cap Concerns)
  BY DEF OverwriteState, MarksOf, Marks
<1>2. RegTypeOK'
  BY <1>1 DEF RegInv, RegTypeOK, Unknown, Concerns, Group
<1>3. ImagesOK'
  BY <1>1 DEF RegInv, ImagesOK, ImageSays
<1>4. Sure' => Sure /\ UNCHANGED <<hardware, copied>>
  BY <1>1, KindIs DEF RegInv, Sure, Group
<1>5. ModeKnown'
  <2>1. CASE "mode" \in mask \cap Concerns
    <3>1. vpMode'.real = Unknown /\ "mode" \in forced' /\ {"attach", "detach"} \subseteq updMask'
      BY <1>1, <2>1 DEF RegInv, RegTypeOK, MarksOf
    <3>2. QED
      BY <3>1 DEF ModeKnown
  <2>2. CASE "mode" \notin mask \cap Concerns
    BY <1>1, <2>2 DEF RegInv, ModeKnown, VpKind
  <2>3. QED
    BY <2>1, <2>2
<1>6. PlainFollows'
  BY <1>1, <1>4 DEF RegInv, PlainFollows, VpKind
<1>7. CurrentFollows'
  <2> SUFFICES ASSUME NEW p \in RegPrograms, current' = {p}
               PROVE  /\ ModeFollows(image[p])' /\ CacheFollows(image[p])'
                      /\ NothingLeft(image[p])' /\ OffsetFollows(image[p])'
    BY DEF CurrentFollows
  <2> DEFINE c == image[p]
  <2>1. ModeFollows(c) /\ CacheFollows(c) /\ NothingLeft(c) /\ OffsetFollows(c)
    BY <1>1 DEF RegInv, CurrentFollows
  <2>2. vpMode'.known = vpMode.known
    BY <1>1 DEF RegInv, RegTypeOK
  <2>3. image'[p] = c /\ updMask \subseteq updMask'
    BY <1>1
  <2> HIDE DEF c
  <2>4. ModeFollows(image[p])'
    BY <1>1, <2>1, <2>2, <2>3 DEF ModeFollows, VpKind, Mode
  <2>5. CacheFollows(image[p])'
    BY <1>1, <1>4, <2>1, <2>3 DEF CacheFollows, Cached, InCopy, VpKind
  <2>6. NothingLeft(image[p])' /\ OffsetFollows(image[p])'
    BY <1>1, <2>1, <2>3 DEF NothingLeft, OffsetFollows, AllOff
  <2>7. QED
    BY <2>4, <2>5, <2>6
<1>8. QED
  BY <1>2, <1>3, <1>5, <1>6, <1>7 DEF RegInv

\* What validating the groups in mask may do to the marks and forces beside the register.
Validates(c, mask, full) ==
  /\ UNCHANGED <<kind, current, zbias>>
  /\ full => mask = Groups
  /\ SetMode(c, mask)
  /\ forced' \subseteq forced /\ forced \ mask \subseteq forced'
  /\ updMask' \subseteq Marks
  /\ "mode" \in mask => updMask' \cap {"attach", "detach"} = {}
  /\ "mode" \notin mask => updMask' \cap {"attach", "detach"} = updMask \cap {"attach", "detach"}
  /\ missed' \subseteq Ways

\* After a validation that regards the mode, or where it needs none, the processors are in the mode of
\* the program.
LEMMA ModeIsSet ==
  ASSUME RegInv, NEW p \in RegPrograms, current = {p}, NEW mask \in SUBSET Groups, NEW full \in BOOLEAN,
         Validates(image[p], mask, full), VpKind, "lost" \notin missed,
         "mode" \in mask \/ updMask \cap {"attach", "detach"} = {}
  PROVE  vpMode'.real = Mode(image[p])
<1> DEFINE c == image[p]
<1>1. ModeFollows(c) /\ ModeKnown /\ Mode(c) \in {0, 1}
  BY DEF RegInv, CurrentFollows, Mode
<1>2. "mode" \in Concerns
  BY KindIs DEF RegInv
<1>3. vpMode' = IF "mode" \in mask \cap Concerns /\ (vpMode.known # Mode(c) \/ "mode" \in forced)
                THEN [known |-> Mode(c), real |-> Mode(c)] ELSE vpMode
  BY DEF Validates, SetMode
<1> HIDE DEF c
<1>4. vpMode.real = Unknown => "mode" \in forced /\ {"attach", "detach"} \subseteq updMask
  BY <1>1 DEF ModeKnown
<1>5. vpMode.known = Mode(c) /\ vpMode.real # Unknown => vpMode.real = Mode(c)
  BY <1>1 DEF ModeKnown, Unknown
<1>6. vpMode.known # Mode(c) => updMask \cap {"attach", "detach"} # {}
  BY <1>1 DEF ModeFollows
<1>7. CASE "mode" \in mask /\ (vpMode.known # Mode(c) \/ "mode" \in forced)
  BY <1>2, <1>3, <1>7 DEF c
<1>8. CASE ~("mode" \in mask /\ (vpMode.known # Mode(c) \/ "mode" \in forced))
  <2>1. vpMode' = vpMode
    BY <1>3, <1>8
  <2>2. vpMode.known = Mode(c) /\ vpMode.real # Unknown
    BY <1>4, <1>6, <1>8
  <2>3. QED
    BY <1>5, <2>1, <2>2 DEF c
<1>9. QED
  BY <1>7, <1>8

\* A validation writes the register or finds it written; where it does neither, the mode had to
\* come first and did not.
LEMMA ValidatedInv ==
  ASSUME RegInv, NEW p \in RegPrograms, current = {p}, NEW mask \in SUBSET Groups, NEW full \in BOOLEAN,
         Validates(image[p], mask, full), WriteRegister(image[p], mask, full),
         missed' \cap {"lost", "early"} = StillMissed(image[p], mask, full) \cap {"lost", "early"}
  PROVE  /\ RegTypeOK' /\ ImagesOK' /\ ModeKnown' /\ PlainFollows'
         /\ ModeFollows(image[p])' /\ CacheFollows(image[p])'
<1> DEFINE c == image[p]
           value == NewValue(c, mask)
           written == IsWritten(c, mask, full)
           invalid == Invalidates(c, mask)
           touched == Touched(c, mask, full)
           i == [c EXCEPT !.value = value]
<1>1. c \in Image /\ value \in {0, 1} /\ ImageSays(c) /\ c.linked
  BY DEF RegInv, RegTypeOK, ImagesOK, Image, NewValue
<1>2. Curr = c
  BY CurrIs
<1>3. /\ i \in Image /\ i.value = value
      /\ i.linked = c.linked /\ i.geometry = c.geometry /\ i.has = c.has /\ i.lit = c.lit /\ i.lights = c.lights
  <2> HIDE DEF value
  <2> QED BY <1>1 DEF Image
<1>4. /\ SetCurr(i)
      /\ marked' = (touched /\ Group \notin mask)
      /\ cache' = IF written THEN value ELSE IF invalid THEN Flipped ELSE cache
      /\ hardware' = CASE kind \in Vp0 /\ vpMode'.real # 1 /\ WritesVp1(mask) -> Unknown
                       [] written -> value
                       [] OTHER -> hardware
      /\ copied' = IF written THEN vpMode'.real = 0 ELSE copied /\ ~c.geometry
  BY <1>2 DEF WriteRegister
<1>5. /\ UNCHANGED <<kind, current, zbias>> /\ (full => mask = Groups)
      /\ forced' \subseteq forced /\ forced \ mask \subseteq forced'
      /\ updMask' \subseteq Marks
      /\ "mode" \in mask => updMask' \cap {"attach", "detach"} = {}
      /\ "mode" \notin mask => updMask' \cap {"attach", "detach"} = updMask \cap {"attach", "detach"}
      /\ missed' \subseteq Ways
  BY DEF Validates
<1>6. /\ written => c.has /\ Group \in mask /\ touched
      /\ ~written /\ c.has /\ Group \in mask /\ touched => ~invalid /\ cache = value
  BY DEF IsWritten
<1>7. /\ c.has /\ Group \in mask \cap forced => invalid /\ touched
      /\ ~touched => ~marked /\ value = c.value
      /\ marked => touched
  BY DEF Touched, Invalidates
<1>8. /\ kind \in Vp0 /\ c.geometry /\ "mode" \in mask /\ "attach" \in updMask => invalid
      /\ kind \in Vp1 /\ "mode" \in mask /\ "detach" \in updMask => invalid
      /\ ~VpKind /\ ~(c.has /\ Group \in mask \cap forced) => ~invalid
  BY DEF Invalidates, VpKind
<1>9. ~full => touched = Touched(c, mask, FALSE)
  OBVIOUS
<1>10. /\ "lost" \in missed' \/ "early" \in missed'
          \/ missed \cap {"lost", "early"} = {} \/ (written /\ ("mode" \in Concerns => vpMode'.real = Mode(c)))
       /\ "early" \notin missed' => ~Early(c, mask)
       /\ "lost" \notin missed' => ~(Group \in mask \cap forced /\ ~c.has)
       /\ "lost" \in missed => "lost" \in missed' \/ (written /\ ("mode" \in Concerns => vpMode'.real = Mode(c)))
  BY DEF StillMissed
<1>11. vpMode' = IF "mode" \in mask \cap Concerns /\ (vpMode.known # Mode(c) \/ "mode" \in forced)
                 THEN [known |-> Mode(c), real |-> Mode(c)] ELSE vpMode
  BY DEF Validates, SetMode
<1>12. VpKind /\ "lost" \notin missed /\ ("mode" \in mask \/ updMask \cap {"attach", "detach"} = {})
          => vpMode'.real = Mode(c)
  BY ModeIsSet
<1>13. /\ kind \in AllKinds
       /\ Group \in {"program", "vertex", "fragment"} /\ Group \in Concerns
       /\ "mode" \in Concerns <=> VpKind
       /\ VpKind => Group # "fragment"
  BY KindIs DEF RegInv
<1>14. /\ image' \in [RegPrograms -> Image]
       /\ image'[p] = i /\ \A q \in RegPrograms \ {p} : image'[q] = image[q]
  <2> HIDE DEF i
  <2> QED BY <1>3, <1>4, SetCurrIs DEF RegInv
<1>15. /\ ModeFollows(c) /\ CacheFollows(c) /\ ModeKnown /\ PlainFollows
       /\ cache \in {0, 1, Flipped} /\ hardware \in {0, 1, Unknown} /\ copied \in BOOLEAN
       /\ vpMode \in [known : {0, 1, Unknown}, real : {0, 1, Unknown}]
       /\ Mode(c) \in {0, 1} /\ marked \in BOOLEAN /\ c.geometry \in BOOLEAN
  BY <1>1 DEF RegInv, RegTypeOK, CurrentFollows, Mode, Image
<1> HIDE DEF c, value, written, invalid, touched, i
<1>16. RegTypeOK'
  <2>1. kind' \in Kinds /\ (current' = {} \/ \E q \in RegPrograms : current' = {q}) /\ zbias' \in {0, 1}
    BY <1>5 DEF RegInv, RegTypeOK
  <2>2. marked' \in BOOLEAN /\ cache' \in {0, 1, Flipped} /\ copied' \in BOOLEAN
    BY <1>1, <1>4, <1>15
  <2>3. hardware' \in {0, 1, Unknown}
    BY <1>1, <1>4, <1>15
  <2>4. vpMode' \in [known : {0, 1, Unknown}, real : {0, 1, Unknown}]
    BY <1>11, <1>15
  <2>5. forced' \subseteq Concerns'
    BY <1>5 DEF RegInv, RegTypeOK, Concerns, Group
  <2>6. QED
    BY <1>5, <1>14, <2>1, <2>2, <2>3, <2>4, <2>5 DEF RegTypeOK
<1>17. ImagesOK'
  BY <1>3, <1>5, <1>14 DEF RegInv, ImagesOK, ImageSays, c
<1>18. ModeKnown'
  <2> SUFFICES ASSUME VpKind
               PROVE  /\ vpMode'.real \in {vpMode'.known, Unknown} \/ vpMode' = [known |-> Unknown, real |-> 0]
                      /\ vpMode'.real = Unknown => \/ "lost" \in missed'
                                                   \/ "mode" \in forced' /\ {"attach", "detach"} \subseteq updMask'
    BY <1>5 DEF ModeKnown, VpKind
  <2>1. vpMode'.real \in {vpMode'.known, Unknown} \/ vpMode' = [known |-> Unknown, real |-> 0]
    BY <1>11, <1>15 DEF ModeKnown
  <2>2. ASSUME vpMode'.real = Unknown, "lost" \notin missed'
        PROVE  "mode" \in forced' /\ {"attach", "detach"} \subseteq updMask'
    <3>1. vpMode'.real # Mode(c)
      BY <1>15, <2>2 DEF Unknown
    <3>2. "lost" \notin missed
      BY <1>10, <1>13, <2>2, <3>1
    <3>3. "mode" \notin mask /\ vpMode' = vpMode
      BY <1>11, <1>12, <3>1, <3>2
    <3>4. "mode" \in forced /\ {"attach", "detach"} \subseteq updMask
      BY <1>15, <2>2, <3>2, <3>3 DEF ModeKnown
    <3>5. QED
      BY <1>5, <3>3, <3>4
  <2>3. QED
    BY <2>1, <2>2
<1>19. ASSUME Sure', ~written PROVE Sure /\ ~(Group \in mask \cap forced)
  <2>1. "lost" \notin missed' /\ "early" \notin missed' /\ Group \notin forced'
    BY <1>5, <1>19 DEF Sure, Group
  <2>2. missed \cap {"lost", "early"} = {}
    BY <1>10, <1>19, <2>1
  <2>3. ~(Group \in mask \cap forced)
    BY <1>6, <1>7, <1>10, <1>19, <2>1
  <2>4. QED
    BY <1>5, <2>1, <2>2, <2>3 DEF Sure
<1>20. PlainFollows'
  <2> SUFFICES ASSUME ~VpKind, Sure' PROVE cache' = hardware'
    BY <1>5 DEF PlainFollows, VpKind
  <2>1. kind \notin Vp0
    BY DEF VpKind
  <2>2. CASE written
    BY <1>4, <2>1, <2>2
  <2>3. CASE ~written
    BY <1>4, <1>8, <1>15, <1>19, <2>1, <2>3 DEF PlainFollows
  <2>4. QED
    BY <2>2, <2>3
<1>21. ModeFollows(image[p])'
  <2> SUFFICES ASSUME VpKind, vpMode'.known # Mode(i)
               PROVE (IF i.geometry THEN "attach" ELSE "detach") \in updMask'
    BY <1>5, <1>14 DEF ModeFollows, VpKind, Mode
  <2>1. Mode(i) = Mode(c)
    BY <1>3 DEF Mode
  <2>2. "mode" \notin mask /\ vpMode' = vpMode
    BY <1>11, <1>13, <2>1
  <2>3. QED
    BY <1>3, <1>5, <1>15, <2>1, <2>2 DEF ModeFollows
<1>22. CacheFollows(image[p])'
  <2> SUFFICES ASSUME c.has, Sure'
               PROVE  /\ VpKind /\ Cached' => cache' = hardware' /\ InCopy(image[p])'
                      /\ ~marked' => hardware' = value /\ InCopy(image[p])'
    BY <1>3, <1>5, <1>14 DEF CacheFollows, VpKind, InCopy
  <2>1. ~Early(c, mask)
    BY <1>10 DEF Sure
  <2>2. ASSUME VpKind, (kind \in Vp0 /\ WritesVp1(mask)) \/ (Group \in mask /\ touched)
        PROVE  "mode" \in mask \/ updMask \cap {"attach", "detach"} = {}
    <3>1. CASE full
      BY <1>5, <3>1 DEF Groups
    <3>2. CASE ~full
      <4>1. kind \in Vp1 => ~(Group \in mask /\ touched /\ "mode" \notin mask /\ updMask \cap {"attach", "detach"} # {})
        BY <1>9, <2>1, <3>2 DEF Early, touched, c
      <4>2. Group \in mask => WritesVp1(mask)
        BY <1>13, <2>2 DEF WritesVp1
      <4>3. kind \in Vp0 => ~(WritesVp1(mask) /\ "mode" \notin mask /\ updMask \cap {"attach", "detach"} # {})
        BY <2>1 DEF Early
      <4>4. QED
        BY <2>2, <4>1, <4>2, <4>3 DEF VpKind
    <3>3. QED
      BY <3>1, <3>2
  <2>3. kind \in Vp0 => c.geometry
    BY <1>1 DEF ImageSays
  <2>4. VpKind /\ missed \cap {"lost", "early"} = {}
          /\ ((kind \in Vp0 /\ WritesVp1(mask)) \/ (Group \in mask /\ touched)) => vpMode'.real = Mode(c)
    BY <1>12, <2>2
  <2>5. CASE written
    <3>1. VpKind => vpMode'.real = Mode(c)
      BY <1>6, <1>10, <1>13, <2>4, <2>5 DEF Sure
    <3>2. kind \in Vp0 => vpMode'.real = 1
      BY <2>3, <3>1 DEF VpKind, Mode
    <3>3. cache' = value /\ hardware' = value
      BY <1>4, <2>5, <3>2
    <3>4. InCopy(image[p])'
      <4>1. kind \in Vp1 /\ ~c.geometry => copied'
        BY <1>4, <2>5, <3>1 DEF VpKind, Mode
      <4>2. QED
        BY <1>3, <1>5, <1>14, <4>1 DEF InCopy
    <3>5. QED
      BY <3>3, <3>4
  <2>6. CASE ~written
    <3>1. Sure /\ ~(Group \in mask \cap forced) /\ missed \cap {"lost", "early"} = {}
      BY <1>19, <2>6 DEF Sure
    <3>2. kind \in Vp0 /\ WritesVp1(mask) => vpMode'.real = 1
      BY <2>3, <2>4, <3>1 DEF VpKind, Mode
    <3>3. hardware' = hardware /\ cache' = IF invalid THEN Flipped ELSE cache
      BY <1>4, <2>6, <3>2
    <3>4. InCopy(c) => InCopy(image[p])'
      <4>1. InCopy(c) => (kind \in Vp1 /\ ~c.geometry => copied')
        BY <1>4, <2>6 DEF InCopy
      <4>2. QED
        BY <1>3, <1>5, <1>14, <4>1 DEF InCopy
    <3>5. /\ VpKind /\ Cached => cache = hardware /\ InCopy(c)
          /\ ~marked => hardware = c.value /\ InCopy(c)
      BY <1>15, <3>1 DEF CacheFollows
    <3>6. VpKind /\ ~invalid /\ "mode" \in mask => (IF kind \in Vp0 THEN "attach" ELSE "detach") \notin updMask
      BY <1>8, <2>3 DEF VpKind
    <3>7. ASSUME VpKind, Cached' PROVE cache' = hardware' /\ InCopy(image[p])'
      <4>1. ~invalid /\ cache # Flipped
        BY <3>3, <3>7 DEF Cached
      <4>2. Cached
        BY <1>5, <3>6, <3>7, <4>1 DEF Cached
      <4>3. QED
        BY <3>3, <3>4, <3>5, <3>7, <4>1, <4>2
    <3>8. ASSUME ~marked' PROVE hardware' = value /\ InCopy(image[p])'
      <4>1. CASE ~touched
        BY <1>7, <3>3, <3>4, <3>5, <4>1
      <4>2. CASE touched
        <5>1. Group \in mask /\ ~invalid /\ cache = value
          BY <1>4, <1>6, <2>6, <3>8, <4>2
        <5>2. CASE VpKind
          <6>1. Cached
            <7>1. cache # Flipped
              BY <1>1, <5>1 DEF Flipped
            <7>2. "mode" \in mask \/ updMask \cap {"attach", "detach"} = {}
              BY <2>2, <4>2, <5>1, <5>2
            <7>3. QED
              BY <3>6, <5>1, <5>2, <7>1, <7>2 DEF Cached
          <6>2. QED
            BY <3>3, <3>4, <3>5, <5>1, <5>2, <6>1
        <5>3. CASE ~VpKind
          <6>1. cache = hardware /\ kind \notin Vp1
            BY <1>15, <3>1, <5>3 DEF PlainFollows, VpKind
          <6>2. QED
            BY <1>5, <3>3, <5>1, <6>1 DEF InCopy
        <5>4. QED
          BY <5>2, <5>3
      <4>3. QED
        BY <4>1, <4>2
    <3>9. QED
      BY <3>7, <3>8
  <2>7. QED
    BY <2>5, <2>6
<1>23. QED
  BY <1>16, <1>17, <1>18, <1>20, <1>21, <1>22

\* nngxValidateState: what it leaves marked is noted when nothing is to be validated any more.
LEMMA ValidateStateInv ==
  ASSUME RegInv, NEW mask \in SUBSET Groups, ValidateState(mask)
  PROVE  RegInv'
<1>1. PICK p \in RegPrograms : current = {p}
  BY DEF RegInv, RegTypeOK, ValidateState
<1> DEFINE c == image[p]
           value == NewValue(c, mask)
<1>2. Curr = c
  BY <1>1, CurrIs
<1>3. /\ SetMode(c, mask) /\ WriteRegister(c, mask, FALSE)
      /\ updMask' = (updMask \cup (IF value # c.value THEN {"register"} ELSE {})) \ ClearedBy(mask)
      /\ forced' = forced \ mask
      /\ missed' = (StillMissed(c, mask, FALSE) \ {"left"})
                     \cup (IF marked' /\ updMask' = {} THEN {"left"} ELSE {})
                     \cup (IF AllOff(c) /\ "fragment" \in mask THEN {"light"} ELSE {})
      /\ UNCHANGED <<kind, current, zbias>>
  BY <1>2 DEF ValidateState
<1>4. /\ "mode" \in mask => {"attach", "detach"} \subseteq ClearedBy(mask)
      /\ "mode" \notin mask => {"attach", "detach"} \cap ClearedBy(mask) = {}
      /\ "fragment" \notin mask => "register" \notin ClearedBy(mask)
      /\ "trioffset" \notin mask => "trioffset" \notin ClearedBy(mask)
  BY DEF ClearedBy
<1>5. StillMissed(c, mask, FALSE) \subseteq Ways
  BY DEF StillMissed, RegInv, RegTypeOK, Ways
<1> HIDE DEF c, value
<1>6. updMask' \subseteq Marks
  BY <1>3 DEF RegInv, RegTypeOK, Marks
<1>7. Validates(c, mask, FALSE)
  BY <1>3, <1>4, <1>5, <1>6 DEF Validates, Ways
<1>8. missed' \cap {"lost", "early"} = StillMissed(c, mask, FALSE) \cap {"lost", "early"}
  BY <1>3
<1>9. /\ RegTypeOK' /\ ImagesOK' /\ ModeKnown' /\ PlainFollows'
      /\ ModeFollows(image[p])' /\ CacheFollows(image[p])'
  BY <1>1, <1>3, <1>7, <1>8, ValidatedInv DEF c
<1>10. /\ image'[p] = [c EXCEPT !.value = value]
       /\ marked' = (Touched(c, mask, FALSE) /\ Group \notin mask)
       /\ cache' = IF IsWritten(c, mask, FALSE) THEN value ELSE IF Invalidates(c, mask) THEN Flipped ELSE cache
  <2>1. [c EXCEPT !.value = value] \in Image
    <3>1. c \in Image /\ value \in {0, 1}
      BY DEF c, value, NewValue, RegInv, RegTypeOK, Image
    <3>2. QED
      BY <3>1 DEF Image
  <2>2. SetCurr([c EXCEPT !.value = value])
    BY <1>3 DEF WriteRegister, value
  <2>3. image'[p] = [c EXCEPT !.value = value]
    BY <1>1, <2>1, <2>2, SetCurrIs DEF RegInv
  <2>4. QED
    BY <1>3, <2>3 DEF WriteRegister, value
<1>11. c \in Image
  BY DEF c, RegInv, RegTypeOK
<1>12. NothingLeft(image[p])'
  <2>1. updMask' = {} /\ marked' => "left" \in missed'
    BY <1>3
  <2>2. AllOff(image[p])' <=> AllOff(c)
    BY <1>3, <1>10, <1>11 DEF AllOff, Image
  <2>3. ASSUME AllOff(c), "fragment" \notin mask
        PROVE  cache' = 0 \/ "light" \in missed' \/ "register" \in updMask' \/ marked'
    <3>1. Group \notin mask /\ kind \notin Vp0 /\ kind \notin Vp1
      BY <2>3 DEF AllOff, Group, Vp0, Vp1
    <3>2. cache' = cache
      BY <1>10, <3>1 DEF IsWritten, Invalidates
    <3>3. marked => marked'
      BY <1>10, <3>1 DEF Touched
    <3>4. "light" \in missed => "light" \in missed'
      BY <1>3 DEF StillMissed
    <3>5. "register" \in updMask => "register" \in updMask'
      BY <1>3, <1>4, <2>3
    <3>6. NothingLeft(c)
      BY <1>1 DEF RegInv, CurrentFollows, c
    <3>7. QED
      BY <2>3, <3>2, <3>3, <3>4, <3>5, <3>6 DEF NothingLeft
  <2>4. AllOff(c) /\ "fragment" \in mask => "light" \in missed'
    BY <1>3
  <2>5. QED
    BY <2>1, <2>2, <2>3, <2>4 DEF NothingLeft
<1>13. OffsetFollows(image[p])'
  <2> SUFFICES ASSUME kind = "zbias", value # zbias PROVE "trioffset" \in updMask' \/ "offset" \in missed'
    BY <1>3, <1>10, <1>11 DEF OffsetFollows, Image
  <2>1. OffsetFollows(c)
    BY <1>1 DEF RegInv, CurrentFollows, c
  <2>2. ("trioffset" \in updMask /\ "trioffset" \notin mask) \/ "offset" \in missed
    BY <2>1 DEF OffsetFollows, value, NewValue
  <2>3. "offset" \in missed => "offset" \in missed'
    BY <1>3 DEF StillMissed
  <2>4. QED
    BY <1>3, <1>4, <2>2, <2>3
<1>14. CurrentFollows'
  BY <1>1, <1>3, <1>9, <1>12, <1>13 DEF CurrentFollows
<1>15. QED
  BY <1>9, <1>14 DEF RegInv

\* A draw call validates everything, or finds nothing marked.
LEMMA DrawInv ==
  ASSUME RegInv, NEW nothing \in BOOLEAN, Draw(nothing)
  PROVE  RegInv'
<1>1. PICK p \in RegPrograms : current = {p}
  BY DEF RegInv, RegTypeOK, Draw
<1> DEFINE c == image[p]
           value == NewValue(c, Groups)
<1>2. Curr = c
  BY <1>1, CurrIs
<1>3. /\ updMask' = {} /\ forced' = IF nothing THEN forced ELSE {}
      /\ UNCHANGED <<kind, current, zbias>>
  BY DEF Draw
<1>4. c \in Image /\ ModeFollows(c) /\ CacheFollows(c) /\ NothingLeft(c) /\ OffsetFollows(c)
  BY <1>1 DEF RegInv, RegTypeOK, CurrentFollows
<1>5. CASE updMask = {} /\ ~c.geometry
  <2>1. /\ missed' = IF nothing THEN missed ELSE Dropped
        /\ UNCHANGED <<image, marked, cache, hardware, copied, vpMode>>
    BY <1>2, <1>5 DEF Draw
  <2>2. RegTypeOK'
    BY <1>3, <2>1 DEF RegInv, RegTypeOK, Dropped, Ways, Marks, Concerns, Group
  <2>3. ImagesOK'
    BY <1>3, <2>1 DEF RegInv, ImagesOK, ImageSays
  <2>4. missed \subseteq missed' /\ (Sure' => Sure) /\ missed' \subseteq missed \cup {"lost"}
    BY <1>3, <2>1 DEF Sure, Dropped, Group
  <2>5. ModeKnown'
    BY <1>3, <1>5, <2>1, <2>4 DEF RegInv, ModeKnown, VpKind
  <2>6. PlainFollows'
    BY <1>3, <2>1, <2>4 DEF RegInv, PlainFollows, VpKind
  <2>7. image'[p] = c
    BY <2>1
  <2> HIDE DEF c
  <2>8. ModeFollows(image[p])' /\ CacheFollows(image[p])'
    BY <1>3, <1>4, <1>5, <2>1, <2>4, <2>7 DEF ModeFollows, CacheFollows, VpKind, Cached, InCopy, Mode
  <2>9. NothingLeft(image[p])' /\ OffsetFollows(image[p])'
    BY <1>3, <1>4, <1>5, <2>1, <2>4, <2>7 DEF NothingLeft, OffsetFollows, AllOff
  <2>10. CurrentFollows'
    BY <1>1, <1>3, <2>8, <2>9 DEF CurrentFollows
  <2>11. QED
    BY <2>2, <2>3, <2>5, <2>6, <2>10 DEF RegInv
<1>6. CASE ~(updMask = {} /\ ~c.geometry) /\ AllOff(c)
  <2>1. /\ SetMode(c, Groups) /\ cache' = 0 /\ hardware' = 0 /\ marked' = TRUE /\ UNCHANGED <<image, copied>>
        /\ missed' = StillMissed(c, Groups, TRUE) \ {"left", "light"}
    BY <1>2, <1>6 DEF Draw, PutOut
  <2>2. kind = "light" /\ ~VpKind /\ kind \notin Vp0 /\ kind \notin Vp1
    BY <1>6 DEF AllOff, VpKind, Vp0, Vp1
  <2>3. vpMode' = vpMode
    BY <2>1, <2>2, KindIs DEF RegInv, SetMode
  <2>4. StillMissed(c, Groups, TRUE) \subseteq Ways
    BY DEF StillMissed, RegInv, RegTypeOK, Ways
  <2>5. RegTypeOK'
    BY <1>3, <2>1, <2>3, <2>4 DEF RegInv, RegTypeOK, Ways, Marks, Concerns, Group
  <2>6. ImagesOK'
    BY <1>3, <2>1 DEF RegInv, ImagesOK, ImageSays
  <2>7. ModeKnown' /\ PlainFollows'
    BY <1>3, <2>1, <2>2 DEF ModeKnown, PlainFollows, VpKind
  <2>8. image'[p] = c
    BY <2>1
  <2> HIDE DEF c
  <2>9. ModeFollows(image[p])' /\ CacheFollows(image[p])'
    BY <1>3, <2>1, <2>2 DEF ModeFollows, CacheFollows, VpKind
  <2>10. NothingLeft(image[p])' /\ OffsetFollows(image[p])'
    BY <1>3, <1>6, <2>1, <2>2, <2>8 DEF NothingLeft, OffsetFollows, AllOff
  <2>11. CurrentFollows'
    BY <1>1, <1>3, <2>9, <2>10 DEF CurrentFollows
  <2>12. QED
    BY <2>5, <2>6, <2>7, <2>11 DEF RegInv
<1>7. CASE ~(updMask = {} /\ ~c.geometry) /\ ~AllOff(c)
  <2>1. /\ SetMode(c, Groups) /\ WriteRegister(c, Groups, TRUE)
        /\ missed' = StillMissed(c, Groups, TRUE) \ {"left", "light"}
    BY <1>2, <1>7 DEF Draw
  <2>2. StillMissed(c, Groups, TRUE) \subseteq Ways
    BY DEF StillMissed, RegInv, RegTypeOK, Ways
  <2>3. forced \subseteq Groups
    BY DEF RegInv, RegTypeOK, Concerns, Group, Groups
  <2> HIDE DEF c, value
  <2>4. Validates(c, Groups, TRUE)
    BY <1>3, <2>1, <2>2, <2>3 DEF Validates, Marks, Groups
  <2>5. missed' \cap {"lost", "early"} = StillMissed(c, Groups, TRUE) \cap {"lost", "early"}
    BY <2>1
  <2>6. /\ RegTypeOK' /\ ImagesOK' /\ ModeKnown' /\ PlainFollows'
        /\ ModeFollows(image[p])' /\ CacheFollows(image[p])'
    <3>1. Groups \in SUBSET Groups /\ TRUE \in BOOLEAN
      OBVIOUS
    <3>2. QED
      BY <1>1, <2>1, <2>4, <2>5, <3>1, ValidatedInv DEF c
  <2>7. image'[p] = [c EXCEPT !.value = value]
    <3>1. [c EXCEPT !.value = value] \in Image
      <4>1. value \in {0, 1}
        BY <1>4 DEF c, value, NewValue, RegInv, RegTypeOK, Image
      <4>2. QED
        BY <1>4, <4>1 DEF Image
    <3>2. SetCurr([c EXCEPT !.value = value])
      BY <2>1 DEF WriteRegister, value
    <3>3. QED
      BY <1>1, <3>1, <3>2, SetCurrIs DEF RegInv
  <2>8. marked' = FALSE
    BY <2>1, KindIs DEF WriteRegister, RegInv, Groups
  <2>9. NothingLeft(image[p])'
    <3>1. ~AllOff(image[p])'
      BY <1>3, <1>4, <1>7, <2>7 DEF AllOff, Image
    <3>2. QED
      BY <2>8, <3>1 DEF NothingLeft
  <2>10. OffsetFollows(image[p])'
    <3> SUFFICES ASSUME kind = "zbias" PROVE value = zbias \/ "offset" \in missed'
      BY <1>3, <1>4, <2>7 DEF OffsetFollows, Image
    <3>1. value = zbias \/ "offset" \in missed
      BY <1>4 DEF OffsetFollows, value, NewValue, Groups
    <3>2. QED
      BY <2>1, <3>1 DEF StillMissed
  <2>11. CurrentFollows'
    BY <1>1, <1>3, <2>6, <2>9, <2>10 DEF CurrentFollows
  <2>12. QED
    BY <2>6, <2>11 DEF RegInv
<1>8. QED
  BY <1>5, <1>6, <1>7

\* glDrawArrays that is refused: the mode is that of the program; what is not made of the
\* register has a name.
LEMMA RefusedInv ==
  ASSUME RegInv, NEW nothing \in BOOLEAN, DrawRefused(nothing)
  PROVE  RegInv'
<1>1. PICK p \in RegPrograms : current = {p}
  BY DEF RegInv, RegTypeOK, DrawRefused
<1> DEFINE c == image[p]
<1>2. Curr = c
  BY <1>1, CurrIs
<1>3. /\ updMask' = {} /\ forced' = IF nothing THEN forced ELSE {}
      /\ UNCHANGED <<kind, image, current, hardware, copied, zbias>>
      /\ SetMode(c, Groups)
      /\ missed' = (IF nothing THEN missed ELSE Dropped) \cup Unmade \cup (IF marked' THEN {"left"} ELSE {})
      /\ IF kind = "bool0" THEN cache' = Flipped /\ marked' = TRUE ELSE UNCHANGED <<cache, marked>>
  BY <1>2 DEF DrawRefused
<1>4. c \in Image /\ ModeFollows(c) /\ CacheFollows(c) /\ NothingLeft(c) /\ OffsetFollows(c)
  BY <1>1 DEF RegInv, RegTypeOK, CurrentFollows
<1>5. /\ "mode" \in Concerns <=> VpKind
      /\ Group \in Concerns
  BY KindIs DEF RegInv
<1>6. /\ missed \subseteq missed' /\ Unmade \subseteq missed' /\ missed' \subseteq Ways
      /\ Sure' => Sure
  BY <1>3, <1>5 DEF Sure, Dropped, Group, Unmade, Ways, RegInv, RegTypeOK
<1> HIDE DEF c
<1>7. /\ vpMode' \in [known : {0, 1, Unknown}, real : {0, 1, Unknown}]
      /\ VpKind => vpMode'.known = Mode(c)
      /\ vpMode' = vpMode \/ vpMode'.real = vpMode'.known
      /\ VpKind /\ vpMode' = vpMode => "mode" \notin forced \/ vpMode.real = vpMode.known
  <2>1. Mode(c) \in {0, 1}
    BY DEF Mode
  <2>2. "mode" \in Groups
    BY DEF Groups
  <2>3. CASE VpKind /\ (vpMode.known # Mode(c) \/ "mode" \in forced)
    <3>1. vpMode' = [known |-> Mode(c), real |-> Mode(c)]
      BY <1>3, <1>5, <2>2, <2>3 DEF SetMode
    <3>2. QED
      BY <2>1, <3>1
  <2>4. CASE ~(VpKind /\ (vpMode.known # Mode(c) \/ "mode" \in forced))
    <3>1. vpMode' = vpMode
      BY <1>3, <1>5, <2>2, <2>4 DEF SetMode
    <3>2. QED
      BY <2>4, <3>1 DEF RegInv, RegTypeOK
  <2>5. QED
    BY <2>3, <2>4
<1>8. RegTypeOK'
  BY <1>3, <1>6, <1>7 DEF RegInv, RegTypeOK, Marks, Concerns, Group
<1>9. ImagesOK'
  BY <1>3 DEF RegInv, ImagesOK, ImageSays
<1>10. ModeKnown'
  <2> SUFFICES ASSUME VpKind
               PROVE  /\ vpMode'.real \in {vpMode'.known, Unknown} \/ vpMode' = [known |-> Unknown, real |-> 0]
                      /\ "lost" \in missed'
    BY <1>3 DEF ModeKnown, VpKind
  <2>1. "lost" \in missed'
    BY <1>5, <1>6 DEF Unmade, VpKind, Vp0, Vp1
  <2>2. QED
    BY <1>7, <2>1 DEF RegInv, ModeKnown
<1>11. PlainFollows'
  BY <1>3, <1>6 DEF RegInv, PlainFollows, VpKind, Vp0
<1>12. image'[p] = c
  BY <1>3 DEF c
<1>13. ModeFollows(image[p])'
  BY <1>3, <1>7, <1>12 DEF ModeFollows, VpKind, Mode
<1>14. CacheFollows(image[p])'
  <2>1. CASE VpKind
    BY <1>5, <1>6, <2>1 DEF CacheFollows, Sure, Unmade, VpKind, Vp0, Vp1
  <2>2. CASE ~VpKind
    BY <1>3, <1>4, <1>6, <1>12, <2>2 DEF CacheFollows, InCopy, VpKind, Vp0, Vp1
  <2>3. QED
    BY <2>1, <2>2
<1>15. NothingLeft(image[p])'
  <2>1. kind = "light" => "light" \in missed'
    BY <1>5, <1>6 DEF Unmade, VpKind, Vp0, Vp1
  <2>2. marked' => "left" \in missed'
    BY <1>3
  <2>3. QED
    BY <1>3, <2>1, <2>2 DEF NothingLeft, AllOff
<1>16. OffsetFollows(image[p])'
  <2>1. kind = "zbias" => "offset" \in missed'
    BY <1>5, <1>6 DEF Unmade, VpKind, Vp0, Vp1
  <2>2. QED
    BY <1>3, <2>1 DEF OffsetFollows
<1>17. CurrentFollows'
  BY <1>1, <1>3, <1>13, <1>14, <1>15, <1>16 DEF CurrentFollows
<1>18. QED
  BY <1>8, <1>9, <1>10, <1>11, <1>17 DEF RegInv

\* Every step of the registers keeps the invariant.
LEMMA RegNextInv == RegInv /\ [RegNext]_regVars => RegInv'
<1> SUFFICES ASSUME RegInv, [RegNext]_regVars PROVE RegInv'
  OBVIOUS
<1>1. ASSUME NEW p \in RegPrograms, NEW geometry \in BOOLEAN, NEW has \in BOOLEAN, NEW v \in {0, 1},
             Link(p, geometry, has, v)
      PROVE  RegInv'
  BY <1>1, LinkInv
<1>2. ASSUME NEW p \in RegPrograms, NEW another \in BOOLEAN, UseRegisters(p, another) PROVE RegInv'
  BY <1>2, UseInv
<1>3. CASE UseNone \/ DrawNone
  BY <1>3, NoneInv
<1>4. ASSUME NEW v \in {0, 1}, VertexUniform(v) \/ FragmentUniform(v) PROVE RegInv'
  BY <1>4, UniformInv
<1>5. ASSUME NEW v \in {0, 1}, NEW mark \in {"uniform", "register"},
             OtherUniform(mark) \/ SetOffset(v) \/ Lighting \/ Light(v)
      PROVE  RegInv'
  BY <1>5, MarksInv
<1>6. ASSUME NEW nothing \in BOOLEAN, Draw(nothing) \/ DrawRefused(nothing) PROVE RegInv'
  BY <1>6, DrawInv, RefusedInv
<1>7. ASSUME NEW mask \in StateMasks, ValidateState(mask) \/ OverwriteState(mask) PROVE RegInv'
  <2>1. mask \in SUBSET Groups
    BY RegisterAssumption
  <2>2. QED
    BY <1>7, <2>1, ValidateStateInv, OverwriteInv
<1>8. CASE UNCHANGED regVars
  <2> USE <1>8 DEF regVars
  <2>1. RegTypeOK'
    BY DEF RegInv, RegTypeOK, Concerns, Group
  <2>2. ImagesOK' /\ ModeKnown' /\ PlainFollows'
    BY DEF RegInv, ImagesOK, ImageSays, ModeKnown, PlainFollows, VpKind, Sure, Group
  <2>3. CurrentFollows'
    BY DEF RegInv, CurrentFollows, ModeFollows, CacheFollows, NothingLeft, OffsetFollows, VpKind, Mode, Sure,
           Group, Cached, InCopy, AllOff
  <2>4. QED
    BY <2>1, <2>2, <2>3 DEF RegInv
<1>9. QED
  <2>1. CASE RegNext
    <3>1. 0 \in {0, 1} /\ 1 \in {0, 1} /\ "register" \in {"uniform", "register"}
      OBVIOUS
    <3>2. QED
      BY <1>1, <1>2, <1>3, <1>4, <1>5, <1>6, <1>7, <2>1, <3>1 DEF RegNext
  <2>2. QED
    BY <1>8, <2>1

\* The invariant holds in every state.
LEMMA RegInvariance == RegSpec => []RegInv
BY RegInitInv, RegNextInv, PTL DEF RegSpec

\* Whatever programs are linked and used, whatever is set, drawn, validated and written by
\* saved command lists: with nothing marked for validation the register holds what the program in use
\* wants, but for the named ways in which the code misses it (__shv_validate and what marks for it).
THEOREM RegistersAreRight == RegSpec => []RegistersFollow
BY RegInvariance, InvSuffices, PTL

------------------------------------------------------------------------------
(* Sums of sizes. *)

\* Induction, of a set of natural numbers.
LEMMA AllNaturals ==
    ASSUME NEW S \in SUBSET Nat, 0 \in S, \A n \in S : n + 1 \in S
    PROVE  S = Nat
<1> SUFFICES ASSUME Nat \ S # {} PROVE FALSE
  OBVIOUS
<1> DEFINE Less == {p \in Nat \X Nat : p[1] < p[2]}
<1>1. IsWellFoundedOn(Less, Nat)
  BY NatLessThanWellFounded DEF OpToRel
<1>2. PICK m \in Nat \ S : \A n \in Nat \ S : <<n, m>> \notin Less
  BY <1>1, WFMin
<1>3. m - 1 \in Nat /\ <<m - 1, m>> \in Less /\ (m - 1) + 1 = m
  BY <1>2
<1>4. m - 1 \in S
  BY <1>2, <1>3
<1>5. QED
  BY <1>2, <1>3, <1>4

\* The sums of the first sizes.
Sums(g, k) == CHOOSE f : f = [i \in 0 .. k |-> IF i = 0 THEN 0 ELSE f[i - 1] + g[i]]

\* There are such sums, however many sizes are added.
LEMMA SumsExist ==
    ASSUME NEW g, NEW k \in Nat
    PROVE  Sums(g, k) = [i \in 0 .. k |-> IF i = 0 THEN 0 ELSE Sums(g, k)[i - 1] + g[i]]
<1> DEFINE Sum(f, n) == f = [i \in 0 .. n |-> IF i = 0 THEN 0 ELSE f[i - 1] + g[i]]
           S == {n \in Nat : \E f : Sum(f, n)}
<1>1. 0 \in S
  <2>1. Sum([i \in 0 .. 0 |-> 0], 0)
    OBVIOUS
  <2>2. QED
    BY <2>1
<1>2. ASSUME NEW n \in S PROVE n + 1 \in S
  <2>1. PICK f : Sum(f, n)
    OBVIOUS
  <2> DEFINE e == [i \in 0 .. n + 1 |-> IF i = n + 1 THEN f[n] + g[i] ELSE f[i]]
  <2>2. e = [i \in 0 .. n + 1 |-> IF i = 0 THEN 0 ELSE e[i - 1] + g[i]]
    <3>1. ASSUME NEW i \in 0 .. n + 1 PROVE e[i] = IF i = 0 THEN 0 ELSE e[i - 1] + g[i]
      <4>1. CASE i = n + 1
        <5>1. e[i] = f[n] + g[i] /\ n \in 0 .. n + 1 /\ n # n + 1 /\ i # 0 /\ i - 1 = n
          BY <4>1
        <5>2. e[n] = f[n]
          BY <5>1
        <5>3. QED
          BY <5>1, <5>2
      <4>2. CASE i # n + 1
        <5>1. i \in 0 .. n /\ (i # 0 => i - 1 \in 0 .. n /\ i - 1 # n + 1 /\ i - 1 \in 0 .. n + 1)
          BY <4>2
        <5>2. e[i] = f[i] /\ (i # 0 => e[i - 1] = f[i - 1])
          BY <4>2, <5>1
        <5>3. f[i] = IF i = 0 THEN 0 ELSE f[i - 1] + g[i]
          BY <2>1, <5>1
        <5>4. QED
          BY <5>2, <5>3
      <4>3. QED
        BY <4>1, <4>2
    <3> HIDE DEF e
    <3>2. DOMAIN e = 0 .. n + 1 /\ e = [i \in 0 .. n + 1 |-> e[i]]
      BY DEF e
    <3>3. QED
      BY <3>1, <3>2
  <2> HIDE DEF e
  <2>3. QED
    BY <2>2
<1> HIDE DEF S
<1>3. k \in S
  BY <1>1, <1>2, AllNaturals DEF S
<1>4. PICK f : Sum(f, k)
  BY <1>3 DEF S
<1>5. QED
  BY <1>4 DEF Sums

\* A sum is that of one size fewer and the last size.
LEMMA TotalAdds ==
    ASSUME NEW g
    PROVE  Total(g, 0) = 0 /\ \A k \in Nat : Total(g, k + 1) = Total(g, k) + g[k + 1]
<1>1. \A k \in Nat : Total(g, k) = Sums(g, k)[k]
  BY DEF Total, Sums
<1>2. \A k \in Nat : Sums(g, k) = [i \in 0 .. k |-> IF i = 0 THEN 0 ELSE Sums(g, k)[i - 1] + g[i]]
  BY SumsExist
<1>3. Total(g, 0) = 0
  BY <1>1, <1>2
<1>4. ASSUME NEW k \in Nat PROVE Total(g, k + 1) = Total(g, k) + g[k + 1]
  <2> DEFINE f == Sums(g, k)
             e == Sums(g, k + 1)
  <2>1. f = [i \in 0 .. k |-> IF i = 0 THEN 0 ELSE f[i - 1] + g[i]]
    BY <1>2
  <2>2. e = [i \in 0 .. k + 1 |-> IF i = 0 THEN 0 ELSE e[i - 1] + g[i]]
    <3>1. k + 1 \in Nat
      OBVIOUS
    <3>2. QED
      BY <1>2, <3>1
  <2> HIDE DEF e, f
  <2> DEFINE S == {i \in Nat : i <= k => e[i] = f[i]}
  <2>3. 0 \in S
    BY <2>1, <2>2
  <2>4. ASSUME NEW i \in S PROVE i + 1 \in S
    <3>1. SUFFICES ASSUME i + 1 <= k PROVE e[i + 1] = f[i + 1]
      OBVIOUS
    <3>2. i + 1 \in 0 .. k /\ i + 1 \in 0 .. k + 1 /\ i + 1 # 0 /\ (i + 1) - 1 = i /\ e[i] = f[i]
      BY <3>1
    <3>3. QED
      BY <2>1, <2>2, <3>2
  <2> HIDE DEF S
  <2>5. k \in S
    BY <2>3, <2>4, AllNaturals DEF S
  <2>6. e[k] = f[k]
    BY <2>5 DEF S
  <2>7. k + 1 \in 0 .. k + 1 /\ k + 1 # 0 /\ (k + 1) - 1 = k
    OBVIOUS
  <2>8. e[k + 1] = e[k] + g[k + 1]
    BY <2>2, <2>7
  <2>9. QED
    BY <1>1, <2>6, <2>8 DEF e, f
<1>5. QED
  BY <1>3, <1>4

\* A sum of natural numbers is one, and no less than that of fewer of them.
LEMMA TotalIsNat ==
    ASSUME NEW n \in Nat, NEW g \in [1 .. n -> Nat]
    PROVE  /\ \A k \in 0 .. n : Total(g, k) \in Nat
           /\ \A k \in 1 .. n : Total(g, k) = Total(g, k - 1) + g[k]
<1>1. ASSUME NEW k \in 1 .. n PROVE Total(g, k) = Total(g, k - 1) + g[k]
  <2>1. k - 1 \in Nat /\ (k - 1) + 1 = k
    OBVIOUS
  <2>2. QED
    BY <2>1, TotalAdds
<1> DEFINE S == {k \in Nat : k <= n => Total(g, k) \in Nat}
<1>2. 0 \in S
  BY TotalAdds
<1>3. ASSUME NEW k \in S PROVE k + 1 \in S
  <2>1. SUFFICES ASSUME k + 1 <= n PROVE Total(g, k + 1) \in Nat
    OBVIOUS
  <2>2. k \in Nat /\ Total(g, k) \in Nat /\ g[k + 1] \in Nat
    BY <2>1
  <2>3. Total(g, k + 1) = Total(g, k) + g[k + 1]
    BY <2>2, TotalAdds
  <2>4. QED
    BY <2>2, <2>3
<1> HIDE DEF S
<1>4. S = Nat
  BY <1>2, <1>3, AllNaturals DEF S
<1>5. ASSUME NEW k \in 0 .. n PROVE Total(g, k) \in Nat
  <2>1. k \in Nat /\ k <= n
    OBVIOUS
  <2>2. QED
    BY <1>4, <2>1 DEF S
<1>6. QED
  BY <1>1, <1>5

\* The sizes h are those of g, but the jth is larger by d.
IsChanged(h, g, n, j, d) ==
    /\ n \in Nat /\ j \in Nat /\ d \in Int
    /\ \A k \in 0 .. n : Total(g, k) \in Int
    /\ \A i \in 1 .. n : g[i] \in Int /\ h[i] = g[i] + (IF i = j THEN d ELSE 0)

\* The sizes h are those of g after the first m.
IsPart(h, g, m, n) ==
    /\ \A k \in 0 .. m + n : Total(g, k) \in Int
    /\ \A i \in 1 .. n : g[m + i] \in Int /\ h[i] = g[m + i]

\* So is their sum, once the jth is added.
LEMMA TotalChanged ==
    ASSUME NEW n, NEW g, NEW h, NEW j, NEW d, IsChanged(h, g, n, j, d)
    PROVE  \A k \in 0 .. n : Total(h, k) = Total(g, k) + (IF 1 <= j /\ j <= k THEN d ELSE 0)
<1> DEFINE S == {k \in Nat : k <= n => Total(h, k) = Total(g, k) + (IF 1 <= j /\ j <= k THEN d ELSE 0)}
<1>0. n \in Nat /\ j \in Nat /\ d \in Int
  BY DEF IsChanged
<1>1. 0 \in S
  BY <1>0, TotalAdds
<1>2. ASSUME NEW k \in S PROVE k + 1 \in S
  <2>1. SUFFICES ASSUME k + 1 <= n
                 PROVE  Total(h, k + 1) = Total(g, k + 1) + (IF 1 <= j /\ j <= k + 1 THEN d ELSE 0)
    OBVIOUS
  <2>2. k \in Nat /\ Total(h, k) = Total(g, k) + (IF 1 <= j /\ j <= k THEN d ELSE 0)
    BY <1>0, <2>1
  <2>3. Total(h, k + 1) = Total(h, k) + h[k + 1] /\ Total(g, k + 1) = Total(g, k) + g[k + 1]
    BY <2>2, TotalAdds
  <2>4. g[k + 1] \in Int /\ h[k + 1] = g[k + 1] + (IF k + 1 = j THEN d ELSE 0) /\ Total(g, k) \in Int
    <3>1. k + 1 \in 1 .. n /\ k \in 0 .. n
      BY <1>0, <2>1, <2>2
    <3>2. QED
      BY <3>1 DEF IsChanged
  <2> DEFINE a == Total(h, k)
             b == Total(g, k)
             u == g[k + 1]
             v == h[k + 1]
  <2> HIDE DEF a, b, u, v
  <2>5. /\ a = b + (IF 1 <= j /\ j <= k THEN d ELSE 0) /\ v = u + (IF k + 1 = j THEN d ELSE 0)
        /\ u \in Int /\ b \in Int /\ k \in Nat
    BY <2>2, <2>4 DEF a, b, u, v
  <2>6. a + v = (b + u) + (IF 1 <= j /\ j <= k + 1 THEN d ELSE 0)
    BY <1>0, <2>5
  <2>7. QED
    BY <2>3, <2>6 DEF a, b, u, v
<1> HIDE DEF S
<1>3. S = Nat
  BY <1>1, <1>2, AllNaturals DEF S
<1>4. QED
  BY <1>0, <1>3 DEF S

\* The sum of a part is a difference of two sums.
LEMMA TotalOfPart ==
    ASSUME NEW n \in Nat, NEW m \in Nat, NEW g, NEW h, IsPart(h, g, m, n)
    PROVE  \A k \in 0 .. n : Total(h, k) = Total(g, m + k) - Total(g, m)
<1> DEFINE S == {k \in Nat : k <= n => Total(h, k) = Total(g, m + k) - Total(g, m)}
<1>1. 0 \in S
  <2>1. Total(h, 0) = 0 /\ m + 0 = m /\ Total(g, m) \in Int
    BY TotalAdds DEF IsPart
  <2>2. QED
    BY <2>1
<1>2. ASSUME NEW k \in S PROVE k + 1 \in S
  <2>1. SUFFICES ASSUME k + 1 <= n
                 PROVE  Total(h, k + 1) = Total(g, m + (k + 1)) - Total(g, m)
    OBVIOUS
  <2>2. k \in Nat /\ Total(h, k) = Total(g, m + k) - Total(g, m)
    BY <2>1
  <2>3. Total(h, k + 1) = Total(h, k) + h[k + 1]
    BY <2>2, TotalAdds
  <2>4. Total(g, m + (k + 1)) = Total(g, m + k) + g[m + (k + 1)]
    <3>1. m + k \in Nat /\ (m + k) + 1 = m + (k + 1)
      BY <2>2
    <3>2. QED
      BY <3>1, TotalAdds
  <2>5. /\ g[m + (k + 1)] \in Int /\ h[k + 1] = g[m + (k + 1)]
        /\ Total(g, m + k) \in Int /\ Total(g, m) \in Int
    <3>1. k + 1 \in 1 .. n /\ m + k \in 0 .. m + n /\ m \in 0 .. m + n
      BY <2>1, <2>2
    <3>2. QED
      BY <3>1 DEF IsPart
  <2>6. QED
    BY <2>2, <2>3, <2>4, <2>5
<1> HIDE DEF S
<1>3. S = Nat
  BY <1>1, <1>2, AllNaturals DEF S
<1>4. QED
  BY <1>3 DEF S

\* Where nothing is added, the sum stays.
LEMMA TotalOfNone ==
    ASSUME NEW k \in Nat, NEW g, \A i \in 1 .. k : g[i] = 0
    PROVE  Total(g, k) = 0
<1> DEFINE S == {i \in Nat : i <= k => Total(g, i) = 0}
<1>1. 0 \in S
  BY TotalAdds
<1>2. ASSUME NEW i \in S PROVE i + 1 \in S
  <2>1. SUFFICES ASSUME i + 1 <= k PROVE Total(g, i + 1) = 0
    OBVIOUS
  <2>2. Total(g, i) = 0 /\ g[i + 1] = 0
    BY <2>1
  <2>3. QED
    BY <2>2, TotalAdds
<1> HIDE DEF S
<1>3. S = Nat
  BY <1>1, <1>2, AllNaturals DEF S
<1>4. QED
  BY <1>3 DEF S

------------------------------------------------------------------------------
(* Command buffers. *)

Request == {OtherRequest} \cup [kind : {"render"}, addr : Nat, size : Nat, ext : BOOLEAN]
ListRecord == [max : Nat, maxReq : Nat, pos : Nat, split : Nat, reqs : Seq(Request), astray : BOOLEAN,
               ragged : BOOLEAN]
WholeSizes(reqs, ragged) ==
  \A i \in 1 .. Len(reqs) : reqs[i].kind = "render" => reqs[i].size > 0 /\ (ragged \/ reqs[i].size % 4 = 0)

\* A position, after a split, that is in the buffer; one past the end it is only with a
\* word left that no split can have taken.
Within(list, pos, split) ==
  /\ split <= pos /\ split <= list.max
  /\ pos <= list.max \/ (list.ragged /\ pos = list.max + 1 /\ split < list.max)
  /\ list.ragged \/ (pos % 2 = 0 /\ list.max % 2 = 0)

\* The list's own requests are one after the other, up to the last split.
Tiles(list) ==
  /\ Within(list, list.pos, list.split)
  /\ WholeSizes(list.reqs, list.ragged)
  /\ list.split = OwnSize(list.reqs, Len(list.reqs))
  /\ \A i \in 1 .. Len(list.reqs) : IsOwn(list.reqs[i]) => list.reqs[i].addr = OwnSize(list.reqs, i - 1)

\* Of what is saved of a list, from the request id on: the first request covers the
\* commands from the last split before, which may be ahead of the offset. An offset is
\* not of whole 16 bytes only at the end of a full buffer, after which there is no request.
Saves(list, offset, id) ==
  LET start == OwnSize(list.reqs, id)
  IN /\ id <= Len(list.reqs)
     /\ start <= offset
     /\ offset <= list.pos \/ (offset = list.max + 1 /\ list.max <= list.pos /\ list.split < list.max)
     /\ list.ragged \/ offset % 4 = 0 \/ offset = list.max
     /\ \A i \in id + 1 .. Len(list.reqs) :
          /\ list.reqs[i].kind = "render" /\ \A j \in id + 1 .. i - 1 : list.reqs[j].kind # "render"
          => IF IsOwn(list.reqs[i])
             THEN /\ list.reqs[i].addr = start /\ offset < start + list.reqs[i].size
                  /\ list.ragged \/ offset % 4 = 0
             ELSE offset = start
     /\ (\A i \in id + 1 .. Len(list.reqs) : list.reqs[i].kind # "render") => list.split = start

\* What was saved is whole.
SavedFits(reqs, offset, size, ragged) ==
  /\ WholeSizes(reqs, ragged)
  /\ ragged \/ size % 2 = 0
  /\ \A i \in 1 .. Len(reqs) : IsFirstOwn(reqs, i) =>
        /\ reqs[i].addr <= offset /\ offset < reqs[i].addr + reqs[i].size
        /\ ragged \/ (offset % 4 = 0 /\ reqs[i].addr % 4 = 0)

SavedRecord == [list : CbLists \cup {"none"}, offset : Nat, size : Int, reqs : Seq(Request), ragged : BOOLEAN]

CbTypeOK ==
  /\ cb \in [CbLists -> ListRecord]
  /\ cbBound \in CbLists \cup {"none"}
  /\ saving \in [on : BOOLEAN, offset : Nat, id : Nat]
  /\ saving.on => cbBound # "none"
  /\ saved \in SavedRecord

\* The inductive invariant of the command buffers.
CbInv ==
  /\ CbTypeOK
  /\ \A l \in CbLists : ~cb[l].astray => Tiles(cb[l])
  /\ saving.on /\ ~List.astray => Saves(List, saving.offset, saving.id)
  /\ SavedFits(saved.reqs, saved.offset, saved.size, saved.ragged)

\* What is added up of requests.
LEMMA RequestSizes ==
    ASSUME NEW q \in Seq(Request)
    PROVE  /\ Len(q) \in Nat /\ DOMAIN q = 1 .. Len(q)
           /\ \A i \in 1 .. Len(q) : q[i] \in Request /\ q[i].size \in Nat /\ q[i].addr \in Nat
           /\ \A k \in 0 .. Len(q) : OwnSize(q, k) \in Nat /\ SizeOf(q, k) \in Nat
           /\ OwnSize(q, 0) = 0 /\ SizeOf(q, 0) = 0
           /\ \A k \in 1 .. Len(q) :
                /\ OwnSize(q, k) = OwnSize(q, k - 1) + (IF q[k].ext THEN 0 ELSE q[k].size)
                /\ SizeOf(q, k) = SizeOf(q, k - 1) + q[k].size
<1> DEFINE n == Len(q)
           sizes == [i \in DOMAIN q |-> q[i].size]
           own == [i \in DOMAIN q |-> IF q[i].ext THEN 0 ELSE q[i].size]
<1>1. n \in Nat /\ DOMAIN q = 1 .. n /\ \A i \in 1 .. n : q[i] \in Request
  BY LenProperties, ElementOfSeq
<1>2. \A r \in Request : r.size \in Nat /\ r.addr \in Nat /\ r.ext \in BOOLEAN
  <2>1. OtherRequest.size \in Nat /\ OtherRequest.addr \in Nat /\ OtherRequest.ext \in BOOLEAN
    BY DEF OtherRequest
  <2>2. \A r \in Request : r # OtherRequest => r.size \in Nat /\ r.addr \in Nat /\ r.ext \in BOOLEAN
    BY DEF Request
  <2>3. QED
    BY <2>1, <2>2
<1>3. sizes \in [1 .. n -> Nat] /\ own \in [1 .. n -> Nat]
  BY <1>1, <1>2
<1>4. /\ \A k \in 0 .. n : Total(sizes, k) \in Nat /\ Total(own, k) \in Nat
      /\ \A k \in 1 .. n : /\ Total(sizes, k) = Total(sizes, k - 1) + sizes[k]
                           /\ Total(own, k) = Total(own, k - 1) + own[k]
  BY <1>1, <1>3, TotalIsNat
<1>5. Total(sizes, 0) = 0 /\ Total(own, 0) = 0
  BY TotalAdds
<1>6. /\ \A k : OwnSize(q, k) = Total(own, k) /\ SizeOf(q, k) = Total(sizes, k)
      /\ \A k \in 1 .. n : sizes[k] = q[k].size /\ own[k] = IF q[k].ext THEN 0 ELSE q[k].size
  BY <1>1 DEF OwnSize, SizeOf
<1> HIDE DEF sizes, own, n
<1>7. QED
  BY <1>1, <1>2, <1>4, <1>5, <1>6 DEF n

\* A sum over requests, when others follow, and when they follow others.
LEMMA SizesJoined ==
    ASSUME NEW p \in Seq(Request), NEW q \in Seq(Request)
    PROVE  /\ p \o q \in Seq(Request) /\ Len(p \o q) = Len(p) + Len(q)
           /\ \A i \in 1 .. Len(p) : (p \o q)[i] = p[i]
           /\ \A i \in 1 .. Len(q) : (p \o q)[Len(p) + i] = q[i]
           /\ \A k \in 0 .. Len(p) : OwnSize(p \o q, k) = OwnSize(p, k)
           /\ \A k \in 0 .. Len(q) : OwnSize(p \o q, Len(p) + k) = OwnSize(p, Len(p)) + OwnSize(q, k)
<1> DEFINE r == p \o q
           m == Len(p)
           n == Len(q)
           f == [i \in DOMAIN p |-> IF p[i].ext THEN 0 ELSE p[i].size]
           h == [i \in DOMAIN q |-> IF q[i].ext THEN 0 ELSE q[i].size]
           g == [i \in DOMAIN r |-> IF r[i].ext THEN 0 ELSE r[i].size]
           none == 0
<1>1. r \in Seq(Request) /\ Len(r) = m + n
  BY ConcatProperties
<1>2. /\ \A i \in 1 .. m : r[i] = p[i]
      /\ \A i \in 1 .. n : r[m + i] = q[i]
  <2>1. \A i \in 1 .. m + n : r[i] = IF i <= m THEN p[i] ELSE q[i - m]
    BY ConcatProperties
  <2>2. m \in Nat /\ n \in Nat
    BY RequestSizes
  <2>3. \A i \in 1 .. n : m + i \in 1 .. m + n /\ ~(m + i <= m) /\ (m + i) - m = i
    BY <2>2
  <2>4. \A i \in 1 .. m : i \in 1 .. m + n /\ i <= m
    BY <2>2
  <2>5. QED
    BY <2>1, <2>3, <2>4
<1> HIDE DEF r
<1>3. /\ m \in Nat /\ n \in Nat /\ DOMAIN p = 1 .. m /\ DOMAIN q = 1 .. n /\ DOMAIN r = 1 .. m + n
      /\ \A k \in 0 .. m + n : OwnSize(r, k) \in Nat
      /\ \A k \in 0 .. m : OwnSize(p, k) \in Nat
      /\ \A i \in 1 .. m + n : r[i].size \in Nat
  BY <1>1, RequestSizes
<1>4. \A k : OwnSize(p, k) = Total(f, k) /\ OwnSize(q, k) = Total(h, k) /\ OwnSize(r, k) = Total(g, k)
  BY DEF OwnSize
<1>5. /\ \A i \in 1 .. m : f[i] = g[i]
      /\ \A i \in 1 .. n : h[i] = g[m + i]
      /\ \A i \in 1 .. m + n : g[i] \in Int
  <2>1. \A i \in 1 .. n : m + i \in 1 .. m + n
    BY <1>3
  <2>2. \A i \in 1 .. m : i \in 1 .. m + n
    BY <1>3
  <2>3. QED
    BY <1>2, <1>3, <2>1, <2>2
<1> HIDE DEF f, g, h, m, n
<1>6. ASSUME NEW k \in 0 .. m PROVE Total(f, k) = Total(g, k)
  <2>1. m \in Nat /\ none \in Nat /\ none + m = m /\ none + k = k /\ \A i \in 1 .. m : none + i = i
    BY <1>3
  <2>2. \A i \in 0 .. none + m : Total(g, i) \in Int
    <3>1. \A i \in 0 .. none + m : i \in 0 .. m + n
      BY <1>3
    <3>2. QED
      BY <1>3, <1>4, <3>1
  <2>3. \A i \in 1 .. m : g[none + i] \in Int /\ f[i] = g[none + i]
    <3>1. \A i \in 1 .. m : i \in 1 .. m + n
      BY <1>3
    <3>2. QED
      BY <1>5, <2>1, <3>1
  <2> HIDE DEF none
  <2>4. Total(f, k) = Total(g, k) - Total(g, none)
    <3>1. \A i \in 0 .. m : Total(f, i) = Total(g, none + i) - Total(g, none)
      <4>1. IsPart(f, g, none, m)
        BY <2>1, <2>2, <2>3 DEF IsPart
      <4>2. QED
        BY <2>1, <4>1, TotalOfPart
    <3>2. QED
      BY <2>1, <3>1
  <2>5. Total(g, none) = 0 /\ Total(g, k) \in Int
    BY <2>1, <2>2, TotalAdds DEF none
  <2>6. QED
    BY <2>4, <2>5
<1>7. ASSUME NEW k \in 0 .. n PROVE OwnSize(r, m + k) = OwnSize(p, m) + OwnSize(q, k)
  <2>1. /\ \A i \in 0 .. m + n : Total(g, i) \in Int
        /\ \A i \in 1 .. n : g[m + i] \in Int /\ h[i] = g[m + i]
    <3>1. \A i \in 1 .. n : m + i \in 1 .. m + n
      BY <1>3
    <3>2. QED
      BY <1>3, <1>4, <1>5, <3>1
  <2>2. Total(h, k) = Total(g, m + k) - Total(g, m)
    <3>1. m \in Nat /\ n \in Nat
      BY <1>3
    <3>2. \A i \in 0 .. n : Total(h, i) = Total(g, m + i) - Total(g, m)
      <4>1. IsPart(h, g, m, n)
        BY <2>1 DEF IsPart
      <4>2. QED
        BY <3>1, <4>1, TotalOfPart
    <3>3. QED
      BY <3>2
  <2>3. m + k \in 0 .. m + n /\ m \in 0 .. m + n /\ m \in 0 .. m
    BY <1>3
  <2>4. OwnSize(r, m + k) \in Nat /\ OwnSize(r, m) \in Nat /\ OwnSize(p, m) = OwnSize(r, m)
    BY <1>3, <1>4, <1>6, <2>3
  <2>5. OwnSize(q, k) = OwnSize(r, m + k) - OwnSize(r, m)
    BY <1>4, <2>2
  <2>6. QED
    BY <2>4, <2>5
<1>8. \A k \in 0 .. m : OwnSize(r, k) = OwnSize(p, k)
  BY <1>4, <1>6
<1>9. QED
  BY <1>1, <1>2, <1>7, <1>8 DEF r, m, n

\* Whole requests add up to a whole size.
LEMMA WholeIsEven ==
    ASSUME NEW q \in Seq(Request), WholeSizes(q, FALSE), NEW k \in 0 .. Len(q)
    PROVE  OwnSize(q, k) % 4 = 0 /\ SizeOf(q, k) % 4 = 0
<1> DEFINE S == {i \in Nat : i <= Len(q) => OwnSize(q, i) % 4 = 0 /\ SizeOf(q, i) % 4 = 0}
<1>1. 0 \in S
  BY RequestSizes
<1>2. ASSUME NEW i \in S PROVE i + 1 \in S
  <2>1. SUFFICES ASSUME i + 1 <= Len(q) PROVE OwnSize(q, i + 1) % 4 = 0 /\ SizeOf(q, i + 1) % 4 = 0
    OBVIOUS
  <2>2. /\ i + 1 \in 1 .. Len(q) /\ i \in 0 .. Len(q) /\ (i + 1) - 1 = i
        /\ OwnSize(q, i) % 4 = 0 /\ SizeOf(q, i) % 4 = 0
    BY <2>1, RequestSizes
  <2>3. /\ OwnSize(q, i + 1) = OwnSize(q, i) + (IF q[i + 1].ext THEN 0 ELSE q[i + 1].size)
        /\ SizeOf(q, i + 1) = SizeOf(q, i) + q[i + 1].size
        /\ OwnSize(q, i) \in Nat /\ SizeOf(q, i) \in Nat /\ q[i + 1].size \in Nat /\ q[i + 1] \in Request
    BY <2>2, RequestSizes
  <2>4. q[i + 1].size % 4 = 0
    <3>1. q[i + 1].kind = "render" \/ q[i + 1].size = 0
      BY <2>3 DEF Request, OtherRequest
    <3>2. QED
      BY <2>2, <3>1 DEF WholeSizes
  <2> DEFINE a == OwnSize(q, i)
             b == q[i + 1].size
             c == SizeOf(q, i)
  <2> HIDE DEF a, b, c
  <2>5. a \in Nat /\ b \in Nat /\ c \in Nat /\ a % 4 = 0 /\ b % 4 = 0 /\ c % 4 = 0
    BY <2>2, <2>3, <2>4 DEF a, b, c
  <2>6. (a + b) % 4 = 0 /\ (a + 0) % 4 = 0 /\ (c + b) % 4 = 0
    BY <2>5
  <2>7. QED
    BY <2>3, <2>6 DEF a, b, c
<1> HIDE DEF S
<1>3. S = Nat
  BY <1>1, <1>2, AllNaturals DEF S
<1>4. k \in Nat /\ k <= Len(q)
  BY RequestSizes
<1>5. QED
  BY <1>3, <1>4 DEF S

\* So it is of a list's own requests.
LEMMA SplitIsEven ==
    ASSUME NEW L \in ListRecord, Tiles(L), ~L.ragged, NEW k \in 0 .. Len(L.reqs)
    PROVE  OwnSize(L.reqs, k) % 4 = 0
<1>1. WholeSizes(L.reqs, FALSE) /\ L.reqs \in Seq(Request)
  BY DEF Tiles, WholeSizes, ListRecord
<1>2. QED
  BY <1>1, WholeIsEven

\* Other requests take nothing of a buffer.
LEMMA NoneBeforeFirst ==
    ASSUME NEW q \in Seq(Request), NEW k \in 0 .. Len(q), \A j \in 1 .. k : q[j].kind # "render"
    PROVE  OwnSize(q, k) = 0 /\ SizeOf(q, k) = 0
<1> DEFINE sizes == [i \in DOMAIN q |-> q[i].size]
           own == [i \in DOMAIN q |-> IF q[i].ext THEN 0 ELSE q[i].size]
<1>1. ASSUME NEW i \in 1 .. k PROVE sizes[i] = 0 /\ own[i] = 0
  <2>1. i \in DOMAIN q /\ q[i] \in Request
    BY RequestSizes
  <2>2. q[i].size = 0
    BY <2>1 DEF Request, OtherRequest
  <2>3. QED
    BY <2>1, <2>2
<1> HIDE DEF sizes, own
<1>2. k \in Nat
  BY RequestSizes
<1>3. Total(sizes, k) = 0 /\ Total(own, k) = 0
  BY <1>1, <1>2, TotalOfNone
<1>4. QED
  BY <1>3 DEF OwnSize, SizeOf, own, sizes

\* If any is a request to render, one is the first.
LEMMA FirstRender ==
    ASSUME NEW q \in Seq(Request), NEW i \in 1 .. Len(q), q[i].kind = "render"
    PROVE  \E f \in 1 .. i : IsFirst(q, f)
<1> SUFFICES ASSUME \A f \in 1 .. i : q[f].kind = "render" => \E j \in 1 .. f - 1 : q[j].kind = "render"
             PROVE  FALSE
  BY DEF IsFirst
<1>0. i \in Nat /\ i >= 1
  BY RequestSizes
<1> DEFINE S == {k \in Nat : \A f \in 1 .. k : q[f].kind # "render" \/ f > i}
<1>1. 0 \in S
  OBVIOUS
<1>2. ASSUME NEW k \in S PROVE k + 1 \in S
  <2>1. SUFFICES ASSUME NEW f \in 1 .. k + 1, q[f].kind = "render", ~(f > i) PROVE FALSE
    OBVIOUS
  <2>2. f \in 1 .. i
    BY <1>0, <2>1
  <2>3. PICK j \in 1 .. f - 1 : q[j].kind = "render"
    BY <2>1, <2>2
  <2>4. j \in 1 .. k /\ ~(j > i)
    BY <1>0, <2>1, <2>2
  <2>5. QED
    BY <2>3, <2>4
<1> HIDE DEF S
<1>3. i \in S
  BY <1>0, <1>1, <1>2, AllNaturals DEF S
<1>4. i \in 1 .. i /\ ~(i > i)
  BY <1>0
<1>5. QED
  BY <1>3, <1>4 DEF S

\* A list to which requests are appended, of which its own begin at its last split.
Appended(list, q, pos) ==
  [list EXCEPT !.reqs = @ \o q, !.split = @ + OwnSize(q, Len(q)), !.pos = pos]

FollowOn(list, q) ==
  /\ q \in Seq(Request) /\ WholeSizes(q, list.ragged)
  /\ \A i \in 1 .. Len(q) : IsOwn(q[i]) => q[i].addr = list.split + OwnSize(q, i - 1)

\* The first of them has the commands that are pending.
CoverPending(list, q) ==
  \A i \in 1 .. Len(q) : IsFirst(q, i) =>
     IF IsOwn(q[i]) THEN list.pos < list.split + q[i].size /\ list.pos < list.max
     ELSE list.pos = list.split

\* The list's own requests are still one after the other.
LEMMA AppendTiles ==
    ASSUME NEW L \in ListRecord, Tiles(L), NEW q, FollowOn(L, q), NEW pos \in Nat,
           Within(L, pos, L.split + OwnSize(q, Len(q)))
    PROVE  Appended(L, q, pos) \in ListRecord /\ Tiles(Appended(L, q, pos))
<1> DEFINE M == Appended(L, q, pos)
           p == L.reqs
<1>1. p \in Seq(Request) /\ q \in Seq(Request) /\ L.split \in Nat /\ L.max \in Nat
  BY DEF ListRecord, FollowOn
<1>2. Len(p) \in Nat /\ Len(q) \in Nat /\ OwnSize(q, Len(q)) \in Nat
  <2>1. Len(p) \in Nat /\ Len(q) \in Nat
    BY <1>1, LenProperties
  <2>2. QED
    BY <1>1, <2>1, RequestSizes
<1>3. /\ M.reqs = p \o q /\ M.split = L.split + OwnSize(q, Len(q)) /\ M.pos = pos
      /\ M.max = L.max /\ M.astray = L.astray /\ M.maxReq = L.maxReq /\ M.ragged = L.ragged
  BY DEF Appended, ListRecord
<1>4. p \o q \in Seq(Request) /\ Len(p \o q) = Len(p) + Len(q)
  BY <1>1, SizesJoined
<1>5. M \in ListRecord
  <2> DEFINE a == p \o q
             b == L.split + OwnSize(q, Len(q))
  <2>1. M = [L EXCEPT !.reqs = a, !.split = b, !.pos = pos]
    BY DEF Appended
  <2>2. a \in Seq(Request) /\ b \in Nat
    BY <1>1, <1>2, <1>4
  <2> HIDE DEF M, p, a, b
  <2>3. QED
    BY <2>1, <2>2 DEF ListRecord
<1>6. M.split = OwnSize(M.reqs, Len(M.reqs))
  <2>1. Len(q) \in 0 .. Len(q)
    BY <1>2
  <2>2. OwnSize(p \o q, Len(p) + Len(q)) = OwnSize(p, Len(p)) + OwnSize(q, Len(q))
    BY <1>1, <2>1, SizesJoined
  <2>3. QED
    BY <1>3, <1>4, <2>2 DEF Tiles
<1>7. ASSUME NEW i \in 1 .. Len(p) + Len(q)
      PROVE  \/ /\ i \in 1 .. Len(p) /\ (p \o q)[i] = p[i] /\ OwnSize(p \o q, i - 1) = OwnSize(p, i - 1)
             \/ \E j \in 1 .. Len(q) :
                   /\ i = Len(p) + j /\ (p \o q)[i] = q[j]
                   /\ OwnSize(p \o q, i - 1) = OwnSize(p, Len(p)) + OwnSize(q, j - 1)
  <2>1. CASE i <= Len(p)
    <3>1. i \in 1 .. Len(p) /\ i - 1 \in 0 .. Len(p)
      BY <1>2, <2>1
    <3>2. QED
      BY <1>1, <3>1, SizesJoined
  <2>2. CASE ~(i <= Len(p))
    <3> DEFINE j == i - Len(p)
    <3>1. j \in 1 .. Len(q) /\ i = Len(p) + j /\ j - 1 \in 0 .. Len(q) /\ i - 1 = Len(p) + (j - 1)
      BY <1>2, <2>2
    <3> HIDE DEF j
    <3>2. (p \o q)[Len(p) + j] = q[j]
      BY <1>1, <3>1, SizesJoined
    <3>3. OwnSize(p \o q, Len(p) + (j - 1)) = OwnSize(p, Len(p)) + OwnSize(q, j - 1)
      BY <1>1, <3>1, SizesJoined
    <3>4. QED
      BY <3>1, <3>2, <3>3
  <2>3. QED
    BY <2>1, <2>2
<1> HIDE DEF p
<1>8. ASSUME NEW i \in 1 .. Len(M.reqs), M.reqs[i].kind = "render"
      PROVE  /\ M.reqs[i].size > 0 /\ (L.ragged \/ M.reqs[i].size % 4 = 0)
             /\ IsOwn(M.reqs[i]) => M.reqs[i].addr = OwnSize(M.reqs, i - 1)
  <2>1. i \in 1 .. Len(p) + Len(q) /\ M.reqs[i] = (p \o q)[i] /\ M.reqs[i].kind = "render"
    BY <1>3, <1>4, <1>8
  <2>2. CASE i \in 1 .. Len(p) /\ (p \o q)[i] = p[i] /\ OwnSize(p \o q, i - 1) = OwnSize(p, i - 1)
    BY <1>3, <2>1, <2>2 DEF Tiles, WholeSizes, p
  <2>3. ASSUME NEW j \in 1 .. Len(q), (p \o q)[i] = q[j],
               OwnSize(p \o q, i - 1) = OwnSize(p, Len(p)) + OwnSize(q, j - 1)
        PROVE  /\ M.reqs[i].size > 0 /\ (L.ragged \/ M.reqs[i].size % 4 = 0)
               /\ IsOwn(M.reqs[i]) => M.reqs[i].addr = OwnSize(M.reqs, i - 1)
    <3>1. q[j].size > 0 /\ (L.ragged \/ q[j].size % 4 = 0)
      BY <2>1, <2>3 DEF FollowOn, WholeSizes
    <3>2. IsOwn(q[j]) => q[j].addr = OwnSize(p, Len(p)) + OwnSize(q, j - 1)
      BY DEF FollowOn, Tiles, p
    <3>3. QED
      BY <1>3, <2>1, <2>3, <3>1, <3>2
  <2>4. QED
    BY <1>7, <2>1, <2>2, <2>3
<1>9. \A r : IsOwn(r) => r.kind = "render"
  BY DEF IsOwn
<1> HIDE DEF M
<1>10. WholeSizes(M.reqs, M.ragged)
  BY <1>3, <1>8 DEF WholeSizes
<1>11. \A i \in 1 .. Len(M.reqs) : IsOwn(M.reqs[i]) => M.reqs[i].addr = OwnSize(M.reqs, i - 1)
  BY <1>8, <1>9
<1>12. Within(M, M.pos, M.split)
  BY <1>3 DEF Within
<1>13. QED
  BY <1>5, <1>6, <1>10, <1>11, <1>12 DEF Tiles, M

\* What is saved of it still has all commands from the offset on.
LEMMA AppendSaves ==
    ASSUME NEW L \in ListRecord, Tiles(L), NEW q, FollowOn(L, q), NEW pos \in Nat, L.pos <= pos,
           q # <<>> => CoverPending(L, q),
           NEW offset \in Nat, NEW id \in Nat, Saves(L, offset, id)
    PROVE  Saves(Appended(L, q, pos), offset, id)
<1> DEFINE M == Appended(L, q, pos)
           p == L.reqs
           start == OwnSize(p, id)
           n == Len(p)
<1>1. /\ p \in Seq(Request) /\ q \in Seq(Request)
      /\ L.split \in Nat /\ L.max \in Nat /\ L.pos \in Nat
  BY DEF ListRecord, FollowOn
<1>2. n \in Nat /\ Len(q) \in Nat /\ id <= n /\ id \in 0 .. n
  <2>1. n \in Nat /\ Len(q) \in Nat
    BY <1>1, LenProperties
  <2>2. QED
    BY <2>1 DEF Saves
<1>3. /\ M.reqs = p \o q /\ M.split = L.split + OwnSize(q, Len(q)) /\ M.pos = pos /\ M.max = L.max
      /\ M.ragged = L.ragged
  BY DEF Appended, ListRecord
<1>4. /\ Len(p \o q) = n + Len(q)
      /\ \A i \in 1 .. n : (p \o q)[i] = p[i]
      /\ \A i \in 1 .. Len(q) : (p \o q)[n + i] = q[i]
      /\ OwnSize(p \o q, id) = start
  BY <1>1, <1>2, SizesJoined
<1>5. /\ start <= offset
      /\ offset <= L.pos \/ (offset = L.max + 1 /\ L.max <= L.pos /\ L.split < L.max)
      /\ L.ragged \/ offset % 4 = 0 \/ offset = L.max
      /\ \A i \in id + 1 .. n :
          /\ p[i].kind = "render" /\ \A j \in id + 1 .. i - 1 : p[j].kind # "render"
          => IF IsOwn(p[i])
             THEN p[i].addr = start /\ offset < start + p[i].size /\ (L.ragged \/ offset % 4 = 0)
             ELSE offset = start
      /\ (\A i \in id + 1 .. n : p[i].kind # "render") => L.split = start
  BY DEF Saves
<1>6. start \in Nat
  BY <1>1, <1>2, RequestSizes
<1> HIDE DEF M, p, start, n
<1>7. ASSUME NEW i \in id + 1 .. n + Len(q), (p \o q)[i].kind = "render",
             \A j \in id + 1 .. i - 1 : (p \o q)[j].kind # "render"
      PROVE  IF IsOwn((p \o q)[i])
             THEN (p \o q)[i].addr = start /\ offset < start + (p \o q)[i].size /\ (L.ragged \/ offset % 4 = 0)
             ELSE offset = start
  <2>1. CASE i <= n
    <3>1. /\ i \in id + 1 .. n /\ i \in 1 .. n /\ (p \o q)[i] = p[i]
          /\ \A j \in id + 1 .. i - 1 : j \in 1 .. n /\ (p \o q)[j] = p[j]
      BY <1>2, <1>4, <2>1
    <3>2. p[i].kind = "render" /\ \A j \in id + 1 .. i - 1 : p[j].kind # "render"
      BY <1>7, <3>1
    <3>3. QED
      BY <1>5, <3>1, <3>2
  <2>2. CASE ~(i <= n)
    <3>1. L.split = start
      <4>1. \A j \in id + 1 .. n : j \in id + 1 .. i - 1 /\ j \in 1 .. n
        BY <1>2, <2>2
      <4>2. QED
        BY <1>4, <1>5, <1>7, <4>1
    <3>2. PICK k \in 1 .. Len(q) : i = n + k
      <4>1. i - n \in 1 .. Len(q) /\ i = n + (i - n)
        BY <1>2, <2>2
      <4>2. QED
        BY <4>1
    <3>3. (p \o q)[i] = q[k] /\ IsFirst(q, k)
      <4>1. \A j \in 1 .. k - 1 : j \in 1 .. Len(q) /\ n + j \in id + 1 .. i - 1
        BY <1>2, <3>2
      <4>2. QED
        BY <1>4, <1>7, <3>2, <4>1 DEF IsFirst
    <3>4. q # <<>> /\ CoverPending(L, q)
      BY <1>1, <3>2, EmptySeq
    <3>5. CASE IsOwn(q[k])
      <4>1. q[k].addr = L.split
        <5>1. k - 1 \in 0 .. Len(q) /\ \A j \in 1 .. k - 1 : q[j].kind # "render"
          <6>1. k - 1 \in 0 .. Len(q)
            BY <1>2, <3>2
          <6>2. QED
            BY <3>3, <6>1 DEF IsFirst
        <5>2. OwnSize(q, k - 1) = 0
          BY <1>1, <5>1, NoneBeforeFirst
        <5>3. q[k].addr = L.split + OwnSize(q, k - 1)
          BY <3>5 DEF FollowOn
        <5>4. QED
          BY <1>1, <5>2, <5>3
      <4>2. L.pos < L.split + q[k].size /\ L.pos < L.max /\ q[k].size \in Nat
        BY <1>1, <3>3, <3>4, <3>5, RequestSizes DEF CoverPending
      <4>3. offset <= L.pos
        BY <1>1, <1>5, <4>2
      <4>4. offset < start + q[k].size
        BY <1>1, <3>1, <4>2, <4>3
      <4>5. L.ragged \/ offset % 4 = 0
        BY <1>1, <1>5, <4>2, <4>3
      <4>6. QED
        BY <3>1, <3>3, <3>5, <4>1, <4>4, <4>5
    <3>6. CASE ~IsOwn(q[k])
      <4>1. L.pos = L.split
        BY <3>3, <3>4, <3>6 DEF CoverPending
      <4>2. QED
        BY <1>1, <1>5, <1>6, <3>1, <3>3, <3>6, <4>1
    <3>7. QED
      BY <3>5, <3>6
  <2>3. QED
    BY <2>1, <2>2
<1>8. ASSUME \A i \in id + 1 .. n + Len(q) : (p \o q)[i].kind # "render"
      PROVE  L.split + OwnSize(q, Len(q)) = start
  <2>1. L.split = start
    <3>1. \A j \in id + 1 .. n : j \in id + 1 .. n + Len(q) /\ j \in 1 .. n
      BY <1>2
    <3>2. QED
      BY <1>4, <1>5, <1>8, <3>1
  <2>2. OwnSize(q, Len(q)) = 0
    <3>1. \A j \in 1 .. Len(q) : n + j \in id + 1 .. n + Len(q)
      BY <1>2
    <3>2. \A j \in 1 .. Len(q) : q[j].kind # "render"
      BY <1>4, <1>8, <3>1
    <3>3. Len(q) \in 0 .. Len(q)
      BY <1>2
    <3>4. QED
      BY <1>1, <3>2, <3>3, NoneBeforeFirst
  <2>3. QED
    BY <1>1, <2>1, <2>2
<1>9. id <= n + Len(q)
  BY <1>1, <1>2
<1>10. offset <= pos \/ (offset = L.max + 1 /\ L.max <= pos /\ L.split + OwnSize(q, Len(q)) < L.max)
  <2>1. CASE offset <= L.pos
    BY <1>1, <2>1
  <2>2. CASE offset = L.max + 1 /\ L.max <= L.pos /\ L.split < L.max
    <3>1. ASSUME NEW i \in 1 .. Len(q), q[i].kind = "render" PROVE FALSE
      <4>1. PICK f \in 1 .. i : IsFirst(q, f)
        BY <1>1, <3>1, FirstRender
      <4>2. f \in 1 .. Len(q) /\ q # <<>>
        BY <1>1, <1>2, EmptySeq
      <4>3. QED
        BY SMTT(30), <1>1, <2>2, <4>1, <4>2 DEF CoverPending
    <3>2. Len(q) \in 0 .. Len(q)
      BY <1>2
    <3>3. OwnSize(q, Len(q)) = 0
      BY <1>1, <3>1, <3>2, NoneBeforeFirst
    <3>4. QED
      BY <1>1, <2>2, <3>3
  <2>3. QED
    BY <1>5, <2>1, <2>2
<1>11. Saves(M, offset, id)
  BY <1>3, <1>4, <1>5, <1>7, <1>8, <1>9, <1>10 DEF Saves
<1>12. QED
  BY <1>11 DEF M

\* What an action of the bound list keeps, of what is saved of it too.
Keeps(L, M) ==
  /\ M \in ListRecord /\ M.max = L.max /\ M.maxReq = L.maxReq /\ M.astray = L.astray
  /\ L.ragged => M.ragged
  /\ Tiles(M)
  /\ \A offset, id \in Nat : Saves(L, offset, id) => Saves(M, offset, id)

\* Commands are written, and no request.
LEMMA PosKeeps ==
    ASSUME NEW L \in ListRecord, Tiles(L), NEW pos \in Nat, L.pos <= pos \/ pos = L.max,
           Within(L, pos, L.split)
    PROVE  Keeps(L, [L EXCEPT !.pos = pos])
<1> DEFINE M == [L EXCEPT !.pos = pos]
<1>1. /\ M \in ListRecord /\ M.max = L.max /\ M.maxReq = L.maxReq /\ M.astray = L.astray
      /\ M.pos = pos /\ M.split = L.split /\ M.reqs = L.reqs /\ M.ragged = L.ragged
      /\ L.split \in Nat /\ L.pos \in Nat /\ L.max \in Nat
  BY DEF ListRecord
<1> HIDE DEF M
<1>2. Tiles(M)
  BY <1>1 DEF Tiles, Within
<1>3. ASSUME NEW offset \in Nat, NEW id \in Nat, Saves(L, offset, id) PROVE Saves(M, offset, id)
  <2>1. offset <= L.pos \/ (offset = L.max + 1 /\ L.max <= L.pos /\ L.split < L.max)
    BY <1>3 DEF Saves
  <2>2. L.pos <= L.max \/ (L.pos = L.max + 1 /\ L.split < L.max)
    BY DEF Tiles, Within
  <2>3. offset <= pos \/ (offset = L.max + 1 /\ L.max <= pos /\ L.split < L.max)
    BY <1>1, <2>1, <2>2
  <2>4. QED
    BY <1>1, <1>3, <2>3 DEF Saves
<1>4. QED
  BY <1>1, <1>2, <1>3 DEF Keeps, M

\* Something that is not of whole pairs is let in.
LEMMA RaggedKeeps ==
    ASSUME NEW L \in ListRecord, Tiles(L), NEW ragged \in BOOLEAN
    PROVE  LET M == [L EXCEPT !.ragged = @ \/ ragged]
           IN /\ Keeps(L, M) /\ (M.ragged <=> L.ragged \/ ragged)
              /\ M.pos = L.pos /\ M.split = L.split /\ M.reqs = L.reqs /\ M.max = L.max
<1> DEFINE either == L.ragged \/ ragged
           M == [L EXCEPT !.ragged = either]
<1>1. either \in BOOLEAN /\ (L.ragged => either)
  OBVIOUS
<1> HIDE DEF either
<1>2. /\ M \in ListRecord /\ M.max = L.max /\ M.maxReq = L.maxReq /\ M.astray = L.astray
      /\ M.pos = L.pos /\ M.split = L.split /\ M.reqs = L.reqs /\ M.ragged = either
  BY <1>1 DEF ListRecord
<1>3. [L EXCEPT !.ragged = @ \/ ragged] = M
  BY DEF ListRecord, either
<1> HIDE DEF M
<1>4. Tiles(M)
  BY <1>1, <1>2 DEF Tiles, Within, WholeSizes
<1>5. ASSUME NEW offset \in Nat, NEW id \in Nat, Saves(L, offset, id) PROVE Saves(M, offset, id)
  BY <1>1, <1>2, <1>5 DEF Saves
<1>6. Keeps(L, M)
  BY <1>1, <1>2, <1>4, <1>5 DEF Keeps
<1>7. QED
  BY <1>2, <1>3, <1>6 DEF either

\* Requests are appended.
LEMMA AppendKeeps ==
    ASSUME NEW L \in ListRecord, Tiles(L), NEW q, FollowOn(L, q), NEW pos \in Nat,
           Within(L, pos, L.split + OwnSize(q, Len(q))), L.pos <= pos,
           q # <<>> => CoverPending(L, q)
    PROVE  Keeps(L, Appended(L, q, pos))
<1> DEFINE M == Appended(L, q, pos)
<1>1. M.max = L.max /\ M.maxReq = L.maxReq /\ M.astray = L.astray /\ M.ragged = L.ragged
  BY DEF Appended, ListRecord
<1>2. M \in ListRecord /\ Tiles(M)
  BY AppendTiles
<1>3. \A offset, id \in Nat : Saves(L, offset, id) => Saves(M, offset, id)
  BY AppendSaves
<1> HIDE DEF M
<1>4. QED
  BY <1>1, <1>2, <1>3 DEF Keeps, M

\* One thing after the other.
LEMMA KeepsOn ==
    ASSUME NEW L \in ListRecord, NEW M \in ListRecord, NEW N, Keeps(L, M), Keeps(M, N)
    PROVE  Keeps(L, N)
BY DEF Keeps

\* Or nothing at all.
LEMMA KeepsItself ==
    ASSUME NEW L \in ListRecord, Tiles(L)
    PROVE  Keeps(L, L)
BY DEF Keeps

\* Register writes, which fill the buffer when they do not fit.
LEMMA WrittenKeeps ==
    ASSUME NEW L \in ListRecord, Tiles(L), NEW n \in Nat, n % 2 = 0
    PROVE  Keeps(L, Written(L, n))
<1> DEFINE pos == IF L.pos + n < L.max THEN L.pos + n ELSE L.max
<1>1. L.pos \in Nat /\ L.max \in Nat /\ L.split \in Nat
  BY DEF ListRecord
<1>2. pos \in Nat /\ (L.pos <= pos \/ pos = L.max) /\ Within(L, pos, L.split)
  <2>1. pos \in Nat /\ pos <= L.max /\ (L.pos <= pos \/ pos = L.max)
    BY <1>1
  <2>2. L.split <= L.pos /\ L.split <= L.max /\ (L.ragged \/ (L.pos % 2 = 0 /\ L.max % 2 = 0))
    BY DEF Tiles, Within
  <2>3. L.ragged \/ pos % 2 = 0
    <3>1. L.pos % 2 = 0 => (L.pos + n) % 2 = 0
      BY <1>1
    <3>2. QED
      BY <2>2, <3>1
  <2> HIDE DEF pos
  <2>4. QED
    BY <1>1, <2>1, <2>2, <2>3 DEF Within
<1>3. Written(L, n) = [L EXCEPT !.pos = pos]
  BY DEF Written, ListRecord
<1> HIDE DEF pos
<1>4. QED
  BY <1>2, <1>3, PosKeeps

\* One pair, which may go past the end with its second word.
LEMMA OneKeeps ==
    ASSUME NEW L \in ListRecord, Tiles(L)
    PROVE  /\ Keeps(L, OneWritten(L)) /\ OneWritten(L).split = L.split /\ OneWritten(L).reqs = L.reqs
           /\ OneWritten(L).pos = (IF L.pos < L.max THEN L.pos + 2 ELSE L.pos)
           /\ OneWritten(L).ragged = L.ragged
<1> DEFINE pos == IF L.pos < L.max THEN L.pos + 2 ELSE L.pos
<1>1. L.pos \in Nat /\ L.max \in Nat /\ L.split \in Nat
  BY DEF ListRecord
<1>2. pos \in Nat /\ L.pos <= pos /\ Within(L, pos, L.split)
  <2>1. pos \in Nat /\ L.pos <= pos /\ Within(L, L.pos, L.split)
    BY <1>1 DEF Tiles
  <2>2. CASE L.pos < L.max
    <3>1. pos = L.pos + 2
      BY <2>2
    <3>2. L.ragged \/ (pos % 2 = 0 /\ pos <= L.max)
      BY <1>1, <2>1, <2>2, <3>1 DEF Within
    <3>3. QED
      BY <1>1, <2>1, <2>2, <3>1, <3>2 DEF Within
  <2>3. CASE ~(L.pos < L.max)
    BY <2>1, <2>3
  <2>4. QED
    BY <2>2, <2>3
<1>3. OneWritten(L) = [L EXCEPT !.pos = pos]
  BY DEF OneWritten, ListRecord
<1> HIDE DEF pos
<1>4. /\ [L EXCEPT !.pos = pos].split = L.split /\ [L EXCEPT !.pos = pos].reqs = L.reqs
      /\ [L EXCEPT !.pos = pos].pos = pos /\ [L EXCEPT !.pos = pos].ragged = L.ragged
  BY DEF ListRecord
<1>5. Keeps(L, [L EXCEPT !.pos = pos])
  BY <1>2, PosKeeps
<1>6. QED
  BY <1>3, <1>4, <1>5 DEF pos

\* The list is brought to a multiple of 16 bytes, unless it is full.
LEMMA EvenKeeps ==
    ASSUME NEW L \in ListRecord, Tiles(L)
    PROVE  /\ Keeps(L, Even(L)) /\ Even(L).split = L.split /\ Even(L).reqs = L.reqs
           /\ Even(L).ragged = L.ragged
           /\ L.ragged \/ Even(L).pos % 4 = 0 \/ Even(L).pos = L.max
<1>1. /\ L.pos \in Nat /\ L.max \in Nat
      /\ L.pos <= L.max \/ L.ragged
      /\ L.ragged \/ (L.pos % 2 = 0 /\ L.max % 2 = 0)
  BY DEF ListRecord, Tiles, Within
<1>2. CASE Bit8(L)
  <2>1. Even(L) = OneWritten(L) /\ (L.pos \div 2) % 2 = 1
    BY <1>2 DEF Even, Bit8
  <2>2. L.ragged \/ (L.pos + 2) % 4 = 0
    BY <1>1, <2>1
  <2>3. L.ragged \/ OneWritten(L).pos % 4 = 0 \/ OneWritten(L).pos = L.max
    BY <1>1, <2>2, OneKeeps
  <2>4. QED
    BY <2>1, <2>3, OneKeeps
<1>3. CASE ~Bit8(L)
  <2>1. Even(L) = L /\ (L.pos \div 2) % 2 # 1
    BY <1>3 DEF Even, Bit8
  <2>2. L.ragged \/ L.pos % 4 = 0
    BY <1>1, <2>1
  <2>3. QED
    BY <2>1, <2>2, KeepsItself
<1>4. QED
  BY <1>2, <1>3

\* One request.
LEMMA OneRequest ==
    ASSUME NEW r \in Request
    PROVE  /\ <<r>> \in Seq(Request) /\ Len(<<r>>) = 1 /\ <<r>>[1] = r /\ <<r>> # <<>>
           /\ \A p \in Seq(Request) : Append(p, r) = p \o <<r>>
           /\ OwnSize(<<r>>, 0) = 0
           /\ OwnSize(<<r>>, 1) = IF r.ext THEN 0 ELSE r.size
<1> DEFINE q == <<r>>
<1>1. q \in Seq(Request) /\ Len(q) = 1 /\ q[1] = r /\ q # <<>>
  OBVIOUS
<1>2. \A p \in Seq(Request) : Append(p, r) = p \o q
  BY AppendIsConcat
<1> HIDE DEF q
<1>3. /\ OwnSize(q, 0) = 0
      /\ \A k \in 1 .. 1 : OwnSize(q, k) = OwnSize(q, k - 1) + (IF q[k].ext THEN 0 ELSE q[k].size)
      /\ q[1].size \in Nat
  <2>1. 1 \in 1 .. 1
    OBVIOUS
  <2>2. QED
    BY <1>1, <2>1, RequestSizes
<1>4. OwnSize(q, 1) = IF r.ext THEN 0 ELSE r.size
  <2>1. 1 \in 1 .. 1 /\ 1 - 1 = 0
    OBVIOUS
  <2>2. OwnSize(q, 1) = 0 + (IF r.ext THEN 0 ELSE r.size)
    BY <1>1, <1>3, <2>1
  <2>3. QED
    BY <1>1, <1>3, <2>2
<1>5. QED
  BY <1>1, <1>2, <1>3, <1>4 DEF q

\* A split makes one request of all that is pending.
LEMMA SplitKeeps ==
    ASSUME NEW L \in ListRecord, Tiles(L), CanSplit(L)
    PROVE  Keeps(L, Split(L)) /\ Split(L).pos = Split(L).split
<1> DEFINE end == L.pos + SplitSize(L)
           r == Render(L.split, end - L.split, FALSE)
           q == <<r>>
<1>1. /\ L.pos \in Nat /\ L.max \in Nat /\ L.split \in Nat /\ L.split <= L.pos /\ L.reqs \in Seq(Request)
      /\ L.ragged \/ (L.pos % 2 = 0 /\ L.max % 2 = 0)
  BY DEF ListRecord, Tiles, Within
<1>2. L.ragged \/ L.split % 4 = 0
  <2>1. Len(L.reqs) \in 0 .. Len(L.reqs)
    BY <1>1, LenProperties
  <2>2. QED
    BY <2>1, SplitIsEven DEF Tiles
<1>3. /\ end \in Nat /\ L.pos < end /\ end <= L.max /\ end - L.split \in Nat
      /\ L.ragged \/ (end % 4 = 0 /\ (end - L.split) % 4 = 0)
      /\ end - L.split > 0 /\ L.split + (end - L.split) = end
  <2>1. end = IF (L.pos \div 2) % 2 = 1 THEN L.pos + 6 ELSE L.pos + 8
    BY DEF SplitSize, Bit8
  <2>2. end <= L.max
    BY DEF CanSplit
  <2> HIDE DEF end
  <2>3. end \in Nat /\ L.pos < end
    BY <1>1, <2>1
  <2>4. L.ragged \/ end % 4 = 0
    BY SMTT(30), <1>1, <2>1
  <2>5. end - L.split \in Nat /\ end - L.split > 0 /\ L.split + (end - L.split) = end
    BY <1>1, <2>3
  <2>6. L.ragged \/ (end - L.split) % 4 = 0
    BY SMTT(30), <1>1, <1>2, <2>3, <2>4
  <2>7. QED
    BY <2>2, <2>3, <2>4, <2>5, <2>6
<1> HIDE DEF end
<1>4. /\ r \in Request /\ r.kind = "render" /\ r.addr = L.split /\ r.size = end - L.split /\ ~r.ext
      /\ IsOwn(r)
  BY <1>1, <1>3 DEF Render, Request, IsOwn
<1>5. Split(L) = [L EXCEPT !.pos = end, !.split = end, !.reqs = Append(@, r)]
  BY DEF Split, end
<1> HIDE DEF r
<1>6. /\ q \in Seq(Request) /\ Len(q) = 1 /\ q[1] = r /\ q # <<>> /\ Append(L.reqs, r) = L.reqs \o q
      /\ OwnSize(q, 0) = 0 /\ OwnSize(q, 1) = end - L.split
  BY <1>1, <1>4, OneRequest
<1> HIDE DEF q
<1>7. Split(L) = Appended(L, q, end)
  BY <1>3, <1>5, <1>6 DEF Appended, ListRecord
<1>8. \A i \in 1 .. Len(q) : i = 1 /\ q[i] = r /\ i - 1 = 0
  BY <1>6
<1>9. FollowOn(L, q)
  <2>1. WholeSizes(q, L.ragged)
    BY <1>3, <1>4, <1>8 DEF WholeSizes
  <2>2. \A i \in 1 .. Len(q) : q[i].addr = L.split + OwnSize(q, i - 1)
    <3>1. L.split + 0 = L.split
      BY <1>1
    <3>2. QED
      BY <1>4, <1>6, <1>8, <3>1
  <2>3. QED
    BY <1>6, <2>1, <2>2 DEF FollowOn
<1>10. CoverPending(L, q)
  <2>1. L.pos < L.max
    BY <1>1, <1>3
  <2>2. L.pos < L.split + r.size
    BY <1>3, <1>4
  <2>3. QED
    BY <1>4, <1>8, <2>1, <2>2 DEF CoverPending
<1>11. Keeps(L, Appended(L, q, end))
  <2>1. L.split + OwnSize(q, Len(q)) = end /\ L.pos <= end
    BY <1>1, <1>3, <1>6
  <2>2. end % 4 = 0 => end % 2 = 0
    BY <1>3
  <2>3. Within(L, end, end)
    BY <1>1, <1>3, <2>1, <2>2 DEF Within
  <2>4. QED
    BY <1>3, <1>9, <1>10, <2>1, <2>3, AppendKeeps
<1>12. Split(L).pos = Split(L).split
  BY <1>5 DEF ListRecord
<1>13. QED
  BY <1>7, <1>11, <1>12

\* What is pending is split off first.
Flushed(L) == IF Pending(L) THEN Split(L) ELSE L

\* Then nothing is pending.
LEMMA FlushedKeeps ==
    ASSUME NEW L \in ListRecord, Tiles(L), Pending(L) => CanSplit(L)
    PROVE  Keeps(L, Flushed(L)) /\ Flushed(L).pos = Flushed(L).split
BY SplitKeeps, KeepsItself DEF Flushed, Pending

\* Requests that are not of the list's own buffer add nothing to it.
LEMMA NoneOwn ==
    ASSUME NEW q \in Seq(Request), NEW k \in 0 .. Len(q), \A i \in 1 .. k : ~IsOwn(q[i])
    PROVE  OwnSize(q, k) = 0
<1> DEFINE own == [i \in DOMAIN q |-> IF q[i].ext THEN 0 ELSE q[i].size]
<1>1. Len(q) \in Nat /\ DOMAIN q = 1 .. Len(q) /\ \A i \in 1 .. Len(q) : q[i] \in Request
  BY RequestSizes
<1>2. ASSUME NEW i \in 1 .. k PROVE own[i] = 0
  <2>1. i \in 1 .. Len(q) /\ i \in DOMAIN q
    BY <1>1
  <2>2. q[i] \in Request /\ ~IsOwn(q[i])
    BY <1>1, <2>1
  <2>3. q[i].ext \/ q[i].size = 0
    BY <2>2 DEF Request, OtherRequest, IsOwn
  <2>4. QED
    BY <2>1, <2>3
<1> HIDE DEF own
<1>3. k \in Nat
  BY <1>1
<1>4. Total(own, k) = 0
  BY <1>2, <1>3, TotalOfNone
<1>5. QED
  BY <1>4 DEF OwnSize, own

\* Such requests are appended when nothing is pending, others than to render always.
LEMMA OthersKeep ==
    ASSUME NEW L \in ListRecord, Tiles(L), NEW q \in Seq(Request), WholeSizes(q, L.ragged),
           \A i \in 1 .. Len(q) : ~IsOwn(q[i]),
           L.pos = L.split \/ \A i \in 1 .. Len(q) : q[i].kind # "render"
    PROVE  Keeps(L, [L EXCEPT !.reqs = @ \o q])
<1>1. /\ L.pos \in Nat /\ L.split \in Nat /\ L.max \in Nat /\ Within(L, L.pos, L.split)
      /\ L.reqs \in Seq(Request) /\ Len(q) \in Nat
  BY LenProperties DEF ListRecord, Tiles
<1>2. OwnSize(q, Len(q)) = 0
  BY <1>1, NoneOwn
<1>3. FollowOn(L, q)
  BY DEF FollowOn
<1> DEFINE M == [L EXCEPT !.reqs = @ \o q]
<1>4. Appended(L, q, L.pos) = M
  <2>1. L.split + OwnSize(q, Len(q)) = L.split
    BY <1>1, <1>2
  <2>2. QED
    BY <2>1 DEF Appended, ListRecord
<1> HIDE DEF M
<1>5. L.pos = L.split => CoverPending(L, q)
  BY DEF CoverPending
<1>6. CASE L.pos = L.split
  <2>1. Within(L, L.pos, L.split + OwnSize(q, Len(q)))
    BY <1>1, <1>2
  <2>2. L.pos <= L.pos
    BY <1>1
  <2>3. Keeps(L, Appended(L, q, L.pos))
    BY <1>1, <1>3, <1>5, <1>6, <2>1, <2>2, AppendKeeps
  <2>4. QED
    BY <1>4, <2>3 DEF M
<1>7. CASE \A i \in 1 .. Len(q) : q[i].kind # "render"
  <2>1. M \in ListRecord /\ Tiles(M)
    <3>1. Within(L, L.pos, L.split + OwnSize(q, Len(q)))
      BY <1>1, <1>2
    <3>2. QED
      BY <1>1, <1>3, <1>4, <3>1, AppendTiles
  <2>2. /\ M.max = L.max /\ M.maxReq = L.maxReq /\ M.astray = L.astray /\ M.pos = L.pos
        /\ M.ragged = L.ragged /\ M.reqs = L.reqs \o q /\ M.split = L.split
    BY DEF M, ListRecord
  <2>3. ASSUME NEW offset \in Nat, NEW id \in Nat, Saves(L, offset, id) PROVE Saves(M, offset, id)
    <3> DEFINE n == Len(L.reqs)
               r == L.reqs \o q
    <3>1. n \in Nat /\ id <= n /\ id \in 0 .. n
      <4>1. n \in Nat
        BY <1>1, LenProperties
      <4>2. QED
        BY <2>3, <4>1 DEF Saves
    <3>2. /\ Len(r) = n + Len(q) /\ OwnSize(r, id) = OwnSize(L.reqs, id)
          /\ \A i \in 1 .. n : r[i] = L.reqs[i]
          /\ \A i \in 1 .. Len(q) : r[n + i] = q[i]
      BY <1>1, <3>1, SizesJoined
    <3> HIDE DEF r
    <3>3. ASSUME NEW i \in id + 1 .. n + Len(q), r[i].kind = "render" PROVE i \in id + 1 .. n
      <4>1. CASE i > n
        <5>1. i - n \in 1 .. Len(q) /\ n + (i - n) = i
          BY <1>1, <3>1, <4>1
        <5>2. QED
          BY <1>7, <3>2, <3>3, <5>1
      <4>2. CASE ~(i > n)
        BY <3>1, <4>2
      <4>3. QED
        BY <4>1, <4>2
    <3>4. \A i \in id + 1 .. n :
            /\ r[i] = L.reqs[i] /\ i \in id + 1 .. n + Len(q)
            /\ \A j \in id + 1 .. i - 1 : r[j] = L.reqs[j]
      <4>1. \A i \in id + 1 .. n :
              i \in 1 .. n /\ i \in id + 1 .. n + Len(q) /\ \A j \in id + 1 .. i - 1 : j \in 1 .. n
        BY <1>1, <3>1
      <4>2. QED
        BY <3>2, <4>1
    <3>5. id <= n + Len(q)
      BY <1>1, <3>1
    <3> HIDE DEF n
    <3>6. /\ OwnSize(L.reqs, id) <= offset
          /\ offset <= L.pos \/ (offset = L.max + 1 /\ L.max <= L.pos /\ L.split < L.max)
          /\ L.ragged \/ offset % 4 = 0 \/ offset = L.max
          /\ \A i \in id + 1 .. n :
               /\ L.reqs[i].kind = "render" /\ \A j \in id + 1 .. i - 1 : L.reqs[j].kind # "render"
               => IF IsOwn(L.reqs[i])
                  THEN /\ L.reqs[i].addr = OwnSize(L.reqs, id)
                       /\ offset < OwnSize(L.reqs, id) + L.reqs[i].size /\ (L.ragged \/ offset % 4 = 0)
                  ELSE offset = OwnSize(L.reqs, id)
          /\ (\A i \in id + 1 .. n : L.reqs[i].kind # "render") => L.split = OwnSize(L.reqs, id)
      BY <2>3 DEF Saves, n
    <3>7. ASSUME NEW i \in id + 1 .. n + Len(q),
                 r[i].kind = "render", \A j \in id + 1 .. i - 1 : r[j].kind # "render"
          PROVE  IF IsOwn(r[i])
                 THEN /\ r[i].addr = OwnSize(L.reqs, id)
                      /\ offset < OwnSize(L.reqs, id) + r[i].size /\ (L.ragged \/ offset % 4 = 0)
                 ELSE offset = OwnSize(L.reqs, id)
      BY <3>3, <3>4, <3>6, <3>7
    <3>8. (\A i \in id + 1 .. n + Len(q) : r[i].kind # "render") => L.split = OwnSize(L.reqs, id)
      BY <3>4, <3>6
    <3>9. QED
      BY <2>2, <3>2, <3>5, <3>6, <3>7, <3>8 DEF Saves, r
  <2>4. QED
    BY <2>1, <2>2, <2>3 DEF Keeps, M
<1>8. QED
  BY <1>6, <1>7

\* One such request.
LEMMA OtherKeeps ==
    ASSUME NEW L \in ListRecord, Tiles(L), NEW r \in Request, ~IsOwn(r),
           r.kind = "render" => L.pos = L.split /\ r.size > 0 /\ r.size % 4 = 0
    PROVE  Keeps(L, [L EXCEPT !.reqs = Append(@, r)])
<1>1. /\ <<r>> \in Seq(Request) /\ Len(<<r>>) = 1 /\ <<r>>[1] = r
      /\ Append(L.reqs, r) = L.reqs \o <<r>>
  BY OneRequest DEF ListRecord
<1> DEFINE q == <<r>>
<1>2. \A i \in 1 .. Len(q) : q[i] = r
  BY <1>1
<1>3. [L EXCEPT !.reqs = Append(@, r)] = [L EXCEPT !.reqs = @ \o q]
  BY <1>1 DEF ListRecord
<1>4. q \in Seq(Request)
  BY <1>1
<1> HIDE DEF q
<1>5. WholeSizes(q, L.ragged)
  BY <1>2 DEF WholeSizes
<1>6. QED
  BY <1>2, <1>3, <1>4, <1>5, OthersKeep

\* A function on the first n numbers is a sequence.
LEMMA FunctionIsRequests ==
    ASSUME NEW n \in Nat, NEW f \in [1 .. n -> Request]
    PROVE  f \in Seq(Request) /\ Len(f) = n
BY SeqDef

\* Of what is saved, the first request of its own begins at the offset, and is whole.
LEMMA FromIs ==
    ASSUME NEW q \in Seq(Request), NEW offset \in Nat, NEW size, NEW ragged,
           SavedFits(q, offset, size, ragged),
           NEW i \in 1 .. Len(q), IsFirstOwn(q, i)
    PROVE  LET r == From(offset, q[i])
           IN r \in Request /\ r.kind = "render" /\ IsOwn(r) /\ r.size > 0 /\ (ragged \/ r.size % 4 = 0)
<1> DEFINE a == q[i].addr
           b == q[i].size
           s == b - (offset - a)
<1>1. q[i].kind = "render"
  BY DEF IsFirstOwn, IsOwn
<1>2. /\ a \in Nat /\ b \in Nat /\ a <= offset /\ offset < a + b
      /\ ragged \/ (offset % 4 = 0 /\ a % 4 = 0 /\ b % 4 = 0)
  BY <1>1, RequestSizes DEF SavedFits, WholeSizes
<1>3. From(offset, q[i]) = Render(offset, s, FALSE)
  BY DEF From
<1> HIDE DEF a, b
<1>4. s \in Nat /\ s > 0
  BY <1>2
<1>5. ragged \/ s % 4 = 0
  <2>1. (b - (offset - a)) = (b + a) - offset
    BY <1>2
  <2>2. CASE offset % 4 = 0 /\ a % 4 = 0 /\ b % 4 = 0
    BY <1>2, <2>1, <2>2
  <2>3. QED
    BY <1>2, <2>2
<1> HIDE DEF s
<1>6. QED
  BY <1>3, <1>4, <1>5 DEF Render, Request, IsOwn

\* So it is with copying, if no other of rendering is before it.
LEMMA TrimmedIs ==
    ASSUME NEW q \in Seq(Request), NEW offset \in Nat, NEW size, NEW ragged,
           SavedFits(q, offset, size, ragged)
    PROVE  LET t == Trimmed(q, offset)
           IN /\ t \in Seq(Request) /\ Len(t) = Len(q) /\ WholeSizes(t, ragged)
              /\ \A i \in 1 .. Len(q) : t[i].kind = q[i].kind /\ (IsOwn(t[i]) <=> IsOwn(q[i]))
<1> DEFINE t == Trimmed(q, offset)
           n == Len(q)
<1>1. n \in Nat /\ DOMAIN q = 1 .. n /\ \A i \in 1 .. n : q[i] \in Request
  BY RequestSizes
<1>2. /\ DOMAIN t = 1 .. n
      /\ \A i \in 1 .. n : t[i] = IF IsFirst(q, i) /\ ~q[i].ext THEN From(offset, q[i]) ELSE q[i]
      /\ t = [i \in 1 .. n |-> t[i]]
  BY <1>1 DEF Trimmed
<1> HIDE DEF t, n
<1>3. ASSUME NEW i \in 1 .. n
      PROVE  /\ t[i] \in Request /\ t[i].kind = q[i].kind /\ (IsOwn(t[i]) <=> IsOwn(q[i]))
             /\ t[i].kind = "render" => t[i].size > 0 /\ (ragged \/ t[i].size % 4 = 0)
  <2>1. q[i] \in Request /\ (q[i].kind = "render" => q[i].size > 0 /\ (ragged \/ q[i].size % 4 = 0))
    BY <1>1 DEF SavedFits, WholeSizes, n
  <2>2. CASE IsFirst(q, i) /\ ~q[i].ext
    <3>1. IsFirstOwn(q, i) /\ q[i].kind = "render" /\ IsOwn(q[i])
      BY <2>2 DEF IsFirst, IsOwn, IsFirstOwn
    <3>2. t[i] = From(offset, q[i])
      BY <1>2, <2>2
    <3> DEFINE r == From(offset, q[i])
    <3>3. /\ r \in Request /\ r.kind = "render" /\ IsOwn(r) /\ r.size > 0
          /\ ragged \/ r.size % 4 = 0
      BY <3>1, FromIs DEF n
    <3> HIDE DEF r
    <3>4. t[i] = r
      BY <3>2 DEF r
    <3>5. QED
      BY <3>1, <3>3, <3>4
  <2>3. CASE ~(IsFirst(q, i) /\ ~q[i].ext)
    BY <1>2, <2>1, <2>3
  <2>4. QED
    BY <2>2, <2>3
<1>4. t \in Seq(Request) /\ Len(t) = n
  <2>1. t \in [1 .. n -> Request]
    BY <1>2, <1>3
  <2>2. n \in Nat
    BY <1>1
  <2>3. QED
    BY <2>1, <2>2, FunctionIsRequests
<1>5. WholeSizes(t, ragged)
  BY <1>3, <1>4 DEF WholeSizes
<1>6. QED
  BY <1>3, <1>4, <1>5 DEF t, n

\* A list that is saved until now has what is saved of it up to its last split.
LEMMA SavedOfList ==
    ASSUME NEW L \in ListRecord, Tiles(L), NEW offset \in Nat, NEW id \in Nat, Saves(L, offset, id)
    PROVE  LET q == SubSeq(L.reqs, id + 1, Len(L.reqs))
           IN  q \in Seq(Request) /\ SavedFits(q, offset, L.pos - offset, L.ragged)
<1> DEFINE p == L.reqs
           n == Len(p)
           m == n - id
           q == SubSeq(p, id + 1, n)
           start == OwnSize(p, id)
           f == [i \in DOMAIN p |-> IF p[i].ext THEN 0 ELSE p[i].size]
           g == [i \in DOMAIN q |-> IF q[i].ext THEN 0 ELSE q[i].size]
<1>1. /\ p \in Seq(Request) /\ n \in Nat /\ id <= n /\ m \in Nat
      /\ L.pos \in Nat /\ L.max \in Nat
      /\ L.ragged \/ (L.pos % 2 = 0 /\ L.max % 2 = 0)
  <2>1. /\ p \in Seq(Request) /\ L.pos \in Nat /\ L.max \in Nat
        /\ L.ragged \/ (L.pos % 2 = 0 /\ L.max % 2 = 0)
    BY DEF ListRecord, Tiles, Within
  <2>2. n \in Nat /\ id <= n
    BY <2>1, LenProperties DEF Saves
  <2>3. QED
    BY <2>1, <2>2
<1>2. q \in Seq(Request) /\ Len(q) = m /\ \A i \in 1 .. m : q[i] = p[id + i] /\ id + i \in id + 1 .. n
  <2>1. id + 1 \in 1 .. n + 1 /\ n \in id .. n
    BY <1>1
  <2>2. q \in Seq(Request) /\ Len(q) = IF id + 1 <= n THEN n - (id + 1) + 1 ELSE 0
    <3>1. \A i \in id + 1 .. n : p[i] \in Request
      BY <1>1, RequestSizes
    <3>2. QED
      BY <1>1, <3>1, SubSeqProperties
  <2>3. Len(q) = m
    BY <1>1, <2>2
  <2>4. \A i \in 1 .. m : q[i] = p[id + i]
    <3>1. \A i \in 1 .. m : id + 1 + i - 1 = id + i
      BY <1>1
    <3>2. \A i \in 1 .. n - (id + 1) + 1 : q[i] = p[id + 1 + i - 1]
      BY <1>1, SubSeqProperties
    <3>3. n - (id + 1) + 1 = m
      BY <1>1
    <3>4. QED
      BY <3>1, <3>2, <3>3
  <2>5. \A i \in 1 .. m : id + i \in id + 1 .. n
    BY <1>1
  <2>6. QED
    BY <2>2, <2>3, <2>4, <2>5
<1>3. /\ DOMAIN p = 1 .. n /\ DOMAIN q = 1 .. m
      /\ \A i \in 1 .. n : p[i] \in Request /\ p[i].size \in Nat /\ p[i].addr \in Nat
      /\ \A k \in 0 .. n : OwnSize(p, k) \in Nat
      /\ \A k \in 0 .. m : OwnSize(q, k) \in Nat
  BY <1>1, <1>2, RequestSizes
<1> HIDE DEF q
<1>4. /\ start <= offset
      /\ L.ragged \/ offset % 4 = 0 \/ offset = L.max
      /\ \A i \in id + 1 .. n :
          /\ p[i].kind = "render" /\ \A j \in id + 1 .. i - 1 : p[j].kind # "render"
          => IF IsOwn(p[i])
             THEN p[i].addr = start /\ offset < start + p[i].size /\ (L.ragged \/ offset % 4 = 0)
             ELSE offset = start
  BY DEF Saves
<1>5. start \in Nat /\ (L.ragged \/ start % 4 = 0)
  <2>1. id \in 0 .. n
    BY <1>1
  <2>2. QED
    BY <1>1, <1>3, <2>1, SplitIsEven
<1>6. WholeSizes(q, L.ragged)
  <2>1. \A i \in 1 .. m : id + i \in 1 .. n
    BY <1>1
  <2>2. QED
    <3> SUFFICES ASSUME NEW i \in 1 .. Len(q), q[i].kind = "render"
                 PROVE  q[i].size > 0 /\ (L.ragged \/ q[i].size % 4 = 0)
      BY DEF WholeSizes
    <3>1. q[i] = p[id + i] /\ id + i \in 1 .. Len(p)
      BY <1>1, <1>2, <2>1
    <3>2. WholeSizes(p, L.ragged)
      BY DEF Tiles
    <3>3. QED
      BY <3>1, <3>2 DEF WholeSizes
<1>7. \A k \in 0 .. m : OwnSize(q, k) = OwnSize(p, id + k) - start
  <2>1. \A k : OwnSize(p, k) = Total(f, k) /\ OwnSize(q, k) = Total(g, k)
    BY DEF OwnSize
  <2>2. IsPart(g, f, id, m)
    <3>1. id + m = n /\ \A i \in 1 .. m : id + i \in 1 .. n
      BY <1>1
    <3>2. \A i \in 1 .. m : f[id + i] \in Int /\ g[i] = f[id + i]
      <4>1. \A i \in 1 .. n : f[i] = (IF p[i].ext THEN 0 ELSE p[i].size) /\ f[i] \in Int
        BY <1>3
      <4>2. \A i \in 1 .. m : g[i] = (IF p[id + i].ext THEN 0 ELSE p[id + i].size)
        BY <1>2, <1>3
      <4> HIDE DEF f, g, p
      <4>3. QED
        BY <3>1, <4>1, <4>2
    <3> HIDE DEF f, g
    <3>3. \A k \in 0 .. id + m : Total(f, k) \in Int
      BY <1>3, <2>1, <3>1
    <3>4. QED
      BY <3>2, <3>3 DEF IsPart
  <2> HIDE DEF f, g
  <2>3. \A k \in 0 .. m : Total(g, k) = Total(f, id + k) - Total(f, id)
    BY <1>1, <2>2, TotalOfPart
  <2>4. QED
    BY <2>1, <2>3
<1>8. L.ragged \/ (L.pos - offset) % 2 = 0
  <2>1. offset % 4 = 0 => offset % 2 = 0
    OBVIOUS
  <2>2. L.pos % 2 = 0 /\ offset % 2 = 0 => (L.pos - offset) % 2 = 0
    BY <1>1
  <2>3. QED
    BY <1>1, <1>4, <2>1, <2>2
<1>9. ASSUME NEW i \in 1 .. m, IsFirst(q, i)
      PROVE  IF IsOwn(q[i])
             THEN q[i].addr = start /\ offset < start + q[i].size /\ (L.ragged \/ offset % 4 = 0)
             ELSE offset = start
  <2>1. id + i \in id + 1 .. n /\ p[id + i] = q[i] /\ q[i].kind = "render"
    BY <1>2, <1>9 DEF IsFirst
  <2>2. ASSUME NEW j \in id + 1 .. (id + i) - 1 PROVE p[j].kind # "render"
    <3>1. j - id \in 1 .. i - 1 /\ j - id \in 1 .. m /\ id + (j - id) = j
      BY <1>1
    <3>2. q[j - id] = p[j] /\ q[j - id].kind # "render"
      BY <1>2, <1>9, <3>1 DEF IsFirst
    <3>3. QED
      BY <3>2
  <2>3. QED
    BY <1>4, <2>1, <2>2
\* After a request to render in place the offset is at the last split.
<1>10. ASSUME NEW i \in 1 .. m, IsFirstOwn(q, i)
       PROVE  /\ q[i].addr <= offset /\ offset < q[i].addr + q[i].size
              /\ L.ragged \/ (offset % 4 = 0 /\ q[i].addr % 4 = 0)
  <2>1. IsOwn(q[i]) /\ q[i].kind = "render" /\ q[i].size \in Nat /\ q[i].size > 0
    <3>1. IsOwn(q[i]) /\ q[i].kind = "render"
      BY <1>10 DEF IsFirstOwn, IsOwn
    <3>2. QED
      BY <1>2, <1>6, <3>1, RequestSizes DEF WholeSizes
  <2>2. CASE IsFirst(q, i)
    BY <1>4, <1>5, <1>9, <2>1, <2>2
  <2>3. CASE ~IsFirst(q, i)
    <3>1. PICK k \in 1 .. i : IsFirst(q, k)
      BY <1>2, <2>1, FirstRender
    <3>2. k \in 1 .. m /\ k \in 1 .. i - 1
      <4>1. k # i
        BY <2>3, <3>1
      <4>2. QED
        BY <1>1, <4>1
    <3>3. offset = start
      BY <1>9, <1>10, <3>1, <3>2 DEF IsFirstOwn
    <3>4. q[i].addr = OwnSize(p, id + (i - 1))
      <4>1. id + i \in 1 .. n /\ (id + i) - 1 = id + (i - 1) /\ q[i] = p[id + i]
        BY SMTT(30), <1>1, <1>2
      <4>2. IsOwn(p[id + i])
        BY <2>1, <4>1
      <4>3. p[id + i].addr = OwnSize(p, (id + i) - 1)
        BY <4>1, <4>2 DEF Tiles
      <4>4. QED
        BY <4>1, <4>3
    <3>5. OwnSize(q, i - 1) = 0
      <4>1. i - 1 \in 0 .. Len(q) /\ \A j \in 1 .. i - 1 : ~IsOwn(q[j])
        BY <1>1, <1>2, <1>10 DEF IsFirstOwn
      <4>2. QED
        BY <1>2, <4>1, NoneOwn
    <3>6. q[i].addr = start
      <4>1. i - 1 \in 0 .. m /\ id + (i - 1) \in 0 .. n
        BY <1>1
      <4>2. OwnSize(p, id + (i - 1)) \in Nat /\ OwnSize(q, i - 1) = OwnSize(p, id + (i - 1)) - start
        BY <1>3, <1>7, <4>1
      <4>3. QED
        BY <1>5, <3>4, <3>5, <4>2
    <3>7. QED
      <4> DEFINE a == q[i].addr
                 b == q[i].size
      <4>1. a = start /\ b \in Nat /\ b > 0
        BY <2>1, <3>6
      <4> HIDE DEF a, b, start
      <4>2. a <= offset /\ offset < a + b /\ (L.ragged \/ (offset % 4 = 0 /\ a % 4 = 0))
        BY <1>5, <3>3, <4>1
      <4>3. QED
        BY <4>2 DEF a, b
  <2>4. QED
    BY <2>2, <2>3
<1>11. SavedFits(q, offset, L.pos - offset, L.ragged)
  BY <1>2, <1>6, <1>8, <1>10 DEF SavedFits
<1>12. QED
  BY <1>2, <1>11 DEF q

\* What was saved, run where it is: a request that is in another list's buffer.
LEMMA UsedKeeps ==
    ASSUME NEW L \in ListRecord, Tiles(L), L.pos = L.split,
           NEW q \in Seq(Request), NEW offset \in Nat, NEW size, NEW ragged,
           SavedFits(q, offset, size, ragged), ragged => L.ragged
    PROVE  Keeps(L, [L EXCEPT !.reqs = @ \o InPlace(q, offset)])
<1> DEFINE n == Len(q)
           u == InPlace(q, offset)
           Part(i) == IF IsFirstOwn(q, i) THEN From(offset, q[i]) ELSE q[i]
<1>1. n \in Nat /\ DOMAIN q = 1 .. n /\ \A i \in 1 .. n : q[i] \in Request
  BY RequestSizes
<1>2. ASSUME NEW i \in 1 .. n
      PROVE  /\ Part(i) \in Request
             /\ Part(i).kind = "render" => Part(i).size > 0 /\ (L.ragged \/ Part(i).size % 4 = 0)
  BY <1>1, FromIs DEF SavedFits, WholeSizes
<1>3. \A i \in 1 .. n : u[i] = IF Part(i).kind = "render" THEN [Part(i) EXCEPT !.ext = TRUE] ELSE Part(i)
  BY <1>1 DEF InPlace
<1>4. DOMAIN u = 1 .. n /\ u = [i \in 1 .. n |-> u[i]]
  BY <1>1 DEF InPlace
<1> HIDE DEF n, u, Part
<1>5. ASSUME NEW i \in 1 .. n
      PROVE  /\ u[i] \in Request /\ ~IsOwn(u[i])
             /\ u[i].kind = "render" => u[i].size > 0 /\ (L.ragged \/ u[i].size % 4 = 0)
  <2> DEFINE r == Part(i)
             v == u[i]
  <2>1. /\ r \in Request /\ (r.kind = "render" => r.size > 0 /\ (L.ragged \/ r.size % 4 = 0))
        /\ v = IF r.kind = "render" THEN [r EXCEPT !.ext = TRUE] ELSE r
    BY <1>2, <1>3
  <2> HIDE DEF r, v
  <2>2. CASE r.kind # "render"
    BY <2>1, <2>2 DEF IsOwn, v
  <2>3. CASE r.kind = "render"
    <3>1. r \in [kind : {"render"}, addr : Nat, size : Nat, ext : BOOLEAN]
      BY <2>1, <2>3 DEF Request, OtherRequest
    <3>2. v = [kind |-> "render", addr |-> r.addr, size |-> r.size, ext |-> TRUE]
      BY <2>1, <2>3, <3>1
    <3>3. v \in Request /\ v.ext = TRUE /\ v.size = r.size
      BY <3>1, <3>2 DEF Request
    <3>4. QED
      BY <2>1, <2>3, <3>3 DEF IsOwn, v
  <2>4. QED
    BY <2>2, <2>3 DEF v
<1>6. u \in Seq(Request) /\ Len(u) = n
  <2>1. u \in [1 .. n -> Request]
    BY <1>4, <1>5
  <2>2. QED
    BY <1>1, <2>1, FunctionIsRequests
<1>7. WholeSizes(u, L.ragged) /\ \A i \in 1 .. Len(u) : ~IsOwn(u[i])
  BY <1>5, <1>6 DEF WholeSizes
<1>8. Keeps(L, [L EXCEPT !.reqs = @ \o u])
  BY <1>6, <1>7, OthersKeep
<1>9. QED
  BY <1>8 DEF u

\* A sum is no less than any that is added.
LEMMA TotalOfAny ==
    ASSUME NEW n \in Nat, NEW g \in [1 .. n -> Nat]
    PROVE  \A i \in 1 .. n : g[i] <= Total(g, n)
<1> DEFINE S == {k \in Nat : k <= n => \A i \in 1 .. k : g[i] <= Total(g, k)}
<1>1. /\ \A k \in 0 .. n : Total(g, k) \in Nat
      /\ \A k \in 1 .. n : Total(g, k) = Total(g, k - 1) + g[k] /\ g[k] \in Nat
  BY TotalIsNat
<1>2. 0 \in S
  OBVIOUS
<1>3. ASSUME NEW k \in S PROVE k + 1 \in S
  <2>1. SUFFICES ASSUME k + 1 <= n, NEW i \in 1 .. k + 1 PROVE g[i] <= Total(g, k + 1)
    OBVIOUS
  <2>2. k + 1 \in 1 .. n /\ k \in 0 .. n /\ (k + 1) - 1 = k /\ i \in 1 .. n
    BY <2>1
  <2>3. /\ Total(g, k + 1) = Total(g, k) + g[k + 1]
        /\ g[k + 1] \in Nat /\ Total(g, k) \in Nat /\ g[i] \in Nat
    BY <1>1, <2>2
  <2>4. CASE i = k + 1
    BY <2>3, <2>4
  <2>5. CASE i # k + 1
    <3>1. g[i] <= Total(g, k)
      BY <2>1, <2>5
    <3>2. QED
      BY <2>3, <3>1
  <2>6. QED
    BY <2>4, <2>5
<1> HIDE DEF S
<1>4. S = Nat
  BY <1>2, <1>3, AllNaturals DEF S
<1>5. n \in S /\ n <= n
  BY <1>4
<1>6. QED
  BY <1>5 DEF S

\* The copies of what was saved: the sizes are the same, but the first of rendering
\* has the head before it.
LEMMA CopiesAre ==
    ASSUME saved.reqs \in Seq(Request), saved.offset \in Nat,
           SavedFits(saved.reqs, saved.offset, saved.size, saved.ragged),
           NEW L \in ListRecord, Tiles(L)
    PROVE  LET q == saved.reqs
               t == Trimmed(q, saved.offset)
               c == CopiesOf(L, t)
           IN /\ c \in Seq(Request) /\ Len(c) = Len(q)
              /\ \A i \in 1 .. Len(q) :
                   /\ c[i].kind = q[i].kind /\ ~c[i].ext
                   /\ c[i].size = t[i].size + (IF IsFirst(q, i) THEN L.pos - L.split ELSE 0)
                   /\ IsFirst(q, i) => c[i].addr = L.split
                   /\ q[i].kind = "render" /\ ~IsFirst(q, i) => c[i].addr = L.pos + SizeOf(t, i - 1)
              /\ \A k \in 0 .. Len(q) : SizeOf(c, k) = OwnSize(c, k)
<1> DEFINE q == saved.reqs
           n == Len(q)
           t == Trimmed(q, saved.offset)
           c == CopiesOf(L, t)
           head == L.pos - L.split
<1>1. n \in Nat /\ DOMAIN q = 1 .. n /\ \A i \in 1 .. n : q[i] \in Request
  BY RequestSizes
<1>2. t \in Seq(Request) /\ Len(t) = n /\ \A i \in 1 .. n : t[i].kind = q[i].kind
  BY TrimmedIs
<1>3. L.pos \in Nat /\ L.split \in Nat /\ head \in Nat
  <2>1. L.pos \in Nat /\ L.split \in Nat /\ L.split <= L.pos
    BY DEF ListRecord, Tiles, Within
  <2>2. QED
    BY <2>1
<1>4. ASSUME NEW i \in 1 .. n
      PROVE  t[i] \in Request /\ t[i].size \in Nat /\ SizeOf(t, i - 1) \in Nat
  <2>1. i - 1 \in 0 .. n
    BY <1>1
  <2>2. QED
    BY <1>2, <2>1, RequestSizes
<1> HIDE DEF head
<1>5. /\ DOMAIN c = 1 .. n /\ c = [i \in 1 .. n |-> c[i]]
      /\ \A i \in 1 .. n :
           c[i] = IF q[i].kind = "render"
                  THEN IF IsFirst(q, i) THEN Render(L.split, head + t[i].size, FALSE)
                       ELSE Render(L.pos + SizeOf(t, i - 1), t[i].size, FALSE)
                  ELSE q[i]
  BY <1>1 DEF CopiesOf, head
<1> HIDE DEF c, t, n
<1>6. ASSUME NEW i \in 1 .. n
      PROVE  /\ c[i] \in Request /\ c[i].kind = q[i].kind /\ c[i].ext = FALSE
             /\ c[i].size = t[i].size + (IF IsFirst(q, i) THEN head ELSE 0)
             /\ IsFirst(q, i) => c[i].addr = L.split
             /\ q[i].kind = "render" /\ ~IsFirst(q, i) => c[i].addr = L.pos + SizeOf(t, i - 1)
  <2>1. CASE q[i].kind # "render"
    <3>1. c[i] = q[i] /\ ~IsFirst(q, i) /\ q[i] = OtherRequest
      BY <1>1, <1>5, <2>1 DEF Request, IsFirst
    <3>2. t[i] \in Request /\ t[i].kind # "render"
      BY <1>2, <1>4, <2>1
    <3>3. t[i] = OtherRequest
      BY <3>2 DEF Request
    <3>4. QED
      BY <1>1, <3>1, <3>3 DEF OtherRequest
  <2>2. CASE q[i].kind = "render" /\ IsFirst(q, i)
    <3>1. c[i] = Render(L.split, head + t[i].size, FALSE)
      BY <1>5, <2>2
    <3>2. head + t[i].size \in Nat /\ head + t[i].size = t[i].size + head
      BY SMTT(30), <1>3, <1>4
    <3> DEFINE s == head + t[i].size
    <3> HIDE DEF s
    <3>3. /\ c[i] \in Request /\ c[i].kind = "render" /\ c[i].ext = FALSE /\ c[i].size = s
          /\ c[i].addr = L.split
      <4>1. c[i] = Render(L.split, s, FALSE) /\ s \in Nat
        BY <3>1, <3>2 DEF s
      <4>2. QED
        BY <1>3, <4>1 DEF Request, Render
    <3>4. QED
      BY <2>2, <3>2, <3>3 DEF s
  <2>3. CASE q[i].kind = "render" /\ ~IsFirst(q, i)
    <3> DEFINE a == L.pos + SizeOf(t, i - 1)
    <3>1. c[i] = Render(a, t[i].size, FALSE)
      BY <1>5, <2>3
    <3>2. a \in Nat /\ t[i].size + 0 = t[i].size
      BY <1>3, <1>4
    <3> HIDE DEF a
    <3>3. /\ c[i] \in Request /\ c[i].kind = "render" /\ c[i].ext = FALSE /\ c[i].size = t[i].size
          /\ c[i].addr = a
      BY <1>4, <3>1, <3>2 DEF Request, Render
    <3>4. QED
      BY <2>3, <3>2, <3>3 DEF a
  <2>4. QED
    BY <2>1, <2>2, <2>3
<1>7. c \in Seq(Request) /\ Len(c) = n
  <2>1. c \in [1 .. n -> Request]
    BY <1>5, <1>6
  <2>2. QED
    BY <1>1, <2>1, FunctionIsRequests
<1>8. \A k : SizeOf(c, k) = OwnSize(c, k)
  <2>1. [i \in DOMAIN c |-> c[i].size] = [i \in DOMAIN c |-> IF c[i].ext THEN 0 ELSE c[i].size]
    BY <1>5, <1>6
  <2>2. QED
    BY <2>1 DEF SizeOf, OwnSize
<1>9. \A i \in 1 .. n : ~c[i].ext
  BY <1>6
<1>10. QED
  BY <1>6, <1>7, <1>8, <1>9 DEF c, t, n, head

\* They go on where the list's own requests end, and the first has what is pending.
LEMMA CopiesFollow ==
    ASSUME saved.reqs \in Seq(Request), saved.offset \in Nat,
           SavedFits(saved.reqs, saved.offset, saved.size, saved.ragged),
           NEW L \in ListRecord, Tiles(L), saved.ragged => L.ragged,
           saved.reqs # <<>> => \/ L.pos = L.split
                                \/ Joins /\ (L.ragged \/ L.pos % 4 = 0 \/ L.pos = L.max),
           L.pos + SizeOf(Trimmed(saved.reqs, saved.offset), Len(saved.reqs)) <= L.max
    PROVE  LET t == Trimmed(saved.reqs, saved.offset)
               c == CopiesOf(L, t)
           IN /\ FollowOn(L, c) /\ (c # <<>> => CoverPending(L, c))
              /\ L.split + OwnSize(c, Len(c)) <= L.pos + SizeOf(t, Len(t))
<1> DEFINE q == saved.reqs
           n == Len(q)
           t == Trimmed(q, saved.offset)
           c == CopiesOf(L, t)
           head == L.pos - L.split
           f == [i \in DOMAIN t |-> t[i].size]
           g == [i \in DOMAIN c |-> c[i].size]
<1>1. n \in Nat /\ DOMAIN q = 1 .. n /\ \A i \in 1 .. n : q[i] \in Request
  BY RequestSizes
<1>2. /\ t \in Seq(Request) /\ Len(t) = n /\ WholeSizes(t, L.ragged)
      /\ \A i \in 1 .. n : t[i].kind = q[i].kind
  <2>1. WholeSizes(t, saved.ragged)
    BY TrimmedIs
  <2>2. WholeSizes(t, L.ragged)
    BY <2>1 DEF WholeSizes
  <2>3. QED
    BY <2>2, TrimmedIs
<1>3. /\ L.pos \in Nat /\ L.split \in Nat /\ L.max \in Nat /\ head \in Nat
      /\ L.pos = L.split + head
      /\ L.ragged \/ L.split % 4 = 0
  <2>1. /\ L.pos \in Nat /\ L.split \in Nat /\ L.max \in Nat /\ L.split <= L.pos
        /\ L.reqs \in Seq(Request)
    BY DEF ListRecord, Tiles, Within
  <2>2. Len(L.reqs) \in 0 .. Len(L.reqs)
    BY <2>1, LenProperties
  <2>3. L.ragged \/ L.split % 4 = 0
    BY <2>2, SplitIsEven DEF Tiles
  <2>4. QED
    BY <2>1, <2>3
<1>4. /\ c \in Seq(Request) /\ Len(c) = n
      /\ \A i \in 1 .. n :
           /\ c[i].kind = q[i].kind /\ ~c[i].ext
           /\ c[i].size = t[i].size + (IF IsFirst(q, i) THEN head ELSE 0)
           /\ IsFirst(q, i) => c[i].addr = L.split
           /\ q[i].kind = "render" /\ ~IsFirst(q, i) => c[i].addr = L.pos + SizeOf(t, i - 1)
      /\ \A k \in 0 .. n : SizeOf(c, k) = OwnSize(c, k)
  BY CopiesAre
<1> HIDE DEF c, t, n, head
<1>5. /\ DOMAIN t = 1 .. n /\ DOMAIN c = 1 .. n
      /\ \A i \in 1 .. n : t[i].size \in Nat /\ c[i].size \in Nat
      /\ \A k \in 0 .. n : SizeOf(t, k) \in Nat /\ SizeOf(c, k) \in Nat
      /\ \A i \in 1 .. n : t[i].kind = "render" => t[i].size > 0 /\ (L.ragged \/ t[i].size % 4 = 0)
  BY <1>2, <1>4, RequestSizes DEF WholeSizes
<1>6. /\ \A k : SizeOf(t, k) = Total(f, k) /\ SizeOf(c, k) = Total(g, k)
      /\ \A i \in 1 .. n : f[i] = t[i].size /\ g[i] = c[i].size
      /\ f \in [1 .. n -> Nat]
  BY <1>5 DEF SizeOf
<1>7. L.pos + SizeOf(t, n) <= L.max /\ SizeOf(t, n) \in Nat
  <2>1. n \in 0 .. n
    BY <1>1
  <2>2. QED
    BY <1>5, <2>1 DEF t, n, q
<1> HIDE DEF f, g
<1>8. \A i \in 1 .. n : IsFirst(q, i) <=> IsFirst(c, i)
  <2>1. ASSUME NEW i \in 1 .. n PROVE \A j \in 1 .. i - 1 : c[j].kind = q[j].kind
    BY <1>1, <1>4
  <2>2. QED
    BY <1>4, <2>1 DEF IsFirst
\* Where something is rendered, it is not at the end of the buffer.
<1>9. ASSUME NEW i \in 1 .. n, t[i].kind = "render" PROVE L.pos < L.max
  <2> DEFINE a == t[i].size
             b == SizeOf(t, n)
  <2>1. a \in Nat /\ b \in Nat /\ a > 0 /\ a <= b /\ L.pos + b <= L.max
    BY <1>1, <1>5, <1>6, <1>7, <1>9, TotalOfAny
  <2> HIDE DEF a, b
  <2>2. QED
    BY <1>3, <2>1
<1>10. n # 0 => L.ragged \/ head % 4 = 0
  <2>1. SUFFICES ASSUME n # 0 PROVE L.ragged \/ head % 4 = 0
    OBVIOUS
  <2>2. saved.reqs # <<>>
    BY <2>1 DEF n, q
  <2>3. CASE L.pos = L.split
    BY <1>3, <2>3
  <2>4. CASE Joins /\ (L.ragged \/ L.pos % 4 = 0 \/ L.pos = L.max)
    <3>1. 1 \in 1 .. n
      BY <1>1, <2>1
    <3>2. t[1].kind = "render"
      BY <1>2, <2>4, <3>1 DEF Joins, q
    <3>3. L.pos < L.max
      BY <1>9, <3>1, <3>2
    <3>4. QED
      BY SMTT(30), <1>3, <2>4, <3>3
  <2>5. QED
    BY <2>2, <2>3, <2>4
<1>11. WholeSizes(c, L.ragged)
  <2>1. SUFFICES ASSUME NEW i \in 1 .. n, c[i].kind = "render"
                 PROVE  c[i].size > 0 /\ (L.ragged \/ c[i].size % 4 = 0)
    BY <1>4 DEF WholeSizes
  <2>2. t[i].size > 0 /\ t[i].size \in Nat /\ (L.ragged \/ t[i].size % 4 = 0)
    BY <1>2, <1>4, <1>5, <2>1
  <2>3. L.ragged \/ head % 4 = 0
    BY <1>1, <1>10
  <2>4. c[i].size = t[i].size + head \/ c[i].size = t[i].size + 0
    BY <1>4
  <2> DEFINE a == t[i].size
  <2> HIDE DEF a
  <2>5. /\ a + head > 0 /\ a + 0 > 0
        /\ L.ragged \/ ((a + head) % 4 = 0 /\ (a + 0) % 4 = 0)
    <3>1. a \in Nat /\ a > 0 /\ (L.ragged \/ a % 4 = 0)
      BY <2>2 DEF a
    <3>2. head \in Nat
      BY <1>3
    <3>3. QED
      BY <2>3, <3>1, <3>2
  <2>6. QED
    BY <2>4, <2>5 DEF a
\* What is added up of them has the head from the first of rendering on.
<1>12. ASSUME NEW i \in 1 .. n, IsFirst(q, i), NEW k \in 0 .. n
       PROVE  SizeOf(c, k) = SizeOf(t, k) + (IF i <= k THEN head ELSE 0)
  <2>1. \A j \in 1 .. n : IsFirst(q, j) <=> j = i
    <3>1. SUFFICES ASSUME NEW j \in 1 .. n, IsFirst(q, j), j # i PROVE FALSE
      BY <1>12
    <3>2. j \in 1 .. i - 1 \/ i \in 1 .. j - 1
      BY <1>1, <3>1
    <3>3. QED
      BY <1>12, <3>1, <3>2 DEF IsFirst
  <2>2. IsChanged(g, f, n, i, head)
    <3>1. \A j \in 1 .. n : g[j] = f[j] + (IF j = i THEN head ELSE 0)
      BY <1>4, <1>6, <2>1
    <3>2. \A j \in 1 .. n : f[j] \in Int
      BY <1>5, <1>6
    <3>3. \A j \in 0 .. n : Total(f, j) \in Int
      BY <1>5, <1>6
    <3>4. QED
      BY SMTT(30), <1>1, <1>3, <3>1, <3>2, <3>3 DEF IsChanged
  <2>3. i \in Nat /\ 1 <= i /\ head \in Int /\ n \in Nat
    BY <1>1, <1>3
  <2>4. Total(g, k) = Total(f, k) + (IF 1 <= i /\ i <= k THEN head ELSE 0)
    BY <2>2, <2>3, TotalChanged
  <2>5. QED
    BY <1>6, <2>3, <2>4
<1>13. ASSUME NEW i \in 1 .. n, IsOwn(c[i]) PROVE c[i].addr = L.split + OwnSize(c, i - 1)
  <2>1. q[i].kind = "render" /\ i - 1 \in 0 .. n /\ i \in Nat
    BY <1>1, <1>4, <1>13 DEF IsOwn
  <2>2. CASE IsFirst(q, i)
    <3>1. \A j \in 1 .. i - 1 : c[j].kind # "render"
      BY <1>8, <2>2 DEF IsFirst
    <3>2. i - 1 \in 0 .. Len(c)
      BY <1>4, <2>1
    <3>3. OwnSize(c, i - 1) = 0
      BY <1>4, <3>1, <3>2, NoneBeforeFirst
    <3>4. L.split + 0 = L.split
      BY <1>3
    <3>5. QED
      BY <1>4, <2>2, <3>3, <3>4
  <2>3. CASE ~IsFirst(q, i)
    <3>1. PICK k \in 1 .. i : IsFirst(q, k)
      <4>1. i \in 1 .. Len(q)
        BY DEF n
      <4>2. QED
        BY <2>1, <4>1, FirstRender
    <3>2. k \in 1 .. n /\ k <= i - 1
      <4>1. k # i
        BY <2>3, <3>1
      <4>2. QED
        BY <1>1, <2>1, <4>1
    <3>3. SizeOf(c, i - 1) = SizeOf(t, i - 1) + head
      BY <1>12, <2>1, <3>1, <3>2
    <3>4. OwnSize(c, i - 1) = SizeOf(c, i - 1) /\ c[i].addr = L.pos + SizeOf(t, i - 1)
      BY <1>4, <2>1, <2>3
    <3>5. SizeOf(t, i - 1) \in Nat
      BY <1>5, <2>1
    <3>6. L.pos + SizeOf(t, i - 1) = L.split + (SizeOf(t, i - 1) + head)
      BY <1>3, <3>5
    <3>7. QED
      BY <3>3, <3>4, <3>6
  <2>4. QED
    BY <2>2, <2>3
<1>14. FollowOn(L, c)
  BY <1>4, <1>11, <1>13 DEF FollowOn
<1>15. CoverPending(L, c)
  <2>1. ASSUME NEW i \in 1 .. n, IsFirst(c, i)
        PROVE  IsOwn(c[i]) /\ L.pos < L.split + c[i].size /\ L.pos < L.max
    <3>1. IsFirst(q, i) /\ c[i].kind = "render" /\ ~c[i].ext
      BY <1>4, <1>8, <2>1 DEF IsFirst
    <3>2. c[i].size = t[i].size + head /\ t[i].size \in Nat /\ t[i].size > 0 /\ t[i].kind = "render"
      BY <1>2, <1>4, <1>5, <3>1
    <3>3. L.pos < L.split + (t[i].size + head)
      BY <1>3, <3>2
    <3>4. L.pos < L.max
      BY <1>9, <3>2
    <3>5. QED
      BY <3>1, <3>2, <3>3, <3>4 DEF IsOwn
  <2>2. QED
    BY <1>4, <2>1 DEF CoverPending
<1>16. L.split + OwnSize(c, n) <= L.pos + SizeOf(t, n)
  <2>1. n \in 0 .. n /\ OwnSize(c, n) = SizeOf(c, n) /\ SizeOf(t, n) \in Nat
    BY <1>1, <1>4, <1>5
  <2>2. CASE \A j \in 1 .. n : q[j].kind # "render"
    <3>1. OwnSize(c, n) = 0
      <4>1. \A j \in 1 .. n : c[j].kind # "render"
        BY <1>4, <2>2
      <4>2. QED
        BY <1>4, <2>1, <4>1, NoneBeforeFirst
    <3>2. QED
      BY <1>3, <2>1, <3>1
  <2>3. ASSUME NEW j \in 1 .. n, q[j].kind = "render" PROVE L.split + OwnSize(c, n) <= L.pos + SizeOf(t, n)
    <3>1. PICK i \in 1 .. j : IsFirst(q, i)
      <4>1. j \in 1 .. Len(q)
        BY DEF n
      <4>2. QED
        BY <2>3, <4>1, FirstRender
    <3>2. i \in 1 .. n /\ i <= n
      BY <1>1
    <3>3. SizeOf(c, n) = SizeOf(t, n) + head
      BY <1>12, <2>1, <3>1, <3>2
    <3>4. L.split + (SizeOf(t, n) + head) <= L.pos + SizeOf(t, n)
      BY <1>3, <2>1
    <3>5. QED
      BY <2>1, <3>3, <3>4
  <2>4. QED
    BY <2>2, <2>3
<1>17. QED
  BY <1>2, <1>4, <1>14, <1>15, <1>16 DEF t, c, q

\* Nothing that was saved is whole, and fits.
LEMMA NothingFits ==
    SavedFits(<<>>, 0, 0, FALSE) /\ NothingSaved \in SavedRecord
<1>1. Len(<<>>) = 0 /\ \A i \in 1 .. 0 : FALSE
  OBVIOUS
<1>2. <<>> \in Seq(Request)
  OBVIOUS
<1>3. SavedFits(<<>>, 0, 0, FALSE)
  BY <1>1 DEF SavedFits, WholeSizes
<1> DEFINE nothing == <<>>
<1>4. NothingSaved = [list |-> "none", offset |-> 0, size |-> 0, reqs |-> nothing, ragged |-> FALSE]
  BY DEF NothingSaved
<1>5. nothing \in Seq(Request)
  BY <1>2
<1> HIDE DEF nothing
<1>6. NothingSaved \in SavedRecord
  BY <1>4, <1>5 DEF SavedRecord
<1>7. QED
  BY <1>3, <1>6

\* The lists before anything is done with them.
LEMMA CbStart ==
    ASSUME cb = [l \in CbLists |-> NoStorage], cbBound = "none", saving = NotSaving, saved = NothingSaved
    PROVE  CbInv
<1>1. NoStorage \in ListRecord /\ Tiles(NoStorage)
  <2>1. NoStorage \in ListRecord
    BY DEF NoStorage, ListRecord
  <2>2. OwnSize(<<>>, 0) = 0
    BY TotalAdds DEF OwnSize
  <2>3. Len(<<>>) = 0 /\ \A i \in 1 .. 0 : FALSE
    OBVIOUS
  <2>4. QED
    BY <2>1, <2>2, <2>3 DEF Tiles, Within, WholeSizes, NoStorage
<1>2. NotSaving \in [on : BOOLEAN, offset : Nat, id : Nat] /\ NotSaving.on = FALSE
  BY DEF NotSaving
<1>3. cb \in [CbLists -> ListRecord] /\ \A l \in CbLists : Tiles(cb[l])
  BY <1>1
<1>4. SavedFits(saved.reqs, saved.offset, saved.size, saved.ragged)
  BY NothingFits DEF NothingSaved
<1>5. QED
  BY <1>2, <1>3, <1>4, NothingFits DEF CbInv, CbTypeOK

\* The bound list.
LEMMA ListIs ==
    ASSUME CbInv, cbBound # "none"
    PROVE  cbBound \in CbLists /\ List = cb[cbBound] /\ List \in ListRecord /\ (~List.astray => Tiles(List))
BY DEF CbInv, CbTypeOK, List

\* The bound list becomes another; the others are as they were.
LEMMA ListBecomes ==
    ASSUME CbInv, cbBound # "none", NEW M, M \in ListRecord, ~M.astray => Tiles(M),
           cb' = [cb EXCEPT ![cbBound] = M], cbBound' = cbBound
    PROVE  /\ cb' \in [CbLists -> ListRecord] /\ cb'[cbBound'] = M
           /\ \A l \in CbLists : ~cb'[l].astray => Tiles(cb'[l])
<1>1. cbBound \in CbLists /\ cb \in [CbLists -> ListRecord]
  BY ListIs DEF CbInv, CbTypeOK
<1>2. /\ cb' \in [CbLists -> ListRecord] /\ cb'[cbBound] = M
      /\ \A l \in CbLists : l # cbBound => cb'[l] = cb[l]
  BY <1>1
<1>3. ASSUME NEW l \in CbLists, ~cb'[l].astray PROVE Tiles(cb'[l])
  <2>1. CASE l = cbBound
    BY <1>2, <1>3, <2>1
  <2>2. CASE l # cbBound
    BY <1>2, <1>3, <2>2 DEF CbInv
  <2>3. QED
    BY <2>1, <2>2
<1>4. QED
  BY <1>2, <1>3

\* An action of the bound list.
LEMMA BoundKeeps ==
    ASSUME CbInv, InUse, NEW M, M \in ListRecord, M.astray \/ Keeps(List, M), Becomes(M)
    PROVE  CbInv'
<1>1. /\ cb' = [cb EXCEPT ![cbBound] = M]
      /\ cbBound' = cbBound /\ saving' = saving /\ saved' = saved /\ cbBound # "none" /\ ~List.astray
  BY DEF InUse, Becomes
<1>2. /\ cb' \in [CbLists -> ListRecord] /\ cb'[cbBound'] = M
      /\ \A l \in CbLists : ~cb'[l].astray => Tiles(cb'[l])
  BY <1>1, ListBecomes DEF Keeps
<1>3. CbTypeOK'
  BY <1>1, <1>2 DEF CbInv, CbTypeOK
<1>4. saving'.on /\ ~List'.astray => Saves(List', saving'.offset, saving'.id)
  <2>1. List' = M
    BY <1>2 DEF List
  <2>2. saving.offset \in Nat /\ saving.id \in Nat
    BY DEF CbInv, CbTypeOK
  <2>3. saving.on => Saves(List, saving.offset, saving.id)
    BY <1>1 DEF CbInv
  <2>4. QED
    BY <1>1, <2>1, <2>2, <2>3 DEF Keeps
<1>5. SavedFits(saved'.reqs, saved'.offset, saved'.size, saved'.ragged)
  BY <1>1 DEF CbInv
<1>6. QED
  BY <1>2, <1>3, <1>4, <1>5 DEF CbInv

\* A list that is started over while nothing is saved.
LEMMA AnewKeeps ==
    ASSUME CbInv, InUse, ~saving.on, NEW M, M \in ListRecord, ~M.astray => Tiles(M),
           cb' = [cb EXCEPT ![cbBound] = M], saved' = SavedOf(cbBound), UNCHANGED <<cbBound, saving>>
    PROVE  CbInv'
<1>1. cbBound # "none" /\ cbBound' = cbBound /\ saving' = saving
  BY DEF InUse
<1>2. /\ cb' \in [CbLists -> ListRecord]
      /\ \A l \in CbLists : ~cb'[l].astray => Tiles(cb'[l])
  BY <1>1, ListBecomes
<1>3. saved' = NothingSaved \/ saved' = saved
  BY DEF SavedOf
<1>4. /\ saved' \in SavedRecord
      /\ SavedFits(saved'.reqs, saved'.offset, saved'.size, saved'.ragged)
  <2>1. CASE saved' = NothingSaved
    <3>1. /\ NothingSaved.reqs = <<>> /\ NothingSaved.offset = 0 /\ NothingSaved.size = 0
          /\ NothingSaved.ragged = FALSE
      BY DEF NothingSaved
    <3>2. QED
      BY <2>1, <3>1, NothingFits
  <2>2. CASE saved' = saved
    BY <2>2 DEF CbInv, CbTypeOK
  <2>3. QED
    BY <1>3, <2>1, <2>2
<1>5. ~saving'.on /\ saving' \in [on : BOOLEAN, offset : Nat, id : Nat] /\ cbBound' \in CbLists \cup {"none"}
  BY <1>1 DEF CbInv, CbTypeOK
<1>6. QED
  BY <1>2, <1>4, <1>5 DEF CbInv, CbTypeOK

\* State changes and draws, and commands of the application's that are copied.
LEMMA WritesKeep ==
    ASSUME CbInv, InUse,
           \/ WriteReg
           \/ \E n \in Writes : WriteRegs(n)
           \/ \E n \in Copies : CopyCommands(n)
    PROVE  CbInv'
<1>1. List \in ListRecord /\ Tiles(List)
  BY ListIs DEF InUse
<1>2. CASE WriteReg
  <2>1. Keeps(List, OneWritten(List)) /\ Becomes(OneWritten(List))
    BY <1>1, <1>2, OneKeeps DEF WriteReg
  <2>2. QED
    BY <2>1, BoundKeeps DEF Keeps
<1>3. ASSUME NEW n \in Writes, WriteRegs(n) PROVE CbInv'
  <2>1. Keeps(List, Written(List, n)) /\ Becomes(Written(List, n))
    BY <1>1, <1>3, WrittenKeeps, CommandBufferAssumption DEF WriteRegs
  <2>2. QED
    BY <2>1, BoundKeeps DEF Keeps
<1>4. ASSUME NEW n \in Copies, CopyCommands(n) PROVE CbInv'
  <2> DEFINE pos == List.pos + n
             odd == n % 2 = 1
             L == [List EXCEPT !.ragged = @ \/ odd]
             M == [L EXCEPT !.pos = pos]
  <2>1. n \in Nat /\ odd \in BOOLEAN
    BY CommandBufferAssumption
  <2>2. Becomes(M)
    <3>1. [List EXCEPT !.pos = @ + n, !.ragged = @ \/ n % 2 = 1] = M
      BY <1>1 DEF ListRecord
    <3>2. QED
      BY <1>4, <3>1 DEF CopyCommands
  <2>3. /\ Keeps(List, L) /\ (L.ragged <=> List.ragged \/ odd)
        /\ L.pos = List.pos /\ L.split = List.split /\ L.max = List.max
    <3> HIDE DEF odd
    <3>1. QED
      BY SMTT(30), <1>1, <2>1, RaggedKeeps
  <2>4. /\ List.pos \in Nat /\ List.max \in Nat /\ List.split \in Nat /\ pos <= List.max
        /\ Within(List, List.pos, List.split)
    BY <1>1, <1>4 DEF ListRecord, CopyCommands, Tiles
  <2> HIDE DEF L
  <2>5. pos \in Nat /\ L.pos <= pos /\ Within(L, pos, L.split)
    <3>1. odd \/ n % 2 = 0
      BY <2>1
    <3>2. List.ragged \/ odd \/ pos % 2 = 0
      BY <2>1, <2>4, <3>1 DEF Within
    <3>3. QED
      BY <2>1, <2>3, <2>4, <3>2 DEF Within
  <2> HIDE DEF pos
  <2>6. L \in ListRecord /\ Keeps(L, M)
    BY <2>3, <2>5, PosKeeps DEF Keeps
  <2> HIDE DEF M
  <2>7. Keeps(List, M) /\ M \in ListRecord
    BY <1>1, <2>3, <2>6, KeepsOn DEF Keeps
  <2>8. QED
    BY <2>2, <2>7, BoundKeeps
<1>5. QED
  BY <1>2, <1>3, <1>4

\* nngxSplitDrawCmdlist and nngxFlush3DCommand.
LEMMA SplitListKeeps ==
    ASSUME CbInv, InUse, SplitList \/ Flush
    PROVE  CbInv'
<1>1. List \in ListRecord /\ Tiles(List)
  BY ListIs DEF InUse
<1>2. CanSplit(List) /\ Becomes(Split(List))
  BY DEF SplitList, Flush
<1>3. Keeps(List, Split(List))
  BY <1>1, <1>2, SplitKeeps
<1>4. QED
  BY <1>2, <1>3, BoundKeeps DEF Keeps

\* A request other than to render.
LEMMA OtherIs == OtherRequest \in Request /\ ~IsOwn(OtherRequest) /\ OtherRequest.kind # "render"
BY DEF OtherRequest, Request, IsOwn

\* nngxTransferRenderImage, nngxAddVramDmaCommand and their like, and commands run in place.
LEMMA RequestsKeep ==
    ASSUME CbInv, InUse, Transfer \/ AddOther \/ RunInPlace
    PROVE  CbInv'
<1> DEFINE L == Flushed(List)
<1>1. List \in ListRecord /\ Tiles(List)
  BY ListIs DEF InUse
<1>2. ASSUME Pending(List) => CanSplit(List)
      PROVE  Keeps(List, L) /\ L \in ListRecord /\ Tiles(L) /\ L.pos = L.split
  BY <1>1, <1>2, FlushedKeeps DEF Keeps
<1>3. CASE AddOther
  <2>1. Keeps(List, [List EXCEPT !.reqs = Append(@, OtherRequest)])
    BY <1>1, OtherIs, OtherKeeps
  <2>2. QED
    BY <1>3, <2>1, BoundKeeps DEF AddOther, Keeps
<1>4. CASE Transfer
  <2> DEFINE M == [L EXCEPT !.reqs = Append(@, OtherRequest)]
  <2>1. Keeps(List, L) /\ L \in ListRecord /\ Tiles(L)
    BY <1>2, <1>4 DEF Transfer
  <2>2. Becomes(L) \/ Becomes(M)
    BY <1>4 DEF Transfer, Flushed
  <2> HIDE DEF L
  <2>3. Keeps(List, M)
    <3>1. Keeps(L, M)
      BY <2>1, OtherIs, OtherKeeps
    <3>2. QED
      BY <1>1, <2>1, <3>1, KeepsOn
  <2> HIDE DEF M
  <2>4. L \in ListRecord /\ M \in ListRecord
    BY <2>1, <2>3 DEF Keeps
  <2>5. QED
    BY <2>1, <2>2, <2>3, <2>4, BoundKeeps
<1>5. CASE RunInPlace
  <2> DEFINE r == Render(0, 4, TRUE)
             M == [L EXCEPT !.reqs = Append(@, r)]
  <2>1. Keeps(List, L) /\ L \in ListRecord /\ Tiles(L) /\ L.pos = L.split
    BY <1>2, <1>5 DEF RunInPlace
  <2>2. Becomes(M)
    BY <1>5 DEF RunInPlace, Flushed
  <2>3. r \in Request /\ ~IsOwn(r) /\ r.size > 0 /\ r.size % 4 = 0
    BY DEF Request, Render, IsOwn
  <2> HIDE DEF L, r
  <2>4. Keeps(L, M)
    BY <2>1, <2>3, OtherKeeps
  <2> HIDE DEF M
  <2>5. Keeps(List, M) /\ M \in ListRecord
    BY <1>1, <2>1, <2>4, KeepsOn DEF Keeps
  <2>6. QED
    BY <2>2, <2>5, BoundKeeps
<1>6. QED
  BY <1>3, <1>4, <1>5

\* nngxUseSavedCmdlist in place.
LEMMA UseSavedKeeps ==
    ASSUME CbInv, UseSaved
    PROVE  CbInv'
<1> DEFINE F == Flushed(List)
           L == [F EXCEPT !.ragged = @ \/ saved.ragged]
           u == InPlace(saved.reqs, saved.offset)
           M == [L EXCEPT !.reqs = @ \o u]
<1>1. InUse /\ List \in ListRecord /\ Tiles(List)
  BY ListIs DEF InUse, UseSaved
<1>2. Pending(List) => CanSplit(List)
  BY DEF UseSaved
<1>3. Keeps(List, F) /\ F \in ListRecord /\ Tiles(F) /\ F.pos = F.split
  BY <1>1, <1>2, FlushedKeeps DEF Keeps
<1>4. /\ saved.reqs \in Seq(Request) /\ saved.offset \in Nat /\ saved.ragged \in BOOLEAN
      /\ SavedFits(saved.reqs, saved.offset, saved.size, saved.ragged)
  BY DEF CbInv, CbTypeOK, SavedRecord
<1>5. Becomes([F EXCEPT !.reqs = @ \o u, !.ragged = @ \/ saved.ragged])
  BY DEF UseSaved, Flushed
<1> HIDE DEF F
<1>6. Becomes(M)
  <2> HIDE DEF u
  <2>1. [F EXCEPT !.reqs = @ \o u, !.ragged = @ \/ saved.ragged] = M
    BY <1>3 DEF ListRecord
  <2>2. QED
    BY <1>5, <2>1
<1>7. Keeps(F, L) /\ (L.ragged <=> F.ragged \/ saved.ragged) /\ L.pos = L.split
  BY <1>3, <1>4, RaggedKeeps
<1>8. L \in ListRecord /\ Tiles(L)
  BY <1>7 DEF Keeps
<1> HIDE DEF L
<1>9. Keeps(L, M)
  BY <1>4, <1>7, <1>8, UsedKeeps
<1> HIDE DEF M
<1>10. Keeps(List, L)
  BY <1>1, <1>3, <1>7, KeepsOn
<1>11. Keeps(List, M) /\ M \in ListRecord
  BY <1>1, <1>8, <1>9, <1>10, KeepsOn DEF Keeps
<1>12. QED
  BY <1>1, <1>6, <1>11, BoundKeeps

\* nngxUseSavedCmdlist with copying: if the copy goes past the end, the list is astray.
LEMMA CopySavedKeeps ==
    ASSUME CbInv, CopySaved
    PROVE  CbInv'
<1> DEFINE F == CopyTo
           L == [F EXCEPT !.ragged = @ \/ saved.ragged]
           q == saved.reqs
           t == Trimmed(q, saved.offset)
           c == CopiesOf(F, t)
           rest == saved.size - OwnSize(t, Len(t))
           end == F.pos + SizeOf(t, Len(t)) + (IF rest > 0 THEN rest ELSE 0)
           split == L.split + SizeOf(c, Len(c))
           M == [L EXCEPT !.pos = end, !.astray = @ \/ end > F.max, !.split = split, !.reqs = @ \o c]
<1>1. InUse /\ List \in ListRecord /\ Tiles(List) /\ ~List.astray /\ List.astray \in BOOLEAN
  BY ListIs DEF InUse, CopySaved, ListRecord
<1>2. /\ q \in Seq(Request) /\ saved.offset \in Nat /\ saved.size \in Int /\ saved.ragged \in BOOLEAN
      /\ SavedFits(q, saved.offset, saved.size, saved.ragged)
  BY DEF CbInv, CbTypeOK, SavedRecord
<1>0. CASE Joins /\ Pending(List) /\ Becomes(CopyTo)
  <2>1. CopyTo = Even(List)
    BY <1>0 DEF CopyTo, Joins
  <2>2. Keeps(List, Even(List))
    BY <1>1, EvenKeeps
  <2>3. QED
    BY <1>1, <1>0, <2>1, <2>2, BoundKeeps DEF Keeps
<1> SUFFICES ASSUME ~(Joins /\ Pending(List) /\ Becomes(CopyTo)) PROVE CbInv'
  BY <1>0
<1>3. /\ q # <<>> /\ Pending(List) /\ ~Joins => CanSplit(List)
      /\ Becomes([F EXCEPT !.pos = end, !.astray = @ \/ end > F.max, !.ragged = @ \/ saved.ragged,
                           !.split = @ + SizeOf(c, Len(c)), !.reqs = @ \o c])
  BY DEF CopySaved
<1>4. /\ Keeps(List, F)
      /\ q # <<>> => F.pos = F.split \/ (Joins /\ (F.ragged \/ F.pos % 4 = 0 \/ F.pos = F.max))
  <2>1. CASE q = <<>> \/ ~Pending(List)
    <3>1. F = List /\ (q # <<>> => List.split = List.pos)
      BY <2>1 DEF CopyTo, Pending
    <3> HIDE DEF F
    <3>2. QED
      BY <1>1, <3>1, KeepsItself
  <2>2. CASE ~(q = <<>> \/ ~Pending(List)) /\ Joins
    <3>1. F = Even(List)
      BY <2>2 DEF CopyTo
    <3>2. /\ Keeps(List, F) /\ F.ragged = List.ragged
          /\ List.ragged \/ F.pos % 4 = 0 \/ F.pos = List.max
      BY <1>1, <3>1, EvenKeeps
    <3>3. F.max = List.max
      BY <3>2 DEF Keeps
    <3>4. QED
      BY <2>2, <3>2, <3>3
  <2>3. CASE ~(q = <<>> \/ ~Pending(List)) /\ ~Joins
    <3>1. F = Split(List) /\ CanSplit(List)
      BY <1>3, <2>3 DEF CopyTo
    <3> HIDE DEF F
    <3>2. QED
      BY <1>1, <3>1, SplitKeeps
  <2>4. QED
    BY <2>1, <2>2, <2>3
<1> HIDE DEF F, t
<1>a. F \in ListRecord /\ Tiles(F) /\ F.astray = List.astray
  BY <1>4 DEF Keeps
<1>b. /\ Keeps(F, L) /\ (L.ragged <=> F.ragged \/ saved.ragged)
      /\ L.pos = F.pos /\ L.split = F.split /\ L.max = F.max
  BY <1>2, <1>a, RaggedKeeps
<1>c. c = CopiesOf(L, t)
  BY <1>b DEF CopiesOf
<1>d. Becomes(M)
  <2> DEFINE astray == F.astray \/ end > F.max
             reqs == F.reqs \o c
             ragged == F.ragged \/ saved.ragged
  <2>1. L = [F EXCEPT !.ragged = ragged] /\ L.split = F.split /\ L.astray = F.astray /\ L.reqs = F.reqs
    BY <1>a DEF ListRecord
  <2>2. M = [L EXCEPT !.pos = end, !.astray = astray, !.split = split, !.reqs = reqs]
    <3> HIDE DEF L, end, split, c
    <3>1. QED
      BY <1>b, <2>1, <1>a DEF ListRecord, Keeps
  <2>3. [F EXCEPT !.pos = end, !.astray = @ \/ end > F.max, !.ragged = @ \/ saved.ragged,
                  !.split = @ + SizeOf(c, Len(c)), !.reqs = @ \o c]
        = [F EXCEPT !.pos = end, !.astray = astray, !.ragged = ragged, !.split = split, !.reqs = reqs]
    <3> DEFINE d == SizeOf(c, Len(c))
    <3>1. split = F.split + d
      BY <2>1
    <3> HIDE DEF end, split, c, d
    <3>2. QED
      BY <1>a, <3>1 DEF ListRecord, d
  <2> HIDE DEF M, L, end, split, astray, reqs, ragged, c
  <2>4. M = [F EXCEPT !.pos = end, !.astray = astray, !.ragged = ragged, !.split = split, !.reqs = reqs]
    BY <1>a, <2>1, <2>2 DEF ListRecord
  <2>5. QED
    BY <1>3, <2>3, <2>4
<1>e. end = L.pos + SizeOf(t, Len(t)) + (IF rest > 0 THEN rest ELSE 0)
  BY <1>b
<1>f. q # <<>> => L.pos = L.split \/ (Joins /\ (L.ragged \/ L.pos % 4 = 0 \/ L.pos = L.max))
  BY <1>4, <1>b
<1>5. /\ L \in ListRecord /\ Tiles(L) /\ L.astray = List.astray
      /\ L.pos \in Nat /\ L.split \in Nat /\ L.max \in Nat /\ L.reqs \in Seq(Request) /\ L.astray \in BOOLEAN
      /\ L.ragged \/ (L.pos % 2 = 0 /\ L.max % 2 = 0)
      /\ saved.ragged => L.ragged
  BY <1>a, <1>b DEF Keeps, ListRecord, Tiles, Within
<1>6. M = [L EXCEPT !.pos = end, !.astray = @ \/ end > L.max, !.split = split, !.reqs = @ \o c]
  BY <1>b
<1> HIDE DEF L
<1>7. /\ c \in Seq(Request) /\ Len(c) = Len(q) /\ SizeOf(c, Len(c)) = OwnSize(c, Len(c))
      /\ t \in Seq(Request) /\ Len(t) = Len(q) /\ SizeOf(t, Len(t)) \in Nat
      /\ OwnSize(t, Len(t)) \in Nat /\ SizeOf(c, Len(c)) \in Nat
      /\ saved.ragged \/ (SizeOf(t, Len(t)) % 4 = 0 /\ OwnSize(t, Len(t)) % 4 = 0)
  <2>1. /\ c \in Seq(Request) /\ Len(c) = Len(q)
        /\ \A k \in 0 .. Len(q) : SizeOf(c, k) = OwnSize(c, k)
    BY <1>2, <1>5, <1>c, CopiesAre DEF t
  <2>2. t \in Seq(Request) /\ Len(t) = Len(q) /\ WholeSizes(t, saved.ragged)
    BY <1>2, TrimmedIs DEF t
  <2>3. Len(q) \in 0 .. Len(q)
    BY <1>2, LenProperties
  <2>4. saved.ragged \/ WholeSizes(t, FALSE)
    BY <2>2 DEF WholeSizes
  <2> HIDE DEF c, q
  <2>5. saved.ragged \/ (SizeOf(t, Len(t)) % 4 = 0 /\ OwnSize(t, Len(t)) % 4 = 0)
    BY <2>2, <2>3, <2>4, WholeIsEven
  <2>6. QED
    BY <2>1, <2>2, <2>3, <2>5, RequestSizes
<1> HIDE DEF c
<1>8. rest \in Int /\ end \in Nat /\ L.pos + SizeOf(t, Len(t)) <= end /\ split \in Nat
      /\ L.pos <= end /\ (L.ragged \/ end % 2 = 0)
  <2> DEFINE a == SizeOf(t, Len(t))
             b == OwnSize(t, Len(t))
             d == SizeOf(c, Len(c))
             u == saved.size
             e == IF u - b > 0 THEN u - b ELSE 0
  <2>1. /\ a \in Nat /\ b \in Nat /\ d \in Nat /\ u \in Int
        /\ L.ragged \/ (L.pos % 2 = 0 /\ a % 4 = 0 /\ b % 4 = 0 /\ u % 2 = 0)
    BY <1>2, <1>5, <1>7 DEF SavedFits
  <2>2. end = L.pos + a + e /\ split = L.split + d
    BY <1>e
  <2> HIDE DEF a, b, d, u, end, split
  <2>3. e \in Nat /\ u - b \in Int
    BY <2>1
  <2>4. L.ragged \/ e % 2 = 0
    BY <2>1
  <2> HIDE DEF e
  <2>5. end \in Nat /\ L.pos + a <= end /\ split \in Nat /\ L.pos <= end
    <3>1. L.pos \in Nat /\ L.split \in Nat
      BY <1>5
    <3> DEFINE x == L.pos
               y == L.split
    <3>2. x \in Nat /\ y \in Nat /\ end = x + a + e /\ split = y + d
      BY <3>1, <2>2
    <3> HIDE DEF x, y
    <3>3. end \in Nat /\ x + a <= end /\ split \in Nat /\ x <= end
      BY <2>1, <2>3, <3>2
    <3>4. QED
      BY <3>3 DEF x
  <2>6. L.ragged \/ end % 2 = 0
    <3> DEFINE x == L.pos
    <3>1. end = x + a + e /\ x \in Nat /\ (L.ragged \/ x % 2 = 0)
      BY <1>5, <2>2
    <3> HIDE DEF x
    <3>2. CASE x % 2 = 0 /\ a % 4 = 0 /\ e % 2 = 0
      BY SMTT(30), <2>1, <2>3, <3>1, <3>2
    <3>3. QED
      BY <2>1, <2>4, <3>1, <3>2 DEF x
  <2>7. QED
    BY <2>3, <2>5, <2>6 DEF a, b, u
<1>9. L.reqs \o c \in Seq(Request)
  BY <1>5, <1>7, SizesJoined
<1> HIDE DEF end, split, rest
<1>10. M \in ListRecord /\ M.astray = (L.astray \/ end > L.max)
  <2> DEFINE reqs == L.reqs \o c
             astray == L.astray \/ end > L.max
  <2>1. astray \in BOOLEAN /\ reqs \in Seq(Request)
    BY <1>9
  <2>2. M = [L EXCEPT !.pos = end, !.astray = astray, !.split = split, !.reqs = reqs]
    BY <1>5, <1>6 DEF ListRecord
  <2> HIDE DEF M, reqs, astray
  <2>3. M \in ListRecord /\ M.astray = astray
    BY <1>5, <1>8, <2>1, <2>2 DEF ListRecord
  <2>4. QED
    BY <2>3 DEF astray
<1>11. M.astray \/ Keeps(List, M)
  <2>1. CASE end > L.max
    BY <1>10, <2>1
  <2>2. CASE ~(end > L.max)
    <3>1. end <= L.max /\ L.pos + SizeOf(t, Len(t)) <= L.max
      <4> DEFINE a == SizeOf(t, Len(t))
      <4>1. a \in Nat /\ L.pos + a <= end
        BY <1>7, <1>8
      <4> HIDE DEF a
      <4>2. end <= L.max /\ L.pos + a <= L.max
        BY <1>5, <1>8, <2>2, <4>1
      <4>3. QED
        BY <4>2 DEF a
    <3>2. /\ FollowOn(L, c) /\ (c # <<>> => CoverPending(L, c))
          /\ L.split + OwnSize(c, Len(c)) <= L.pos + SizeOf(t, Len(t))
      <4>1. L.pos + SizeOf(t, Len(q)) <= L.max
        BY <1>7, <3>1
      <4>2. QED
        BY <1>2, <1>5, <1>c, <1>f, <4>1, CopiesFollow DEF t
    <3>3. Within(L, end, L.split + OwnSize(c, Len(c)))
      <4> DEFINE a == SizeOf(t, Len(t))
                 b == OwnSize(c, Len(c))
      <4>1. a \in Nat /\ b \in Nat /\ L.pos + a <= end /\ L.split + b <= L.pos + a
        BY <1>7, <1>8, <3>2
      <4> HIDE DEF a, b
      <4>2. L.split + b <= end /\ L.split + b <= L.max
        BY <1>5, <1>8, <3>1, <4>1
      <4>3. QED
        BY <1>5, <1>8, <3>1, <4>2 DEF b, Within
    <3>4. Keeps(L, Appended(L, c, end))
      BY <1>5, <1>8, <3>1, <3>2, <3>3, AppendKeeps
    <3>5. M = Appended(L, c, end)
      <4>1. (L.astray \/ end > L.max) = L.astray
        BY <1>5, <2>2
      <4>2. split = L.split + OwnSize(c, Len(c))
        BY <1>7 DEF split
      <4> HIDE DEF c
      <4>3. M = [L EXCEPT !.pos = end, !.split = split, !.reqs = @ \o c]
        BY <1>5, <1>6, <4>1 DEF ListRecord
      <4>4. QED
        BY <1>5, <4>2, <4>3 DEF Appended, ListRecord
    <3>6. Keeps(List, L)
      BY <1>1, <1>4, <1>5, <1>a, <1>b, KeepsOn
    <3>7. QED
      BY <1>1, <1>5, <3>4, <3>5, <3>6, KeepsOn
  <2>3. QED
    BY <2>1, <2>2
<1> HIDE DEF M
<1>12. QED
  BY <1>1, <1>10, <1>11, <1>d, BoundKeeps

\* nngxClearCmdlist and nngxCmdlistStorage.
LEMMA AnewActions ==
    ASSUME CbInv, ClearList \/ \E size \in BufferSizes : Storage(size)
    PROVE  CbInv'
<1>1. InUse /\ ~saving.on /\ cbBound # "none" /\ List \in ListRecord /\ Tiles(List)
  BY ListIs DEF InUse, ClearList, Storage
<1>2. OwnSize(<<>>, 0) = 0 /\ Len(<<>>) = 0 /\ \A i \in 1 .. 0 : FALSE
  BY TotalAdds DEF OwnSize
<1>3. ASSUME NEW M \in ListRecord, M.pos = 0, M.split = 0, M.reqs = <<>>, M.ragged \/ M.max % 2 = 0
      PROVE  Tiles(M)
  <2>1. M.max \in Nat
    BY DEF ListRecord
  <2>2. QED
    BY <1>2, <1>3, <2>1 DEF Tiles, Within, WholeSizes
<1>4. CASE ClearList
  <2> DEFINE ragged == List.max % 2 = 1
             M == [List EXCEPT !.pos = 0, !.split = 0, !.reqs = <<>>, !.ragged = ragged]
  <2>1. /\ M \in ListRecord /\ M.pos = 0 /\ M.split = 0 /\ M.reqs = <<>>
        /\ M.ragged \/ M.max % 2 = 0
    <3> DEFINE none == <<>>
    <3>1. /\ M = [List EXCEPT !.pos = 0, !.split = 0, !.reqs = none, !.ragged = ragged]
          /\ none \in Seq(Request) /\ ragged \in BOOLEAN
      OBVIOUS
    <3>2. ragged \/ List.max % 2 = 0
      BY <1>1 DEF ListRecord
    <3> HIDE DEF none, M, ragged
    <3>3. M \in ListRecord /\ M.pos = 0 /\ M.split = 0 /\ M.reqs = none /\ M.ragged = ragged /\ M.max = List.max
      BY <1>1, <3>1 DEF ListRecord
    <3>4. QED
      BY <3>2, <3>3 DEF none
  <2>2. Tiles(M)
    BY <1>3, <2>1
  <2>3. /\ cb' = [cb EXCEPT ![cbBound] = M]
        /\ saved' = SavedOf(cbBound) /\ UNCHANGED <<cbBound, saving>>
    BY <1>1, <1>4, ListIs DEF ClearList, List
  <2> HIDE DEF M
  <2>4. QED
    BY <1>1, <2>1, <2>2, <2>3, AnewKeeps
<1>5. ASSUME NEW size \in BufferSizes, Storage(size) PROVE CbInv'
  <2> DEFINE fresh == [max |-> size, maxReq |-> MaxRequests, pos |-> 0, split |-> List.split, reqs |-> <<>>,
                       astray |-> List.split # 0, ragged |-> size % 2 = 1]
             lost == [List EXCEPT !.astray = TRUE]
  <2>1. size \in Nat /\ MaxRequests \in Nat /\ (size % 2 = 1 \/ size % 2 = 0)
    BY CommandBufferAssumption
  <2>2. fresh \in ListRecord /\ (~fresh.astray => Tiles(fresh))
    <3>1. List.split \in Nat
      BY <1>1 DEF ListRecord
    <3>2. /\ fresh \in ListRecord /\ fresh.pos = 0 /\ fresh.reqs = <<>> /\ (~fresh.astray => fresh.split = 0)
          /\ fresh.ragged \/ fresh.max % 2 = 0
      <4> DEFINE none == <<>>
                 astray == List.split # 0
                 ragged == size % 2 = 1
      <4>1. none \in Seq(Request) /\ astray \in BOOLEAN /\ ragged \in BOOLEAN
        OBVIOUS
      <4>2. fresh = [max |-> size, maxReq |-> MaxRequests, pos |-> 0, split |-> List.split, reqs |-> none,
                     astray |-> astray, ragged |-> ragged]
        OBVIOUS
      <4> HIDE DEF none, astray, ragged, fresh
      <4>3. /\ fresh \in ListRecord /\ fresh.pos = 0 /\ fresh.reqs = none /\ fresh.split = List.split
            /\ fresh.astray = astray /\ fresh.ragged = ragged /\ fresh.max = size
        BY <2>1, <3>1, <4>1, <4>2 DEF ListRecord
      <4>4. QED
        BY <2>1, <4>3 DEF none, astray, ragged
    <3> HIDE DEF fresh
    <3>3. QED
      BY <1>3, <3>2
  <2>3. lost \in ListRecord /\ lost.astray
    BY <1>1 DEF ListRecord
  <2>4. PICK failed \in BOOLEAN :
          cb' = [cb EXCEPT ![cbBound] = IF failed THEN [@ EXCEPT !.astray = TRUE]
                   ELSE [max |-> size, maxReq |-> MaxRequests, pos |-> 0, split |-> @.split, reqs |-> <<>>,
                         astray |-> @.split # 0, ragged |-> size % 2 = 1]]
    BY <1>5 DEF Storage
  <2>5. cb' = [cb EXCEPT ![cbBound] = lost] \/ cb' = [cb EXCEPT ![cbBound] = fresh]
    BY <2>4 DEF List
  <2>6. saved' = SavedOf(cbBound) /\ UNCHANGED <<cbBound, saving>>
    BY <1>5 DEF Storage
  <2> HIDE DEF fresh, lost
  <2>7. QED
    BY <1>1, <2>2, <2>3, <2>5, <2>6, AnewKeeps
<1>6. QED
  BY <1>4, <1>5

\* nngxStartCmdlistSave: nothing is saved yet, up to the last split before.
LEMMA StartSaveKeeps ==
    ASSUME CbInv, StartSave
    PROVE  CbInv'
<1> DEFINE M == Even(List)
<1>1. cbBound # "none" /\ ~List.astray /\ List \in ListRecord /\ Tiles(List)
  BY ListIs DEF InUse, StartSave
<1>2. /\ Keeps(List, M) /\ M.split = List.split /\ M.reqs = List.reqs
      /\ M.ragged \/ M.pos % 4 = 0 \/ M.pos = M.max
  BY <1>1, EvenKeeps DEF Keeps
<1>3. /\ cb' = [cb EXCEPT ![cbBound] = M] /\ cbBound' = cbBound /\ saved' = saved
      /\ saving' = [on |-> TRUE, offset |-> M.pos, id |-> Len(List.reqs)]
  BY DEF StartSave, List
<1> HIDE DEF M
<1>4. /\ M \in ListRecord /\ Tiles(M) /\ M.pos \in Nat /\ M.reqs \in Seq(Request) /\ Len(M.reqs) \in Nat
      /\ M.split \in Nat
  <2>1. M \in ListRecord /\ Tiles(M)
    BY <1>2 DEF Keeps
  <2>2. M.pos \in Nat /\ M.reqs \in Seq(Request) /\ M.split \in Nat
    BY <2>1 DEF ListRecord
  <2>3. QED
    BY <2>1, <2>2, LenProperties
<1>5. /\ cb' \in [CbLists -> ListRecord] /\ cb'[cbBound'] = M
      /\ \A l \in CbLists : ~cb'[l].astray => Tiles(cb'[l])
  BY <1>1, <1>3, <1>4, ListBecomes
<1>6. Saves(M, M.pos, Len(M.reqs))
  <2> DEFINE n == Len(M.reqs)
  <2>1. OwnSize(M.reqs, n) = M.split /\ M.split <= M.pos
    BY <1>4 DEF Tiles, Within
  <2>2. n <= n /\ M.pos <= M.pos /\ \A i \in n + 1 .. n : FALSE
    BY <1>4
  <2>3. QED
    BY <1>2, <2>1, <2>2 DEF Saves
<1>7. saving' \in [on : BOOLEAN, offset : Nat, id : Nat] /\ cbBound' \in CbLists \cup {"none"} /\ cbBound' # "none"
  BY <1>1, <1>2, <1>3, <1>4 DEF CbInv, CbTypeOK
<1>8. CbTypeOK'
  BY <1>3, <1>5, <1>7 DEF CbInv, CbTypeOK
<1>9. Saves(List', saving'.offset, saving'.id)
  <2>1. List' = M
    BY <1>5 DEF List
  <2>2. saving'.offset = M.pos /\ saving'.id = Len(M.reqs)
    BY <1>2, <1>3
  <2>3. QED
    BY <1>6, <2>1, <2>2
<1>10. SavedFits(saved'.reqs, saved'.offset, saved'.size, saved'.ragged)
  BY <1>3 DEF CbInv
<1>11. QED
  BY <1>5, <1>8, <1>9, <1>10 DEF CbInv

\* nngxStopCmdlistSave.
LEMMA StopSaveKeeps ==
    ASSUME CbInv, StopSave
    PROVE  CbInv'
<1> DEFINE M == Even(List)
           q == SubSeq(List.reqs, saving.id + 1, Len(List.reqs))
<1>1. /\ cbBound # "none" /\ ~List.astray /\ List \in ListRecord /\ Tiles(List) /\ saving.on
      /\ saving.offset \in Nat /\ saving.id \in Nat /\ Saves(List, saving.offset, saving.id)
      /\ cbBound \in CbLists
  <2>1. cbBound # "none" /\ ~List.astray /\ saving.on
    BY DEF InUse, StopSave
  <2>2. QED
    BY <2>1, ListIs DEF CbInv, CbTypeOK
<1>2. Keeps(List, M) /\ M.reqs = List.reqs /\ M.ragged = List.ragged
  BY <1>1, EvenKeeps
<1>3. /\ cb' = [cb EXCEPT ![cbBound] = M] /\ cbBound' = cbBound /\ saving' = NotSaving
      /\ saved' = [list |-> cbBound, offset |-> saving.offset, size |-> M.pos - saving.offset, reqs |-> q,
                   ragged |-> List.ragged]
  BY DEF StopSave, List
<1> HIDE DEF M
<1>4. M \in ListRecord /\ Tiles(M) /\ Saves(M, saving.offset, saving.id) /\ M.pos \in Nat
  BY <1>1, <1>2 DEF Keeps, ListRecord
<1>5. /\ cb' \in [CbLists -> ListRecord]
      /\ \A l \in CbLists : ~cb'[l].astray => Tiles(cb'[l])
  BY <1>1, <1>3, <1>4, ListBecomes
<1>6. q \in Seq(Request) /\ SavedFits(q, saving.offset, M.pos - saving.offset, List.ragged)
  BY <1>1, <1>2, <1>4, SavedOfList
<1>7. M.pos - saving.offset \in Int /\ List.ragged \in BOOLEAN
  BY <1>1, <1>4 DEF ListRecord
<1> HIDE DEF q
<1>8. saved' \in SavedRecord /\ SavedFits(saved'.reqs, saved'.offset, saved'.size, saved'.ragged)
  <2> DEFINE size == M.pos - saving.offset
             ragged == List.ragged
  <2>1. /\ size \in Int /\ ragged \in BOOLEAN
        /\ saved' = [list |-> cbBound, offset |-> saving.offset, size |-> size, reqs |-> q, ragged |-> ragged]
        /\ SavedFits(q, saving.offset, size, ragged)
    BY <1>3, <1>6, <1>7
  <2> HIDE DEF size, ragged
  <2>2. QED
    BY <1>1, <1>6, <2>1 DEF SavedRecord
<1>9. saving' \in [on : BOOLEAN, offset : Nat, id : Nat] /\ ~saving'.on /\ cbBound' \in CbLists \cup {"none"}
  BY <1>1, <1>3 DEF NotSaving
<1>10. QED
  BY <1>5, <1>8, <1>9 DEF CbInv, CbTypeOK

\* nngxBindCmdlist.
LEMMA BindKeeps ==
    ASSUME CbInv, NEW l \in CbLists \cup {"none"}, BindList(l)
    PROVE  CbInv'
<1>1. cb' = cb /\ saving' = saving /\ saved' = saved /\ ~saving.on /\ cbBound' = l
  BY DEF BindList
<1>2. QED
  BY <1>1 DEF CbInv, CbTypeOK

\* The inductive invariant of the command buffers holds at the start.
LEMMA CbInitInv == CbInit => CbInv
BY CbStart DEF CbInit

\* nngxFinalize and nngxInitialize.
LEMMA CbRestart == ASSUME RestartLists PROVE CbInv'
<1>1. /\ cb' = [l \in CbLists |-> NoStorage] /\ cbBound' = "none"
      /\ saving' = NotSaving /\ saved' = NothingSaved
  BY DEF RestartLists
<1>2. CbInit'
  BY <1>1 DEF CbInit
<1>3. QED
  BY <1>2, CbInitInv, PTL

\* The inductive invariant of the command buffers holds after every step of theirs.
LEMMA CbNextInv == CbInv /\ [CbNext]_cbVars => CbInv'
<1> SUFFICES ASSUME CbInv, [CbNext]_cbVars PROVE CbInv'
  OBVIOUS
<1>1. ASSUME NEW l \in CbLists \cup {"none"}, BindList(l) PROVE CbInv'
  BY <1>1, BindKeeps
<1>2. ASSUME NEW size \in BufferSizes, Storage(size) PROVE CbInv'
  BY <1>2, AnewActions
<1>3. CASE ClearList
  BY <1>3, AnewActions
<1>4. CASE InUse /\ (WriteReg \/ (\E n \in Writes : WriteRegs(n)) \/ \E n \in Copies : CopyCommands(n))
  BY <1>4, WritesKeep
<1>5. CASE InUse /\ (SplitList \/ Flush)
  BY <1>5, SplitListKeeps
<1>6. CASE InUse /\ (Transfer \/ AddOther \/ RunInPlace)
  BY <1>6, RequestsKeep
<1>7. CASE StartSave
  BY <1>7, StartSaveKeeps
<1>8. CASE StopSave
  BY <1>8, StopSaveKeeps
<1>9. CASE UseSaved
  BY <1>9, UseSavedKeeps
<1>10. CASE CopySaved
  BY <1>10, CopySavedKeeps
<1>11. CASE RestartLists
  BY <1>11, CbRestart
<1>12. CASE UNCHANGED cbVars
  <2>1. cb' = cb /\ cbBound' = cbBound /\ saving' = saving /\ saved' = saved
    BY <1>12 DEF cbVars
  <2>2. QED
    BY <2>1 DEF CbInv, CbTypeOK, List
<1>13. QED
  BY <1>1, <1>2, <1>3, <1>4, <1>5, <1>6, <1>7, <1>8, <1>9, <1>10, <1>11, <1>12 DEF CbNext

\* It is the property, of every list that has not gone astray.
LEMMA CbInvTiles == CbInv => CommandsTile
<1> SUFFICES ASSUME CbInv, NEW l \in CbLists, ~cb[l].astray
             PROVE  LET reqs == cb[l].reqs
                    IN /\ cb[l].split <= cb[l].pos
                       /\ cb[l].pos <= cb[l].max + (IF cb[l].ragged THEN 1 ELSE 0)
                       /\ cb[l].split = OwnSize(reqs, Len(reqs))
                       /\ \A i \in DOMAIN reqs : IsOwn(reqs[i]) =>
                            /\ reqs[i].addr = OwnSize(reqs, i - 1)
                            /\ reqs[i].size > 0
                            /\ ~cb[l].ragged => reqs[i].size % 4 = 0
  BY DEF CommandsTile
<1>1. Tiles(cb[l]) /\ cb[l] \in ListRecord
  BY DEF CbInv, CbTypeOK
<1>2. cb[l].reqs \in Seq(Request)
  BY <1>1 DEF ListRecord
<1>3. DOMAIN cb[l].reqs = 1 .. Len(cb[l].reqs)
  BY <1>2, LenProperties
<1>4. cb[l].pos \in Nat /\ cb[l].max \in Nat /\ cb[l].split \in Nat
  BY <1>1 DEF ListRecord
<1>5. cb[l].split <= cb[l].pos /\ cb[l].pos <= cb[l].max + (IF cb[l].ragged THEN 1 ELSE 0)
  BY <1>1, <1>4 DEF Tiles, Within
<1>6. QED
  BY <1>1, <1>3, <1>5 DEF Tiles, WholeSizes, IsOwn

\* Whatever splits, saves and copies follow one another, the render requests that a
\* list has of its own tile its buffer up to last_split_offset, for buffers, writes and copies
\* of any sizes: no command is run twice, and none is left out. They are of whole 16 bytes
\* where what was copied is of whole pairs.
THEOREM CommandsDoTile == CbSpec => []CommandsTile
<1>1. CbSpec => []CbInv
  BY CbInitInv, CbNextInv, PTL DEF CbSpec
<1>2. QED
  BY <1>1, CbInvTiles, PTL

------------------------------------------------------------------------------
(* The parts side by side. *)

\* Shaders, registers and command buffers keep their properties in the composition that
\* the run checks.
THEOREM CommandsAreRight ==
    CommandsSpec => [](CountsExact /\ ProcessorsFollow /\ RegistersFollow /\ CommandsTile)
<1>1. CommandsInit => ShaderInv /\ RegInv /\ CbInv
  BY ShaderInitInv, RegInitInv, CbInitInv DEF CommandsInit
<1>2. [CommandsNext]_commandsVars => [ShaderNext]_shaderVars /\ [RegNext]_regVars /\ [CbNext]_cbVars
  BY DEF CommandsNext, commandsVars
<1>3. ShaderInv /\ RegInv /\ CbInv /\ [CommandsNext]_commandsVars => (ShaderInv /\ RegInv /\ CbInv)'
  BY <1>2, ShaderNextInv, RegNextInv, CbNextInv
<1>4. ShaderInv /\ RegInv /\ CbInv => CountsExact /\ ProcessorsFollow /\ RegistersFollow /\ CommandsTile
  BY InvSuffices, CbInvTiles DEF ShaderInv, Follow
<1>5. QED
  BY <1>1, <1>3, <1>4, PTL DEF CommandsSpec
==============================================================================
