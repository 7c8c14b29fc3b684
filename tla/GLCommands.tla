----------------------------- MODULE GLCommands ------------------------------
(***************************************************************************)
(* The parts of gles2 that fill command buffers: the buffers themselves,    *)
(* the shaders of the shader manager, whose validation loads them, and the  *)
(* registers of its programs. What is modelled of a validation is what it   *)
(* loads, not how many commands that takes, and a register does not depend  *)
(* on which code is loaded: every behaviour of one part is one with the     *)
(* others at rest.                                                          *)
(***************************************************************************)
EXTENDS Shaders, CommandBuffer, RegisterImage

VARIABLE part  \* the one that is called

commandsVars == <<shaderVars, cbVars, regVars, part>>

CommandsInit ==
  /\ ShaderInit /\ CbInit /\ RegInit
  /\ part \in {"shader", "buffer", "register"}
  /\ part # "register" => kind = CHOOSE k \in Kinds : TRUE
  /\ part # "shader" => application = CHOOSE a \in Applications : TRUE

CommandsNext ==
  /\ \/ part = "shader" /\ ShaderNext /\ UNCHANGED <<cbVars, regVars>>
     \/ part = "buffer" /\ CbNext /\ UNCHANGED <<shaderVars, regVars>>
     \/ part = "register" /\ RegNext /\ UNCHANGED <<shaderVars, cbVars>>
  /\ UNCHANGED part

CommandsSpec == CommandsInit /\ [][CommandsNext]_commandsVars
==============================================================================
