---------------------------- MODULE MCGLCommands -----------------------------
EXTENDS GLCommands, TLC
CONSTANTS v1, v2, g1
\* One binary for two vertex shaders, and one for a vertex and a geometry shader.
MCPackages == {<<v1, v2>>, <<v1, g1>>}
\* Everything twice; then one program or one binary, with a second shader deleted, or
\* with the processors validated in parts.
Uses(names, deleted, masks) == [uses |-> names, deletes |-> deleted, masks |-> masks]
MCApplications ==
  {Uses({v1, g1} \cup Programs \cup Binaries, {}, {})}
  \cup UNION {{Uses({v1, v2, p} \cup Binaries, {v2}, {}),
               Uses({v1, g1, p} \cup Binaries, {g1}, {}),
               Uses({v1, g1, p} \cup Binaries, {}, {{"binary", "float"}, {"mode"}})} : p \in Programs}
  \cup UNION {{Uses({v1, v2, b} \cup Programs, {v2}, {}),
               Uses({v1, g1, b} \cup Programs, {}, {{"float"}})} : b \in Binaries}
MCStateMasks == {{"program", "vertex"}, {"fragment", "mode", "trioffset", "rest"}}
MCSymmetry == Permutations(Programs) \cup Permutations(Binaries)
==============================================================================
