------------------------------ MODULE MCGLObjects ------------------------------
EXTENDS GLObjects
CONSTANTS u1, l1, a1
\* The two kinds of texture of a unit, or a lookup table.
MCSlotChoices == {{<<"2D", u1>>, <<"CUBE", u1>>}, {<<"LUT", l1>>}}
==============================================================================
