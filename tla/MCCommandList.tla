---- MODULE MCCommandList ----
EXTENDS CommandList, TLC
CONSTANTS l1, l2
\* A list with room for more requests than are issued ahead, and a small one.
Rooms == l1 :> 3 @@ l2 :> 1
====
