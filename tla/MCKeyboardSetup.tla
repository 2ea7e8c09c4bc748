-------------------------- MODULE MCKeyboardSetup --------------------------
(* Small instance: against "base", layout "moved" only moves keys, "wider" *)
(* has more keys, and "other" also plans the markers elsewhere.            *)
EXTENDS KeyboardSetup

CONSTANTS c1, c2, base, moved, wider, other

TwoCameras  == {c1, c2}
MirroredToo == {c2}
MCLayouts == {base, moved, wider, other}
ThreeLayouts == {base, wider, other}
MCKeys == [l \in {base, moved, wider, other} |-> IF l \in {base, moved} THEN "keys1" ELSE "keys2"]
MCPlan == [l \in {base, moved, wider, other} |-> IF l = other THEN "plan2" ELSE "plan1"]
=============================================================================
