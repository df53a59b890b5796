------------------------------- MODULE MCCegar -------------------------------
(* Small instances of Cegar for TLC: a 4 x 2 grid and a 4-cell line.         *)
EXTENDS Cegar, TLC

CONSTANTS x, y, w1, w2

TwoVars == {x, y}
Coords  == 0 .. 3
Plane   == x :> [lo |-> 0, hi |-> 4] @@ y :> [lo |-> 0, hi |-> 2]

OneVar  == {x}
Line    == x :> [lo |-> 0, hi |-> 4]

(* The upper bound holds everywhere, the lower bound fails in one cell.      *)
WrongPlane == [d \in Directions |-> IF d = "upper" THEN {} ELSE {x :> 2 @@ y :> 1}]
WrongLine  == [d \in Directions |-> IF d = "upper" THEN {} ELSE {x :> 2}]

OneBound   == {{}, {"upper"}, {"lower"}}
BothBounds == {{"upper", "lower"}}

Threads == {w1, w2}

BothModes    == {"parallel", "sequential"}
InOrder      == {"sequential"}
AnyPoint     == {"worst_point"}
PlaneCuts    == {"worst_point", "largest_first"}
=============================================================================
