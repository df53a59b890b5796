---------------------------- MODULE MCQuantifier ----------------------------
(* A small instance: six cells, values that are whole multiples of a unit   *)
(* that can be halved more often than any refinement halves it.             *)
EXTENDS Quantifier

Unit == 1024

MCCells == 1..6
MCNumbers == {-2 * Unit, -Unit, 0, Unit, 2 * Unit}

(* Falling to zero; changing its sign twice; zero; a plateau with a spike.  *)
MCFunctions ==
    {[c \in MCCells |-> Unit * F[c]] :
        F \in {<<2, 1, 1, 0, 0, 0>>, <<0, -2, -1, -1, 1, 1>>, <<0, 0, 0, 0, 0, 0>>,
               <<-2, -2, -2, 2, -2, -2>>}}

MCSegments == {{1, 2}, {2, 3}, {4, 5}}

Base == [op |-> "find_bounds", box |-> 1..3, lower |-> {}, upper |-> {}, backend |-> "dyadic",
         repeats |-> TRUE, racing |-> FALSE, refining |-> FALSE, target |-> {}]

MCCalls ==
    {[Base EXCEPT !.op = "verify_bound", !.lower = l, !.upper = u] :
        l \in {{}, {-Unit}}, u \in {{}, {Unit}}}
    \cup {[Base EXCEPT !.op = "discover", !.lower = {0}, !.upper = {Unit}]}
    \cup {[Base EXCEPT !.op = "diagnose", !.lower = l, !.upper = u] :
            l \in {{}, {-Unit}, {2 * Unit}}, u \in {{}, {0}, {Unit}}}
    \cup {[Base EXCEPT !.op = o] : o \in {"eval_interval", "find_unique_root", "root_witness"}}
    \cup {[Base EXCEPT !.op = o, !.box = 1..2, !.racing = r, !.refining = ~r, !.target = t] :
            o \in {"min_witness", "max_witness"}, r \in BOOLEAN, t \in {{}, {0}}}

MCTasks ==
    {[NoTask EXCEPT !.pattern = "exists_forall_bound", !.box = 1..3, !.abs = a] : a \in BOOLEAN}
    \cup {[NoTask EXCEPT !.pattern = "forall_sign", !.box = 2..4, !.sign = s] : s \in Signs}
    \cup {[NoTask EXCEPT !.pattern = p, !.box = 2..3, !.refining = r] :
            p \in {"minimum_witness", "maximum_witness"}, r \in BOOLEAN}
    \cup {[NoTask EXCEPT !.pattern = "exists_root", !.box = 1..6]}
    \cup {[NoTask EXCEPT !.pattern = p, !.epsilons = <<2 * Unit, Unit + 1>>, !.at = 2] :
            p \in {"asymptotic", "searched_delta"}}
    \cup {[NoTask EXCEPT !.pattern = "lipschitz_delta", !.epsilons = <<4 * Unit, Unit + 1>>, !.at = a] :
            a \in 1..2}
=============================================================================
