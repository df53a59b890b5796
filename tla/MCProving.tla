----------------------------- MODULE MCProving ------------------------------
(* A small instance: coordinates 0, 1/2 and 1 on two axes, and claims of    *)
(* every shape that takes a route of its own.                               *)
EXTENDS Proving

MCCoords  == 0..2
MCNumbers == {-8, -4, 0, 4, 8}

Made(const, v) == [const |-> const, external |-> FALSE, plain |-> TRUE, val |-> v]
X      == Made(FALSE, [p \in Points |-> 4 * p[1]])
Bump   == Made(FALSE, [p \in Points |-> IF p[1] = 1 THEN 4 ELSE 0])
Sum    == Made(FALSE, [p \in Points |-> 4 * (p[1] - p[2])])
Zero   == Made(TRUE, [p \in Points |-> 0])
Four   == Made(TRUE, [p \in Points |-> 4])
Ext    == [Bump EXCEPT !.external = TRUE]
Odd    == [X EXCEPT !.plain = FALSE]

Rel(l, r, rel) == [kind |-> "compare", lhs |-> l, rel |-> rel, rhs |-> r]
And(items)     == [kind |-> "and", items |-> items]
Unit  == [lo |-> 0, hi |-> 2, closed |-> TRUE, known |-> TRUE, sort |-> "real"]
Open  == [Unit EXCEPT !.closed = FALSE]
Point == [Unit EXCEPT !.hi = 0]
Hollow == [Point EXCEPT !.closed = FALSE]
Grid  == [Unit EXCEPT !.sort = "integer"]
Vague == [Unit EXCEPT !.lo = 2, !.hi = 0, !.known = FALSE]

Roots(asks, n) == [kind |-> "scalar", asks |-> asks, closed |-> TRUE, roots |-> n]
System(u, n)   == [kind |-> "system", unique |-> u, closed |-> TRUE, roots |-> n]
Tail_(h, r)    == [kind |-> "eventual", reciprocal |-> r, holds |-> h]
Int_(left, rel, v) == [kind |-> "integral", left |-> left, rel |-> rel, bound |-> 4, value |-> v,
                       single |-> TRUE, closed |-> TRUE]

Bodies ==
    {Rel(l, r, rel) : l \in {Bump, Four}, r \in {Bump, Four, Zero}, rel \in Relations}
    \cup {Rel(X, Bump, rel) : rel \in {"lt", "ge", "eq"}}
    \cup {And({Rel(Zero, Bump, a), Rel(Bump, Four, b)}) : a, b \in {"le", "lt"}}
    \cup {And({Rel(X, Four, "le"), Rel(Zero, Bump, "le")}),
          And({Rel(X, Sum, "eq"), Rel(Bump, Four, "lt")}),
          And({Rel(Four, Zero, "lt"), Rel(Bump, Four, "le")}),
          And({Rel(Zero, Four, "lt"), Rel(Bump, Four, "le")})}

Closed ==
    {Roots(a, n) : a \in {"exists", "unique", "excluded"}, n \in 0..2}
    \cup {System(u, n) : u \in BOOLEAN, n \in 0..2}
    \cup {Tail_(h, r) : h, r \in BOOLEAN}
    \cup {Int_(l, rel, v) : l \in BOOLEAN, rel \in {"eq", "le", "lt"}, v \in {0, 4, 8}}
    \cup {And({Roots("unique", n), System(FALSE, 1)}) : n \in 1..2}
    \cup {And({Int_(TRUE, "le", 4), Tail_(TRUE, TRUE)})}
    \cup {[kind |-> "other", holds |-> TRUE]}

MCClaims ==
    {[binders |-> <<d>>, body |-> b] : d \in {Unit, Open, Hollow, Grid, Vague}, b \in Bodies}
    \cup {[binders |-> << >>, body |-> b] : b \in Closed}
    \cup {[binders |-> <<d, e>>, body |-> b] : d \in {Unit, Hollow}, e \in {Point, Unit},
            b \in {Rel(Sum, Four, "lt"), Rel(Sum, Zero, "ge"), Rel(Four, Zero, "le"),
                   And({Rel(X, Sum, "eq"), Roots("exists", 1)})}}
    \cup {[binders |-> <<Unit>>, body |-> b] :
            b \in {Rel(Ext, Four, "le"), Rel(Zero, Ext, "lt"), Rel(Odd, Four, "le"),
                   And({Rel(Ext, Four, "le"), Rel(Zero, Ext, "le")}),
                   And({Rel(Ext, Four, "le"), Rel(X, Four, "le")})}}

MCContracts == {Operations, Operations \ {"check_strict_bound", "check_scalar_root"},
                {"check_strict_bound"}}
=============================================================================
