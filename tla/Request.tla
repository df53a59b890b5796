------------------------------ MODULE Request ------------------------------
(***************************************************************************)
(* From the expression a caller writes to the request the Bridge gets:      *)
(* building expressions (expr.py), simplify (simplify.py), the domain       *)
(* (domain.py), compilation to indices, and the choice of the backend       *)
(* (Solver._prepare_request and _select_backend).                           *)
(*                                                                          *)
(* Rational numbers are abstracted to the field of the integers modulo the  *)
(* prime P: simplification uses the laws of a field and compares with 0, 1  *)
(* and -1 only.  One partial function, log, stands for every function of    *)
(* one argument that simplify enters; abs for the ones that it does not.    *)
(***************************************************************************)
EXTENDS Integers, FiniteSetsExt, SequencesExt

CONSTANTS
    P,          \* prime: the field
    Vars,       \* names of variables
    X,          \* the name 'x'
    Consts,     \* constants a caller writes
    Operators,  \* binary operators and functions the caller uses
    Powers,     \* exponents
    MaxSteps,   \* bound: steps of building one expression
    Domains     \* domains: Interval, or the names of a Box in its order

Interval == <<>>
Binary   == {"add", "sub", "mul", "div"}
Unary    == {"neg", "log", "abs"}

ASSUME RequestAssumption ==
    /\ P \in Nat /\ P > 2
    /\ X \in Vars
    /\ Operators \subseteq Binary \cup Unary
    /\ Consts \subseteq 0 .. P - 1 /\ Powers \subseteq Nat
    /\ MaxSteps \in Nat /\ Domains \subseteq Seq(Vars)

VARIABLES
    stack,    \* expressions the caller has built and not used yet
    steps,    \* steps of building
    status,   \* "building", then how the call went: "sent" or "DomainError"
    expr,     \* the caller's expression
    kernel,   \* the compiled expression in the request
    order,    \* var_order of the normalized box
    backend   \* "DYADIC" or "AFFINE"
vars == <<stack, steps, status, expr, kernel, order, backend>>

-----------------------------------------------------------------------------
(* Expressions *)

var(name)  == [op |-> "var", name |-> name]
const(val) == [op |-> "const", val |-> val % P]
Neg(e)     == [op |-> "neg", e |-> e]
Pow(e, n)  == [op |-> "pow", e |-> e, n |-> n]
Apply(f, e)   == [op |-> f, e |-> e]
Bin(f, e1, e2) == [op |-> f, e1 |-> e1, e2 |-> e2]

IsConst(e)     == e.op = "const"
IsThe(e, c)    == e.op = "const" /\ e.val = c % P
IsNeg(e)       == e.op = "neg"

RECURSIVE FreeVars(_)
FreeVars(e) ==
    CASE e.op = "var"    -> {e.name}
      [] e.op = "const"  -> {}
      [] e.op \in Binary -> FreeVars(e.e1) \cup FreeVars(e.e2)
      [] OTHER           -> FreeVars(e.e)

Undefined == -1
Reciprocal(v) == CHOOSE w \in 1 .. P - 1 : (v * w) % P = 1
LogOf(v)  == IF v = 0 THEN Undefined ELSE (v * v + 1) % P
AbsOf(v)  == IF v > P \div 2 THEN P - v ELSE v

RECURSIVE PowerOf(_, _)
PowerOf(v, n) == IF n = 0 THEN 1 ELSE (v * PowerOf(v, n - 1)) % P

(* Expr.evaluate *)
RECURSIVE Value(_, _)
Value(e, env) ==
    IF e.op \in Binary
      THEN LET v1 == Value(e.e1, env)
               v2 == Value(e.e2, env)
           IN  CASE v1 = Undefined \/ v2 = Undefined -> Undefined
                 [] e.op = "add" -> (v1 + v2) % P
                 [] e.op = "sub" -> (v1 - v2) % P
                 [] e.op = "mul" -> (v1 * v2) % P
                 [] e.op = "div" -> IF v2 = 0 THEN Undefined ELSE (v1 * Reciprocal(v2)) % P
      ELSE IF e.op \in {"var", "const"}
        THEN IF e.op = "var" THEN env[e.name] ELSE e.val
        ELSE LET v == Value(e.e, env)
             IN  CASE v = Undefined  -> Undefined
                   [] e.op = "neg" -> (-v) % P
                   [] e.op = "pow" -> PowerOf(v, e.n)
                   [] e.op = "log" -> LogOf(v)
                   [] e.op = "abs" -> AbsOf(v)

(* count_var_occurrences, has_dependency *)
RECURSIVE Occurrences(_, _)
Occurrences(e, name) ==
    CASE e.op = "var"    -> IF e.name = name THEN 1 ELSE 0
      [] e.op = "const"  -> 0
      [] e.op \in Binary -> Occurrences(e.e1, name) + Occurrences(e.e2, name)
      [] OTHER           -> Occurrences(e.e, name)

HasDependency(e, names) == \E name \in names : Occurrences(e, name) > 1

-----------------------------------------------------------------------------
(* Polynomials: functions from monomials to coefficients, where a monomial   *)
(* gives each variable its power.                                            *)

RECURSIVE IsPolynomial(_)
IsPolynomial(e) ==
    CASE e.op \in {"var", "const"}        -> TRUE
      [] e.op \in {"add", "sub", "mul"}   -> IsPolynomial(e.e1) /\ IsPolynomial(e.e2)
      [] e.op \in {"neg", "pow"}          -> IsPolynomial(e.e)
      [] OTHER                            -> FALSE

One == [v \in Vars |-> 0]
NonZero(p) == [m \in {k \in DOMAIN p : p[k] # 0} |-> p[m]]
Coefficient(p, m) == IF m \in DOMAIN p THEN p[m] ELSE 0
Negated(p) == [m \in DOMAIN p |-> (-p[m]) % P]
AddPoly(p, q) ==
    NonZero([m \in DOMAIN p \cup DOMAIN q |-> (Coefficient(p, m) + Coefficient(q, m)) % P])

MulMonomial(m, k) == [v \in Vars |-> m[v] + k[v]]
MulPoly(p, q) ==
    LET pairs == (DOMAIN p) \X (DOMAIN q)
        term(pair) == p[pair[1]] * q[pair[2]]
        into(m) == {pair \in pairs : MulMonomial(pair[1], pair[2]) = m}
    IN  NonZero([m \in {MulMonomial(pair[1], pair[2]) : pair \in pairs} |->
                    MapThenSumSet(term, into(m)) % P])

RECURSIVE PowPoly(_, _)
PowPoly(p, n) == IF n = 0 THEN (One :> 1) ELSE MulPoly(PowPoly(p, n - 1), p)

RECURSIVE ToPolynomial(_)
ToPolynomial(e) ==
    CASE e.op = "const" -> (One :> e.val)
      [] e.op = "var"   -> ([One EXCEPT ![e.name] = 1] :> 1)
      [] e.op = "neg"   -> Negated(ToPolynomial(e.e))
      [] e.op = "add"   -> AddPoly(ToPolynomial(e.e1), ToPolynomial(e.e2))
      [] e.op = "sub"   -> AddPoly(ToPolynomial(e.e1), Negated(ToPolynomial(e.e2)))
      [] e.op = "mul"   -> MulPoly(ToPolynomial(e.e1), ToPolynomial(e.e2))
      [] e.op = "pow"   -> PowPoly(ToPolynomial(e.e), e.n)

(* _mono_to_expr: a product of powers; the order of factors, like that of    *)
(* the terms below, is abstracted.                                           *)
MonoToExpr(m) ==
    LET factor(v) == IF m[v] = 1 THEN var(v) ELSE Pow(var(v), m[v])
        names     == SetToSeq({v \in Vars : m[v] > 0})
    IN  FoldLeft(LAMBDA product, v : Bin("mul", product, factor(v)),
                 factor(Head(names)), Tail(names))

TermOf(m, c) ==
    CASE m = One          -> const(c)
      [] m # One /\ c = 1 -> MonoToExpr(m)
      [] m # One /\ c = P - 1 -> Neg(MonoToExpr(m))
      [] OTHER            -> Bin("mul", const(c), MonoToExpr(m))

FromPolynomial(p) ==
    LET terms == LET q == NonZero(p) IN [i \in 1 .. Cardinality(DOMAIN q) |->
                     LET m == SetToSeq(DOMAIN q)[i] IN TermOf(m, q[m])]
        plus(e, t) == IF IsNeg(t) THEN Bin("sub", e, t.e) ELSE Bin("add", e, t)
    IN  IF terms = <<>> THEN const(0)
                        ELSE FoldLeft(plus, Head(terms), Tail(terms))

-----------------------------------------------------------------------------
(* _simplify_recursive, one operator for each kind of node; the arguments    *)
(* are simplified already.                                                   *)

RECURSIVE Mentions(_, _)
Mentions(e, f) ==
    \/ e.op = f
    \/ e.op \in Binary /\ (Mentions(e.e1, f) \/ Mentions(e.e2, f))
    \/ e.op \in {"neg", "log", "abs", "pow"} /\ Mentions(e.e, f)

(* Mutant of ExprEqual: only the kinds of the nodes are compared. *)
ExprEqualKind(e1, e2) == e1.op = e2.op /\ ~Mentions(e1, "abs")

(* _expr_equal knows no Abs: an expression with one equals nothing. *)
ExprEqual(e1, e2) == e1 = e2 /\ ~Mentions(e1, "abs")

SimpleNeg(e) == IF IsNeg(e) THEN e.e
                ELSE IF IsConst(e) THEN const(-e.val) ELSE Neg(e)

SimpleAdd(e1, e2) ==
    IF IsConst(e1) /\ IsConst(e2) THEN const(e1.val + e2.val)
    ELSE IF IsThe(e2, 0) THEN e1
    ELSE IF IsThe(e1, 0) THEN e2
    ELSE IF IsNeg(e2) THEN Bin("sub", e1, e2.e)
    ELSE Bin("add", e1, e2)

SimpleSub(e1, e2) ==
    IF IsConst(e1) /\ IsConst(e2) THEN const(e1.val - e2.val)
    ELSE IF IsThe(e2, 0) THEN e1
    ELSE IF IsThe(e1, 0) THEN Neg(e2)
    ELSE IF ExprEqual(e1, e2) THEN const(0)
    ELSE Bin("sub", e1, e2)

SimpleMul(e1, e2) ==
    IF IsConst(e1) /\ IsConst(e2) THEN const(e1.val * e2.val)
    ELSE IF IsThe(e1, 0) \/ IsThe(e2, 0) THEN const(0)
    ELSE IF IsThe(e2, 1) THEN e1
    ELSE IF IsThe(e1, 1) THEN e2
    ELSE IF IsNeg(e1) /\ IsNeg(e2) THEN Bin("mul", e1.e, e2.e)
    ELSE Bin("mul", e1, e2)

RECURSIVE SimplifyRecursive(_), SimpleDiv(_, _)

(* Mutant of SimpleDiv: scaling by a constant stays a division. *)
SimpleDivKept(e1, e2) ==
    IF IsConst(e1) /\ IsConst(e2) /\ ~IsThe(e2, 0) THEN const(e1.val * Reciprocal(e2.val))
    ELSE IF IsThe(e1, 0) THEN const(0)
    ELSE IF IsThe(e2, 1) THEN e1
    ELSE IF ExprEqual(e1, e2) THEN const(1)
    ELSE Bin("div", e1, e2)

(* The product is simplified once more: x + (-x) became x - x before, and    *)
(* becomes 0 now.                                                            *)
SimpleDiv(e1, e2) ==
    IF IsConst(e1) /\ IsConst(e2) /\ ~IsThe(e2, 0) THEN const(e1.val * Reciprocal(e2.val))
    ELSE IF IsThe(e1, 0) THEN const(0)
    ELSE IF IsThe(e2, 1) THEN e1
    ELSE IF IsConst(e2) /\ ~IsThe(e2, 0)
      THEN SimplifyRecursive(Bin("mul", e1, const(Reciprocal(e2.val))))
    ELSE IF ExprEqual(e1, e2) THEN const(1)
    ELSE Bin("div", e1, e2)

SimplePow(e, n) ==
    IF n = 0 THEN const(1)
    ELSE IF n = 1 THEN e
    ELSE IF IsConst(e) THEN const(PowerOf(e.val, n))
    ELSE Pow(e, n)

SimplifyRecursive(e) ==
    CASE e.op = "neg" -> SimpleNeg(SimplifyRecursive(e.e))
      [] e.op = "add" -> SimpleAdd(SimplifyRecursive(e.e1), SimplifyRecursive(e.e2))
      [] e.op = "sub" -> SimpleSub(SimplifyRecursive(e.e1), SimplifyRecursive(e.e2))
      [] e.op = "mul" -> SimpleMul(SimplifyRecursive(e.e1), SimplifyRecursive(e.e2))
      [] e.op = "div" -> SimpleDiv(SimplifyRecursive(e.e1), SimplifyRecursive(e.e2))
      [] e.op = "pow" -> SimplePow(SimplifyRecursive(e.e), e.n)
      [] e.op = "log" -> Apply("log", SimplifyRecursive(e.e))
      [] OTHER        -> e

simplify(e) == IF IsPolynomial(e) THEN FromPolynomial(ToPolynomial(e)) ELSE SimplifyRecursive(e)

-----------------------------------------------------------------------------
(* Expr.compile: names become positions in var_order, a difference becomes   *)
(* the sum with a negation.                                                  *)
RECURSIVE Compile(_, _)
Compile(e, names) ==
    CASE e.op = "var"   -> var(CHOOSE i \in DOMAIN names : names[i] = e.name)
      [] e.op = "const" -> e
      [] e.op = "sub"   -> Bin("add", Compile(e.e1, names), Neg(Compile(e.e2, names)))
      [] e.op = "pow"   -> Pow(Compile(e.e, names), e.n)
      [] e.op \in Unary -> Apply(e.op, Compile(e.e, names))
      [] OTHER          -> Bin(e.op, Compile(e.e1, names), Compile(e.e2, names))

(* Mutant of VarOrder: an interval without variables gets no name. *)
VarOrderFree(e, domain) == IF domain = Interval THEN SetToSeq(FreeVars(e)) ELSE domain

(* normalize_domain: an interval gets the name of the only variable of the    *)
(* expression, or 'x'; a Box keeps its order.                                *)
VarOrder(e, domain) ==
    IF domain = Interval
      THEN IF Cardinality(FreeVars(e)) = 1 THEN <<CHOOSE v \in FreeVars(e) : TRUE>> ELSE <<X>>
      ELSE domain

Init ==
    /\ stack = <<>> /\ steps = 0 /\ status = "building"
    /\ expr = const(0) /\ kernel = const(0) /\ order = <<>> /\ backend = "DYADIC"

(* Writing an expression with Python operators *)
Build(new) ==
    /\ status = "building" /\ steps < MaxSteps
    /\ steps' = steps + 1
    /\ stack' = new
    /\ UNCHANGED <<status, expr, kernel, order, backend>>

Depth == Len(stack)
WriteLeaf ==
    \E leaf \in {var(v) : v \in Vars} \cup {const(c) : c \in Consts} :
        Depth < 2 /\ Build(Append(stack, leaf))
(* A name bound to an expression is used twice. *)
UseAgain == Depth = 1 /\ Build(Append(stack, stack[1]))
WriteUnary ==
    \E f \in Operators \cap Unary :
        Depth > 0 /\ Build(ReplaceAt(stack, Depth, Apply(f, stack[Depth])))
WritePower ==
    \E n \in Powers : Depth > 0 /\ Build(ReplaceAt(stack, Depth, Pow(stack[Depth], n)))
WriteBinary ==
    \E f \in Operators \cap Binary : Depth = 2 /\ Build(<<Bin(f, stack[1], stack[2])>>)

(* _prepare_request with auto_simplify, then _select_backend for the default *)
(* Config.  validate_expr looks at the simplified expression, the choice of  *)
(* the backend at the caller's.                                              *)
Request(domain) ==
    LET simple == simplify(stack[1])
        names  == VarOrder(simple, domain)
    IN  /\ status = "building" /\ Depth = 1
        /\ expr' = stack[1]
        /\ stack' = <<>>
        /\ IF FreeVars(simple) \subseteq Range(names)
             THEN /\ status' = "sent"
                  /\ order' = names
                  /\ kernel' = Compile(simple, names)
                  /\ backend' = IF HasDependency(stack[1], Vars) THEN "AFFINE" ELSE "DYADIC"
             ELSE status' = "DomainError" /\ UNCHANGED <<kernel, order, backend>>
        /\ UNCHANGED steps

Quiescent == (status # "building" \/ steps = MaxSteps) /\ UNCHANGED vars

Next == WriteLeaf \/ UseAgain \/ WriteUnary \/ WritePower \/ WriteBinary
        \/ (\E domain \in Domains : Request(domain))
        \/ Quiescent

Spec == Init /\ [][Next]_vars

-----------------------------------------------------------------------------
Points == [Vars -> 0 .. P - 1]
AtPoint(env) == Value(kernel, [i \in DOMAIN order |-> env[order[i]]])

TypeOK ==
    /\ status \in {"building", "sent", "DomainError"} /\ steps \in 0 .. MaxSteps
    /\ Depth <= 2 /\ order \in Seq(Vars)
    /\ backend \in {"DYADIC", "AFFINE"}
    /\ status = "sent" => order # <<>> /\ FreeVars(kernel) \subseteq DOMAIN order

(* Wherever the caller's expression has a value, the request has that value   *)
(* at the coordinates of the point: nothing that simplification cancels,      *)
(* folds, expands or reorders, and no index, changes the function.            *)
SameValue ==
    status = "sent" =>
        \A env \in Points :
            Value(expr, env) # Undefined => AtPoint(env) = Value(expr, env)

RECURSIVE DividesByConstant(_)
DividesByConstant(e) ==
    CASE e.op \in {"var", "const"} -> FALSE
      [] e.op \in Binary -> \/ e.op = "div" /\ IsConst(e.e2) /\ ~IsThe(e.e2, 0)
                            \/ DividesByConstant(e.e1) \/ DividesByConstant(e.e2)
      [] OTHER           -> DividesByConstant(e.e)

(* simplify.py:146: rational scaling stays in the globally optimizable core   *)
(* fragment: a request divides by no constant but zero, except within an Abs. *)
Scaled ==
    status = "sent" /\ ~Mentions(kernel, "abs") => ~DividesByConstant(kernel)
=============================================================================
