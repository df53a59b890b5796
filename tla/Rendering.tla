----------------------------- MODULE Rendering -----------------------------
(***************************************************************************)
(* leancert/export.py: which theorems the Lean source of an export states.  *)
(* A result of prove carries certificates, and for bounds the lowerings     *)
(* that say which comparison a checked bound stands for.  Rendering matches *)
(* them again and may find that there is no source for a result: {} then,   *)
(* ExportUnsupported in the code (every ValueError of a _render function).  *)
(*                                                                          *)
(* An expression is known by the kinds of its nodes; rationals, boxes and   *)
(* expressions are compared and never computed with.                        *)
(***************************************************************************)
EXTENDS Integers, Sequences, SequencesExt

CONSTANTS
    Exprs,       \* core expressions (a system of them is one too)
    Nodes,       \* expression -> the kinds of its nodes
    Boxes,       \* domains
    Rationals,   \* bounds
    None         \* no value (Python's None)

(* Kinds of nodes that the four translations accept; "var0" is the variable *)
(* of index 0, "var" any other.                                             *)
Vars       == {"var0", "var"}
Smooth     == {"const", "add", "mul", "neg", "sin", "cos", "exp"} \cup Vars
Computable == Smooth \cup {"log", "sqrt", "sinh", "cosh", "tanh", "erf", "named_const"}
Core       == Computable \cup {"inv", "atan", "arsinh", "atanh", "sinc"}

CoreExpression(e)    == Nodes[e] \subseteq Core
SupportProof(e)      == Nodes[e] \subseteq Smooth
CoreSupportProof(e)  == Nodes[e] \subseteq Computable
ContinuousProof(e)   == Nodes[e] \subseteq Smooth
UsesOnlyVar0Proof(e) == Nodes[e] \subseteq Smooth \ {"var"}

(* Where the evidence of a result comes from. *)
Provenance == [toolchain : {None, "odd", "released"}, source : {None, "other", "canonical"},
               revision : {None, "short", "full"},
               env : {None, "env"}, lock : {None, "lock"}, package : {None, "package"}]

(* known: checker and verifier are those that the source will name. *)
Certificate == [direction : {"lower", "upper"}, bound : Rationals, strict : BOOLEAN,
                expr : Exprs, box : Boxes, known : BOOLEAN]
Lowering    == [direction : {"lower", "upper"}, bound : Rationals, strict : BOOLEAN,
                checked : Exprs, lhs : Exprs, rhs : Exprs]

(* Results of prove that can be exported. *)
Verified == [kind : {"bound"}, prov : Provenance, checks : Seq(Certificate \cup {None}),
             lowerings : Seq(Lowering), domain : Boxes, equality : BOOLEAN]
Child == [type : {"verified", "normalized_true", "registered", "other"}, prov : Provenance,
          checks : Seq(Certificate \cup {None}), lowerings : Seq(Lowering), domain : Boxes]
Conjunction == [kind : {"conjunction"}, children : Seq(Child), equality : BOOLEAN]
SystemRoot == [kind : {"system_root"}, prov : Provenance, known : BOOLEAN, expr : Exprs,
               box : Boxes, unique : BOOLEAN]
EventualBound == [kind : {"eventual_bound"}, prov : Provenance, known : BOOLEAN, expr : Exprs,
                  box : Boxes, bound : Rationals]
ScalarRoot == [kind : {"scalar_root"}, prov : Provenance, known : BOOLEAN, expr : Exprs,
               box : Boxes, claim : {"exists", "unique", "excluded"}]
Integral == [kind : {"integral"}, prov : Provenance, known : BOOLEAN, expr : Exprs, box : Boxes,
             bound : Rationals, relation : {"eq", "lower", "upper"}, partitions : Int \cup {None}]
Result == Verified \cup Conjunction \cup SystemRoot \cup EventualBound \cup ScalarRoot
            \cup Integral

(* A theorem: a relation of expressions and rationals over a domain. *)
Forms == {"lt", "le", "eq", "exists", "unique", "excluded", "eventually_le",
          "integral_eq", "integral_ge", "integral_le"}
Statement == [form : Forms, of : Seq(Exprs \cup Rationals), over : Boxes]

States(form, of, box) == [form |-> form, of |-> of, over |-> box]
Compares(l, box) == States(IF l.strict THEN "lt" ELSE "le", <<l.lhs, l.rhs>>, box)

-----------------------------------------------------------------------------
(* Bounds *)

Matches(c, l) ==
    /\ l.direction = c.direction /\ l.bound = c.bound
    /\ l.strict = c.strict /\ l.checked = c.expr

(* Each certificate takes the first remaining lowering that matches.  There *)
(* is one such selection, or none when a certificate finds no lowering.     *)
Selections(checks, lowerings) ==
    {s \in [1..Len(checks) -> 1..Len(lowerings)] :
       \A k \in 1..Len(checks) :
         /\ Matches(checks[k], lowerings[s[k]])
         /\ \A j \in 1..(k - 1) : s[j] # s[k]
         /\ \A i \in 1..(s[k] - 1) :
              Matches(checks[k], lowerings[i]) => \E j \in 1..(k - 1) : s[j] = i}

Renderable(c, l) ==
    c.known /\ SupportProof(c.expr) /\ CoreExpression(l.lhs) /\ CoreExpression(l.rhs)

(* The two sides of an equality, from two non-strict checks of one domain.  *)
Opposite(l1, l2) == l1.lhs = l2.rhs /\ l1.rhs = l2.lhs

RenderBound(r) ==
    LET n == Len(r.checks)
        selections == Selections(r.checks, r.lowerings)
        By(k) == r.lowerings[(CHOOSE s \in selections : TRUE)[k]]
        stated == {Compares(By(k), r.checks[k].box) : k \in 1..n}
    IN IF /\ n > 0 /\ \A k \in 1..n : r.checks[k] # None
          /\ selections # {} /\ \A k \in 1..n : Renderable(r.checks[k], By(k))
          /\ r.equality => /\ n = 2 /\ r.checks[1].box = r.checks[2].box
                           /\ Opposite(By(1), By(2))
         THEN IF r.equality
                THEN stated \cup {States("eq", <<By(1).lhs, By(1).rhs>>, r.checks[1].box)}
                ELSE stated
         ELSE {}

(* The checks of the members of a conjunction, as those of one bound. *)
Composable(r) ==
    /\ r.children # << >>
    /\ \A k \in 1..Len(r.children) :
         /\ r.children[k].type = "verified"
         /\ r.children[k].prov = r.children[1].prov
         /\ r.children[k].domain = r.children[1].domain

Composed(r) ==
    [kind |-> "bound", prov |-> r.children[1].prov, domain |-> r.children[1].domain,
     checks |-> FlattenSeq([k \in 1..Len(r.children) |-> r.children[k].checks]),
     lowerings |-> FlattenSeq([k \in 1..Len(r.children) |-> r.children[k].lowerings]),
     equality |-> r.equality]

(* What execute_bound_plan retains: a check of every lowering, over the     *)
(* domain; an equality is a conjunction whose checks are in order.          *)
Retained(r) ==
    /\ Len(r.checks) = Len(r.lowerings)
    /\ \A k \in 1..Len(r.checks) : r.checks[k] # None => r.checks[k].box = r.domain
    /\ r.equality /\ r.checks # << >> /\ r.checks[1] # None => Matches(r.checks[1], r.lowerings[1])

Faithful(r) ==
    /\ r.kind = "bound" => Retained(r)
    /\ r.kind = "conjunction" /\ Composable(r) => Composed(r) \in Verified /\ Retained(Composed(r))

-----------------------------------------------------------------------------
(* Roots, integrals and eventual bounds have one certificate. *)

RenderSystemRoot(r) ==
    IF r.known /\ CoreExpression(r.expr)
      THEN {States("unique", <<r.expr>>, r.box)}
             \cup (IF r.unique THEN {} ELSE {States("exists", <<r.expr>>, r.box)})
      ELSE {}

RenderEventual(r) ==
    IF r.known THEN {States("eventually_le", <<r.expr, r.bound>>, r.box)} ELSE {}

RenderScalarRoot(r) ==
    IF /\ r.known /\ CoreExpression(r.expr)
       /\ IF r.claim = "excluded"
            THEN CoreSupportProof(r.expr)
            ELSE SupportProof(r.expr) /\ ContinuousProof(r.expr)
       /\ r.claim = "unique" => UsesOnlyVar0Proof(r.expr)
      THEN {States(r.claim, <<r.expr>>, r.box)} ELSE {}

IntegralForm == [eq |-> "integral_eq", lower |-> "integral_ge", upper |-> "integral_le"]

RenderIntegral(r) ==
    IF /\ r.known /\ CoreExpression(r.expr)
       /\ IF r.relation = "eq"
            THEN r.partitions = None
            ELSE r.partitions # None /\ r.partitions > 0 /\ SupportProof(r.expr)
      THEN {States(IntegralForm[r.relation], <<r.expr, r.bound>>, r.box)} ELSE {}

-----------------------------------------------------------------------------
(* What prove was asked about. *)
Claim(r) ==
    CASE r.kind = "bound" ->
           IF r.equality
             THEN {States("eq", <<r.lowerings[1].lhs, r.lowerings[1].rhs>>, r.domain)}
             ELSE {Compares(r.lowerings[k], r.domain) : k \in 1..Len(r.lowerings)}
      [] r.kind = "system_root" ->
           {States(IF r.unique THEN "unique" ELSE "exists", <<r.expr>>, r.box)}
      [] r.kind = "eventual_bound" -> {States("eventually_le", <<r.expr, r.bound>>, r.box)}
      [] r.kind = "scalar_root" -> {States(r.claim, <<r.expr>>, r.box)}
      [] r.kind = "integral" -> {States(IntegralForm[r.relation], <<r.expr, r.bound>>, r.box)}

(* The theorems of the exported source, {} when it cannot be rendered. *)
Source(r) ==
    CASE r.kind = "bound"          -> RenderBound(r)
      [] r.kind = "system_root"    -> RenderSystemRoot(r)
      [] r.kind = "eventual_bound" -> RenderEventual(r)
      [] r.kind = "scalar_root"    -> RenderScalarRoot(r)
      [] r.kind = "integral"       -> RenderIntegral(r)

=============================================================================
