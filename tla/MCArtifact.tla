----------------------------- MODULE MCArtifact -----------------------------
(* Two exporters, one destination that is free and one that holds a project *)
(* whose provenance was changed.                                            *)
EXTENDS Artifact

CONSTANTS e1, e2, d1, d2,
          f, g, logf, zero,   \* two smooth expressions, one with a logarithm, a constant
          fg, gf, h,          \* f - g, g - f, a system without a root
          c0, c1,             \* bounds
          D, E                \* boxes

MCExporters == {e1, e2}
MCDests     == {d1, d2}
MCMortal    == {e1}
MCFiles     == <<"provenance.json", "README.md">>
MCExprs     == {f, g, logf, zero, fg, gf, h}
MCNodes     == [e \in MCExprs |-> CASE e = zero -> {"const"}
                                    [] e = logf -> {"log", "var0"}
                                    [] e = g -> {"sin", "var0", "var"}
                                    [] OTHER -> {"mul", "const", "var0"}]
MCBoxes     == {D, E}
MCRationals == {c0, c1}

Managed  == [toolchain |-> "released", source |-> "canonical", revision |-> "full",
             env |-> "env", lock |-> "lock", package |-> None]
Packaged == [Managed EXCEPT !.env = None, !.lock = None, !.package = "package"]

Check(direction, bound, strict, expr) ==
    [direction |-> direction, bound |-> bound, strict |-> strict, expr |-> expr, box |-> D,
     known |-> TRUE]
Lowers(direction, bound, strict, checked, lhs, rhs) ==
    [direction |-> direction, bound |-> bound, strict |-> strict, checked |-> checked,
     lhs |-> lhs, rhs |-> rhs]

(* f <= g and 0 <= f, 0 < f: lower bounds are checked first. *)
TwoSided ==
    [kind |-> "bound", prov |-> Managed, domain |-> D, equality |-> FALSE,
     checks |-> <<Check("lower", c0, TRUE, f), Check("upper", c1, FALSE, f)>>,
     lowerings |-> <<Lowers("upper", c1, FALSE, f, f, zero), Lowers("lower", c0, TRUE, f, zero, f)>>]

Member(type, check, lowering, prov) ==
    [type |-> type, prov |-> prov, domain |-> D, checks |-> <<check>>, lowerings |-> <<lowering>>]
Equality ==
    [kind |-> "conjunction", equality |-> TRUE,
     children |-> <<Member("verified", Check("upper", c0, FALSE, fg),
                           Lowers("upper", c0, FALSE, fg, f, g), Managed),
                    Member("verified", Check("upper", c0, FALSE, gf),
                           Lowers("upper", c0, FALSE, gf, g, f), Managed)>>]
(* One member is a fact of normalization. *)
Trivial == [Equality EXCEPT !.equality = FALSE, !.children[1].type = "normalized_true"]

NoSystemRoot ==
    [kind |-> "system_root", prov |-> Packaged, known |-> TRUE, expr |-> h, box |-> D, unique |-> FALSE]
Eventually ==
    [kind |-> "eventual_bound", prov |-> [Managed EXCEPT !.toolchain = "odd", !.env = None],
     known |-> TRUE, expr |-> f, box |-> E, bound |-> c1]
Root(expr, claim, prov) ==
    [kind |-> "scalar_root", prov |-> prov, known |-> TRUE, expr |-> expr, box |-> D, claim |-> claim]
ExactIntegral ==
    [kind |-> "integral", prov |-> Managed, known |-> TRUE, expr |-> f, box |-> D, bound |-> c1,
     relation |-> "eq", partitions |-> None]

To(dest, result, verify) == [result |-> result, dest |-> dest, verify |-> verify]

MCRequests ==
    [e \in MCExporters |->
       IF e = e1
         THEN {To(d1, TwoSided, TRUE), To(d1, NoSystemRoot, TRUE), To(d1, Eventually, TRUE),
               To(d1, Root(logf, "exists", Managed), TRUE)}
         ELSE {To(d1, Equality, TRUE), To(d1, ExactIntegral, FALSE), To(d1, Trivial, TRUE),
               To(d1, Root(f, "unique", [Managed EXCEPT !.revision = "short"]), FALSE)}]

MCSound == UNION {Source(r) : r \in {TwoSided, Composed(Equality), Eventually, ExactIntegral}}

PackagedRequests == [e \in MCExporters |-> {To(d1, [TwoSided EXCEPT !.prov = Packaged], TRUE)}]

ByUser(prov) ==
    [by |-> "user", files |-> ToSet(Files), claim |-> Claim(TwoSided), source |-> Source(TwoSided),
     prov |-> prov,
     manifest |-> [claim |-> Claim(TwoSided), source |-> Source(TwoSided), prov |-> Managed]]

MCPresent == [d \in MCDests |-> IF d = d1 THEN Absent ELSE ByUser(Packaged)]
=============================================================================
