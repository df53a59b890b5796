------------------------------- MODULE Proving -------------------------------
(***************************************************************************)
(* prove of leancert/proving.py with the plans of leancert/operations: a    *)
(* claim is normalized, decided at once when it is a logical constant, and  *)
(* otherwise handed to the route of its kind.  A conjunction or an equality *)
(* that no plan takes is split into children that are proved one by one.    *)
(* The refutation search looks for a point where a bound fails.             *)
(*                                                                          *)
(* The Bridge (external) answers only what is true, but as weakly as it     *)
(* likes.  A claim is true or false by the values of its expressions at the *)
(* points of its domain, so a wrong result is the doing of the Python code. *)
(*                                                                          *)
(* Coordinates are halves and the ends of domains are whole, that is, even: *)
(* midpoints are exact, and an open interval of reals with distinct ends    *)
(* has a point inside.                                                      *)
(***************************************************************************)
EXTENDS Integers, Sequences, FiniteSets

CONSTANTS
    Coords,         \* coordinates of points
    Claims,         \* claims a caller may ask to be proved
    Numbers,        \* ends of the enclosures the Bridge may answer
    Contracts,      \* sets of operations a Bridge may advertise
    MaxCandidates,  \* RefutationConfig.max_candidates
    MayRaise        \* whether Bridge calls may raise

Origin == <<0, 0>>
Points == Coords \X Coords     \* claims bind two variables at most
Directions == {"lower", "upper"}
Relations  == {"le", "lt", "eq", "ne", "ge", "gt"}

(* An expression: whether it is a rational constant after normalization,    *)
(* mentions an external function, and is made of advertised nodes only.     *)
Expr == {e \in [const : BOOLEAN, external : BOOLEAN, plain : BOOLEAN, val : [Points -> Int]] :
           e.const => \A p \in Points : e.val[p] = e.val[Origin]}

(* The domain of a bound variable; known: an interval with rational ends,   *)
(* which the AST does not let be inverted.                                  *)
Domain == {d \in [lo : Coords, hi : Coords, closed : BOOLEAN, known : BOOLEAN,
                  sort : {"real", "integer"}] :
             d.lo % 2 = 0 /\ d.hi % 2 = 0 /\ (d.known => d.lo <= d.hi)}

Comparison == [kind : {"compare"}, lhs : Expr, rel : Relations, rhs : Expr]
Constants  == {[kind |-> "true"], [kind |-> "false"]}
SystemRoot == [kind : {"system"}, unique : BOOLEAN, closed : BOOLEAN, roots : Nat]
ScalarRoot == [kind : {"scalar"}, asks : {"exists", "unique", "excluded"}, closed : BOOLEAN,
               roots : Nat]
Eventual   == [kind : {"eventual"}, reciprocal : BOOLEAN, holds : BOOLEAN]
Integral   == [kind : {"integral"}, left : BOOLEAN, rel : Relations, bound : Int, value : Int,
               single : BOOLEAN, closed : BOOLEAN]
Other      == [kind : {"other"}, holds : BOOLEAN]   \* disjunction, negation, ...
Atom       == Comparison \cup Constants \cup SystemRoot \cup ScalarRoot \cup Eventual
                \cup Integral \cup Other
Body       == Atom \cup [kind : {"and"}, items : SUBSET Atom]
Claim      == {c \in [binders : Seq(Domain), body : Body] : Len(c.binders) <= 2}

Operations == {"check_bound", "check_strict_bound", "check_registered_enclosure",
               "check_unique_system_root", "check_scalar_root", "check_eventual_bound",
               "check_integral"}

ASSUME ProvingAssumption ==
    /\ Coords \subseteq Int /\ 0 \in Coords
    /\ \A a, b \in Coords : a..b \subseteq Coords
    /\ Claims \subseteq Claim
    /\ Numbers \subseteq Int
    /\ Contracts \subseteq SUBSET Operations
    /\ MaxCandidates \in Nat \ {0}
    /\ MayRaise \in BOOLEAN

VARIABLES
    caps,      \* operations advertised with schemas the SDK knows
    refuting,  \* RefutationConfig.enabled
    claim,     \* the claim the caller asked for
    current,   \* the normalized claim, or child, being proved
    frames,    \* conjunctions whose children are being proved, innermost first
    pc,        \* where prove is
    plan,      \* the bound plan being executed
    checks,    \* direction -> status of its check
    tried,     \* grid points whose search has begun
    probing,   \* direction probed at the last of them
    opposite,  \* twice the bound to check there, or none
    answer     \* the last result: of which claim, and its kind

search == <<tried, probing, opposite>>
vars == <<caps, refuting, claim, current, frames, pc, plan, checks, search, answer>>

-----------------------------------------------------------------------------
(* The meaning of claims                                                    *)

Within(d) == {c \in Coords : /\ d.lo <= c /\ c <= d.hi
                             /\ d.closed \/ (d.lo < c /\ c < d.hi)
                             /\ d.sort = "integer" => c % 2 = 0}

(* Points that give each bound variable a value in its domain, others 0. *)
Box(binders) == {p \in Points : \A i \in 1..2 : IF i <= Len(binders) THEN p[i] \in Within(binders[i])
                                                ELSE p[i] = 0}

Compare(m, rel, n) ==
    \/ rel = "le" /\ m <= n
    \/ rel = "lt" /\ m < n
    \/ rel = "eq" /\ m = n
    \/ rel = "ne" /\ m # n
    \/ rel = "ge" /\ m >= n
    \/ rel = "gt" /\ m > n

RootClaim(b) ==
    \/ b.asks = "exists" /\ b.roots >= 1
    \/ b.asks = "unique" /\ b.roots = 1
    \/ b.asks = "excluded" /\ b.roots = 0

Holds(atom, p) ==
    \/ atom.kind = "compare" /\ Compare(atom.lhs.val[p], atom.rel, atom.rhs.val[p])
    \/ atom.kind = "true"
    \/ atom.kind = "system" /\ IF atom.unique THEN atom.roots = 1 ELSE atom.roots >= 1
    \/ atom.kind = "scalar" /\ RootClaim(atom)
    \/ atom.kind \in {"eventual", "other"} /\ atom.holds
    \/ atom.kind = "integral" /\ IF atom.left THEN Compare(atom.value, atom.rel, atom.bound)
                                              ELSE Compare(atom.bound, atom.rel, atom.value)

Items(body) == IF body.kind = "and" THEN body.items ELSE {body}
Truth(c) == \A p \in Box(c.binders) : \A a \in Items(c.body) : Holds(a, p)

-----------------------------------------------------------------------------
(* Normalization                                                            *)

Const(b) == [kind |-> IF b THEN "true" ELSE "false"]

(* >= and > are turned round. *)
Turned(a) ==
    CASE a.rel = "ge" -> [a EXCEPT !.lhs = a.rhs, !.rel = "le", !.rhs = a.lhs]
      [] a.rel = "gt" -> [a EXCEPT !.lhs = a.rhs, !.rel = "lt", !.rhs = a.lhs]
      [] OTHER -> a

(* Mutant of Decided: an expression is less than itself. *)
DecidedLess(a) ==
    IF a.lhs = a.rhs THEN Const(a.rel # "ne")
    ELSE IF a.lhs.const /\ a.rhs.const THEN Const(Compare(a.lhs.val[Origin], a.rel, a.rhs.val[Origin]))
    ELSE a

(* A comparison of equal expressions or of constants is decided. *)
Decided(a) ==
    IF a.lhs = a.rhs THEN Const(a.rel \in {"le", "eq"})
    ELSE IF a.lhs.const /\ a.rhs.const THEN Const(Compare(a.lhs.val[Origin], a.rel, a.rhs.val[Origin]))
    ELSE a

NormalAtom(a) == IF a.kind = "compare" THEN Decided(Turned(a)) ELSE a

(* A conjunction is a set: duplicates and true members go, one false member *)
(* decides it, and a single member stands alone.                            *)
NormalAnd(items) ==
    LET kept == {NormalAtom(a) : a \in items} \ {Const(TRUE)}
    IN  IF Const(FALSE) \in kept THEN Const(FALSE)
        ELSE IF kept = {} THEN Const(TRUE)
        ELSE IF \E a \in kept : kept = {a} THEN CHOOSE a \in kept : kept = {a}
        ELSE [kind |-> "and", items |-> kept]

Normal(c) ==
    [c EXCEPT !.body = IF @.kind = "and" THEN NormalAnd(@.items) ELSE NormalAtom(@)]

Empty(d) == d.known /\ (d.lo > d.hi \/ (d.lo = d.hi /\ ~d.closed))

(* _logical_constant: false only over domains known not to be empty.        *)
IsTrue(c) ==
    \/ c.body.kind = "true"
    \/ c.body.kind = "false" /\ \E i \in DOMAIN c.binders : Empty(c.binders[i])
IsFalse(c) ==
    c.body.kind = "false" /\ \A i \in DOMAIN c.binders : c.binders[i].known /\ ~Empty(c.binders[i])

-----------------------------------------------------------------------------
(* Bound plans                                                              *)

Goal == [expr : Expr, dir : Directions, bound : Int, strict : BOOLEAN]

Difference(a, b) ==
    [const |-> FALSE, external |-> a.external \/ b.external, plain |-> a.plain /\ b.plain,
     val |-> [p \in Points |-> a.val[p] - b.val[p]]]

(* Mutant of Lowered: a strict comparison is checked like a weak one. *)
LoweredWeakly(a) ==
    IF a.rhs.const THEN [expr |-> a.lhs, dir |-> "upper", bound |-> a.rhs.val[Origin], strict |-> FALSE]
    ELSE IF a.lhs.const THEN [expr |-> a.rhs, dir |-> "lower", bound |-> a.lhs.val[Origin], strict |-> FALSE]
    ELSE [expr |-> Difference(a.lhs, a.rhs), dir |-> "upper", bound |-> 0, strict |-> FALSE]

(* _comparison_bound: an expression against a constant, or a difference     *)
(* against 0.                                                               *)
Lowered(a) ==
    LET strict == a.rel = "lt" IN
    IF a.rhs.const THEN [expr |-> a.lhs, dir |-> "upper", bound |-> a.rhs.val[Origin], strict |-> strict]
    ELSE IF a.lhs.const THEN [expr |-> a.rhs, dir |-> "lower", bound |-> a.lhs.val[Origin], strict |-> strict]
    ELSE [expr |-> Difference(a.lhs, a.rhs), dir |-> "upper", bound |-> 0, strict |-> strict]

(* plan_bound_claim takes closed rational boxes, and one bound or one lower *)
(* and one upper bound of the same expression.                              *)
Plannable(c) ==
    /\ \A i \in DOMAIN c.binders : LET d == c.binders[i] IN d.sort = "real" /\ d.known /\ d.closed
    /\ \A a \in Items(c.body) : a.kind = "compare" /\ a.rel \in {"le", "lt"}
    /\ \A a, b \in Items(c.body) :
         a # b => Lowered(a).expr = Lowered(b).expr /\ Lowered(a).dir # Lowered(b).dir

PlanOf(c) == [axes |-> c.binders, goals |-> {Lowered(a) : a \in Items(c.body)}]

NoPlan   == [axes |-> << >>, goals |-> {}]
NoChecks == [d \in Directions |-> "none"]

Meets(g, p) ==
    IF g.dir = "upper" THEN g.expr.val[p] < g.bound \/ (g.expr.val[p] = g.bound /\ ~g.strict)
    ELSE g.bound < g.expr.val[p] \/ (g.expr.val[p] = g.bound /\ ~g.strict)

OperationOf(g) == IF g.strict THEN "check_strict_bound" ELSE "check_bound"

-----------------------------------------------------------------------------
Statuses == {"verified", "inconclusive", "unsupported", "domain_obstruction"}

Established ==
    {"true", "verified", "verified_enclosure", "verified_system", "verified_root",
     "verified_eventual", "verified_integral", "conjunction"}
Kinds == Established \cup {"none", "raised", "false", "incomplete", "rejected", "obstructed",
                           "unsupported", "inconclusive", "candidate_rejected"}

NoClaim == [binders |-> << >>, body |-> Const(TRUE)]
Trivial == [of |-> NoClaim, kind |-> "none"]

Frame == [of : Claim, todo : SUBSET Claim, sound : BOOLEAN]

Init ==
    /\ caps \in Contracts /\ refuting \in BOOLEAN
    /\ claim = NoClaim /\ current = NoClaim /\ frames = << >> /\ pc = "idle"
    /\ plan = NoPlan /\ checks = NoChecks
    /\ tried = 0 /\ probing = "upper" /\ opposite = {}
    /\ answer = Trivial

(* A result for the current claim: for the caller, or for the conjunction   *)
(* it is a child of.                                                        *)
Give(kind) ==
    /\ answer' = [of |-> current, kind |-> kind]
    /\ IF frames = << >>
         THEN pc' = "done" /\ UNCHANGED frames
         ELSE pc' = "children"
              /\ frames' = [frames EXCEPT ![1].sound = @ /\ kind \in Established]

(* What no step of proving one claim changes. *)
Kept == UNCHANGED <<caps, refuting, claim, current>>

(* An exception leaves prove, whatever it was proving. *)
Raise ==
    /\ answer' = [of |-> claim, kind |-> "raised"] /\ pc' = "done" /\ UNCHANGED frames

-----------------------------------------------------------------------------
(* The caller's claim; an open claim, or `where` that does not fit, raises. *)
Prove ==
    /\ pc = "idle"
    /\ claim' \in Claims /\ current' = Normal(claim')
    /\ \/ pc' = "route" /\ UNCHANGED answer
       \/ MayRaise /\ pc' = "done" /\ answer' = [of |-> claim', kind |-> "raised"]
    /\ UNCHANGED <<caps, refuting, frames, plan, checks, search>>

At(kind) == pc = "route" /\ current.binders = << >> /\ current.body.kind = kind

(* Decided by normalization alone, without the Bridge. *)
DecideConstant ==
    /\ pc = "route"
    /\ \/ IsTrue(current) /\ Give("true")
       \/ IsFalse(current) /\ Give("false")
    /\ Kept /\ UNCHANGED <<plan, checks, search>>

Logical(c) == IsTrue(c) \/ IsFalse(c)

(* One request of a route.  Without a plan the client is not used at all;   *)
(* without the operation, or beyond the fragment the route supports, it is  *)
(* used for the handshake only.                                             *)
Ask(operation, planned, supported, verified, outcomes) ==
    /\ \/ Give("unsupported")
       \/ operation \in caps /\ supported /\ \E kind \in verified \cup outcomes : Give(kind)
       \/ planned /\ MayRaise /\ Raise
    /\ Kept /\ UNCHANGED <<plan, checks, search>>

If(condition, kind) == IF condition THEN {kind} ELSE {}

(* The Krawczyk check shows that there is exactly one root, also when only  *)
(* existence was asked for.                                                 *)
ProveSystemRoot ==
    /\ At("system")
    /\ Ask("check_unique_system_root", TRUE, current.body.closed,
           If(current.body.roots = 1, "verified_system"), {"candidate_rejected"})

ProveScalarRoot ==
    /\ At("scalar")
    /\ Ask("check_scalar_root", TRUE, current.body.closed,
           If(RootClaim(current.body), "verified_root"), {"candidate_rejected"})

(* Only q / n^k <= b has a plan. *)
ProveEventual ==
    /\ At("eventual")
    /\ Ask("check_eventual_bound", current.body.reciprocal, current.body.reciprocal,
           If(current.body.holds, "verified_eventual"), {"candidate_rejected", "inconclusive"})

HasIntegral(c) == \E a \in Items(c.body) : a.kind = "integral"

(* One integral over a closed interval, = or <= one rational constant; a    *)
(* quantified one, or one in a conjunction, is not supported.               *)
IntegralPlan(c) ==
    /\ c.binders = << >> /\ c.body.kind = "integral"
    /\ c.body.single /\ c.body.closed /\ c.body.rel \in {"le", "eq"}

(* eq, upper (the integral stands on the left) or lower. *)
IntegralRelation(b) == IF b.rel = "eq" THEN "eq" ELSE IF b.left THEN "upper" ELSE "lower"
IntegralClaim(b) ==
    \/ IntegralRelation(b) = "eq" /\ b.value = b.bound
    \/ IntegralRelation(b) = "upper" /\ b.value <= b.bound
    \/ IntegralRelation(b) = "lower" /\ b.bound <= b.value

ProveIntegral ==
    /\ pc = "route" /\ HasIntegral(current)
    /\ Ask("check_integral", IntegralPlan(current), IntegralPlan(current),
           If(IntegralPlan(current) /\ IntegralClaim(current.body), "verified_integral"),
           {"candidate_rejected", "inconclusive", "obstructed"})

-----------------------------------------------------------------------------
(* Bounds                                                                   *)

Own == pc = "route" /\ ~Logical(current) /\ ~HasIntegral(current)
       /\ ~(current.binders = << >> /\ current.body.kind \in {"system", "scalar", "eventual"})

External(p) == \E g \in p.goals : g.expr.external

(* What execute_bound_plan and execute_registered_enclosure_plan need       *)
(* before they send anything.                                               *)
Executable(p) ==
    IF External(p)
      THEN "check_registered_enclosure" \in caps /\ Len(p.axes) = 1
      ELSE \A g \in p.goals : OperationOf(g) \in caps /\ g.expr.plain

BeginBounds ==
    /\ Own /\ Plannable(current)
    /\ LET p == PlanOf(current) IN
       \/ Executable(p)
            /\ plan' = p /\ checks' = NoChecks /\ tried' = 0 /\ opposite' = {}
            /\ pc' = "check" /\ UNCHANGED <<frames, answer, probing>>
       \/ (~Executable(p) \/ External(p))    \* no profile, or not in its fragment
            /\ Give("unsupported") /\ UNCHANGED <<plan, checks, search>>
       \/ MayRaise /\ Raise /\ UNCHANGED <<plan, checks, search>>    \* the handshake
    /\ Kept

Asked == {g.dir : g \in plan.goals}
Unchecked == {d \in Asked : checks[d] = "none"}
GoalOf(d) == CHOOSE g \in plan.goals : g.dir = d

(* One request for each bound, the lower one first; a replay certificate    *)
(* for another expression, box, bound, direction or effort raises.          *)
CheckBound ==
    /\ pc = "check"
    /\ \E d \in Unchecked, s \in Statuses :
         /\ "lower" \in Unchecked => d = "lower"
         /\ s = "verified" => \A p \in Box(plan.axes) : Meets(GoalOf(d), p)
         /\ checks' = [checks EXCEPT ![d] = s]
    /\ Kept /\ UNCHANGED <<frames, pc, plan, search, answer>>

Verdict(have) ==
    IF have \subseteq {"verified"} THEN "verified"
    ELSE IF "domain_obstruction" \in have THEN "obstructed"
    ELSE IF "unsupported" \in have THEN "unsupported" ELSE "inconclusive"

Reached == Verdict({checks[d] : d \in Asked})

(* Inconclusive bounds may be refuted; registered enclosures may not.       *)
Judge ==
    /\ pc = "check" /\ Unchecked = {}
    /\ IF Reached = "inconclusive" /\ refuting /\ ~External(plan)
         THEN pc' = "point" /\ UNCHANGED <<frames, answer>>
         ELSE Give(IF Reached = "verified" /\ External(plan) THEN "verified_enclosure" ELSE Reached)
    /\ Kept /\ UNCHANGED <<plan, checks, search>>

-----------------------------------------------------------------------------
(* Refutation: midpoint and ends of every axis, in the order of product()   *)

AxisPoints(i) ==
    IF i > Len(plan.axes) THEN <<0>>
    ELSE LET d == plan.axes[i] IN
         IF d.lo = d.hi THEN <<d.lo>> ELSE <<(d.lo + d.hi) \div 2, d.lo, d.hi>>
GridSize == Len(AxisPoints(1)) * Len(AxisPoints(2))
GridPoint(k) ==
    LET n == Len(AxisPoints(2))
    IN  <<AxisPoints(1)[((k - 1) \div n) + 1], AxisPoints(2)[((k - 1) % n) + 1]>>

First == IF "lower" \in Asked THEN "lower" ELSE "upper"

(* Mutant of MorePoints: the budget is exceeded by one. *)
OnePointMore(n) == n <= MaxCandidates /\ n < GridSize

MorePoints(n) == n < MaxCandidates /\ n < GridSize

NextPoint ==
    /\ pc = "point"
    /\ IF MorePoints(tried)
         THEN tried' = tried + 1 /\ probing' = First /\ opposite' = {} /\ pc' = "probe"
              /\ UNCHANGED <<frames, answer>>
         ELSE Give("inconclusive") /\ UNCHANGED search
    /\ Kept /\ UNCHANGED <<plan, checks>>

(* Mutant of Opposite: a weak bound is refuted by a bound equal to it.      *)
OppositeAtBound(g, lo, hi) ==
    IF g.dir = "upper" THEN IF lo >= g.bound THEN {2 * g.bound} ELSE {}
    ELSE IF hi <= g.bound THEN {2 * g.bound} ELSE {}

(* Twice the bound in the other direction that an enclosure [lo, hi]        *)
(* suggests: a strict bound fails when it is reached, a weak one must be    *)
(* passed, and halfway to the enclosure will do.                            *)
Opposite(g, lo, hi) ==
    IF g.dir = "upper"
      THEN IF g.strict /\ lo >= g.bound THEN {2 * g.bound}
           ELSE IF lo > g.bound THEN {g.bound + lo} ELSE {}
      ELSE IF g.strict /\ hi <= g.bound THEN {2 * g.bound}
           ELSE IF hi < g.bound THEN {g.bound + hi} ELSE {}

AfterProbe == IF probing = "lower" /\ "upper" \in Asked THEN "probe" ELSE "point"
Here(g) == g.expr.val[GridPoint(tried)]

Probe ==
    /\ pc = "probe" /\ "check_bound" \in caps
    /\ LET g == GoalOf(probing) IN
       \E lo, hi \in Numbers :
         /\ lo <= Here(g) /\ Here(g) <= hi
         /\ opposite' = Opposite(g, lo, hi)
         /\ IF opposite' # {} THEN pc' = "refute" /\ UNCHANGED probing
                              ELSE pc' = AfterProbe /\ probing' = "upper"
    /\ Kept /\ UNCHANGED <<frames, plan, checks, tried, answer>>

(* Only a verified check of the opposite bound at the point refutes.        *)
Refute ==
    /\ pc = "refute"
    /\ LET g == GoalOf(probing) IN
       \/ /\ \A b \in opposite : IF g.dir = "upper" THEN b <= 2 * Here(g) ELSE 2 * Here(g) <= b
          /\ Give("rejected") /\ UNCHANGED search
       \/ pc' = AfterProbe /\ probing' = "upper" /\ opposite' = {}
            /\ UNCHANGED <<frames, answer, tried>>
    /\ Kept /\ UNCHANGED <<plan, checks>>

(* A request raises; no handler in prove catches it.  The client refuses    *)
(* the probe of a strict bound when check_bound itself is not advertised.   *)
BridgeRaises ==
    /\ \/ MayRaise /\ (pc \in {"probe", "refute"} \/ (pc = "check" /\ Unchecked # {}))
       \/ pc = "probe" /\ "check_bound" \notin caps
    /\ Raise /\ Kept /\ UNCHANGED <<plan, checks, search>>

-----------------------------------------------------------------------------
(* Conjunctions and equalities                                              *)

Equality(c) == c.body.kind = "compare" /\ c.body.rel = "eq"

Weak(l, r) == [kind |-> "compare", lhs |-> l, rel |-> "le", rhs |-> r]

(* Every binder is put round every member. *)
Children(c) ==
    IF c.body.kind = "and" THEN {Normal([c EXCEPT !.body = a]) : a \in c.body.items}
    ELSE {Normal([c EXCEPT !.body = Weak(c.body.lhs, c.body.rhs)]),
          Normal([c EXCEPT !.body = Weak(c.body.rhs, c.body.lhs)])}

Splits(c) == c.body.kind = "and" \/ Equality(c)

Split ==
    /\ Own /\ ~Plannable(current) /\ Splits(current)
    /\ frames' = <<[of |-> current, todo |-> Children(current), sound |-> TRUE]>> \o frames
    /\ pc' = "children"
    /\ Kept /\ UNCHANGED <<plan, checks, search, answer>>

Unplanned ==
    /\ Own /\ ~Plannable(current) /\ ~Splits(current)
    /\ Give("unsupported")
    /\ Kept /\ UNCHANGED <<plan, checks, search>>

(* Mutant of Rest: a child is proved again. *)
RestAndAgain(todo, c) == todo

Rest(todo, c) == todo \ {c}

NextChild ==
    /\ pc = "children"
    /\ \E c \in frames[1].todo :
         /\ current' = c /\ pc' = "route"
         /\ frames' = [frames EXCEPT ![1].todo = Rest(@, c)]
    /\ UNCHANGED <<caps, refuting, claim, plan, checks, search, answer>>

(* All children have a result. *)
Aggregate ==
    /\ pc = "children" /\ frames[1].todo = {}
    /\ LET kind == IF frames[1].sound THEN "conjunction" ELSE "incomplete"
           outer == Tail(frames)
       IN  /\ answer' = [of |-> frames[1].of, kind |-> kind]
           /\ frames' = IF outer = << >> THEN outer
                        ELSE [outer EXCEPT ![1].sound = @ /\ kind \in Established]
           /\ pc' = IF outer = << >> THEN "done" ELSE "children"
           /\ current' = frames[1].of
    /\ UNCHANGED <<caps, refuting, claim, plan, checks, search>>

-----------------------------------------------------------------------------
Working ==
    \/ DecideConstant
    \/ ProveSystemRoot \/ ProveScalarRoot \/ ProveEventual \/ ProveIntegral
    \/ BeginBounds \/ CheckBound \/ Judge
    \/ NextPoint \/ Probe \/ Refute \/ BridgeRaises
    \/ Split \/ Unplanned \/ NextChild \/ Aggregate

Finished == pc = "done" /\ UNCHANGED vars

Next == Prove \/ Working \/ Finished

(* The thread that called prove runs on: every Bridge call returns or       *)
(* raises, as CallsReturn of BridgeClient says.                             *)
Spec == Init /\ [][Next]_vars /\ WF_vars(Working)

-----------------------------------------------------------------------------
(* Properties *)

TypeOK ==
    /\ caps \in Contracts /\ refuting \in BOOLEAN
    /\ claim \in Claim /\ current \in Claim
    /\ frames \in Seq(Frame)
    /\ pc \in {"idle", "route", "check", "point", "probe", "refute", "children", "done"}
    /\ pc = "children" => frames # << >>
    /\ plan.goals \subseteq Goal /\ plan.axes \in Seq(Domain)
    /\ checks \in [Directions -> Statuses \cup {"none"}]
    /\ tried \in 0..MaxCandidates
    /\ probing \in Directions /\ opposite \subseteq Int
    /\ answer.of \in Claim /\ answer.kind \in Kinds

(* An established result is of a true claim: whichever route established    *)
(* it, over an empty domain, with strict and weak bounds on both sides,     *)
(* after subtraction of one side, as an equality or as a conjunction whose  *)
(* children took different routes.                                          *)
ProvedTrue == answer.kind \in Established => Truth(answer.of)

(* A rejected claim, and one that normalization decides to be false, is     *)
(* false: a weak bound that is only reached is not refuted, and nothing     *)
(* is false over a domain that may be empty.                                *)
RefutedFalse == answer.kind \in {"rejected", "false"} => ~Truth(answer.of)

(* The caller's result is about the caller's claim, however often it was    *)
(* split, and its normal form means the same.                               *)
AnswersTheClaim ==
    pc = "done" /\ answer.kind # "raised" =>
      frames = << >> /\ (Truth(answer.of) <=> Truth(claim))

(* Every call of prove ends, whatever the Bridge answers or raises.         *)
Ends == pc # "idle" ~> pc = "done"
=============================================================================
